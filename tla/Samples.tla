------------------------------ MODULE Samples -------------------------------
(***************************************************************************)
(* Values, names, rules and listings the instances are made of.            *)
(***************************************************************************)
EXTENDS Integers, Sequences, TLC

Text(t)   == [json |-> "string", val |-> <<"text", t>>]
Number(n) == [json |-> "integer", val |-> n]
Object(x) == [json |-> "object", val |-> x]

\* strings.ToLower on every name of the instances.
LowerNames ==
  ("Spec.Plan" :> "spec.plan") @@ ("spec.plan" :> "spec.plan") @@
  ("spec.serviceClass" :> "spec.serviceclass") @@
  ("Spec.ServiceClass" :> "spec.serviceclass") @@
  ("Spec.Replicas" :> "spec.replicas") @@ ("spec.replicas" :> "spec.replicas") @@
  ("spec.Replicas" :> "spec.replicas") @@
  ("Spec.From" :> "spec.from") @@ ("spec.from" :> "spec.from") @@
  ("Spec.Token" :> "spec.token") @@ ("Spec.Uri" :> "spec.uri") @@ ("spec.uri" :> "spec.uri") @@
  ("Spec.Key" :> "spec.key") @@ ("spec.key" :> "spec.key") @@
  ("Service" :> "service") @@ ("Index" :> "index")

Type(kind, group) ==
  [kind |-> kind, group |-> group, version |-> "v1alpha1", namespaced |-> TRUE]

ServiceType == [svc |-> Type("Service", "ibmcloud.ibm.com")]
IndexType   == [idx |-> Type("Index", "ibmcloud.ibm.com")]

\* Two services the catalog lists: one whose plan may change, one not.
CatalogEntry(updateable) ==
  <<[kind |-> "service", name |-> "it", updateable |-> updateable]>>

Listings == (<<"text", "flexible">> :> CatalogEntry(TRUE)) @@
            (<<"text", "rigid">> :> CatalogEntry(FALSE)) @@
            (<<"text", "<nil>">> :> <<>>)

Immutables(kind, paths) ==
  [kind |-> kind, group |-> "ibmcloud.ibm.com", version |-> "v1alpha1",
   immutables |-> paths]
Exclusives(kind, lists) ==
  [kind |-> kind, group |-> "ibmcloud.ibm.com", version |-> "",
   exclusives |-> lists]
Labels(kind, labels) ==
  [kind |-> kind, group |-> "ibmcloud.ibm.com", version |-> "v1alpha1",
   labels |-> labels]

Service(class, plan, replicas) ==
  [labels |-> {"team"},
   spec |-> ("spec.serviceClass" :> Text(class)) @@ ("spec.plan" :> Text(plan))
              @@ ("spec.replicas" :> Number(replicas))]
=============================================================================
