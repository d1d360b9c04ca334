----------------------------- MODULE MCFindings -----------------------------
(***************************************************************************)
(* Instances in which the validator does not do what its documentation     *)
(* says.  Each one leaves the intended conditions of MCValidator in one    *)
(* respect.                                                                *)
(***************************************************************************)
EXTENDS MCValidator

Only(labels, immutables, exclusives) ==
  {[labels |-> labels, immutables |-> immutables, exclusives |-> exclusives]}

\* An immutable path that holds an object.
FixReplicas == Only(<<>>, <<Immutables("Service", {"Spec.Replicas"})>>, <<>>)

Objects == {Replicas("spec.replicas" :> Object(n)) : n \in {1, 2}}

\* The same path holding a number Go prints as 1e+06.
Million == {Replicas("spec.replicas" :> Number(1000000))}

\* Two exclusive parameters that are strings.
Strings     == {Index({}, Text("a"), Text("b"), Text("k")),
                Index({}, Text("a"), Null, Text("k"))}
SourcesOnly == Only(<<>>, <<>>, SourceRules)

\* A listing that starts with an entry that is no service.
MixedListings ==
  [text \in DOMAIN Listings |->
     <<[kind |-> "iaas", name |-> "other", updateable |-> TRUE],
       [kind |-> "service", name |-> "it", updateable |-> FALSE]>>]
Plans   == {Service("rigid", "standard", 1), Service("rigid", "premium", 1)}
FixPlan == Only(<<>>, <<Immutables("Service", {"Spec.Plan"})>>, <<>>)

\* Two ConfigMaps that both forbid one update: for its key, for its sources.
KeyThenSource ==
  Only(<<>>, <<Immutables("Index", {"Spec.Key"})>>, <<>>) \cup SourcesOnly
Torn == {Index({}, Object(1), Null, Text("k")), Index({}, Object(1), Object(1), Text("l"))}
=============================================================================
