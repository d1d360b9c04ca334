---------------------------- MODULE MCValidator -----------------------------
(***************************************************************************)
(* Small instances of the validator for TLC.                               *)
(***************************************************************************)
EXTENDS Promises, Samples

CONSTANTS c1, c2, missing, unreadable, absent, none

CallSymmetry == Permutations(Call)

-----------------------------------------------------------------------------
(* Services under two ConfigMaps: the first has one rule for the kind, the *)
(* second spreads the paths over two rules and adds one of another kind.   *)

Services == {Service("flexible", "standard", 1), Service("flexible", "premium", 1),
             Service("flexible", "premium", 2), Service("rigid", "standard", 1)}

OneRule  == [labels |-> <<>>,
             immutables |-> <<Immutables("Service", {"Spec.Plan", "Spec.Replicas"})>>,
             exclusives |-> <<>>]
TwoRules == [labels |-> <<>>,
             immutables |-> <<Immutables("Service", {"Spec.Replicas"}),
                              Immutables("Index", {"Spec.Key"}),
                              Immutables("Service", {"Spec.Plan", "Spec.ServiceClass"})>>,
             exclusives |-> Unreadable]
ServiceConfigs == {OneRule, TwoRules}

\* What the webhook is registered for changes while it reviews.
ServiceWatched == {{"CREATE", "UPDATE"} \X {"svc"}}
ServiceRewatched == {{"UPDATE"} \X {"svc"}, {"CREATE", "DELETE"} \X {"svc"}}

-----------------------------------------------------------------------------
(* Services a handler may panic on or misread: one without a spec, one     *)
(* whose replicas are an object, one that spells them twice.  The rules    *)
(* come and go, and every call may be lost.                                *)

Plan(plan)  == "spec.serviceClass" :> Text("flexible") @@ "spec.plan" :> Text(plan)
Replicas(n) == [labels |-> {"team"}, spec |-> Plan("standard") @@ n]

OddServices ==
  {[labels |-> {"team"}, spec |-> missing],
   Replicas("spec.replicas" :> Number(1)),
   Replicas("spec.replicas" :> Object(1)),
   Replicas("spec.replicas" :> Number(1) @@ "spec.Replicas" :> Number(2)),
   [labels |-> {}, spec |-> Plan("premium") @@ "spec.replicas" :> Number(2)]}

OddConfigs ==
  {[labels |-> <<Labels("Service", {"team"})>>,
    immutables |-> <<Immutables("Service", {"Spec.Replicas"}),
                     Immutables("Service", {"Spec.Plan"})>>,
    exclusives |-> <<>>],
   [labels |-> Unreadable, immutables |-> Unreadable, exclusives |-> Unreadable]}

-----------------------------------------------------------------------------
(* Indices with two exclusive sources, an immutable key and a label.       *)

Index(labels, from, uri, key) ==
  [labels |-> labels,
   spec |-> "spec.from" :> from @@ "spec.uri" :> uri @@ "spec.key" :> key]

Indices == {Index({"team"}, Object(1), Null, Text("k")),
            Index({"team"}, Object(0), Object(1), Text("k")),
            Index({"team"}, Object(1), Object(1), Text("k")),
            Index({"team"}, Object(1), Null, Text("l")),
            Index({}, Null, Object(1), Text("k"))}

SourceRules == <<Exclusives("Index", {<<"Spec.From", "Spec.Uri", "Spec.Token">>})>>
IndexRules  == [labels |-> <<Labels("Service", {"owner"}), Labels("Index", {"team"})>>,
                immutables |-> <<Immutables("Index", {"Spec.Key"})>>,
                exclusives |-> SourceRules]

IndexConfigs == {IndexRules,
                 [IndexRules EXCEPT !.immutables =
                    <<Immutables("Index", {"Spec.Token"}),
                      Immutables("Index", {"Spec.Key"})>>]}
IndexWatched == {{"CREATE", "UPDATE"} \X {"idx"}}
=============================================================================
