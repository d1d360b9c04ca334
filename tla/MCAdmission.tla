---------------------------- MODULE MCAdmission -----------------------------
(***************************************************************************)
(* One Service whose class is immutable and whose plan is so at times, and *)
(* a process that registers for updates of it.                             *)
(***************************************************************************)
EXTENDS Admission, Samples

CONSTANTS c1, missing, unreadable, unnamed, absent, none

Pair(op)  == <<op, "svc">>
Asks(op)  == [complete |-> TRUE, accepted |-> TRUE, pairs |-> {Pair(op)}]
OneFile   == [name |-> unnamed, rules |-> <<Asks("UPDATE")>>]
OneSetting == {[validating |-> OneFile, mutating |-> unreadable, mutation |-> FALSE]}

Services == {Service("flexible", "standard", 1), Service("rigid", "premium", 1)}
Fixes(paths) == [labels |-> <<>>, exclusives |-> <<>>,
                 immutables |-> <<Immutables("Service", paths)>>]
FixClass == {Fixes({"Spec.Plan", "Spec.ServiceClass"}), Fixes({"Spec.ServiceClass"})}

\* What OnlyOutagesAdmit supposes of objects, rules and the catalog.
ASSUME AdmissionAssumption ==
  Review!NoPanics /\ Review!TextsAreMeanings /\ Review!FirstEntryIsRight
=============================================================================
