---------------------------- MODULE AtomicReview ----------------------------
(***************************************************************************)
(* What a review promises, as if it were decided in one step.              *)
(*                                                                         *)
(* Each of the three validations answers for one of the ConfigMaps that    *)
(* were mounted during the review.  The immutable paths are compared with  *)
(* the object the request will replace: the one in the store, unless it    *)
(* has been written meanwhile, in which case the request cannot be applied *)
(* and its verdict does not matter.                                        *)
(*                                                                         *)
(* The variables are those of ApiServer, which Validator extends with the  *)
(* handlers' own: the refinement mapping is the identity, and the module   *)
(* is extended where the refinement is stated.                             *)
(***************************************************************************)
EXTENDS ApiServer

LabelsPass(c, cfg) ==
  LabelsOn => LabelsAllowed(cfg.labels, Kind(Target(c)), New(c).labels)

\* The immutable rules of a ConfigMap the update is compared under.
RulesFor(c, cfg) ==
  IF cfg.immutables = Unreadable THEN {}
  ELSE {cfg.immutables[i] : i \in MatchingKind(cfg.immutables, Kind(Target(c)))}

Comparing(c) == ImmutablesOn /\ req[c].op = "UPDATE"

\* A rule finds its paths as they are in the stored object, or a plan that
\* the catalog lets change.
RuleKeeps(c, rule, new) ==
  Unmoved(c) =>
    /\ store[Target(c)].spec # NoSpec
    /\ \E old \in Parse(store[Target(c)].spec) : Keeps(Kind(Target(c)), rule, old, new)

\* A rule finds a path changed that the catalog does not let change, or that
\* it could not be asked about, or the stored object could not be fetched.
RuleRejects(c, rule, new) ==
  \/ ~Unmoved(c)
  \/ NetworkFaults
  \/ /\ store[Target(c)].spec # NoSpec
     /\ \E old \in Parse(store[Target(c)].spec) :
          ~Crashes(rule, old, new) /\ ~Keeps(Kind(Target(c)), rule, old, new)

\* The handler panics on the stored object, or on the two together.
RulePanics(c, rule, new) ==
  \/ ~Unmoved(c)
  \/ store[Target(c)].spec = NoSpec
  \/ \E old \in Parse(store[Target(c)].spec) : Crashes(rule, old, new)

ImmutablesPass(c, cfg) ==
  Comparing(c) =>
    /\ ReadableByImmutables(Target(c), New(c))
    /\ \E new \in Parse(New(c).spec) :
         \A rule \in RulesFor(c, cfg) : RuleKeeps(c, rule, new)

ImmutablesReject(c, cfg) ==
  /\ Comparing(c)
  /\ ReadableByImmutables(Target(c), New(c))
  /\ \E new \in Parse(New(c).spec) :
       \E rule \in RulesFor(c, cfg) : RuleRejects(c, rule, new)

ExclusivesPass(c, cfg) ==
  ExclusivesOn =>
    /\ ReadableByExclusives(Target(c), New(c))
    /\ \E new \in Parse(New(c).spec) :
         ExclusivesAllowed(cfg.exclusives, TypeOf[Target(c)], new)

ExclusivesReject(c, cfg) ==
  /\ ExclusivesOn
  /\ ReadableByExclusives(Target(c), New(c))
  /\ \E new \in Parse(New(c).spec) :
       ~ExclusivesAllowed(cfg.exclusives, TypeOf[Target(c)], new)

\* The handler panics on the object under review.
PanicsOnNew(c) ==
  \/ Comparing(c) /\ ~ReadableByImmutables(Target(c), New(c))
  \/ ExclusivesOn /\ ~ReadableByExclusives(Target(c), New(c))

PanicsOnOld(c, cfg) ==
  /\ Comparing(c)
  /\ ReadableByImmutables(Target(c), New(c))
  /\ \E new \in Parse(New(c).spec) :
       \E rule \in RulesFor(c, cfg) : RulePanics(c, rule, new)

-----------------------------------------------------------------------------
Allow(c) ==
  /\ pc[c] = "review"
  /\ Answer(c, "allowed")
  /\ req[c].op # "DELETE"
  /\ \E cfg \in seen[c] : LabelsPass(c, cfg)
  /\ \E cfg \in seen[c] : ImmutablesPass(c, cfg)
  /\ \E cfg \in seen[c] : ExclusivesPass(c, cfg)

Deny(c) ==
  /\ pc[c] = "review"
  /\ Answer(c, "denied")
  /\ req[c].op # "DELETE" =>
       \E cfg \in seen[c] : \/ ~LabelsPass(c, cfg)
                            \/ ImmutablesReject(c, cfg)
                            \/ ExclusivesReject(c, cfg)

\* The call is lost, or the handler panics.
Fail(c) ==
  /\ pc[c] = "review"
  /\ Answer(c, "failed")
  /\ \/ NetworkFaults
     \/ req[c].op # "DELETE" /\ (PanicsOnNew(c) \/ \E cfg \in seen[c] : PanicsOnOld(c, cfg))

AtomicNext ==
  \/ ChangeRules \/ Reregister
  \/ \E c \in Call : \/ \E r \in Request : Submit(c, r)
                     \/ Complete(c)
                     \/ Allow(c) \/ Deny(c) \/ Fail(c)

AtomicSpec == ApiInit /\ [][AtomicNext]_apiVars
=============================================================================
