----------------------------- MODULE Validator ------------------------------
(***************************************************************************)
(* The validating webhook: AdmissionValidator.Handle and what it calls.    *)
(*                                                                         *)
(* The webhook serves every call in a goroutine of its own and keeps no    *)
(* state between calls.  A handler is cut where it reads something others  *)
(* write: the mounted rules (once per validation), the object in the       *)
(* cluster (once per matching rule) and the catalog.  Nothing holds the    *)
(* rules or the object still between two of these reads.                   *)
(***************************************************************************)
EXTENDS ApiServer

VARIABLES
  at,   \* call -> the step its handler takes next
  local \* call -> the local variables of its handler

vars == <<store, rules, watched, pc, req, stale, seen, at, local>>

Step == {"none", "labels", "immutables", "fetch", "catalog", "exclusives"}

(***************************************************************************)
(* The locals of validateImmutables that outlive a step: the parsed spec,  *)
(* the rules read from the ConfigMap, those the loop has yet to compare,   *)
(* allowed, and the class the catalog is being asked about.                *)
(***************************************************************************)
Blank == [new |-> <<>>, rules |-> <<>>, todo |-> {}, allowed |-> TRUE,
          class |-> Sprint(DecodeCluster(Null))]

FlatMaps   == UNION {Parse(b.spec) : b \in {d \in Body : d.spec # NoSpec}}
RuleLists  == {cfg.immutables : cfg \in Config} \ {Unreadable}
ClassTexts == {ClassText(flat) : flat \in FlatMaps}

Local == [new     : FlatMaps \cup {Blank.new},
          rules   : RuleLists \cup {Blank.rules},
          todo    : SUBSET UNION {DOMAIN list : list \in RuleLists},
          allowed : BOOLEAN,
          class   : ClassTexts \cup {Blank.class}]

\* A handler runs exactly for the calls under review; it has locals exactly
\* while it compares immutable paths, and then a rule left to compare.  Past
\* the first step it has an object to work on.
TypeOK ==
  /\ ApiTypeOK
  /\ at \in [Call -> Step]
  /\ \A c \in Call : at[c] = "none" <=> pc[c] # "review"
  /\ local \in [Call -> Local]
  /\ \A c \in Call : local[c].todo \subseteq DOMAIN local[c].rules
  /\ \A c \in Call : at[c] \in {"none", "labels"} \/ req[c].op # "DELETE"
  /\ \A c \in Call : IF at[c] \in {"fetch", "catalog"} THEN local[c].todo # {}
                      ELSE local[c] = Blank

Init ==
  /\ ApiInit
  /\ at = [c \in Call |-> "none"]
  /\ local = [c \in Call |-> Blank]

-----------------------------------------------------------------------------
\* A handler whose locals outlive the call (kept in the AdmissionValidator).
ReturnKeepingLocals(c, verdict) ==
  /\ Answer(c, verdict)
  /\ at' = [at EXCEPT ![c] = "none"]
  /\ UNCHANGED local

\* The handler returns, panics or is cut off.
Return(c, verdict) ==
  /\ Answer(c, verdict)
  /\ at' = [at EXCEPT ![c] = "none"]
  /\ local' = [local EXCEPT ![c] = Blank]

Continue(c, step, l) ==
  /\ at' = [at EXCEPT ![c] = step]
  /\ local' = [local EXCEPT ![c] = l]
  /\ UNCHANGED apiVars

AfterImmutables(c) ==
  IF ExclusivesOn THEN Continue(c, "exclusives", Blank) ELSE Return(c, "allowed")

AfterLabels(c) ==
  IF req[c].op = "UPDATE" /\ ImmutablesOn
  THEN Continue(c, "immutables", Blank) ELSE AfterImmutables(c)

\* getObjectMeta and validateLabels.  A DELETE carries no object to decode.
CheckLabels(c) ==
  /\ at[c] = "labels"
  /\ IF \/ req[c].op = "DELETE"
        \/ LabelsOn /\ ~LabelsAllowed(rules.labels, Kind(Target(c)), New(c).labels)
     THEN Return(c, "denied")
     ELSE AfterLabels(c)

-----------------------------------------------------------------------------
(* validateImmutables *)

Matching(c) ==
  IF rules.immutables = Unreadable THEN {}
  ELSE MatchingKind(rules.immutables, Kind(Target(c)))

NothingCompared(c, new) ==
  [new |-> new, rules |-> rules.immutables, todo |-> Matching(c),
   allowed |-> TRUE, class |-> Blank.class]

\* The request is parsed, then the rules are read.
ReadImmutables(c) ==
  /\ at[c] = "immutables"
  /\ IF ~ReadableByImmutables(Target(c), New(c)) THEN Return(c, "failed")
     ELSE IF Matching(c) = {} THEN AfterImmutables(c)
     ELSE \E new \in Parse(New(c).spec) :
            Continue(c, "fetch", NothingCompared(c, new))

\* The rule the loop has reached.
Current(l) == {k \in l.todo : \A j \in l.todo : k <= j}

\* A rule is compared: what an earlier one, or an earlier path of this one,
\* has rejected stays rejected.
ComparedLastWins(l, k, ok) ==
  [l EXCEPT !.todo = @ \ {k}, !.allowed = ok, !.class = Blank.class]
ComparedAgain(l, k, ok) ==
  [l EXCEPT !.allowed = @ /\ ok, !.class = Blank.class]
Compared(l, k, ok) ==
  [l EXCEPT !.todo = @ \ {k}, !.allowed = @ /\ ok, !.class = Blank.class]

\* The plan is changed: the catalog is asked about the class.
Asking(l, ok, class) == [l EXCEPT !.allowed = @ /\ ok, !.class = class]

AfterFirstRule(c, l) ==
  IF l.allowed THEN AfterImmutables(c) ELSE Return(c, "denied")
AfterRule(c, l) ==
  IF l.todo # {} THEN Continue(c, "fetch", l)
  ELSE IF l.allowed THEN AfterImmutables(c) ELSE Return(c, "denied")

ChangedPaths(c, k, old) == Changed(local[c].rules[k], old, local[c].new)
ChangedForbidden(c, k, old) ==
  {q \in ChangedPaths(c, k, old) : ~IsPlan(Kind(Target(c)), q)}

Compare(c, k, old) ==
  IF Crashes(local[c].rules[k], old, local[c].new) THEN Return(c, "failed")
  ELSE IF ChangedPaths(c, k, old) = ChangedForbidden(c, k, old)
  THEN AfterRule(c, Compared(local[c], k, ChangedForbidden(c, k, old) = {}))
  ELSE Continue(c, "catalog",
         Asking(local[c], ChangedForbidden(c, k, old) = {}, ClassText(old)))

\* The object in the cluster is fetched, again for every matching rule, and
\* compared with the request.
FetchExisting(c) ==
  /\ at[c] = "fetch"
  /\ store[Target(c)] # Absent
  /\ IF store[Target(c)].spec = NoSpec THEN Return(c, "failed")
     ELSE \E k \in Current(local[c]) :
            \E old \in Parse(store[Target(c)].spec) : Compare(c, k, old)

FetchFailsOpen(c) ==
  /\ at[c] = "fetch"
  /\ store[Target(c)] = Absent \/ NetworkFaults
  /\ AfterImmutables(c)

\* The object is gone, or the API server does not answer.
FetchFails(c) ==
  /\ at[c] = "fetch"
  /\ store[Target(c)] = Absent \/ NetworkFaults
  /\ Return(c, "denied")

Replies(class) == {Reply(class)} \cup IF NetworkFaults THEN {NoReply} ELSE {}

AskCatalog(c) ==
  /\ at[c] = "catalog"
  /\ \E k \in Current(local[c]) : \E reply \in Replies(local[c].class) :
       AfterRule(c, Compared(local[c], k, Updateable(reply)))

-----------------------------------------------------------------------------
\* validateExclusives: the request is parsed anew, then the rules are read.
CheckExclusives(c) ==
  /\ at[c] = "exclusives"
  /\ IF ~ReadableByExclusives(Target(c), New(c)) THEN Return(c, "failed")
     ELSE \E new \in Parse(New(c).spec) :
            Return(c, IF ExclusivesAllowed(rules.exclusives, TypeOf[Target(c)], new)
                      THEN "allowed" ELSE "denied")

\* The call does not reach the webhook, its answer does not come back, the
\* webhook restarts, or the API server stops waiting.
CallFails(c) ==
  /\ pc[c] = "review"
  /\ NetworkFaults
  /\ Return(c, "failed")

-----------------------------------------------------------------------------
Begin(c) ==
  /\ \E r \in Request : Submit(c, r)
  /\ at' = [at EXCEPT ![c] = IF pc'[c] = "review" THEN "labels" ELSE "none"]
  /\ UNCHANGED local

End(c) == Complete(c) /\ UNCHANGED <<at, local>>

Handler(c) ==
  \/ CheckLabels(c)
  \/ ReadImmutables(c)
  \/ FetchExisting(c) \/ FetchFails(c) \/ AskCatalog(c)
  \/ CheckExclusives(c)

Next ==
  \/ (ChangeRules \/ Reregister) /\ UNCHANGED <<at, local>>
  \/ \E c \in Call : Begin(c) \/ Handler(c) \/ CallFails(c) \/ End(c)

Spec == Init /\ [][Next]_vars
=============================================================================
