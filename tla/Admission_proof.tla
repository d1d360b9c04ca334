---------------------------- MODULE Admission_proof ---------------------------
(***************************************************************************)
(* The whole, for any settings, requests and number of faults: it behaves  *)
(* as the process does by itself, and as the validator does by itself, so  *)
(* that the theorems about both hold of it; and only an outage admits what *)
(* the rules forbid.                                                       *)
(***************************************************************************)
EXTENDS Admission, Startup_proof

-----------------------------------------------------------------------------
(* The process, among requests.                                            *)

LEMMA ProcessStep == [AdmissionNext]_admissionVars => [Next]_vars
BY DEF AdmissionNext, admissionVars, Around, NewRules, Arrive, Handle, Lost, Finish

(***************************************************************************)
(* Requests do not change what the process does: every behaviour of the    *)
(* whole is one of Registration, so that its theorems hold (Start, and     *)
(* RefreshCert, which only wait for handlers).                             *)
(***************************************************************************)
THEOREM ProcessComposes == AdmissionSpec => Spec
<1>1. AdmissionInit => Init
  BY DEF AdmissionInit
<1> QED
  BY <1>1, ProcessStep, PTL DEF AdmissionSpec, Spec

LEMMA AdmissionTyped == AdmissionSpec => []TypeInv
BY ProcessComposes, AlwaysTyped, PTL

-----------------------------------------------------------------------------
(* The reviews, in the process.                                            *)

\* What is registered asks for operations on the resources there are.
WatchedTyped == Reviewed \subseteq Asking

LEMMA ReviewedTyped == TypeInv => WatchedTyped
<1> SUFFICES ASSUME TypeInv, NEW o \in Configuration, registered[o] # None
             PROVE  Pairs(registered[o].rules) \subseteq Asking
  BY DEF WatchedTyped, Reviewed
<1>1. registered[o].rules \in AnyRules
  BY DEF TypeInv
<1>2. CASE registered[o].rules \in Edits
  BY <1>2, PairsAssumption
<1>3. ASSUME NEW f \in Files, NEW p \in DOMAIN Built(f), registered[o].rules = Built(f)[p]
      PROVE  Pairs(registered[o].rules) \subseteq Asking
  <2>1. PICK t \in Switched(f) : p = <<t, NameOf(t, f[t])>> /\ Asked(f[t]) # <<>>
    BY DEF Built
  <2>2. t \in WebhookType /\ f[t] # Unreadable /\ p[1] = t
    BY <2>1 DEF Switched, WebhookType, Asked
  <2>3. registered[o].rules = Asked(f[p[1]])
    BY <1>3 DEF Built
  <2>4. Pairs(Asked(f[t])) \subseteq Listed(f[t]) /\ Listed(f[t]) \subseteq Asking
    BY <2>2, AskedIsListed, PairsAssumption
  <2> QED
    BY <2>2, <2>3, <2>4
<1> QED
  BY <1>1, <1>2, <1>3 DEF AnyRules, Declared

LEMMA ReviewStep ==
  ASSUME WatchedTyped', [AdmissionNext]_admissionVars
  PROVE  [Review!Next]_(Review!vars)
<1>1. CASE Around(Next)
  <2>1. UNCHANGED reviewVars
    BY <1>1 DEF Around
  <2>2. CASE Reviewed' = Reviewed
    BY <2>1, <2>2 DEF reviewVars, Review!vars
  <2>3. CASE Reviewed' # Reviewed
    BY <2>1, <2>3 DEF WatchedTyped, reviewVars, Review!Next, Review!Reregister
  <2> QED
    BY <2>2, <2>3
<1>2. CASE NewRules
  BY <1>2 DEF NewRules, Review!Next
<1>3. ASSUME NEW c \in Call, Arrive(c) \/ Handle(c) \/ Lost(c) \/ Finish(c)
      PROVE  Review!Next
  BY <1>3 DEF Arrive, Handle, Lost, Finish, Review!Next
<1>4. CASE UNCHANGED admissionVars
  <2>1. UNCHANGED <<reviewVars, registered>>
    BY <1>4 DEF admissionVars, vars
  <2> QED
    BY <2>1 DEF reviewVars, Review!vars, Reviewed
<1> QED
  BY <1>1, <1>2, <1>3, <1>4 DEF AdmissionNext

(***************************************************************************)
(* A process that starts, registers, renews its certificate and crashes    *)
(* reviews as Validator says: the theorems about reviews hold of it.       *)
(***************************************************************************)
THEOREM ReviewsCompose == AdmissionSpec => ImplementsReview
<1>1. AdmissionInit => Review!Init
  BY DEF AdmissionInit
<1>2. WatchedTyped' /\ [AdmissionNext]_admissionVars => [Review!Next]_(Review!vars)
  BY ReviewStep
<1> QED
  BY <1>1, <1>2, AdmissionTyped, ReviewedTyped, PTL DEF AdmissionSpec, ImplementsReview, Review!Spec

-----------------------------------------------------------------------------
(* The lemmas about reviews speak of the reviews of the process, too.  An  *)
(* instance of their module has definitions of its own: what follows says  *)
(* of each layer that they are the ones of Review.                         *)

Proofs ==
  INSTANCE Promises_proof
    WITH watched <- Reviewed, NetworkFaults <- TRUE, Registrations <- SUBSET Asking

LEMMA SameAssumptions ==
  /\ Proofs!NamesAssumption /\ Proofs!SwitchAssumption
  /\ Proofs!RulesAssumption /\ Proofs!BodiesAssumption
BY ReviewAssumption 
  DEF Review!NamesAssumption, Proofs!NamesAssumption, Review!SwitchAssumption,
     Proofs!SwitchAssumption, Review!RulesAssumption, Proofs!RulesAssumption,
     Review!BodiesAssumption, Proofs!BodiesAssumption, Review!Request, Proofs!Request,
     Review!JsonKind, Proofs!JsonKind

LEMMA SameValues ==
  /\ Review!Null = Proofs!Null
  /\ \A v : /\ Review!DecodeRequest(v) = Proofs!DecodeRequest(v)
            /\ Review!DecodeCluster(v) = Proofs!DecodeCluster(v)
            /\ Review!Sprint(v) = Proofs!Sprint(v)
  /\ \A v, w : /\ Review!GoEqual(v, w) <=> Proofs!GoEqual(v, w)
               /\ Review!ComparePanics(v, w) <=> Proofs!ComparePanics(v, w)
BY 
  DEF Review!Null, Proofs!Null, Review!DecodeRequest, Proofs!DecodeRequest,
     Review!DecodeCluster, Proofs!DecodeCluster, Review!RequestType, Proofs!RequestType,
     Review!ClusterType, Proofs!ClusterType, Review!Sprint, Proofs!Sprint,
     Review!ExponentFrom, Proofs!ExponentFrom, Review!GoEqual, Proofs!GoEqual,
     Review!ComparePanics, Proofs!ComparePanics

LEMMA SameMaps ==
  /\ \A spec : Review!Parse(spec) = Proofs!Parse(spec)
  /\ \A flat, q : Review!At(flat, q) = Proofs!At(flat, q)
  /\ \A rule : Review!Items(rule) = Proofs!Items(rule)
  /\ \A kind, q : Review!IsPlan(kind, q) <=> Proofs!IsPlan(kind, q)
BY SameValues 
  DEF Review!Parse, Proofs!Parse, Review!At, Proofs!At, Review!Items, Proofs!Items,
     Review!IsPlan, Proofs!IsPlan

LEMMA SameComparison ==
  /\ \A rule, old, new : /\ Review!Changed(rule, old, new) = Proofs!Changed(rule, old, new)
                         /\ Review!Crashes(rule, old, new) <=> Proofs!Crashes(rule, old, new)
  /\ \A old : Review!ClassText(old) = Proofs!ClassText(old)
  /\ \A class : Review!Reply(class) = Proofs!Reply(class)
  /\ Review!NoReply = Proofs!NoReply
  /\ \A reply : Review!Updateable(reply) <=> Proofs!Updateable(reply)
BY SameValues, SameMaps 
  DEF Review!Changed, Proofs!Changed, Review!Differs, Proofs!Differs, Review!Crashes,
     Proofs!Crashes, Review!Panics, Proofs!Panics, Review!ClassText, Proofs!ClassText,
     Review!Reply, Proofs!Reply, Review!NoReply, Proofs!NoReply, Review!Updateable,
     Proofs!Updateable, Review!PlanUpdateables, Proofs!PlanUpdateables

LEMMA SameMatches ==
  /\ \A r : Review!Kind(r) = Proofs!Kind(r)
  /\ \A list, kind : /\ Review!MatchingKind(list, kind) = Proofs!MatchingKind(list, kind)
                     /\ Review!FirstOfKind(list, kind) = Proofs!FirstOfKind(list, kind)
  /\ \A rule, type : Review!AppliesToType(rule, type) <=> Proofs!AppliesToType(rule, type)
  /\ \A list, flat : Review!Clash(list, flat) <=> Proofs!Clash(list, flat)
BY SameMaps 
  DEF Review!Kind, Proofs!Kind, Review!MatchingKind, Proofs!MatchingKind, Review!FirstOfKind,
     Proofs!FirstOfKind, Review!AppliesToType, Proofs!AppliesToType, Review!Clash,
     Proofs!Clash, Review!Present, Proofs!Present

LEMMA SameRules ==
  /\ \A list, kind, labels :
       Review!LabelsAllowed(list, kind, labels) <=> Proofs!LabelsAllowed(list, kind, labels)
  /\ \A list, type, flat :
       Review!ExclusivesAllowed(list, type, flat) <=> Proofs!ExclusivesAllowed(list, type, flat)
  /\ \A r, body :
       /\ Review!ReadableByImmutables(r, body) <=> Proofs!ReadableByImmutables(r, body)
       /\ Review!ReadableByExclusives(r, body) <=> Proofs!ReadableByExclusives(r, body)
BY SameMatches 
  DEF Review!LabelsAllowed, Proofs!LabelsAllowed, Review!ExclusivesAllowed,
     Proofs!ExclusivesAllowed, Review!ReadableByImmutables, Proofs!ReadableByImmutables,
     Review!ReadableByExclusives, Proofs!ReadableByExclusives, Review!CoreSafe,
     Proofs!CoreSafe, Review!Core, Proofs!Core

LEMMA SameRequests ==
  /\ Review!Blank = Proofs!Blank
  /\ Review!vars = Proofs!vars
  /\ Review!Request = Proofs!Request
  /\ \A c : /\ Review!Target(c) = Proofs!Target(c)
            /\ Review!New(c) = Proofs!New(c)
            /\ Review!Matching(c) = Proofs!Matching(c)
<1>1. Review!Blank = Proofs!Blank
  BY SameValues DEF Review!Blank, Proofs!Blank
<1>2. Review!vars = Proofs!vars
  BY DEF Review!vars, Proofs!vars
<1>3. Review!Request = Proofs!Request
  BY DEF Review!Request, Proofs!Request
<1>4. ASSUME NEW c
      PROVE  /\ Review!Target(c) = Proofs!Target(c)
             /\ Review!New(c) = Proofs!New(c)
             /\ Review!Matching(c) = Proofs!Matching(c)
  BY SameMatches
    DEF Review!Target, Proofs!Target, Review!New, Proofs!New, Review!Matching, Proofs!Matching
<1> QED
  BY <1>1, <1>2, <1>3, <1>4

LEMMA SameReturn ==
  \A c, verdict : Review!Return(c, verdict) <=> Proofs!Return(c, verdict)
BY SameRequests
  DEF Review!Return, Proofs!Return, Review!Answer, Proofs!Answer

LEMMA SameContinue ==
  \A c, step, l : Review!Continue(c, step, l) <=> Proofs!Continue(c, step, l)
BY DEF Review!Continue, Proofs!Continue, Review!apiVars, Proofs!apiVars

LEMMA SameAfter ==
  \A c : /\ Review!AfterImmutables(c) <=> Proofs!AfterImmutables(c)
         /\ Review!AfterLabels(c) <=> Proofs!AfterLabels(c)
         /\ Review!CallFails(c) <=> Proofs!CallFails(c)
         /\ \A l : Review!AfterRule(c, l) <=> Proofs!AfterRule(c, l)
<1> TAKE c
<1>1. Review!AfterImmutables(c) <=> Proofs!AfterImmutables(c)
  BY SameRequests, SameReturn, SameContinue DEF Review!AfterImmutables, Proofs!AfterImmutables
<1>2. Review!AfterLabels(c) <=> Proofs!AfterLabels(c)
  BY <1>1, SameRequests, SameContinue DEF Review!AfterLabels, Proofs!AfterLabels
<1>3. Review!CallFails(c) <=> Proofs!CallFails(c)
  BY SameReturn DEF Review!CallFails, Proofs!CallFails
<1>4. ASSUME NEW l PROVE Review!AfterRule(c, l) <=> Proofs!AfterRule(c, l)
  BY <1>1, SameReturn, SameContinue DEF Review!AfterRule, Proofs!AfterRule
<1> QED
  BY <1>1, <1>2, <1>3, <1>4

LEMMA SameSettings ==
  /\ Review!Init <=> Proofs!Init
  /\ Review!ChangeRules <=> Proofs!ChangeRules
  /\ Review!Reregister <=> Proofs!Reregister
  /\ \A c : /\ Review!Begin(c) <=> Proofs!Begin(c)
            /\ Review!End(c) <=> Proofs!End(c)
BY SameRequests
  DEF Review!Init, Proofs!Init, Review!ApiInit, Proofs!ApiInit, Review!ChangeRules,
     Proofs!ChangeRules, Review!Reregister, Proofs!Reregister, Review!Begin, Proofs!Begin,
     Review!Submit, Proofs!Submit, Review!End, Proofs!End, Review!Complete, Proofs!Complete,
     Review!Write, Proofs!Write, Review!Admitted, Proofs!Admitted, Review!FailurePolicy,
     Proofs!FailurePolicy, Review!Unmoved, Proofs!Unmoved, Review!Rivals, Proofs!Rivals,
     Review!Free, Proofs!Free, Review!Conflict, Proofs!Conflict, Review!Refuse,
     Proofs!Refuse, Review!Refused, Proofs!Refused

LEMMA SameChanges ==
  \A c, k, old :
    /\ Review!ChangedPaths(c, k, old) = Proofs!ChangedPaths(c, k, old)
    /\ Review!ChangedForbidden(c, k, old) = Proofs!ChangedForbidden(c, k, old)
<1> TAKE c, k, old
<1>1. Review!ChangedPaths(c, k, old) = Proofs!ChangedPaths(c, k, old)
  BY SameComparison DEF Review!ChangedPaths, Proofs!ChangedPaths
<1>2. Review!Kind(Review!Target(c)) = Proofs!Kind(Proofs!Target(c))
  BY SameMatches, SameRequests
<1>3. Review!ChangedForbidden(c, k, old) = Proofs!ChangedForbidden(c, k, old)
  BY <1>1, <1>2, SameMaps DEF Review!ChangedForbidden, Proofs!ChangedForbidden
<1> QED
  BY <1>1, <1>3

LEMMA SameCompare ==
  \A c, k, old : Review!Compare(c, k, old) <=> Proofs!Compare(c, k, old)
<1> TAKE c, k, old
<1>1. Review!Crashes(local[c].rules[k], old, local[c].new)
        <=> Proofs!Crashes(local[c].rules[k], old, local[c].new)
  BY SameComparison
<1>2. \A l, ok : Review!Compared(l, k, ok) = Proofs!Compared(l, k, ok)
  BY SameRequests DEF Review!Compared, Proofs!Compared
<1>3. \A l, ok, class : Review!Asking(l, ok, class) = Proofs!Asking(l, ok, class)
  BY DEF Review!Asking, Proofs!Asking
<1>4. Review!ClassText(old) = Proofs!ClassText(old)
  BY SameComparison
<1>5. Review!Return(c, "failed") <=> Proofs!Return(c, "failed")
  BY SameReturn
<1>6. \A l : /\ Review!AfterRule(c, l) <=> Proofs!AfterRule(c, l)
             /\ Review!Continue(c, "catalog", l) <=> Proofs!Continue(c, "catalog", l)
  BY SameAfter, SameContinue
<1> QED
  BY <1>1, <1>2, <1>3, <1>4, <1>5, <1>6, SameChanges DEF Review!Compare, Proofs!Compare

LEMMA SameHandler ==
  \A c : Review!Handler(c) <=> Proofs!Handler(c)
<1> TAKE c
<1>1. /\ Review!Target(c) = Proofs!Target(c) /\ Review!New(c) = Proofs!New(c)
      /\ Review!Matching(c) = Proofs!Matching(c)
  BY SameRequests
<1>2. \A verdict : Review!Return(c, verdict) <=> Proofs!Return(c, verdict)
  BY SameReturn
<1>3. Review!CheckLabels(c) <=> Proofs!CheckLabels(c)
  BY <1>1, <1>2, SameMatches, SameRules, SameAfter DEF Review!CheckLabels, Proofs!CheckLabels
<1>4. Review!ReadImmutables(c) <=> Proofs!ReadImmutables(c)
  <2>1. \A new : Review!NothingCompared(c, new) = Proofs!NothingCompared(c, new)
    BY <1>1, SameRequests DEF Review!NothingCompared, Proofs!NothingCompared
  <2>2. Review!ReadableByImmutables(Review!Target(c), Review!New(c))
          <=> Proofs!ReadableByImmutables(Proofs!Target(c), Proofs!New(c))
    BY <1>1, SameRules
  <2>3. Review!Parse(Review!New(c).spec) = Proofs!Parse(Proofs!New(c).spec)
    BY <1>1, SameMaps
  <2> QED
    BY <1>1, <1>2, <2>1, <2>2, <2>3, SameAfter, SameContinue
      DEF Review!ReadImmutables, Proofs!ReadImmutables
<1>5. Review!FetchExisting(c) <=> Proofs!FetchExisting(c)
  <2>1. Review!Parse(store[Review!Target(c)].spec) = Proofs!Parse(store[Proofs!Target(c)].spec)
    BY <1>1, SameMaps
  <2>2. Review!Current(local[c]) = Proofs!Current(local[c])
    BY DEF Review!Current, Proofs!Current
  <2> QED
    BY <1>1, <1>2, <2>1, <2>2, SameCompare DEF Review!FetchExisting, Proofs!FetchExisting
<1>6. Review!FetchFails(c) <=> Proofs!FetchFails(c)
  BY <1>1, <1>2 DEF Review!FetchFails, Proofs!FetchFails
<1>7. Review!AskCatalog(c) <=> Proofs!AskCatalog(c)
  <2>1. Review!Current(local[c]) = Proofs!Current(local[c])
    BY DEF Review!Current, Proofs!Current
  <2>2. Review!Replies(local[c].class) = Proofs!Replies(local[c].class)
    BY SameComparison DEF Review!Replies, Proofs!Replies
  <2>3. \A k, ok : Review!Compared(local[c], k, ok) = Proofs!Compared(local[c], k, ok)
    BY SameRequests DEF Review!Compared, Proofs!Compared
  <2>4. \A reply : Review!Updateable(reply) <=> Proofs!Updateable(reply)
    BY SameComparison
  <2> QED
    BY <2>1, <2>2, <2>3, <2>4, SameAfter DEF Review!AskCatalog, Proofs!AskCatalog
<1>8. Review!CheckExclusives(c) <=> Proofs!CheckExclusives(c)
  <2>1. Review!ReadableByExclusives(Review!Target(c), Review!New(c))
          <=> Proofs!ReadableByExclusives(Proofs!Target(c), Proofs!New(c))
    BY <1>1, SameRules
  <2>2. Review!Parse(Review!New(c).spec) = Proofs!Parse(Proofs!New(c).spec)
    BY <1>1, SameMaps
  <2>3. \A list, new : Review!ExclusivesAllowed(list, TypeOf[Review!Target(c)], new)
                         <=> Proofs!ExclusivesAllowed(list, TypeOf[Proofs!Target(c)], new)
    BY <1>1, SameRules
  <2> QED
    BY <1>2, <2>1, <2>2, <2>3 DEF Review!CheckExclusives, Proofs!CheckExclusives
<1> QED
  BY <1>3, <1>4, <1>5, <1>6, <1>7, <1>8 DEF Review!Handler, Proofs!Handler

LEMMA SameNext == Review!Next <=> Proofs!Next
BY SameSettings, SameHandler, SameAfter DEF Review!Next, Proofs!Next

LEMMA SameSpec == Review!Spec <=> Proofs!Spec
<1>1. Review!Init <=> Proofs!Init
  BY SameSettings
<1>2. [Review!Next]_(Review!vars) <=> [Proofs!Next]_(Proofs!vars)
  BY SameNext, SameRequests DEF Review!vars, Proofs!vars
<1> QED
  BY <1>1, <1>2, PTL DEF Review!Spec, Proofs!Spec

LEMMA SameMeanings ==
  /\ \A j : Review!Meaning(j) = Proofs!Meaning(j)
  /\ \A spec, q : Review!Meanings(spec, q) = Proofs!Meanings(spec, q)
  /\ \A v : Review!PrintsAsMeant(v) <=> Proofs!PrintsAsMeant(v)
<1>1. \A j : Review!Meaning(j) = Proofs!Meaning(j)
  BY SameValues DEF Review!Meaning, Proofs!Meaning, Review!SameNumber, Proofs!SameNumber
<1>2. \A spec, q : Review!Meanings(spec, q) = Proofs!Meanings(spec, q)
  BY <1>1, SameValues DEF Review!Meanings, Proofs!Meanings, Review!Spelled, Proofs!Spelled
<1>3. \A v : Review!PrintsAsMeant(v) <=> Proofs!PrintsAsMeant(v)
  BY <1>1, SameValues DEF Review!PrintsAsMeant, Proofs!PrintsAsMeant
<1> QED
  BY <1>1, <1>2, <1>3

LEMMA SamePromise ==
  /\ \A cfg, kind : Review!Protected(cfg, kind) = Proofs!Protected(cfg, kind)
  /\ \A kind, a, b, q : Review!Kept(kind, a, b, q) <=> Proofs!Kept(kind, a, b, q)
  /\ \A r : Review!Replaced(r) <=> Proofs!Replaced(r)
<1>1. \A cfg, kind : Review!Protected(cfg, kind) = Proofs!Protected(cfg, kind)
  BY SameMaps
    DEF Review!Protected, Proofs!Protected, Review!EveryOfKind, Proofs!EveryOfKind
<1>2. \A a, b, q : Review!MayAgree(a, b, q) <=> Proofs!MayAgree(a, b, q)
  BY SameMeanings DEF Review!MayAgree, Proofs!MayAgree
<1>3. \A spec : Review!PlanMayChange(spec) <=> Proofs!PlanMayChange(spec)
  BY SameMeanings DEF Review!PlanMayChange, Proofs!PlanMayChange
<1>4. \A kind, a, b, q : Review!Kept(kind, a, b, q) <=> Proofs!Kept(kind, a, b, q)
  BY <1>2, <1>3, SameMaps DEF Review!Kept, Proofs!Kept
<1>5. \A r : Review!Replaced(r) <=> Proofs!Replaced(r)
  BY DEF Review!Replaced, Proofs!Replaced
<1> QED
  BY <1>1, <1>4, <1>5

LEMMA SameConditions ==
  /\ Review!NoPanics <=> Proofs!NoPanics
  /\ Review!TextsAreMeanings <=> Proofs!TextsAreMeanings
  /\ Review!FirstEntryIsRight <=> Proofs!FirstEntryIsRight
<1>1. Review!NoPanics <=> Proofs!NoPanics
  BY SameMaps DEF Review!NoPanics, Proofs!NoPanics, Review!Core, Proofs!Core
<1>2. Review!TextsAreMeanings <=> Proofs!TextsAreMeanings
  BY SameMeanings, SameValues DEF Review!TextsAreMeanings, Proofs!TextsAreMeanings
<1>3. Review!FlatMaps = Proofs!FlatMaps
  BY SameMaps DEF Review!FlatMaps, Proofs!FlatMaps
<1>4. Review!ClassTexts = Proofs!ClassTexts
  BY <1>3, SameComparison DEF Review!ClassTexts, Proofs!ClassTexts
<1>5. Review!FirstEntryIsRight <=> Proofs!FirstEntryIsRight
  BY <1>4, SameComparison DEF Review!FirstEntryIsRight, Proofs!FirstEntryIsRight
<1> QED
  BY <1>1, <1>2, <1>5

\* What the lemmas about reviews know at every step of the process.
ReviewKnown == Proofs!TypeOK /\ Proofs!ReviewsInProgress /\ Proofs!Verdicts

LEMMA AlwaysReviewKnown == AdmissionSpec => []ReviewKnown
<1>1. Review!Spec => []Proofs!TypeOK
  BY SameAssumptions, SameSpec, Proofs!TypeCorrect, PTL
<1>2. Review!Spec => []Proofs!ReviewsInProgress
  BY SameAssumptions, SameSpec, Proofs!ReviewsSound, PTL
<1>3. Review!Spec => []Proofs!Verdicts
  BY SameAssumptions, SameSpec, Proofs!AlwaysVerdicts, PTL
<1> QED
  BY <1>1, <1>2, <1>3, ReviewsCompose, PTL DEF ReviewKnown, ImplementsReview

-----------------------------------------------------------------------------
(* Requests that the process lived through.                                *)

UndisturbedOK(c) ==
  /\ pc[c] \in {"review", "allowed", "denied", "bypassed"}
  /\ pc[c] = "review" => c \in served
  /\ pc[c] = "bypassed" => ~ListedNow(c)

UndisturbedInv ==
  /\ undisturbed \subseteq Call
  /\ undisturbed # {} => server.phase \notin {"down", "starting"}
  /\ \A c \in undisturbed : UndisturbedOK(c)

\* While the process answers, it is asked about what its file lists.
LEMMA ListedIsAsked ==
  ASSUME TypeInv, Answers
  PROVE  /\ Reaches /\ server.phase = "serving"
         /\ \E f \in Files : /\ Built(f) = server.built
                             /\ FewRules(f.validating) => Listed(f.validating) \subseteq Reviewed
<1>1. server.phase = "serving"
  BY DEF Answers
<1>2. server.loaded # None /\ server.loaded.age <= Lifetime
  BY DEF Answers, TypeInv
<1>3. PICK o \in DOMAIN server.built :
        /\ o[1] = "validating"
        /\ registered[o] = [rules |-> server.built[o], ca |-> server.loaded.ca]
  BY DEF Answers
<1>4. PICK f \in Files : Built(f) = server.built
  BY <1>1 DEF TypeInv, ServerType, Declared
<1>5. o \in Configuration
  BY <1>4, BuiltAreConfigurations DEF Declared
<1>6. server.loaded.ca \in CA
  BY <1>2 DEF TypeInv, ServerType, Cert
<1>7. server.built[o] \in AnyRules
  BY <1>4 DEF AnyRules, Declared
<1>8. registered[o] # None
  BY <1>3, <1>6, <1>7, NowhereIsNone
<1>9. Reaches
  BY <1>2, <1>3, <1>8 DEF Reaches
<1>10. PICK t \in Switched(f) : o = <<t, NameOf(t, f[t])>> /\ Asked(f[t]) # <<>>
  BY <1>4 DEF Built
<1>11. t = "validating" /\ t \in WebhookType /\ f[t] # Unreadable
  BY <1>3, <1>10 DEF WebhookType, Asked
<1>12. server.built[o] = Asked(f.validating)
  BY <1>3, <1>4 DEF Built
<1>13. FewRules(f.validating) => Pairs(registered[o].rules) = Listed(f.validating)
  BY <1>3, <1>11, <1>12, AskedIsListed
<1>14. Pairs(registered[o].rules) \subseteq Reviewed
  BY <1>3, <1>5, <1>8 DEF Reviewed
<1> QED
  BY <1>1, <1>4, <1>9, <1>13, <1>14

\* A request is made.
LEMMA ArriveUndisturbed ==
  ASSUME TypeInv, ReviewKnown, UndisturbedInv, NEW c \in Call, Arrive(c)
  PROVE  UndisturbedInv'
<1>1. /\ pc \in [Call -> Review!Status]
      /\ req \in [Call -> Review!Request \cup {NoRequest}]
  BY SameRequests
    DEF ReviewKnown, Proofs!TypeOK, Proofs!ApiTypeOK, Proofs!Status, Review!Status
<1>2. PICK r \in Review!Request :
        /\ pc[c] = "idle" /\ req' = [req EXCEPT ![c] = r]
        /\ pc' = [pc EXCEPT ![c] = IF <<r.op, r.res>> \in Reviewed THEN "review" ELSE "bypassed"]
  BY DEF Arrive, Review!Begin, Review!Submit
<1>3. UNCHANGED server
  BY DEF Arrive, vars
<1>4. c \notin undisturbed /\ served \subseteq served'
  BY <1>2 DEF UndisturbedInv, UndisturbedOK, Arrive
<1>5. ASSUME NEW d \in undisturbed PROVE UndisturbedOK(d)'
  <2>1. d \in Call /\ d # c /\ UndisturbedOK(d)
    BY <1>4, <1>5 DEF UndisturbedInv
  <2>2. pc'[d] = pc[d] /\ req'[d] = req[d]
    BY <1>1, <1>2, <2>1
  <2> QED
    BY <1>3, <1>4, <2>1, <2>2 DEF UndisturbedOK, ListedNow
<1>6. ASSUME Answers PROVE UndisturbedOK(c)' /\ server.phase = "serving"
  <2>1. Reaches /\ server.phase = "serving"
    BY <1>6, ListedIsAsked
  <2>2. pc'[c] \in {"review", "bypassed"} /\ req'[c] = r
    BY <1>1, <1>2
  <2>3. pc'[c] = "review" => c \in served'
    BY <2>1 DEF Arrive
  <2>4. ASSUME pc'[c] = "bypassed" PROVE ~ListedNow(c)'
    <3>1. <<r.op, r.res>> \notin Reviewed
      BY <1>1, <1>2, <2>4
    <3>2. PICK f \in Files : /\ Built(f) = server.built
                             /\ FewRules(f.validating) => Listed(f.validating) \subseteq Reviewed
      BY <1>6, ListedIsAsked
    <3> QED
      BY <1>3, <2>2, <3>1, <3>2 DEF ListedNow
  <2> QED
    BY <2>1, <2>2, <2>3, <2>4 DEF UndisturbedOK
<1>7. undisturbed' = IF Answers THEN undisturbed \cup {c} ELSE undisturbed
  BY DEF Arrive
<1> QED
  BY <1>3, <1>5, <1>6, <1>7 DEF UndisturbedInv

\* A request other than this one is handled, lost or ended.
LEMMA OtherUndisturbed ==
  ASSUME UndisturbedInv, NEW c \in Call, UNCHANGED server, undisturbed' \subseteq undisturbed,
         \A d \in undisturbed' \ {c} : pc'[d] = pc[d] /\ req'[d] = req[d],
         \A d \in served \ {c} : d \in served',
         c \in undisturbed' => UndisturbedOK(c)'
  PROVE  UndisturbedInv'
<1>1. ASSUME NEW d \in undisturbed' \ {c} PROVE UndisturbedOK(d)'
  <2>1. UndisturbedOK(d) /\ pc'[d] = pc[d] /\ req'[d] = req[d]
    BY DEF UndisturbedInv
  <2> QED
    BY <2>1 DEF UndisturbedOK, ListedNow
<1> QED
  BY <1>1 DEF UndisturbedInv

LEMMA RequestUndisturbed ==
  ASSUME Review!NoPanics, TypeInv, ReviewKnown, UndisturbedInv, NEW c \in Call,
         Handle(c) \/ Lost(c) \/ Finish(c)
  PROVE  UndisturbedInv'
<1>1. /\ pc \in [Call -> Review!Status]
      /\ req \in [Call -> Review!Request \cup {NoRequest}]
  BY SameRequests
    DEF ReviewKnown, Proofs!TypeOK, Proofs!ApiTypeOK, Proofs!Status, Review!Status
<1>2. undisturbed \subseteq Call /\ UNCHANGED server
  BY DEF UndisturbedInv, Handle, Lost, Finish, vars
<1>3. CASE Handle(c)
  <2>1. /\ pc'[c] \in {"review", "allowed", "denied"} /\ req' = req
        /\ \A d \in Call \ {c} : pc'[d] = pc[d]
    BY <1>3, SameAssumptions, SameConditions, SameHandler, Proofs!HandlersAnswer
      DEF Handle, ReviewKnown
  <2>2. undisturbed' = undisturbed /\ c \in served
        /\ served' = IF pc'[c] = "review" THEN served ELSE served \ {c}
    BY <1>3 DEF Handle
  <2> QED
    BY <1>2, <2>1, <2>2, OtherUndisturbed DEF UndisturbedOK
<1>4. CASE Lost(c)
  <2>1. /\ c \notin served /\ pc[c] = "review" /\ pc' = [pc EXCEPT ![c] = "failed"]
        /\ UNCHANGED <<req, undisturbed, served>>
    BY <1>4 DEF Lost, Review!CallFails, Review!Return, Review!Answer
  <2>2. c \notin undisturbed
    BY <2>1 DEF UndisturbedInv, UndisturbedOK
  <2> QED
    BY <1>1, <1>2, <2>1, <2>2, OtherUndisturbed
<1>5. CASE Finish(c)
  <2>1. Review!Free(c)
    BY <1>5 DEF Finish, Review!End, Review!Complete, Review!Write, Review!Conflict, Review!Refuse
  <2>2. \A d \in Call \ {c} : pc'[d] = pc[d] /\ req'[d] = req[d]
    BY <1>1, <2>1 DEF Review!Free
  <2> QED
    BY <1>2, <1>5, <2>2, OtherUndisturbed DEF Finish
<1> QED
  BY <1>3, <1>4, <1>5

\* Past its start, a process keeps what it built, or ends.
LEMMA KeepsBuilt ==
  ASSUME TypeInv, [Next]_vars, server.phase \notin {"down", "starting"}
  PROVE  \/ server'.phase = "down"
         \/ server'.built = server.built /\ server'.phase # "starting"
<1>1. CASE \/ Launch \/ StartWebhookServer \/ UNCHANGED vars \/ SyncMount \/ EditFiles
           \/ DeleteSecret
  BY <1>1 DEF Launch, StartWebhookServer, vars, SyncMount, EditFiles, DeleteSecret
<1>2. CASE Exit
  BY <1>2 DEF Exit, Down
<1>3. CASE EnsureCert \/ Shutdown
  BY <1>3 DEF TypeInv, ServerType, EnsureCert, Shutdown, Reload
<1>4. CASE Serve
  BY <1>2, <1>4 DEF TypeInv, ServerType, Serve
<1>5. ASSUME NEW o \in InTurn, Register(o)
      PROVE  server'.built = server.built /\ server'.phase # "starting"
  BY <1>5 DEF TypeInv, ServerType, Register
<1>6. ASSUME NEW o \in InTurn, Create(o) \/ Update(o), ~Exit, ~Register(o)
      PROVE  server'.built = server.built /\ server'.phase # "starting"
  BY <1>6 DEF TypeInv, ServerType, Create, Update
<1>7. ASSUME NEW days, RefreshCert(days)
      PROVE  server'.built = server.built /\ server'.phase # "starting"
  BY <1>7 DEF TypeInv, ServerType, RefreshCert
<1>8. ASSUME NEW days, Crash(days) PROVE Exit
  BY <1>8 DEF Crash
<1>9. ASSUME NEW o \in Configuration, EditRegistered(o)
      PROVE  server'.built = server.built /\ server'.phase # "starting"
  BY <1>9 DEF TypeInv, ServerType, EditRegistered
<1> QED
  BY <1>1, <1>2, <1>3, <1>4, <1>5, <1>6, <1>7, <1>8, <1>9 DEF Next, Process

LEMMA ProcessUndisturbed ==
  ASSUME TypeInv, UndisturbedInv, Around(Next)
  PROVE  UndisturbedInv'
<1>1. CASE server'.phase = "down"
  BY <1>1 DEF Around, UndisturbedInv
<1>2. CASE server'.phase # "down"
  <2>1. UNCHANGED <<pc, req, undisturbed, served>>
    BY <1>2 DEF Around, Surviving, reviewVars
  <2>2. CASE undisturbed = {}
    BY <2>1, <2>2 DEF UndisturbedInv
  <2>3. CASE undisturbed # {}
    <3>1. server'.built = server.built /\ server'.phase # "starting"
      BY <1>2, <2>3, KeepsBuilt DEF UndisturbedInv, Around
    <3> QED
      BY <1>2, <2>1, <3>1 DEF UndisturbedInv, UndisturbedOK, ListedNow
  <2> QED
    BY <2>2, <2>3
<1> QED
  BY <1>1, <1>2

LEMMA StepUndisturbed ==
  ASSUME Review!NoPanics, TypeInv, ReviewKnown, UndisturbedInv, [AdmissionNext]_admissionVars
  PROVE  UndisturbedInv'
<1>1. CASE NewRules \/ UNCHANGED admissionVars
  <2>1. UNCHANGED <<server, pc, req, served, undisturbed>>
    BY <1>1 DEF NewRules, Review!ChangeRules, admissionVars, reviewVars, vars
  <2> QED
    BY <2>1 DEF UndisturbedInv, UndisturbedOK, ListedNow
<1> QED
  BY <1>1, ProcessUndisturbed, ArriveUndisturbed, RequestUndisturbed DEF AdmissionNext

LEMMA UndisturbedKeep ==
  ASSUME ImmutablesOn, Review!TextsAreMeanings, Review!FirstEntryIsRight,
         ReviewKnown, UndisturbedInv, [Review!Next]_(Review!vars),
         NEW c \in undisturbed, pc[c] # "idle", pc'[c] = "idle",
         ListedNow(c), Review!Replaced(req[c].res),
         NEW q, \A cfg \in Config : q \in Review!Protected(cfg, TypeOf[req[c].res].kind)
  PROVE  Review!Kept(TypeOf[req[c].res].kind, store[req[c].res].spec, req[c].body.spec, q)
<1>1. Proofs!TextsAreMeanings /\ Proofs!FirstEntryIsRight
  BY SameConditions
<1>2. [Proofs!AtomicNext]_(Proofs!apiVars)
  <2>1. [Proofs!Next]_(Proofs!vars)
    BY SameNext DEF Review!vars, Proofs!vars
  <2> QED
    BY <2>1, SameAssumptions, Proofs!ReviewStep DEF ReviewKnown
<1>3. c \in Call /\ pc[c] \notin {"idle", "failed", "bypassed"}
  BY DEF UndisturbedInv, UndisturbedOK
<1>4. /\ Proofs!Target(c) = req[c].res /\ Proofs!New(c) = req[c].body
      /\ Proofs!Kind(Proofs!Target(c)) = TypeOf[req[c].res].kind
  BY DEF Proofs!Target, Proofs!New, Proofs!Kind
<1>5. /\ Proofs!Replaced(Proofs!Target(c))
      /\ \A cfg \in Config : q \in Proofs!Protected(cfg, Proofs!Kind(Proofs!Target(c)))
  BY <1>4, SamePromise
<1>6. Proofs!TypeOK /\ Proofs!ReviewsInProgress /\ Proofs!Verdicts
  BY DEF ReviewKnown
<1>7. Proofs!Kept(Proofs!Kind(Proofs!Target(c)), store[Proofs!Target(c)].spec,
                  Proofs!New(c).spec, q)
  BY <1>1, <1>2, <1>3, <1>5, <1>6, SameAssumptions, Proofs!AppliedKeeps
<1> QED
  BY <1>4, <1>7, SamePromise

(***************************************************************************)
(* An update that was submitted while the process answered, and that the   *)
(* process lived through, is applied only if it leaves alone every path    *)
(* that all ConfigMaps protect, or changes a plan that may change: for any *)
(* number of requests, resources, settings, crashes and refreshes, when no *)
(* object makes a handler panic and texts mean what they look like         *)
(* (Server.run, the failure policy, Handle and all it calls).              *)
(***************************************************************************)
THEOREM OnlyOutagesAlwaysAdmit ==
  (/\ ImmutablesOn
   /\ Review!NoPanics /\ Review!TextsAreMeanings /\ Review!FirstEntryIsRight) =>
    (AdmissionSpec => OnlyOutagesAdmit)
<1> SUFFICES ASSUME ImmutablesOn, Review!NoPanics, Review!TextsAreMeanings,
                    Review!FirstEntryIsRight
             PROVE  AdmissionSpec => OnlyOutagesAdmit
  OBVIOUS
<1> DEFINE Keep ==
      \A c \in undisturbed :
        (/\ pc[c] # "idle" /\ pc'[c] = "idle"
         /\ ListedNow(c) /\ Review!Replaced(req[c].res)) =>
           LET kind == TypeOf[req[c].res].kind
           IN  \A q \in UNION {Review!Protected(cfg, kind) : cfg \in Config} :
                 (\A cfg \in Config : q \in Review!Protected(cfg, kind)) =>
                   Review!Kept(kind, store[req[c].res].spec, req[c].body.spec, q)
<1>1. AdmissionInit => UndisturbedInv
  BY DEF AdmissionInit, UndisturbedInv
<1>2. TypeInv /\ ReviewKnown /\ UndisturbedInv /\ [AdmissionNext]_admissionVars => UndisturbedInv'
  BY StepUndisturbed
<1>3. ReviewKnown /\ UndisturbedInv /\ [Review!Next]_(Review!vars) => Keep
  BY UndisturbedKeep
<1>4. WatchedTyped' /\ [AdmissionNext]_admissionVars => [Review!Next]_(Review!vars)
  BY ReviewStep
<1> QED
  BY <1>1, <1>2, <1>3, <1>4, AdmissionTyped, ReviewedTyped, AlwaysReviewKnown, PTL
    DEF AdmissionSpec, OnlyOutagesAdmit
=============================================================================
