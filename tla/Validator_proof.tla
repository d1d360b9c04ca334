-------------------------- MODULE Validator_proof ---------------------------
(***************************************************************************)
(* Proofs about Validator, for any number of calls, resources, bodies and  *)
(* ConfigMaps.                                                             *)
(***************************************************************************)
EXTENDS Promises, TLAPS

-----------------------------------------------------------------------------
(* Type correctness                                                        *)

\* What Parse may build from a spec of the instance is one of its flat maps.
LEMMA ParseGivesFlatMap ==
  ASSUME NEW b \in Body, b.spec # NoSpec, NEW flat \in Parse(b.spec)
  PROVE  flat \in FlatMaps
BY DEF FlatMaps

LEMMA BlankIsLocal == Blank \in Local
BY DEF Blank, Local

\* A handler that goes on keeps the types.
LEMMA ContinueType ==
  ASSUME TypeOK, NEW c \in Call, at[c] # "none",
         NEW step \in Step \ {"none"}, NEW l \in Local,
         l.todo \subseteq DOMAIN l.rules,
         step = "labels" \/ req[c].op # "DELETE",
         IF step \in {"fetch", "catalog"} THEN l.todo # {} ELSE l = Blank,
         Continue(c, step, l)
  PROVE  TypeOK'
BY DEF TypeOK, ApiTypeOK, Continue, apiVars

\* A handler that returns keeps the types.
LEMMA ReturnType ==
  ASSUME TypeOK, NEW c \in Call, pc[c] = "review",
         NEW verdict \in {"allowed", "denied", "failed"}, Return(c, verdict)
  PROVE  TypeOK'
<1>1. ApiTypeOK'
  BY DEF TypeOK, ApiTypeOK, Return, Answer, Status
<1>2. at' \in [Call -> Step] /\ local' \in [Call -> Local]
  BY BlankIsLocal DEF TypeOK, Return, Step
<1>3. \A d \in Call : at'[d] = "none" <=> pc'[d] # "review"
  BY DEF TypeOK, ApiTypeOK, Return, Answer
<1>4. \A d \in Call : local'[d].todo \subseteq DOMAIN local'[d].rules
  BY DEF TypeOK, Return, Blank
<1>5. \A d \in Call : IF at'[d] \in {"fetch", "catalog"} THEN local'[d].todo # {}
                      ELSE local'[d] = Blank
  BY DEF TypeOK, Return
<1>6. \A d \in Call : at'[d] \in {"none", "labels"} \/ req'[d].op # "DELETE"
  BY DEF TypeOK, Return, Answer
<1>7. QED
  BY <1>1, <1>2, <1>3, <1>4, <1>5, <1>6 DEF TypeOK

LEMMA AfterImmutablesType ==
  ASSUME TypeOK, NEW c \in Call, pc[c] = "review", req[c].op # "DELETE",
         AfterImmutables(c)
  PROVE  TypeOK'
<1>1. at[c] # "none"
  BY DEF TypeOK
<1>2. CASE ExclusivesOn
  BY <1>1, <1>2, BlankIsLocal, ContinueType DEF AfterImmutables, Step, Blank
<1>3. CASE ~ExclusivesOn
  BY <1>3, ReturnType DEF AfterImmutables
<1>4. QED
  BY <1>2, <1>3

LEMMA AfterRuleType ==
  ASSUME TypeOK, NEW c \in Call, pc[c] = "review", req[c].op # "DELETE",
         NEW l \in Local, l.todo \subseteq DOMAIN l.rules, AfterRule(c, l)
  PROVE  TypeOK'
<1>1. at[c] # "none"
  BY DEF TypeOK
<1>2. CASE l.todo # {}
  BY <1>1, <1>2, ContinueType DEF AfterRule, Step
<1>3. CASE l.todo = {} /\ l.allowed
  BY <1>3, AfterImmutablesType DEF AfterRule
<1>4. CASE l.todo = {} /\ ~l.allowed
  BY <1>4, ReturnType DEF AfterRule
<1>5. QED
  BY <1>2, <1>3, <1>4

\* The locals the loop goes on with are of the right type.
LEMMA ComparedLocal ==
  ASSUME NEW l \in Local, l.todo \subseteq DOMAIN l.rules, NEW k, NEW ok \in BOOLEAN
  PROVE  /\ Compared(l, k, ok) \in Local
         /\ Compared(l, k, ok).rules = l.rules
         /\ Compared(l, k, ok).new = l.new
         /\ Compared(l, k, ok).todo = l.todo \ {k}
         /\ Compared(l, k, ok).allowed = (l.allowed /\ ok)
<1>1. Blank.class \in ClassTexts \cup {Blank.class}
  OBVIOUS
<1>2. QED
  BY <1>1 DEF Local, Compared

LEMMA AskingLocal ==
  ASSUME NEW l \in Local, NEW class \in ClassTexts, NEW ok \in BOOLEAN
  PROVE  /\ Asking(l, ok, class) \in Local
         /\ Asking(l, ok, class).rules = l.rules
         /\ Asking(l, ok, class).new = l.new
         /\ Asking(l, ok, class).todo = l.todo
         /\ Asking(l, ok, class).class = class
         /\ Asking(l, ok, class).allowed = (l.allowed /\ ok)
BY DEF Local, Asking

\* The object a call under review compares with, and its own.
LEMMA ReviewedBodies ==
  ASSUME TypeOK, NEW c \in Call, pc[c] = "review"
  PROVE  /\ req[c] \in Request
         /\ Target(c) \in Resource
         /\ req[c].op # "DELETE" => New(c) \in Body
         /\ store[Target(c)] \in Body \cup {Absent}
<1>1. req[c] \in Request
  BY DEF TypeOK, ApiTypeOK
<1>2. Target(c) \in Resource /\ (req[c].op # "DELETE" => New(c) \in Body)
  BY <1>1 DEF Request, Target, New
<1>3. QED
  BY <1>1, <1>2 DEF TypeOK, ApiTypeOK

LEMMA CheckLabelsType ==
  ASSUME TypeOK, NEW c \in Call, CheckLabels(c)
  PROVE  TypeOK'
<1>1. at[c] # "none" /\ pc[c] = "review"
  BY DEF TypeOK, CheckLabels
<1>2. CASE Return(c, "denied")
  BY <1>1, <1>2, ReturnType
<1>3. CASE req[c].op # "DELETE" /\ AfterLabels(c)
  <2>1. CASE req[c].op = "UPDATE" /\ ImmutablesOn
    BY <1>1, <1>3, <2>1, BlankIsLocal, ContinueType DEF AfterLabels, Step, Blank
  <2>2. CASE ~(req[c].op = "UPDATE" /\ ImmutablesOn)
    BY <1>1, <1>3, <2>2, AfterImmutablesType DEF AfterLabels
  <2>3. QED
    BY <2>1, <2>2
<1>4. QED
  BY <1>2, <1>3 DEF CheckLabels

LEMMA NothingComparedLocal ==
  ASSUME TypeOK, NEW c \in Call, Matching(c) # {}, NEW new \in FlatMaps
  PROVE  /\ NothingCompared(c, new) \in Local
         /\ NothingCompared(c, new).todo = Matching(c)
         /\ Matching(c) \subseteq DOMAIN NothingCompared(c, new).rules
<1>1. rules.immutables \in RuleLists
  BY DEF Matching, TypeOK, ApiTypeOK, RuleLists
<1>2. Matching(c) \subseteq DOMAIN rules.immutables
  BY DEF Matching, MatchingKind
<1>3. QED
  BY <1>1, <1>2 DEF NothingCompared, Local

LEMMA ReadImmutablesType ==
  ASSUME TypeOK, NEW c \in Call, ReadImmutables(c)
  PROVE  TypeOK'
<1>1. at[c] = "immutables" /\ pc[c] = "review" /\ req[c].op # "DELETE"
  BY DEF TypeOK, ReadImmutables
<1>2. CASE Return(c, "failed")
  BY <1>1, <1>2, ReturnType
<1>3. CASE AfterImmutables(c)
  BY <1>1, <1>3, AfterImmutablesType
<1>4. CASE /\ ReadableByImmutables(Target(c), New(c)) /\ Matching(c) # {}
           /\ \E new \in Parse(New(c).spec) :
                Continue(c, "fetch", NothingCompared(c, new))
  <2>1. PICK new \in Parse(New(c).spec) : Continue(c, "fetch", NothingCompared(c, new))
    BY <1>4
  <2>2. New(c) \in Body /\ New(c).spec # NoSpec
    BY <1>1, <1>4, ReviewedBodies DEF ReadableByImmutables, CoreSafe
  <2>3. new \in FlatMaps
    BY <2>1, <2>2, ParseGivesFlatMap
  <2>4. QED
    BY <1>1, <1>4, <2>1, <2>3, NothingComparedLocal, ContinueType DEF Step
<1>5. QED
  BY <1>2, <1>3, <1>4 DEF ReadImmutables

LEMMA FetchExistingType ==
  ASSUME TypeOK, NEW c \in Call, FetchExisting(c)
  PROVE  TypeOK'
<1>1. /\ at[c] = "fetch" /\ pc[c] = "review" /\ req[c].op # "DELETE"
      /\ local[c] \in Local /\ local[c].todo \subseteq DOMAIN local[c].rules
      /\ local[c].todo # {}
  BY DEF TypeOK, FetchExisting
<1>2. CASE Return(c, "failed")
  BY <1>1, <1>2, ReturnType
<1>3. ASSUME store[Target(c)].spec # NoSpec,
             NEW k, NEW old \in Parse(store[Target(c)].spec), Compare(c, k, old)
      PROVE  TypeOK'
  <2> DEFINE ok == ChangedForbidden(c, k, old) = {}
  <2>a. ok \in BOOLEAN
    OBVIOUS
  <2>1. CASE AfterRule(c, Compared(local[c], k, ok))
    <3> HIDE DEF ok
    <3>1. QED
      BY <1>1, <2>a, <2>1, ComparedLocal, AfterRuleType
  <2>2. CASE Continue(c, "catalog", Asking(local[c], ok, ClassText(old)))
    <3>1. store[Target(c)] \in Body
      BY <1>1, ReviewedBodies DEF FetchExisting
    <3>2. ClassText(old) \in ClassTexts
      BY <1>3, <3>1, ParseGivesFlatMap DEF ClassTexts
    <3> HIDE DEF ok
    <3>3. QED
      BY <1>1, <2>a, <2>2, <3>2, AskingLocal, ContinueType DEF Step
  <2>3. QED
    BY <1>2, <1>3, <2>1, <2>2 DEF Compare
<1>4. QED
  BY <1>2, <1>3 DEF FetchExisting

LEMMA AskCatalogType ==
  ASSUME TypeOK, NEW c \in Call, AskCatalog(c)
  PROVE  TypeOK'
<1>1. /\ pc[c] = "review" /\ req[c].op # "DELETE"
      /\ local[c] \in Local /\ local[c].todo \subseteq DOMAIN local[c].rules
  BY DEF TypeOK, AskCatalog
<1>2. PICK k \in Current(local[c]), reply \in Replies(local[c].class) :
        AfterRule(c, Compared(local[c], k, Updateable(reply)))
  BY DEF AskCatalog
<1>3. Updateable(reply) \in BOOLEAN
  BY DEF Updateable
<1>4. QED
  BY <1>1, <1>2, <1>3, ComparedLocal, AfterRuleType

LEMMA CheckExclusivesType ==
  ASSUME TypeOK, NEW c \in Call, CheckExclusives(c)
  PROVE  TypeOK'
<1>1. pc[c] = "review"
  BY DEF TypeOK, CheckExclusives
<1>2. QED
  BY <1>1, ReturnType DEF CheckExclusives

LEMMA BeginType ==
  ASSUME TypeOK, NEW c \in Call, Begin(c)
  PROVE  TypeOK'
<1>1. PICK r \in Request : Submit(c, r)
  BY DEF Begin
<1>2. pc[c] = "idle" /\ at[c] = "none" /\ r # NoRequest
  BY <1>1, NamesAssumption DEF TypeOK, Submit
<1>3. /\ pc' \in [Call -> Status]
      /\ \A d \in Call : d # c => pc'[d] = pc[d]
      /\ pc'[c] \in {"review", "bypassed"}
  BY <1>1 DEF TypeOK, ApiTypeOK, Submit, Status
<1>4. ApiTypeOK'
  BY <1>1, <1>2, <1>3 DEF TypeOK, ApiTypeOK, Submit
<1>5. QED
  BY <1>1, <1>2, <1>3, <1>4 DEF TypeOK, ApiTypeOK, Begin, Submit, Step

LEMMA EndType ==
  ASSUME TypeOK, NEW c \in Call, End(c)
  PROVE  TypeOK'
<1>1. pc[c] \notin {"idle", "review"}
  BY DEF End, Complete, Write, Conflict, Refuse, Admitted, Refused
<1>2. req[c] \in Request
  BY <1>1 DEF TypeOK, ApiTypeOK
<1>3. req[c].res \in Resource /\ req[c].body \in Body \cup {Absent}
  BY <1>2 DEF Request
<1>4. /\ store' \in [Resource -> Body \cup {Absent}]
      /\ stale' \in [Call -> BOOLEAN]
  <2>1. CASE Write(c)
    BY <1>3, <2>1 DEF TypeOK, ApiTypeOK, Write
  <2>2. CASE Conflict(c) \/ Refuse(c)
    BY <2>2 DEF TypeOK, ApiTypeOK, Conflict, Refuse
  <2>3. QED
    BY <2>1, <2>2 DEF End, Complete
<1>5. Free(c) /\ UNCHANGED <<rules, watched, at, local>>
  BY DEF End, Complete, Write, Conflict, Refuse
<1>6. ApiTypeOK'
  BY <1>4, <1>5 DEF TypeOK, ApiTypeOK, Free, Status
<1>7. QED
  BY <1>1, <1>5, <1>6 DEF TypeOK, ApiTypeOK, Free

\* Types are kept by every step.
LEMMA TypeStep ==
  ASSUME TypeOK, [Next]_vars
  PROVE  TypeOK'
<1>1. CASE (ChangeRules \/ Reregister) /\ UNCHANGED <<at, local>>
  BY <1>1 DEF TypeOK, ApiTypeOK, ChangeRules, Reregister
<1>2. ASSUME NEW c \in Call, Handler(c)
      PROVE  TypeOK'
  <2>1. CASE FetchFails(c)
    BY <2>1, ReturnType DEF FetchFails, TypeOK
  <2>2. QED
    BY <1>2, <2>1, CheckLabelsType, ReadImmutablesType, FetchExistingType,
       AskCatalogType, CheckExclusivesType DEF Handler
<1>3. ASSUME NEW c \in Call, CallFails(c)
      PROVE  TypeOK'
  BY <1>3, ReturnType DEF CallFails
<1>4. CASE UNCHANGED vars
  BY <1>4 DEF TypeOK, ApiTypeOK, vars
<1>5. QED
  BY <1>1, <1>2, <1>3, <1>4, BeginType, EndType DEF Next

(***************************************************************************)
(* The validator is type correct: in particular a handler runs exactly for *)
(* the calls under review, its locals live exactly as long as the loop of  *)
(* validateImmutables, and that loop never looks past the rules it read.   *)
(***************************************************************************)
THEOREM TypeCorrect == Spec => []TypeOK
<1>1. Init => TypeOK
  BY BlankIsLocal DEF Init, ApiInit, TypeOK, ApiTypeOK, Status, Step, Blank
<1>2. TypeOK /\ [Next]_vars => TypeOK'
  BY TypeStep
<1>3. QED
  BY <1>1, <1>2, PTL DEF Spec
=============================================================================
