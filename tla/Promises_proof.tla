--------------------------- MODULE Promises_proof ---------------------------
(***************************************************************************)
(* From the one-step review to what the webhook is for: what an applied    *)
(* update keeps, what a denied request did, and the three promises of the  *)
(* README where the webhook is asked about every write, answers, and       *)
(* panics on none.  The hypotheses of the theorems are what the runs of    *)
(* MCFindings, and Faults, show they need.                                 *)
(***************************************************************************)
EXTENDS Review_proof

-----------------------------------------------------------------------------
(* Values, and the maps they are looked up in.                             *)

JsonValue(v) == v.json \in JsonKind

\* Values that are equal, or print alike, mean the same.
LEMMA SameMeaning ==
  ASSUME NEW a, JsonValue(a), NEW b, JsonValue(b),
         \/ GoEqual(DecodeRequest(a), DecodeCluster(b))
         \/ Sprint(DecodeRequest(a)) = Sprint(DecodeCluster(b))
  PROVE  Meaning(a) = Meaning(b)
<1>1. SameNumber(Sprint(DecodeRequest(a))) = Meaning(a)
  <2>1. CASE a.json = "integer"
    <3>1. /\ DecodeRequest(a) = [type |-> "float64", val |-> a.val]
          /\ DecodeCluster(a) = [type |-> "int64", val |-> a.val]
      BY <2>1 DEF DecodeRequest, DecodeCluster, RequestType, ClusterType
    <3>2. /\ Sprint(DecodeCluster(a)) = <<"decimal", a.val>>
          /\ Sprint(DecodeRequest(a)) \in {<<"decimal", a.val>>, <<"exponent", a.val>>}
      BY <3>1 DEF Sprint
    <3> QED
      BY <3>2 DEF Meaning, SameNumber
  <2>2. CASE a.json # "integer"
    <3>1. DecodeRequest(a) = DecodeCluster(a)
      BY <2>2 DEF DecodeRequest, DecodeCluster, RequestType, ClusterType, JsonValue, JsonKind
    <3> QED
      BY <3>1 DEF Meaning
  <2> QED
    BY <2>1, <2>2
<1>2. Sprint(DecodeRequest(a)) = Sprint(DecodeCluster(b))
  <2>1. CASE GoEqual(DecodeRequest(a), DecodeCluster(b))
    <3>1. DecodeRequest(a) = DecodeCluster(b)
      BY <2>1 DEF GoEqual, DecodeRequest, DecodeCluster
    <3> QED
      BY <3>1
  <2> QED
    BY <2>1
<1> QED
  BY <1>1, <1>2 DEF Meaning

\* What a map built by Parse has at a path is a value the spec gives it.
LEMMA ParsedValue ==
  ASSUME NEW spec, NEW flat \in Parse(spec), NEW q
  PROVE  \/ At(flat, q) = Null /\ {p \in DOMAIN spec : Lower[p] = q} = {}
         \/ \E p \in DOMAIN spec : Lower[p] = q /\ At(flat, q) = spec[p]
<1> DEFINE keys == {Lower[p] : p \in DOMAIN spec}
<1>1. /\ DOMAIN flat = keys
      /\ \A k \in keys : \E p \in DOMAIN spec : Lower[p] = k /\ flat[k] = spec[p]
  BY DEF Parse
<1> QED
  BY <1>1 DEF At

LEMMA ParsedMeaning ==
  ASSUME NEW spec, spec # NoSpec, NEW flat \in Parse(spec), NEW q
  PROVE  Meaning(At(flat, q)) \in Meanings(spec, q)
BY ParsedValue DEF Meanings, Spelled

\* A value of the specs of the instance.
LEMMA ParsedTyped ==
  ASSUME NEW body \in Body, body.spec # NoSpec, NEW flat \in Parse(body.spec), NEW q
  PROVE  /\ JsonValue(At(flat, q))
         /\ TextsAreMeanings => PrintsAsMeant(At(flat, q))
<1>1. JsonValue(Null)
  BY DEF JsonValue, Null, JsonKind
<1> QED
  BY <1>1, ParsedValue, BodiesAssumption DEF JsonValue, TextsAreMeanings

-----------------------------------------------------------------------------
(* The validations, in terms of what the specs mean.                       *)

LEMMA KeptByRule ==
  ASSUME FirstEntryIsRight, TextsAreMeanings,
         NEW a \in Body, a.spec # NoSpec, NEW b \in Body, b.spec # NoSpec,
         NEW old \in Parse(a.spec), NEW new \in Parse(b.spec),
         NEW kind, NEW rule, Keeps(kind, rule, old, new), NEW q \in Items(rule)
  PROVE  Kept(kind, a.spec, b.spec, q)
<1>1. CASE q \in Changed(rule, old, new)
  <2>1. IsPlan(kind, q) /\ Updateable(Reply(ClassText(old)))
    BY <1>1 DEF Keeps
  <2>2. ClassText(old) \in ClassTexts
    BY DEF ClassTexts, FlatMaps
  <2>3. ClassText(old) \in Meanings(a.spec, "spec.serviceclass")
    BY ParsedMeaning, ParsedTyped DEF ClassText, PrintsAsMeant
  <2> QED
    BY <2>1, <2>2, <2>3 DEF Kept, PlanMayChange, FirstEntryIsRight
<1>2. CASE q \notin Changed(rule, old, new)
  <2>1. \/ GoEqual(DecodeRequest(At(new, q)), DecodeCluster(At(old, q)))
        \/ Sprint(DecodeRequest(At(new, q))) = Sprint(DecodeCluster(At(old, q)))
    BY <1>2 DEF Changed, Differs
  <2>2. Meaning(At(new, q)) = Meaning(At(old, q))
    BY <2>1, SameMeaning, ParsedTyped
  <2> QED
    BY <2>2, ParsedMeaning DEF Kept, MayAgree
<1> QED
  BY <1>1, <1>2

LEMMA ChangedByRule ==
  ASSUME TextsAreMeanings,
         NEW a \in Body, a.spec # NoSpec, NEW b \in Body, b.spec # NoSpec,
         NEW old \in Parse(a.spec), NEW new \in Parse(b.spec),
         NEW kind, NEW rule, ~Crashes(rule, old, new), ~Keeps(kind, rule, old, new)
  PROVE  \E q \in Items(rule) : MayDisagree(a.spec, b.spec, q)
<1>1. PICK q \in Items(rule) : Differs(old, new, q)
  BY DEF Keeps, Changed
<1>2. Meaning(At(new, q)) # Meaning(At(old, q))
  BY <1>1, ParsedTyped DEF Differs, PrintsAsMeant
<1> QED
  BY <1>2, ParsedMeaning DEF MayDisagree

LEMMA ClashNames ==
  ASSUME NEW r, NEW body \in Body, body.spec # NoSpec, NEW new \in Parse(body.spec),
         NEW cfg, ~ExclusivesAllowed(cfg.exclusives, TypeOf[r], new)
  PROVE  NamesExclusives(r, body, cfg)
<1>1. ASSUME NEW q, Present(new, q)
      PROVE  NamesPath(body.spec, q)
  <2>1. At(new, q) # Null /\ At(new, q) # [json |-> "object", val |-> 0]
    BY <1>1 DEF Present, Null
  <2> QED
    BY <2>1, ParsedValue DEF NamesPath, Spelled
<1>2. PICK i \in DOMAIN cfg.exclusives :
        /\ AppliesToType(cfg.exclusives[i], TypeOf[r])
        /\ \E list \in cfg.exclusives[i].exclusives : Clash(list, new)
  BY DEF ExclusivesAllowed
<1>3. cfg.exclusives # Unreadable
  BY DEF ExclusivesAllowed
<1>4. i \in EveryOfKind(cfg.exclusives, Kind(r))
  BY <1>2 DEF AppliesToType, EveryOfKind, Kind
<1> QED
  BY <1>1, <1>2, <1>3, <1>4 DEF Clash, NamesExclusives

-----------------------------------------------------------------------------
(* A verdict that has been returned, until it is acted on.                 *)

Reason(c) ==
  \/ req[c].op = "DELETE"
  \/ \E cfg \in seen[c] : \/ ~LabelsPass(c, cfg)
                          \/ ImmutablesReject(c, cfg)
                          \/ ExclusivesReject(c, cfg)

VerdictOK(c) ==
  /\ pc[c] = "allowed" => /\ req[c].op # "DELETE"
                          /\ \E cfg \in seen[c] : LabelsPass(c, cfg)
                          /\ \E cfg \in seen[c] : ImmutablesPass(c, cfg)
                          /\ \E cfg \in seen[c] : ExclusivesPass(c, cfg)
  /\ pc[c] = "denied" => Reason(c)

\* What a step that is not the call's own does to one that has its verdict.
Waits(c) ==
  /\ pc'[c] = pc[c] /\ req'[c] = req[c] /\ seen'[c] = seen[c]
  /\ ~stale'[c] => ~stale[c] /\ store'[Target(c)] = store[Target(c)]

LEMMA WaitsVerdict ==
  ASSUME NEW c, Waits(c), VerdictOK(c)
  PROVE  VerdictOK(c)'
<1>1. /\ Target(c)' = Target(c) /\ New(c)' = New(c) /\ Comparing(c)' = Comparing(c)
      /\ seen'[c] = seen[c] /\ pc'[c] = pc[c] /\ req'[c] = req[c]
  BY DEF Waits, Target, New, Comparing
<1>2. ASSUME NEW rule, NEW new
      PROVE  /\ RuleKeeps(c, rule, new) => RuleKeeps(c, rule, new)'
             /\ RuleRejects(c, rule, new) => RuleRejects(c, rule, new)'
  BY <1>1 DEF Waits, RuleKeeps, RuleRejects, Unmoved
<1>3. ASSUME NEW cfg
      PROVE  /\ ImmutablesPass(c, cfg) => ImmutablesPass(c, cfg)'
             /\ ImmutablesReject(c, cfg) => ImmutablesReject(c, cfg)'
             /\ LabelsPass(c, cfg)' = LabelsPass(c, cfg)
             /\ ExclusivesPass(c, cfg)' = ExclusivesPass(c, cfg)
             /\ ExclusivesReject(c, cfg)' = ExclusivesReject(c, cfg)
  BY <1>1, <1>2 DEF ImmutablesPass, ImmutablesReject, LabelsPass, ExclusivesPass,
     ExclusivesReject, RulesFor
<1> QED
  BY <1>1, <1>3 DEF VerdictOK, Reason

\* The call's verdict is returned.
LEMMA AnswerVerdict ==
  ASSUME TypeOK, NEW c \in Call, Allow(c) \/ Deny(c) \/ Fail(c)
  PROVE  VerdictOK(c)'
<1>1. UNCHANGED <<store, req, stale, seen>>
  BY DEF Allow, Deny, Fail, Answer
<1>2. /\ Reason(c)' = Reason(c)
      /\ \A cfg : /\ ImmutablesPass(c, cfg)' = ImmutablesPass(c, cfg)
                 /\ LabelsPass(c, cfg)' = LabelsPass(c, cfg)
                 /\ ExclusivesPass(c, cfg)' = ExclusivesPass(c, cfg)
  BY <1>1 DEF Reason, ImmutablesPass, ImmutablesReject, ExclusivesPass, ExclusivesReject,
     LabelsPass, RulesFor, RuleKeeps, RuleRejects, Comparing, Unmoved, Target, New
<1>3. /\ Allow(c) => /\ pc'[c] = "allowed" /\ req[c].op # "DELETE"
                     /\ \E cfg \in seen[c] : LabelsPass(c, cfg)
                     /\ \E cfg \in seen[c] : ImmutablesPass(c, cfg)
                     /\ \E cfg \in seen[c] : ExclusivesPass(c, cfg)
      /\ Deny(c) => pc'[c] = "denied" /\ Reason(c)
      /\ Fail(c) => pc'[c] = "failed"
  BY DEF TypeOK, ApiTypeOK, Allow, Deny, Fail, Answer, Reason
<1> QED
  BY <1>1, <1>2, <1>3 DEF VerdictOK

LEMMA OthersWait ==
  ASSUME TypeOK, NEW c \in Call, pc[c] \in {"allowed", "denied"}, NEW d \in Call, d # c,
         \/ \E r \in Request : Submit(d, r)
         \/ Complete(d)
         \/ Allow(d) \/ Deny(d) \/ Fail(d)
  PROVE  Waits(c)
<1>1. CASE Allow(d) \/ Deny(d) \/ Fail(d)
  BY <1>1 DEF TypeOK, ApiTypeOK, Allow, Deny, Fail, Answer, Waits
<1>2. ASSUME NEW r \in Request, Submit(d, r) PROVE Waits(c)
  BY <1>2 DEF TypeOK, ApiTypeOK, Submit, Waits
<1>3. CASE Complete(d)
  <2>1. pc'[c] = pc[c] /\ req'[c] = req[c] /\ seen'[c] = seen[c]
    BY <1>3 DEF TypeOK, ApiTypeOK, Complete, Write, Conflict, Refuse, Free
  <2>2. CASE Write(d)
    <3>1. /\ store' = [store EXCEPT ![req[d].res] = req[d].body]
          /\ stale'[c] <=> c \in Rivals(d) \/ stale[c]
      BY <2>2 DEF Write
    <3>2. CASE req[c].res = req[d].res
      BY <2>1, <3>1, <3>2 DEF Waits, Rivals
    <3>3. CASE req[c].res # req[d].res
      BY <2>1, <3>1, <3>3 DEF Waits, Target, TypeOK, ApiTypeOK
    <3> QED
      BY <3>2, <3>3
  <2>3. CASE Conflict(d) \/ Refuse(d)
    BY <2>1, <2>3 DEF TypeOK, ApiTypeOK, Conflict, Refuse, Waits
  <2> QED
    BY <1>3, <2>2, <2>3 DEF Complete
<1> QED
  BY <1>1, <1>2, <1>3

Verdicts == \A c \in Call : VerdictOK(c)

LEMMA VerdictStep == TypeOK /\ Verdicts /\ [AtomicNext]_apiVars => Verdicts'
<1> SUFFICES ASSUME TypeOK, Verdicts, [AtomicNext]_apiVars, NEW c \in Call
             PROVE  VerdictOK(c)'
  BY DEF Verdicts
<1>0. VerdictOK(c)
  BY DEF Verdicts
<1>1. CASE UNCHANGED apiVars
  BY <1>0, <1>1, WaitsVerdict DEF apiVars, Waits
<1>2. CASE ChangeRules \/ Reregister
  <2>1. CASE pc[c] = "review"
    BY <1>2, <2>1 DEF ChangeRules, Reregister, VerdictOK
  <2>2. CASE pc[c] # "review"
    BY <1>0, <1>2, <2>2, WaitsVerdict DEF ChangeRules, Reregister, Waits
  <2> QED
    BY <2>1, <2>2
<1>3. ASSUME NEW d \in Call,
             \/ \E r \in Request : Submit(d, r)
             \/ Complete(d)
             \/ Allow(d) \/ Deny(d) \/ Fail(d)
      PROVE  VerdictOK(c)'
  <2>1. CASE d = c
    <3>1. CASE Allow(c) \/ Deny(c) \/ Fail(c)
      BY <3>1, AnswerVerdict
    <3>2. ASSUME NEW r \in Request, Submit(c, r) PROVE VerdictOK(c)'
      <4>1. pc'[c] \in {"review", "bypassed"}
        BY <3>2 DEF TypeOK, ApiTypeOK, Submit
      <4> QED
        BY <4>1 DEF VerdictOK
    <3>3. CASE Complete(c)
      <4>1. pc'[c] = "idle"
        BY <3>3 DEF TypeOK, ApiTypeOK, Complete, Write, Conflict, Refuse, Free
      <4> QED
        BY <4>1 DEF VerdictOK
    <3> QED
      BY <1>3, <2>1, <3>1, <3>2, <3>3
  <2>2. CASE d # c /\ pc[c] \in {"allowed", "denied"}
    BY <1>0, <1>3, <2>2, OthersWait, WaitsVerdict
  <2>3. CASE d # c /\ pc[c] \notin {"allowed", "denied"}
    <3>1. pc'[c] = pc[c]
      BY <1>3, <2>3 DEF TypeOK, ApiTypeOK, Submit, Complete, Write, Conflict, Refuse, Free,
         Allow, Deny, Fail, Answer
    <3> QED
      BY <2>3, <3>1 DEF VerdictOK
  <2> QED
    BY <2>1, <2>2, <2>3
<1> QED
  BY <1>1, <1>2, <1>3 DEF AtomicNext

LEMMA InitVerdicts == Init => Verdicts
BY DEF Init, ApiInit, Verdicts, VerdictOK

LEMMA AlwaysVerdicts == Spec => []Verdicts
<1>1. TypeOK /\ ReviewsInProgress /\ Verdicts /\ [Next]_vars => Verdicts'
  BY ReviewStep, VerdictStep
<1> QED
  BY <1>1, InitVerdicts, TypeCorrect, ReviewsSound, PTL DEF Spec

-----------------------------------------------------------------------------
(* The two promises.                                                       *)

\* A request that is neither free nor a deletion carries an object.
LEMMA RequestTyped ==
  ASSUME TypeOK, NEW c \in Call, pc[c] # "idle", req[c].op # "DELETE"
  PROVE  New(c) \in Body /\ Target(c) \in Resource /\ req[c].op \in {"CREATE", "UPDATE"}
BY DEF TypeOK, ApiTypeOK, Request, New, Target

\* An update under review, and not stale, finds an object in the store.
LEMMA StoredTyped ==
  ASSUME TypeOK, ReviewsInProgress, NEW c \in Call, pc[c] # "idle", req[c].op = "UPDATE",
         Unmoved(c)
  PROVE  store[Target(c)] \in Body
<1>1. store[Target(c)] # Absent
  BY DEF ReviewsInProgress, ReviewOK
<1> QED
  BY <1>1, RequestTyped DEF TypeOK, ApiTypeOK

LEMMA RulesProtect ==
  ASSUME NEW c, NEW cfg, NEW q
  PROVE  q \in Protected(cfg, Kind(Target(c))) <=> \E rule \in RulesFor(c, cfg) : q \in Items(rule)
BY DEF Protected, RulesFor, EveryOfKind, MatchingKind

LEMMA DenialsHaveReasons ==
  ASSUME TextsAreMeanings, TypeOK, ReviewsInProgress, Verdicts
  PROVE  RejectionsAreJustified
<1> SUFFICES ASSUME NEW c \in Call, pc[c] = "denied", ~stale[c], ~NetworkFaults,
                    req[c].op # "DELETE"
             PROVE  \E cfg \in seen[c] :
                      \/ LabelsOn /\ LacksLabel(c, cfg)
                      \/ ImmutablesOn /\ req[c].op = "UPDATE" /\ ChangesImmutable(c, cfg)
                      \/ ExclusivesOn /\ NamesExclusives(Target(c), New(c), cfg)
  BY DEF RejectionsAreJustified
<1>1. PICK cfg \in seen[c] :
        ~LabelsPass(c, cfg) \/ ImmutablesReject(c, cfg) \/ ExclusivesReject(c, cfg)
  BY DEF Verdicts, VerdictOK, Reason
<1>2. New(c) \in Body
  BY RequestTyped
<1>3. CASE ~LabelsPass(c, cfg)
  BY <1>3 DEF LabelsPass, LabelsAllowed, FirstOfKind, EveryOfKind, LacksLabel
<1>4. CASE ImmutablesReject(c, cfg)
  <2>1. /\ ImmutablesOn /\ req[c].op = "UPDATE" /\ New(c).spec # NoSpec /\ Unmoved(c)
    BY <1>4 DEF ImmutablesReject, Comparing, ReadableByImmutables, CoreSafe, Unmoved
  <2>2. PICK new \in Parse(New(c).spec), rule \in RulesFor(c, cfg) : RuleRejects(c, rule, new)
    BY <1>4 DEF ImmutablesReject
  <2>3. store[Target(c)] \in Body
    BY <2>1, StoredTyped
  <2>4. PICK old \in Parse(store[Target(c)].spec) :
          ~Crashes(rule, old, new) /\ ~Keeps(Kind(Target(c)), rule, old, new)
    BY <2>1, <2>2 DEF RuleRejects
  <2>5. store[Target(c)].spec # NoSpec
    BY <2>1, <2>2 DEF RuleRejects
  <2>6. \E q \in Items(rule) : MayDisagree(store[Target(c)].spec, New(c).spec, q)
    BY <1>2, <2>1, <2>3, <2>4, <2>5, ChangedByRule
  <2> QED
    BY <2>1, <2>6, RulesProtect DEF ChangesImmutable
<1>5. CASE ExclusivesReject(c, cfg)
  <2>1. New(c).spec # NoSpec
    BY <1>5 DEF ExclusivesReject, ReadableByExclusives, CoreSafe
  <2> QED
    BY <1>2, <1>5, <2>1, ClashNames DEF ExclusivesReject
<1> QED
  BY <1>1, <1>3, <1>4, <1>5

LEMMA WritesKeepImmutables ==
  ASSUME FirstEntryIsRight, TextsAreMeanings, TypeOK, ReviewsInProgress, Verdicts,
         [AtomicNext]_apiVars, NEW c \in Call, pc[c] = "allowed", pc'[c] = "idle",
         ImmutablesOn, Replaced(Target(c)),
         NEW q, \A cfg \in seen[c] : q \in Protected(cfg, Kind(Target(c)))
  PROVE  Kept(Kind(Target(c)), store[Target(c)].spec, New(c).spec, q)
<1>1. store' # store /\ pc' # pc
  BY DEF Replaced
<1>2. PICK d \in Call : Write(d)
  BY <1>1 DEF AtomicNext, apiVars, ChangeRules, Reregister, Submit, Complete, Conflict, Refuse,
     Allow, Deny, Fail, Answer
<1>3. d = c
  BY <1>2 DEF Write, Free, TypeOK, ApiTypeOK
<1>4. req[c].op # "DELETE" /\ \E cfg \in seen[c] : ImmutablesPass(c, cfg)
  BY DEF Verdicts, VerdictOK
<1>5. New(c) \in Body /\ Target(c) \in Resource /\ req[c].op \in {"CREATE", "UPDATE"}
  BY <1>4, RequestTyped
<1>6. Unmoved(c) /\ req[c].op = "UPDATE"
  <2>1. Unmoved(c)
    BY <1>2, <1>3 DEF Write
  <2> QED
    BY <1>5, <2>1 DEF Replaced, ReviewsInProgress, ReviewOK
<1>7. store[Target(c)] \in Body
  BY <1>6, StoredTyped
<1>8. PICK cfg \in seen[c] : ImmutablesPass(c, cfg)
  BY <1>4
<1>9. Comparing(c)
  BY <1>6 DEF Comparing
<1>10. PICK new \in Parse(New(c).spec) : \A rule \in RulesFor(c, cfg) : RuleKeeps(c, rule, new)
  BY <1>8, <1>9 DEF ImmutablesPass
<1>11. New(c).spec # NoSpec
  BY <1>8, <1>9 DEF ImmutablesPass, ReadableByImmutables, CoreSafe
<1>12. PICK rule \in RulesFor(c, cfg) : q \in Items(rule)
  BY RulesProtect
<1>13. PICK old \in Parse(store[Target(c)].spec) :
         store[Target(c)].spec # NoSpec /\ Keeps(Kind(Target(c)), rule, old, new)
  BY <1>6, <1>10, <1>12 DEF RuleKeeps
<1> QED
  BY <1>5, <1>7, <1>10, <1>11, <1>12, <1>13, KeptByRule

(***************************************************************************)
(* A request that is denied, without a lost call and not because it is     *)
(* stale, deletes, lacks a label, changes an immutable path or names two   *)
(* exclusive ones under one ConfigMap of its review, for any rules, calls  *)
(* and objects whose values print as what they mean (Handle).              *)
(***************************************************************************)
THEOREM DenialsJustified == TextsAreMeanings => (Spec => []RejectionsAreJustified)
<1> SUFFICES ASSUME TextsAreMeanings PROVE Spec => []RejectionsAreJustified
  OBVIOUS
<1>1. TypeOK /\ ReviewsInProgress /\ Verdicts => RejectionsAreJustified
  BY DenialsHaveReasons
<1> QED
  BY <1>1, TypeCorrect, ReviewsSound, AlwaysVerdicts, PTL

(***************************************************************************)
(* An update the webhook allowed, when it is applied, leaves every path    *)
(* that was immutable under all ConfigMaps of its review as it is in the   *)
(* object it replaces, or changes the plan of a service that may change    *)
(* it, provided the catalog's first entry speaks for the service           *)
(* (validateImmutables, and Unmoved of the API server).                    *)
(***************************************************************************)
THEOREM AllowedUpdatesKeep ==
  TextsAreMeanings /\ FirstEntryIsRight => (Spec => ReviewedUpdatesKeepImmutables)
<1> SUFFICES ASSUME TextsAreMeanings, FirstEntryIsRight
             PROVE  Spec => ReviewedUpdatesKeepImmutables
  OBVIOUS
<1> DEFINE WritesKeep ==
      \A c \in Call :
        (/\ pc[c] = "allowed" /\ pc'[c] = "idle"
         /\ ImmutablesOn /\ Replaced(Target(c))) =>
          \A q \in UNION {Protected(cfg, Kind(Target(c))) : cfg \in Config} :
            (\A cfg \in seen[c] : q \in Protected(cfg, Kind(Target(c)))) =>
              Kept(Kind(Target(c)), store[Target(c)].spec, New(c).spec, q)
<1>1. TypeOK /\ ReviewsInProgress /\ Verdicts /\ [Next]_vars => [WritesKeep]_vars
  BY ReviewStep, WritesKeepImmutables
<1> HIDE DEF WritesKeep
<1> QED
  BY <1>1, TypeCorrect, ReviewsSound, AlwaysVerdicts, PTL
     DEF Spec, ReviewedUpdatesKeepImmutables, WritesKeep

-----------------------------------------------------------------------------
(* The promises of the README.  First, handlers that do not panic return a *)
(* verdict.                                                                *)

\* No rule of the instance makes the comparison of two values panic.
LEMMA NoCrash ==
  ASSUME NoPanics, NEW cfg \in Config, NEW c, NEW rule \in RulesFor(c, cfg),
         NEW body \in Body, NEW new \in Parse(body.spec), NEW old
  PROVE  ~Crashes(rule, old, new)
<1> SUFFICES ASSUME NEW q \in Items(rule), Panics(old, new, q) PROVE FALSE
  BY DEF Crashes
<1>1. PICK i \in DOMAIN cfg.immutables : rule = cfg.immutables[i] /\ cfg.immutables # Unreadable
  BY DEF RulesFor, MatchingKind
<1>2. At(new, q).json \notin {"object", "array"}
  <2>1. CASE At(new, q) = Null
    BY <2>1 DEF Null
  <2>2. ASSUME NEW p \in DOMAIN body.spec, Lower[p] = q, At(new, q) = body.spec[p]
        PROVE  At(new, q).json \notin {"object", "array"}
    BY <1>1, <2>2 DEF NoPanics
  <2> QED
    BY <2>1, <2>2, ParsedValue
<1>3. At(new, q).json \in JsonKind
  BY ParsedTyped DEF NoPanics, JsonValue
<1>4. DecodeRequest(At(new, q)).type \notin {"map", "slice"}
  BY <1>2, <1>3 DEF DecodeRequest, RequestType, JsonKind
<1> QED
  BY <1>4 DEF Panics, ComparePanics

LEMMA ReadableBodies ==
  ASSUME NoPanics, NEW r \in Resource, NEW body \in Body
  PROVE  ReadableByImmutables(r, body) /\ ReadableByExclusives(r, body)
BY DEF NoPanics, ReadableByImmutables, ReadableByExclusives, CoreSafe

\* Whatever it reads, a handler answers, with the faults of the network left
\* aside, which cut it off.
LEMMA HandlersAnswer ==
  ASSUME NoPanics, TypeOK, ReviewsInProgress, NEW c \in Call, Handler(c)
  PROVE  /\ pc[c] = "review" /\ pc'[c] \in {"review", "allowed", "denied"}
         /\ req' = req /\ \A d \in Call \ {c} : pc'[d] = pc[d]
<1>1. at[c] # "none"
  BY DEF Handler, CheckLabels, ReadImmutables, FetchExisting, FetchFails, AskCatalog,
     CheckExclusives
<1>2. pc[c] = "review"
  BY <1>1 DEF TypeOK
<1> SUFFICES pc'[c] # "failed"
  <2>1. AtomicStep(c)
    BY HandlerReview DEF ReviewsInProgress
  <2>2. /\ pc'[c] \in {pc[c], "allowed", "denied", "failed"}
        /\ req' = req /\ \A d \in Call \ {c} : pc'[d] = pc[d]
    BY <2>1 DEF AtomicStep, Allow, Deny, Fail, Answer, apiVars, TypeOK, ApiTypeOK
  <2> QED
    BY <1>2, <2>2
<1>3. ASSUME at[c] # "labels" PROVE New(c) \in Body /\ Target(c) \in Resource
  BY <1>1, <1>2, <1>3, RequestTyped DEF TypeOK
<1>4. ASSUME NEW step, NEW l, Continue(c, step, l) PROVE pc'[c] # "failed"
  BY <1>2, <1>4 DEF Continue, apiVars
<1>5. ASSUME NEW verdict \in {"allowed", "denied"}, Return(c, verdict) PROVE pc'[c] # "failed"
  BY <1>5 DEF Return, Answer, TypeOK, ApiTypeOK
<1>6. ASSUME AfterImmutables(c) PROVE pc'[c] # "failed"
  BY <1>4, <1>5, <1>6 DEF AfterImmutables
<1>7. ASSUME NEW l, AfterRule(c, l) PROVE pc'[c] # "failed"
  BY <1>4, <1>5, <1>6, <1>7 DEF AfterRule
<1>8. CASE CheckLabels(c)
  BY <1>4, <1>5, <1>6, <1>8 DEF CheckLabels, AfterLabels
<1>9. CASE ReadImmutables(c)
  <2>1. ReadableByImmutables(Target(c), New(c))
    BY <1>3, <1>9, ReadableBodies DEF ReadImmutables
  <2> QED
    BY <1>4, <1>6, <1>9, <2>1 DEF ReadImmutables
<1>10. CASE FetchExisting(c)
  <2>1. at[c] = "fetch" /\ store[Target(c)] \in Body /\ New(c) \in Body
    BY <1>3, <1>10 DEF FetchExisting, TypeOK, ApiTypeOK
  <2>2. store[Target(c)].spec # NoSpec
    BY <2>1 DEF NoPanics
  <2>3. PICK k \in Current(local[c]), old \in Parse(store[Target(c)].spec) : Compare(c, k, old)
    BY <1>10, <2>2 DEF FetchExisting
  <2>4. PICK cfg \in seen[c] : LoopUnder(c, local[c], cfg)
    BY <2>1 DEF ReviewsInProgress, ReviewOK, HandlerKnows
  <2>5. cfg \in Config /\ local[c].new \in Parse(New(c).spec)
    BY <2>1 DEF TypeOK, ApiTypeOK, ReviewsInProgress, ReviewOK, HandlerKnows
  <2>6. local[c].rules[k] \in RulesFor(c, cfg)
    <3>1. k \in local[c].todo
      BY <2>3 DEF Current
    <3> QED
      BY <2>4, <3>1 DEF LoopUnder, RulesFor
  <2>7. ~Crashes(local[c].rules[k], old, local[c].new)
    BY <2>1, <2>5, <2>6, NoCrash
  <2> QED
    BY <1>4, <1>7, <2>3, <2>7 DEF Compare
<1>11. CASE FetchFails(c)
  BY <1>5, <1>11 DEF FetchFails
<1>12. CASE AskCatalog(c)
  BY <1>7, <1>12 DEF AskCatalog
<1>13. CASE CheckExclusives(c)
  <2>1. ReadableByExclusives(Target(c), New(c))
    BY <1>3, <1>13, ReadableBodies DEF CheckExclusives
  <2> QED
    BY <1>5, <1>13, <2>1 DEF CheckExclusives
<1> QED
  BY <1>8, <1>9, <1>10, <1>11, <1>12, <1>13 DEF Handler

-----------------------------------------------------------------------------
(* Every request that can still be applied was allowed, or deletes.        *)

AnsweredOK(c) ==
  /\ pc[c] = "failed" => stale[c]
  /\ pc[c] = "bypassed" => req[c].op = "DELETE"

Answered == \A c \in Call : AnsweredOK(c)

\* A review that fails belongs to a request that cannot be applied.
LEMMA FailsOnlyStale ==
  ASSUME EveryWriteIsReviewed, TypeOK, ReviewsInProgress, NEW c \in Call, Fail(c)
  PROVE  stale[c]
<1>1. pc[c] = "review" /\ req[c].op # "DELETE"
  BY DEF Fail, EveryWriteIsReviewed
<1>2. /\ New(c) \in Body /\ Target(c) \in Resource
      /\ ReadableByImmutables(Target(c), New(c))
      /\ ReadableByExclusives(Target(c), New(c))
  BY <1>1, RequestTyped, ReadableBodies DEF EveryWriteIsReviewed
<1>3. PICK cfg \in seen[c] : PanicsOnOld(c, cfg)
  BY <1>2 DEF Fail, EveryWriteIsReviewed, PanicsOnNew
<1>4. PICK new \in Parse(New(c).spec), rule \in RulesFor(c, cfg) : RulePanics(c, rule, new)
  BY <1>3 DEF PanicsOnOld
<1>5. cfg \in Config
  BY DEF TypeOK, ApiTypeOK
<1>6. \A old : ~Crashes(rule, old, new)
  BY <1>2, <1>4, <1>5, NoCrash DEF EveryWriteIsReviewed
<1>7. ASSUME Unmoved(c) PROVE FALSE
  <2>1. req[c].op = "UPDATE"
    BY <1>3 DEF PanicsOnOld, Comparing
  <2>2. store[Target(c)].spec # NoSpec
    BY <1>1, <1>7, <2>1, StoredTyped DEF EveryWriteIsReviewed, NoPanics
  <2> QED
    BY <1>4, <1>6, <1>7, <2>2 DEF RulePanics
<1> QED
  BY <1>7 DEF Unmoved, TypeOK, ApiTypeOK

\* What a step of another call leaves to a call that is not free.
LEMMA OthersKeep ==
  ASSUME TypeOK, NEW c \in Call, NEW d \in Call, d # c,
         \/ \E r \in Request : Submit(d, r)
         \/ Complete(d)
         \/ Allow(d) \/ Deny(d) \/ Fail(d)
  PROVE  /\ pc'[c] = pc[c] /\ req'[c] = req[c]
         /\ stale[c] => stale'[c]
<1>1. CASE Allow(d) \/ Deny(d) \/ Fail(d)
  BY <1>1 DEF TypeOK, ApiTypeOK, Allow, Deny, Fail, Answer
<1>2. ASSUME NEW r \in Request, Submit(d, r)
      PROVE  pc'[c] = pc[c] /\ req'[c] = req[c] /\ stale' = stale
  BY <1>2 DEF TypeOK, ApiTypeOK, Submit
<1>3. CASE Complete(d)
  BY <1>3 DEF TypeOK, ApiTypeOK, Complete, Write, Conflict, Refuse, Free
<1> QED
  BY <1>1, <1>2, <1>3

LEMMA AnsweredStep ==
  ASSUME EveryWriteIsReviewed, TypeOK, ReviewsInProgress, Answered, [AtomicNext]_apiVars
  PROVE  Answered'
<1> SUFFICES ASSUME NEW c \in Call PROVE AnsweredOK(c)'
  BY DEF Answered
<1>0. AnsweredOK(c)
  BY DEF Answered
<1>1. CASE UNCHANGED apiVars \/ ChangeRules \/ Reregister
  BY <1>0, <1>1 DEF AnsweredOK, apiVars, ChangeRules, Reregister
<1>2. ASSUME NEW r \in Request, Submit(c, r) PROVE AnsweredOK(c)'
  <2>1. req'[c] = r /\ pc'[c] \in {"review", "bypassed"}
    BY <1>2 DEF TypeOK, ApiTypeOK, Submit
  <2>2. ASSUME r.op # "DELETE" PROVE <<r.op, r.res>> \in watched
    <3>1. r.op \in {"CREATE", "UPDATE"} /\ r.res \in Resource
      BY <2>2 DEF Request
    <3> QED
      BY <3>1 DEF EveryWriteIsReviewed, TypeOK, ApiTypeOK
  <2>3. <<r.op, r.res>> \in watched => pc'[c] = "review"
    BY <1>2 DEF TypeOK, ApiTypeOK, Submit
  <2> QED
    BY <2>1, <2>2, <2>3 DEF AnsweredOK
<1>3. CASE Complete(c)
  <2>1. pc'[c] = "idle"
    BY <1>3 DEF TypeOK, ApiTypeOK, Complete, Write, Conflict, Refuse, Free
  <2> QED
    BY <2>1 DEF AnsweredOK
<1>4. CASE Allow(c) \/ Deny(c)
  <2>1. pc'[c] \in {"allowed", "denied"}
    BY <1>4 DEF TypeOK, ApiTypeOK, Allow, Deny, Answer
  <2> QED
    BY <2>1 DEF AnsweredOK
<1>5. CASE Fail(c)
  <2>1. pc'[c] = "failed" /\ stale' = stale
    BY <1>5 DEF TypeOK, ApiTypeOK, Fail, Answer
  <2> QED
    BY <1>5, <2>1, FailsOnlyStale DEF AnsweredOK
<1>6. ASSUME NEW d \in Call, d # c,
             \/ \E r \in Request : Submit(d, r)
             \/ Complete(d)
             \/ Allow(d) \/ Deny(d) \/ Fail(d)
      PROVE  AnsweredOK(c)'
  BY <1>0, <1>6, OthersKeep DEF AnsweredOK
<1> QED
  BY <1>1, <1>2, <1>3, <1>4, <1>5, <1>6 DEF AtomicNext

\* The invariant the three promises rest on.
Knows == TypeOK /\ ReviewsInProgress /\ Verdicts /\ Answered

LEMMA AlwaysKnows == EveryWriteIsReviewed => (Spec => []Knows)
<1> SUFFICES ASSUME EveryWriteIsReviewed PROVE Spec => []Knows
  OBVIOUS
<1>1. Init => Answered
  BY DEF Init, ApiInit, Answered, AnsweredOK
<1>2. TypeOK /\ ReviewsInProgress /\ Answered /\ [Next]_vars => Answered'
  BY ReviewStep, AnsweredStep
<1>3. TypeOK /\ ReviewsInProgress /\ Verdicts /\ Answered => Knows
  BY DEF Knows
<1> QED
  BY <1>1, <1>2, <1>3, TypeCorrect, ReviewsSound, AlwaysVerdicts, PTL DEF Spec

LEMMA KnowsStep == Knows /\ [Next]_vars => [AtomicNext]_apiVars
BY ReviewStep DEF Knows

-----------------------------------------------------------------------------
(* What is stored.                                                         *)

LEMMA StoredWasAllowed ==
  ASSUME Knows, [AtomicNext]_apiVars, NEW r \in Resource, store'[r] \notin {Absent, store[r]}
  PROVE  \E c \in Call : /\ pc[c] = "allowed" /\ pc'[c] = "idle"
                         /\ Target(c) = r
                         /\ New(c) = store'[r] /\ New(c) \in Body
<1>1. PICK c \in Call : Write(c)
  BY DEF AtomicNext, apiVars, ChangeRules, Reregister, Submit, Complete, Conflict, Refuse,
     Allow, Deny, Fail, Answer
<1>2. TypeOK /\ AnsweredOK(c) /\ VerdictOK(c)
  BY DEF Knows, Answered, Verdicts
<1>3. store' = [store EXCEPT ![req[c].res] = req[c].body] /\ ~stale[c]
  BY <1>1 DEF Write, Unmoved
<1>4. Target(c) = r /\ New(c) = store'[r]
  BY <1>2, <1>3 DEF TypeOK, ApiTypeOK, Target, New
<1>5. pc[c] \in {"allowed", "bypassed", "failed"} /\ pc'[c] = "idle"
  BY <1>1, <1>2 DEF Write, Admitted, Free, TypeOK, ApiTypeOK
<1>6. req[c] \in Request
  BY <1>2, <1>5 DEF TypeOK, ApiTypeOK
<1>7. req[c].op # "DELETE"
  BY <1>4, <1>6 DEF New, Request
<1>8. pc[c] = "allowed"
  BY <1>2, <1>3, <1>5, <1>7 DEF AnsweredOK
<1> QED
  BY <1>2, <1>4, <1>5, <1>7, <1>8, RequestTyped

LEMMA WritesKeepProtected ==
  ASSUME ImmutablesOn, TextsAreMeanings, FirstEntryIsRight, Knows, [AtomicNext]_apiVars,
         NEW r \in Resource, Replaced(r),
         NEW q, \A cfg \in Config : q \in Protected(cfg, Kind(r))
  PROVE  Kept(Kind(r), store[r].spec, store'[r].spec, q)
<1>1. PICK c \in Call : /\ pc[c] = "allowed" /\ pc'[c] = "idle"
                        /\ Target(c) = r /\ New(c) = store'[r]
  BY StoredWasAllowed DEF Replaced
<1>2. \A cfg \in seen[c] : q \in Protected(cfg, Kind(Target(c)))
  BY <1>1 DEF Knows, TypeOK, ApiTypeOK
<1>3. Kept(Kind(Target(c)), store[Target(c)].spec, New(c).spec, q)
  BY <1>1, <1>2, WritesKeepImmutables DEF Knows
<1> QED
  BY <1>1, <1>3

\* What is applied without a failure of the webhook was allowed by it.
LEMMA AppliedKeeps ==
  ASSUME ImmutablesOn, TextsAreMeanings, FirstEntryIsRight,
         TypeOK, ReviewsInProgress, Verdicts, [AtomicNext]_apiVars,
         NEW c \in Call, pc[c] \notin {"idle", "failed", "bypassed"}, pc'[c] = "idle",
         Replaced(Target(c)),
         NEW q, \A cfg \in Config : q \in Protected(cfg, Kind(Target(c)))
  PROVE  Kept(Kind(Target(c)), store[Target(c)].spec, New(c).spec, q)
<1>1. PICK d \in Call : Write(d)
  BY DEF AtomicNext, apiVars, ChangeRules, Reregister, Submit, Complete, Conflict, Refuse,
     Allow, Deny, Fail, Answer, Replaced
<1>2. d = c /\ Admitted(c)
  BY <1>1 DEF Write, Free, TypeOK, ApiTypeOK
<1>3. pc[c] = "allowed" /\ seen[c] \subseteq Config
  BY <1>2 DEF Admitted, TypeOK, ApiTypeOK
<1> QED
  BY <1>3, WritesKeepImmutables

\* A body that names two exclusive paths is not let through.
LEMMA NamedIsClash ==
  ASSUME ExclusivesAreObjects, NEW cfg \in Config, NEW r, NEW body \in Body,
         body.spec # NoSpec, NEW new \in Parse(body.spec), NamesExclusives(r, body, cfg)
  PROVE  ~ExclusivesAllowed(cfg.exclusives, TypeOf[r], new)
<1>1. PICK i \in DOMAIN cfg.exclusives :
        /\ AppliesToType(cfg.exclusives[i], TypeOf[r])
        /\ \E list \in cfg.exclusives[i].exclusives :
             \E m, n \in DOMAIN list :
               /\ m < n
               /\ NamesPath(body.spec, Lower[list[m]])
               /\ NamesPath(body.spec, Lower[list[n]])
  BY DEF NamesExclusives, EveryOfKind
<1>2. PICK list \in cfg.exclusives[i].exclusives :
        \E m, n \in DOMAIN list :
          /\ m < n
          /\ NamesPath(body.spec, Lower[list[m]])
          /\ NamesPath(body.spec, Lower[list[n]])
  BY <1>1
<1>3. cfg.exclusives # Unreadable
  BY DEF NamesExclusives
<1>4. ASSUME NEW k \in DOMAIN list, NamesPath(body.spec, Lower[list[k]])
      PROVE  Present(new, Lower[list[k]])
  <2>1. PICK p \in DOMAIN body.spec :
          Lower[p] = Lower[list[k]] /\ body.spec[p] \notin {Null, [json |-> "object", val |-> 0]}
    BY <1>4 DEF NamesPath, Spelled
  <2>2. body.spec[p] = [json |-> "object", val |-> body.spec[p].val]
        /\ \A s \in DOMAIN body.spec : Lower[s] = Lower[list[k]] => s = p
    BY <1>3, <2>1 DEF ExclusivesAreObjects
  <2>3. At(new, Lower[list[k]]) = body.spec[p]
    BY <2>1, <2>2, ParsedValue
  <2>4. body.spec[p].val # 0
    BY <2>1, <2>2
  <2> QED
    BY <2>2, <2>3, <2>4 DEF Present
<1>5. Clash(list, new)
  BY <1>2, <1>4 DEF Clash
<1> QED
  BY <1>1, <1>3, <1>5 DEF ExclusivesAllowed

LEMMA WritesNameNoExclusives ==
  ASSUME ExclusivesOn, ExclusivesAreObjects, Knows, [AtomicNext]_apiVars,
         NEW r \in Resource, store'[r] \notin {Absent, store[r]}
  PROVE  \E cfg \in Config : ~NamesExclusives(r, store'[r], cfg)
<1>1. PICK c \in Call : /\ pc[c] = "allowed" /\ Target(c) = r
                        /\ New(c) = store'[r] /\ New(c) \in Body
  BY StoredWasAllowed
<1>2. PICK cfg \in seen[c] : ExclusivesPass(c, cfg)
  BY <1>1 DEF Knows, Verdicts, VerdictOK
<1>3. cfg \in Config
  BY DEF Knows, TypeOK, ApiTypeOK
<1>4. New(c).spec # NoSpec /\ \E new \in Parse(New(c).spec) :
        ExclusivesAllowed(cfg.exclusives, TypeOf[r], new)
  BY <1>1, <1>2 DEF ExclusivesPass, ReadableByExclusives, CoreSafe
<1> QED
  BY <1>1, <1>3, <1>4, NamedIsClash

LEMMA WritesHaveLabels ==
  ASSUME LabelsOn, OneLabelRule, Knows, [AtomicNext]_apiVars,
         NEW r \in Resource, store'[r] \notin {Absent, store[r]}
  PROVE  \E cfg \in Config :
           cfg.labels # Unreadable =>
             \A i \in EveryOfKind(cfg.labels, Kind(r)) :
               cfg.labels[i].labels \subseteq store'[r].labels
<1>1. PICK c \in Call : pc[c] = "allowed" /\ Target(c) = r /\ New(c) = store'[r]
  BY StoredWasAllowed
<1>2. PICK cfg \in seen[c] : LabelsPass(c, cfg)
  BY <1>1 DEF Knows, Verdicts, VerdictOK
<1>3. cfg \in Config
  BY DEF Knows, TypeOK, ApiTypeOK
<1>4. ASSUME cfg.labels # Unreadable, NEW i \in EveryOfKind(cfg.labels, Kind(r))
      PROVE  i \in FirstOfKind(cfg.labels, Kind(r))
  <2>1. DOMAIN cfg.labels = 1 .. Len(cfg.labels)
    BY <1>3, <1>4, RulesAssumption
  <2>2. i \in DOMAIN cfg.labels /\ cfg.labels[i].kind = Kind(r)
    BY <1>4 DEF EveryOfKind
  <2>3. ASSUME NEW j \in 1 .. i - 1 PROVE j \in DOMAIN cfg.labels /\ j # i
    BY <2>1, <2>2
  <2>4. \A j \in 1 .. i - 1 : cfg.labels[j].kind # Kind(r)
    BY <1>3, <1>4, <2>2, <2>3 DEF OneLabelRule
  <2> QED
    BY <2>2, <2>4 DEF FirstOfKind
<1> QED
  BY <1>1, <1>2, <1>3, <1>4 DEF LabelsPass, LabelsAllowed

-----------------------------------------------------------------------------
(* The promises.                                                           *)

(***************************************************************************)
(* No update that is applied changes a path that is immutable in every     *)
(* ConfigMap, save the plan of a service that may change it, for any       *)
(* rules, objects and number of requests, however they and the edits of    *)
(* the ConfigMap interleave (validateImmutables).                          *)
(***************************************************************************)
THEOREM ImmutablesAlwaysEnforced ==
  ImmutablesOn /\ EveryWriteIsReviewed /\ TextsAreMeanings /\ FirstEntryIsRight =>
    (Spec => ImmutablesEnforced)
<1> SUFFICES ASSUME ImmutablesOn, EveryWriteIsReviewed, TextsAreMeanings, FirstEntryIsRight
             PROVE  Spec => ImmutablesEnforced
  OBVIOUS
<1> DEFINE Promise ==
      \A r \in Resource : Replaced(r) =>
        \A q \in UNION {Protected(cfg, Kind(r)) : cfg \in Config} :
          (\A cfg \in Config : q \in Protected(cfg, Kind(r))) =>
            Kept(Kind(r), store[r].spec, store'[r].spec, q)
<1>1. Knows /\ [Next]_vars => [Promise]_vars
  BY KnowsStep, WritesKeepProtected
<1> HIDE DEF Promise
<1> QED
  BY <1>1, AlwaysKnows, PTL DEF Spec, ImmutablesEnforced, Promise

(***************************************************************************)
(* No object that is written has two mutually exclusive parameters         *)
(* (validateExclusives and its count).                                     *)
(***************************************************************************)
THEOREM ExclusivesAlwaysEnforced ==
  ExclusivesOn /\ EveryWriteIsReviewed /\ ExclusivesAreObjects =>
    (Spec => ExclusivesEnforced)
<1> SUFFICES ASSUME ExclusivesOn, EveryWriteIsReviewed, ExclusivesAreObjects
             PROVE  Spec => ExclusivesEnforced
  OBVIOUS
<1> DEFINE Promise ==
      \A r \in Resource : store'[r] \notin {Absent, store[r]} =>
        \E cfg \in Config : ~NamesExclusives(r, store'[r], cfg)
<1>1. Knows /\ [Next]_vars => [Promise]_vars
  BY KnowsStep, WritesNameNoExclusives
<1> HIDE DEF Promise
<1> QED
  BY <1>1, AlwaysKnows, PTL DEF Spec, ExclusivesEnforced, Promise

(***************************************************************************)
(* No object that is written lacks a required label, when a kind has one   *)
(* rule (validateLabels).                                                  *)
(***************************************************************************)
THEOREM LabelsAlwaysEnforced ==
  LabelsOn /\ EveryWriteIsReviewed /\ OneLabelRule => (Spec => LabelsEnforced)
<1> SUFFICES ASSUME LabelsOn, EveryWriteIsReviewed, OneLabelRule
             PROVE  Spec => LabelsEnforced
  OBVIOUS
<1> DEFINE Promise ==
      \A r \in Resource : store'[r] \notin {Absent, store[r]} =>
        \E cfg \in Config :
          cfg.labels # Unreadable =>
            \A i \in EveryOfKind(cfg.labels, Kind(r)) :
              cfg.labels[i].labels \subseteq store'[r].labels
<1>1. Knows /\ [Next]_vars => [Promise]_vars
  BY KnowsStep, WritesHaveLabels
<1> HIDE DEF Promise
<1> QED
  BY <1>1, AlwaysKnows, PTL DEF Spec, LabelsEnforced, Promise
=============================================================================
