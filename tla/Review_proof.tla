---------------------------- MODULE Review_proof ----------------------------
(***************************************************************************)
(* The review a handler makes in many steps is one AtomicReview could have *)
(* made in one.  Every lemma about a handler step shows two things: what   *)
(* the handler knows afterwards, and which atomic step it was.             *)
(***************************************************************************)
EXTENDS Validator_proof

\* What a step of another call, or an edit of the rules, does to a call.
Undisturbed(c) ==
  /\ pc'[c] = pc[c] /\ req'[c] = req[c] /\ at'[c] = at[c] /\ local'[c] = local[c]
  /\ seen[c] \subseteq seen'[c]
  /\ pc[c] = "review" => rules' \in seen'[c]
  /\ (pc[c] # "idle" /\ ~stale'[c]) =>
       ~stale[c] /\ store'[Target(c)] = store[Target(c)]

LEMMA UndisturbedRule ==
  ASSUME NEW c, Undisturbed(c), pc[c] # "idle", NEW rule, NEW new
  PROVE  /\ RuleKeeps(c, rule, new) => RuleKeeps(c, rule, new)'
         /\ RuleRejects(c, rule, new) => RuleRejects(c, rule, new)'
BY DEF Undisturbed, RuleKeeps, RuleRejects, Unmoved, Target

LEMMA UndisturbedPass ==
  ASSUME NEW c, Undisturbed(c), pc[c] # "idle", NEW cfg
  PROVE  /\ LabelsPass(c, cfg) => LabelsPass(c, cfg)'
         /\ ImmutablesPass(c, cfg) => ImmutablesPass(c, cfg)'
<1>1. req'[c] = req[c]
  BY DEF Undisturbed
<1>2. LabelsPass(c, cfg) => LabelsPass(c, cfg)'
  BY <1>1 DEF LabelsPass, Target, New
<1>3. RulesFor(c, cfg)' = RulesFor(c, cfg)
  BY <1>1 DEF RulesFor, Target
<1>4. ImmutablesPass(c, cfg) => ImmutablesPass(c, cfg)'
  BY <1>1, <1>3, UndisturbedRule DEF ImmutablesPass, Comparing, Target, New
<1>5. QED
  BY <1>2, <1>4

LEMMA UndisturbedLoop ==
  ASSUME NEW c, Undisturbed(c), pc[c] # "idle", NEW l, NEW cfg, LoopUnder(c, l, cfg)
  PROVE  LoopUnder(c, l, cfg)'
<1>1. Target(c)' = Target(c)
  BY DEF Undisturbed, Target
<1>2. QED
  BY <1>1, UndisturbedRule DEF LoopUnder

LEMMA UndisturbedPending ==
  ASSUME NEW c, Undisturbed(c), pc[c] # "idle", NEW l, NEW rule, Pending(c, l, rule)
  PROVE  Pending(c, l, rule)'
BY DEF Undisturbed, Pending, Fetched, Unmoved, Target

LEMMA UndisturbedReview ==
  ASSUME TypeOK, NEW c \in Call, Undisturbed(c), ReviewOK(c)
  PROVE  ReviewOK(c)'
<1>1. (pc'[c] # "idle" /\ Unmoved(c)') =>
        (req'[c].op = "CREATE" <=> store'[Target(c)'] = Absent)
  BY DEF Undisturbed, ReviewOK, Unmoved, Target
<1>2. pc'[c] = "review" => rules' \in seen'[c]
  BY DEF Undisturbed
<1>3. HandlerKnows(c, at[c], local[c])'
  <2>1. CASE pc[c] # "review"
    <3>1. at[c] = "none" /\ at'[c] = "none"
      BY <2>1 DEF TypeOK, Undisturbed
    <3>2. QED
      BY <3>1 DEF HandlerKnows
  <2>2. CASE pc[c] = "review"
    <3>1. pc[c] # "idle" /\ seen[c] \subseteq seen'[c] /\ HandlerKnows(c, at[c], local[c])
      BY <2>2 DEF Undisturbed, ReviewOK
    <3>2. /\ Target(c)' = Target(c) /\ New(c)' = New(c) /\ Comparing(c)' = Comparing(c)
          /\ at'[c] = at[c] /\ local'[c] = local[c]
      BY DEF Undisturbed, Target, New, Comparing
    <3>3. QED
      BY <3>1, <3>2, UndisturbedPass, UndisturbedLoop, UndisturbedPending
      DEF HandlerKnows
  <2>3. QED
    BY <2>1, <2>2
<1>4. QED
  BY <1>1, <1>2, <1>3 DEF ReviewOK

-----------------------------------------------------------------------------
(* The handler's own steps.                                                *)

\* What a handler step is to AtomicReview.
AtomicStep(c) == Allow(c) \/ Deny(c) \/ Fail(c) \/ UNCHANGED apiVars

LEMMA ReturnReview ==
  ASSUME TypeOK, NEW c \in Call, ReviewOK(c), pc[c] = "review",
         NEW verdict \in {"allowed", "denied", "failed"}, Return(c, verdict)
  PROVE  ReviewOK(c)'
<1>1. /\ pc'[c] = verdict /\ at'[c] = "none"
      /\ UNCHANGED <<store, rules, watched, req, stale, seen>>
  BY DEF TypeOK, ApiTypeOK, Return, Answer
<1>2. QED
  BY <1>1 DEF ReviewOK, HandlerKnows, Unmoved, Target

LEMMA ContinueReview ==
  ASSUME TypeOK, NEW c \in Call, ReviewOK(c), NEW step, NEW l,
         Continue(c, step, l), HandlerKnows(c, step, l)
  PROVE  ReviewOK(c)' /\ UNCHANGED apiVars
<1>1. at'[c] = step /\ local'[c] = l /\ UNCHANGED apiVars
  BY DEF TypeOK, Continue
<1>2. /\ Target(c)' = Target(c) /\ New(c)' = New(c) /\ Comparing(c)' = Comparing(c)
      /\ Unmoved(c)' = Unmoved(c)
  BY <1>1 DEF apiVars, Target, New, Comparing, Unmoved
<1>3. \A cfg : /\ LabelsPass(c, cfg)' = LabelsPass(c, cfg)
               /\ ImmutablesPass(c, cfg)' = ImmutablesPass(c, cfg)
               /\ LoopUnder(c, l, cfg)' = LoopUnder(c, l, cfg)
  BY <1>1, <1>2 DEF apiVars, LabelsPass, ImmutablesPass, LoopUnder, RulesFor, RuleKeeps,
     RuleRejects
<1>4. \A rule : Pending(c, l, rule)' = Pending(c, l, rule)
  BY <1>1, <1>2 DEF apiVars, Pending, Fetched
<1>5. HandlerKnows(c, at[c], local[c])'
  BY <1>1, <1>2, <1>3, <1>4 DEF apiVars, HandlerKnows
<1>6. QED
  BY <1>1, <1>2, <1>5 DEF ReviewOK, apiVars

LEMMA AfterImmutablesReview ==
  ASSUME TypeOK, NEW c \in Call, ReviewOK(c), pc[c] = "review", req[c].op # "DELETE",
         \E cfg \in seen[c] : LabelsPass(c, cfg),
         \E cfg \in seen[c] : ImmutablesPass(c, cfg),
         AfterImmutables(c)
  PROVE  ReviewOK(c)' /\ AtomicStep(c)
<1>1. CASE ExclusivesOn
  <2>1. HandlerKnows(c, "exclusives", Blank)
    BY <1>1 DEF HandlerKnows
  <2>2. QED
    BY <1>1, <2>1, ContinueReview DEF AfterImmutables, AtomicStep
<1>2. CASE ~ExclusivesOn
  <2>1. Return(c, "allowed")
    BY <1>2 DEF AfterImmutables
  <2>2. Allow(c)
    BY <1>2, <2>1 DEF Return, Allow, ExclusivesPass
  <2>3. QED
    BY <2>1, <2>2, ReturnReview DEF AtomicStep
<1>3. QED
  BY <1>1, <1>2

\* The loop is over: what it accumulated is the verdict of its ConfigMap.
LEMMA LoopEnds ==
  ASSUME NEW c, NEW l, NEW cfg, LoopUnder(c, l, cfg), l.todo = {}, Comparing(c),
         ReadableByImmutables(Target(c), New(c)), l.new \in Parse(New(c).spec)
  PROVE  /\ l.allowed => ImmutablesPass(c, cfg)
         /\ ~l.allowed => ImmutablesReject(c, cfg)
<1>1. RulesFor(c, cfg) = {l.rules[k] : k \in MatchingKind(l.rules, Kind(Target(c)))}
  BY DEF RulesFor, LoopUnder
<1>2. l.allowed => \A rule \in RulesFor(c, cfg) : RuleKeeps(c, rule, l.new)
  BY <1>1 DEF LoopUnder
<1>3. ~l.allowed => \E rule \in RulesFor(c, cfg) : RuleRejects(c, rule, l.new)
  BY <1>1 DEF LoopUnder
<1>4. QED
  BY <1>2, <1>3 DEF ImmutablesPass, ImmutablesReject

LEMMA AfterRuleReview ==
  ASSUME TypeOK, NEW c \in Call, ReviewOK(c), pc[c] = "review", req[c].op # "DELETE",
         NEW l, HandlerKnows(c, "fetch", l), AfterRule(c, l)
  PROVE  ReviewOK(c)' /\ AtomicStep(c)
<1>1. CASE l.todo # {}
  BY <1>1, ContinueReview DEF AfterRule, AtomicStep
<1>2. CASE l.todo = {}
  <2>1. PICK cfg \in seen[c] : LoopUnder(c, l, cfg)
    BY DEF HandlerKnows
  <2>2. /\ l.allowed => ImmutablesPass(c, cfg)
        /\ ~l.allowed => ImmutablesReject(c, cfg)
    BY <1>2, <2>1, LoopEnds DEF HandlerKnows
  <2>3. CASE l.allowed
    BY <1>2, <2>1, <2>2, <2>3, AfterImmutablesReview DEF AfterRule, HandlerKnows
  <2>4. CASE ~l.allowed
    <3>1. Return(c, "denied")
      BY <1>2, <2>4 DEF AfterRule
    <3>2. Deny(c)
      BY <2>1, <2>2, <2>4, <3>1 DEF Deny, Return
    <3>3. QED
      BY <3>1, <3>2, ReturnReview DEF AtomicStep
  <2>5. QED
    BY <2>3, <2>4
<1>3. QED
  BY <1>1, <1>2

\* Parse always builds a map: one that keeps, of the paths that are spelled
\* alike in lower case, any one.
LEMMA ParseBuildsAMap ==
  ASSUME NEW spec
  PROVE  Parse(spec) # {}
<1> DEFINE keys == {Lower[p] : p \in DOMAIN spec}
           kept(q) == CHOOSE p \in DOMAIN spec : Lower[p] = q
           flat == [q \in keys |-> spec[kept(q)]]
<1>1. \A q \in keys : kept(q) \in DOMAIN spec /\ Lower[kept(q)] = q
  OBVIOUS
<1>2. flat \in [keys -> {spec[p] : p \in DOMAIN spec}]
  BY <1>1
<1>3. \A q \in keys : \E p \in DOMAIN spec : Lower[p] = q /\ flat[q] = spec[p]
  BY <1>1
<1>4. flat \in Parse(spec)
  BY <1>2, <1>3 DEF Parse
<1>5. QED
  BY <1>4

LEMMA CheckLabelsReview ==
  ASSUME TypeOK, NEW c \in Call, ReviewOK(c), CheckLabels(c)
  PROVE  ReviewOK(c)' /\ AtomicStep(c)
<1>1. pc[c] = "review" /\ rules \in seen[c]
  BY DEF TypeOK, CheckLabels, ReviewOK
<1>2. CASE /\ \/ req[c].op = "DELETE"
              \/ LabelsOn /\ ~LabelsAllowed(rules.labels, Kind(Target(c)), New(c).labels)
           /\ Return(c, "denied")
  <2>1. Deny(c)
    BY <1>1, <1>2 DEF Deny, Return, LabelsPass
  <2>2. QED
    BY <1>1, <1>2, <2>1, ReturnReview DEF AtomicStep
<1>3. CASE req[c].op # "DELETE" /\ LabelsPass(c, rules) /\ AfterLabels(c)
  <2>1. CASE req[c].op = "UPDATE" /\ ImmutablesOn
    <3>1. HandlerKnows(c, "immutables", Blank)
      BY <1>1, <1>3, <2>1 DEF HandlerKnows, Comparing
    <3>2. QED
      BY <1>3, <2>1, <3>1, ContinueReview DEF AfterLabels, AtomicStep
  <2>2. CASE ~(req[c].op = "UPDATE" /\ ImmutablesOn)
    <3>1. ImmutablesPass(c, rules)
      BY <2>2 DEF ImmutablesPass, Comparing
    <3>2. QED
      BY <1>1, <1>3, <2>2, <3>1, AfterImmutablesReview DEF AfterLabels
  <2>3. QED
    BY <2>1, <2>2
<1>4. QED
  BY <1>2, <1>3 DEF CheckLabels, LabelsPass

LEMMA ReadImmutablesReview ==
  ASSUME TypeOK, NEW c \in Call, ReviewOK(c), ReadImmutables(c)
  PROVE  ReviewOK(c)' /\ AtomicStep(c)
<1>1. /\ at[c] = "immutables" /\ pc[c] = "review" /\ req[c].op # "DELETE"
      /\ rules \in seen[c] /\ Comparing(c)
      /\ \E cfg \in seen[c] : LabelsPass(c, cfg)
  BY DEF TypeOK, ReadImmutables, ReviewOK, HandlerKnows
<1>2. CASE ~ReadableByImmutables(Target(c), New(c)) /\ Return(c, "failed")
  <2>1. Fail(c)
    BY <1>1, <1>2 DEF Fail, Return, PanicsOnNew
  <2>2. QED
    BY <1>1, <1>2, <2>1, ReturnReview DEF AtomicStep
<1>3. CASE /\ ReadableByImmutables(Target(c), New(c))
           /\ Matching(c) = {} /\ AfterImmutables(c)
  <2>1. RulesFor(c, rules) = {}
    BY <1>3 DEF RulesFor, Matching
  <2>2. ImmutablesPass(c, rules)
    BY <1>3, <2>1, ParseBuildsAMap DEF ImmutablesPass
  <2>3. QED
    BY <1>1, <1>3, <2>2, AfterImmutablesReview
<1>4. CASE /\ ReadableByImmutables(Target(c), New(c)) /\ Matching(c) # {}
           /\ \E new \in Parse(New(c).spec) :
                Continue(c, "fetch", NothingCompared(c, new))
  <2>1. PICK new \in Parse(New(c).spec) : Continue(c, "fetch", NothingCompared(c, new))
    BY <1>4
  <2>2. LoopUnder(c, NothingCompared(c, new), rules)
    BY <1>4 DEF LoopUnder, NothingCompared, Matching
  <2>3. NothingCompared(c, new).new = new
    BY DEF NothingCompared
  <2>4. HandlerKnows(c, "fetch", NothingCompared(c, new))
    BY <1>1, <1>4, <2>1, <2>2, <2>3 DEF HandlerKnows
  <2>5. QED
    BY <2>1, <2>4, ContinueReview DEF AtomicStep
<1>5. QED
  BY <1>2, <1>3, <1>4 DEF ReadImmutables

\* The loop goes on: a rule that is kept, or one that rejects, is accounted for.
LEMMA LoopGoesOn ==
  ASSUME NEW c, NEW l \in Local, l.todo \subseteq DOMAIN l.rules,
         NEW cfg, LoopUnder(c, l, cfg),
         NEW k \in l.todo, NEW ok \in BOOLEAN,
         (l.allowed /\ ok) => RuleKeeps(c, l.rules[k], l.new),
         ~ok => RuleRejects(c, l.rules[k], l.new)
  PROVE  LoopUnder(c, Compared(l, k, ok), cfg)
<1>1. k \in MatchingKind(l.rules, Kind(Target(c)))
  BY DEF LoopUnder
<1>2. /\ Compared(l, k, ok).rules = l.rules
      /\ Compared(l, k, ok).new = l.new
      /\ Compared(l, k, ok).todo = l.todo \ {k}
      /\ Compared(l, k, ok).allowed = (l.allowed /\ ok)
  BY ComparedLocal
<1>3. QED
  BY <1>1, <1>2 DEF LoopUnder

LEMMA LoopAsks ==
  ASSUME NEW c, NEW l \in Local, NEW cfg, LoopUnder(c, l, cfg),
         NEW k \in l.todo, NEW ok \in BOOLEAN, NEW class \in ClassTexts,
         ~ok => RuleRejects(c, l.rules[k], l.new)
  PROVE  LoopUnder(c, Asking(l, ok, class), cfg)
<1>1. k \in MatchingKind(l.rules, Kind(Target(c)))
  BY DEF LoopUnder
<1>2. QED
  BY <1>1, AskingLocal DEF LoopUnder

\* The loop is at one rule at a time.
LEMMA OneCurrent ==
  ASSUME TypeOK, NEW c \in Call, NEW j \in Current(local[c]), NEW k \in Current(local[c])
  PROVE  j = k
<1>1. \A list \in RuleLists : DOMAIN list \subseteq Nat
  BY RulesAssumption DEF RuleLists
<1>2. local[c].todo \subseteq Nat
  BY <1>1 DEF TypeOK, Local
<1>3. j \in Nat /\ k \in Nat /\ j <= k /\ k <= j
  BY <1>2 DEF Current
<1>4. QED
  BY <1>3

LEMMA CompareReview ==
  ASSUME TypeOK, NEW c \in Call, ReviewOK(c), at[c] = "fetch",
         store[Target(c)] # Absent, store[Target(c)].spec # NoSpec,
         NEW k \in Current(local[c]), NEW old \in Parse(store[Target(c)].spec),
         Compare(c, k, old)
  PROVE  ReviewOK(c)' /\ AtomicStep(c)
<1> DEFINE l    == local[c]
           rule == l.rules[k]
           ok   == ChangedForbidden(c, k, old) = {}
<1>1. /\ pc[c] = "review" /\ req[c].op # "DELETE" /\ k \in l.todo
      /\ l \in Local /\ l.todo \subseteq DOMAIN l.rules
      /\ HandlerKnows(c, "fetch", l)
  BY DEF TypeOK, ReviewOK, Current
<1>2. PICK cfg \in seen[c] : LoopUnder(c, l, cfg)
  BY <1>1 DEF HandlerKnows
<1>3. rule \in RulesFor(c, cfg) /\ l.new \in Parse(New(c).spec)
  BY <1>1, <1>2 DEF RulesFor, LoopUnder, HandlerKnows
<1>4. ok \in BOOLEAN
  OBVIOUS
<1>5. CASE Crashes(rule, old, l.new)
  <2>1. Return(c, "failed")
    BY <1>5 DEF Compare
  <2>2. PanicsOnOld(c, cfg)
    BY <1>1, <1>3, <1>5 DEF PanicsOnOld, RulePanics, HandlerKnows
  <2>3. Fail(c)
    BY <1>1, <1>2, <2>1, <2>2 DEF Fail, Return
  <2>4. QED
    BY <1>1, <2>1, <2>3, ReturnReview DEF AtomicStep
<1>6. ASSUME ~Crashes(rule, old, l.new), ~ok
      PROVE  RuleRejects(c, rule, l.new)
  <2>1. ~Keeps(Kind(Target(c)), rule, old, l.new)
    BY <1>6 DEF ChangedForbidden, ChangedPaths, Keeps
  <2>2. QED
    BY <1>6, <2>1 DEF RuleRejects
<1>7. CASE /\ ~Crashes(rule, old, l.new)
           /\ ChangedPaths(c, k, old) = ChangedForbidden(c, k, old)
  <2>1. AfterRule(c, Compared(l, k, ok))
    BY <1>7 DEF Compare
  <2>2. ok => RuleKeeps(c, rule, l.new)
    BY <1>7 DEF RuleKeeps, Keeps, ChangedPaths
  <2> HIDE DEF ok
  <2>3. LoopUnder(c, Compared(l, k, ok), cfg) /\ Compared(l, k, ok).new = l.new
    BY <1>1, <1>2, <1>4, <1>6, <1>7, <2>2, LoopGoesOn, ComparedLocal
  <2>4. HandlerKnows(c, "fetch", Compared(l, k, ok))
    BY <1>1, <2>3 DEF HandlerKnows
  <2>5. QED
    BY <1>1, <2>1, <2>4, AfterRuleReview
<1>8. CASE /\ ~Crashes(rule, old, l.new)
           /\ ChangedPaths(c, k, old) # ChangedForbidden(c, k, old)
  <2> DEFINE asking == Asking(l, ok, ClassText(old))
  <2>1. Continue(c, "catalog", asking)
    BY <1>8 DEF Compare
  <2>2. ClassText(old) \in ClassTexts
    BY <1>1, ReviewedBodies, ParseGivesFlatMap DEF ClassTexts
  <2>3. /\ \E q \in Changed(rule, old, l.new) : IsPlan(Kind(Target(c)), q)
        /\ ok => \A q \in Changed(rule, old, l.new) : IsPlan(Kind(Target(c)), q)
    BY <1>8 DEF ChangedPaths, ChangedForbidden
  <2> HIDE DEF ok
  <2>4. /\ asking.rules = l.rules /\ asking.new = l.new /\ asking.todo = l.todo
        /\ asking.class = ClassText(old) /\ asking.allowed = (l.allowed /\ ok)
    BY <1>1, <1>4, <2>2, AskingLocal
  <2>5. LoopUnder(c, asking, cfg)
    BY <1>1, <1>2, <1>4, <1>6, <1>8, <2>2, LoopAsks
  <2>6. Pending(c, asking, rule)
    BY <1>8, <2>3, <2>4 DEF Pending, Fetched
  <2>7. \A j \in Current(asking) : j = k
    BY <2>4, OneCurrent DEF Current
  <2> HIDE DEF asking
  <2>8. HandlerKnows(c, "catalog", asking)
    BY <1>1, <2>4, <2>5, <2>6, <2>7 DEF HandlerKnows
  <2>9. QED
    BY <2>1, <2>8, ContinueReview DEF AtomicStep
<1>9. QED
  BY <1>5, <1>7, <1>8

\* While the loop runs there is a rule to blame a rejection or a panic on.
LEMMA RuleAtHand ==
  ASSUME TypeOK, NEW c \in Call, ReviewOK(c), at[c] \in {"fetch", "catalog"}
  PROVE  /\ pc[c] = "review" /\ req[c].op # "DELETE" /\ Comparing(c)
         /\ ReadableByImmutables(Target(c), New(c))
         /\ \E cfg \in seen[c], new \in Parse(New(c).spec) : RulesFor(c, cfg) # {}
<1>1. /\ pc[c] = "review" /\ req[c].op # "DELETE" /\ local[c].todo # {}
      /\ HandlerKnows(c, at[c], local[c])
  BY DEF TypeOK, ReviewOK
<1>2. PICK cfg \in seen[c] : LoopUnder(c, local[c], cfg)
  BY <1>1 DEF HandlerKnows
<1>3. RulesFor(c, cfg) # {}
  BY <1>1, <1>2 DEF LoopUnder, RulesFor
<1>4. QED
  BY <1>1, <1>2, <1>3 DEF HandlerKnows

LEMMA FetchExistingReview ==
  ASSUME TypeOK, NEW c \in Call, ReviewOK(c), FetchExisting(c)
  PROVE  ReviewOK(c)' /\ AtomicStep(c)
<1>1. CASE store[Target(c)].spec = NoSpec
  <2>1. Return(c, "failed") /\ at[c] = "fetch"
    BY <1>1 DEF FetchExisting
  <2>2. Fail(c)
    BY <1>1, <2>1, RuleAtHand DEF Fail, Return, PanicsOnOld, RulePanics
  <2>3. QED
    BY <2>1, <2>2, RuleAtHand, ReturnReview DEF AtomicStep
<1>2. CASE store[Target(c)].spec # NoSpec
  BY <1>2, CompareReview DEF FetchExisting
<1>3. QED
  BY <1>1, <1>2

LEMMA FetchFailsReview ==
  ASSUME TypeOK, NEW c \in Call, ReviewOK(c), FetchFails(c)
  PROVE  ReviewOK(c)' /\ AtomicStep(c)
<1>1. at[c] = "fetch" /\ Return(c, "denied")
  BY DEF FetchFails
<1>2. ~Unmoved(c) \/ NetworkFaults
  BY <1>1, RuleAtHand DEF FetchFails, ReviewOK, Comparing
<1>3. Deny(c)
  BY <1>1, <1>2, RuleAtHand DEF Deny, Return, ImmutablesReject, RuleRejects
<1>4. QED
  BY <1>1, <1>3, RuleAtHand, ReturnReview DEF AtomicStep

LEMMA AskCatalogReview ==
  ASSUME TypeOK, NEW c \in Call, ReviewOK(c), AskCatalog(c)
  PROVE  ReviewOK(c)' /\ AtomicStep(c)
<1>1. PICK k \in Current(local[c]), reply \in Replies(local[c].class) :
        AfterRule(c, Compared(local[c], k, Updateable(reply)))
  BY DEF AskCatalog
<1> DEFINE l    == local[c]
           rule == l.rules[k]
           ok   == Updateable(reply)
<1>2. /\ pc[c] = "review" /\ req[c].op # "DELETE" /\ k \in l.todo
      /\ l \in Local /\ l.todo \subseteq DOMAIN l.rules
      /\ HandlerKnows(c, "catalog", l)
  BY DEF AskCatalog, TypeOK, ReviewOK, Current
<1>3. PICK cfg \in seen[c] : LoopUnder(c, l, cfg)
  BY <1>2 DEF HandlerKnows
<1>4. Pending(c, l, rule)
  BY <1>2 DEF HandlerKnows
<1>5. \/ reply = Reply(l.class)
      \/ NetworkFaults /\ ~ok
  BY DEF Replies, NoReply, Updateable
<1>6. (l.allowed /\ ok) => RuleKeeps(c, rule, l.new)
  BY <1>4, <1>5 DEF Pending, Fetched, RuleKeeps, Keeps
<1>7. ~ok => RuleRejects(c, rule, l.new)
  BY <1>4, <1>5 DEF Pending, Fetched, RuleRejects, Keeps
<1>8. ok \in BOOLEAN
  BY DEF Updateable
<1> HIDE DEF ok
<1>9. LoopUnder(c, Compared(l, k, ok), cfg) /\ Compared(l, k, ok).new = l.new
  BY <1>2, <1>3, <1>6, <1>7, <1>8, LoopGoesOn, ComparedLocal
<1>10. HandlerKnows(c, "fetch", Compared(l, k, ok))
  BY <1>2, <1>3, <1>9 DEF HandlerKnows
<1>11. AfterRule(c, Compared(l, k, ok))
  BY <1>1 DEF ok
<1>12. QED
  BY <1>2, <1>10, <1>11, AfterRuleReview

LEMMA CheckExclusivesReview ==
  ASSUME TypeOK, NEW c \in Call, ReviewOK(c), CheckExclusives(c)
  PROVE  ReviewOK(c)' /\ AtomicStep(c)
<1>1. /\ pc[c] = "review" /\ req[c].op # "DELETE" /\ rules \in seen[c] /\ ExclusivesOn
      /\ \E cfg \in seen[c] : LabelsPass(c, cfg)
      /\ \E cfg \in seen[c] : ImmutablesPass(c, cfg)
  BY DEF TypeOK, CheckExclusives, ReviewOK, HandlerKnows
<1>2. CASE ~ReadableByExclusives(Target(c), New(c))
  <2>1. Return(c, "failed")
    BY <1>2 DEF CheckExclusives
  <2>2. Fail(c)
    BY <1>1, <1>2, <2>1 DEF Fail, Return, PanicsOnNew
  <2>3. QED
    BY <1>1, <2>1, <2>2, ReturnReview DEF AtomicStep
<1>3. CASE ReadableByExclusives(Target(c), New(c))
  <2>1. PICK new \in Parse(New(c).spec) :
          Return(c, IF ExclusivesAllowed(rules.exclusives, TypeOf[Target(c)], new)
                    THEN "allowed" ELSE "denied")
    BY <1>3 DEF CheckExclusives
  <2>2. CASE ExclusivesAllowed(rules.exclusives, TypeOf[Target(c)], new)
    <3>1. Return(c, "allowed") /\ ExclusivesPass(c, rules)
      BY <1>3, <2>1, <2>2 DEF ExclusivesPass
    <3>2. Allow(c)
      BY <1>1, <3>1 DEF Allow, Return
    <3>3. QED
      BY <1>1, <3>1, <3>2, ReturnReview DEF AtomicStep
  <2>3. CASE ~ExclusivesAllowed(rules.exclusives, TypeOf[Target(c)], new)
    <3>1. Return(c, "denied") /\ ExclusivesReject(c, rules)
      BY <1>1, <1>3, <2>1, <2>3 DEF ExclusivesReject
    <3>2. Deny(c)
      BY <1>1, <3>1 DEF Deny, Return
    <3>3. QED
      BY <1>1, <3>1, <3>2, ReturnReview DEF AtomicStep
  <2>4. QED
    BY <2>2, <2>3
<1>4. QED
  BY <1>2, <1>3

\* Every step of a handler, and the loss of its call.
LEMMA HandlerReview ==
  ASSUME TypeOK, NEW c \in Call, ReviewOK(c), Handler(c) \/ CallFails(c)
  PROVE  ReviewOK(c)' /\ AtomicStep(c)
<1>1. CASE CallFails(c)
  <2>1. Fail(c)
    BY <1>1 DEF CallFails, Fail, Return
  <2>2. QED
    BY <1>1, <2>1, ReturnReview DEF CallFails, AtomicStep
<1>2. CASE Handler(c)
  BY <1>2, CheckLabelsReview, ReadImmutablesReview, FetchExistingReview, FetchFailsReview,
     AskCatalogReview, CheckExclusivesReview DEF Handler
<1>3. QED
  BY <1>1, <1>2

-----------------------------------------------------------------------------
(* The steps of the API server, and what any step does to the other calls. *)

LEMMA HandlerLeavesOthers ==
  ASSUME TypeOK, ReviewsInProgress, NEW c \in Call, AtomicStep(c),
         Handler(c) \/ CallFails(c), NEW d \in Call, d # c
  PROVE  Undisturbed(d)
<1>1. UNCHANGED <<store, rules, watched, req, stale, seen>> /\ pc'[d] = pc[d]
  BY DEF TypeOK, ApiTypeOK, AtomicStep, Allow, Deny, Fail, Answer, apiVars
<1>2. at'[d] = at[d] /\ local'[d] = local[d]
  BY DEF TypeOK, Handler, CheckLabels, AfterLabels, AfterImmutables, ReadImmutables,
     FetchExisting, Compare, AfterRule, FetchFails, AskCatalog, CheckExclusives, CallFails,
     Return, Continue
<1>3. rules \in seen[d] \/ pc[d] # "review"
  BY DEF ReviewsInProgress, ReviewOK
<1>4. QED
  BY <1>1, <1>2, <1>3 DEF Undisturbed

LEMMA BeginReview ==
  ASSUME TypeOK, ReviewsInProgress, NEW c \in Call, Begin(c)
  PROVE  ReviewsInProgress'
<1>1. PICK r \in Request : Submit(c, r)
  BY DEF Begin
<1>2. /\ UNCHANGED <<store, rules, stale, local>>
      /\ req'[c] = r /\ pc'[c] \in {"review", "bypassed"}
      /\ at'[c] \in {"none", "labels"}
      /\ pc'[c] = "review" => rules \in seen'[c]
  BY <1>1 DEF TypeOK, ApiTypeOK, Begin, Submit
<1>3. ReviewOK(c)'
  BY <1>1, <1>2 DEF ReviewOK, HandlerKnows, Target, Submit
<1>4. ASSUME NEW d \in Call, d # c
      PROVE  ReviewOK(d)'
  <2>1. Undisturbed(d)
    BY <1>1, <1>4 DEF TypeOK, ApiTypeOK, Begin, Submit, Undisturbed, ReviewsInProgress,
       ReviewOK
  <2>2. QED
    BY <2>1, UndisturbedReview DEF ReviewsInProgress
<1>5. QED
  BY <1>3, <1>4 DEF ReviewsInProgress

\* A write makes the other requests for the resource stale; it leaves the
\* others, and the objects they are about, alone.
LEMMA EndReview ==
  ASSUME TypeOK, ReviewsInProgress, NEW c \in Call, End(c)
  PROVE  ReviewsInProgress'
<1>1. /\ pc[c] # "review" /\ Free(c) /\ UNCHANGED <<rules, at, local>>
  BY DEF End, Complete, Write, Conflict, Refuse, Admitted, Refused
<1>2. pc'[c] = "idle" /\ at'[c] = "none"
  BY <1>1 DEF TypeOK, ApiTypeOK, Free
<1>3. ReviewOK(c)'
  BY <1>2 DEF ReviewOK, HandlerKnows
<1>4. ASSUME NEW d \in Call, d # c
      PROVE  ReviewOK(d)'
  <2>1. /\ pc'[d] = pc[d] /\ req'[d] = req[d] /\ seen'[d] = seen[d]
        /\ at'[d] = at[d] /\ local'[d] = local[d]
    BY <1>1, <1>4 DEF TypeOK, ApiTypeOK, Free
  <2>2. (pc[d] # "idle" /\ ~stale'[d]) =>
          ~stale[d] /\ store'[Target(d)] = store[Target(d)]
    <3>1. CASE Write(c)
      <4>1. store' = [store EXCEPT ![req[c].res] = req[c].body]
        BY <3>1 DEF Write
      <4>2. stale'[d] <=> d \in Rivals(c) \/ stale[d]
        BY <1>4, <3>1 DEF Write
      <4>3. CASE pc[d] = "idle" \/ d \in Rivals(c)
        BY <4>2, <4>3
      <4>4. CASE req[d].res # req[c].res
        BY <4>1, <4>2, <4>4 DEF Target, TypeOK, ApiTypeOK
      <4>5. QED
        BY <4>3, <4>4 DEF Rivals
    <3>2. CASE Conflict(c) \/ Refuse(c)
      BY <1>4, <3>2 DEF TypeOK, ApiTypeOK, Conflict, Refuse
    <3>3. QED
      BY <3>1, <3>2 DEF End, Complete
  <2>3. Undisturbed(d)
    BY <1>1, <2>1, <2>2 DEF Undisturbed, ReviewsInProgress, ReviewOK
  <2>4. QED
    BY <2>3, UndisturbedReview DEF ReviewsInProgress
<1>5. QED
  BY <1>3, <1>4 DEF ReviewsInProgress

LEMMA SettingsReview ==
  ASSUME TypeOK, ReviewsInProgress, ChangeRules \/ Reregister, UNCHANGED <<at, local>>
  PROVE  ReviewsInProgress'
<1>1. ASSUME NEW d \in Call
      PROVE  ReviewOK(d)'
  <2>1. Undisturbed(d)
    BY DEF TypeOK, ApiTypeOK, ChangeRules, Reregister, Undisturbed, ReviewsInProgress, ReviewOK
  <2>2. QED
    BY <2>1, UndisturbedReview DEF ReviewsInProgress
<1>2. QED
  BY <1>1 DEF ReviewsInProgress

\* A step keeps what the handlers know and is a step of AtomicReview.
LEMMA ReviewStep ==
  ASSUME TypeOK, ReviewsInProgress, [Next]_vars
  PROVE  ReviewsInProgress' /\ [AtomicNext]_apiVars
<1>1. CASE (ChangeRules \/ Reregister) /\ UNCHANGED <<at, local>>
  BY <1>1, SettingsReview DEF AtomicNext
<1>2. ASSUME NEW c \in Call, Begin(c)
      PROVE  ReviewsInProgress' /\ [AtomicNext]_apiVars
  BY <1>2, BeginReview DEF Begin, AtomicNext
<1>3. ASSUME NEW c \in Call, End(c)
      PROVE  ReviewsInProgress' /\ [AtomicNext]_apiVars
  BY <1>3, EndReview DEF End, AtomicNext
<1>4. ASSUME NEW c \in Call, Handler(c) \/ CallFails(c)
      PROVE  ReviewsInProgress' /\ [AtomicNext]_apiVars
  <2>1. ReviewOK(c)' /\ AtomicStep(c)
    BY <1>4, HandlerReview DEF ReviewsInProgress
  <2>2. ASSUME NEW d \in Call, d # c
        PROVE  ReviewOK(d)'
    BY <1>4, <2>1, <2>2, HandlerLeavesOthers, UndisturbedReview DEF ReviewsInProgress
  <2>3. QED
    BY <2>1, <2>2 DEF ReviewsInProgress, AtomicStep, AtomicNext
<1>5. CASE UNCHANGED vars
  <2>1. \A d \in Call : Undisturbed(d)
    BY <1>5 DEF vars, Undisturbed, ReviewsInProgress, ReviewOK
  <2>2. QED
    BY <1>5, <2>1, UndisturbedReview DEF ReviewsInProgress, vars, apiVars
<1>6. QED
  BY <1>1, <1>2, <1>3, <1>4, <1>5 DEF Next

(***************************************************************************)
(* What a handler has established at each of its steps holds however the   *)
(* other calls and the edits of the rules interleave with it.              *)
(***************************************************************************)
THEOREM ReviewsSound == Spec => []ReviewsInProgress
<1>1. Init => ReviewsInProgress
  BY DEF Init, ApiInit, ReviewsInProgress, ReviewOK, HandlerKnows
<1>2. TypeOK /\ ReviewsInProgress /\ [Next]_vars => ReviewsInProgress'
  BY ReviewStep
<1>3. QED
  BY <1>1, <1>2, TypeCorrect, PTL DEF Spec

(***************************************************************************)
(* The validator implements the review that is made in one step.           *)
(***************************************************************************)
THEOREM Refinement == Spec => ImplementsAtomicReview
<1>1. Init => ApiInit
  BY DEF Init
<1>2. TypeOK /\ ReviewsInProgress /\ [Next]_vars => [AtomicNext]_apiVars
  BY ReviewStep
<1>3. QED
  BY <1>1, <1>2, TypeCorrect, ReviewsSound, PTL DEF Spec, AtomicSpec, ImplementsAtomicReview
=============================================================================
