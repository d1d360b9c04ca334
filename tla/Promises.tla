------------------------------ MODULE Promises ------------------------------
(***************************************************************************)
(* What the webhook is for, stated about the stored objects and about the  *)
(* values users wrote, not about the maps and texts the code compares.     *)
(***************************************************************************)
EXTENDS Validator, AtomicReview

(***************************************************************************)
(* A review that reads the rules, the cluster and the catalog at different *)
(* times, in competition with other requests and with edits of the rules,  *)
(* has an outcome the one-step review of AtomicReview could have had       *)
(* (Handle in validate.go and everything it calls).                        *)
(***************************************************************************)
ImplementsAtomicReview == AtomicSpec

-----------------------------------------------------------------------------
(* Why it does: what a handler knows at each of its steps.                 *)

\* The loop of validateImmutables with locals l, under the rules of cfg.
LoopUnder(c, l, cfg) ==
  /\ cfg.immutables # Unreadable
  /\ l.rules = cfg.immutables
  /\ l.todo \subseteq MatchingKind(l.rules, Kind(Target(c)))
  /\ l.allowed =>
       \A k \in MatchingKind(l.rules, Kind(Target(c))) \ l.todo :
         RuleKeeps(c, l.rules[k], l.new)
  /\ ~l.allowed =>
       \E k \in MatchingKind(l.rules, Kind(Target(c))) : RuleRejects(c, l.rules[k], l.new)

\* A rule for which the catalog is being asked: old is what was fetched.
Fetched(c, l, rule, old) ==
  /\ l.class = ClassText(old)
  /\ ~Crashes(rule, old, l.new)
  /\ \E q \in Changed(rule, old, l.new) : IsPlan(Kind(Target(c)), q)
  /\ l.allowed => \A q \in Changed(rule, old, l.new) : IsPlan(Kind(Target(c)), q)

Pending(c, l, rule) ==
  Unmoved(c) =>
    /\ store[Target(c)].spec # NoSpec
    /\ \E old \in Parse(store[Target(c)].spec) : Fetched(c, l, rule, old)

HandlerKnows(c, step, l) ==
  /\ step \notin {"none", "labels"} => \E cfg \in seen[c] : LabelsPass(c, cfg)
  /\ step \in {"immutables", "fetch", "catalog"} => Comparing(c)
  /\ step \in {"fetch", "catalog"} =>
       /\ ReadableByImmutables(Target(c), New(c))
       /\ l.new \in Parse(New(c).spec)
       /\ \E cfg \in seen[c] : LoopUnder(c, l, cfg)
  /\ step = "catalog" => \A k \in Current(l) : Pending(c, l, l.rules[k])
  /\ step = "exclusives" => /\ ExclusivesOn
                            /\ \E cfg \in seen[c] : ImmutablesPass(c, cfg)

ReviewOK(c) ==
  /\ (pc[c] # "idle" /\ Unmoved(c)) =>
       (req[c].op = "CREATE" <=> store[Target(c)] = Absent)
  /\ pc[c] = "review" => rules \in seen[c]
  /\ HandlerKnows(c, at[c], local[c])

(***************************************************************************)
(* What a handler has found so far stays an answer the review may give: it *)
(* was right for a ConfigMap mounted when the rules were read, whatever is *)
(* mounted now, and what was compared with the object in the cluster holds *)
(* of the stored object, or the call has become stale and cannot be        *)
(* applied.  (The reads of Handle, each of them at a time of its own.)     *)
(***************************************************************************)
ReviewsInProgress == \A c \in Call : ReviewOK(c)

-----------------------------------------------------------------------------
(* The values a spec gives a path, in whatever case the path is spelled.   *)

Spelled(spec, q) == IF spec = NoSpec THEN {} ELSE {p \in DOMAIN spec : Lower[p] = q}

Meanings(spec, q) ==
  IF Spelled(spec, q) = {} THEN {Meaning(Null)}
  ELSE {Meaning(spec[p]) : p \in Spelled(spec, q)}

MayAgree(a, b, q)    == Meanings(a, q) \cap Meanings(b, q) # {}
MayDisagree(a, b, q) == \E x \in Meanings(a, q), y \in Meanings(b, q) : x # y

EveryOfKind(list, kind) == {i \in DOMAIN list : list[i].kind = kind}

Protected(cfg, kind) ==
  IF cfg.immutables = Unreadable THEN {}
  ELSE UNION {Items(cfg.immutables[i]) : i \in EveryOfKind(cfg.immutables, kind)}

\* The catalog lists the service of the object, and lets its plan change.
PlanMayChange(spec) ==
  \E class \in Meanings(spec, "spec.serviceclass") :
    \E i \in DOMAIN Listing[class] :
      Listing[class][i].kind = "service" /\ Listing[class][i].updateable

Kept(kind, a, b, q) ==
  \/ MayAgree(a, b, q)
  \/ IsPlan(kind, q) /\ PlanMayChange(a)

Replaced(r) == /\ store[r] # Absent
               /\ store'[r] \notin {Absent, store[r]}

(***************************************************************************)
(* An update the webhook allowed never changes a path that was immutable   *)
(* all the time it was under review, compared with the object it replaces  *)
(* and not with the one the handler fetched.  (The fetch in                *)
(* validateImmutables, the rules of a kind, and the accumulated verdict.)  *)
(***************************************************************************)
ReviewedUpdatesKeepImmutables ==
  [][\A c \in Call :
       (/\ pc[c] = "allowed" /\ pc'[c] = "idle"
        /\ ImmutablesOn /\ Replaced(Target(c))) =>
         \A q \in UNION {Protected(cfg, Kind(Target(c))) : cfg \in Config} :
           (\A cfg \in seen[c] : q \in Protected(cfg, Kind(Target(c)))) =>
             Kept(Kind(Target(c)), store[Target(c)].spec, New(c).spec, q)]_vars

-----------------------------------------------------------------------------
(* Conditions on the values and the catalog under which what the code      *)
(* compares is what users mean.                                            *)

\* Both decoders' values print as what the user means: a number of less than
\* seven digits, a text that does not look like scientific notation.
PrintsAsMeant(v) ==
  /\ Sprint(DecodeRequest(v)) = Meaning(v)
  /\ Sprint(DecodeCluster(v)) = Meaning(v)

\* Every value of every body, and of a path that is missing.
TextsAreMeanings ==
  /\ PrintsAsMeant(Null)
  /\ \A body \in Body : body.spec # NoSpec =>
       \A p \in DOMAIN body.spec : PrintsAsMeant(body.spec[p])

\* The first entry of a listing, which the code reads, tells no more than
\* the entry of a service.
FirstEntryIsRight ==
  \A class \in ClassTexts :
    Updateable(Reply(class)) =>
      \E i \in DOMAIN Listing[class] :
        Listing[class][i].kind = "service" /\ Listing[class][i].updateable

\* No object makes a handler panic.
NoPanics ==
  /\ \A r \in Resource : ~Core(r) /\ TypeOf[r].namespaced
  /\ \A body \in Body : body.spec # NoSpec
  /\ \A cfg \in {g \in Config : g.immutables # Unreadable} :
       \A i \in DOMAIN cfg.immutables : \A body \in Body : \A p \in DOMAIN body.spec :
         Lower[p] \in Items(cfg.immutables[i]) => body.spec[p].json \notin {"object", "array"}

\* The webhook is asked about every object that is written, and answers.
EveryWriteIsReviewed ==
  /\ \A w \in Registrations : {"CREATE", "UPDATE"} \X Resource \subseteq w
  /\ ~NetworkFaults
  /\ NoPanics

\* A kind has one rule for labels.
OneLabelRule ==
  \A cfg \in {g \in Config : g.labels # Unreadable} :
    \A i, j \in DOMAIN cfg.labels : cfg.labels[i].kind = cfg.labels[j].kind => i = j

\* Exclusive parameters are objects, and spelled in one way.
ExclusivesAreObjects ==
  \A cfg \in {g \in Config : g.exclusives # Unreadable} : \A i \in DOMAIN cfg.exclusives :
    \A list \in cfg.exclusives[i].exclusives : \A n \in DOMAIN list :
      \A body \in {b \in Body : b.spec # NoSpec} :
        \A p, q \in {s \in DOMAIN body.spec : Lower[s] = Lower[list[n]]} :
          /\ p = q
          /\ \/ body.spec[p] = Null
             \/ body.spec[p] = [json |-> "object", val |-> body.spec[p].val]

-----------------------------------------------------------------------------
(* Reasons to deny a request.                                              *)

LacksLabel(c, cfg) ==
  /\ cfg.labels # Unreadable
  /\ \E i \in EveryOfKind(cfg.labels, Kind(Target(c))) :
       ~(cfg.labels[i].labels \subseteq New(c).labels)

ChangesImmutable(c, cfg) ==
  \E q \in Protected(cfg, Kind(Target(c))) :
    MayDisagree(store[Target(c)].spec, New(c).spec, q)

\* An empty object names nothing.
NamesPath(spec, q) ==
  \E p \in Spelled(spec, q) : spec[p] \notin {Null, [json |-> "object", val |-> 0]}

NamesExclusives(r, body, cfg) ==
  /\ cfg.exclusives # Unreadable
  /\ \E i \in EveryOfKind(cfg.exclusives, Kind(r)) :
       /\ AppliesToType(cfg.exclusives[i], TypeOf[r])
       /\ \E list \in cfg.exclusives[i].exclusives :
            \E m, n \in DOMAIN list :
              m < n /\ NamesPath(body.spec, Lower[list[m]]) /\ NamesPath(body.spec, Lower[list[n]])

(***************************************************************************)
(* A request is denied only for something it does: it deletes, it lacks a  *)
(* label, it changes an immutable path or it names two exclusive ones,     *)
(* under a ConfigMap that was mounted during its review.  Stale requests   *)
(* cannot be applied anyway, and a lost GET denies without a reason.       *)
(***************************************************************************)
RejectionsAreJustified ==
  \A c \in Call :
    (pc[c] = "denied" /\ ~stale[c] /\ ~NetworkFaults) =>
      \/ req[c].op = "DELETE"
      \/ \E cfg \in seen[c] :
           \/ LabelsOn /\ LacksLabel(c, cfg)
           \/ ImmutablesOn /\ req[c].op = "UPDATE" /\ ChangesImmutable(c, cfg)
           \/ ExclusivesOn /\ NamesExclusives(Target(c), New(c), cfg)

-----------------------------------------------------------------------------
(* The three promises of the README, about what ends up in the cluster,    *)
(* for the rules that are in every ConfigMap of the instance.              *)

(***************************************************************************)
(* No update that is applied changes an immutable path (validateImmutables *)
(* and the failure policy of the webhook).                                 *)
(***************************************************************************)
ImmutablesEnforced ==
  [][\A r \in Resource : Replaced(r) =>
       \A q \in UNION {Protected(cfg, Kind(r)) : cfg \in Config} :
         (\A cfg \in Config : q \in Protected(cfg, Kind(r))) =>
           Kept(Kind(r), store[r].spec, store'[r].spec, q)]_vars

(***************************************************************************)
(* No object that is written has two mutually exclusive parameters         *)
(* (validateExclusives and its count).                                     *)
(***************************************************************************)
ExclusivesEnforced ==
  [][\A r \in Resource : store'[r] \notin {Absent, store[r]} =>
       \E cfg \in Config : ~NamesExclusives(r, store'[r], cfg)]_vars

(***************************************************************************)
(* No object that is written lacks a required label (validateLabels).      *)
(***************************************************************************)
LabelsEnforced ==
  [][\A r \in Resource : store'[r] \notin {Absent, store[r]} =>
       \E cfg \in Config :
         cfg.labels # Unreadable =>
           \A i \in EveryOfKind(cfg.labels, Kind(r)) :
             cfg.labels[i].labels \subseteq store'[r].labels]_vars

-----------------------------------------------------------------------------
(* A stronger promise, which the code does not keep.                       *)

\* The request breaks no rule of the ConfigMap.
Complies(c, cfg) ==
  /\ LabelsOn => ~LacksLabel(c, cfg)
  /\ (ImmutablesOn /\ req[c].op = "UPDATE") =>
       \A q \in Protected(cfg, Kind(Target(c))) :
         Kept(Kind(Target(c)), store[Target(c)].spec, New(c).spec, q)
  /\ ExclusivesOn => ~NamesExclusives(Target(c), New(c), cfg)

(***************************************************************************)
(* A request that breaks the rules of every ConfigMap mounted during its   *)
(* review is not allowed (the three config readers, each called by its own *)
(* validation).                                                            *)
(***************************************************************************)
OneConfigMapPerReview ==
  \A c \in Call :
    (pc[c] = "allowed" /\ ~stale[c]) => \E cfg \in seen[c] : Complies(c, cfg)
=============================================================================
