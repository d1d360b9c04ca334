------------------------------- MODULE Rules --------------------------------
(***************************************************************************)
(* The three validations of the admission webhook as functions of what     *)
(* they read: the mounted rules, the object under review, the object in    *)
(* the cluster.  Module Validator says when each of them is read.          *)
(*                                                                         *)
(* A spec is a function from the dotted paths spelled in it (the keys      *)
(* Parse builds, before they are put in lower case) to JSON values;        *)
(* an object has its own entry besides those of the values inside it.      *)
(***************************************************************************)
EXTENDS Values, Catalog

CONSTANTS
  Resource,     \* names of resources
  TypeOf,       \* resource -> [kind, group, version, namespaced]; group "" is core
  Lower,        \* strings.ToLower, on the paths and kinds of the instance
  NoSpec,       \* the spec of an object that has none
  Unreadable,   \* a mounted file that is absent or does not parse
  LabelsOn,     \* ADMISSION_CONTROL_LABELS
  ImmutablesOn, \* ADMISSION_CONTROL_IMMUTABLES
  ExclusivesOn, \* ADMISSION_CONTROL_MUTUAL_EXCLUSIVES
  Listing       \* text of a service class -> the catalog's resources for it

Kind(r)    == TypeOf[r].kind
Core(r)    == TypeOf[r].group = ""

-----------------------------------------------------------------------------
(* Required labels: a sequence of [kind, labels].                          *)

FirstRuleOnly(rules, kind) == {i \in DOMAIN rules : i = 1 /\ rules[i].kind = kind}

\* The first rule of the kind, and only that one.
FirstOfKind(rules, kind) ==
  {i \in DOMAIN rules : /\ rules[i].kind = kind
                        /\ \A j \in 1 .. i - 1 : rules[j].kind # kind}

\* validateLabels
LabelsAllowed(rules, kind, labels) ==
  rules # Unreadable =>
    \A i \in FirstOfKind(rules, kind) : rules[i].labels \subseteq labels

-----------------------------------------------------------------------------
(* Parse: the flat map of a spec, with keys in lower case.  When two keys  *)
(* differ by case only, Go's iteration order decides which value is kept:  *)
(* Parse is the set of the maps it may build.                              *)

Parse(spec) ==
  LET keys == {Lower[p] : p \in DOMAIN spec}
  IN  {flat \in [keys -> {spec[p] : p \in DOMAIN spec}] :
         \A q \in keys : \E p \in DOMAIN spec : Lower[p] = q /\ flat[q] = spec[p]}

\* A lookup in a Go map: nil when the key is missing.
At(flat, q) == IF q \in DOMAIN flat THEN flat[q] ELSE Null

-----------------------------------------------------------------------------
(* Immutable paths: a sequence of [kind, immutables], the immutables being *)
(* a set of spelled paths.  old is the flat map of the object in the       *)
(* cluster, new that of the object under review.                           *)

FirstMatch(rules, kind) ==
  {i \in DOMAIN rules : /\ rules[i].kind = kind
                        /\ \A j \in 1 .. i - 1 : rules[j].kind # kind}

\* The rules that apply to a kind; group and version are not compared.
MatchingKind(rules, kind) == {i \in DOMAIN rules : rules[i].kind = kind}

Items(rule) == {Lower[p] : p \in rule.immutables}

\* The comparison of the two interface values.
Panics(old, new, q) ==
  ComparePanics(DecodeRequest(At(new, q)), DecodeCluster(At(old, q)))

\* Comparing values, without their printed form.
DiffersByValue(old, new, q) ==
  ~GoEqual(DecodeRequest(At(new, q)), DecodeCluster(At(old, q)))

\* Values that are unequal and do not print alike either.
Differs(old, new, q) ==
  /\ ~GoEqual(DecodeRequest(At(new, q)), DecodeCluster(At(old, q)))
  /\ Sprint(DecodeRequest(At(new, q))) # Sprint(DecodeCluster(At(old, q)))

Changed(rule, old, new) == {q \in Items(rule) : Differs(old, new, q)}
Crashes(rule, old, new) == \E q \in Items(rule) : Panics(old, new, q)

\* The one path whose immutability the catalog decides.
IsPlan(kind, q) == q = "spec.plan" /\ Lower[kind] = "service"

ClassText(old) == Sprint(DecodeCluster(At(old, "spec.serviceclass")))

\* The catalog's answer about a class, when it answers.
Reply(class) == [ok |-> TRUE, resources |-> Listing[class]]
NoReply      == [ok |-> FALSE, resources |-> <<>>]

\* The outcome of one rule of the loop when no call fails.
Keeps(kind, rule, old, new) ==
  /\ ~Crashes(rule, old, new)
  /\ \A q \in Changed(rule, old, new) :
       IsPlan(kind, q) /\ Updateable(Reply(ClassText(old)))

-----------------------------------------------------------------------------
(* Mutual exclusions: a sequence of [kind, group, version, exclusives],    *)
(* the exclusives being a set of sequences of spelled paths.               *)

AppliesToType(rule, type) ==
  /\ rule.kind = type.kind
  /\ rule.group = type.group
  /\ rule.version \in {type.version, ""}

\* Only an object with something in it counts.
Present(flat, q) == At(flat, q).json = "object" /\ At(flat, q).val # 0

ClashOfAll(list, flat) ==
  /\ Len(list) > 1
  /\ \A i \in DOMAIN list : Present(flat, Lower[list[i]])

\* Two items of one list are present.
Clash(list, flat) ==
  \E i, j \in DOMAIN list : /\ i < j
                            /\ Present(flat, Lower[list[i]])
                            /\ Present(flat, Lower[list[j]])

\* validateExclusives, after the object is parsed
ExclusivesAllowed(rules, type, flat) ==
  rules # Unreadable =>
    \A i \in DOMAIN rules :
      AppliesToType(rules[i], type) =>
        \A list \in rules[i].exclusives : ~Clash(list, flat)

-----------------------------------------------------------------------------
(* The type assertions and index expressions the two validations evaluate  *)
(* before they look at any rule.  Each panics when it fails.               *)

CoreSafe(r, body) == ~Core(r) /\ body.spec # NoSpec

ReadableByImmutables(r, body) == CoreSafe(r, body) /\ TypeOf[r].namespaced
ReadableByExclusives(r, body) == CoreSafe(r, body)
=============================================================================
