---------------------------- MODULE Flatten_proof -----------------------------
(***************************************************************************)
(* Parse, for objects of any number of keys, nested to any depth, and for  *)
(* any order in which their keys are visited.                              *)
(***************************************************************************)
EXTENDS Flatten, Induction, SequenceTheorems

-----------------------------------------------------------------------------
(* What is spelled in an object.                                           *)

\* The entries of an object, f giving those of the objects in it.
Entries(f, obj) ==
  {<<key, Contents[obj][key]>> : key \in DOMAIN Contents[obj]}
    \cup UNION {Below(key, f[Contents[obj][key].val]) : key \in Nested(obj)}

IsSpelled(f, m) == f = [obj \in 1 .. m |-> Entries(f, obj)]

LEMMA Numbered ==
  /\ DOMAIN Contents = 1 .. Len(Contents) /\ Len(Contents) \in Nat
  /\ \A obj \in DOMAIN Contents : \A key \in Nested(obj) :
       Contents[obj][key].val \in 1 .. obj - 1
<1> DEFINE R == {Contents[obj] : obj \in DOMAIN Contents}
<1>1. Contents \in Seq(R)
  BY ContentsAssumption
<1> HIDE DEF R
<1>2. DOMAIN Contents = 1 .. Len(Contents) /\ Len(Contents) \in Nat
  BY <1>1
<1> QED
  BY <1>2, ContentsAssumption DEF Nested

LEMMA EntriesAgree ==
  ASSUME NEW f, NEW g, NEW obj \in DOMAIN Contents, \A o \in 1 .. obj - 1 : f[o] = g[o]
  PROVE  Entries(f, obj) = Entries(g, obj)
<1>1. \A key \in Nested(obj) : f[Contents[obj][key].val] = g[Contents[obj][key].val]
  BY Numbered
<1>2. UNION {Below(key, f[Contents[obj][key].val]) : key \in Nested(obj)}
        = UNION {Below(key, g[Contents[obj][key].val]) : key \in Nested(obj)}
  BY <1>1
<1> QED
  BY <1>2 DEF Entries

LEMMA SpelledExists == \E f : IsSpelled(f, Len(Contents))
<1> DEFINE S == {m \in 0 .. Len(Contents) : \E f : IsSpelled(f, m)}
<1>1. 0 \in S
  <2>1. IsSpelled([obj \in 1 .. 0 |-> {}], 0)
    BY DEF IsSpelled
  <2> QED
    BY <2>1, Numbered
<1>2. ASSUME NEW m \in 0 .. Len(Contents) - 1, m \in S PROVE m + 1 \in S
  <2>1. PICK f : IsSpelled(f, m)
    BY <1>2
  <2> DEFINE longer == [obj \in 1 .. m + 1 |-> IF obj = m + 1 THEN Entries(f, obj) ELSE f[obj]]
  <2>2. \A obj \in 1 .. m + 1 : longer[obj] = Entries(f, obj)
    BY <2>1 DEF IsSpelled
  <2>3. \A obj \in 1 .. m : longer[obj] = f[obj]
    BY <1>2
  <2>4. ASSUME NEW obj \in 1 .. m + 1 PROVE Entries(f, obj) = Entries(longer, obj)
    <3>1. obj \in DOMAIN Contents
      BY Numbered
    <3>2. \A o \in 1 .. obj - 1 : f[o] = longer[o]
      BY <2>3
    <3> HIDE DEF longer
    <3> QED
      BY <3>1, <3>2, EntriesAgree
  <2>5. longer = [obj \in 1 .. m + 1 |-> longer[obj]]
    OBVIOUS
  <2> HIDE DEF longer
  <2>6. IsSpelled(longer, m + 1)
    BY <2>2, <2>4, <2>5 DEF IsSpelled
  <2> QED
    BY <2>6, Numbered
<1> HIDE DEF S
<1>3. 0 .. Len(Contents) \subseteq S
  BY <1>1, <1>2, InductionUpTo, Numbered
<1>4. Len(Contents) \in S
  BY <1>3, Numbered
<1> QED
  BY <1>4 DEF S

LEMMA SpelledIs == IsSpelled(Spelled, Len(Contents))
<1> DEFINE f == CHOOSE g : IsSpelled(g, Len(Contents))
<1>1. IsSpelled(f, Len(Contents))
  BY SpelledExists
<1>2. Spelled = f
  BY Numbered DEF Spelled, IsSpelled, Entries
<1> QED
  BY <1>1, <1>2

Path  == Seq(DOMAIN LowerWord)
Found == UNION {{Contents[obj][key] : key \in DOMAIN Contents[obj]} : obj \in DOMAIN Contents}

LEMMA SpelledTyped == \A obj \in DOMAIN Contents : Spelled[obj] \subseteq Path \X Found
<1> DEFINE S == {m \in 0 .. Len(Contents) : \A obj \in 1 .. m : Spelled[obj] \subseteq Path \X Found}
<1>1. 0 \in S
  BY Numbered
<1>2. ASSUME NEW m \in 0 .. Len(Contents) - 1, m \in S PROVE m + 1 \in S
  <2> DEFINE obj == m + 1
  <2>1. obj \in DOMAIN Contents /\ obj \in 1 .. Len(Contents)
    BY Numbered
  <2>2. Spelled[obj] = Entries(Spelled, obj)
    BY <2>1, SpelledIs DEF IsSpelled
  <2>3. \A key \in DOMAIN Contents[obj] : key \in Path /\ Contents[obj][key] \in Found
    BY <2>1, ContentsAssumption DEF Path, Found
  <2>4. ASSUME NEW key \in Nested(obj), NEW e \in Spelled[Contents[obj][key].val]
        PROVE  <<key \o e[1], e[2]>> \in Path \X Found
    <3>1. Contents[obj][key].val \in 1 .. m
      BY <2>1, Numbered
    <3>2. e \in Path \X Found
      BY <1>2, <3>1
    <3>3. key \in Path /\ e[1] \in Path /\ e[2] \in Found
      BY <2>3, <3>2 DEF Nested
    <3>4. key \o e[1] \in Path
      BY <3>3, ConcatProperties DEF Path
    <3> QED
      BY <3>3, <3>4
  <2>5. ASSUME NEW key \in Nested(obj)
        PROVE  Below(key, Spelled[Contents[obj][key].val]) \subseteq Path \X Found
    BY <2>4 DEF Below
  <2>6. {<<key, Contents[obj][key]>> : key \in DOMAIN Contents[obj]} \subseteq Path \X Found
    BY <2>3
  <2>7. Spelled[obj] \subseteq Path \X Found
    BY <2>2, <2>5, <2>6 DEF Entries
  <2> QED
    BY <1>2, <2>7, Numbered
<1> HIDE DEF S
<1>3. 0 .. Len(Contents) \subseteq S
  BY <1>1, <1>2, InductionUpTo, Numbered
<1>4. Len(Contents) \in S
  BY <1>3, Numbered
<1> QED
  BY <1>4, Numbered DEF S

\* The entries of one key of an object.
EntriesOf(obj, key) ==
  {<<key, Contents[obj][key]>>}
    \cup IF key \in Nested(obj) THEN Below(key, Spelled[Contents[obj][key].val]) ELSE {}

LEMMA SpelledByKey ==
  ASSUME NEW obj \in DOMAIN Contents
  PROVE  Spelled[obj] = UNION {EntriesOf(obj, key) : key \in DOMAIN Contents[obj]}
<1>1. Spelled[obj] = Entries(Spelled, obj)
  BY Numbered, SpelledIs DEF IsSpelled
<1> QED
  BY <1>1 DEF Entries, EntriesOf, Nested

-----------------------------------------------------------------------------
(* The calls of Parse.                                                     *)

LowerPaths == {LowerPath(path) : path \in Path}
Maps == UNION {[D -> Found] : D \in SUBSET LowerPaths}

LEMMA PutMap ==
  ASSUME NEW map \in Maps, NEW q \in LowerPaths, NEW v \in Found
  PROVE  /\ Put(map, q, v) \in Maps
         /\ DOMAIN Put(map, q, v) = DOMAIN map \cup {q}
         /\ Put(map, q, v)[q] = v
         /\ \A p \in DOMAIN map \ {q} : Put(map, q, v)[p] = map[p]
<1> DEFINE new == Put(map, q, v)
<1>1. PICK D \in SUBSET LowerPaths : map \in [D -> Found]
  BY DEF Maps
<1>2. new = [k \in D \cup {q} |-> IF k = q THEN v ELSE map[k]]
  BY <1>1 DEF Put
<1>3. new \in [D \cup {q} -> Found]
  BY <1>1, <1>2
<1> QED
  BY <1>1, <1>2, <1>3 DEF Maps

LEMMA MergeMap ==
  ASSUME NEW map \in Maps, NEW map2 \in Maps
  PROVE  /\ Merge(map, map2) \in Maps
         /\ DOMAIN Merge(map, map2) = DOMAIN map \cup DOMAIN map2
         /\ \A q \in DOMAIN map2 : Merge(map, map2)[q] = map2[q]
         /\ \A q \in DOMAIN map \ DOMAIN map2 : Merge(map, map2)[q] = map[q]
<1> DEFINE new == Merge(map, map2)
<1>1. PICK D \in SUBSET LowerPaths : map \in [D -> Found]
  BY DEF Maps
<1>2. PICK E \in SUBSET LowerPaths : map2 \in [E -> Found]
  BY DEF Maps
<1>3. new = [k \in D \cup E |-> IF k \in E THEN map2[k] ELSE map[k]]
  BY <1>1, <1>2 DEF Merge
<1>4. new \in [D \cup E -> Found]
  BY <1>1, <1>2, <1>3
<1> QED
  BY <1>1, <1>2, <1>3, <1>4 DEF Maps

Frame ==
  [key : Path, obj : DOMAIN Contents, todo : SUBSET Path, newjson : Maps]

\* The keys a call has visited.
Done(call) == DOMAIN Contents[call.obj] \ call.todo

\* Its map has nothing but what is spelled in its object.
Sound(call) ==
  /\ call.todo \subseteq DOMAIN Contents[call.obj]
  /\ \A q \in DOMAIN call.newjson : \E e \in Spelled[call.obj] :
       q = LowerPath(call.key \o e[1]) /\ call.newjson[q] = e[2]

\* Its map has all that is spelled under a key.
Has(call, key) ==
  \A e \in EntriesOf(call.obj, key) : LowerPath(call.key \o e[1]) \in DOMAIN call.newjson

\* The inner call is about the object under a key it has visited; all under
\* the others is there.
AwaitsAt(call, inner, key) ==
  /\ inner.key = call.key \o key /\ inner.obj = Contents[call.obj][key].val
  /\ LowerPath(call.key \o key) \in DOMAIN call.newjson
  /\ \A k \in Done(call) \ {key} : Has(call, k)

Awaits(call, inner) == \E key \in Done(call) \cap Nested(call.obj) : AwaitsAt(call, inner, key)

Working(call) == \A key \in Done(call) : Has(call, key)

ParseInv ==
  /\ parsed \in DOMAIN Contents
  /\ calls \in Seq(Frame)
  /\ \A i \in DOMAIN calls : Sound(calls[i])
  /\ calls # <<>> => /\ Working(calls[1])
                     /\ calls[Len(calls)].key = Key /\ calls[Len(calls)].obj = parsed
  /\ \A i \in 2 .. Len(calls) : Awaits(calls[i], calls[i - 1])

LEMMA KeysTyped ==
  \A obj \in DOMAIN Contents : \A key \in DOMAIN Contents[obj] :
    key \in Path /\ Contents[obj][key] \in Found
BY ContentsAssumption DEF Path, Found

\* A call begins with an empty map.
LEMMA CalledOK ==
  ASSUME NEW key \in Path, NEW obj \in DOMAIN Contents
  PROVE  LET call == Called(key, obj)
         IN  /\ call \in Frame /\ Sound(call) /\ Working(call)
             /\ call.key = key /\ call.obj = obj
<1> DEFINE call == Called(key, obj)
<1>1. /\ call = [key |-> key, obj |-> obj, todo |-> DOMAIN Contents[obj], newjson |-> << >>]
      /\ call.key = key /\ call.obj = obj /\ call.todo = DOMAIN Contents[obj]
      /\ call.newjson = << >>
  BY DEF Called
<1>2. << >> \in Maps /\ DOMAIN << >> = {}
  <2>1. << >> \in [{} -> Found]
    OBVIOUS
  <2>2. {} \in SUBSET LowerPaths
    OBVIOUS
  <2> QED
    BY <2>1, <2>2 DEF Maps
<1>3. call \in Frame
  BY <1>1, <1>2, KeysTyped DEF Frame
<1>4. Sound(call)
  BY <1>1, <1>2 DEF Sound
<1>5. Working(call)
  BY <1>1 DEF Working, Done
<1> QED
  BY <1>1, <1>3, <1>4, <1>5

\* A key is visited: its value is stored.
LEMMA VisitedOK ==
  ASSUME NEW call \in Frame, Sound(call), Working(call), NEW key \in call.todo
  PROVE  LET new == Visited(call, key, NewKey(call, key))
         IN  /\ new \in Frame /\ Sound(new)
             /\ new.key = call.key /\ new.obj = call.obj
             /\ key \in Done(new)
             /\ LowerPath(call.key \o key) \in DOMAIN new.newjson
             /\ \A k \in Done(new) \ {key} : Has(new, k)
<1> DEFINE q == LowerPath(call.key \o key)
           v == Contents[call.obj][key]
           map == Put(call.newjson, q, v)
           new == Visited(call, key, NewKey(call, key))
<1>1. /\ call.key \in Path /\ call.obj \in DOMAIN Contents /\ call.newjson \in Maps
      /\ call.todo \in SUBSET Path
  BY DEF Frame
<1>2. key \in DOMAIN Contents[call.obj] /\ key \in Path /\ v \in Found
  BY <1>1, KeysTyped DEF Sound
<1>3. call.key \o key \in Path
  BY <1>1, <1>2, ConcatProperties DEF Path
<1>4. q \in LowerPaths
  BY <1>3 DEF LowerPaths
<1>5. /\ map \in Maps /\ DOMAIN map = DOMAIN call.newjson \cup {q} /\ map[q] = v
      /\ \A p \in DOMAIN call.newjson \ {q} : map[p] = call.newjson[p]
  <2> HIDE DEF q, v
  <2> QED
    BY <1>1, <1>2, <1>4, PutMap
<1>6. new = [call EXCEPT !.todo = @ \ {key}, !.newjson = map]
  BY DEF Visited, NewKey
<1> HIDE DEF map, new
<1>7. /\ new \in Frame /\ new.key = call.key /\ new.obj = call.obj
      /\ new.todo = call.todo \ {key} /\ new.newjson = map
  BY <1>1, <1>5, <1>6 DEF Frame
<1>8. <<key, v>> \in Spelled[call.obj]
  BY <1>1, <1>2, SpelledByKey DEF EntriesOf
<1>9. Sound(new)
  <2> SUFFICES ASSUME NEW p \in DOMAIN map
               PROVE  \E e \in Spelled[call.obj] : p = LowerPath(call.key \o e[1]) /\ map[p] = e[2]
    BY <1>7 DEF Sound
  <2>1. CASE p = q
    <3>1. <<key, v>>[1] = key /\ <<key, v>>[2] = v
      OBVIOUS
    <3> QED
      BY <1>5, <1>8, <2>1, <3>1
  <2>2. CASE p # q
    BY <1>5, <2>2 DEF Sound
  <2> QED
    BY <2>1, <2>2
<1>10. Done(new) = Done(call) \cup {key}
  BY <1>2, <1>7 DEF Done
<1>11. ASSUME NEW k \in Done(call) PROVE Has(new, k)
  BY <1>5, <1>7 DEF Working, Has
<1> QED
  BY <1>5, <1>7, <1>9, <1>10, <1>11 DEF new

\* A call that has visited all keys has what is spelled in its object.
LEMMA FinishedHas ==
  ASSUME NEW call \in Frame, Working(call), call.todo = {}
  PROVE  \A e \in Spelled[call.obj] : LowerPath(call.key \o e[1]) \in DOMAIN call.newjson
BY SpelledByKey DEF Frame, Working, Done, Has

\* An inner call returns: its map goes into its caller's.
LEMMA MergedOK ==
  ASSUME NEW call \in Frame, NEW inner \in Frame, Sound(call), Sound(inner), Working(inner),
         inner.todo = {}, Awaits(call, inner)
  PROVE  LET new == [call EXCEPT !.newjson = Merge(@, inner.newjson)]
         IN  /\ new \in Frame /\ Sound(new) /\ Working(new)
             /\ new.key = call.key /\ new.obj = call.obj /\ new.todo = call.todo
<1> DEFINE map == Merge(call.newjson, inner.newjson)
           new == [call EXCEPT !.newjson = map]
<1>1. PICK key \in Done(call) \cap Nested(call.obj) : AwaitsAt(call, inner, key)
  BY DEF Awaits
<1>2. /\ call.key \in Path /\ call.obj \in DOMAIN Contents /\ call.newjson \in Maps
      /\ inner.newjson \in Maps /\ inner.obj \in DOMAIN Contents
  BY DEF Frame
<1>3. /\ map \in Maps /\ DOMAIN map = DOMAIN call.newjson \cup DOMAIN inner.newjson
      /\ \A q \in DOMAIN inner.newjson : map[q] = inner.newjson[q]
      /\ \A q \in DOMAIN call.newjson \ DOMAIN inner.newjson : map[q] = call.newjson[q]
  BY <1>2, MergeMap
<1> HIDE DEF map
<1>4. /\ new \in Frame /\ new.key = call.key /\ new.obj = call.obj /\ new.todo = call.todo
      /\ new.newjson = map
  BY <1>3 DEF Frame
<1> HIDE DEF new
<1>5. key \in Path /\ key \in DOMAIN Contents[call.obj]
  BY <1>2, KeysTyped DEF Nested
<1>6. ASSUME NEW e \in Spelled[inner.obj]
      PROVE  /\ inner.key \o e[1] = call.key \o (key \o e[1])
             /\ <<key \o e[1], e[2]>> \in EntriesOf(call.obj, key)
  <2>1. e[1] \in Path
    BY <1>2, SpelledTyped
  <2>2. inner.key \o e[1] = call.key \o (key \o e[1])
    <3>1. inner.key = call.key \o key
      BY <1>1 DEF AwaitsAt
    <3>2. (call.key \o key) \o e[1] = call.key \o (key \o e[1])
      <4> DEFINE a == call.key
                 b == key
                 d == e[1]
      <4>1. a \in Path /\ b \in Path /\ d \in Path
        BY <1>2, <1>5, <2>1
      <4> HIDE DEF a, b, d
      <4>2. (a \o b) \o d = a \o (b \o d)
        BY <4>1, ConcatAssociative DEF Path
      <4> QED
        BY <4>2 DEF a, b, d
    <3> QED
      BY <3>1, <3>2
  <2>3. <<key \o e[1], e[2]>> \in Below(key, Spelled[inner.obj])
    BY DEF Below
  <2> QED
    BY <1>1, <2>2, <2>3 DEF EntriesOf, AwaitsAt
<1>7. Sound(new)
  <2> SUFFICES ASSUME NEW q \in DOMAIN map
               PROVE  \E e \in Spelled[call.obj] : q = LowerPath(call.key \o e[1]) /\ map[q] = e[2]
    BY <1>4 DEF Sound
  <2>1. CASE q \in DOMAIN inner.newjson
    <3>1. PICK e \in Spelled[inner.obj] :
            q = LowerPath(inner.key \o e[1]) /\ inner.newjson[q] = e[2]
      BY <2>1 DEF Sound
    <3> DEFINE entry == <<key \o e[1], e[2]>>
    <3>2. entry[1] = key \o e[1] /\ entry[2] = e[2]
      OBVIOUS
    <3>3. entry \in EntriesOf(call.obj, key)
      BY <1>6
    <3> HIDE DEF entry
    <3>4. entry \in Spelled[call.obj]
      BY <1>2, <1>5, <3>3, SpelledByKey
    <3> QED
      BY <1>3, <1>6, <2>1, <3>1, <3>2, <3>4
  <2>2. CASE q \notin DOMAIN inner.newjson
    <3>1. q \in DOMAIN call.newjson /\ map[q] = call.newjson[q]
      BY <1>3, <2>2
    <3>2. PICK e \in Spelled[call.obj] :
            q = LowerPath(call.key \o e[1]) /\ call.newjson[q] = e[2]
      BY <3>1 DEF Sound
    <3> QED
      BY <3>1, <3>2
  <2> QED
    BY <2>1, <2>2
<1>8. ASSUME NEW k \in Done(new) PROVE Has(new, k)
  <2>1. CASE k # key
    <3>1. k \in Done(call) \ {key}
      BY <1>4, <2>1 DEF Done
    <3>2. Has(call, k)
      BY <1>1, <3>1 DEF AwaitsAt
    <3> QED
      BY <1>3, <1>4, <3>2 DEF Has
  <2>2. CASE k = key
    <3> SUFFICES ASSUME NEW e \in EntriesOf(call.obj, key)
                 PROVE  LowerPath(call.key \o e[1]) \in DOMAIN map
      BY <1>4, <2>2 DEF Has
    <3>1. CASE e = <<key, Contents[call.obj][key]>>
      BY <1>1, <1>3, <3>1 DEF AwaitsAt
    <3>2. CASE e \in Below(key, Spelled[inner.obj])
      <4>1. PICK d \in Spelled[inner.obj] : e = <<key \o d[1], d[2]>>
        BY <3>2 DEF Below
      <4>2. LowerPath(inner.key \o d[1]) \in DOMAIN inner.newjson
        BY FinishedHas
      <4> QED
        BY <1>3, <1>6, <4>1, <4>2
    <3> QED
      BY <1>1, <3>1, <3>2 DEF EntriesOf, AwaitsAt
  <2> QED
    BY <2>1, <2>2
<1> QED
  BY <1>4, <1>7, <1>8 DEF Working, new, map

-----------------------------------------------------------------------------
(* The stack of calls.                                                     *)

LEMMA InitParse == Init => ParseInv
<1> SUFFICES ASSUME Init PROVE ParseInv
  OBVIOUS
<1> DEFINE call == Called(Key, parsed)
<1>1. Key \in Path /\ parsed \in DOMAIN Contents
  BY ContentsAssumption DEF Init, Path
<1>2. call \in Frame /\ Sound(call) /\ Working(call) /\ call.key = Key /\ call.obj = parsed
  BY <1>1, CalledOK
<1>3. calls = <<call>>
  BY DEF Init
<1> HIDE DEF call
<1>4. calls \in Seq(Frame) /\ Len(calls) = 1 /\ DOMAIN calls = {1} /\ calls[1] = call
  BY <1>2, <1>3
<1> QED
  BY <1>1, <1>2, <1>4 DEF ParseInv

LEMMA AwaitsSame ==
  ASSUME NEW call, NEW a, NEW b, Awaits(call, a), b.key = a.key, b.obj = a.obj
  PROVE  Awaits(call, b)
BY DEF Awaits, AwaitsAt

\* A call on top of a stack.
LEMMA Pushed ==
  ASSUME NEW call \in Frame, NEW rest \in Seq(Frame)
  PROVE  /\ <<call>> \o rest \in Seq(Frame)
         /\ Len(<<call>> \o rest) = Len(rest) + 1
         /\ (<<call>> \o rest)[1] = call
         /\ \A i \in 2 .. Len(rest) + 1 : (<<call>> \o rest)[i] = rest[i - 1]
<1>1. <<call>> \in Seq(Frame) /\ Len(<<call>>) = 1 /\ <<call>>[1] = call
  OBVIOUS
<1>2. Len(rest) \in Nat
  OBVIOUS
<1> DEFINE one == <<call>>
<1>3. one \in Seq(Frame) /\ Len(one) = 1 /\ one[1] = call
  BY <1>1
<1> HIDE DEF one
<1>4. /\ one \o rest \in Seq(Frame)
      /\ Len(one \o rest) = Len(rest) + 1
      /\ \A i \in 1 .. 1 + Len(rest) :
           (one \o rest)[i] = IF i <= 1 THEN one[i] ELSE rest[i - 1]
  <2>1. /\ one \o rest \in Seq(Frame)
        /\ Len(one \o rest) = Len(one) + Len(rest)
        /\ \A i \in 1 .. Len(one) + Len(rest) :
             (one \o rest)[i] = IF i <= Len(one) THEN one[i] ELSE rest[i - Len(one)]
    BY <1>3, ConcatProperties
  <2> HIDE DEF one
  <2> QED
    BY <1>2, <1>3, <2>1
<1>5. (one \o rest)[1] = call /\ \A i \in 2 .. Len(rest) + 1 : (one \o rest)[i] = rest[i - 1]
  BY <1>2, <1>3, <1>4
<1> QED
  BY <1>4, <1>5 DEF one

LEMMA VisitParse ==
  ASSUME ParseInv, calls # <<>>, NEW key, Visit(key)
  PROVE  ParseInv'
<1> DEFINE call  == calls[1]
           value == Contents[call.obj][key]
           new   == Visited(call, key, NewKey(call, key))
           inner == Called(NewKey(call, key), value.val)
           rest  == Tail(calls)
<1>1. /\ calls \in Seq(Frame) /\ Len(calls) \in Nat /\ Len(calls) >= 1
      /\ DOMAIN calls = 1 .. Len(calls)
  BY DEF ParseInv
<1>2. Head(calls) = call /\ call \in Frame /\ Sound(call) /\ Working(call)
  BY <1>1 DEF ParseInv
<1>3. /\ rest \in Seq(Frame) /\ Len(rest) = Len(calls) - 1
      /\ \A i \in 1 .. Len(rest) : rest[i] = calls[i + 1]
  BY <1>1, HeadTailProperties
<1>4. /\ key \in call.todo /\ UNCHANGED <<parsed, result>>
      /\ calls' = (IF value.json = "object" THEN <<inner>> ELSE <<>>) \o <<new>> \o rest
  BY <1>2 DEF Visit
<1>5. /\ new \in Frame /\ Sound(new) /\ new.key = call.key /\ new.obj = call.obj
      /\ key \in Done(new) /\ LowerPath(call.key \o key) \in DOMAIN new.newjson
      /\ \A k \in Done(new) \ {key} : Has(new, k)
  BY <1>2, <1>4, VisitedOK
<1>6. /\ call.obj \in DOMAIN Contents /\ call.key \in Path
      /\ key \in DOMAIN Contents[call.obj] /\ key \in Path
  BY <1>2, <1>4, KeysTyped DEF Frame, Sound
<1>7. /\ parsed' \in DOMAIN Contents
      /\ \A i \in DOMAIN calls : Sound(calls[i])
      /\ calls[Len(calls)].key = Key /\ calls[Len(calls)].obj = parsed'
      /\ \A i \in 2 .. Len(calls) : Awaits(calls[i], calls[i - 1])
  BY <1>4 DEF ParseInv
<1>8. CASE value.json = "object"
  <2>1. value.val \in DOMAIN Contents /\ key \in Nested(call.obj)
    <3>1. key \in Nested(call.obj)
      BY <1>6, <1>8 DEF Nested
    <3> QED
      BY <1>6, <3>1, Numbered
  <2>2. NewKey(call, key) = call.key \o key /\ NewKey(call, key) \in Path
    BY <1>6, ConcatProperties DEF NewKey, Path
  <2>3. /\ inner \in Frame /\ Sound(inner) /\ Working(inner)
        /\ inner.key = call.key \o key /\ inner.obj = value.val
    BY <2>1, <2>2, CalledOK
  <2>4. calls' = <<inner>> \o <<new>> \o rest
    BY <1>4, <1>8
  <2> HIDE DEF new, inner, rest
  <2>5. calls' = <<inner>> \o (<<new>> \o rest)
    <3> DEFINE a == <<inner>>
               b == <<new>>
    <3>1. a \in Seq(Frame) /\ b \in Seq(Frame) /\ rest \in Seq(Frame)
      BY <1>3, <1>5, <2>3
    <3>2. calls' = (a \o b) \o rest
      BY <2>4
    <3> HIDE DEF a, b
    <3>3. calls' = a \o (b \o rest)
      BY <3>1, <3>2, ConcatAssociative
    <3> QED
      BY <3>3 DEF a, b
  <2> DEFINE lower == <<new>> \o rest
  <2>6. /\ lower \in Seq(Frame) /\ Len(lower) = Len(calls) /\ lower[1] = new
        /\ \A i \in 2 .. Len(calls) : lower[i] = calls[i]
    <3>1. /\ lower \in Seq(Frame) /\ Len(lower) = Len(rest) + 1 /\ lower[1] = new
          /\ \A i \in 2 .. Len(rest) + 1 : lower[i] = rest[i - 1]
      BY <1>3, <1>5, Pushed
    <3> HIDE DEF lower
    <3> QED
      BY <1>1, <1>3, <3>1
  <2> HIDE DEF lower
  <2>7. /\ calls' \in Seq(Frame) /\ Len(calls') = Len(calls) + 1
        /\ calls'[1] = inner /\ \A i \in 2 .. Len(calls) + 1 : calls'[i] = lower[i - 1]
    <3>1. calls' = <<inner>> \o lower
      BY <2>5 DEF lower
    <3> QED
      BY <2>3, <2>6, <3>1, Pushed
  <2>8. calls'[2] = new /\ \A i \in 3 .. Len(calls) + 1 : calls'[i] = calls[i - 1]
    BY <1>1, <2>6, <2>7
  <2>9. \A i \in DOMAIN calls' : Sound(calls'[i])
    <3> SUFFICES ASSUME NEW i \in 1 .. Len(calls) + 1 PROVE Sound(calls'[i])
      BY <1>1, <2>7
    <3>1. CASE i = 1
      BY <2>3, <2>7, <3>1
    <3>2. CASE i = 2
      BY <1>5, <2>8, <3>2
    <3>3. CASE i > 2
      <4>1. i \in 3 .. Len(calls) + 1 /\ i - 1 \in DOMAIN calls
        BY <1>1, <3>3
      <4> QED
        BY <1>7, <2>8, <4>1
    <3> QED
      BY <1>1, <3>1, <3>2, <3>3
  <2>10. calls'[Len(calls')].key = Key /\ calls'[Len(calls')].obj = parsed'
    <3>1. CASE Len(calls) = 1
      BY <1>5, <1>7, <2>7, <2>8, <3>1
    <3>2. CASE Len(calls) # 1
      BY <1>1, <1>7, <2>7, <2>8, <3>2
    <3> QED
      BY <3>1, <3>2
  <2>11. ASSUME NEW i \in 2 .. Len(calls') PROVE Awaits(calls'[i], calls'[i - 1])
    <3>1. CASE i = 2
      <4>1. AwaitsAt(new, inner, key)
        BY <1>5, <2>3 DEF AwaitsAt
      <4>2. Awaits(new, inner)
        BY <1>5, <2>1, <4>1 DEF Awaits
      <4> QED
        BY <2>7, <2>8, <3>1, <4>2
    <3>2. CASE i = 3
      <4>1. Len(calls) >= 2
        BY <1>1, <2>7, <3>2
      <4>2. Awaits(calls[2], call)
        BY <1>1, <1>7, <4>1
      <4>3. Awaits(calls[2], new)
        BY <1>5, <4>2, AwaitsSame
      <4> QED
        BY <1>1, <2>7, <2>8, <3>2, <4>1, <4>3
    <3>3. CASE i > 3
      <4>1. i - 1 \in 2 .. Len(calls) /\ calls'[i] = calls[i - 1] /\ calls'[i - 1] = calls[i - 1 - 1]
        BY <1>1, <2>7, <2>8, <3>3
      <4> QED
        BY <1>7, <4>1
    <3> QED
      BY <1>1, <2>7, <3>1, <3>2, <3>3
  <2> QED
    BY <1>7, <2>3, <2>7, <2>9, <2>10, <2>11 DEF ParseInv
<1>9. CASE value.json # "object"
  <2>1. Working(new)
    <3>1. Has(new, key)
      BY <1>5, <1>6, <1>9 DEF Has, EntriesOf, Nested
    <3> QED
      BY <1>5, <3>1 DEF Working
  <2>2. calls' = <<new>> \o rest
    <3>1. calls' = (<<>> \o <<new>>) \o rest
      BY <1>4, <1>9
    <3>2. <<>> \o <<new>> = <<new>>
      <4> HIDE DEF new
      <4> DEFINE one == <<new>>
      <4>1. one \in Seq(Frame)
        BY <1>5
      <4> HIDE DEF one
      <4>2. <<>> \o one = one
        BY <4>1, ConcatEmptySeq
      <4> QED
        BY <4>2 DEF one
    <3> QED
      BY <3>1, <3>2
  <2> HIDE DEF new, rest
  <2>3. /\ calls' \in Seq(Frame) /\ Len(calls') = Len(rest) + 1
        /\ calls'[1] = new /\ \A i \in 2 .. Len(rest) + 1 : calls'[i] = rest[i - 1]
    BY <1>3, <1>5, <2>2, Pushed
  <2>4. Len(calls') = Len(calls) /\ \A i \in 2 .. Len(calls) : calls'[i] = calls[i]
    BY <1>1, <1>3, <2>3
  <2>5. \A i \in DOMAIN calls' : Sound(calls'[i])
    BY <1>1, <1>5, <1>7, <2>3, <2>4
  <2>6. calls'[Len(calls')].key = Key /\ calls'[Len(calls')].obj = parsed'
    <3>1. CASE Len(calls) = 1
      BY <1>5, <1>7, <2>3, <2>4, <3>1
    <3>2. CASE Len(calls) # 1
      BY <1>1, <1>7, <2>4, <3>2
    <3> QED
      BY <3>1, <3>2
  <2>7. ASSUME NEW i \in 2 .. Len(calls') PROVE Awaits(calls'[i], calls'[i - 1])
    <3>1. Awaits(calls[i], calls[i - 1]) /\ calls'[i] = calls[i]
      BY <1>7, <2>4
    <3>2. CASE i = 2
      <4>1. Awaits(calls[2], call)
        BY <3>1, <3>2
      <4> QED
        BY <1>5, <2>3, <3>1, <3>2, <4>1, AwaitsSame
    <3>3. CASE i > 2
      <4>1. i - 1 \in 2 .. Len(calls)
        BY <1>1, <2>4, <3>3
      <4> QED
        BY <2>4, <3>1, <4>1
    <3> QED
      BY <3>2, <3>3
  <2> QED
    BY <1>7, <2>1, <2>3, <2>5, <2>6, <2>7 DEF ParseInv
<1> QED
  BY <1>8, <1>9

LEMMA ReturnParse == ParseInv /\ Return => ParseInv'
<1> SUFFICES ASSUME ParseInv, Return PROVE ParseInv'
  OBVIOUS
<1> DEFINE call == calls[2]
           inner == calls[1]
           new == [call EXCEPT !.newjson = Merge(@, inner.newjson)]
           rest == SubSeq(calls, 3, Len(calls))
<1>1. /\ calls \in Seq(Frame) /\ Len(calls) \in Nat /\ Len(calls) >= 2
      /\ DOMAIN calls = 1 .. Len(calls) /\ inner.todo = {}
  BY DEF ParseInv, Return
<1>2. /\ call \in Frame /\ inner \in Frame /\ Sound(call) /\ Sound(inner) /\ Working(inner)
      /\ Awaits(call, inner)
  BY <1>1 DEF ParseInv
<1>3. calls' = <<new>> \o rest /\ UNCHANGED <<parsed, result>>
  BY DEF Return
<1>4. /\ new \in Frame /\ Sound(new) /\ Working(new)
      /\ new.key = call.key /\ new.obj = call.obj
  BY <1>1, <1>2, MergedOK
<1>5. /\ rest \in Seq(Frame) /\ Len(rest) = Len(calls) - 2
      /\ \A i \in 1 .. Len(rest) : rest[i] = calls[i + 2]
  <2>1. \A i \in 3 .. Len(calls) : calls[i] \in Frame
    BY <1>1
  <2>2. /\ rest \in Seq(Frame)
        /\ Len(rest) = IF 3 <= Len(calls) THEN Len(calls) - 3 + 1 ELSE 0
        /\ \A i \in 1 .. Len(calls) - 3 + 1 : rest[i] = calls[3 + i - 1]
    BY <1>1, <2>1, SubSeqProperties
  <2> HIDE DEF rest
  <2>3. Len(rest) = Len(calls) - 2
    <3>1. CASE 3 <= Len(calls)
      BY <1>1, <2>2, <3>1
    <3>2. CASE ~(3 <= Len(calls))
      BY <1>1, <2>2, <3>2
    <3> QED
      BY <3>1, <3>2
  <2>4. ASSUME NEW i \in 1 .. Len(rest) PROVE rest[i] = calls[i + 2]
    <3>1. i \in 1 .. Len(calls) - 3 + 1 /\ 3 + i - 1 = i + 2
      BY <1>1, <2>3
    <3> QED
      BY <2>2, <3>1
  <2> QED
    BY <2>2, <2>3, <2>4
<1>6. /\ parsed' \in DOMAIN Contents
      /\ \A i \in DOMAIN calls : Sound(calls[i])
      /\ calls[Len(calls)].key = Key /\ calls[Len(calls)].obj = parsed'
      /\ \A i \in 2 .. Len(calls) : Awaits(calls[i], calls[i - 1])
  BY <1>1, <1>3 DEF ParseInv
<1> HIDE DEF new, rest
<1>7. /\ calls' \in Seq(Frame) /\ Len(calls') = Len(rest) + 1
      /\ calls'[1] = new /\ \A i \in 2 .. Len(rest) + 1 : calls'[i] = rest[i - 1]
  BY <1>3, <1>4, <1>5, Pushed
<1>8. Len(calls') = Len(calls) - 1
  BY <1>1, <1>5, <1>7
<1>9. \A i \in 2 .. Len(calls) - 1 : calls'[i] = calls[i + 1]
  <2> SUFFICES ASSUME NEW i \in 2 .. Len(calls) - 1 PROVE calls'[i] = calls[i + 1]
    OBVIOUS
  <2>1. i - 1 \in 1 .. Len(rest) /\ i - 1 + 2 = i + 1 /\ i \in 2 .. Len(rest) + 1
    BY <1>1, <1>5
  <2>2. calls'[i] = rest[i - 1] /\ rest[i - 1] = calls[i - 1 + 2]
    BY <1>5, <1>7, <2>1
  <2> QED
    BY <2>1, <2>2
<1>10. \A i \in DOMAIN calls' : Sound(calls'[i])
  <2> SUFFICES ASSUME NEW i \in 1 .. Len(calls) - 1 PROVE Sound(calls'[i])
    BY <1>1, <1>7, <1>8
  <2>1. CASE i = 1
    BY <1>4, <1>7, <2>1
  <2>2. CASE i > 1
    <3>1. i \in 2 .. Len(calls) - 1 /\ i + 1 \in DOMAIN calls
      BY <1>1, <2>2
    <3> QED
      BY <1>6, <1>9, <3>1
  <2> QED
    BY <1>1, <2>1, <2>2
<1>11. calls'[Len(calls')].key = Key /\ calls'[Len(calls')].obj = parsed'
  <2>1. CASE Len(calls) = 2
    <3>1. Len(calls') = 1 /\ calls'[1] = new
      <4>1. Len(calls') = 1
        BY <1>8, <2>1
      <4> QED
        BY <1>7, <4>1
    <3>2. call.key = Key /\ call.obj = parsed'
      BY <1>6, <2>1
    <3> QED
      BY <1>4, <3>1, <3>2
  <2>2. CASE Len(calls) # 2
    BY <1>1, <1>6, <1>8, <1>9, <2>2
  <2> QED
    BY <2>1, <2>2
<1>12. ASSUME NEW i \in 2 .. Len(calls') PROVE Awaits(calls'[i], calls'[i - 1])
  <2>1. i + 1 \in 2 .. Len(calls) /\ calls'[i] = calls[i + 1] /\ i + 1 - 1 = i
    BY <1>1, <1>8, <1>9
  <2>2. Awaits(calls[i + 1], calls[i])
    BY <1>6, <2>1
  <2>3. CASE i = 2
    <3>1. Awaits(calls[3], call)
      BY <2>2, <2>3
    <3>2. Awaits(calls[3], new)
      BY <1>4, <3>1, AwaitsSame
    <3> QED
      BY <1>7, <2>1, <2>3, <3>2
  <2>4. CASE i > 2
    <3>1. calls'[i - 1] = calls[i]
      BY <1>1, <1>8, <1>9, <2>4
    <3> QED
      BY <2>1, <2>2, <3>1
  <2> QED
    BY <2>3, <2>4
<1> QED
  BY <1>4, <1>6, <1>7, <1>10, <1>11, <1>12 DEF ParseInv

\* The maps a validation may read, of an object.
Choices(obj) ==
  {flat \in [{LowerPath(Key \o e[1]) : e \in Spelled[obj]} -> {e[2] : e \in Spelled[obj]}] :
     \A q \in {LowerPath(Key \o e[1]) : e \in Spelled[obj]} :
       \E e \in Spelled[obj] : LowerPath(Key \o e[1]) = q /\ flat[q] = e[2]}

Chosen == result \subseteq Choices(parsed)

LEMMA ChosenIsChoice == Chosen <=> ParseIsAChoice
<1> DEFINE spec == [e \in Spelled[parsed] |-> e[2]]
           Low  == [e \in Spelled[parsed] |-> LowerPath(Key \o e[1])]
           keys == {LowerPath(Key \o e[1]) : e \in Spelled[parsed]}
           found == {e[2] : e \in Spelled[parsed]}
<1>1. DOMAIN spec = Spelled[parsed]
  OBVIOUS
<1>2. \A e \in Spelled[parsed] : spec[e] = e[2] /\ Low[e] = LowerPath(Key \o e[1])
  OBVIOUS
<1>3. Flat!Parse(spec)
        = {flat \in [{Low[e] : e \in DOMAIN spec} -> {spec[e] : e \in DOMAIN spec}] :
             \A q \in {Low[e] : e \in DOMAIN spec} :
               \E e \in DOMAIN spec : Low[e] = q /\ flat[q] = spec[e]}
  BY DEF Flat!Parse
<1>4. ParseIsAChoice <=> result \subseteq Flat!Parse(spec)
  BY DEF ParseIsAChoice
<1> HIDE DEF spec, Low
<1>5. {Low[e] : e \in DOMAIN spec} = keys /\ {spec[e] : e \in DOMAIN spec} = found
  BY <1>1, <1>2
<1>6. Flat!Parse(spec) = Choices(parsed)
  <2> HIDE DEF keys, found
  <2>1. Flat!Parse(spec)
          = {flat \in [keys -> found] :
               \A q \in keys : \E e \in Spelled[parsed] : Low[e] = q /\ flat[q] = spec[e]}
    BY <1>1, <1>3, <1>5
  <2>2. Flat!Parse(spec)
          = {flat \in [keys -> found] :
               \A q \in keys :
                 \E e \in Spelled[parsed] : LowerPath(Key \o e[1]) = q /\ flat[q] = e[2]}
    BY <1>2, <2>1
  <2> QED
    BY <2>2 DEF Choices, keys, found
<1> QED
  BY <1>4, <1>6 DEF Chosen

\* The map of the outermost call.
LEMMA ResultParse ==
  ASSUME ParseInv, ReturnResult
  PROVE  ParseInv' /\ Chosen'
<1> DEFINE call  == calls[1]
           keys  == {LowerPath(Key \o e[1]) : e \in Spelled[parsed]}
           found == {e[2] : e \in Spelled[parsed]}
           map   == call.newjson
<1>1. /\ calls \in Seq(Frame) /\ Len(calls) = 1 /\ DOMAIN calls = {1}
      /\ call.todo = {} /\ call \in Frame /\ Sound(call) /\ Working(call)
      /\ call.key = Key /\ call.obj = parsed /\ parsed \in DOMAIN Contents
  BY DEF ParseInv, ReturnResult
<1>2. calls' = <<>> /\ result' = {map} /\ parsed' = parsed
  BY DEF ReturnResult
<1>3. ParseInv'
  BY <1>1, <1>2 DEF ParseInv
<1>4. \A e \in Spelled[parsed] : LowerPath(Key \o e[1]) \in DOMAIN map
  BY <1>1, FinishedHas
<1>5. \A q \in DOMAIN map : \E e \in Spelled[parsed] : q = LowerPath(Key \o e[1]) /\ map[q] = e[2]
  BY <1>1 DEF Sound
<1>6. map = [q \in DOMAIN map |-> map[q]]
  <2>1. map \in Maps
    BY <1>1 DEF Frame
  <2> HIDE DEF map
  <2> QED
    BY <2>1 DEF Maps
<1> HIDE DEF map
<1>7. DOMAIN map = keys
  BY <1>4, <1>5
<1>8. map \in [keys -> found]
  BY <1>5, <1>6, <1>7
<1>9. map \in Choices(parsed)
  BY <1>5, <1>7, <1>8 DEF Choices
<1>10. Chosen'
  BY <1>2, <1>9 DEF Chosen
<1> QED
  BY <1>3, <1>10

(***************************************************************************)
(* Whatever the object, the words of its keys and the order Go visits them *)
(* in, what Parse returns is one of the flat maps the validations are      *)
(* modelled with (utils.go:118).                                           *)
(***************************************************************************)
THEOREM ParseAlwaysChooses == Spec => []ParseIsAChoice
<1>1. Init => Chosen
  BY DEF Init, Chosen
<1>2. ParseInv /\ [Next]_vars => ParseInv'
  <2> SUFFICES ASSUME ParseInv, [Next]_vars PROVE ParseInv'
    OBVIOUS
  <2>1. CASE UNCHANGED vars
    BY <2>1 DEF vars, ParseInv
  <2> QED
    BY <2>1, VisitParse, ReturnParse, ResultParse DEF Next
<1>3. ParseInv /\ Chosen /\ [Next]_vars => Chosen'
  <2> SUFFICES ASSUME ParseInv, Chosen, [Next]_vars PROVE Chosen'
    OBVIOUS
  <2>1. CASE UNCHANGED <<parsed, result>>
    BY <2>1 DEF Chosen
  <2> QED
    BY <2>1, ResultParse DEF Next, Visit, Return, vars
<1> QED
  BY <1>1, <1>2, <1>3, InitParse, ChosenIsChoice, PTL DEF Spec
=============================================================================
