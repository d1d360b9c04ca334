------------------------------ MODULE Flatten -------------------------------
(***************************************************************************)
(* Parse, which turns a nested object into a flat map, one iteration of    *)
(* its loop at a time.                                                     *)
(*                                                                         *)
(* Go visits the keys of an object in any order, differently in every      *)
(* call.  Two keys may end up as one in lower case; a key that has a dot   *)
(* in it may end up as the path of a nested one.                           *)
(***************************************************************************)
EXTENDS Values, Sequences

CONSTANTS
  Contents,  \* object -> its keys with their JSON values; an object is a number
  LowerWord, \* strings.ToLower on the words keys are made of
  Key        \* the key Parse is first called with

(***************************************************************************)
(* A key is the sequence of the words between its dots, a path the same:   *)
(* to append "." and a key is to concatenate.                              *)
(***************************************************************************)
LowerPath(path) == [i \in DOMAIN path |-> LowerWord[path[i]]]

\* What json.Unmarshal builds is finite and has no cycles: objects are
\* numbered from the inside out.
ASSUME ContentsAssumption ==
  /\ Contents \in Seq({Contents[obj] : obj \in DOMAIN Contents})
  /\ \A obj \in DOMAIN Contents : \A key \in DOMAIN Contents[obj] :
       /\ key \in Seq(DOMAIN LowerWord)
       /\ Contents[obj][key].json = "object" => Contents[obj][key].val \in 1 .. obj - 1
  /\ Key \in Seq(DOMAIN LowerWord)

VARIABLES
  calls,  \* the calls of Parse that have not returned, the innermost first
  parsed, \* the object the outermost call is about
  result  \* what it has returned: none, or one flat map

vars == <<calls, parsed, result>>

\* A call: its key, the keys it has yet to visit, and newjson.
Called(key, obj) ==
  [key |-> key, obj |-> obj, todo |-> DOMAIN Contents[obj], newjson |-> << >>]

Init ==
  /\ parsed \in DOMAIN Contents
  /\ calls = <<Called(Key, parsed)>>
  /\ result = {}

Put(map, key, value) ==
  [k \in DOMAIN map \cup {key} |-> IF k = key THEN value ELSE map[k]]

Merge(map, map2) ==
  [k \in DOMAIN map \cup DOMAIN map2 |-> IF k \in DOMAIN map2 THEN map2[k] ELSE map[k]]

Visited(call, key, newkey) ==
  [call EXCEPT !.todo = @ \ {key},
               !.newjson = Put(@, LowerPath(newkey), Contents[call.obj][key])]

NewKeyRelative(call, key) == key
NewKey(call, key) == call.key \o key

\* One iteration: the value is stored, and parsed if it is an object.
Visit(key) ==
  LET call   == Head(calls)
      newkey == NewKey(call, key)
      value  == Contents[call.obj][key]
  IN  /\ key \in call.todo
      /\ calls' = (IF value.json = "object" THEN <<Called(newkey, value.val)>> ELSE <<>>)
                    \o <<Visited(call, key, newkey)>> \o Tail(calls)
      /\ UNCHANGED <<parsed, result>>

\* The map of an inner call is copied into that of its caller.
Return ==
  /\ Len(calls) > 1 /\ calls[1].todo = {}
  /\ calls' = <<[calls[2] EXCEPT !.newjson = Merge(@, calls[1].newjson)]>>
                \o SubSeq(calls, 3, Len(calls))
  /\ UNCHANGED <<parsed, result>>

ReturnResult ==
  /\ Len(calls) = 1 /\ calls[1].todo = {}
  /\ calls' = <<>>
  /\ result' = {calls[1].newjson}
  /\ UNCHANGED parsed

Next ==
  \/ calls # <<>> /\ \E key \in Head(calls).todo : Visit(key)
  \/ Return \/ ReturnResult

Spec == Init /\ [][Next]_vars

-----------------------------------------------------------------------------
\* What is spelled in an object: its paths with their values, those of the
\* objects in it below their keys.
Nested(obj) == {key \in DOMAIN Contents[obj] : Contents[obj][key].json = "object"}

Below(key, entries) == {<<key \o e[1], e[2]>> : e \in entries}

Spelled[obj \in DOMAIN Contents] ==
  {<<key, Contents[obj][key]>> : key \in DOMAIN Contents[obj]}
    \cup UNION {Below(key, Spelled[Contents[obj][key].val]) : key \in Nested(obj)}

Flat ==
  INSTANCE Rules
    WITH Lower <- [e \in Spelled[parsed] |-> LowerPath(Key \o e[1])],
         Resource <- {}, TypeOf <- << >>, NoSpec <- {}, Unreadable <- {},
         LabelsOn <- FALSE, ImmutablesOn <- FALSE, ExclusivesOn <- FALSE, Listing <- << >>

(***************************************************************************)
(* In whatever order the keys come, at every depth, what Parse returns is  *)
(* one of the maps module Rules lets a validation read: it has each        *)
(* spelled path in lower case, dotted keys included, and no other, with a  *)
(* value that is spelled there (utils.go:118).                             *)
(***************************************************************************)
ParseIsAChoice == result \subseteq Flat!Parse([e \in Spelled[parsed] |-> e[2]])
=============================================================================
