------------------------------- MODULE Values -------------------------------
(***************************************************************************)
(* The values a resource's spec holds, as the webhook sees them.           *)
(*                                                                         *)
(* The API server stores and sends JSON.  The webhook decodes the same     *)
(* JSON in two ways: the object under review with encoding/json, the       *)
(* object that is already in the cluster through the unstructured client.  *)
(* The two decoders disagree on integers, and the comparison of the two    *)
(* Go values is therefore not the comparison of the two JSON values.       *)
(*                                                                         *)
(* A JSON value is [json |-> kind, val |-> payload].  The payload of an    *)
(* integer is the integer, that of a string or a bool is its text, that of *)
(* an object or an array stands for its contents, 0 when it has none.      *)
(* A text is a pair: <<"decimal", 7>> is the text 7, <<"exponent", n>> the *)
(* text of n in scientific notation, <<"text", t>> any other text.         *)
(***************************************************************************)
EXTENDS Integers

JsonKind == {"null", "bool", "string", "integer", "array", "object"}

Null == [json |-> "null", val |-> 0]

(***************************************************************************)
(* The dynamic type of a decoded value: json.Unmarshal into an interface{} *)
(* makes every number a float64; the unstructured client tries int64 first.*)
(***************************************************************************)
RequestType == [null |-> "nil", bool |-> "bool", string |-> "string",
                integer |-> "float64", array |-> "slice", object |-> "map"]

ClusterType == [RequestType EXCEPT !.integer = "int64"]

DecodeRequest(j) == [type |-> RequestType[j.json], val |-> j.val]
DecodeCluster(j) == [type |-> ClusterType[j.json], val |-> j.val]

(***************************************************************************)
(* Go's == on two interface{} values: false when the dynamic types differ, *)
(* a run-time panic when they are the same type and that type is a map or  *)
(* a slice, the comparison of the values otherwise.                        *)
(***************************************************************************)
ComparePanics(a, b) == a.type = b.type /\ a.type \in {"map", "slice"}
GoEqual(a, b)       == a.type = b.type /\ a.val = b.val

(***************************************************************************)
(* fmt.Sprintf("%v", v).  A float64 prints like %g in its shortest form,   *)
(* which is scientific notation from 10^6 on; an int64 never does.         *)
(***************************************************************************)
ExponentFrom == 1000000

Sprint(v) ==
  CASE v.type = "nil"                -> <<"text", "<nil>">>
    [] v.type \in {"bool", "string"} -> v.val
    [] v.type = "int64"              -> <<"decimal", v.val>>
    [] v.type = "float64"            ->
         IF v.val >= ExponentFrom \/ v.val <= -ExponentFrom
         THEN <<"exponent", v.val>> ELSE <<"decimal", v.val>>
    [] OTHER                         -> <<v.type, v.val>>

(***************************************************************************)
(* What a user means by a value: its text, whichever notation a number is  *)
(* printed in.  Properties speak of meanings, the code of Sprint.          *)
(***************************************************************************)
SameNumber(t) == IF t[1] = "exponent" THEN <<"decimal", t[2]>> ELSE t
Meaning(j)    == SameNumber(Sprint(DecodeCluster(j)))
=============================================================================
