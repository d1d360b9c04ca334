----------------------------- MODULE MCFlatten ------------------------------
(***************************************************************************)
(* Nested objects for TLC: keys that differ by case next to each other and *)
(* in sibling objects, a dotted key that spells a nested path, an empty    *)
(* object, three levels.                                                   *)
(***************************************************************************)
EXTENDS Flatten, TLC

Num(n) == [json |-> "integer", val |-> n]
Obj(n) == [json |-> "object", val |-> n]

Empty  == << >>
Leaves ==
  (<<"uri">> :> Num(1)) @@ (<<"URI">> :> Num(2)) @@ (<<"token">> :> Null)
Sibling ==
  (<<"uri">> :> Num(3)) @@ (<<"from">> :> Obj(1))
Colliding ==
  (<<"from">> :> Obj(2)) @@ (<<"From">> :> Obj(3))
    @@ (<<"from", "uri">> :> Num(4)) @@ (<<"uri">> :> Num(5))
Deep ==
  (<<"from">> :> Obj(4)) @@ (<<"token">> :> Obj(3))

Objects == <<Empty, Leaves, Sibling, Colliding, Deep>>

Lowered ==
  [w \in {"spec", "uri", "URI", "token", "from", "From"} |->
     CASE w = "URI" -> "uri" [] w = "From" -> "from" [] OTHER -> w]

SpecKey == <<"spec">>
=============================================================================
