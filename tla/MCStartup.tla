----------------------------- MODULE MCStartup ------------------------------
(***************************************************************************)
(* Settings for TLC: six rules of which one is incomplete; a file with a   *)
(* name; one that cannot be read; one with a rule the API server refuses;  *)
(* mutation off and on, with a file and without.                           *)
(***************************************************************************)
EXTENDS Startup

CONSTANTS unreadable, unnamed, none

Rule(pair)    == [complete |-> TRUE, accepted |-> TRUE, pairs |-> {<<"CREATE", pair>>}]
Incomplete    == [complete |-> FALSE, accepted |-> TRUE, pairs |-> {<<"UPDATE", "a">>}]
RefusedRule   == [Rule("a") EXCEPT !.accepted = FALSE]
File(n, rules) == [name |-> n, rules |-> rules]

Six     == File(unnamed, <<Rule("a"), Rule("b"), Incomplete, Rule("c"), Rule("d"), Rule("e")>>)
Named   == File("custom", <<Rule("a")>>)
Refused == File(unnamed, <<RefusedRule>>)
Broken  == File(unnamed, <<Incomplete>>)

Setting(v, m, on) == [validating |-> v, mutating |-> m, mutation |-> on]

Settings == {Setting(Six, unreadable, FALSE), Setting(Named, Six, TRUE),
             Setting(Broken, Named, TRUE), Setting(Six, Refused, TRUE),
             Setting(unreadable, Named, TRUE)}

OneEdit == {<<Rule("f")>>}
=============================================================================
