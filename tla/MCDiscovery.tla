---------------------------- MODULE MCDiscovery ----------------------------
(***************************************************************************)
(* Two single-scope calls, one nested under the first of them, and one     *)
(* nested under that.                                                      *)
(***************************************************************************)
EXTENDS Discovery

ThreeLevels == <<"networks", "devices", "stacks", "routes">>
AllCalls == {"networks", "devices", "stacks", "routes"}
LevelOf == [c \in AllCalls |-> CASE c = "stacks" -> 2 [] c = "routes" -> 3 [] OTHER -> 1]
Nested == [c \in AllCalls |-> CASE c = "stacks" -> "networks" [] c = "routes" -> "stacks"
                                 [] OTHER -> "no call"]

=============================================================================
