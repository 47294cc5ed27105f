------------------------------- MODULE LuaMap -------------------------------
(***************************************************************************)
(* What a table is to a program: a value, or none, for every key, and an   *)
(* assignment changes the value of one key.                                *)
(***************************************************************************)
CONSTANTS Keys, Values, Nil

VARIABLE map

Init == map = [k \in Keys |-> Nil]

Assign(k) ==
    /\ map'[k] \in Values \cup {Nil}
    /\ \A other \in Keys \ {k} : map'[other] = map[other]

Next == \E k \in Keys : Assign(k)

Spec == Init /\ [][Next]_map
=============================================================================
