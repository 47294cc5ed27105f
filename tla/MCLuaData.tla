----------------------------- MODULE MCLuaData -----------------------------
(* The table of the vendored Lua and the functions of its table library.   *)
(* One of the three is looked at in each behaviour; the others stay as     *)
(* they start.                                                             *)
EXTENDS LuaTable, LuaTableLibrary, TLC

CONSTANTS na, oa, fl, x1, x2, x3

VARIABLE part   \* what is looked at

vars == <<part, tableVars, sortVars, listVars>>

MCHash == (na :> 0) @@ (oa :> 3)
MCAs == fl :> 2

\* Lists of up to three different values.
Lists == {<<>>, <<x1>>, <<x1, x2>>, <<x1, x2, x3>>}

Init ==
    /\ part \in {"table", "sort", "list"}
    /\ TableInit
    /\ SortInit
    /\ ListInit
    /\ part # "sort" => original = [k \in 1 .. Length |-> CHOOSE x \in Elements : TRUE] /\ ordered
    /\ ~ordered => \A k \in 1 .. Length : original[k] = 1 + (k % 3)   \* the answers do not depend on it

\* A walk starts on a table none of whose nodes is dead; it may die during the walk.
Fresh == \A n \in DOMAIN table.node : table.node[n].value # Nil \/ table.node[n].key = Nil

TableStep ==
    /\ part = "table"
    /\ TableNext
    /\ walking' => walking \/ Fresh
    /\ UNCHANGED <<part, sortVars, listVars>>
SortStep == part = "sort" /\ SortNext /\ UNCHANGED <<part, tableVars, listVars>>
ListStep == /\ part = "list" /\ list = <<>> /\ first = 1 /\ last = 0
            /\ AskList(Lists) /\ UNCHANGED <<part, tableVars, sortVars>>

Next == TableStep \/ SortStep \/ ListStep

\* table.sort() runs to its end: nothing else runs in its thread.
Spec == Init /\ [][Next]_vars /\ WF_vars(SortStep)

\* An inconsistent order function cannot make table.sort() run on for ever (ltablib.c:357-408).
SortAlwaysEnds == part = "sort" => SortEnds
=============================================================================
