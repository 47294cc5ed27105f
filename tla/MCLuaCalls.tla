----------------------------- MODULE MCLuaCalls ----------------------------
(***************************************************************************)
(* LuaCalls, small.  In one half of the states the functions of the main   *)
(* thread are nested deeply, in the other half those of a coroutine.       *)
(***************************************************************************)
EXTENDS LuaCalls

CONSTANTS coroutine

Does(depth, calls, metamethods, bodies) ==
    [depth |-> depth, calls |-> calls, metamethods |-> metamethods, bodies |-> bodies]
MCBounds ==
    {Main :> Does(4, Kinds \ {"dofile"}, {"lua", "yield"}, {"lua"}) @@ coroutine :> Does(1, {}, {}, {"lua", "pcall", "wrap", "yield"}),
     Main :> Does(2, {"resume", "wrap"}, {}, {"lua"}) @@ coroutine :> Does(4, Kinds \ {"resume", "wrap"}, {"lua", "yield"}, {"lua", "xpcall"})}
=============================================================================
