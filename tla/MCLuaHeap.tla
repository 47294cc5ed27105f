----------------------------- MODULE MCLuaHeap -----------------------------
(***************************************************************************)
(* The collector on small heaps: from every heap of three tables and a     *)
(* string with little or nothing happening meanwhile, and from small heaps *)
(* with more steps of the program in between.                              *)
(***************************************************************************)
EXTENDS LuaHeap, FiniteSetsExt, TLC

CONSTANTS T, U, S   \* two tables and a string

VARIABLE budget   \* the steps the program may still take

vars == <<heapVars, budget>>

Contents(t, u) == [x \in Tables |-> IF x = Registry THEN {<<Slot, T>>} ELSE IF x = T THEN t ELSE u]
Entry == {Slot, T, U, S} \X {T, U, S}
Small == {{}} \cup {{e} : e \in Entry}
Chain == {<<U, Closure>>, <<Closure, S>>, <<Closure, Coroutine>>, <<Closure, U>>, <<S, U>>, <<Slot, U>>, <<U, S>>, <<T, U>>}
Pairs == {p \in kSubset(2, Chain) : \A e, f \in p : e[1] = f[1] => e = f}

StartWith(objects, entries, modes, finalizable, held, steps) ==
    /\ heap = [mark |-> [o \in Objects |-> "white0"],
               entries |-> entries,
               touched |-> TRUE, twups |-> Coroutine \in objects,
               gray |-> {}, grayagain |-> {}, weak |-> {}, allweak |-> {}, ephemeron |-> {}]
    /\ allgc = SetToSeq((objects \cup {Registry}) \ finalizable)
    /\ finobj = SetToSeq(finalizable)
    /\ stack = held
    /\ uv = [open |-> Coroutine \in objects, value |-> Nil]
    /\ mode = [x \in Tables |-> IF x \in DOMAIN modes THEN modes[x] ELSE ""]
    /\ budget = steps
    /\ emergency = (steps = 0)
    /\ full = IF emergency THEN "cycle" ELSE "no"

\* A heap as an emergency finds it, and the cycles after it.
AnyHeap ==
    \E t \in Small \cup Pairs, u \in {{}, {<<Slot, T>>}, {<<S, T>>}, {<<T, S>>}},
       m \in {"", "k", "v", "kv"}, n \in {"", "k"},
       f \in {<<{}, {}>>, <<{U}, {}>>, <<{}, {U}>>} :   \* what has a finalizer, what is held
        StartWith({T, U, S, Closure, Coroutine}, Contents(t, u), (T :> m) @@ (U :> n), f[1], f[2], 0)

\* Two objects of which nothing is left but their finalizers.
TwoToFinalize ==
    StartWith({T, U}, [x \in Tables |-> {}], T :> "", {T, U}, {}, 0)

\* Little at first, and more steps of the program.
BusyProgram ==
    \/ \E t \in Small, m \in {"", "k", "v"} :
          StartWith({T, U, S}, Contents(t, {}), T :> m, {}, {}, 2)
    \/ StartWith({Coroutine, Closure}, [x \in Tables |-> {}], T :> "", {}, {Closure}, 3)
    \/ StartWith({T, Coroutine, Closure}, [x \in Tables |-> {}], T :> "", {}, {T, Closure}, 2)
    \/ StartWith({T, Coroutine, Closure}, [x \in Tables |-> {}], T :> "", {},
                 {T, Coroutine, Closure}, 2)
    \/ StartWith({}, [x \in Tables |-> {}], T :> "v", {}, {}, 4)

Pausing ==
    /\ currentwhite = "white0"
    /\ gcstate = "pause"
    /\ tobefnz = <<>>
    /\ sweepgc = "none"
    /\ gcfinnum = 0 /\ calling = 0

Init == (AnyHeap \/ BusyProgram) /\ Pausing
InitFinalizers == TwoToFinalize /\ Pausing

Spend == budget > 0 /\ budget' = budget - 1
Next ==
    \/ Collect /\ UNCHANGED budget
    \/ FinalizerFails /\ Spend
    \/ (\E urgent \in BOOLEAN : FullGC(urgent)) /\ Spend
    \/ Program /\ mode' = mode /\ Spend   \* a table is created with the mode it has here

Spec == Init /\ [][Next]_vars
FinalizersSpec == InitFinalizers /\ [][Next]_vars
=============================================================================
