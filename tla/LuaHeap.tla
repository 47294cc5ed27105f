------------------------------ MODULE LuaHeap ------------------------------
(***************************************************************************)
(* The garbage collector of the vendored Lua (core/contrib/lua/src/lgc.c), *)
(* with the program that runs between its steps.                           *)
(*                                                                         *)
(* The collector marks in steps, finishes in one atomic step, and sweeps   *)
(* three lists in steps.  The program loads, stores, creates, interns,     *)
(* closes upvalues and runs finalizers in between; the barriers are part of*)
(* the stores.  One main thread, one coroutine with one captured variable, *)
(* one closure over it; tables hold the rest.                              *)
(***************************************************************************)
EXTENDS Integers, Sequences, SequencesExt, FiniteSets

CONSTANTS
    Tables, Strings,   \* identities an object may be created with
    Main,              \* the main thread, in no list
    Coroutine,         \* a thread whose one stack slot is captured
    Closure,           \* the Lua function that captured it
    Registry,          \* the table every root is reached from
    Slot,              \* a key that is not collectable: an array index
    Nil,               \* the variable holds no object
    SweepMax,          \* GCSWEEPMAX, the elements one step sweeps
    MaxStack,          \* bound on what the program holds in its own stack
    MaxEntries,        \* bound on the entries of one table
    MaxFinalizers      \* bound on the objects that have a finalizer at a time

ASSUME HeapAssumption ==
    /\ Registry \in Tables
    /\ SweepMax \in Nat \ {0}
    /\ MaxStack \in Nat /\ MaxEntries \in Nat /\ MaxFinalizers \in Nat

Objects == Tables \cup Strings \cup {Main, Coroutine, Closure}
Whites == {"white0", "white1"}
Keys == Objects \cup {Slot}
Phases == {"propagate", "atomic", "swpallgc", "swpfinobj", "swptobefnz", "swpend", "callfin", "pause"}

VARIABLES
    heap,         \* what marking works on: the colours (mark) and the lists of the collector;
                  \* the entries of the tables, <<key, value>>; whether the open upvalue was
                  \* touched, and whether the coroutine is in the list of threads with open ones
    mode,         \* the __mode of each table: "", "k", "v" or "kv"
    stack,        \* what the main thread holds, the running function's registers
    uv,           \* the captured variable: whether it is open, and its value
    currentwhite, \* g->currentwhite
    gcstate,      \* g->gcstate
    allgc, finobj, tobefnz,   \* the three lists every object is in
    sweepgc,      \* "none", or the list head or object whose next field is swept next
    gcfinnum,     \* finalizers to call in the next batch
    calling,      \* while a finalizer runs: how many its batch may call, itself included
    full,         \* "no", or whether a full collection has still to "finish" the cycle
                  \* it found or is in its own "cycle"
    emergency     \* g->gckind: the full collection is for want of memory

heapVars == <<heap, mode, stack, uv, currentwhite, gcstate, allgc, finobj, tobefnz,
              sweepgc, gcfinnum, calling, full, emergency>>

Allocated == ToSet(allgc) \cup ToSet(finobj) \cup ToSet(tobefnz)
OtherWhite(w) == IF w = "white0" THEN "white1" ELSE "white0"
KeepInvariant == gcstate \in {"propagate", "atomic"}
SweepPhase == gcstate \in {"swpallgc", "swpfinobj", "swptobefnz", "swpend"}
IsWhite(h, o) == h.mark[o] \in Whites
IsDead(o) == heap.mark[o] = OtherWhite(currentwhite)

-----------------------------------------------------------------------------
(* Marking: every operator takes the heap and returns it. *)

\* Strings have nothing to visit and are black at once; the others wait in a gray list.
Mark(h, S) ==
    LET W == {o \in S \cap Objects : IsWhite(h, o)}
    IN  [h EXCEPT !.mark = [o \in Objects |->
                              IF o \notin W THEN @[o]
                              ELSE IF o \in Strings THEN "black" ELSE "gray"],
                  !.gray = @ \cup (W \ Strings)]

\* iscleared(): strings are values and never cleared, they are marked instead.
Cleared(h, o) == o \in Objects \ Strings /\ IsWhite(h, o)

KeysOf(E) == {e[1] : e \in E}
ValuesOf(E) == {e[2] : e \in E}

\* The keys count; a value that is not marked in the end will be taken out.
TraverseWeakValue(h, t, inAtomic) ==
    LET E == h.entries[t]
        m == Mark(h, KeysOf(E) \cup (ValuesOf(E) \cap Strings))
        clears == \E e \in E : e[1] = Slot \/ Cleared(m, e[2])
    IN  IF ~inAtomic THEN [m EXCEPT !.grayagain = @ \cup {t}]
        ELSE IF clears THEN [m EXCEPT !.weak = @ \cup {t}]
        ELSE m

\* Seeded error: an entry of two white objects does not keep the table waiting.
TraverseEphemeronForgets(h, t, inAtomic) ==
    LET E == h.entries[t]
        m == Mark(h, KeysOf(E) \cap Strings)
        live == {e \in E : ~Cleared(m, e[1])}
        n == Mark(m, ValuesOf(live))
    IN  IF ~inAtomic THEN [n EXCEPT !.grayagain = @ \cup {t}]
        ELSE IF live # E THEN [n EXCEPT !.allweak = @ \cup {t}]
        ELSE n

\* A value counts only while its key is marked.
TraverseEphemeron(h, t, inAtomic) ==
    LET E == h.entries[t]
        m == Mark(h, KeysOf(E) \cap Strings)
        live == {e \in E : ~Cleared(m, e[1])}
        n == Mark(m, ValuesOf(live))
        whitewhite == \E e \in E \ live : IsWhite(n, e[2])
    IN  IF ~inAtomic THEN [n EXCEPT !.grayagain = @ \cup {t}]
        ELSE IF whitewhite THEN [n EXCEPT !.ephemeron = @ \cup {t}]
        ELSE IF live # E THEN [n EXCEPT !.allweak = @ \cup {t}]
        ELSE n

TraverseTable(h, t, inAtomic) ==
    LET again == [h EXCEPT !.mark[t] = "gray"]
    IN  CASE mode[t] = "v" -> TraverseWeakValue(again, t, inAtomic)
          [] mode[t] = "k" -> TraverseEphemeron(again, t, inAtomic)
          [] mode[t] = "kv" -> [again EXCEPT !.allweak = @ \cup {t}]
          [] OTHER -> Mark(h, KeysOf(h.entries[t]) \cup ValuesOf(h.entries[t]))

\* An open upvalue is marked with the stack it points into, except in the atomic step.
TraverseClosure(h, inAtomic) ==
    IF uv.open /\ ~inAtomic THEN [h EXCEPT !.touched = TRUE] ELSE Mark(h, {uv.value})

\* The stack of the coroutine is the captured variable; once closed it holds nothing.
TraverseThread(h, th, inAtomic) ==
    IF th = Main THEN Mark(h, stack)
    ELSE LET m == Mark(h, IF uv.open THEN {uv.value} ELSE {})
         IN  IF inAtomic /\ uv.open THEN [m EXCEPT !.twups = TRUE] ELSE m

\* Visits one gray object.  Threads are never black.
PropagateMark(h, o, inAtomic) ==
    LET taken == [h EXCEPT !.gray = @ \ {o}, !.mark[o] = "black"]
    IN  IF o \in Tables THEN TraverseTable(taken, o, inAtomic)
        ELSE IF o = Closure THEN TraverseClosure(taken, inAtomic)
        ELSE TraverseThread([taken EXCEPT !.grayagain = @ \cup {o}, !.mark[o] = "gray"],
                            o, inAtomic)

RECURSIVE PropagateAll(_)
PropagateAll(h) ==
    IF h.gray = {} THEN h
    ELSE PropagateAll(PropagateMark(h, CHOOSE o \in h.gray : TRUE, TRUE))

\* Visits the ephemeron tables until a pass marks nothing.
EphemeronPass(h) ==
    PropagateAll(FoldSet(LAMBDA t, g : TraverseEphemeron(g, t, TRUE),
                         [h EXCEPT !.ephemeron = {}], h.ephemeron))
RECURSIVE ConvergeAfter(_, _)
ConvergeAfter(h, pass) ==
    IF pass.mark = h.mark THEN pass ELSE ConvergeAfter(pass, EphemeronPass(pass))
ConvergeEphemerons(h) == ConvergeAfter(h, EphemeronPass(h))

\* A captured variable of a thread that is not marked may have been assigned meanwhile.
RemarkUpvals(h) ==
    IF ~h.twups \/ (h.mark[Coroutine] = "gray" /\ uv.open) THEN h
    ELSE LET m == IF uv.open /\ h.touched THEN Mark(h, {uv.value}) ELSE h
         IN  [m EXCEPT !.twups = FALSE, !.touched = IF uv.open THEN FALSE ELSE @]

\* The entries of the tables T whose key or value was not marked are taken out.
ClearKeys(h, T) ==
    LET m == Mark(h, UNION {KeysOf(h.entries[t]) \cap Strings : t \in T})
    IN  [m EXCEPT !.entries = [t \in Tables |->
            IF t \in T THEN {e \in @[t] : ~Cleared(m, e[1])} ELSE @[t]]]
ClearValues(h, T) ==
    LET m == Mark(h, UNION {ValuesOf(h.entries[t]) \cap Strings : t \in T})
    IN  [m EXCEPT !.entries = [t \in Tables |->
            IF t \in T THEN {e \in @[t] : ~Cleared(m, e[2])} ELSE @[t]]]

MarkRoots(h) == Mark(h, {Main, Registry})

\* atomic(), in its order, each part given the heap the one before left: the rest of the marking;
\* what was to be visited again; the weak values, cleared for the first time; the objects to be
\* finalized, which live on for that; the keys and values that only now are known to be dead.
Remark(h) == PropagateAll(RemarkUpvals(MarkRoots(h)))
VisitAgain(h, again) ==
    ConvergeEphemerons(PropagateAll([h EXCEPT !.gray = again, !.grayagain = @ \ again]))
ClearWeak(h) == ClearValues(h, h.weak \cup h.allweak)
MarkBeingFnz(h, separated) ==
    ConvergeEphemerons(PropagateAll(Mark(h, ToSet(tobefnz) \cup ToSet(separated))))
ClearAgain(h, marked) ==
    ClearValues(h, (h.weak \ marked.weak) \cup (h.allweak \ marked.allweak))
Finish(marked, h, separated) ==
    [heap |-> ClearAgain(ClearKeys(h, h.ephemeron \cup h.allweak), marked),
     separated |-> separated]
Separate(marked, h, separated) == Finish(marked, MarkBeingFnz(h, separated), separated)
SeparateWhite(marked, h) == Separate(marked, h, SelectSeq(finobj, LAMBDA o : IsWhite(h, o)))
ClearAndSeparate(marked) == SeparateWhite(marked, ClearWeak(marked))
Atomic(h) == ClearAndSeparate(VisitAgain(Remark(h), h.grayagain))

-----------------------------------------------------------------------------
(* Sweeping. *)

\* Sweeps the first n elements of a list: what is left of them, and what was freed.
Swept(list, n, h, white) ==
    LET first == SubSeq(list, 1, IF n < Len(list) THEN n ELSE Len(list))
        rest == SubSeq(list, Len(first) + 1, Len(list))
        kept == SelectSeq(first, LAMBDA o : h.mark[o] # OtherWhite(white))
    IN  [kept |-> kept, rest |-> rest,
         freed |-> ToSet(first) \ ToSet(kept),
         mark |-> [o \in Objects |-> IF o \in ToSet(kept) THEN white ELSE h.mark[o]]]

ListOf(p) ==
    IF p \in {"allgc", "finobj", "tobefnz"} THEN p
    ELSE IF p \in ToSet(allgc) THEN "allgc"
    ELSE IF p \in ToSet(finobj) THEN "finobj" ELSE "tobefnz"
TheList(name) ==
    CASE name = "allgc" -> allgc [] name = "finobj" -> finobj [] OTHER -> tobefnz

\* The list split at the pointer p: what stays before it and what is still to be swept.
Before(p) == IF p = ListOf(p) THEN 0 ELSE CHOOSE i \in DOMAIN TheList(ListOf(p)) : TheList(ListOf(p))[i] = p

\* Freeing the coroutine closes the variable it captured.
AfterFree(freed) ==
    IF Coroutine \in freed /\ uv.open THEN [uv EXCEPT !.open = FALSE] ELSE uv

\* sweeplist() at pointer p, for n elements of a heap h whose current white is w.
SweepAt(p, n, h, w) ==
    LET name == ListOf(p)
        done == SubSeq(TheList(name), 1, Before(p))
        sw == Swept(SubSeq(TheList(name), Before(p) + 1, Len(TheList(name))), n, h, w)
    IN  [list |-> done \o sw.kept \o sw.rest, name |-> name, freed |-> sw.freed,
         heap |-> [h EXCEPT !.mark = sw.mark,
                            !.entries = [t \in Tables |-> IF t \in sw.freed THEN {} ELSE @[t]]],
         next |-> IF sw.rest = <<>> THEN "none"
                  ELSE IF sw.kept = <<>> THEN p ELSE Last(sw.kept)]

\* What sweeping changes.
Sweeping(s) ==
    /\ heap' = s.heap
    /\ uv' = AfterFree(s.freed)
    /\ allgc' = IF s.name = "allgc" THEN s.list ELSE allgc
    /\ sweepgc' = s.next

\* entersweep(), with the heap as the atomic step left it.
EnterSweep(h, w) ==
    /\ gcstate' = "swpallgc"
    /\ Sweeping(SweepAt("allgc", 1, h, w))

-----------------------------------------------------------------------------
(* The steps of the collector.  None runs while a finalizer does, except for an        *)
(* emergency, and a full collection takes them all without the program in between.     *)
CollectorMayStep == emergency \/ calling = 0

\* What pausing means to a full collection: it starts its own cycle, or it is over.
Paused ==
    /\ full' = IF full = "finish" THEN "cycle" ELSE "no"
    /\ emergency' = (emergency /\ full = "finish")

RestartCollection ==
    /\ gcstate = "pause" /\ CollectorMayStep
    /\ heap' = Mark([heap EXCEPT !.gray = {}, !.grayagain = {}, !.weak = {},
                                 !.allweak = {}, !.ephemeron = {}],
                    {Main, Registry} \cup ToSet(tobefnz))
    /\ gcstate' = "propagate"
    /\ UNCHANGED <<mode, stack, uv, currentwhite, allgc, finobj, tobefnz, sweepgc,
                   gcfinnum, calling, full, emergency>>

Propagate ==
    /\ gcstate = "propagate" /\ CollectorMayStep
    /\ \E o \in heap.gray :
          /\ heap' = PropagateMark(heap, o, FALSE)
          /\ gcstate' = IF heap'.gray = {} THEN "atomic" ELSE "propagate"
    /\ UNCHANGED <<mode, stack, uv, currentwhite, allgc, finobj, tobefnz, sweepgc,
                   gcfinnum, calling, full, emergency>>

\* What the atomic step leaves: the separated objects wait to be finalized, the sweep begins.
AfterAtomic(a) ==
    /\ finobj' = SelectSeq(finobj, LAMBDA o : o \notin ToSet(a.separated))
    /\ tobefnz' = tobefnz \o a.separated
    /\ EnterSweep(a.heap, OtherWhite(currentwhite))
AtomicStep ==
    /\ gcstate = "atomic" /\ CollectorMayStep
    /\ AfterAtomic(Atomic(heap))
    /\ currentwhite' = OtherWhite(currentwhite)
    /\ gcfinnum' = 1
    /\ UNCHANGED <<mode, stack, calling, full, emergency>>

NextSweep(phase) ==
    CASE phase = "swpallgc" -> [state |-> "swpfinobj", from |-> "finobj"]
      [] phase = "swpfinobj" -> [state |-> "swptobefnz", from |-> "tobefnz"]
      [] OTHER -> [state |-> "swpend", from |-> "none"]

\* What sweeping a few changes; goes to the next list when nothing is left of this one.
AfterSweep(sw) ==
    /\ heap' = sw.heap
    /\ uv' = AfterFree(sw.freed)
    /\ allgc' = IF sw.name = "allgc" THEN sw.list ELSE allgc
    /\ finobj' = IF sw.name = "finobj" THEN sw.list ELSE finobj
    /\ tobefnz' = IF sw.name = "tobefnz" THEN sw.list ELSE tobefnz
    /\ gcstate' = IF sw.next = "none" THEN NextSweep(gcstate).state ELSE gcstate
    /\ sweepgc' = IF sw.next = "none" THEN NextSweep(gcstate).from ELSE sw.next

SweepStep ==
    /\ gcstate \in {"swpallgc", "swpfinobj", "swptobefnz"} /\ CollectorMayStep
    /\ IF sweepgc = "none"
       THEN /\ gcstate' = NextSweep(gcstate).state
            /\ sweepgc' = NextSweep(gcstate).from
            /\ UNCHANGED <<heap, uv, allgc, finobj, tobefnz>>
       ELSE AfterSweep(SweepAt(sweepgc, SweepMax, heap, currentwhite))
    /\ UNCHANGED <<mode, stack, currentwhite, gcfinnum, calling, full, emergency>>

SweepEnd ==
    /\ gcstate = "swpend" /\ CollectorMayStep
    /\ heap' = [heap EXCEPT !.mark[Main] = currentwhite]
    /\ gcstate' = "callfin"
    /\ UNCHANGED <<mode, stack, uv, currentwhite, allgc, finobj, tobefnz, sweepgc,
                   gcfinnum, calling, full, emergency>>

\* The end of a cycle; a full collection pauses like any other.
CycleEnd ==
    /\ gcstate = "callfin" /\ CollectorMayStep
    /\ tobefnz = <<>> \/ emergency
    /\ gcstate' = "pause"
    /\ Paused
    /\ UNCHANGED <<heap, mode, stack, uv, currentwhite, allgc, finobj, tobefnz, sweepgc,
                   gcfinnum, calling>>

\* luaC_fullgc(): a cycle that is marking is given up, and everything swept back to white.
FullGC(urgent) ==
    /\ full = "no"
    /\ urgent \/ calling = 0
    /\ full' = IF gcstate = "pause" THEN "cycle" ELSE "finish"
    /\ emergency' = urgent
    /\ IF KeepInvariant THEN EnterSweep(heap, currentwhite)
       ELSE UNCHANGED <<heap, uv, allgc, gcstate, sweepgc>>
    /\ UNCHANGED <<mode, stack, currentwhite, finobj, tobefnz, gcfinnum, calling>>

-----------------------------------------------------------------------------
(* Finalizers. *)

\* GCTM(): the object is an ordinary one again, and the argument of its finalizer.
CallFinalizer ==
    LET o == Head(tobefnz)
    IN  /\ tobefnz' = Tail(tobefnz)
        /\ allgc' = <<o>> \o allgc
        /\ heap' = IF SweepPhase THEN [heap EXCEPT !.mark[o] = currentwhite] ELSE heap
        /\ stack' = stack \cup {o}
        /\ Cardinality(stack') <= MaxStack
        /\ UNCHANGED <<mode, uv, currentwhite, gcstate, finobj, sweepgc, gcfinnum,
                       full, emergency>>

\* A batch begins when a cycle calls its finalizers, and after any step of an automatic
\* collection.
FirstFinalizer ==
    /\ calling = 0 /\ tobefnz # <<>> /\ gcfinnum > 0 /\ ~emergency
    /\ gcstate = "callfin" \/ (gcstate # "pause" /\ full = "no")
    /\ CallFinalizer
    /\ calling' = gcfinnum

NextFinalizer ==
    /\ calling > 1 /\ tobefnz # <<>> /\ ~emergency
    /\ CallFinalizer
    /\ calling' = calling - 1

\* The last one of the batch returns: twice as many the next time.
BatchEnd ==
    /\ calling > 0 /\ ~emergency
    /\ calling = 1 \/ tobefnz = <<>>
    /\ calling' = 0
    /\ gcfinnum' = IF tobefnz = <<>> THEN 0
                   ELSE IF gcfinnum * 2 > MaxFinalizers THEN MaxFinalizers ELSE gcfinnum * 2
    /\ UNCHANGED <<heap, mode, stack, uv, currentwhite, gcstate, allgc, finobj, tobefnz,
                   sweepgc, full, emergency>>

\* A finalizer raises an error: the rest of the batch waits for the next one, and so does
\* what a full collection had still to do.
FinalizerFails ==
    /\ calling > 0 /\ ~emergency
    /\ calling' = 0
    /\ full' = "no"
    /\ UNCHANGED <<heap, mode, stack, uv, currentwhite, gcstate, allgc, finobj, tobefnz,
                   sweepgc, gcfinnum, emergency>>

-----------------------------------------------------------------------------
(* The program: it runs between the steps of the collector and inside finalizers. *)
Running == ~emergency /\ (full = "no" \/ calling > 0)
Held == stack \cup {Registry}
Fits(S) == Cardinality(S) <= MaxStack

\* luaC_barrierback(): a black table that gets a white object is visited again.
BarrierBack(h, t, S) ==
    IF h.mark[t] = "black" /\ \E o \in S \cap Objects : IsWhite(h, o)
    THEN [h EXCEPT !.mark[t] = "gray", !.grayagain = @ \cup {t}]
    ELSE h

Put(t, k, v) ==
    LET E == {e \in heap.entries[t] : e[1] # k} \cup {<<k, v>>}
    IN  /\ Cardinality(E) <= MaxEntries
        /\ heap' = BarrierBack([heap EXCEPT !.entries[t] = E], t, {k, v})
        /\ UNCHANGED <<mode, stack, uv, currentwhite, gcstate, allgc, finobj, tobefnz,
                       sweepgc, gcfinnum, calling, full, emergency>>

Erase(t, e) ==
    /\ heap' = [heap EXCEPT !.entries[t] = @ \ {e}]
    /\ UNCHANGED <<mode, stack, uv, currentwhite, gcstate, allgc, finobj, tobefnz,
                   sweepgc, gcfinnum, calling, full, emergency>>

\* The registers of the running function change; the stack needs no barrier.
Registers(S) ==
    /\ Fits(S)
    /\ S # stack
    /\ stack' = S
    /\ UNCHANGED <<heap, mode, uv, currentwhite, gcstate, allgc, finobj, tobefnz,
                   sweepgc, gcfinnum, calling, full, emergency>>

\* luaC_newobj(): the current white, at the front of the list.
Create(o, m) ==
    /\ o \notin Allocated
    /\ Fits(stack \cup {o})
    /\ stack' = stack \cup {o}
    /\ allgc' = <<o>> \o allgc
    /\ heap' = [heap EXCEPT !.mark[o] = currentwhite]
    /\ mode' = IF o \in Tables THEN [mode EXCEPT ![o] = m] ELSE mode
    /\ UNCHANGED <<uv, currentwhite, gcstate, finobj, tobefnz, sweepgc, gcfinnum,
                   calling, full, emergency>>

\* Seeded error: a dead string that is found is used as it is.
InternDead(s) ==
    /\ s \in Allocated
    /\ Fits(stack \cup {s})
    /\ s \notin stack
    /\ stack' = stack \cup {s}
    /\ UNCHANGED <<heap, mode, uv, currentwhite, gcstate, allgc, finobj, tobefnz, sweepgc,
                   gcfinnum, calling, full, emergency>>

\* internshrstr() finds the string, dead or alive: a dead one is made alive.
Intern(s) ==
    /\ s \in Allocated
    /\ Fits(stack \cup {s})
    /\ s \notin stack
    /\ stack' = stack \cup {s}
    /\ heap' = IF IsDead(s) THEN [heap EXCEPT !.mark[s] = currentwhite] ELSE heap
    /\ UNCHANGED <<mode, uv, currentwhite, gcstate, allgc, finobj, tobefnz, sweepgc,
                   gcfinnum, calling, full, emergency>>

\* Marks what is stored in a closed variable while the invariant is kept.
UpvalBarrier(h, v) == IF KeepInvariant THEN Mark(h, {v}) ELSE h

\* The closure assigns its variable.
SetUpvalue(v) ==
    /\ uv' = [uv EXCEPT !.value = v]
    /\ heap' = IF uv.open THEN heap ELSE UpvalBarrier(heap, v)
    /\ UNCHANGED <<mode, stack, currentwhite, gcstate, allgc, finobj, tobefnz, sweepgc,
                   gcfinnum, calling, full, emergency>>

\* luaF_close(): the coroutine leaves the block of the variable.
CloseUpvalue ==
    /\ uv.open
    /\ uv' = [uv EXCEPT !.open = FALSE]
    /\ heap' = IF Closure \in Allocated THEN UpvalBarrier(heap, uv.value) ELSE heap
    /\ UNCHANGED <<mode, stack, currentwhite, gcstate, allgc, finobj, tobefnz, sweepgc,
                   gcfinnum, calling, full, emergency>>

\* luaC_checkfinalizer(): the object moves to the list of those with a finalizer.  When
\* the sweep stands at the object, it first goes on to the next one that lives.
CheckFinalizer(o) ==
    /\ o \in ToSet(allgc)
    /\ Len(finobj) + Len(tobefnz) < MaxFinalizers
    /\ LET white == IF SweepPhase THEN [heap EXCEPT !.mark[o] = currentwhite] ELSE heap
           rest == SubSeq(allgc, Before(o) + 1, Len(allgc))
           live == {i \in DOMAIN rest : ~IsDead(rest[i])}
           n == IF live = {} THEN Len(rest) ELSE CHOOSE i \in live : \A j \in live : i <= j
           sw == SweepAt(o, n, white, currentwhite)
       IN  IF SweepPhase /\ sweepgc = o
           THEN /\ heap' = sw.heap
                /\ uv' = AfterFree(sw.freed)
                /\ sweepgc' = sw.next
                /\ allgc' = SelectSeq(sw.list, LAMBDA x : x # o)
           ELSE /\ heap' = white
                /\ allgc' = SelectSeq(allgc, LAMBDA x : x # o)
                /\ UNCHANGED <<uv, sweepgc>>
    /\ finobj' = <<o>> \o finobj
    /\ UNCHANGED <<mode, stack, currentwhite, gcstate, tobefnz, gcfinnum, calling, full,
                   emergency>>

-----------------------------------------------------------------------------
Collect ==
    \/ RestartCollection \/ Propagate \/ AtomicStep \/ SweepStep \/ SweepEnd \/ CycleEnd
    \/ FirstFinalizer \/ NextFinalizer \/ BatchEnd

Program ==
    /\ Running
    /\ \/ \E t \in Held \cap Tables :
            \/ \E k \in stack \cup {Slot}, v \in stack : Put(t, k, v)
            \/ \E e \in heap.entries[t] :
                  Erase(t, e) \/ Registers(stack \cup ({e[1], e[2]} \ {Slot}))
       \/ \E o \in stack : Registers(stack \ {o})
       \/ \E o \in Tables, m \in {"", "k", "v", "kv"} : Create(o, m)
       \/ \E s \in Strings : Create(s, "") \/ Intern(s)
       \/ Closure \in Held /\
            (\/ \E v \in stack \cup {Nil} : SetUpvalue(v)
             \/ uv.value # Nil /\ Registers(stack \cup {uv.value}))
       \/ Coroutine \in Held /\ CloseUpvalue
       \/ \E o \in stack \cap Tables : CheckFinalizer(o)

-----------------------------------------------------------------------------
(* What the collector promises. *)

\* The objects an object refers to.
Edges(o) ==
    (IF o \in Tables THEN KeysOf(heap.entries[o]) \cup ValuesOf(heap.entries[o])
     ELSE IF o = Closure \/ (o = Coroutine /\ uv.open) THEN {uv.value}
     ELSE {}) \ {Slot, Nil}

\* The references that keep an object alive, given those known to be alive.
StrongEdges(o, alive) ==
    IF o \notin Tables \/ mode[o] = "" THEN Edges(o)
    ELSE LET E == heap.entries[o]
         IN  (Edges(o) \cap Strings)
             \cup (IF mode[o] = "v" THEN KeysOf(E) \ {Slot} ELSE {})
             \cup (IF mode[o] = "k"
                   THEN ValuesOf({e \in E : e[1] \in alive \cup {Slot} \cup Strings})
                   ELSE {})

RECURSIVE Reach(_), StrongReach(_)
Reach(S) ==
    LET wider == S \cup UNION {Edges(o) : o \in S} IN IF wider = S THEN S ELSE Reach(wider)
StrongReach(S) ==
    LET wider == S \cup UNION {StrongEdges(o, S) : o \in S}
    IN  IF wider = S THEN S ELSE StrongReach(wider)

Roots == stack \cup {Registry} \cup ToSet(tobefnz)

\* Marks, phases and lists are what they may be: every object is in one of the lists of objects at
\* most once, and the sweep stands at one that exists.
HeapTypeOK ==
    /\ heap.mark \in [Objects -> Whites \cup {"gray", "black"}]
    /\ \A t \in Tables : heap.entries[t] \subseteq Keys \X Objects
    /\ heap.touched \in BOOLEAN /\ heap.twups \in BOOLEAN
    /\ heap.gray \cup heap.grayagain \subseteq Objects
    /\ heap.weak \cup heap.allweak \cup heap.ephemeron \subseteq Tables
    /\ gcstate \in Phases
    /\ stack \subseteq Objects
    /\ uv.value \in Objects \cup {Nil}
    /\ IsInjective(allgc \o finobj \o tobefnz)
    /\ sweepgc \in Allocated \cup {"none", "allgc", "finobj", "tobefnz"}

\* Nothing the program or a finalizer can get to was freed: through strong and weak
\* references alike, interned strings, captured variables and objects to be finalized,
\* whatever step of the collector the program's own steps fell between (lgc.c).
NoDangling == Reach(Roots) \subseteq Allocated

\* While marking, a black object refers to no white one, except a closure to a variable
\* that is still open, and every gray object is in a list to be visited (lgc.h:24-29).
Tricolour ==
    KeepInvariant =>
        /\ \A o \in Allocated :
              (heap.mark[o] = "black" /\ ~(o = Closure /\ uv.open))
                  => \A p \in Edges(o) : ~IsWhite(heap, p)
        /\ \A o \in Allocated \cup {Main} :
              heap.mark[o] = "gray"
                  => o \in heap.gray \cup heap.grayagain \cup heap.weak \cup heap.allweak
                            \cup heap.ephemeron

\* When the sweep ends all objects are white again (lgc.h:52-58).
AllWhiteAfterSweep ==
    gcstate \in {"callfin", "pause"} =>
        \A o \in Allocated \cup {Main} : heap.mark[o] = currentwhite

\* A finalizer is called only for an object nothing alive refers to (lgc.c:891-908).
FinalizesOnlyGarbage ==
    [][(ToSet(tobefnz') \ ToSet(tobefnz)) \cap StrongReach(Roots) = {}]_heapVars

\* A weak table loses an entry only when its key or its value is not alive any more
\* (lgc.c:618-660).
KeepsLiveEntries ==
    [][gcstate = "atomic" /\ gcstate' # "atomic" =>
          \A t \in Tables \cap Allocated' : \A e \in heap.entries[t] \ heap'.entries[t] :
              ~({e[1], e[2]} \ {Slot} \subseteq StrongReach(Roots))]_heapVars

\* A full collection for want of memory keeps only what was alive when it started, waits
\* for its finalizer, or is the value of a variable a dead thread may have shared: cycles,
\* weak tables and given-up cycles included (lgc.c:1153-1173).
EmergencyKeepsNoGarbage ==
    [][emergency /\ full = "cycle" /\ gcstate = "atomic" =>
          {o \in Allocated' : heap'.mark[o] # currentwhite}
              \subseteq StrongReach(Roots \cup ToSet(finobj)
                                   \cup (IF uv.open /\ heap.touched THEN {uv.value} \ {Nil}
                                         ELSE {}))]_heapVars

\* Between any two steps of collector and program the heap can be collected safely: everything in reach is
\* there, no black object refers to a white one, and a cycle ends as the next one expects
\* (lgc.h; lgc.c).
HeapSound ==
    /\ HeapTypeOK
    /\ NoDangling
    /\ Tricolour
    /\ AllWhiteAfterSweep

\* A collection takes away garbage only and, when memory has run out, all of it: finalizers are called
\* for objects nobody reaches, weak tables lose entries whose objects died (lgc.c).
CollectionsExact == FinalizesOnlyGarbage /\ KeepsLiveEntries /\ EmergencyKeepsNoGarbage
=============================================================================
