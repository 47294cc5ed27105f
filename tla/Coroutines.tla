----------------------------- MODULE Coroutines ----------------------------
(***************************************************************************)
(* What calls, protected calls and coroutines promise, without a C stack:  *)
(* every coroutine is a stack of frames of its own.  An error ends the     *)
(* frames down to the nearest protected call of its coroutine, after the   *)
(* handler of that call has run, and ends the coroutine if there is none.  *)
(* A yield gives control back to the frame that resumed the coroutine; it  *)
(* is refused in the main coroutine, inside of a handler and below a       *)
(* function that cannot be continued ("plain").  A call may always fail    *)
(* for want of room.                                                       *)
(***************************************************************************)
EXTENDS Naturals, Sequences, SequencesExt

CONSTANTS Threads, Main

VARIABLES frames,    \* the frames of a coroutine, the innermost one last
          active,    \* the coroutines that resumed each other, the running one last
          life       \* new, alive or dead
vars == <<frames, active, life>>

Kinds == {"lua", "plain", "pcall", "xpcall", "dofile", "resume", "wrap", "yield"}
Callers == {"lua", "handler", "plain", "pcall", "xpcall", "dofile"}
Protected == {"pcall", "xpcall", "host"}
Handled == {"xpcall", "host"}

\* A frame knows what came of its last call: ok, failed, or none.
NewFrame(kind) == [kind |-> kind, got |-> "none"]

Init ==
    /\ frames = [t \in Threads |-> <<>>]
    /\ active = <<>>
    /\ life = [t \in Threads |-> IF t = Main THEN "alive" ELSE "new"]

Now == [frames |-> frames, active |-> active, life |-> life]
Top(s, t) == s.frames[t][Len(s.frames[t])]
Pop(s, t) == [s EXCEPT !.frames[t] = Front(@)]
Push(s, t, kind) == [s EXCEPT !.frames[t] = Append(@, NewFrame(kind))]
SetGot(s, t, outcome) == [s EXCEPT !.frames[t] = ReplaceAt(@, Len(@), [Last(@) EXCEPT !.got = outcome])]
Resumer(s) == s.active[Len(s.active) - 1]

-----------------------------------------------------------------------------
(* A result or an error reaches the frames below *)

\* The outcome of a call reaches the frame on top, which goes on, or returns in turn.
RECURSIVE Deliver(_, _, _)
Deliver(s, t, outcome) ==
    IF s.frames[t] = <<>>
    THEN Deliver(Pop([s EXCEPT !.life[t] = "dead", !.active = Front(@)], Resumer(s)), Resumer(s), "ok")
    ELSE IF Top(s, t).kind = "host" THEN [s EXCEPT !.frames[t] = <<>>, !.active = <<>>]
    ELSE IF Top(s, t).kind \in {"pcall", "xpcall", "dofile"} THEN Deliver(Pop(s, t), t, "ok")
    ELSE SetGot(s, t, outcome)

\* The states an error may lead to: the frames are left at once, or a handler runs first.
RECURSIVE Unwind(_, _), Raises(_, _)
Unwind(s, t) ==
    LET guards == {i \in DOMAIN s.frames[t] : s.frames[t][i].kind \in Protected}
        guard == CHOOSE i \in guards : \A j \in guards : j <= i
        left == [s EXCEPT !.frames[t] = SubSeq(@, 1, guard - 1)]
        dead == [s EXCEPT !.frames[t] = <<>>, !.life[t] = "dead", !.active = Front(@)]
        from == Resumer(s)
    IN  IF guards = {}
        THEN IF Top(s, from).kind = "wrap" THEN Raises(dead, from) ELSE {Deliver(Pop(dead, from), from, "failed")}
        ELSE IF s.frames[t][guard].kind = "host" THEN {[left EXCEPT !.active = <<>>]}
        ELSE {Deliver(left, t, "failed")}

Raises(s, t) ==
    LET guards == {i \in DOMAIN s.frames[t] : s.frames[t][i].kind \in Protected}
        handled == guards # {} /\ s.frames[t][CHOOSE i \in guards : \A j \in guards : j <= i].kind \in Handled
    IN  Unwind(s, t) \cup IF handled THEN {Push(s, t, "handler")} ELSE {}

-----------------------------------------------------------------------------
(* Steps *)

Becomes(s) == frames' = s.frames /\ active' = s.active /\ life' = s.life
BecomesOneOf(S) == <<frames', active', life'>> \in {<<s.frames, s.active, s.life>> : s \in S}
Running == active[Len(active)]
Frame == Top(Now, Running)

HostCall == active = <<>> /\ BecomesOneOf(LET s == Push([Now EXCEPT !.active = <<Main>>], Main, "host")
                                          IN  Raises(s, Main) \cup {Push(s, Main, "lua")})

Call(kind) ==
    /\ active # <<>> /\ Frame.kind \in Callers
    /\ LET s == SetGot(Now, Running, "none")
       IN  BecomesOneOf(Raises(s, Running) \cup {Push(s, Running, kind)})

Return ==
    /\ active # <<>> /\ Frame.kind \in {"lua", "plain", "handler"}
    /\ IF Frame.kind = "handler" THEN BecomesOneOf(Unwind(Pop(Now, Running), Running))
       ELSE Becomes(Deliver(Pop(Now, Running), Running, "ok"))

Raise ==
    /\ active # <<>> /\ Frame.kind \in {"lua", "plain", "handler"}
    /\ BecomesOneOf(Raises(Now, Running))

MayYield(t) ==
    t # Main /\ \A i \in 1 .. Len(frames[t]) - 1 : frames[t][i].kind \notin {"plain", "handler"}

Yield ==
    /\ active # <<>> /\ Frame.kind = "yield"
    /\ IF MayYield(Running)
       THEN Becomes(Deliver(Pop([Now EXCEPT !.active = Front(@)], Resumer(Now)), Resumer(Now), "ok"))
       ELSE BecomesOneOf(Raises(Now, Running))

\* A coroutine that is new or suspended runs; any other, and any without room, is an error.
Suspended(t) == life[t] = "alive" /\ t \notin ToSet(active) /\ frames[t] # <<>>
Refused == IF Frame.kind = "wrap" THEN Raises(Now, Running)
           ELSE {Deliver(Pop(Now, Running), Running, "failed")}
Started(co) ==
    LET s == [Now EXCEPT !.active = Append(@, co), !.life[co] = "alive"]
    IN  IF life[co] = "new" THEN {Push(s, co, kind) : kind \in Kinds}
        ELSE IF Suspended(co) THEN {Deliver(Pop(s, co), co, "ok")}
        ELSE {}

Resume(co) ==
    /\ active # <<>> /\ Frame.kind \in {"resume", "wrap"}
    /\ BecomesOneOf(Started(co) \cup Refused)

Next ==
    \/ HostCall \/ Return \/ Raise \/ Yield
    \/ \E kind \in Kinds : Call(kind)
    \/ \E co \in Threads : Resume(co)

Spec == Init /\ [][Next]_vars
=============================================================================
