------------------------------ MODULE LuaCalls -----------------------------
(***************************************************************************)
(* Calls, errors and coroutines of the vendored Lua (ldo.c, with lstate.c, *)
(* lcorolib.c, the calls of lapi.c and the protected calls of lbaselib.c): *)
(* how C functions and Lua functions share the C stack, how an error jumps *)
(* over it to the handler a thread has set up, and how a coroutine goes on *)
(* although a yield has thrown its part of the C stack away.               *)
(*                                                                         *)
(* What the functions of a program do is free: they call one another,      *)
(* return, fail, yield and resume at will.  A machine has its threads, its *)
(* C stack and what goes on: "run" when the topmost function has its next  *)
(* step, "error" when an error message is ready, "throw" on the way to a   *)
(* handler, "called" when the function that the topmost piece of C called  *)
(* has returned.  A stack place is a number.  Values, hooks and tail calls *)
(* are left out.  "plain" is any C function that calls without a           *)
(* continuation, and "dofile" one that calls with one.                     *)
(***************************************************************************)
EXTENDS Integers, Sequences, SequencesExt, FiniteSets, FiniteSetsExt

CONSTANTS Threads, Main,
          LUAI_MAXCCALLS,     \* C calls of a thread
          ERRCCALLS,          \* those that errors may use beyond (LUAI_MAXCCALLS >> 3)
          LUAI_MAXSTACK,      \* places of a stack
          ERRORSTACKSIZE,     \* those while a stack overflow is handled
          BASIC_STACK_SIZE, EXTRA_STACK, LUA_MINSTACK,
          FRAME,              \* registers of a Lua function
          Bounds              \* how many functions of each thread run or wait, and which they are

VARIABLES vm    \* the machine

Kinds == {"lua", "plain", "pcall", "xpcall", "dofile", "resume", "wrap", "yield"}
LUA_MULTRET == -1
Failed(status) == status \notin {"LUA_OK", "LUA_YIELD"}
isLua(ci) == ci.kind \in {"lua", "handler"}
nargs(kind) == CASE kind \in {"lua", "wrap", "yield"} -> 0 [] kind = "xpcall" -> 2 [] OTHER -> 1

\* The thread of the topmost piece of C, its topmost function, and how many functions there are.
Cur(m) == Last(m.c).t
Ci(m, t) == Last(m.th[t].ci)
gettop(m, t) == m.th[t].top - (Ci(m, t).func + 1)
Asserted(m, name, holds) == IF holds THEN m ELSE [m EXCEPT !.broken = @ \cup {name}]
PushC(m, frame) == [m EXCEPT !.c = Append(@, frame)]
PopC(m) == [m EXCEPT !.c = Front(@)]
SetCi(m, t, ci) == [m EXCEPT !.th[t].ci[Len(m.th[t].ci)] = ci]
Go(m, what) == [m EXCEPT !.ctl = what]

-----------------------------------------------------------------------------
(* Errors *)

luaD_throw(m, errcode) == [m EXCEPT !.ctl = "throw", !.code = errcode]

PushMessage(m, t) == [m EXCEPT !.th[t].top = @ + 1, !.ctl = "error"]

\* Open upvalues from a place on are closed.
luaF_close(m, t, level) == [m EXCEPT !.th[t].open = {u \in @ : u < level}]

-----------------------------------------------------------------------------
(* The stack of a thread *)

luaD_reallocstack(m, t, newsize) ==
    [Asserted(m, "luaD_reallocstack", newsize <= LUAI_MAXSTACK \/ newsize = ERRORSTACKSIZE)
        EXCEPT !.th[t].size = newsize]

luaD_growstack(m, t, n) ==
    LET size == m.th[t].size
        needed == m.th[t].top + n + EXTRA_STACK
        newsize == Max({needed, Min({2 * size, LUAI_MAXSTACK})})
    IN  IF size > LUAI_MAXSTACK THEN luaD_throw(m, "LUA_ERRERR")
        ELSE IF newsize > LUAI_MAXSTACK THEN PushMessage(luaD_reallocstack(m, t, ERRORSTACKSIZE), t)
        ELSE luaD_reallocstack(m, t, newsize)

luaD_checkstack(m, t, n) ==
    IF (m.th[t].size - EXTRA_STACK) - m.th[t].top <= n THEN luaD_growstack(m, t, n) ELSE m

\* The message is pushed, which may need room (luaD_inctop).
luaG_runerror(m, t) == LET c == luaD_checkstack(m, t, 1) IN IF c.ctl # "run" THEN c ELSE PushMessage(c, t)

\* The highest place in use.
stackinuse(m, t) == Max({m.th[t].top} \cup {m.th[t].ci[i].top : i \in DOMAIN m.th[t].ci}) + 1

luaD_shrinkstack(m, t) ==
    LET inuse == stackinuse(m, t)
        goodsize == Min({inuse + (inuse \div 8) + 2 * EXTRA_STACK, LUAI_MAXSTACK})
        size == m.th[t].size
        checked == Asserted(m, IF Failed(m.th[t].status) THEN "dead" ELSE "stackinuse", inuse - 1 <= size - EXTRA_STACK)
    IN  IF inuse <= LUAI_MAXSTACK - EXTRA_STACK /\ goodsize < size
        THEN luaD_reallocstack(checked, t, goodsize) ELSE checked

-----------------------------------------------------------------------------
(* Calls *)

\* A function that starts, as one of the functions of a thread.
CallInfo(kind, func, top, nresults) ==
    [kind |-> kind, func |-> func, top |-> top, nresults |-> nresults, fresh |-> FALSE, ypcall |-> FALSE,
     k |-> FALSE, old_errfunc |-> 0, extra |-> 0, op |-> "none", got |-> "none"]

next_ci(m, t, ci) == [m EXCEPT !.th[t].ci = Append(@, ci)]

\* Calls what lies at func, with its arguments above up to the top.  A Lua function captures its
\* first register; unless it is called by a Lua function, it is run by a piece of C of its own.
luaD_precall(m, t, func, kind, nresults) ==
    LET c == luaD_checkstack(m, t, IF kind \in {"lua", "handler"} THEN FRAME ELSE LUA_MINSTACK)
        base == func + 1
        fresh == Last(m.c).f # "execute"
        lua == next_ci(c, t, [CallInfo(kind, func, base + FRAME, nresults) EXCEPT !.fresh = fresh])
        entered == [lua EXCEPT !.th[t].top = base + FRAME, !.th[t].open = @ \cup {base}]
        cfun == next_ci(c, t, CallInfo(kind, func, c.th[t].top + LUA_MINSTACK, nresults))
        Fits(x) == Asserted(x, "luaD_precall", Ci(x, t).top <= x.th[t].size - EXTRA_STACK)
    IN  IF c.ctl # "run" THEN c
        ELSE IF kind \notin {"lua", "handler"} THEN Fits(PushC(cfun, [f |-> "cfun", t |-> t]))
        ELSE IF fresh THEN Fits(PushC(entered, [f |-> "execute", t |-> t]))
        ELSE Fits(entered)

\* The topmost function ends with n results: they are moved to where it was, as many as its caller
\* wants, and the caller learns what came of its call.
luaD_poscall(m, t, n, outcome) ==
    LET ci == Ci(m, t)
        wanted == IF ci.nresults = LUA_MULTRET THEN n ELSE ci.nresults
        left == [m EXCEPT !.th[t].ci = Front(@), !.th[t].top = ci.func + wanted]
        caller == Ci(left, t)
    IN  IF caller.kind \in {"lua", "handler", "plain"} THEN SetCi(left, t, [caller EXCEPT !.got = outcome])
        ELSE left

\* luaD_call and luaD_callnoyield, with stackerror.
luaD_call(m, t, func, kind, nresults, noyield) ==
    LET called == [PushC(m, [f |-> "call", t |-> t, noyield |-> noyield])
                      EXCEPT !.th[t].nCcalls = @ + 1, !.th[t].nny = @ + noyield]
        n == m.th[t].nCcalls + 1
    IN  IF n = LUAI_MAXCCALLS THEN luaG_runerror(called, t)
        ELSE IF n >= LUAI_MAXCCALLS + ERRCCALLS THEN luaD_throw(called, "LUA_ERRERR")
        ELSE luaD_precall(called, t, func, kind, nresults)

\* The handler of the nearest protected call is called with the message, then the error is thrown.
luaG_errormsg(m) ==
    LET t == Cur(m)
        func == m.th[t].top - 1
        pushed == [Go(PushC(m, [f |-> "errormsg", t |-> t]), "run") EXCEPT !.th[t].top = @ + 1]
    IN  IF m.th[t].errfunc = 0 THEN luaD_throw(m, "LUA_ERRRUN")
        ELSE luaD_call(pushed, t, func, "handler", 1, 1)

\* A C function returns its n topmost values.
CReturn(m, n, outcome) ==
    LET t == Cur(m)
        left == PopC(luaD_poscall(m, t, n, outcome))
        back == Last(left.c).f = "execute"
    IN  IF back THEN Go(SetCi([left EXCEPT !.th[t].top = Ci(left, t).top], t, [Ci(left, t) EXCEPT !.op = "none"]),
                        "run")
        ELSE Go(left, "called")

adjustresults(m, t) ==
    IF Ci(m, t).top < m.th[t].top THEN SetCi(m, t, [Ci(m, t) EXCEPT !.top = m.th[t].top]) ELSE m

\* How pcall, xpcall and dofile end when what they called has ended: the number of their results.
Results(m, t) ==
    CASE Ci(m, t).kind = "pcall" -> gettop(m, t)
      [] Ci(m, t).kind = "xpcall" -> gettop(m, t) - 2
      [] OTHER -> gettop(m, t) - 1

-----------------------------------------------------------------------------
(* Protected calls *)

Handler(m, frame, t) == [m EXCEPT !.c = Append(@, frame), !.th[t].errorJmp = Len(m.c) + 1]

\* A protected call that sets up a handler of its own.
luaD_pcall(m, t, func, kind, ef) ==
    LET L == m.th[t]
        saved == [f |-> "pcall", t |-> t, ci |-> Len(L.ci), nny |-> L.nny, errfunc |-> L.errfunc,
                  old_top |-> func, nCcalls |-> L.nCcalls, previous |-> L.errorJmp]
    IN  luaD_call([Handler(m, saved, t) EXCEPT !.th[t].errfunc = ef], t, func, kind, LUA_MULTRET, 1)

\* Seeded error: the function of the caller's handler is forgotten.
ForgetsErrfunc(m, t, func, kind, ef) ==
    LET ci == [Ci(m, t) EXCEPT !.k = TRUE, !.extra = func, !.ypcall = TRUE]
    IN  IF m.th[t].nny > 0 THEN luaD_pcall(m, t, func, kind, ef)
        ELSE luaD_call([SetCi(m, t, ci) EXCEPT !.th[t].errfunc = ef], t, func, kind, LUA_MULTRET, 0)

\* Where a yield is allowed, the handler of the resume that runs the coroutine is used.
lua_pcallk(m, t, func, kind, ef) ==
    LET ci == [Ci(m, t) EXCEPT !.k = TRUE, !.extra = func, !.old_errfunc = m.th[t].errfunc, !.ypcall = TRUE]
    IN  IF m.th[t].nny > 0 THEN luaD_pcall(m, t, func, kind, ef)
        ELSE luaD_call([SetCi(m, t, ci) EXCEPT !.th[t].errfunc = ef], t, func, kind, LUA_MULTRET, 0)

lua_callk(m, t, func, kind, nresults, k) ==
    IF k /\ m.th[t].nny = 0
    THEN luaD_call(SetCi(m, t, [Ci(m, t) EXCEPT !.k = TRUE]), t, func, kind, nresults, 0)
    ELSE luaD_call(m, t, func, kind, nresults, 1)

\* An error has reached a protected call.
Caught(m, frame, t) ==
    LET left == [luaF_close(m, t, frame.old_top) EXCEPT !.th[t].top = frame.old_top + 1,
                                                        !.th[t].ci = SubSeq(@, 1, frame.ci),
                                                        !.th[t].nny = frame.nny]
    IN  [luaD_shrinkstack(left, t) EXCEPT !.th[t].errfunc = frame.errfunc]

\* finishpcall with an error: false and the message.
Failure(m, t) == CReturn([m EXCEPT !.th[t].top = @ + 2], 2, "failed")

\* The host has its results: nothing of the call is left.
Idle(m) == [Go(m, "run") EXCEPT !.th[Main].top = 1]

-----------------------------------------------------------------------------
(* Coroutines *)

\* A C function that a yield, or an error after a yield, has interrupted is completed by its
\* continuation.
finishCcall(m, t, status) ==
    LET ci == Ci(m, t)
        held == Asserted(Asserted(m, "finishCcall", ci.k /\ m.th[t].nny = 0),
                         "finishCcall", ci.ypcall \/ status = "LUA_YIELD")
        cleared == IF ci.ypcall
                   THEN [SetCi(held, t, [ci EXCEPT !.ypcall = FALSE]) EXCEPT !.th[t].errfunc = ci.old_errfunc]
                   ELSE held
        done == adjustresults(cleared, t)
    IN  IF status = "LUA_YIELD" THEN luaD_poscall(done, t, Results(done, t), "ok")
        ELSE luaD_poscall([done EXCEPT !.th[t].top = @ + 2], t, 2, "failed")

\* The next function of a coroutine that has lost its part of the C stack.
unroll(m) ==
    LET t == Cur(m)
        ci == Ci(m, t)
        finished == [m EXCEPT !.th[t].top = ci.top]
    IN  IF Len(m.th[t].ci) = 1 THEN PopC(m)
        ELSE IF ~isLua(ci) THEN finishCcall(m, t, "LUA_YIELD")
        ELSE Go(PushC(SetCi(Asserted(finished, "luaV_finishOp", ci.op # "none"), t,
                            [ci EXCEPT !.op = "none", !.fresh = TRUE]),
                      [f |-> "execute", t |-> t]), "run")

\* A protected call in a coroutine that can take the error.
findpcall(m, t) == {i \in DOMAIN m.th[t].ci : m.th[t].ci[i].ypcall}

\* Seeded error: the outermost protected call is found.
recoverOutermost(m, t, frame) ==
    LET ci == Min(findpcall(m, t))
        oldtop == m.th[t].ci[ci].extra
        left == [luaF_close(m, t, oldtop) EXCEPT !.th[t].top = oldtop + 1, !.th[t].ci = SubSeq(@, 1, ci),
                                                 !.th[t].nny = 0]
        again == Handler([luaD_shrinkstack(left, t) EXCEPT !.th[t].errfunc = m.th[t].ci[ci].old_errfunc],
                         [frame EXCEPT !.previous = left.th[t].errorJmp], t)
    IN  Go(finishCcall(PushC(again, [f |-> "unroll", t |-> t]), t, m.code), "called")

\* The error is taken by the innermost one, and the coroutine goes on from there.
recover(m, t, frame) ==
    LET ci == Max(findpcall(m, t))
        oldtop == m.th[t].ci[ci].extra
        left == [luaF_close(m, t, oldtop) EXCEPT !.th[t].top = oldtop + 1, !.th[t].ci = SubSeq(@, 1, ci),
                                                 !.th[t].nny = 0]
        again == Handler([luaD_shrinkstack(left, t) EXCEPT !.th[t].errfunc = m.th[t].ci[ci].old_errfunc],
                         [frame EXCEPT !.previous = left.th[t].errorJmp], t)
    IN  Go(finishCcall(PushC(again, [f |-> "unroll", t |-> t]), t, m.code), "called")

\* What auxresume makes of a resume that has come back: the results are moved to the thread that
\* resumed, or the error message is.
Resumed(m, frame, status) ==
    LET co == frame.t
        from == frame.from
        ended == [m EXCEPT !.th[co].nny = frame.nny, !.th[co].nCcalls = @ - 1]
        held == Asserted(ended, "lua_resume", ended.th[co].nCcalls = m.th[from].nCcalls)
        isWrap == Ci(m, from).kind = "wrap"
        nres == IF ~Failed(status) THEN gettop(m, co) ELSE 1
        moved == [held EXCEPT !.th[co].top = @ - nres, !.th[from].top = @ + nres]
        flagged == IF isWrap THEN moved ELSE [moved EXCEPT !.th[from].top = @ + 1]
    IN  IF ~Failed(status) THEN CReturn(flagged, nres + IF isWrap THEN 0 ELSE 1, "ok")
        ELSE IF isWrap THEN Go(flagged, "error")
        ELSE CReturn(flagged, 2, "failed")

\* The end of lua_resume: an error may be recovered from, otherwise it ends the coroutine.
ResumeEnds(m, frame, status) ==
    LET t == frame.t
        dead == [m EXCEPT !.th[t].status = status, !.th[t].top = @ + 1]
    IN  IF status = "LUA_YIELD"
        THEN Resumed(Asserted(m, "resume status", m.th[t].status = "LUA_YIELD"), frame, status)
        ELSE IF findpcall(m, t) # {} THEN recover(m, t, frame)
        ELSE Resumed(SetCi(dead, t, [Ci(dead, t) EXCEPT !.top = dead.th[t].top]), frame, status)

\* resume_error and the refusals of auxresume.
Refuse(m, from) ==
    IF Ci(m, from).kind = "wrap" THEN Go([m EXCEPT !.th[from].top = @ + 1], "error")
    ELSE CReturn([m EXCEPT !.th[from].top = @ + 2], 2, "failed")

\* Runs a coroutine: its body, or what follows its yield.
resume(m, co, kind) ==
    LET L == m.th[co]
        ci == Ci(m, co)
        arguments == [m EXCEPT !.th[co].top = @ + nargs(kind)]
        again == SetCi([m EXCEPT !.th[co].status = "LUA_OK"], co, [ci EXCEPT !.func = ci.extra])
    IN  IF L.status = "LUA_OK" THEN luaD_precall(arguments, co, L.top - 1, kind, LUA_MULTRET)
        ELSE Go(PushC(luaD_poscall(Asserted(again, "resume", L.status = "LUA_YIELD" /\ ~isLua(ci)), co, 0, "ok"),
                      [f |-> "unroll", t |-> co]), "called")

lua_resume(m, from, co, kind) ==
    LET L == m.th[co]
        n == m.th[from].nCcalls + 1
        frame == [f |-> "resume", t |-> co, from |-> from, nny |-> L.nny, nCcalls |-> n, previous |-> L.errorJmp]
        ready == [Handler(m, frame, co) EXCEPT !.th[co].nCcalls = n, !.th[co].nny = 0]
        isDead == L.status = "LUA_OK" /\ gettop(m, co) = 0
        isActive == L.status = "LUA_OK" /\ Len(L.ci) > 1
    IN  IF isDead \/ isActive \/ Failed(L.status) THEN Refuse(m, from)
        ELSE IF n >= LUAI_MAXCCALLS THEN Refuse([m EXCEPT !.th[co].nCcalls = n], from)
        ELSE resume(ready, co, kind)

lua_yieldk(m) ==
    LET t == Cur(m)
        ci == Ci(m, t)
    IN  IF m.th[t].nny > 0 THEN luaG_runerror(m, t)
        ELSE luaD_throw(SetCi([m EXCEPT !.th[t].status = "LUA_YIELD"], t,
                              [ci EXCEPT !.extra = ci.func, !.k = FALSE, !.func = m.th[t].top - gettop(m, t) - 1]),
                        "LUA_YIELD")

-----------------------------------------------------------------------------
(* What the pieces of C do until the topmost function has its next step *)

\* The jump to the handler of the running thread.
Jump(m) ==
    LET t == Cur(m)
        frame == m.c[m.th[t].errorJmp]
        left == [m EXCEPT !.c = SubSeq(@, 1, m.th[t].errorJmp - 1), !.th[t].errorJmp = frame.previous,
                          !.th[t].nCcalls = frame.nCcalls]
        caught == Caught(left, frame, t)
    IN  IF frame.f = "resume" THEN ResumeEnds(left, frame, m.code)
        ELSE IF left.c = <<>> THEN Idle(caught)
        ELSE Failure(caught, t)

\* The call of a C function has returned to it.
AfterCall(m, t) ==
    LET ci == Ci(m, t)
        done == adjustresults(m, t)
        cleared == [SetCi(done, t, [Ci(done, t) EXCEPT !.ypcall = FALSE])
                       EXCEPT !.th[t].errfunc = IF ci.ypcall THEN ci.old_errfunc ELSE @]
    IN  IF ci.kind = "plain" THEN Go([m EXCEPT !.th[t].top = @ - 1], "run")
        ELSE CReturn(cleared, Results(cleared, t), "ok")

\* luaD_call returns to what called it.
CallReturns(m) ==
    LET t == Cur(m)
        left == [PopC(m) EXCEPT !.th[t].nCcalls = @ - 1, !.th[t].nny = @ - Last(m.c).noyield]
        frame == Last(left.c)
        protected == [PopC(left) EXCEPT !.th[t].errorJmp = frame.previous, !.th[t].nCcalls = frame.nCcalls,
                                        !.th[t].errfunc = frame.errfunc]
        meta == SetCi([left EXCEPT !.th[t].top = @ - 1], t, [Ci(left, t) EXCEPT !.op = "none"])
    IN  CASE frame.f = "errormsg" -> luaD_throw(PopC(left), "LUA_ERRRUN")
          [] frame.f = "pcall" -> IF Len(left.c) = 1 THEN Idle(protected) ELSE AfterCall(protected, t)
          [] frame.f = "cfun" -> AfterCall(left, t)
          [] frame.f = "execute" -> Go(meta, "run")

ResumeReturns(m) ==
    LET frame == Last(m.c)
        left == [PopC(m) EXCEPT !.th[frame.t].errorJmp = frame.previous, !.th[frame.t].nCcalls = frame.nCcalls]
    IN  Resumed(Asserted(left, "resume status", m.th[frame.t].status = "LUA_OK"), frame, "LUA_OK")

RECURSIVE Settle(_)
Settle(m) ==
    CASE m.ctl = "run" -> m
      [] m.ctl = "error" -> Settle(luaG_errormsg(m))
      [] m.ctl = "throw" -> Settle(Jump(m))
      [] m.ctl = "called" -> Settle(CASE Last(m.c).f = "call" -> CallReturns(m)
                                      [] Last(m.c).f = "unroll" -> unroll(m)
                                      [] Last(m.c).f = "resume" -> ResumeReturns(m))

-----------------------------------------------------------------------------
(* Specification *)

\* A new thread has the entry of its base function, and a coroutine its body above it.
NewThread(t) ==
    [status |-> "LUA_OK", ci |-> <<CallInfo("base", 0, 1 + LUA_MINSTACK, 0)>>, nny |-> 1, nCcalls |-> 0,
     errfunc |-> 0, errorJmp |-> 0, top |-> IF t = Main THEN 1 ELSE 2, size |-> BASIC_STACK_SIZE, open |-> {}]

Init == \E bounds \in Bounds : vm = [th |-> [t \in Threads |-> NewThread(t)], c |-> <<>>, ctl |-> "run",
                                    code |-> "LUA_OK", broken |-> {}, bounds |-> bounds]

Idles == vm.c = <<>>
T == Cur(vm)
CI == Ci(vm, T)
\* The machine, with the topmost function about to make a call whose arguments end at a place.
Calling(op, top) == [SetCi(vm, T, [CI EXCEPT !.op = op, !.got = "none"]) EXCEPT !.th[T].top = top]
Running(kinds) == ~Idles /\ CI.kind \in kinds
Bound == vm.bounds[T]
Room == Len(vm.th[T].ci) <= Bound.depth
Settled(m) == vm' = [Settle(m) EXCEPT !.code = "LUA_OK"]

\* The host calls a Lua function with a message handler.
HostCall == Idles /\ Settled(luaD_pcall([vm EXCEPT !.th[Main].top = 3], Main, 2, "lua", 1))

\* OP_CALL
LuaCall(kind) ==
    /\ Running({"lua", "handler"}) /\ Room /\ kind \in Bound.calls
    /\ LET func == CI.func + 2 IN
       Settled(luaD_precall(Calling("call", func + 1 + nargs(kind)), T, func, kind, 1))

\* luaT_callTM: a metamethod of two operands.
MetaCall(kind) ==
    /\ Running({"lua", "handler"}) /\ Room /\ kind \in Bound.metamethods
    /\ LET func == vm.th[T].top IN Settled(luaD_call(Calling("meta", func + 3), T, func, kind, 1, 0))

\* luaB_pcall, luaB_xpcall, luaB_dofile and any other C function call a function.
Body(kind) ==
    /\ Running({"pcall", "xpcall", "dofile", "plain"})
    /\ kind = "lua" \/ (Room /\ kind \in Bound.calls)
    /\ LET func == CI.func + IF CI.kind = "xpcall" THEN 4 ELSE 2
           m == Calling("none", func + 1 + nargs(kind))
       IN  Settled(CASE CI.kind = "pcall" -> lua_pcallk(m, T, func, kind, 0)
                          [] CI.kind = "xpcall" -> lua_pcallk(m, T, func, kind, CI.func + 2)
                          [] CI.kind = "dofile" -> lua_callk(m, T, func, kind, LUA_MULTRET, TRUE)
                          [] CI.kind = "plain" -> lua_callk(m, T, func, kind, 1, FALSE))

Resume(co, kind) ==
    /\ Running({"resume", "wrap"}) /\ kind \in vm.bounds[co].bodies
    /\ Settled(lua_resume(vm, T, co, kind))

Yield == Running({"yield"}) /\ Settled(lua_yieldk(vm))

\* OP_RETURN, or the end of a C function.
Return ==
    /\ Running({"lua", "handler", "plain"})
    /\ LET left == luaD_poscall(luaF_close(vm, T, CI.func + 1), T, 1, "ok")
           caller == Ci(left, T)
           back == SetCi([left EXCEPT !.th[T].top = caller.top], T, [caller EXCEPT !.op = "none"])
       IN  Settled(IF CI.kind = "plain" THEN CReturn(vm, 1, "ok")
                        ELSE IF CI.fresh THEN Go(PopC(left), "called")
                        ELSE Asserted(back, "luaV_execute", isLua(caller)))

RaiseError == Running({"lua", "handler", "plain"}) /\ Settled(luaG_runerror(vm, T))

\* The collector goes through a thread.
Collect(t) == vm' = luaD_shrinkstack(vm, t)

Next ==
    \/ HostCall \/ Yield \/ Return \/ RaiseError
    \/ \E kind \in Kinds : LuaCall(kind) \/ MetaCall(kind) \/ Body(kind)
    \/ \E co \in Threads, kind \in Kinds : Resume(co, kind)
    \/ \E t \in Threads : Collect(t)

Spec == Init /\ [][Next]_vm

-----------------------------------------------------------------------------
(* Properties *)

Active == {vm.c[i].t : i \in DOMAIN vm.c}
OfThread(t) == {i \in DOMAIN vm.c : vm.c[i].t = t}
Handling == \E i \in DOMAIN vm.c : vm.c[i].f = "errormsg"

\* No assertion of ldo.c, ldebug.c or lvm.c about calls fails: a call has room below the end of the
\* stack, a stack is never larger than it may be, what is resumed was suspended, and what a yield has
\* interrupted can be continued (lua_assert in ldo.c and lvm.c).  The exception is a dead coroutine: the
\* message it has ended with may lie above the end of its stack, in the room that is kept for that.
CallAssertionsHold == vm.broken \subseteq {"dead"}

\* Whatever errors and yields skip, the counters of a thread mean what they count: nny the C calls that
\* cannot be continued, nCcalls the depth of C calls.  An overflow lets only handlers go on.
CountersAreExact ==
    /\ \A t \in Threads :
           vm.th[t].nny = (IF t = Main \/ t \notin Active THEN 1 ELSE 0)
                          + Cardinality({i \in OfThread(t) : vm.c[i].f = "call" /\ vm.c[i].noyield = 1})
    /\ \A t \in Active :
           vm.th[t].nCcalls = Cardinality({i \in 1 .. Max(OfThread(t)) : vm.c[i].f \in {"call", "resume"}})
    /\ \A t \in Active : vm.th[t].nCcalls >= LUAI_MAXCCALLS => Handling
    /\ Idles => vm.th[Main].nCcalls = 0

\* An error jumps to the innermost protected call of its thread that is still on the C stack: the chain
\* of handlers never keeps one that has been left (luaD_rawrunprotected, luaD_throw).
HandlersAreLive ==
    \A t \in Threads :
        LET handlers == {i \in OfThread(t) : vm.c[i].f \in {"pcall", "resume"}}
        IN  vm.th[t].errorJmp = IF handlers = {} THEN 0 ELSE Max(handlers)

\* The handler that the nearest protected call of a thread has set.
NearestHandler(t) ==
    LET ci == vm.th[t].ci
        guards == {i \in DOMAIN ci : ci[i].kind \in {"pcall", "xpcall"} /\ i < Len(ci)}
    IN  IF guards # {} THEN IF ci[Max(guards)].kind = "xpcall" THEN ci[Max(guards)].func + 2 ELSE 0
        ELSE IF t = Main /\ ~Idles THEN 1 ELSE 0

\* The message handler of a thread is the one of its nearest protected call, also after an error or a
\* yield has skipped the code that restores it (lua_pcallk, finishCcall, recover).
HandlerIsNearest ==
    \A t \in Threads : ~Failed(vm.th[t].status) => vm.th[t].errfunc = NearestHandler(t)

\* An upvalue is open exactly as long as the function whose variable it is runs or waits: errors and
\* recoveries close those of the functions they leave, and no others.
OpenUpvaluesLive ==
    \A t \in Threads : ~Failed(vm.th[t].status) =>
        vm.th[t].open = {vm.th[t].ci[i].func + 1 : i \in {j \in DOMAIN vm.th[t].ci : isLua(vm.th[t].ci[j])}}

\* Without the C stack, the machine does what Coroutines promises.
IsDead(t) ==
    \/ Failed(vm.th[t].status)
    \/ vm.th[t].status = "LUA_OK" /\ Len(vm.th[t].ci) = 1 /\ vm.th[t].top = 1
FramesOf(t) ==
    (IF t = Main /\ ~Idles THEN <<[kind |-> "host", got |-> "none"]>> ELSE <<>>)
    \o IF IsDead(t) THEN <<>>
       ELSE [i \in 1 .. Len(vm.th[t].ci) - 1 |-> [kind |-> vm.th[t].ci[i + 1].kind, got |-> vm.th[t].ci[i + 1].got]]
LifeOf(t) ==
    IF t = Main THEN "alive"
    ELSE IF IsDead(t) THEN "dead"
    ELSE IF vm.th[t].status = "LUA_OK" /\ Len(vm.th[t].ci) = 1 THEN "new" ELSE "alive"
Resumes == SelectSeq(vm.c, LAMBDA frame : frame.f = "resume")
Abstract == INSTANCE Coroutines WITH
    frames <- [t \in Threads |-> FramesOf(t)] @@ <<>>,
    active <- IF Idles THEN <<>> ELSE <<Main>> \o [i \in DOMAIN Resumes |-> Resumes[i].t],
    life <- [t \in Threads |-> LifeOf(t)] @@ <<>>

\* Threads implement coroutines: resumed, suspended and dead as lcorolib.c says, with errors and
\* yields passing between them (lua_resume, lua_yieldk, recover).
ImplementsCoroutines == Abstract!Spec

\* Errors, yields and overflows leave a thread in order, whatever C code they jump over
\* (ldo.c).
CallsSound ==
    /\ CallAssertionsHold
    /\ CountersAreExact
    /\ HandlersAreLive
    /\ HandlerIsNearest
    /\ OpenUpvaluesLive
=============================================================================
