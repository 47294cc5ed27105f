----------------------------- MODULE LuaExecute ----------------------------
(***************************************************************************)
(* The interpreter of the vendored Lua (lvm.c, with the calls of ldo.c and *)
(* the upvalues of lfunc.c), over the code of LuaParser.  A machine is a   *)
(* stack that the frames share, the upvalues (open ones name a place of    *)
(* the stack), closures and tables, and what the program has shown by      *)
(* calling the one function that is not Lua, which returns its arguments.  *)
(* Registers that a function has not set yet hold junk.  Metamethods,      *)
(* hooks and floats are left out; an error ends the program.               *)
(***************************************************************************)
EXTENDS LuaParser

CONSTANTS STACK,    \* places of the stack
          Fuel      \* instructions a program may take

Nil == <<"nil">>
Junk == <<"junk">>
Bool(b) == IF b THEN <<"true">> ELSE <<"false">>
l_isfalse(v) == v \in {Nil, <<"false">>}
IsInt(v) == v[1] = "int"
Number(n) == <<"int", n>>

\* What a value is to whoever looks at it from outside.
Seen(v) == IF v[1] \in {"table", "function", "builtin"} THEN <<v[1]>> ELSE v

Frame(m) == m.frames[Len(m.frames)]
Closure(m) == m.closures[Frame(m).closure]
R(m, r) == m.stack[Frame(m).base + r]
SetR(m, r, v) == [m EXCEPT !.stack[Frame(m).base + r] = v]
RK_(m, rk) == IF ISK(rk) THEN Closure(m).proto.k[-rk] ELSE R(m, rk)
Skip_(m, n) == [m EXCEPT !.frames[Len(m.frames)].pc = @ + n]
Raise(m, what) == [m EXCEPT !.error = what]

Upvalue(m, b) == LET u == m.upvals[Closure(m).upvals[b + 1]] IN IF u.at >= 0 THEN m.stack[u.at] ELSE u.v
SetUpvalue(m, b, v) ==
    LET u == Closure(m).upvals[b + 1]
    IN  IF m.upvals[u].at >= 0 THEN [m EXCEPT !.stack[m.upvals[u].at] = v] ELSE [m EXCEPT !.upvals[u].v = v]

-----------------------------------------------------------------------------
(* Upvalues *)

\* The open upvalue for a place of the stack: functions that capture one variable share it.
luaF_findupval(m, level) ==
    LET open == {u \in DOMAIN m.upvals : m.upvals[u].at = level}
    IN  IF open # {} THEN [m |-> m, u |-> CHOOSE u \in open : TRUE]
        ELSE [m |-> [m EXCEPT !.upvals = Append(@, [at |-> level, v |-> Nil])], u |-> Len(m.upvals) + 1]

luaF_close(m, level) ==
    [m EXCEPT !.upvals = [u \in DOMAIN @ |-> IF @[u].at >= level THEN [at |-> -1, v |-> m.stack[@[u].at]]
                                             ELSE @[u]]]

\* The upvalues a closure gets: those of the stack are found or made in turn.
RECURSIVE Captures(_, _, _)
Captures(m, descs, us) ==
    IF Len(us) = Len(descs) THEN [m |-> m, us |-> us]
    ELSE LET d == descs[Len(us) + 1]
             f == luaF_findupval(m, Frame(m).base + d.idx)
         IN  IF d.instack THEN Captures(f.m, descs, Append(us, f.u))
             ELSE Captures(m, descs, Append(us, Closure(m).upvals[d.idx + 1]))

\* The closure made last of a prototype, when its upvalues are the ones wanted.
getcached(m, proto, path) ==
    IF path \notin DOMAIN m.cache THEN {}
    ELSE LET c == m.closures[m.cache[path]]
             same(k) == LET d == proto.upvalues[k]
                            u == m.upvals[c.upvals[k]]
                        IN  IF d.instack THEN u.at = Frame(m).base + d.idx
                            ELSE c.upvals[k] = Closure(m).upvals[d.idx + 1]
         IN  IF \A k \in DOMAIN proto.upvalues : same(k) THEN {m.cache[path]} ELSE {}

pushclosure(m, proto, path, a) ==
    LET c == Captures(m, proto.upvalues, <<>>)
        id == Len(m.closures) + 1
    IN  SetR([c.m EXCEPT !.closures = Append(@, [proto |-> proto, path |-> path, upvals |-> c.us]),
                         !.cache = (path :> id) @@ @], a, <<"function", id>>)

-----------------------------------------------------------------------------
(* Calls *)

adjust_varargs(m, func, actual, nfixargs) ==
    [m EXCEPT !.stack = [s \in DOMAIN @ |->
        IF s >= m.top /\ s < m.top + nfixargs
        THEN IF s - m.top < actual THEN @[func + 1 + (s - m.top)] ELSE Nil
        ELSE IF s > func /\ s <= func + actual /\ s - func <= nfixargs THEN Nil
        ELSE @[s]]]

moveresults(m, from, res, nres, wanted) ==
    LET n == IF wanted = LUA_MULTRET THEN nres ELSE wanted
    IN  [m EXCEPT !.top = res + n,
                  !.stack = [s \in DOMAIN @ |->
                      IF s >= res /\ s < res + n
                      THEN IF s - res < nres THEN @[from + (s - res)] ELSE Nil
                      ELSE @[s]]]

luaD_poscall(m, from, nres) ==
    LET f == Frame(m)
    IN  moveresults([m EXCEPT !.frames = SubSeq(@, 1, Len(@) - 1)], from, f.func, nres, f.nresults)

\* A call of what lies at func, with the values above it up to the top: a Lua function gets a
\* frame, the other one is done at once.
luaD_precall(m, func, nresults) ==
    LET f == m.stack[func]
        p == m.closures[f[2]].proto
        n == m.top - (func + 1)
        base == IF p.is_vararg THEN m.top ELSE func + 1
        full == IF p.is_vararg THEN adjust_varargs(m, func, n, p.numparams)
                ELSE [m EXCEPT !.stack = [s \in DOMAIN @ |->
                         IF s >= m.top /\ s < base + p.numparams THEN Nil ELSE @[s]]]
        fresh == [full EXCEPT !.stack = [s \in DOMAIN @ |->
                     IF s >= base + p.numparams /\ s < base + p.maxstacksize THEN Junk ELSE @[s]]]
        shown == [m EXCEPT !.out = Append(@, [k \in 1 .. n |-> Seen(m.stack[func + k])])]
    IN  CASE f[1] = "builtin" -> moveresults(shown, func + 1, func, n, nresults)
          [] f[1] = "function" /\ base + p.maxstacksize > STACK -> Raise(m, "stack overflow")
          [] f[1] = "function" /\ base + p.maxstacksize <= STACK ->
               [fresh EXCEPT !.frames = Append(@, [closure |-> f[2], base |-> base, func |-> func, pc |-> 0,
                                                   nresults |-> nresults]),
                             !.top = base + p.maxstacksize]
          [] OTHER -> Raise(m, "call")

OpCall(m, i) ==
    LET ra == Frame(m).base + i.a
        topped == IF i.b = 0 THEN m ELSE [m EXCEPT !.top = ra + i.b]
        called == luaD_precall(topped, ra, i.c - 1)
    IN  IF Len(called.frames) = Len(m.frames) /\ i.c > 0
        THEN [called EXCEPT !.top = Frame(m).base + Closure(m).proto.maxstacksize] ELSE called

\* The frame of the called function takes the place of the caller's.
OpTailCall(m, i) ==
    LET ra == Frame(m).base + i.a
        called == luaD_precall(IF i.b = 0 THEN m ELSE [m EXCEPT !.top = ra + i.b], ra, LUA_MULTRET)
        old == Frame(m)
        new == Frame(called)
        closed == IF Closure(m).proto.protos # <<>> THEN luaF_close(called, old.base) ELSE called
        down == new.func - old.func
        lim == new.base + m.closures[new.closure].proto.numparams
    IN  IF Len(called.frames) = Len(m.frames) THEN called
        ELSE [closed EXCEPT
                 !.stack = [s \in DOMAIN @ |-> IF s >= old.func /\ s + down < lim THEN @[s + down]
                                               ELSE IF s >= lim - down THEN Junk ELSE @[s]],
                 !.top = @ - down,
                 !.frames = Append(SubSeq(@, 1, Len(@) - 2),
                                   [old EXCEPT !.closure = new.closure, !.base = new.base - down, !.pc = 0])]

OpReturn(m, i) ==
    LET ra == Frame(m).base + i.a
        closed == IF Closure(m).proto.protos # <<>> THEN luaF_close(m, Frame(m).base) ELSE m
        back == luaD_poscall(closed, ra, IF i.b # 0 THEN i.b - 1 ELSE m.top - ra)
        caller == Frame(back)
    IN  IF back.frames # <<>> /\ Frame(m).nresults # LUA_MULTRET
        THEN [back EXCEPT !.top = caller.base + Closure(back).proto.maxstacksize] ELSE back

-----------------------------------------------------------------------------
(* Instructions that move values *)

OpLoad(m, i) ==
    LET k == Closure(m).proto.k
        next == Closure(m).proto.code[Frame(m).pc + 1]
    IN  CASE i.op = "MOVE" -> SetR(m, i.a, R(m, i.b))
          [] i.op = "LOADK" -> SetR(m, i.a, k[i.b + 1])
          [] i.op = "LOADKX" -> Skip_(SetR(m, i.a, k[next.b + 1]), 1)
          [] i.op = "LOADBOOL" -> Skip_(SetR(m, i.a, Bool(i.b = 1)), i.c)
          [] i.op = "LOADNIL" ->
               LET ra == Frame(m).base + i.a
               IN  [m EXCEPT !.stack = [s \in DOMAIN @ |-> IF s >= ra /\ s <= ra + i.b THEN Nil ELSE @[s]]]
          [] i.op = "GETUPVAL" -> SetR(m, i.a, Upvalue(m, i.b))

Get(m, t, key) == IF key \in DOMAIN m.tables[t[2]] THEN m.tables[t[2]][key] ELSE Nil
gettable(m, t, key, a) == IF t[1] = "table" THEN SetR(m, a, Get(m, t, key)) ELSE Raise(m, "index")
settable(m, t, key, v) ==
    IF t[1] # "table" \/ key = Nil THEN Raise(m, "index")
    ELSE [m EXCEPT !.tables[t[2]] =
             IF v = Nil THEN [x \in DOMAIN @ \ {key} |-> @[x]] ELSE (key :> v) @@ @]

OpTable(m, i) ==
    CASE i.op = "GETTABUP" -> gettable(m, Upvalue(m, i.b), RK_(m, i.c), i.a)
      [] i.op = "GETTABLE" -> gettable(m, R(m, i.b), RK_(m, i.c), i.a)
      [] i.op = "SETTABUP" -> settable(m, Upvalue(m, i.a), RK_(m, i.b), RK_(m, i.c))
      [] i.op = "SETUPVAL" -> SetUpvalue(m, i.b, R(m, i.a))
      [] i.op = "SETTABLE" -> settable(m, R(m, i.a), RK_(m, i.b), RK_(m, i.c))
      [] i.op = "NEWTABLE" ->
           SetR([m EXCEPT !.tables = Append(@, <<>>)], i.a, <<"table", Len(m.tables) + 1>>)
      [] i.op = "SELF" -> gettable(SetR(m, i.a + 1, R(m, i.b)), R(m, i.b), RK_(m, i.c), i.a)

\* The items in the registers above a table go to its places, the last one first.
OpSetList(m, i) ==
    LET ra == Frame(m).base + i.a
        n == IF i.b = 0 THEN (m.top - ra) - 1 ELSE i.b
        before == (i.c - 1) * LFIELDS_PER_FLUSH
        t == m.stack[ra][2]
        places == {Number(before + k) : k \in {k \in 1 .. n : m.stack[ra + k] # Nil}}
        kept == {x \in DOMAIN m.tables[t] : ~(IsInt(x) /\ x[2] > before /\ x[2] <= before + n)}
    IN  [m EXCEPT !.tables[t] = [x \in kept \cup places |->
                                    IF x \in places THEN m.stack[ra + (x[2] - before)] ELSE @[x]],
                  !.top = Frame(m).base + Closure(m).proto.maxstacksize]

OpClosure(m, i) ==
    LET proto == Closure(m).proto.protos[i.b + 1]
        path == Append(Closure(m).path, i.b)
        cached == getcached(m, proto, path)
    IN  IF cached = {} THEN pushclosure(m, proto, path, i.a)
        ELSE SetR(m, i.a, <<"function", CHOOSE c \in cached : TRUE>>)

OpVararg(m, i) ==
    LET f == Frame(m)
        n0 == (f.base - f.func) - Closure(m).proto.numparams - 1
        n == IF n0 < 0 THEN 0 ELSE n0
        b == IF i.b = 0 THEN n ELSE i.b - 1
        ra == f.base + i.a
    IN  [m EXCEPT !.top = IF i.b = 0 THEN ra + n ELSE @,
                  !.stack = [s \in DOMAIN @ |->
                      IF s >= ra /\ s < ra + b
                      THEN IF s - ra < n THEN @[(f.base - n) + (s - ra)] ELSE Nil
                      ELSE @[s]]]

-----------------------------------------------------------------------------
(* Operators, conditions and loops *)

OpAddSubMul(m, i) ==
    LET x == RK_(m, i.b)
        y == RK_(m, i.c)
    IN  IF IsInt(x) /\ IsInt(y) THEN SetR(m, i.a, Number(Arith(i.op, x[2], y[2]))) ELSE Raise(m, "arithmetic")

OpModDiv(m, i) ==
    LET x == RK_(m, i.b)
        y == RK_(m, i.c)
    IN  IF ~IsInt(x) \/ ~IsInt(y) THEN Raise(m, "arithmetic")
        ELSE IF y[2] = 0 THEN Raise(m, "zero")
        ELSE SetR(m, i.a, Number(Arith(i.op, x[2], y[2])))

\* What a string or a number adds to a concatenation.
Text(v) == IF IsInt(v) THEN ToString(v[2]) ELSE v[2]
IsText(v) == v[1] \in {"str", "int"}

RECURSIVE Concat(_, _, _)
Concat(m, b, c) == IF b = c THEN Text(R(m, c)) ELSE Text(R(m, b)) \o Concat(m, b + 1, c)

Border(t) == CHOOSE n \in 0 .. Cardinality(DOMAIN t) :
                 /\ Number(n + 1) \notin DOMAIN t
                 /\ \A j \in 1 .. n : Number(j) \in DOMAIN t

OpUnary(m, i) ==
    LET v == R(m, i.b)
    IN  CASE i.op = "NOT" -> SetR(m, i.a, Bool(l_isfalse(v)))
          [] i.op = "UNM" -> IF IsInt(v) THEN SetR(m, i.a, Number(-v[2])) ELSE Raise(m, "arithmetic")
          [] i.op = "LEN" ->
               CASE v[1] = "table" -> SetR(m, i.a, Number(Border(m.tables[v[2]])))
                 [] v[1] = "str" -> SetR(m, i.a, Number(Len(v[2])))
                 [] OTHER -> Raise(m, "length")
          [] i.op = "CONCAT" ->
               IF \A r \in i.b .. i.c : IsText(R(m, r)) THEN SetR(m, i.a, <<"str", Concat(m, i.b, i.c)>>)
               ELSE Raise(m, "concatenate")

dojump(m, i, e) ==
    LET closed == IF i.a # 0 THEN luaF_close(m, Frame(m).base + i.a - 1) ELSE m
    IN  Skip_(closed, i.b + e)

\* A test is followed by a jump, which is taken or skipped.
Branch(m, taken) ==
    IF taken THEN dojump(m, Closure(m).proto.code[Frame(m).pc + 1], 1) ELSE Skip_(m, 1)

OpCompare(m, i) ==
    LET x == RK_(m, i.b)
        y == RK_(m, i.c)
        truth == CASE i.op = "EQ" -> x = y
                   [] i.op = "LT" -> x[2] < y[2]
                   [] i.op = "LE" -> x[2] <= y[2]
    IN  IF i.op # "EQ" /\ ~(IsInt(x) /\ IsInt(y)) THEN Raise(m, "compare")
        ELSE Branch(m, truth = (i.a = 1))

OpTest(m, i) ==
    LET v == R(m, IF i.op = "TEST" THEN i.a ELSE i.b)
        taken == IF i.c = 1 THEN ~l_isfalse(v) ELSE l_isfalse(v)
    IN  Branch(IF i.op = "TESTSET" /\ taken THEN SetR(m, i.a, v) ELSE m, taken)

\* Loops over integers, and over what a function gives.
OpLoop(m, i) ==
    LET init == R(m, i.a)
        limit == R(m, i.a + 1)
        step == R(m, i.a + 2)
        idx == init[2] + step[2]
        goesOn == IF step[2] > 0 THEN idx <= limit[2] ELSE limit[2] <= idx
        base == Frame(m).base + i.a
        called == [m EXCEPT !.stack[base + 5] = m.stack[base + 2], !.stack[base + 4] = m.stack[base + 1],
                            !.stack[base + 3] = m.stack[base], !.top = base + 6]
    IN  CASE i.op = "FORPREP" ->
               IF IsInt(init) /\ IsInt(limit) /\ IsInt(step)
               THEN Skip_(SetR(m, i.a, Number(init[2] - step[2])), i.b) ELSE Raise(m, "for")
          [] i.op = "FORLOOP" ->
               IF goesOn THEN Skip_(SetR(SetR(m, i.a, Number(idx)), i.a + 3, Number(idx)), i.b) ELSE m
          [] i.op = "TFORCALL" -> luaD_precall(called, base + 3, i.c)
          [] i.op = "TFORLOOP" ->
               IF R(m, i.a + 1) = Nil THEN m ELSE Skip_(SetR(m, i.a, R(m, i.a + 1)), i.b)

Loads == {"MOVE", "LOADK", "LOADKX", "LOADBOOL", "LOADNIL", "GETUPVAL"}
Tables == {"GETTABUP", "GETTABLE", "SETTABUP", "SETUPVAL", "SETTABLE", "NEWTABLE", "SELF"}

\* One instruction.
luaV_execute(machine) ==
    LET i == Closure(machine).proto.code[Frame(machine).pc + 1]
        m == Skip_(machine, 1)
    IN  CASE i.op \in Loads -> OpLoad(m, i)
          [] i.op \in Tables -> OpTable(m, i)
          [] i.op \in {"ADD", "SUB", "MUL"} -> OpAddSubMul(m, i)
          [] i.op \in {"MOD", "IDIV"} -> OpModDiv(m, i)
          [] i.op \in {"NOT", "UNM", "LEN", "CONCAT"} -> OpUnary(m, i)
          [] i.op = "JMP" -> dojump(m, i, 0)
          [] i.op \in {"EQ", "LT", "LE"} -> OpCompare(m, i)
          [] i.op \in {"TEST", "TESTSET"} -> OpTest(m, i)
          [] i.op = "CALL" -> OpCall(m, i)
          [] i.op = "TAILCALL" -> OpTailCall(m, i)
          [] i.op = "RETURN" -> OpReturn(m, i)
          [] i.op \in {"FORPREP", "FORLOOP", "TFORCALL", "TFORLOOP"} -> OpLoop(m, i)
          [] i.op = "SETLIST" -> OpSetList(m, i)
          [] i.op = "CLOSURE" -> OpClosure(m, i)
          [] i.op = "VARARG" -> OpVararg(m, i)

RECURSIVE Run(_, _)
Run(m, fuel) ==
    IF m.frames = <<>> \/ m.error # "" THEN m
    ELSE IF fuel = 0 THEN Raise(m, "endless")
    ELSE Run(luaV_execute(m), fuel - 1)

\* A program called with arguments: what it shows, what it returns, and its error.
Outcome(proto, args) ==
    LET globals == <<"str", "emit">> :> <<"builtin">>
        m == [stack |-> [s \in 0 .. STACK - 1 |->
                            IF s = 0 THEN <<"function", 1>> ELSE IF s <= Len(args) THEN args[s] ELSE Junk],
              top |-> Len(args) + 1, frames |-> <<>>, cache |-> <<>>,
              upvals |-> <<[at |-> -1, v |-> <<"table", 1>>]>>,
              closures |-> <<[proto |-> proto, path |-> <<>>, upvals |-> <<1>>]>>,
              tables |-> <<globals>>, out |-> <<>>, error |-> ""]
        done == Run(luaD_precall(m, 0, LUA_MULTRET), Fuel)
    IN  [out |-> done.out, error |-> done.error,
         results |-> IF done.error = "" THEN [k \in 1 .. done.top |-> Seen(done.stack[k - 1])] ELSE <<>>]
=============================================================================
