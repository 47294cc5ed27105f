---------------------------- MODULE LuaOperators ----------------------------
(***************************************************************************)
(* The operators of the vendored Lua on values that have metamethods       *)
(* (lvm.c, ltm.c, tryfuncTM of ldo.c).  An instruction of a Lua function   *)
(* may call metamethods, and one of them may yield: then the piece of C    *)
(* that waits for its result is lost, and luaV_finishOp ends what the      *)
(* instruction began from what lies on the stack.  The result of a call is *)
(* free.  A value is a record of its type and of a sequence that tells it  *)
(* from others: a string is its characters.  Registers are the first       *)
(* places of the stack.  Userdata is left out, as are constant operands    *)
(* and the barriers of the collector.                                      *)
(***************************************************************************)
EXTENDS Integers, Sequences, TLC
LOCAL INSTANCE SequencesExt

CONSTANTS MAXTAGLOOP,
          FRAMESIZE,      \* registers of the function
          Numerals        \* strings that are numerals

VARIABLES opvm      \* the machine

NoValue == [t |-> "nil", v |-> <<>>]
Truth(b) == [t |-> "boolean", v |-> IF b THEN <<"true">> ELSE <<"false">>]
Tab(name) == [t |-> "table", v |-> <<name>>]
Func(name) == [t |-> "function", v |-> <<name>>]
isfalse(o) == o \in {NoValue, Truth(FALSE)}
istable(o) == o.t = "table"
isfunction(o) == o.t = "function"

\* Tables and their metatables, which are tables; strings have one together.
Metatables == [x |-> "mx", y |-> "my"]
Tables_ == {"x", "y", "mx", "my", "ms"}
Cached_ == {"__index", "__newindex", "__len", "__eq"}
metatable(o) ==
    IF istable(o) THEN IF o.v[1] \in DOMAIN Metatables THEN {Metatables[o.v[1]]} ELSE {}
    ELSE IF o.t = "string" THEN {"ms"} ELSE {}
Field_(content, t, name) == IF <<t, name>> \in DOMAIN content THEN content[<<t, name>>] ELSE NoValue
rawget(m, o, key) == IF key.t # "string" THEN NoValue ELSE Field_(m.content, o.v[1], key.v[1])

Ended(m) == [m EXCEPT !.ctl = "ended"]
Errs(m) == [m EXCEPT !.ctl = "error"]
Put(m, at, o) == [m EXCEPT !.stack[at] = o]
citop == FRAMESIZE + 1

-----------------------------------------------------------------------------
(* Metamethods *)

luaT_gettmbyobj(m, o, event) ==
    IF metatable(o) = {} THEN NoValue ELSE Field_(m.content, CHOOSE t \in metatable(o) : TRUE, event)

\* The absence of some metamethods is remembered in their metatable.
fasttm(m, o, event) ==
    IF \E t \in metatable(o) : event \in m.flags[t] THEN NoValue ELSE luaT_gettmbyobj(m, o, event)
luaT_gettm(m, o, event) ==
    [m EXCEPT !.flags = [t \in Tables_ |-> IF t \in metatable(o) /\ Field_(m.content, t, event) = NoValue
                                           THEN @[t] \cup {event} ELSE @[t]]]
invalidateTMcache(m, t) == [m EXCEPT !.flags[t] = {}]

\* Something that is no function is called through its metamethod, of which it is an argument.
tryfuncTM(m, func) ==
    LET tm == luaT_gettmbyobj(m, m.stack[func], "__call")
    IN  IF ~isfunction(tm) THEN Errs(m)
        ELSE [m EXCEPT !.top = @ + 1,
                       !.stack = [s \in DOMAIN @ |-> IF s = func THEN tm
                                                     ELSE IF s > func /\ s <= m.top THEN @[s - 1] ELSE @[s]]]

\* A call is under way; "then" is what the piece of C that waits for it does next.
Calls(m, func, nresults, then) ==
    LET ready == IF isfunction(m.stack[func]) THEN m ELSE tryfuncTM(m, func)
        args == SubSeq(ready.stack, func + 1, ready.top - 1)
    IN  IF ready.ctl = "error" THEN ready
        ELSE [ready EXCEPT !.ctl = "call", !.under = [func |-> func, nresults |-> nresults, then |-> then],
                           !.called = Append(@, [f |-> ready.stack[func], args |-> args, results |-> <<>>])]

luaT_callTM(m, f, args, nresults, then) ==
    Calls([m EXCEPT !.stack = [s \in DOMAIN @ |-> IF s = m.top THEN f
                                                  ELSE IF s - m.top \in DOMAIN args THEN args[s - m.top] ELSE @[s]],
                    !.top = @ + 1 + Len(args)], m.top, nresults, then)

\* The metamethod of a binary operator is the one of the first operand that has one.
Handler_(m, p1, p2, event) ==
    IF luaT_gettmbyobj(m, p1, event) # NoValue THEN luaT_gettmbyobj(m, p1, event) ELSE luaT_gettmbyobj(m, p2, event)
luaT_trybinTM(m, p1, p2, event, then) ==
    IF Handler_(m, p1, p2, event) = NoValue THEN Errs(m)
    ELSE luaT_callTM(m, Handler_(m, p1, p2, event), <<p1, p2>>, 1, then)

-----------------------------------------------------------------------------
(* Tables *)

RECURSIVE luaV_finishget(_, _, _, _, _)
luaV_finishget(m, t, key, val, loop) ==
    LET looked == IF istable(t) THEN luaT_gettm(m, t, "__index") ELSE m
        tm == IF istable(t) THEN fasttm(m, t, "__index") ELSE luaT_gettmbyobj(m, t, "__index")
    IN  IF loop = MAXTAGLOOP THEN Errs(m)
        ELSE IF tm = NoValue THEN IF istable(t) THEN Ended(Put(looked, val, NoValue)) ELSE Errs(m)
        ELSE IF isfunction(tm) THEN luaT_callTM(looked, tm, <<t, key>>, 1, [do |-> "result", at |-> val])
        ELSE IF istable(tm) /\ rawget(looked, tm, key) # NoValue THEN Ended(Put(looked, val, rawget(looked, tm, key)))
        ELSE luaV_finishget(looked, tm, key, val, loop + 1)

luaV_gettable(m, t, key, val) ==
    IF istable(t) /\ rawget(m, t, key) # NoValue THEN Ended(Put(m, val, rawget(m, t, key)))
    ELSE luaV_finishget(m, t, key, val, 0)

SetSlot(m, t, key, val) == [m EXCEPT !.content = (<<t.v[1], key.v[1]>> :> val) @@ @]

RECURSIVE luaV_finishset(_, _, _, _, _)
luaV_finishset(m, t, key, val, loop) ==
    LET looked == IF istable(t) THEN luaT_gettm(m, t, "__newindex") ELSE m
        tm == IF istable(t) THEN fasttm(m, t, "__newindex") ELSE luaT_gettmbyobj(m, t, "__newindex")
    IN  IF loop = MAXTAGLOOP THEN Errs(m)
        ELSE IF tm = NoValue
        THEN IF ~istable(t) \/ key = NoValue THEN Errs(looked)
             ELSE Ended(invalidateTMcache(SetSlot(looked, t, key, val), t.v[1]))
        ELSE IF isfunction(tm) THEN luaT_callTM(looked, tm, <<t, key, val>>, 0, [do |-> "nothing"])
        ELSE IF istable(tm) /\ rawget(looked, tm, key) # NoValue THEN Ended(SetSlot(looked, tm, key, val))
        ELSE luaV_finishset(looked, tm, key, val, loop + 1)

\* What exists is set at once.
luaV_settable(m, t, key, val) ==
    IF istable(t) /\ rawget(m, t, key) # NoValue THEN Ended(SetSlot(m, t, key, val))
    ELSE luaV_finishset(m, t, key, val, 0)

lua_rawset(m, t, key, val) == invalidateTMcache(SetSlot(m, t, key, val), t.v[1])

-----------------------------------------------------------------------------
(* Operators *)

isnumber(o) == o.t = "number"
convertible(o) == isnumber(o) \/ o \in Numerals
hasinteger(o) == convertible(o) /\ o.v # <<"1.5">>
Arith_(event, l, r) == [t |-> "number", v |-> <<event>> \o l.v \o r.v]

\* OP_ADD and the other arithmetic instructions; OP_BAND and the other ones on integers.
Arithmetic_(m, event, l, r, ra) ==
    IF IF event \in {"__band", "__bnot", "__shl"} THEN hasinteger(l) /\ hasinteger(r) ELSE convertible(l) /\ convertible(r)
    THEN Ended(Put(m, ra, Arith_(event, l, r)))
    ELSE luaT_trybinTM(m, l, r, event, [do |-> "result", at |-> ra])

luaV_objlen(m, o, ra) ==
    LET looked == IF istable(o) THEN luaT_gettm(m, o, "__len") ELSE m
        tm == IF istable(o) THEN fasttm(m, o, "__len") ELSE luaT_gettmbyobj(m, o, "__len")
    IN  IF o.t = "string" \/ (istable(o) /\ tm = NoValue)
        THEN Ended(Put(looked, ra, [t |-> "number", v |-> <<"#">> \o o.v]))
        ELSE IF tm = NoValue THEN Errs(m)
        ELSE luaT_callTM(looked, tm, <<o, o>>, 1, [do |-> "result", at |-> ra])

\* The jump that follows a comparison is taken when the outcome is the one wanted.
Compared(m, res) == Ended([m EXCEPT !.jumps = res = m.inst.want])
Negated(m) == [do |-> "truth", negate |-> m.leq]

EqualWith(m, l, r) ==
    LET tm == IF fasttm(m, l, "__eq") # NoValue THEN fasttm(m, l, "__eq") ELSE fasttm(m, r, "__eq")
        looked == IF fasttm(m, l, "__eq") # NoValue THEN m ELSE luaT_gettm(luaT_gettm(m, l, "__eq"), r, "__eq")
    IN  IF l.t # r.t \/ l = r \/ ~istable(l) THEN Compared(m, l = r)
        ELSE IF tm = NoValue THEN Compared(looked, FALSE)
        ELSE luaT_callTM(looked, tm, <<l, r>>, 1, Negated(m))

\* Of the orders of numbers and strings, which LuaNumbers has, a part is enough.
Ordered(l, r) == \/ isnumber(l) /\ isnumber(r)
                 \/ l.t = "string" /\ r.t = "string"
IsLess(l, r) == <<l.v, r.v>> = <<<<"1">>, <<"1.5">>>> \/ (l.v = <<>> /\ r.v # <<>>)

luaV_lessthan(m, l, r) ==
    IF Ordered(l, r) THEN Compared(m, IsLess(l, r)) ELSE luaT_trybinTM(m, l, r, "__lt", Negated(m))

\* Without `__le', `__lt' is called for it with the operands exchanged.
luaV_lessequal(m, l, r) ==
    IF Ordered(l, r) THEN Compared(m, l = r \/ IsLess(l, r))
    ELSE IF Handler_(m, l, r, "__le") # NoValue THEN luaT_trybinTM(m, l, r, "__le", Negated(m))
    ELSE LET marked == [m EXCEPT !.leq = TRUE] IN luaT_trybinTM(marked, r, l, "__lt", Negated(marked))

\* Concatenates the last values of the stack, as many strings at once as there are; "finishing" if
\* luaV_finishOp does it.
Stringy(o) == o.t = "string" \/ isnumber(o)
tostring(o) == [t |-> "string", v |-> o.v]
ConcatEnds(m, finishing) ==
    Ended([Put(m, m.inst.a, m.stack[IF finishing THEN m.top - 1 ELSE m.inst.b]) EXCEPT !.top = citop])

RECURSIVE luaV_concat(_, _, _)
luaV_concat(m, total, finishing) ==
    LET At_(n) == m.stack[m.top - n]
        last == Put(m, m.top - 1, tostring(At_(1)))
        most == CHOOSE n \in 2 .. total : /\ \A k \in 1 .. n : Stringy(At_(k))
                                          /\ n < total => ~Stringy(At_(n + 1))
        n == IF tostring(At_(1)).v = <<>> \/ At_(2).v = <<>> THEN 2 ELSE most
        text == [t |-> "string", v |-> FlattenSeq([k \in 1 .. n |-> m.stack[m.top - n - 1 + k].v])]
    IN  IF total <= 1 THEN ConcatEnds(m, finishing)
        ELSE IF ~Stringy(At_(2)) \/ ~Stringy(At_(1))
        THEN luaT_trybinTM(m, At_(2), At_(1), "__concat",
                           [do |-> "concat", total |-> total, finishing |-> finishing])
        ELSE luaV_concat([Put(last, m.top - n, text) EXCEPT !.top = @ - (n - 1)], total - (n - 1), finishing)

\* OP_TFORLOOP, to which OP_TFORCALL always goes on.
tforloop(m) ==
    LET ra == m.inst.a + 2
    IN  IF m.stack[ra + 1] # NoValue THEN Ended([Put(m, ra, m.stack[ra + 1]) EXCEPT !.jumps = TRUE])
        ELSE Ended([m EXCEPT !.jumps = FALSE])

-----------------------------------------------------------------------------
(* Instructions *)

luaV_execute_(m) ==
    LET i == m.inst
        Rg(r) == m.stack[r]
        loop == [m EXCEPT !.stack = [s \in DOMAIN @ |-> IF s \in i.a + 3 .. i.a + 5 THEN @[s - 3] ELSE @[s]],
                          !.top = i.a + 6]
    IN  CASE i.op = "arith" -> Arithmetic_(m, i.event, Rg(i.b), Rg(i.c), i.a)
          [] i.op = "unary" -> Arithmetic_(m, i.event, Rg(i.b), Rg(i.b), i.a)
          [] i.op = "OP_LEN" -> luaV_objlen(m, Rg(i.b), i.a)
          [] i.op = "OP_GETTABLE" -> luaV_gettable(m, Rg(i.b), Rg(i.c), i.a)
          [] i.op = "OP_SELF" -> luaV_gettable(Put(m, i.a + 1, Rg(i.b)), Rg(i.b), i.key, i.a)
          [] i.op = "OP_SETTABLE" -> luaV_settable(m, Rg(i.a), i.key, Rg(i.c))
          [] i.op = "OP_EQ" -> EqualWith(m, Rg(i.b), Rg(i.c))
          [] i.op = "OP_LT" -> luaV_lessthan(m, Rg(i.b), Rg(i.c))
          [] i.op = "OP_LE" -> luaV_lessequal(m, Rg(i.b), Rg(i.c))
          [] i.op = "OP_CONCAT" -> luaV_concat([m EXCEPT !.top = i.c + 1], i.c - i.b + 1, FALSE)
          [] i.op = "OP_CALL" -> Calls([m EXCEPT !.top = i.a + i.b], i.a, i.c - 1, [do |-> "call"])
          [] i.op = "OP_TFORCALL" -> Calls(loop, i.a + 3, i.c, [do |-> "tforcall"])

\* The results of the call are moved to where its function was, as many as are wanted.
Poscall(m, results) ==
    LET func == m.under.func
        wanted == IF m.under.nresults = -1 THEN Len(results) ELSE m.under.nresults
    IN  [m EXCEPT !.top = func + wanted,
                  !.stack = [s \in DOMAIN @ |-> IF s \notin func .. func + wanted - 1 THEN @[s]
                                                ELSE IF s - func + 1 \in DOMAIN results THEN results[s - func + 1]
                                                ELSE NoValue],
                  !.called[Len(m.called)].results = results]

\* The call returns to the piece of C that waits for it.
Continued(m) ==
    LET then == m.under.then
        answer == m.stack[m.top - 1]
        popped == [m EXCEPT !.top = @ - 1]
        adjusted == [m EXCEPT !.top = citop]
    IN  CASE then.do = "result" -> Ended(Put(popped, then.at, answer))
          [] then.do = "nothing" -> Ended(m)
          [] then.do = "truth" -> Compared([popped EXCEPT !.leq = FALSE], isfalse(answer) = then.negate)
          [] then.do = "concat" -> luaV_concat([Put(m, m.top - 3, answer) EXCEPT !.top = @ - 2],
                                               then.total - 1, then.finishing)
          [] then.do = "call" -> Ended(IF m.inst.c - 1 >= 0 THEN adjusted ELSE m)
          [] then.do = "tforcall" -> tforloop(adjusted)

\* Seeded error: that `__lt' has stood for `__le' is not known.
FinishUnnegated(m) ==
    IF m.inst.op \in {"OP_LE", "OP_LT", "OP_EQ"}
    THEN Compared([m EXCEPT !.top = @ - 1, !.leq = FALSE], ~isfalse(m.stack[m.top - 1]))
    ELSE Continued(m)

luaV_finishOp(m) ==
    LET i == m.inst
        answer == m.stack[m.top - 1]
        popped == [m EXCEPT !.top = @ - 1]
        adjusted == [m EXCEPT !.top = citop]
        top == m.top - 1
        total == top - 1 - i.b
        placed == Put(m, top - 2, m.stack[top])
    IN  CASE i.op \in {"arith", "unary", "OP_LEN", "OP_GETTABLE", "OP_SELF"} -> Ended(Put(popped, i.a, answer))
          [] i.op \in {"OP_LE", "OP_LT", "OP_EQ"} ->
               Compared([popped EXCEPT !.leq = FALSE], IF m.leq THEN isfalse(answer) ELSE ~isfalse(answer))
          [] i.op = "OP_CONCAT" ->
               IF total > 1 THEN luaV_concat([placed EXCEPT !.top = top - 1], total, TRUE) ELSE ConcatEnds(placed, TRUE)
          [] i.op = "OP_TFORCALL" -> tforloop(adjusted)
          [] i.op = "OP_CALL" -> Ended(IF i.c - 1 >= 0 THEN adjusted ELSE m)
          [] i.op = "OP_SETTABLE" -> Ended(m)

-----------------------------------------------------------------------------
(* Specification *)

\* A function is about to take so many instructions of a program, with its registers and tables.
Machine(program, content, registers, most) ==
    [content |-> content, flags |-> [t \in Tables_ |-> {}],
     stack |-> [s \in 1 .. FRAMESIZE + 6 |-> IF s \in DOMAIN registers THEN registers[s] ELSE NoValue],
     top |-> citop, inst |-> [op |-> "none"], leq |-> FALSE, ctl |-> "ended", under |-> [func |-> 0],
     called |-> <<>>, jumps |-> FALSE, left |-> most, program |-> program, before |-> [top |-> 0]]

Instruction(instructions) ==
    /\ opvm.ctl = "ended" /\ opvm.left > 0 /\ opvm.top = citop
    /\ \E i \in instructions :
           opvm' = luaV_execute_([opvm EXCEPT !.inst = i, !.ctl = "run", !.called = <<>>, !.left = @ - 1,
                                          !.before = [stack |-> opvm.stack, content |-> opvm.content]])

\* The function that is called returns, or yields, is resumed and returns.
Returns(results) == opvm.ctl = "call" /\ opvm' = Continued(Poscall(opvm, results))
YieldsFirst(results) == opvm.ctl = "call" /\ opvm' = luaV_finishOp(Poscall(opvm, results))

\* Between two instructions a function such as rawset() changes a metatable.
RawSet(t, key, o) ==
    /\ opvm.ctl = "ended" /\ opvm.left > 0 /\ opvm.inst.op # "rawset"
    /\ opvm' = [lua_rawset(opvm, t, key, o) EXCEPT !.inst = [op |-> "rawset"], !.left = @ - 1]

-----------------------------------------------------------------------------
(* What operators mean *)

Meta(o, event) ==
    IF metatable(o) = {} THEN NoValue ELSE Field_(opvm.before.content, CHOOSE t \in metatable(o) : TRUE, event)
Answer(n) == IF opvm.called[n].results = <<>> THEN NoValue ELSE Head(opvm.called[n].results)

\* The calls an instruction makes, what it sets, and whether it fails.
Plain(value) == [calls |-> <<>>, value |-> value, fails |-> FALSE]
Fails(calls) == [calls |-> calls, value |-> NoValue, fails |-> TRUE]
CallOf(h, args) ==
    IF isfunction(h) THEN <<h, args>> ELSE <<Meta(h, "__call"), <<h>> \o args>>
Asks(h, args) ==
    IF h = NoValue \/ ~isfunction(CallOf(h, args)[1]) THEN Fails(<<>>)
    ELSE [calls |-> <<CallOf(h, args)>>, value |-> IF opvm.called = <<>> THEN NoValue ELSE Answer(1), fails |-> FALSE]
Either(event, l, r) == IF Meta(l, event) # NoValue THEN Meta(l, event) ELSE Meta(r, event)

\* The metamethods of a chain of tables, and the first of them that is no table or has the key.
RECURSIVE Chain_(_, _, _, _)
Chain_(o, key, event, n) ==
    IF n = 0 THEN <<>>
    ELSE <<o>> \o IF isfunction(o) \/ (istable(o) /\ rawget(opvm.before, o, key) # NoValue)
                     \/ Meta(o, event) = NoValue
                  THEN <<>> ELSE Chain_(Meta(o, event), key, event, n - 1)

\* Concatenation is from right to left.
RECURSIVE Concatenated(_, _)
Concatenated(vs, calls) ==
    LET k == Len(vs)
        l == vs[k - 1]
        r == vs[k]
        h == Either("__concat", l, r)
        asked == Append(calls, CallOf(h, <<l, r>>))
    IN  IF k = 1 THEN [calls |-> calls, value |-> vs[1], fails |-> FALSE]
        ELSE IF Stringy(l) /\ Stringy(r)
        THEN Concatenated(Append(SubSeq(vs, 1, k - 2), [t |-> "string", v |-> l.v \o r.v]), calls)
        ELSE IF h = NoValue \/ ~isfunction(CallOf(h, <<l, r>>)[1]) THEN Fails(calls)
        ELSE Concatenated(Append(SubSeq(vs, 1, k - 2), Answer(Len(asked))), asked)

\* What is read with a key, and where it is written to.
Read(o, key) ==
    LET chain == Chain_(o, key, "__index", MAXTAGLOOP + 1)
        end == chain[Len(chain)]
    IN  IF isfunction(end) /\ Len(chain) > 1
        THEN Asks(end, <<chain[Len(chain) - 1], key>>)
        ELSE IF Len(chain) = MAXTAGLOOP + 1 /\ (~istable(end) \/ rawget(opvm.before, end, key) = NoValue) THEN Fails(<<>>)
        ELSE IF istable(end) THEN Plain(rawget(opvm.before, end, key)) ELSE Fails(<<>>)

Meant ==
    LET i == opvm.inst
        Rg(r) == opvm.before.stack[r]
        Test(asked) == [asked EXCEPT !.value = Truth(~isfalse(@))]
        Not_(asked) == [asked EXCEPT !.value = Truth(isfalse(@))]
    IN  CASE i.op \in {"arith", "unary"} ->
               LET l == Rg(i.b)
                   r == Rg(IF i.op = "arith" THEN i.c ELSE i.b)
                   whole == i.event \notin {"__band", "__bnot", "__shl"}
               IN  IF \A o \in {l, r} : convertible(o) /\ (whole \/ hasinteger(o)) THEN Plain(Arith_(i.event, l, r))
                   ELSE Asks(Either(i.event, l, r), <<l, r>>)
          [] i.op = "OP_LEN" ->
               LET o == Rg(i.b)
               IN  IF o.t = "string" \/ (istable(o) /\ Meta(o, "__len") = NoValue)
                   THEN Plain([t |-> "number", v |-> <<"#">> \o o.v]) ELSE Asks(Meta(o, "__len"), <<o, o>>)
          [] i.op = "OP_GETTABLE" -> Read(Rg(i.b), Rg(i.c))
          [] i.op = "OP_SELF" -> Read(Rg(i.b), i.key)
          [] i.op = "OP_EQ" ->
               LET l == Rg(i.b)
                   r == Rg(i.c)
               IN  IF istable(l) /\ istable(r) /\ l # r /\ Either("__eq", l, r) # NoValue
                   THEN Test(Asks(Either("__eq", l, r), <<l, r>>)) ELSE Plain(Truth(l = r))
          [] i.op \in {"OP_LT", "OP_LE"} ->
               LET l == Rg(i.b)
                   r == Rg(i.c)
                   orEqual == i.op = "OP_LE"
               IN  IF Ordered(l, r) THEN Plain(Truth(IsLess(l, r) \/ (orEqual /\ l = r)))
                   ELSE IF ~orEqual THEN Test(Asks(Either("__lt", l, r), <<l, r>>))
                   ELSE IF Either("__le", l, r) # NoValue THEN Test(Asks(Either("__le", l, r), <<l, r>>))
                   ELSE Not_(Asks(Either("__lt", r, l), <<r, l>>))
          [] i.op = "OP_CONCAT" -> Concatenated([k \in 1 .. i.c - i.b + 1 |-> Rg(i.b + k - 1)], <<>>)
          [] i.op = "OP_CALL" -> Asks(Rg(i.a), [k \in 1 .. i.b - 1 |-> Rg(i.a + k)])
          [] i.op = "OP_TFORCALL" -> Asks(Rg(i.a), <<Rg(i.a + 1), Rg(i.a + 2)>>)

\* Where a value is written: a table that has the key or no metamethod, or a function that is asked.
Written_ ==
    LET o == opvm.before.stack[opvm.inst.a]
        key == opvm.inst.key
        val == opvm.before.stack[opvm.inst.c]
        chain == Chain_(o, key, "__newindex", MAXTAGLOOP + 1)
        end == chain[Len(chain)]
        known == istable(end) /\ rawget(opvm.before, end, key) # NoValue
        fails == ~istable(end) \/ (key = NoValue /\ ~known) \/ (Len(chain) = MAXTAGLOOP + 1 /\ ~known)
    IN  IF isfunction(end) /\ Len(chain) > 1
        THEN [fails |-> FALSE, calls |-> <<CallOf(end, <<chain[Len(chain) - 1], key, val>>)>>, content |-> opvm.before.content]
        ELSE [fails |-> fails, calls |-> <<>>,
              content |-> IF fails THEN opvm.before.content
                          ELSE (<<end.v[1], key.v[1]>> :> val) @@ opvm.before.content]

-----------------------------------------------------------------------------
(* Properties *)

Over == opvm.ctl \in {"ended", "error"} /\ opvm.inst.op \notin {"none", "rawset"}
Called == [n \in DOMAIN opvm.called |-> <<opvm.called[n].f, opvm.called[n].args>>]
Results_ == opvm.called[1].results
Result(n) == IF n \in DOMAIN Results_ THEN Results_[n] ELSE NoValue

\* An operator calls the metamethods it should with the operands they belong to, in order, and makes
\* of their results what it should, whether each of them returns or yields first (luaV_finishOp).
OperatorsAsMeant ==
    Over =>
        LET i == opvm.inst
            wanted == IF i.c = 0 THEN Len(Results_) ELSE i.c - 1
        IN  IF i.op = "OP_SETTABLE"
            THEN /\ Called = Written_.calls /\ opvm.content = Written_.content
                 /\ opvm.ctl = "error" <=> Written_.fails
            ELSE /\ Called = Meant.calls
                 /\ opvm.ctl = "error" <=> Meant.fails
                 /\ ~Meant.fails =>
                       CASE i.op \in {"OP_LT", "OP_LE", "OP_EQ"} -> opvm.jumps = (Meant.value = Truth(i.want))
                         [] i.op = "OP_CALL" -> \A n \in 1 .. wanted : opvm.stack[i.a + n - 1] = Result(n)
                         [] i.op = "OP_TFORCALL" ->
                              /\ \A n \in 1 .. i.c : opvm.stack[i.a + 2 + n] = Result(n)
                              /\ opvm.jumps = (Result(1) # NoValue)
                              /\ opvm.stack[i.a + 2] = IF opvm.jumps THEN Result(1) ELSE opvm.before.stack[i.a + 2]
                         [] OTHER -> opvm.stack[i.a] = Meant.value

\* An instruction leaves the top of the stack at the end of the frame, unless it is a call with as many
\* results as there are, and no register changes that is not its own: operands of a concatenation are
\* the last registers in use.
StackTopRestored ==
    Over /\ opvm.ctl = "ended" =>
        LET i == opvm.inst
            own == CASE i.op = "OP_CONCAT" -> {i.a} \cup i.b .. FRAMESIZE
                     [] i.op \in {"OP_CALL", "OP_TFORCALL"} -> i.a .. FRAMESIZE
                     [] i.op = "OP_SELF" -> {i.a, i.a + 1}
                     [] i.op \in {"OP_LT", "OP_LE", "OP_EQ", "OP_SETTABLE"} -> {}
                     [] OTHER -> {i.a}
        IN  /\ opvm.top = IF i.op = "OP_CALL" /\ i.c = 0 THEN i.a + Len(Results_) ELSE citop
            /\ \A r \in 1 .. FRAMESIZE \ own : opvm.stack[r] = opvm.before.stack[r]
            /\ ~opvm.leq

\* A metamethod that is remembered as missing is missing, however its metatable has been changed.
CacheIsTruthful == \A t \in Tables_, event \in Cached_ : event \in opvm.flags[t] => Field_(opvm.content, t, event) = NoValue

\* Instructions that call metamethods end as if they had not been interrupted, and find the metamethods
\* there are (lvm.c; ltm.c).
OperatorsSound == OperatorsAsMeant /\ StackTopRestored /\ CacheIsTruthful
=============================================================================
