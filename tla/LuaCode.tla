------------------------------ MODULE LuaCode ------------------------------
(***************************************************************************)
(* The code generator of the vendored Lua (lcode.c).  Code for an          *)
(* expression is put off as long as possible: an expression descriptor     *)
(* says where the value will be, and carries two lists of jumps that       *)
(* leave the expression when it is true or false.  The links of a list are *)
(* kept in the jumps themselves.  A function being compiled is a record    *)
(* whose field `broken' collects the names of assertions of the source     *)
(* (compiled out in the program) that did not hold.  Numerals are          *)
(* integers; lines are left out.                                           *)
(***************************************************************************)
EXTENDS Integers, Sequences

CONSTANTS MAXREGS,            \* registers of a function
          MAXINDEXRK,         \* the last constant an operand can name
          MAXARG_Bx,          \* the last constant OP_LOADK can name
          LFIELDS_PER_FLUSH   \* list items stored at once

NO_JUMP == -1
NO_REG == MAXREGS

\* An expression: its kind, register, position or constant; the key and the kind of table of
\* VINDEXED; and its lists of jumps.
Exp(kind, info) ==
    [k |-> kind, info |-> info, idx |-> 0, vt |-> "VLOCAL", t |-> NO_JUMP, f |-> NO_JUMP]

Both(fs, e) == [fs |-> fs, e |-> e]
hasjumps(e) == e.t # e.f
tonumeral(e) == e.k = "VKINT" /\ ~hasjumps(e)

\* An operand that is a constant is negative.
RKASK(k) == -1 - k
ISK(rk) == rk < 0

Ins(op, a, b, c) == [op |-> op, a |-> a, b |-> b, c |-> c]
Pc(fs) == Len(fs.code)
Code(fs, pc) == fs.code[pc + 1]
TestMode == {"EQ", "LT", "LE", "TEST", "TESTSET"}

Asserted(fs, name, holds) == IF holds THEN fs ELSE [fs EXCEPT !.broken = @ \cup {name}]

-----------------------------------------------------------------------------
(* Jumps and their lists *)

getjump(fs, pc) ==
    LET offset == Code(fs, pc).b IN IF offset = NO_JUMP THEN NO_JUMP ELSE pc + 1 + offset

fixjump(fs, pc, dest) ==
    [Asserted(fs, "fixjump", dest # NO_JUMP) EXCEPT !.code[pc + 1].b = dest - (pc + 1)]

RECURSIVE LastJump(_, _)
LastJump(fs, list) ==
    LET next == getjump(fs, list) IN IF next = NO_JUMP THEN list ELSE LastJump(fs, next)

\* The list that starts with l1 and goes on with l2, and where it starts.
luaK_concat(fs, l1, l2) ==
    IF l1 = NO_JUMP \/ l2 = NO_JUMP THEN fs ELSE fixjump(fs, LastJump(fs, l1), l2)
Start(l1, l2) == IF l1 = NO_JUMP THEN l2 ELSE l1

getjumpcontrol(fs, pc) == IF pc >= 1 /\ Code(fs, pc - 1).op \in TestMode THEN pc - 1 ELSE pc

IsTestSet(fs, node) == Code(fs, getjumpcontrol(fs, node)).op = "TESTSET"

patchtestreg(fs, node, reg) ==
    LET at == getjumpcontrol(fs, node)
        i == Code(fs, at)
    IN  IF ~IsTestSet(fs, node) THEN fs
        ELSE IF reg # NO_REG /\ reg # i.b THEN [fs EXCEPT !.code[at + 1].a = reg]
        ELSE [fs EXCEPT !.code[at + 1] = Ins("TEST", i.b, 0, i.c)]

RECURSIVE removevalues(_, _)
removevalues(fs, list) ==
    IF list = NO_JUMP THEN fs
    ELSE removevalues(patchtestreg(fs, list, NO_REG), getjump(fs, list))

RECURSIVE patchlistaux(_, _, _, _, _)
patchlistaux(fs, list, vtarget, reg, dtarget) ==
    IF list = NO_JUMP THEN fs
    ELSE LET target == IF IsTestSet(fs, list) THEN vtarget ELSE dtarget
         IN  patchlistaux(fixjump(patchtestreg(fs, list, reg), list, target),
                          getjump(fs, list), vtarget, reg, dtarget)

dischargejpc(fs) ==
    [patchlistaux(fs, fs.jpc, Pc(fs), NO_REG, Pc(fs)) EXCEPT !.jpc = NO_JUMP]

luaK_getlabel(fs) == [fs EXCEPT !.lasttarget = Pc(fs)]

luaK_patchtohere(fs, list) ==
    [luaK_concat(luaK_getlabel(fs), fs.jpc, list) EXCEPT !.jpc = Start(fs.jpc, list)]

luaK_patchlist(fs, list, target) ==
    IF target = Pc(fs) THEN luaK_patchtohere(fs, list)
    ELSE patchlistaux(Asserted(fs, "patchlist", target < Pc(fs)), list, target, NO_REG, target)

RECURSIVE luaK_patchclose(_, _, _)
luaK_patchclose(fs, list, level) ==
    IF list = NO_JUMP THEN fs
    ELSE LET i == Code(fs, list)
         IN  luaK_patchclose([Asserted(fs, "patchclose", i.op = "JMP" /\ (i.a = 0 \/ i.a >= level + 1))
                                 EXCEPT !.code[list + 1].a = level + 1],
                             getjump(fs, list), level)

\* Emits an instruction: its place is the one before the new end of the code.
luaK_code(fs, i) == LET g == dischargejpc(fs) IN [g EXCEPT !.code = Append(@, i)]
luaK_codeABC(fs, op, a, b, c) == luaK_code(fs, Ins(op, a, b, c))
luaK_ret(fs, first, nret) == luaK_codeABC(fs, "RETURN", first, nret + 1, 0)

luaK_jump(fs) ==
    LET g == luaK_codeABC([fs EXCEPT !.jpc = NO_JUMP], "JMP", 0, NO_JUMP, 0)
    IN  luaK_concat(g, Pc(g) - 1, fs.jpc)

condjump(fs, op, a, b, c) == luaK_jump(luaK_codeABC(fs, op, a, b, c))

\* Seeded error: widens an earlier OP_LOADNIL across a target of jumps.
NilAcrossTarget(fs, from, n) ==
    LET previous == fs.code[Pc(fs)]
        pl == previous.a + previous.b
        last == IF pl > from + n - 1 THEN pl ELSE from + n - 1
    IN  IF Pc(fs) > 0 /\ previous.op = "LOADNIL" /\ previous.a <= from /\ from <= pl + 1
        THEN [fs EXCEPT !.code[Pc(fs)].b = last - previous.a]
        ELSE luaK_codeABC(fs, "LOADNIL", from, n - 1, 0)

\* Registers become nil: ranges that touch are joined unless something jumps to here.
luaK_nil(fs, from, n) ==
    LET previous == fs.code[Pc(fs)]
        pl == previous.a + previous.b
        l == from + n - 1
        first == IF previous.a < from THEN previous.a ELSE from
        last == IF pl > l THEN pl ELSE l
    IN  IF /\ Pc(fs) > fs.lasttarget /\ previous.op = "LOADNIL"
           /\ (previous.a <= from /\ from <= pl + 1) \/ (from <= previous.a /\ previous.a <= l + 1)
        THEN [fs EXCEPT !.code[Pc(fs)] = Ins("LOADNIL", first, last - first, 0)]
        ELSE luaK_codeABC(fs, "LOADNIL", from, n - 1, 0)

-----------------------------------------------------------------------------
(* Registers and constants *)

luaK_checkstack(fs, n) ==
    LET newstack == fs.freereg + n
    IN  IF newstack <= fs.maxstacksize THEN fs
        ELSE IF newstack >= MAXREGS THEN [fs EXCEPT !.error = "too many registers"]
        ELSE [fs EXCEPT !.maxstacksize = newstack]

luaK_reserveregs(fs, n) == [luaK_checkstack(fs, n) EXCEPT !.freereg = @ + n]

freereg(fs, reg) ==
    IF ISK(reg) \/ reg < fs.nactvar THEN fs
    ELSE [Asserted(fs, "freereg", reg = fs.freereg - 1) EXCEPT !.freereg = @ - 1]

freeexp(fs, e) == IF e.k = "VNONRELOC" THEN freereg(fs, e.info) ELSE fs

freeexps(fs, e1, e2) ==
    IF e1.k = "VNONRELOC" /\ (e2.k # "VNONRELOC" \/ e1.info > e2.info)
    THEN freeexp(freeexp(fs, e1), e2)
    ELSE freeexp(freeexp(fs, e2), e1)

\* The place of a constant is cached for the whole text, so what the cache says may be meant
\* for another function: it counts when the value is there.
Cached(fs, v) == v \in DOMAIN fs.h /\ fs.h[v] < Len(fs.k) /\ fs.k[fs.h[v] + 1] = v

addk(fs, v) ==
    IF Cached(fs, v) THEN fs
    ELSE [fs EXCEPT !.k = Append(@, v), !.h = [x \in DOMAIN @ \cup {v} |->
                                                  IF x = v THEN Len(fs.k) ELSE @[x]]]

ConstantOf(e) ==
    CASE e.k = "VNIL" -> <<"nil">>
      [] e.k = "VTRUE" -> <<"true">>
      [] e.k = "VFALSE" -> <<"false">>
      [] e.k = "VKINT" -> <<"int", e.info>>

luaK_codek(fs, reg, k) ==
    IF k <= MAXARG_Bx THEN luaK_codeABC(fs, "LOADK", reg, k, 0)
    ELSE luaK_code(luaK_codeABC(fs, "LOADKX", reg, 0, 0), Ins("EXTRAARG", 0, k, 0))

-----------------------------------------------------------------------------
(* Values into registers *)

luaK_setreturns(fs, e, nresults) ==
    CASE e.k = "VCALL" -> [fs EXCEPT !.code[e.info + 1].c = nresults + 1]
      [] e.k = "VVARARG" ->
           luaK_reserveregs([fs EXCEPT !.code[e.info + 1].b = nresults + 1,
                                       !.code[e.info + 1].a = fs.freereg], 1)
      [] OTHER -> Asserted(fs, "setreturns", nresults = -1)

luaK_setoneret(fs, e) ==
    CASE e.k = "VCALL" ->
           Both(Asserted(fs, "setoneret", Code(fs, e.info).c = 2),
                [e EXCEPT !.k = "VNONRELOC", !.info = Code(fs, e.info).a])
      [] e.k = "VVARARG" -> Both([fs EXCEPT !.code[e.info + 1].b = 2], [e EXCEPT !.k = "VRELOCABLE"])
      [] OTHER -> Both(fs, e)

\* What has just been emitted gives the value, and may still put it into any register.
Emitted(fs, e) == Both(fs, [e EXCEPT !.k = "VRELOCABLE", !.info = Pc(fs) - 1])

luaK_dischargevars(fs, e) ==
    CASE e.k = "VLOCAL" -> Both(fs, [e EXCEPT !.k = "VNONRELOC"])
      [] e.k = "VUPVAL" -> Emitted(luaK_codeABC(fs, "GETUPVAL", 0, e.info, 0), e)
      [] e.k = "VINDEXED" ->
           LET g == freereg(fs, e.idx)
           IN  IF e.vt = "VLOCAL"
               THEN Emitted(luaK_codeABC(freereg(g, e.info), "GETTABLE", 0, e.info, e.idx), e)
               ELSE Emitted(luaK_codeABC(g, "GETTABUP", 0, e.info, e.idx), e)
      [] e.k \in {"VVARARG", "VCALL"} -> luaK_setoneret(fs, e)
      [] OTHER -> Both(fs, e)

discharge2reg(fs, e, reg) ==
    LET d == luaK_dischargevars(fs, e)
        g == d.fs
        x == d.e
        here == [x EXCEPT !.k = "VNONRELOC", !.info = reg]
    IN  CASE x.k = "VNIL" -> Both(luaK_nil(g, reg, 1), here)
          [] x.k \in {"VFALSE", "VTRUE"} ->
               Both(luaK_codeABC(g, "LOADBOOL", reg, IF x.k = "VTRUE" THEN 1 ELSE 0, 0), here)
          [] x.k = "VK" -> Both(luaK_codek(g, reg, x.info), here)
          [] x.k = "VKINT" ->
               LET c == addk(g, ConstantOf(x)) IN Both(luaK_codek(c, reg, c.h[ConstantOf(x)]), here)
          [] x.k = "VRELOCABLE" -> Both([g EXCEPT !.code[x.info + 1].a = reg], here)
          [] x.k = "VNONRELOC" ->
               Both(IF reg = x.info THEN g ELSE luaK_codeABC(g, "MOVE", reg, x.info, 0), here)
          [] OTHER -> Both(Asserted(g, "discharge2reg", x.k = "VJMP"), x)

discharge2anyreg(fs, e) ==
    IF e.k = "VNONRELOC" THEN Both(fs, e)
    ELSE LET g == luaK_reserveregs(fs, 1) IN discharge2reg(g, e, g.freereg - 1)

RECURSIVE need_value(_, _)
need_value(fs, list) ==
    list # NO_JUMP /\ (~IsTestSet(fs, list) \/ need_value(fs, getjump(fs, list)))

code_loadbool(fs, a, b, jump) == luaK_codeABC(luaK_getlabel(fs), "LOADBOOL", a, b, jump)

\* The value of an expression and of the jumps out of it, in a register: a jump that carries no
\* value goes to an instruction that loads true or false.
exp2reg(fs, e, reg) ==
    LET d == discharge2reg(fs, e, reg)
        isTest == d.e.k = "VJMP"
        g == IF isTest THEN luaK_concat(d.fs, d.e.t, d.e.info) ELSE d.fs
        x == IF isTest THEN [d.e EXCEPT !.t = Start(d.e.t, d.e.info)] ELSE d.e
        loads == need_value(g, x.t) \/ need_value(g, x.f)
        skip == IF isTest THEN g ELSE luaK_jump(g)
        no == code_loadbool(skip, reg, 0, 1)
        yes == code_loadbool(no, reg, 1, 0)
        loaded == luaK_patchtohere(yes, IF isTest THEN NO_JUMP ELSE Pc(skip) - 1)
        end == luaK_getlabel(IF loads THEN loaded ELSE g)
        p_f == IF loads THEN Pc(no) - 1 ELSE NO_JUMP
        p_t == IF loads THEN Pc(yes) - 1 ELSE NO_JUMP
    IN  Both(IF hasjumps(x)
             THEN patchlistaux(patchlistaux(end, x.f, Pc(end), reg, p_f), x.t, Pc(end), reg, p_t)
             ELSE g,
             Exp("VNONRELOC", reg))

luaK_exp2nextreg(fs, e) ==
    LET d == luaK_dischargevars(fs, e)
        g == luaK_reserveregs(freeexp(d.fs, d.e), 1)
    IN  exp2reg(g, d.e, g.freereg - 1)

luaK_exp2anyreg(fs, e) ==
    LET d == luaK_dischargevars(fs, e)
    IN  IF d.e.k = "VNONRELOC" /\ ~hasjumps(d.e) THEN d
        ELSE IF d.e.k = "VNONRELOC" /\ d.e.info >= d.fs.nactvar THEN exp2reg(d.fs, d.e, d.e.info)
        ELSE luaK_exp2nextreg(d.fs, d.e)

luaK_exp2anyregup(fs, e) ==
    IF e.k # "VUPVAL" \/ hasjumps(e) THEN luaK_exp2anyreg(fs, e) ELSE Both(fs, e)

luaK_exp2val(fs, e) == IF hasjumps(e) THEN luaK_exp2anyreg(fs, e) ELSE luaK_dischargevars(fs, e)

\* The operand (a register or a constant) is what RK returns of the descriptor.
luaK_exp2RK(fs, e) ==
    LET v == luaK_exp2val(fs, e)
        isNew == v.e.k \in {"VTRUE", "VFALSE", "VNIL", "VKINT"}
        g == IF isNew THEN addk(v.fs, ConstantOf(v.e)) ELSE v.fs
        x == IF isNew THEN [v.e EXCEPT !.k = "VK", !.info = g.h[ConstantOf(v.e)]] ELSE v.e
    IN  IF x.k = "VK" /\ x.info <= MAXINDEXRK THEN Both(g, x) ELSE luaK_exp2anyreg(g, x)

RK(e) == IF e.k = "VK" THEN RKASK(e.info) ELSE e.info

luaK_storevar(fs, var, ex) ==
    CASE var.k = "VLOCAL" -> exp2reg(freeexp(fs, ex), ex, var.info).fs
      [] var.k = "VUPVAL" ->
           LET d == luaK_exp2anyreg(fs, ex)
           IN  freeexp(luaK_codeABC(d.fs, "SETUPVAL", d.e.info, var.info, 0), d.e)
      [] var.k = "VINDEXED" ->
           LET d == luaK_exp2RK(fs, ex)
               op == IF var.vt = "VLOCAL" THEN "SETTABLE" ELSE "SETTABUP"
           IN  freeexp(luaK_codeABC(d.fs, op, var.info, var.idx, RK(d.e)), d.e)
      [] OTHER -> Asserted(fs, "storevar", FALSE)

luaK_self(fs, e, key) ==
    LET d == luaK_exp2anyreg(fs, e)
        g == freeexp(d.fs, d.e)
        base == g.freereg
        k == luaK_exp2RK(luaK_reserveregs(g, 2), key)
    IN  Both(freeexp(luaK_codeABC(k.fs, "SELF", base, d.e.info, RK(k.e)), k.e),
             [d.e EXCEPT !.k = "VNONRELOC", !.info = base])

luaK_indexed(fs, t, key) ==
    LET d == luaK_exp2RK(Asserted(fs, "indexed", ~hasjumps(t) /\ t.k \in {"VNONRELOC", "VLOCAL", "VUPVAL"}),
                         key)
    IN  Both(d.fs, [t EXCEPT !.k = "VINDEXED", !.idx = RK(d.e),
                             !.vt = IF t.k = "VUPVAL" THEN "VUPVAL" ELSE "VLOCAL"])

-----------------------------------------------------------------------------
(* Conditions *)

negatecondition(fs, e) ==
    LET at == getjumpcontrol(fs, e.info)
    IN  [Asserted(fs, "negatecondition", Code(fs, at).op \in {"EQ", "LT", "LE"})
            EXCEPT !.code[at + 1].a = 1 - @]

\* Jumps when the expression is cond (0 or 1); the test of `not' something tests the thing.
jumponcond(fs, e, cond) ==
    IF e.k = "VRELOCABLE" /\ Code(fs, e.info).op = "NOT"
    THEN condjump([fs EXCEPT !.code = SubSeq(@, 1, Pc(fs) - 1)], "TEST", Code(fs, e.info).b, 0, 1 - cond)
    ELSE LET d == discharge2anyreg(fs, e)
         IN  condjump(freeexp(d.fs, d.e), "TESTSET", NO_REG, d.e.info, cond)

luaK_goiftrue(fs, e) ==
    LET d == luaK_dischargevars(fs, e)
        always == d.e.k \in {"VK", "VKINT", "VTRUE"}
        g == IF d.e.k = "VJMP" THEN negatecondition(d.fs, d.e)
             ELSE IF always THEN d.fs ELSE jumponcond(d.fs, d.e, 0)
        pc == IF d.e.k = "VJMP" THEN d.e.info ELSE IF always THEN NO_JUMP ELSE Pc(g) - 1
    IN  Both(luaK_patchtohere(luaK_concat(g, d.e.f, pc), d.e.t),
             [d.e EXCEPT !.f = Start(@, pc), !.t = NO_JUMP])

luaK_goiffalse(fs, e) ==
    LET d == luaK_dischargevars(fs, e)
        never == d.e.k \in {"VNIL", "VFALSE"}
        g == IF d.e.k = "VJMP" \/ never THEN d.fs ELSE jumponcond(d.fs, d.e, 1)
        pc == IF d.e.k = "VJMP" THEN d.e.info ELSE IF never THEN NO_JUMP ELSE Pc(g) - 1
    IN  Both(luaK_patchtohere(luaK_concat(g, d.e.t, pc), d.e.f),
             [d.e EXCEPT !.t = Start(@, pc), !.f = NO_JUMP])

codenot(fs, e) ==
    LET d == luaK_dischargevars(fs, e)
        r == discharge2anyreg(d.fs, d.e)
        n == CASE d.e.k \in {"VNIL", "VFALSE"} -> Both(d.fs, [d.e EXCEPT !.k = "VTRUE"])
               [] d.e.k \in {"VK", "VKINT", "VTRUE"} -> Both(d.fs, [d.e EXCEPT !.k = "VFALSE"])
               [] d.e.k = "VJMP" -> Both(negatecondition(d.fs, d.e), d.e)
               [] OTHER -> Emitted(luaK_codeABC(freeexp(r.fs, r.e), "NOT", 0, r.e.info, 0), r.e)
    IN  Both(removevalues(removevalues(n.fs, n.e.t), n.e.f), [n.e EXCEPT !.t = n.e.f, !.f = n.e.t])

-----------------------------------------------------------------------------
(* Operators *)

Arithmetic == [ADD |-> "ADD", SUB |-> "SUB", MUL |-> "MUL", IDIV |-> "IDIV", MOD |-> "MOD"]

\* What luaO_arith gives for integers in range.
Arith(op, x, y) ==
    CASE op = "ADD" -> x + y
      [] op = "SUB" -> x - y
      [] op = "MUL" -> x * y
      [] op = "IDIV" -> IF y < 0 THEN (-x) \div (-y) ELSE x \div y
      [] op = "MOD" -> IF y < 0 THEN -((-x) % (-y)) ELSE x % y
      [] op = "UNM" -> -x

validop(op, y) == op \in {"IDIV", "MOD"} => y # 0

CanFold(op, e1, e2) == tonumeral(e1) /\ tonumeral(e2) /\ validop(op, e2.info)
Folded(op, e1, e2) == [e1 EXCEPT !.info = Arith(op, e1.info, e2.info)]

codeunexpval(fs, op, e) ==
    LET d == luaK_exp2anyreg(fs, e)
    IN  Emitted(luaK_codeABC(freeexp(d.fs, d.e), op, 0, d.e.info, 0), d.e)

codebinexpval(fs, op, e1, e2) ==
    LET d2 == luaK_exp2RK(fs, e2)
        d1 == luaK_exp2RK(d2.fs, e1)
    IN  Emitted(luaK_codeABC(freeexps(d1.fs, d1.e, d2.e), op, 0, RK(d1.e), RK(d2.e)), d1.e)

\* `a ~= b' is not `a == b', and `a > b' is `b < a'.
codecomp(fs, op, e1, e2) ==
    LET d == luaK_exp2RK(Asserted(fs, "codecomp", e1.k \in {"VK", "VNONRELOC"}), e2)
        g == freeexps(d.fs, e1, d.e)
        j == CASE op = "NE" -> condjump(g, "EQ", 0, RK(e1), RK(d.e))
               [] op = "GT" -> condjump(g, "LT", 1, RK(d.e), RK(e1))
               [] op = "GE" -> condjump(g, "LE", 1, RK(d.e), RK(e1))
               [] OTHER -> condjump(g, op, 1, RK(e1), RK(d.e))
    IN  Both(j, [e1 EXCEPT !.k = "VJMP", !.info = Pc(j) - 1])

luaK_prefix(fs, op, e) ==
    CASE op = "NOT" -> codenot(fs, e)
      [] op = "UNM" /\ CanFold("UNM", e, Exp("VKINT", 0)) -> Both(fs, Folded("UNM", e, e))
      [] OTHER -> codeunexpval(fs, op, e)

luaK_infix(fs, op, v) ==
    CASE op = "AND" -> luaK_goiftrue(fs, v)
      [] op = "OR" -> luaK_goiffalse(fs, v)
      [] op = "CONCAT" -> luaK_exp2nextreg(fs, v)
      [] op \in DOMAIN Arithmetic -> IF tonumeral(v) THEN Both(fs, v) ELSE luaK_exp2RK(fs, v)
      [] OTHER -> luaK_exp2RK(fs, v)

\* A second concatenation is merged into the first.
PostConcat(fs, e1, e2) ==
    LET v == luaK_exp2val(fs, e2)
        r == luaK_exp2nextreg(v.fs, v.e)
        merge == v.e.k = "VRELOCABLE" /\ Code(v.fs, v.e.info).op = "CONCAT"
    IN  IF merge
        THEN Both([freeexp(Asserted(v.fs, "concat", e1.info = Code(v.fs, v.e.info).b - 1), e1)
                      EXCEPT !.code[v.e.info + 1].b = e1.info],
                  [e1 EXCEPT !.k = "VRELOCABLE", !.info = v.e.info])
        ELSE codebinexpval(r.fs, "CONCAT", e1, r.e)

luaK_posfix(fs, op, e1, e2) ==
    LET d == luaK_dischargevars(fs, e2)
    IN  CASE op = "AND" ->
               Both(luaK_concat(Asserted(d.fs, "and", e1.t = NO_JUMP), d.e.f, e1.f),
                    [d.e EXCEPT !.f = Start(@, e1.f)])
          [] op = "OR" ->
               Both(luaK_concat(Asserted(d.fs, "or", e1.f = NO_JUMP), d.e.t, e1.t),
                    [d.e EXCEPT !.t = Start(@, e1.t)])
          [] op = "CONCAT" -> PostConcat(fs, e1, e2)
          [] op \in DOMAIN Arithmetic ->
               IF CanFold(op, e1, e2) THEN Both(fs, Folded(op, e1, e2)) ELSE codebinexpval(fs, op, e1, e2)
          [] OTHER -> codecomp(fs, op, e1, e2)

luaK_setlist(fs, base, nelems, tostore) ==
    LET g == Asserted(fs, "setlist", tostore # 0 /\ tostore <= LFIELDS_PER_FLUSH)
    IN  [luaK_codeABC(g, "SETLIST", base, IF tostore = -1 THEN 0 ELSE tostore,
                      ((nelems - 1) \div LFIELDS_PER_FLUSH) + 1)
            EXCEPT !.freereg = base + 1]
=============================================================================
