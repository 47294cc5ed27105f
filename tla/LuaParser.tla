----------------------------- MODULE LuaParser -----------------------------
(***************************************************************************)
(* The parser of the vendored Lua (lparser.c), which compiles while it     *)
(* reads: each rule of the grammar takes the state of the parser and gives *)
(* the state after it, with the functions that are open (the innermost one *)
(* is fs), the names of the local variables in scope, the labels in sight  *)
(* and the gotos that wait for theirs.  A token is its text.  An error     *)
(* moves to the end of the text, so that every rule ends.  Lines and the   *)
(* debug information about variables are left out.                         *)
(***************************************************************************)
EXTENDS LuaCode, FiniteSets, TLC

CONSTANTS Names,            \* names
          NumberOf,         \* what a numeral means
          StringOf,         \* what a literal string means
          MAXVARS,          \* local variables of a function
          MAXUPVAL,         \* upvalues of a function
          LUAI_MAXCCALLS    \* nested rules

LUA_MULTRET == -1
hasmultret(e) == e.k \in {"VCALL", "VVARARG"}

\* The state of the parser with an expression, and with the function changed.
With(ls, e) == [ls |-> ls, e |-> e]
Gen(ls, fs) == [ls EXCEPT !.fs = fs]
GenExp(ls, r) == With(Gen(ls, r.fs), r.e)
LsAssert(ls, name, holds) == Gen(ls, Asserted(ls.fs, name, holds))

Token(ls) == ls.tokens[ls.p]
Fail(ls, what) == [ls EXCEPT !.p = Len(ls.tokens), !.error = IF @ = "" THEN what ELSE @]
Advance(ls) == IF ls.p < Len(ls.tokens) THEN [ls EXCEPT !.p = @ + 1] ELSE ls
testnext(ls, c) == IF Token(ls) = c THEN Advance(ls) ELSE ls
checknext(ls, c) == IF Token(ls) = c THEN Advance(ls) ELSE Fail(ls, "expected")
checklimit(ls, v, limit) == IF v > limit THEN Fail(ls, "too many") ELSE ls
enterlevel(ls) == checklimit([ls EXCEPT !.level = @ + 1], ls.level + 1, LUAI_MAXCCALLS)
leavelevel(ls) == [ls EXCEPT !.level = @ - 1]

\* The name read, and the state after it.
str_checkname(ls) == IF Token(ls) \in Names THEN Advance(ls) ELSE Fail(ls, "name expected")

codestring(ls, s) ==
    LET v == <<"str", s>>
        g == addk(ls.fs, v)
    IN  With(Gen(ls, g), Exp("VK", g.h[v]))
checkname(ls) == LET r == codestring(ls, Token(ls)) IN With(str_checkname(r.ls), r.e)

-----------------------------------------------------------------------------
(* Variables *)

new_localvar(ls, name) ==
    [checklimit(ls, Len(ls.actvar) + 1 - ls.fs.firstlocal, MAXVARS) EXCEPT !.actvar = Append(@, name)]

adjustlocalvars(ls, nvars) == [ls EXCEPT !.fs.nactvar = @ + nvars]

removevars(ls, tolevel) ==
    [ls EXCEPT !.actvar = SubSeq(@, 1, Len(@) - (ls.fs.nactvar - tolevel)), !.fs.nactvar = tolevel]

searchvar(actvar, fs, n) ==
    LET found == {i \in 0 .. fs.nactvar - 1 : actvar[fs.firstlocal + i + 1] = n}
    IN  IF found = {} THEN -1 ELSE CHOOSE i \in found : \A j \in found : j <= i

searchupvalue(fs, n) ==
    LET found == {i \in DOMAIN fs.upvalues : fs.upvalues[i].name = n}
    IN  IF found = {} THEN -1 ELSE (CHOOSE i \in found : \A j \in found : i <= j) - 1

newupvalue(fs, n, var) ==
    [fs EXCEPT !.upvalues = Append(@, [name |-> n, instack |-> var.k = "VLOCAL", idx |-> var.info])]

markupval(fs, level) ==
    LET outside == {b \in DOMAIN fs.bl : fs.bl[b].nactvar <= level}
        innermost == CHOOSE b \in outside : \A c \in outside : c <= b
    IN  [fs EXCEPT !.bl[innermost].upval = TRUE]

\* Finds a variable from the function at a level outwards (the first level is what surrounds the
\* text): what is found further out becomes an upvalue of every function in between.
RECURSIVE singlevaraux(_, _, _, _, _)
singlevaraux(actvar, funcs, level, n, base) ==
    IF level = 1 THEN [funcs |-> funcs, e |-> Exp("VVOID", 0)]
    ELSE LET v == searchvar(actvar, funcs[level], n)
             idx == searchupvalue(funcs[level], n)
             up == singlevaraux(actvar, funcs, level - 1, n, FALSE)
             fs == up.funcs[level]
         IN  IF v >= 0
             THEN [funcs |-> IF base THEN funcs ELSE [funcs EXCEPT ![level] = markupval(@, v)],
                   e |-> Exp("VLOCAL", v)]
             ELSE IF idx >= 0 THEN [funcs |-> funcs, e |-> Exp("VUPVAL", idx)]
             ELSE IF up.e.k = "VVOID" THEN up
             ELSE [funcs |-> [up.funcs EXCEPT ![level] = newupvalue(fs, n, up.e)],
                   e |-> Exp("VUPVAL", Len(fs.upvalues))]

Find(ls, n) ==
    LET r == singlevaraux(ls.actvar, Append(ls.outer, ls.fs), Len(ls.outer) + 1, n, TRUE)
        limited == checklimit(ls, Len(r.funcs[Len(r.funcs)].upvalues), MAXUPVAL)
    IN  With([limited EXCEPT !.outer = SubSeq(r.funcs, 1, Len(r.funcs) - 1),
                             !.fs = r.funcs[Len(r.funcs)]], r.e)

\* A name that is no variable is a field of _ENV.
singlevar(ls) ==
    LET n == Token(ls)
        v == Find(str_checkname(ls), n)
        env == Find(v.ls, "_ENV")
        key == codestring(LsAssert(env.ls, "singlevar", env.e.k # "VVOID"), n)
    IN  IF Token(ls) \notin Names THEN With(str_checkname(ls), Exp("VNIL", 0))
        ELSE IF v.e.k # "VVOID" THEN v
        ELSE GenExp(key.ls, luaK_indexed(key.ls.fs, env.e, key.e))

adjust_assign(ls, nvars, nexps, e) ==
    LET extra == (nvars - nexps) + 1
        wanted == IF extra < 0 THEN 0 ELSE extra
        multi == luaK_setreturns(ls.fs, e, wanted)
        single == IF e.k = "VVOID" THEN ls.fs ELSE luaK_exp2nextreg(ls.fs, e).fs
        g == IF hasmultret(e)
             THEN IF wanted > 1 THEN luaK_reserveregs(multi, wanted - 1) ELSE multi
             ELSE IF nvars > nexps
                  THEN luaK_nil(luaK_reserveregs(single, nvars - nexps), single.freereg, nvars - nexps)
                  ELSE single
    IN  Gen(ls, IF nexps > nvars THEN [g EXCEPT !.freereg = @ - (nexps - nvars)] ELSE g)

-----------------------------------------------------------------------------
(* Blocks, labels and gotos *)

Without(list, i) == SubSeq(list, 1, i - 1) \o SubSeq(list, i + 1, Len(list))
Block(ls) == ls.fs.bl[Len(ls.fs.bl)]
Entry(ls, name, pc) == [name |-> name, nactvar |-> ls.fs.nactvar, pc |-> pc]

\* The goto at g gets its label, unless it would jump into the scope of a variable.
closegoto(ls, g, label) ==
    LET gt == ls.gt[g]
    IN  IF gt.nactvar < label.nactvar THEN Fail(ls, "jumps into the scope of local")
        ELSE [Gen(ls, luaK_patchlist(ls.fs, gt.pc, label.pc)) EXCEPT !.gt = Without(@, g)]

\* Closes a goto with a label of the current block, if there is one.
findlabel(ls, g) ==
    LET bl == Block(ls)
        match == {i \in bl.firstlabel + 1 .. Len(ls.label) : ls.label[i].name = ls.gt[g].name}
        lb == ls.label[CHOOSE i \in match : \A j \in match : i <= j]
        closes == ls.gt[g].nactvar > lb.nactvar /\ (bl.upval \/ Len(ls.label) > bl.firstlabel)
    IN  IF match = {} THEN ls
        ELSE closegoto(IF closes THEN Gen(ls, luaK_patchclose(ls.fs, ls.gt[g].pc, lb.nactvar)) ELSE ls,
                       g, lb)

RECURSIVE findgotos(_, _, _)
findgotos(ls, lb, i) ==
    IF i > Len(ls.gt) \/ ls.error # "" THEN ls
    ELSE IF ls.gt[i].name = lb.name THEN findgotos(closegoto(ls, i, lb), lb, i)
    ELSE findgotos(ls, lb, i + 1)

\* Gotos that are still open leave the block: they close its variables if some is an upvalue.
RECURSIVE movegotosout(_, _, _)
movegotosout(ls, bl, i) ==
    IF i > Len(ls.gt) \/ ls.error # "" THEN ls
    ELSE LET gt == ls.gt[i]
             out == IF gt.nactvar <= bl.nactvar THEN ls
                    ELSE [Gen(ls, IF bl.upval THEN luaK_patchclose(ls.fs, gt.pc, bl.nactvar) ELSE ls.fs)
                             EXCEPT !.gt[i].nactvar = bl.nactvar]
             found == findlabel(out, i)
         IN  movegotosout(found, bl, IF Len(found.gt) < Len(out.gt) THEN i ELSE i + 1)

enterblock(ls, isloop) ==
    [LsAssert(ls, "enterblock", ls.fs.freereg = ls.fs.nactvar) EXCEPT
        !.fs.bl = Append(@, [nactvar |-> ls.fs.nactvar, firstlabel |-> Len(ls.label),
                             firstgoto |-> Len(ls.gt), upval |-> FALSE, isloop |-> isloop])]

CloseUpvalues(ls) ==
    LET bl == Block(ls)
        j == luaK_jump(ls.fs)
        at == Pc(j) - 1
    IN  IF Len(ls.fs.bl) > 1 /\ bl.upval
        THEN Gen(ls, luaK_patchtohere(luaK_patchclose(j, at, bl.nactvar), at)) ELSE ls

breaklabel(ls) ==
    LET lb == Entry(ls, "break", Pc(ls.fs))
    IN  findgotos([ls EXCEPT !.label = Append(@, lb)], lb, Block(ls).firstgoto + 1)

leaveblock(ls) ==
    LET bl == Block(ls)
        closed == CloseUpvalues(ls)
        looped == IF bl.isloop THEN breaklabel(closed) ELSE closed
        popped == removevars([looped EXCEPT !.fs.bl = SubSeq(@, 1, Len(@) - 1)], bl.nactvar)
        freed == [popped EXCEPT !.fs.freereg = popped.fs.nactvar,
                                !.label = SubSeq(@, 1, bl.firstlabel)]
    IN  IF Len(ls.fs.bl) > 1 THEN movegotosout(freed, bl, bl.firstgoto + 1)
        ELSE IF bl.firstgoto < Len(freed.gt) THEN Fail(freed, "no visible label")
        ELSE freed

-----------------------------------------------------------------------------
(* Functions *)

open_func(ls) ==
    enterblock(
        [ls EXCEPT !.outer = Append(@, ls.fs),
                   !.fs = [code |-> <<>>, k |-> <<>>, h |-> ls.fs.h, lasttarget |-> 0, jpc |-> NO_JUMP,
                           freereg |-> 0, nactvar |-> 0, firstlocal |-> Len(ls.actvar),
                           upvalues |-> <<>>, protos |-> <<>>, bl |-> <<>>, numparams |-> 0,
                           is_vararg |-> FALSE, maxstacksize |-> 2, error |-> "",
                           broken |-> ls.fs.broken]],
        FALSE)

Proto(fs) == [code |-> fs.code, k |-> fs.k, protos |-> fs.protos, upvalues |-> fs.upvalues,
              numparams |-> fs.numparams, is_vararg |-> fs.is_vararg, maxstacksize |-> fs.maxstacksize]

\* The function is done: it becomes a prototype of the one around it.
close_func(ls) ==
    LET left == leaveblock(Gen(ls, luaK_ret(ls.fs, 0, 0)))
        fs == left.outer[Len(left.outer)]
    IN  [left EXCEPT !.outer = SubSeq(@, 1, Len(@) - 1),
                     !.fs = [fs EXCEPT !.protos = Append(@, Proto(left.fs)), !.h = left.fs.h,
                                       !.error = IF @ = "" THEN left.fs.error ELSE @,
                                       !.broken = left.fs.broken]]

codeclosure(ls) ==
    GenExp(ls, luaK_exp2nextreg(luaK_codeABC(ls.fs, "CLOSURE", 0, Len(ls.fs.protos) - 1, 0),
                                Exp("VRELOCABLE", Pc(ls.fs))))

block_follow(ls, withuntil) ==
    Token(ls) \in {"else", "elseif", "end", "<eof>"} \/ (Token(ls) = "until" /\ withuntil)

RECURSIVE statement(_), statlist(_), expr(_), subexpr(_, _), Operations(_, _), suffixedexp(_),
          Suffixes(_, _), explist(_), constructor(_), Fields(_, _), MoreNames(_)

statlist(ls) ==
    IF block_follow(ls, TRUE) THEN ls
    ELSE IF Token(ls) = "return" THEN statement(ls) ELSE statlist(statement(ls))

\* Names after the first one, each a new local variable.
MoreNames(ls) ==
    IF Token(ls) # "," THEN ls
    ELSE LET name == Advance(ls)
         IN  MoreNames(new_localvar(str_checkname(name), Token(name)))

RECURSIVE parlist(_)
parlist(ls) ==
    LET another(s) == IF Token(s) = "," THEN parlist(Advance(s)) ELSE s
    IN  CASE Token(ls) \in Names -> another(new_localvar(Advance(ls), Token(ls)))
          [] Token(ls) = "..." -> [Advance(ls) EXCEPT !.fs.is_vararg = TRUE]
          [] OTHER -> Fail(ls, "name or ... expected")

\* '(' parlist ')' block END
body(ls, ismethod) ==
    LET opened == checknext(open_func(ls), "(")
        own == IF ismethod THEN adjustlocalvars(new_localvar(opened, "self"), 1) ELSE opened
        read == IF Token(own) = ")" THEN own ELSE parlist(own)
        params == adjustlocalvars(read, Len(read.actvar) - (read.fs.firstlocal + read.fs.nactvar))
        n == params.fs.nactvar
        ready == Gen(params, luaK_reserveregs([params.fs EXCEPT !.numparams = n], n))
    IN  codeclosure(close_func(checknext(statlist(checknext(ready, ")")), "end")))

\* The number of expressions goes along with the last one.
explist(ls) ==
    LET v == expr(ls)
        more == explist(Gen(Advance(v.ls), luaK_exp2nextreg(v.ls.fs, v.e).fs))
    IN  IF Token(v.ls) = "," THEN [more EXCEPT !.n = @ + 1] ELSE [ls |-> v.ls, e |-> v.e, n |-> 1]

-----------------------------------------------------------------------------
(* Expressions *)

fieldsel(ls, v) ==
    LET t == luaK_exp2anyregup(ls.fs, v)
        key == checkname(Advance(Gen(ls, t.fs)))
    IN  GenExp(key.ls, luaK_indexed(key.ls.fs, t.e, key.e))

yindex(ls) ==
    LET v == expr(Advance(ls))
        r == GenExp(v.ls, luaK_exp2val(v.ls.fs, v.e))
    IN  With(checknext(r.ls, "]"), r.e)

recfield(ls, cc) ==
    LET key == IF Token(ls) \in Names THEN checkname(ls) ELSE yindex(ls)
        rk == luaK_exp2RK(key.ls.fs, key.e)
        val == expr(Gen(checknext(key.ls, "="), rk.fs))
        rv == luaK_exp2RK(val.ls.fs, val.e)
        set == luaK_codeABC(rv.fs, "SETTABLE", cc.t, RK(rk.e), RK(rv.e))
    IN  [ls |-> Gen(val.ls, [set EXCEPT !.freereg = ls.fs.freereg]), cc |-> [cc EXCEPT !.nh = @ + 1]]

listfield(ls, cc) ==
    LET v == expr(ls)
    IN  [ls |-> v.ls, cc |-> [cc EXCEPT !.v = v.e, !.na = @ + 1, !.tostore = @ + 1]]

\* The item read last is put into its register, and the items are stored when there are enough.
closelistfield(ls, cc) ==
    LET g == luaK_exp2nextreg(ls.fs, cc.v).fs
    IN  IF cc.v.k = "VVOID" THEN [ls |-> ls, cc |-> cc]
        ELSE IF cc.tostore < LFIELDS_PER_FLUSH
             THEN [ls |-> Gen(ls, g), cc |-> [cc EXCEPT !.v = Exp("VVOID", 0)]]
        ELSE [ls |-> Gen(ls, luaK_setlist(g, cc.t, cc.na, cc.tostore)),
              cc |-> [cc EXCEPT !.v = Exp("VVOID", 0), !.tostore = 0]]

lastlistfield(ls, cc) ==
    LET open == luaK_setreturns(ls.fs, cc.v, LUA_MULTRET)
        g == IF cc.v.k = "VVOID" THEN ls.fs ELSE luaK_exp2nextreg(ls.fs, cc.v).fs
    IN  Gen(ls, CASE cc.tostore = 0 -> ls.fs
                  [] cc.tostore > 0 /\ hasmultret(cc.v) -> luaK_setlist(open, cc.t, cc.na, LUA_MULTRET)
                  [] OTHER -> luaK_setlist(g, cc.t, cc.na, cc.tostore))

Fields(ls, cc) ==
    LET c == closelistfield(LsAssert(ls, "constructor", cc.v.k = "VVOID" \/ cc.tostore > 0), cc)
        isRecord == Token(ls) = "[" \/ (Token(ls) \in Names /\ ls.tokens[ls.p + 1] = "=")
        f == IF isRecord THEN recfield(c.ls, c.cc) ELSE listfield(c.ls, c.cc)
    IN  IF Token(ls) = "}" THEN [ls |-> ls, cc |-> cc]
        ELSE IF Token(f.ls) \in {",", ";"} THEN Fields(Advance(f.ls), f.cc)
        ELSE f

constructor(ls) ==
    LET t == luaK_exp2nextreg(luaK_codeABC(ls.fs, "NEWTABLE", 0, 0, 0), Exp("VRELOCABLE", Pc(ls.fs)))
        f == Fields(checknext(Gen(ls, t.fs), "{"),
                    [v |-> Exp("VVOID", 0), t |-> t.e.info, nh |-> 0, na |-> 0, tostore |-> 0])
    IN  With(lastlistfield(checknext(f.ls, "}"), f.cc), t.e)

funcargs(ls, f) ==
    LET none == [ls |-> ls, e |-> Exp("VVOID", 0)]
        list == explist(Advance(ls))
        open == IF hasmultret(list.e) THEN Gen(list.ls, luaK_setreturns(list.ls.fs, list.e, LUA_MULTRET))
                ELSE list.ls
        args == CASE Token(ls) = "(" /\ ls.tokens[ls.p + 1] = ")" -> With(Advance(Advance(ls)), none.e)
                  [] Token(ls) = "(" -> With(checknext(open, ")"), list.e)
                  [] Token(ls) = "{" -> constructor(ls)
                  [] Token(ls) \in DOMAIN StringOf ->
                       LET s == codestring(ls, StringOf[Token(ls)]) IN With(Advance(s.ls), s.e)
                  [] OTHER -> With(Fail(ls, "arguments expected"), none.e)
        base == f.info
        g == IF hasmultret(args.e) \/ args.e.k = "VVOID" THEN args.ls.fs
             ELSE luaK_exp2nextreg(args.ls.fs, args.e).fs
        nparams == IF hasmultret(args.e) THEN LUA_MULTRET ELSE g.freereg - (base + 1)
        call == luaK_codeABC(Asserted(g, "funcargs", f.k = "VNONRELOC"), "CALL", base, nparams + 1, 2)
    IN  With(Gen(args.ls, [call EXCEPT !.freereg = base + 1]), Exp("VCALL", Pc(call) - 1))

primaryexp(ls) ==
    LET v == expr(Advance(ls))
        closed == checknext(v.ls, ")")
    IN  CASE Token(ls) = "(" -> GenExp(closed, luaK_dischargevars(closed.fs, v.e))
          [] Token(ls) \in Names -> singlevar(ls)
          [] OTHER -> With(Fail(ls, "unexpected symbol"), Exp("VNIL", 0))

Suffixes(ls, v) ==
    LET t == GenExp(ls, luaK_exp2anyregup(ls.fs, v))
        key == yindex(t.ls)
        name == checkname(Advance(ls))
        self == GenExp(name.ls, luaK_self(name.ls.fs, v, name.e))
        method == funcargs(self.ls, self.e)
        f == GenExp(ls, luaK_exp2nextreg(ls.fs, v))
        call == funcargs(f.ls, f.e)
        field == fieldsel(ls, v)
        item == GenExp(key.ls, luaK_indexed(key.ls.fs, t.e, key.e))
    IN  CASE Token(ls) = "." -> Suffixes(field.ls, field.e)
          [] Token(ls) = "[" -> Suffixes(item.ls, item.e)
          [] Token(ls) = ":" -> Suffixes(method.ls, method.e)
          [] Token(ls) \in {"(", "{"} \cup DOMAIN StringOf -> Suffixes(call.ls, call.e)
          [] OTHER -> With(ls, v)

suffixedexp(ls) == LET v == primaryexp(ls) IN Suffixes(v.ls, v.e)

simpleexp(ls) ==
    LET constant(e) == With(Advance(ls), e)
    IN  CASE Token(ls) \in DOMAIN NumberOf -> constant(Exp("VKINT", NumberOf[Token(ls)]))
          [] Token(ls) \in DOMAIN StringOf ->
               LET s == codestring(ls, StringOf[Token(ls)]) IN With(Advance(s.ls), s.e)
          [] Token(ls) = "nil" -> constant(Exp("VNIL", 0))
          [] Token(ls) = "true" -> constant(Exp("VTRUE", 0))
          [] Token(ls) = "false" -> constant(Exp("VFALSE", 0))
          [] Token(ls) = "..." ->
               IF ls.fs.is_vararg
               THEN With(Gen(Advance(ls), luaK_codeABC(ls.fs, "VARARG", 0, 1, 0)),
                         Exp("VVARARG", Pc(ls.fs)))
               ELSE With(Fail(ls, "cannot use ..."), Exp("VNIL", 0))
          [] Token(ls) = "{" -> constructor(ls)
          [] Token(ls) = "function" -> body(Advance(ls), FALSE)
          [] OTHER -> suffixedexp(ls)

UnaryOf == ("not" :> "NOT") @@ ("-" :> "UNM") @@ ("#" :> "LEN")
BinaryOf == ("+" :> "ADD") @@ ("-" :> "SUB") @@ ("*" :> "MUL") @@ ("%" :> "MOD") @@ ("//" :> "IDIV")
            @@ (".." :> "CONCAT") @@ ("~=" :> "NE") @@ ("==" :> "EQ") @@ ("<" :> "LT") @@ ("<=" :> "LE")
            @@ (">" :> "GT") @@ (">=" :> "GE") @@ ("and" :> "AND") @@ ("or" :> "OR")

\* The priorities of an operator to its left and to its right.
priority(op) ==
    CASE op = "OR" -> <<1, 1>> [] op = "AND" -> <<2, 2>>
      [] op \in {"NE", "EQ", "LT", "LE", "GT", "GE"} -> <<3, 3>>
      [] op = "CONCAT" -> <<9, 8>>
      [] op \in {"ADD", "SUB"} -> <<10, 10>>
      [] OTHER -> <<11, 11>>
UNARY_PRIORITY == 12

\* Operators that bind more tightly than the limit are applied from left to right.
Operations(r, limit) ==
    LET op == BinaryOf[Token(r.ls)]
        v == luaK_infix(r.ls.fs, op, r.e)
        v2 == subexpr(Gen(Advance(r.ls), v.fs), priority(op)[2])
    IN  IF Token(r.ls) \notin DOMAIN BinaryOf THEN r
        ELSE IF priority(op)[1] <= limit THEN r
        ELSE Operations(GenExp(v2.ls, luaK_posfix(v2.ls.fs, op, v.e, v2.e)), limit)

subexpr(ls, limit) ==
    LET inner == enterlevel(ls)
        v == subexpr(Advance(inner), UNARY_PRIORITY)
        first == IF Token(inner) \in DOMAIN UnaryOf
                 THEN GenExp(v.ls, luaK_prefix(v.ls.fs, UnaryOf[Token(inner)], v.e))
                 ELSE simpleexp(inner)
        all == Operations(first, limit)
    IN  With(leavelevel(all.ls), all.e)

expr(ls) == subexpr(ls, 0)

-----------------------------------------------------------------------------
(* Statements *)

block(ls) == leaveblock(statlist(enterblock(ls, FALSE)))

\* An earlier target that uses the variable assigned now will use a copy of it.
check_conflict(ls, lhs, v) ==
    LET extra == ls.fs.freereg
        asTable(x) == x.k = "VINDEXED" /\ x.vt = v.k /\ x.info = v.info
        asKey(x) == x.k = "VINDEXED" /\ v.k = "VLOCAL" /\ x.idx = v.info
        copied(x) == [x EXCEPT !.vt = IF asTable(x) THEN "VLOCAL" ELSE @,
                               !.info = IF asTable(x) THEN extra ELSE @,
                               !.idx = IF asKey(x) THEN extra ELSE @]
        move == luaK_codeABC(ls.fs, IF v.k = "VLOCAL" THEN "MOVE" ELSE "GETUPVAL", extra, v.info, 0)
    IN  [ls |-> IF \E i \in DOMAIN lhs : asTable(lhs[i]) \/ asKey(lhs[i])
                THEN Gen(ls, luaK_reserveregs(move, 1)) ELSE ls,
         lhs |-> [i \in DOMAIN lhs |-> copied(lhs[i])]]

\* The targets that are left take the values on the stack, the last target first.
RECURSIVE StoreFromStack(_, _)
StoreFromStack(ls, lhs) ==
    IF lhs = <<>> THEN ls
    ELSE StoreFromStack(Gen(ls, luaK_storevar(ls.fs, lhs[Len(lhs)], Exp("VNONRELOC", ls.fs.freereg - 1))),
                        SubSeq(lhs, 1, Len(lhs) - 1))

RECURSIVE assignment(_, _)
assignment(ls, lhs) ==
    LET n == Len(lhs)
        next == suffixedexp(Advance(ls))
        safe == IF next.e.k = "VINDEXED" THEN [ls |-> next.ls, lhs |-> lhs]
                ELSE check_conflict(next.ls, lhs, next.e)
        deep == checklimit(safe.ls, n + safe.ls.level, LUAI_MAXCCALLS)
        list == explist(checknext(ls, "="))
        one == luaK_setoneret(list.ls.fs, list.e)
        direct == Gen(list.ls, luaK_storevar(one.fs, lhs[n], one.e))
    IN  IF lhs[n].k \notin {"VLOCAL", "VUPVAL", "VINDEXED"} THEN Fail(ls, "syntax error")
        ELSE IF Token(ls) = "," THEN assignment(deep, Append(safe.lhs, next.e))
        ELSE IF Token(ls) # "=" THEN checknext(ls, "=")
        ELSE IF list.n = n THEN StoreFromStack(direct, SubSeq(lhs, 1, n - 1))
        ELSE StoreFromStack(adjust_assign(list.ls, n, list.n, list.e), lhs)

exprstat(ls) ==
    LET v == suffixedexp(ls)
    IN  IF Token(v.ls) \in {"=", ","} THEN assignment(v.ls, <<v.e>>)
        ELSE IF v.e.k # "VCALL" THEN Fail(v.ls, "syntax error")
        ELSE Gen(v.ls, [v.ls.fs EXCEPT !.code[v.e.info + 1].c = 1])

\* The jumps taken when the condition is false.
cond(ls) ==
    LET v == expr(ls)
    IN  GenExp(v.ls, luaK_goiftrue(v.ls.fs, IF v.e.k = "VNIL" THEN [v.e EXCEPT !.k = "VFALSE"] ELSE v.e))

gotostat(ls, pc) ==
    LET isGoto == Token(ls) = "goto"
        named == Advance(ls)
        label == IF isGoto THEN Token(named) ELSE "break"
        g == [ls |-> IF isGoto THEN str_checkname(named) ELSE named, label |-> label]
    IN  findlabel([g.ls EXCEPT !.gt = Append(@, Entry(g.ls, label, pc))], Len(ls.gt) + 1)

RECURSIVE skipnoopstat(_)
skipnoopstat(ls) == IF Token(ls) \in {";", "::"} THEN skipnoopstat(statement(ls)) ELSE ls

labelstat(ls) ==
    LET name == Token(ls)
        named == checknext(str_checkname(ls), "::")
        repeated == \E i \in Block(ls).firstlabel + 1 .. Len(ls.label) : ls.label[i].name = name
        l == Len(ls.label) + 1
        here == Gen(named, luaK_getlabel(named.fs))
        entered == [here EXCEPT !.label = Append(@, Entry(here, name, Pc(here.fs)))]
        skipped == skipnoopstat(entered)
        last == IF block_follow(skipped, FALSE)
                THEN [skipped EXCEPT !.label[l].nactvar = Block(skipped).nactvar] ELSE skipped
    IN  IF repeated \/ named.error # "" THEN Fail(ls, "label already defined")
        ELSE findgotos(last, last.label[l], Block(last).firstgoto + 1)

whilestat(ls) ==
    LET start == Gen(Advance(ls), luaK_getlabel(ls.fs))
        whileinit == Pc(ls.fs)
        c == cond(start)
        looped == block(checknext(enterblock(c.ls, TRUE), "do"))
        j == luaK_jump(looped.fs)
        back == leaveblock(checknext(Gen(looped, luaK_patchlist(j, Pc(j) - 1, whileinit)), "end"))
    IN  Gen(back, luaK_patchtohere(back.fs, c.e.f))

repeatstat(ls) ==
    LET repeat_init == Pc(ls.fs)
        in == enterblock(enterblock(Gen(ls, luaK_getlabel(ls.fs)), TRUE), FALSE)
        c == cond(checknext(statlist(Advance(in)), "until"))
        bl2 == Block(c.ls)
        closing == IF bl2.upval THEN Gen(c.ls, luaK_patchclose(c.ls.fs, c.e.f, bl2.nactvar)) ELSE c.ls
        left == leaveblock(closing)
    IN  leaveblock(Gen(left, luaK_patchlist(left.fs, c.e.f, repeat_init)))

exp1(ls) == LET e == expr(ls) IN Gen(e.ls, luaK_exp2nextreg(e.ls.fs, e.e).fs)

forbody(ls, base, nvars, isnum) ==
    LET control == checknext(adjustlocalvars(ls, 3), "do")
        p == IF isnum THEN luaK_codeABC(control.fs, "FORPREP", base, NO_JUMP, 0) ELSE luaK_jump(control.fs)
        prep == Pc(p) - 1
        inner == adjustlocalvars(enterblock(Gen(control, p), FALSE), nvars)
        body1 == leaveblock(block(Gen(inner, luaK_reserveregs(inner.fs, nvars))))
        here == luaK_patchtohere(body1.fs, prep)
        loop == IF isnum THEN luaK_codeABC(here, "FORLOOP", base, NO_JUMP, 0)
                ELSE luaK_codeABC(luaK_codeABC(here, "TFORCALL", base, 0, nvars),
                                  "TFORLOOP", base + 2, NO_JUMP, 0)
    IN  Gen(body1, luaK_patchlist(loop, Pc(loop) - 1, prep + 1))

fornum(ls, name) ==
    LET base == ls.fs.freereg
        vars == new_localvar(new_localvar(new_localvar(new_localvar(ls,
                    "(for index)"), "(for limit)"), "(for step)"), name)
        limit == exp1(checknext(exp1(checknext(vars, "=")), ","))
        k == addk(limit.fs, <<"int", 1>>)
        step == IF Token(limit) = "," THEN exp1(Advance(limit))
                ELSE Gen(limit, luaK_reserveregs(luaK_codek(k, k.freereg, k.h[<<"int", 1>>]), 1))
    IN  forbody(step, base, 1, TRUE)

forlist(ls, name) ==
    LET base == ls.fs.freereg
        first == new_localvar(new_localvar(new_localvar(new_localvar(ls,
                    "(for generator)"), "(for state)"), "(for control)"), name)
        vars == MoreNames(first)
        list == explist(checknext(vars, "in"))
        ready == adjust_assign(list.ls, 3, list.n, list.e)
    IN  forbody(Gen(ready, luaK_checkstack(ready.fs, 3)), base, Len(vars.actvar) - Len(first.actvar) + 1,
                FALSE)

forstat(ls) ==
    LET opened == Advance(enterblock(ls, TRUE))
        named == str_checkname(opened)
        name == Token(opened)
        done == CASE Token(named) = "=" -> fornum(named, name)
                  [] Token(named) \in {",", "in"} -> forlist(named, name)
                  [] OTHER -> Fail(named, "= or in expected")
    IN  leaveblock(checknext(done, "end"))

RECURSIVE Skip(_)
Skip(ls) == IF Token(ls) = ";" THEN Skip(Advance(ls)) ELSE ls

\* [IF | ELSEIF] cond THEN block: the jumps that leave the whole statement are added to a list.
test_then_block(ls, escapelist) ==
    LET v == expr(Advance(ls))
        then == checknext(v.ls, "then")
        c == luaK_goiffalse(then.fs, v.e)
        gone == Skip(gotostat(enterblock(Gen(then, c.fs), FALSE), c.e.t))
        skip == Gen(gone, luaK_jump(gone.fs))
        d == luaK_goiftrue(then.fs, v.e)
        isGoto == Token(then) \in {"goto", "break"}
        jf == IF isGoto THEN Pc(skip.fs) - 1 ELSE d.e.f
        left == leaveblock(statlist(IF isGoto THEN skip ELSE enterblock(Gen(then, d.fs), FALSE)))
        out == luaK_jump(left.fs)
        more == Token(left) \in {"else", "elseif"}
        escaped == IF more THEN luaK_concat(out, escapelist, Pc(out) - 1) ELSE left.fs
    IN  IF isGoto /\ block_follow(gone, FALSE) THEN [ls |-> leaveblock(gone), list |-> escapelist]
        ELSE [ls |-> Gen(left, luaK_patchtohere(escaped, jf)),
              list |-> IF more THEN Start(escapelist, Pc(out) - 1) ELSE escapelist]

RECURSIVE Alternatives(_)
Alternatives(r) ==
    IF Token(r.ls) = "elseif" THEN Alternatives(test_then_block(r.ls, r.list)) ELSE r

ifstat(ls) ==
    LET r == Alternatives(test_then_block(ls, NO_JUMP))
        all == checknext(IF Token(r.ls) = "else" THEN block(Advance(r.ls)) ELSE r.ls, "end")
    IN  Gen(all, luaK_patchtohere(all.fs, r.list))

localfunc(ls) ==
    body(adjustlocalvars(new_localvar(str_checkname(ls), Token(ls)), 1), FALSE).ls

localstat(ls) ==
    LET vars == MoreNames(new_localvar(str_checkname(ls), Token(ls)))
        nvars == Len(vars.actvar) - Len(ls.actvar)
        list == explist(Advance(vars))
    IN  adjustlocalvars(IF Token(vars) = "=" THEN adjust_assign(list.ls, nvars, list.n, list.e)
                        ELSE adjust_assign(vars, nvars, 0, Exp("VVOID", 0)), nvars)

RECURSIVE FieldNames(_)
FieldNames(r) ==
    IF Token(r.ls) = "." THEN FieldNames(fieldsel(r.ls, r.e)) ELSE r

funcstat(ls) ==
    LET v == FieldNames(singlevar(Advance(ls)))
        ismethod == Token(v.ls) = ":"
        name == IF ismethod THEN fieldsel(v.ls, v.e) ELSE v
        b == body(name.ls, ismethod)
    IN  Gen(b.ls, luaK_storevar(b.ls.fs, name.e, b.e))

retstat(ls) ==
    LET none == block_follow(ls, TRUE) \/ Token(ls) = ";"
        list == explist(ls)
        fs == list.ls.fs
        open == luaK_setreturns(fs, list.e, LUA_MULTRET)
        tail == IF list.e.k = "VCALL" /\ list.n = 1
                THEN [Asserted(open, "tailcall", Code(open, list.e.info).a = open.nactvar)
                         EXCEPT !.code[list.e.info + 1].op = "TAILCALL"]
                ELSE open
        single == luaK_exp2anyreg(fs, list.e)
        several == luaK_exp2nextreg(fs, list.e).fs
        returned ==
            CASE none -> Gen(ls, luaK_ret(ls.fs, 0, 0))
              [] ~none /\ hasmultret(list.e) -> Gen(list.ls, luaK_ret(tail, fs.nactvar, LUA_MULTRET))
              [] ~none /\ ~hasmultret(list.e) /\ list.n = 1 ->
                   Gen(list.ls, luaK_ret(single.fs, single.e.info, 1))
              [] OTHER ->
                   Gen(list.ls, luaK_ret(Asserted(several, "retstat", list.n = several.freereg - fs.nactvar),
                                         fs.nactvar, list.n))
    IN  testnext(returned, ";")

statement(ls) ==
    LET in == enterlevel(ls)
        rest == Advance(in)
        done == CASE Token(in) = ";" -> rest
                  [] Token(in) = "if" -> ifstat(in)
                  [] Token(in) = "while" -> whilestat(in)
                  [] Token(in) = "do" -> checknext(block(rest), "end")
                  [] Token(in) = "for" -> forstat(in)
                  [] Token(in) = "repeat" -> repeatstat(in)
                  [] Token(in) = "function" -> funcstat(in)
                  [] Token(in) = "local" ->
                       IF Token(rest) = "function" THEN localfunc(Advance(rest)) ELSE localstat(rest)
                  [] Token(in) = "::" -> labelstat(rest)
                  [] Token(in) = "return" -> retstat(rest)
                  [] Token(in) \in {"break", "goto"} ->
                       gotostat(Gen(in, luaK_jump(in.fs)), Pc(luaK_jump(in.fs)) - 1)
                  [] OTHER -> exprstat(in)
        held == LsAssert(done, "statement", /\ done.fs.maxstacksize >= done.fs.freereg
                                            /\ done.fs.freereg >= done.fs.nactvar)
    IN  leavelevel([held EXCEPT !.fs.freereg = held.fs.nactvar])

-----------------------------------------------------------------------------
\* Nothing is open around the text.
Outside == [h |-> <<>>, protos |-> <<>>, error |-> "", broken |-> {}, firstlocal |-> 0, freereg |-> 0,
            nactvar |-> 0]

\* Compiles a text: its function, and what went wrong.
luaY_parser(tokens) ==
    LET ls == [tokens |-> Append(tokens, "<eof>"), p |-> 1, error |-> "", level |-> 0, outer |-> <<>>,
               fs |-> Outside, actvar |-> <<>>, label |-> <<>>, gt |-> <<>>]
        opened == open_func(ls)
        main == Gen(opened, newupvalue([opened.fs EXCEPT !.is_vararg = TRUE], "_ENV", Exp("VLOCAL", 0)))
        read == statlist(main)
        done == close_func(IF Token(read) = "<eof>" THEN read ELSE Fail(read, "<eof> expected"))
        error == IF done.error # "" THEN done.error ELSE done.fs.error
        finished == done.actvar = <<>> /\ done.gt = <<>> /\ done.label = <<>> /\ done.outer = <<>>
    IN  [proto |-> done.fs.protos[1], error |-> error,
         broken |-> done.fs.broken \cup IF finished THEN {} ELSE {"luaY_parser"}]
=============================================================================
