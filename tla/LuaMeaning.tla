----------------------------- MODULE LuaMeaning ----------------------------
(***************************************************************************)
(* What a program means: the reference for the compiler and the            *)
(* interpreter.  A program is a tree; Tokens writes it down for the        *)
(* parser, and Meaning evaluates it with environments that map names to    *)
(* cells, without registers, jumps or upvalues.                            *)
(***************************************************************************)
EXTENDS LuaExecute

CONSTANTS Programs,    \* the trees of programs
          Inputs       \* the arguments they are called with

VARIABLES program,    \* the tree of a program
          asked       \* whether it was asked what the program does
compileVars == <<program, asked>>

-----------------------------------------------------------------------------
(* Writing a tree down *)

RECURSIVE Joined(_, _)
Joined(texts, sep) ==
    IF texts = <<>> THEN <<>>
    ELSE IF Len(texts) = 1 THEN texts[1]
    ELSE texts[1] \o <<sep>> \o Joined(Tail(texts), sep)

\* How tightly an operator binds, from the loosest to the tightest, and those that associate to
\* the right.
Levels == <<{"or"}, {"and"}, {"<", "<=", ">", ">=", "==", "~="}, {".."}, {"+", "-"}, {"*", "//", "%"}>>
Level(op) == CHOOSE l \in DOMAIN Levels : op \in Levels[l]
Unary == 7
Primary == 8

Single(names) == [k \in DOMAIN names |-> <<names[k]>>]

RECURSIVE Written(_, _), Written1(_), Statement1(_), Statements(_), Clauses(_)

\* An expression where at least a level is needed: parentheses around what binds less tightly.
Written(e, level) ==
    LET own == CASE e[1] = "bin" -> Level(e[2]) [] e[1] \in {"not", "neg", "len"} -> Unary
                 [] e[1] \in {"var", "index", "call", "method", "paren"} -> Primary + 1
                 [] OTHER -> Primary
    IN  IF own < level THEN <<"(">> \o Written1(e) \o <<")">> ELSE Written1(e)

List(es) == Joined([k \in DOMAIN es |-> Written(es[k], 0)], ",")

FunctionText(params, more, body0) ==
    <<"(">> \o Joined(Single(params) \o IF more THEN <<<<"...">>>> ELSE <<>>, ",") \o <<")">>
    \o Statements(body0) \o <<"end">>

Written1(e) ==
    CASE e[1] = "const" -> <<CASE e[2][1] = "int" -> CHOOSE t \in DOMAIN NumberOf : NumberOf[t] = e[2][2]
                               [] e[2][1] = "str" -> CHOOSE t \in DOMAIN StringOf : StringOf[t] = e[2][2]
                               [] OTHER -> e[2][1]>>
      [] e[1] = "var" -> <<e[2]>>
      [] e[1] = "vararg" -> <<"...">>
      [] e[1] = "paren" -> <<"(">> \o Written(e[2], 0) \o <<")">>
      [] e[1] = "not" -> <<"not">> \o Written(e[2], Unary)
      [] e[1] = "neg" -> <<"-">> \o Written(e[2], Unary)
      [] e[1] = "len" -> <<"#">> \o Written(e[2], Unary)
      [] e[1] = "bin" ->
           LET l == Level(e[2])
               right == e[2] = ".."
           IN  Written(e[3], IF right THEN l + 1 ELSE l) \o <<e[2]>> \o Written(e[4], IF right THEN l ELSE l + 1)
      [] e[1] = "index" ->
           IF e[3][1] = "const" /\ e[3][2][1] = "str" /\ e[3][2][2] \in Names
           THEN Written(e[2], Primary + 1) \o <<".", e[3][2][2]>>
           ELSE Written(e[2], Primary + 1) \o <<"[">> \o Written(e[3], 0) \o <<"]">>
      [] e[1] = "call" -> Written(e[2], Primary + 1) \o <<"(">> \o List(e[3]) \o <<")">>
      [] e[1] = "method" -> Written(e[2], Primary + 1) \o <<":", e[3], "(">> \o List(e[4]) \o <<")">>
      [] e[1] = "function" -> <<"function">> \o FunctionText(e[2], e[3], e[4])
      [] e[1] = "table" ->
           <<"{">> \o Joined([k \in DOMAIN e[2] |->
                                 IF e[2][k][1] = "item" THEN Written(e[2][k][2], 0)
                                 ELSE <<"[">> \o Written(e[2][k][2], 0) \o <<"]", "=">>
                                      \o Written(e[2][k][3], 0)], ",") \o <<"}">>

\* The clauses of an if, the first one begun by `if'.
Clauses(cs) ==
    IF cs = <<>> THEN <<>>
    ELSE Written(cs[1][1], 0) \o <<"then">> \o Statements(cs[1][2])
         \o IF Len(cs) = 1 THEN <<>> ELSE <<"elseif">> \o Clauses(Tail(cs))

Statement1(s) ==
    CASE s[1] = "local" -> <<"local">> \o Joined(Single(s[2]), ",")
                           \o IF s[3] = <<>> THEN <<>> ELSE <<"=">> \o List(s[3])
      [] s[1] = "assign" -> List(s[2]) \o <<"=">> \o List(s[3])
      [] s[1] = "expr" -> Written(s[2], 0)
      [] s[1] = "do" -> <<"do">> \o Statements(s[2]) \o <<"end">>
      [] s[1] = "while" -> <<"while">> \o Written(s[2], 0) \o <<"do">> \o Statements(s[3]) \o <<"end">>
      [] s[1] = "repeat" -> <<"repeat">> \o Statements(s[2]) \o <<"until">> \o Written(s[3], 0)
      [] s[1] = "if" -> <<"if">> \o Clauses(s[2])
                        \o (IF s[3] = <<>> THEN <<>> ELSE <<"else">> \o Statements(s[3])) \o <<"end">>
      [] s[1] = "fornum" -> <<"for", s[2], "=">> \o List(s[3]) \o <<"do">> \o Statements(s[4]) \o <<"end">>
      [] s[1] = "forin" -> <<"for">> \o Joined(Single(s[2]), ",") \o <<"in">> \o List(s[3]) \o <<"do">>
                           \o Statements(s[4]) \o <<"end">>
      [] s[1] = "localfunction" -> <<"local", "function", s[2]>> \o FunctionText(s[3], s[4], s[5])
      [] s[1] = "functions" -> <<"function">> \o Joined(Single(s[2]), ".") \o FunctionText(s[3], s[4], s[5])
      [] s[1] = "methods" -> <<"function", s[2], ":", s[3]>> \o FunctionText(s[4], s[5], s[6])
      [] s[1] = "return" -> <<"return">> \o List(s[2])
      [] s[1] = "break" -> <<"break">>
      [] s[1] = "goto" -> <<"goto", s[2]>>
      [] s[1] = "label" -> <<"::", s[2], "::">>

Statements(ss) == IF ss = <<>> THEN <<>> ELSE Statement1(ss[1]) \o <<";">> \o Statements(Tail(ss))

-----------------------------------------------------------------------------
(* Evaluation: a world holds the cells, the tables, the functions and what was shown *)

First(vs) == IF vs = <<>> THEN Nil ELSE vs[1]
Upto(vs, n) == [k \in 1 .. n |-> IF k <= Len(vs) THEN vs[k] ELSE Nil]
Values(w, vs) == [w |-> w, vs |-> vs]
Failed(w, what) == Values([w EXCEPT !.error = what], <<>>)

\* New variables: the environment with them, and their cells.
Declare(w, env, names, vs) ==
    [w |-> [w EXCEPT !.cells = @ \o Upto(vs, Len(names))],
     env |-> [n \in DOMAIN env \cup {names[k] : k \in DOMAIN names} |->
                 LET mine == {k \in DOMAIN names : names[k] = n}
                 IN  IF mine = {} THEN env[n] ELSE Len(w.cells) + CHOOSE k \in mine : \A j \in mine : j <= k]]

RECURSIVE Value(_, _, _), ValueList(_, _, _), Call(_, _, _), Do(_, _, _), Items(_, _, _, _, _),
          While(_, _, _), Repeat(_, _, _), Numeric(_, _, _, _, _, _), Generic(_, _, _, _, _, _),
          TryClauses(_, _, _), Store_(_, _, _, _), Targets(_, _, _)

GetIndex(w, t, key) ==
    IF t[1] # "table" THEN Failed(w, "index")
    ELSE Values(w, <<IF key \in DOMAIN w.tables[t[2]] THEN w.tables[t[2]][key] ELSE Nil>>)
SetIndex(w, t, key, v) ==
    IF t[1] # "table" \/ key = Nil THEN [w EXCEPT !.error = "index"]
    ELSE [w EXCEPT !.tables[t[2]] = IF v = Nil THEN [x \in DOMAIN @ \ {key} |-> @[x]] ELSE (key :> v) @@ @]

Apply(w, op, x, y) ==
    LET ints == IsInt(x) /\ IsInt(y)
        truth == CASE op = "<" -> x[2] < y[2] [] op = "<=" -> x[2] <= y[2]
                   [] op = ">" -> x[2] > y[2] [] op = ">=" -> x[2] >= y[2]
    IN  CASE op = "==" -> Values(w, <<Bool(x = y)>>)
          [] op = "~=" -> Values(w, <<Bool(x # y)>>)
          [] op \in {"<", "<=", ">", ">="} -> IF ints THEN Values(w, <<Bool(truth)>>) ELSE Failed(w, "compare")
          [] op = ".." -> IF IsText(x) /\ IsText(y) THEN Values(w, <<<<"str", Text(x) \o Text(y)>>>>)
                          ELSE Failed(w, "concatenate")
          [] OTHER -> IF ~ints THEN Failed(w, "arithmetic")
                      ELSE IF op \in {"//", "%"} /\ y[2] = 0 THEN Failed(w, "zero")
                      ELSE Values(w, <<Number(Arith(BinaryOf[op], x[2], y[2]))>>)

\* The values of an expression: several for a call and for `...', otherwise one.
Value(w, env, e) ==
    LET x == Value(w, env, e[2])
        \* the first operand of an operator
        p == Value(w, env, e[3])
        q == Value(p.w, env, e[4])
        key == Value(x.w, env, e[3])
        args == ValueList(x.w, env, e[3])
        method == GetIndex(x.w, First(x.vs), <<"str", e[3]>>)
        margs == ValueList(method.w, env, e[4])
        self == First(x.vs)
        name == env[e[2]]
    IN  IF w.error # "" THEN Values(w, <<>>)
        ELSE CASE e[1] = "const" -> Values(w, <<e[2]>>)
          [] e[1] = "var" -> IF e[2] \in DOMAIN env THEN Values(w, <<w.cells[name]>>)
                             ELSE GetIndex(w, w.cells[env["_ENV"]], <<"str", e[2]>>)
          [] e[1] = "vararg" -> Values(w, w.varargs[w.cells[env["..."]]])
          [] e[1] = "paren" -> Values(x.w, <<First(x.vs)>>)
          [] e[1] = "not" -> Values(x.w, <<Bool(l_isfalse(First(x.vs)))>>)
          [] e[1] = "neg" -> IF x.w.error = "" /\ ~IsInt(self) THEN Failed(x.w, "arithmetic")
                             ELSE IF x.w.error # "" THEN x ELSE Values(x.w, <<Number(-self[2])>>)
          [] e[1] = "len" -> IF x.w.error # "" THEN x
                             ELSE IF self[1] = "table" THEN Values(x.w, <<Number(Border(x.w.tables[self[2]]))>>)
                             ELSE IF self[1] = "str" THEN Values(x.w, <<Number(Len(self[2]))>>)
                             ELSE Failed(x.w, "length")
          [] e[1] = "bin" /\ e[2] = "and" -> IF l_isfalse(First(p.vs)) THEN Values(p.w, <<First(p.vs)>>)
                                             ELSE Values(q.w, <<First(q.vs)>>)
          [] e[1] = "bin" /\ e[2] = "or" -> IF ~l_isfalse(First(p.vs)) THEN Values(p.w, <<First(p.vs)>>)
                                            ELSE Values(q.w, <<First(q.vs)>>)
          [] e[1] = "bin" /\ e[2] \notin {"and", "or"} -> IF q.w.error # "" THEN q ELSE Apply(q.w, e[2], First(p.vs), First(q.vs))
          [] e[1] = "index" -> IF key.w.error # "" THEN key ELSE GetIndex(key.w, self, First(key.vs))
          [] e[1] = "call" -> IF args.w.error # "" THEN args ELSE Call(args.w, self, args.vs)
          [] e[1] = "method" -> IF x.w.error # "" THEN x
                                ELSE IF margs.w.error # "" THEN margs
                                ELSE Call(margs.w, First(method.vs), <<self>> \o margs.vs)
          [] e[1] = "function" ->
               Values([w EXCEPT !.functions = Append(@, [params |-> e[2], more |-> e[3], code |-> e[4], env |-> env])],
                      <<<<"function", Len(w.functions) + 1>>>>)
          [] e[1] = "table" ->
               LET t == [w EXCEPT !.tables = Append(@, <<>>)]
               IN  Values(Items(t, env, <<"table", Len(t.tables)>>, e[2], 1), <<<<"table", Len(t.tables)>>>>)

ValueList(w, env, es) ==
    IF es = <<>> THEN Values(w, <<>>)
    ELSE LET v == Value(w, env, es[1])
             more == ValueList(v.w, env, Tail(es))
         IN  IF Len(es) = 1 \/ v.w.error # "" THEN v ELSE Values(more.w, <<First(v.vs)>> \o more.vs)

\* The fields of a constructor from the first one, with the place of the next item.
Items(w, env, t, fields, n) ==
    IF fields = <<>> \/ w.error # "" THEN w
    ELSE LET f == fields[1]
             v == Value(w, env, f[2])
             val == Value(v.w, env, f[3])
             all == IF Len(fields) = 1 THEN v.vs ELSE <<First(v.vs)>>
             places == {Number((n + k) - 1) : k \in {k \in 1 .. Len(all) : all[k] # Nil}}
         IN  IF f[1] = "item"
             THEN Items([v.w EXCEPT !.tables[t[2]] = [x \in places |-> all[(x[2] - n) + 1]] @@ @],
                        env, t, Tail(fields), n + 1)
             ELSE Items(IF val.w.error # "" THEN val.w ELSE SetIndex(val.w, t, First(v.vs), First(val.vs)),
                        env, t, Tail(fields), n)

\* What a statement list ends with.
Normal == [kind |-> "normal"]
End(w, how) == [w |-> w, how |-> how]

Call(w, f, args) ==
    LET fun == w.functions[f[2]]
        n == Len(fun.params)
        d == Declare(w, fun.env, fun.params, args)
        v == Declare([d.w EXCEPT !.varargs = Append(@, SubSeq(args, n + 1, Len(args)))], d.env, <<"...">>,
                     <<Len(w.varargs) + 1>>)
        done == Do(IF fun.more THEN v.w ELSE d.w, IF fun.more THEN v.env ELSE d.env, fun.code)
    IN  CASE f[1] = "builtin" -> Values([w EXCEPT !.out = Append(@, [k \in DOMAIN args |-> Seen(args[k])])], args)
          [] f[1] = "function" -> Values(done.w, IF done.how.kind = "return" THEN done.how.vs ELSE <<>>)
          [] OTHER -> Failed(w, "call")

\* Targets are evaluated before anything is stored: a variable, or a table and a key.
Targets(w, env, ts) ==
    IF ts = <<>> THEN Values(w, <<>>)
    ELSE LET t == Value(w, env, ts[1][2])
             key == Value(t.w, env, ts[1][3])
             more == Targets(IF ts[1][1] = "index" THEN key.w ELSE w, env, Tail(ts))
         IN  Values(more.w, <<IF ts[1][1] = "var" /\ ts[1][2] \in DOMAIN env THEN <<"cell", env[ts[1][2]]>>
                              ELSE IF ts[1][1] = "var"
                                   THEN <<"field", w.cells[env["_ENV"]], <<"str", ts[1][2]>>>>
                              ELSE <<"field", First(t.vs), First(key.vs)>>>> \o more.vs)

\* The last target first.
Store_(w, env, ts, vs) ==
    IF ts = <<>> \/ w.error # "" THEN w
    ELSE LET t == ts[Len(ts)]
             v == vs[Len(ts)]
         IN  Store_(IF t[1] = "cell" THEN [w EXCEPT !.cells[t[2]] = v] ELSE SetIndex(w, t[2], t[3], v),
                    env, SubSeq(ts, 1, Len(ts) - 1), vs)

\* A loop goes on unless its body ends with something else than its end.
Leaves(done) == done.w.error # "" \/ done.how.kind # "normal"
AfterLoop(done) == IF done.how.kind = "break" THEN End(done.w, Normal) ELSE done

While(w, env, s) ==
    LET c == Value(w, env, s[2])
        done == Do(c.w, env, s[3])
    IN  IF c.w.error # "" \/ l_isfalse(First(c.vs)) THEN End(c.w, Normal)
        ELSE IF Leaves(done) THEN AfterLoop(done)
        ELSE While(done.w, env, s)

\* The condition sees the variables of the body.
Repeat(w, env, s) ==
    LET done == Do(w, env, s[2])
        c == Value(done.w, done.how.env, s[3])
    IN  IF Leaves(done) THEN AfterLoop(done)
        ELSE IF c.w.error # "" \/ ~l_isfalse(First(c.vs)) THEN End(c.w, Normal)
        ELSE Repeat(c.w, env, s)

Numeric(w, env, s, i, limit, step) ==
    LET d == Declare(w, env, <<s[2]>>, <<Number(i)>>)
        done == Do(d.w, d.env, s[4])
    IN  IF (step > 0 /\ i > limit) \/ (step <= 0 /\ i < limit) THEN End(w, Normal)
        ELSE IF Leaves(done) THEN AfterLoop(done)
        ELSE Numeric(done.w, env, s, i + step, limit, step)

Generic(w, env, s, f, state, control) ==
    LET r == Call(w, f, <<state, control>>)
        d == Declare(r.w, env, s[2], r.vs)
        done == Do(d.w, d.env, s[4])
    IN  IF r.w.error # "" \/ First(r.vs) = Nil THEN End(r.w, Normal)
        ELSE IF Leaves(done) THEN AfterLoop(done)
        ELSE Generic(done.w, env, s, f, state, First(r.vs))

TryClauses(w, env, s) ==
    IF s[2] = <<>> THEN Do(w, env, s[3])
    ELSE LET c == Value(w, env, s[2][1][1])
         IN  IF c.w.error # "" THEN End(c.w, Normal)
             ELSE IF l_isfalse(First(c.vs)) THEN TryClauses(c.w, env, <<"if", Tail(s[2]), s[3]>>)
             ELSE Do(c.w, env, s[2][1][2])

\* A statement: the world and the environment after it, and how it ends.
Effect(w, env, s) ==
    LET vs == ValueList(w, env, s[3])
        d == Declare(vs.w, env, s[2], vs.vs)
        targets == Targets(w, env, s[2])
        given == ValueList(targets.w, env, s[3])
        limits == Upto(vs.vs, 3)
        step == IF Len(s[3]) = 3 THEN limits[3] ELSE Number(1)
        own == Declare(w, env, <<s[2]>>, <<>>)
        f == Value(own.w, own.env, <<"function", s[3], s[4], s[5]>>)
        fv == Value(w, env, <<"function", s[3], s[4], s[5]>>)
        mv == Value(w, env, <<"function", <<"self">> \o s[4], s[5], s[6]>>)
        On(r) == [w |-> r.w, env |-> env, how |-> r.how]
        Then(w1, env1) == [w |-> w1, env |-> env1, how |-> Normal]
    IN  CASE s[1] = "local" -> Then(d.w, d.env)
          [] s[1] = "assign" ->
               Then(IF given.w.error # "" THEN given.w
                    ELSE Store_(given.w, env, targets.vs, Upto(given.vs, Len(targets.vs))), env)
          [] s[1] = "expr" -> Then(Value(w, env, s[2]).w, env)
          [] s[1] = "do" -> On(Do(w, env, s[2]))
          [] s[1] = "while" -> On(While(w, env, s))
          [] s[1] = "repeat" -> On(Repeat(w, env, s))
          [] s[1] = "if" -> On(TryClauses(w, env, s))
          [] s[1] = "fornum" ->
               IF vs.w.error # "" THEN Then(vs.w, env)
               ELSE IF ~(IsInt(limits[1]) /\ IsInt(limits[2]) /\ IsInt(step)) THEN Then(Failed(vs.w, "for").w, env)
               ELSE On(Numeric(vs.w, env, s, limits[1][2], limits[2][2], step[2]))
          [] s[1] = "forin" ->
               IF vs.w.error # "" THEN Then(vs.w, env)
               ELSE On(Generic(vs.w, env, s, limits[1], limits[2], limits[3]))
          [] s[1] = "localfunction" -> Then([f.w EXCEPT !.cells[own.env[s[2]]] = First(f.vs)], own.env)
          [] s[1] = "functions" ->
               LET target == IF Len(s[2]) = 1 THEN <<"var", s[2][1]>>
                             ELSE <<"index", <<"var", s[2][1]>>, <<"const", <<"str", s[2][2]>>>>>>
                   t == Targets(fv.w, env, <<target>>)
               IN  Then(Store_(t.w, env, t.vs, fv.vs), env)
          [] s[1] = "methods" ->
               LET t == Targets(mv.w, env, <<<<"index", <<"var", s[2]>>, <<"const", <<"str", s[3]>>>>>>>>)
               IN  Then(Store_(t.w, env, t.vs, mv.vs), env)
          [] s[1] = "return" ->
               LET r == ValueList(w, env, s[2])
               IN  [w |-> r.w, env |-> env, how |-> [kind |-> "return", vs |-> r.vs]]
          [] s[1] = "break" -> [w |-> w, env |-> env, how |-> [kind |-> "break"]]
          [] s[1] = "goto" -> [w |-> w, env |-> env, how |-> [kind |-> "goto", label |-> s[2]]]
          [] s[1] = "label" -> Then(w, env)

\* A block from a statement on, with the environments that its statements began with: a goto to
\* one of its labels goes on there, backwards with the environment the label had.
RECURSIVE DoFrom(_, _, _)
DoFrom(w, envs, ss) ==
    LET i == Len(envs)
        r == Effect(w, envs[i], ss[i])
        labels == {j \in DOMAIN ss : ss[j][1] = "label" /\ r.how.kind = "goto" /\ ss[j][2] = r.how.label}
        j == CHOOSE j \in labels : TRUE
    IN  IF i > Len(ss) \/ w.error # "" THEN End(w, [kind |-> "normal", env |-> envs[i]])
        ELSE IF r.how.kind = "normal" THEN DoFrom(r.w, Append(envs, r.env), ss)
        ELSE IF labels # {}
             THEN DoFrom(r.w, [k \in 1 .. j |-> IF k <= i THEN envs[k] ELSE r.env], ss)
        ELSE End(r.w, r.how)

Do(w, env, ss) == DoFrom(w, <<env>>, ss)

Meaning(ss, args) ==
    LET w == [cells |-> <<<<"table", 1>>, 1>>, varargs |-> <<args>>, tables |-> <<<<"str", "emit">> :> <<"builtin">>>>,
              functions |-> <<>>, out |-> <<>>, error |-> ""]
        done == Do(w, ("_ENV" :> 1) @@ ("..." :> 2), ss)
        vs == IF done.how.kind = "return" THEN done.how.vs ELSE <<>>
    IN  [out |-> done.w.out, error |-> done.w.error,
         results |-> IF done.w.error = "" THEN [k \in DOMAIN vs |-> Seen(vs[k])] ELSE <<>>]
-----------------------------------------------------------------------------
(* What a program does is asked: it is compiled and, if it can be, called *)

CompileInit == program \in Programs /\ asked = FALSE
AskProgram == ~asked /\ asked' = TRUE /\ UNCHANGED program

-----------------------------------------------------------------------------
(* What a program may not do: a break outside of a loop, a goto without a label in sight, or one *)
(* into the scope of a variable that is declared before the label                               *)

Declares(s) == s[1] \in {"local", "localfunction"}

\* The labels of a block that its i-th statement sees, and whether it may jump there: forwards, no
\* variable is declared on the way, unless nothing follows the label in its block.
Sees(ss, i, sight, inRepeat) ==
    LET own == {j \in DOMAIN ss : ss[j][1] = "label"}
        at(n) == CHOOSE j \in own : ss[j][2] = n
        last(j) == ~inRepeat /\ \A k \in j .. Len(ss) : ss[k][1] = "label"
        clear(j) == \A k \in i .. j : ~Declares(ss[k])
    IN  [n \in {ss[j][2] : j \in own} |-> at(n) < i \/ last(at(n)) \/ clear(at(n))] @@ sight

RECURSIVE Legal(_, _, _), LegalIn(_, _)

\* The functions in an expression are blocks of their own.
LegalIn(e, depth) ==
    CASE e[1] = "function" -> Legal(e[4], <<>>, FALSE)
      [] e[1] = "paren" -> LegalIn(e[2], depth)
      [] e[1] = "bin" -> LegalIn(e[3], depth) /\ LegalIn(e[4], depth)
      [] e[1] = "call" -> LegalIn(e[2], depth) /\ \A k \in DOMAIN e[3] : LegalIn(e[3][k], depth)
      [] OTHER -> TRUE

Legal(ss, sight, inRepeat) ==
    /\ \A i, j \in DOMAIN ss : i # j /\ ss[i][1] = "label" /\ ss[j][1] = "label" => ss[i][2] # ss[j][2]
    /\ \A i \in DOMAIN ss :
         LET s == ss[i]
             sees == Sees(ss, i, sight, inRepeat)
             looped == ("break" :> TRUE) @@ sees
         IN  CASE s[1] = "goto" -> s[2] \in DOMAIN sees /\ sees[s[2]]
               [] s[1] = "break" -> "break" \in DOMAIN sees
               [] s[1] = "do" -> Legal(s[2], sees, FALSE)
               [] s[1] = "while" -> Legal(s[3], looped, FALSE)
               [] s[1] = "repeat" -> Legal(s[2], looped, TRUE)
               [] s[1] \in {"fornum", "forin"} -> Legal(s[4], looped, FALSE)
               [] s[1] = "if" -> Legal(s[3], sees, FALSE) /\ \A c \in DOMAIN s[2] : Legal(s[2][c][2], sees, FALSE)
               [] s[1] \in {"localfunction", "functions"} -> Legal(s[5], <<>>, FALSE)
               [] s[1] = "methods" -> Legal(s[6], <<>>, FALSE)
               [] s[1] \in {"local", "assign"} -> \A k \in DOMAIN s[3] : LegalIn(s[3][k], 0)
               [] OTHER -> TRUE

-----------------------------------------------------------------------------
(* What the compiler and the interpreter promise *)

\* A compiled program does what its text means: it shows the same values, returns the same values
\* and fails in the same way, whatever it is called with.
RunsAsWritten(compiled, tree) ==
    compiled.error = "" =>
        \A args \in Inputs : Outcome(compiled.proto, args) = Meaning(tree, args)

\* Exactly the programs that jump to nowhere or into the scope of a variable are refused
\* (closegoto, undefgoto and checkrepeated of lparser.c).
RefusesTheIllegal(compiled, tree) == compiled.error = "" <=> Legal(tree, <<>>, FALSE)

\* No assertion of the parser or of the code generator fails, whatever compiles (the lua_asserts of
\* lparser.c and lcode.c are compiled out of the program).
AssertionsHold(compiled) == compiled.error = "" => compiled.broken = {}

\* The functions of a compiled text.
RECURSIVE Protos(_)
Protos(p) == {p} \cup UNION {Protos(p.protos[k]) : k \in DOMAIN p.protos}

\* The registers an instruction names, and where it may go.
Registers(i) ==
    (IF i.op \in {"SETTABUP", "JMP", "EQ", "LT", "LE", "EXTRAARG"} THEN {} ELSE {i.a})
    \cup (IF i.op \in {"MOVE", "GETTABLE", "SELF", "NOT", "UNM", "LEN", "CONCAT", "TESTSET"} THEN {i.b} ELSE {})
    \cup (IF i.op \in {"GETTABUP", "GETTABLE", "SELF", "EQ", "LT", "LE", "ADD", "SUB", "MUL", "MOD", "IDIV",
                       "CONCAT", "SETTABLE", "SETTABUP"} THEN {i.c} ELSE {})
    \cup (IF i.op \in {"SETTABLE", "SETTABUP", "EQ", "LT", "LE", "ADD", "SUB", "MUL", "MOD", "IDIV"}
          THEN {i.b} ELSE {})
    \cup CASE i.op \in {"CALL", "TAILCALL", "SETLIST"} /\ i.b > 0 -> {i.a + i.b - 1}
            [] i.op = "RETURN" /\ i.b > 1 -> {i.a + i.b - 2}
            [] i.op = "LOADNIL" -> {i.a + i.b}
            [] i.op \in {"FORPREP", "FORLOOP"} -> {i.a + 3}
            [] i.op = "TFORCALL" -> {i.a + 5, i.a + 2 + i.c}
            [] i.op = "SELF" -> {i.a + 1}
            [] OTHER -> {}

\* Code stays inside of its function: its registers are below maxstacksize, its constants and
\* upvalues exist, its jumps lead to its instructions, a test is followed by a jump, and an open
\* list of values is used by the next instruction.
CodeIsSound(compiled) ==
    compiled.error = "" => \A p \in Protos(compiled.proto) : \A pc \in DOMAIN p.code :
        LET i == p.code[pc]
            next == p.code[pc + 1]
            open == \/ i.op = "VARARG" /\ i.b = 0
                    \/ i.op = "CALL" /\ i.c = 0
        IN  /\ \A r \in Registers(i) : IF ISK(r) THEN -r \in DOMAIN p.k ELSE r < p.maxstacksize
            /\ i.op = "LOADK" => i.b + 1 \in DOMAIN p.k
            /\ i.op \in {"GETUPVAL", "GETTABUP", "SETUPVAL"} => i.b + 1 \in DOMAIN p.upvalues
            /\ i.op \in {"JMP", "FORPREP", "FORLOOP", "TFORLOOP"} => (pc + 1) + i.b \in DOMAIN p.code
            /\ i.op \in {"EQ", "LT", "LE", "TEST", "TESTSET"} => next.op = "JMP"
            /\ open => next.op \in {"CALL", "TAILCALL", "RETURN", "SETLIST"} /\ next.b = 0
            /\ i.op \in {"CALL", "RETURN", "SETLIST"} /\ i.b = 0 =>
                 p.code[pc - 1].op = "TAILCALL" \/ p.code[pc - 1].op = "VARARG" \/ p.code[pc - 1].op = "CALL"

MeansWhatIsWritten(compiled, tree) ==
    /\ RunsAsWritten(compiled, tree)
    /\ RefusesTheIllegal(compiled, tree)
    /\ AssertionsHold(compiled)
    /\ CodeIsSound(compiled)

\* Of every program that is asked about: the compiler refuses what is no program, and its code does what
\* the program means and nothing outside of its function (lparser.c, lcode.c, lvm.c).
CompiledAsWritten ==
    [][asked' # asked =>
          MeansWhatIsWritten(luaY_parser(Statements(program)), program)]_compileVars
=============================================================================
