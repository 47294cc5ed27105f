---------------------------- MODULE MCLuaCompile ----------------------------
(* Programs for the compiler: conditions in every context, loops with every kind of body, and *)
(* programs that are each about one rule.  And, in other behaviours, the operators.              *)
EXTENDS LuaMeaning, LuaOperators

VARIABLE subject

MCNames == {"_ENV", "a", "b", "c", "f", "g", "h", "i", "k", "t", "x", "y", "l", "m", "n", "s", "self", "emit"}
MCNumberOf == [s \in {ToString(n) : n \in 0 .. 19} |-> CHOOSE n \in 0 .. 19 : ToString(n) = s]
MCStringOf == [s \in {"'a'", "'b'", "'x'", "'n'", "'emit'"} |->
                  CASE s = "'a'" -> "a" [] s = "'b'" -> "b" [] s = "'x'" -> "x" [] s = "'n'" -> "n"
                    [] s = "'emit'" -> "emit"]
MCInputs == {<<Nil, Number(1)>>, <<Bool(FALSE), Number(2)>>, <<Number(1), Number(2)>>, <<Number(2), Number(1)>>}

-----------------------------------------------------------------------------
(* Trees *)

V(n) == <<"var", n>>
I(n) == <<"const", Number(n)>>
S(s) == <<"const", <<"str", s>>>>
NilE == <<"const", Nil>>
True == <<"const", Bool(TRUE)>>
False == <<"const", Bool(FALSE)>>
Dots == <<"vararg">>
Bin(op, x, y) == <<"bin", op, x, y>>
Not(x) == <<"not", x>>
Invoke(f, es) == <<"call", f, es>>
At(t, k) == <<"index", t, k>>
Fun(params, ss) == <<"function", params, FALSE, ss>>
Item(e) == <<"item", e>>
Field(k, e) == <<"field", k, e>>
Local(ns, es) == <<"local", ns, es>>
Set(ts, es) == <<"assign", ts, es>>
Do1(e) == <<"expr", e>>
Emit(es) == Do1(Invoke(V("emit"), es))
Return(es) == <<"return", es>>
If(c, ss) == <<"if", <<<<c, ss>>>>, <<>>>>
Arguments == Local(<<"a", "b">>, <<Dots>>)

-----------------------------------------------------------------------------
(* Conditions *)

Atoms == {V("a"), V("b"), NilE, True, I(1)}
Leaf == {V("a"), V("b")}
Conditions0 == Atoms \cup {Bin(op, V("a"), V("b")) : op \in {"==", "~="}} \cup {Bin("<", I(1), V("b")), Bin(">=", V("b"), I(2))}
Conditions1 == Conditions0 \cup {Not(x) : x \in Conditions0}
Conditions2 == {Bin(op, x, y) : op \in {"and", "or"}, x \in Conditions1, y \in Conditions1}
Conditions3 == {Bin(op, x, Not(Bin(p, y, z))) : op \in {"and", "or"}, p \in {"and", "or", "=="},
                   x \in Leaf \cup {Not(V("a"))}, y \in Leaf \cup {NilE}, z \in Leaf}
               \cup {Bin(op, Bin(p, x, y), z) : op \in {"and", "or"}, p \in {"and", "or", "=="},
                   x \in Leaf \cup {I(1)}, y \in Leaf \cup {False}, z \in Leaf \cup {NilE}}
Conditions == Conditions2 \cup Conditions3

Contexts(e) == {
    <<Arguments, Local(<<"x">>, <<e>>), Emit(<<V("x"), e>>), Return(<<e>>)>>,
    <<Arguments, <<"if", <<<<e, <<Emit(<<I(1)>>)>>>>, <<V("b"), <<>>>>>>, <<Emit(<<I(3)>>)>>>>,
      <<"while", e, <<Emit(<<I(2)>>), Set(<<V("a"), V("b")>>, <<NilE, I(3)>>), If(e, <<<<"break">>>>)>>>>,
      <<"repeat", <<Local(<<"x">>, <<>>), Emit(<<V("x")>>), Set(<<V("a")>>, <<True>>)>>, Bin("or", e, True)>>,
      Set(<<V("b")>>, <<e>>), Set(<<V("g")>>, <<e>>), Return(<<V("a"), V("b"), V("g")>>)>>}

ConditionPrograms == UNION {Contexts(e) : e \in Conditions}

-----------------------------------------------------------------------------
(* Loops: every sequence of three statements as the body *)

Plus(x, n) == Bin("+", V(x), I(n))
Capture == Set(<<V("g"), V("f")>>, <<V("f"), Fun(<<>>, <<Set(<<V("x")>>, <<Plus("x", 1)>>), Return(<<V("x")>>)>>)>>)
Body == {
    Local(<<"x">>, <<Plus("c", 5)>>),
    Capture,
    If(Bin(">", V("c"), I(1)), <<<<"break">>>>),
    If(Bin("<", V("c"), I(4)), <<Set(<<V("c")>>, <<Plus("c", 1)>>), <<"goto", "n">>>>),
    <<"label", "n">>,
    Emit(<<V("x"), Invoke(V("f"), <<>>)>>),
    <<"do", <<Local(<<"x">>, <<V("c")>>), Capture,
              If(Bin("<", V("c"), I(3)), <<Set(<<V("c")>>, <<Plus("c", 2)>>), <<"goto", "n">>>>)>>>>,
    <<"localfunction", "f", <<"y">>, FALSE, <<Return(<<Bin("+", V("x"), V("c"))>>)>>>>}

Next1 == Set(<<V("c")>>, <<Plus("c", 1)>>)
Iterator == Fun(<<"s", "k">>, <<If(Bin("<", V("k"), V("s")), <<Return(<<Plus("k", 1), V("s")>>)>>)>>)
Loops(body3) == {
    <<"while", Bin("<", V("c"), I(3)), <<Next1>> \o body3>>,
    <<"fornum", "x", <<I(1), I(3)>>, <<Next1>> \o body3>>,
    <<"forin", <<"x", "y">>, <<Iterator, I(2), I(0)>>, <<Next1>> \o body3>>,
    <<"repeat", <<Next1>> \o body3, Bin("or", Bin(">=", V("c"), I(3)), Bin("==", V("x"), I(7)))>>,
    <<"do", body3>>}

LoopPrograms == {
    <<Local(<<"c", "x">>, <<I(0), I(10)>>), Local(<<"f">>, <<Fun(<<>>, <<>>)>>), loop,
      If(V("g"), <<Emit(<<Invoke(V("g"), <<I(1)>>), Invoke(V("g"), <<I(1)>>)>>)>>),
      Return(<<V("c"), V("x"), Invoke(V("f"), <<>>), Invoke(V("f"), <<>>)>>)>> :
    loop \in UNION {Loops(<<p, q, r>>) : p \in Body, q \in Body, r \in Body}}

-----------------------------------------------------------------------------
(* Programs that are each about one rule *)

T0 == <<"table", <<>>>>
TableOf(es) == <<"table", [k \in DOMAIN es |-> Item(es[k])]>>
Show(t, n) == Emit([k \in 1 .. n |-> At(V(t), I(k))])
Many == Invoke(V("emit"), <<I(7), I(8), I(9)>>)
LocalFun(n, ps, more, ss) == <<"localfunction", n, ps, more, ss>>

\* The targets of an assignment are evaluated before any of them changes; what has no value gets nil.
Assignments == {
    <<Local(<<"t", "i">>, <<T0, I(1)>>), Set(<<V("i"), At(V("t"), V("i"))>>, <<I(2), I(3)>>),
      Emit(<<V("i")>>), Show("t", 2)>>,
    <<Local(<<"t", "i">>, <<T0, I(1)>>), Set(<<At(V("t"), V("i")), V("i")>>, <<I(2), I(3)>>),
      Emit(<<V("i")>>), Show("t", 3)>>,
    <<Local(<<"t">>, <<T0>>), Local(<<"x">>, <<V("t")>>),
      Set(<<At(V("t"), I(1)), V("t")>>, <<I(2), I(3)>>), Emit(<<V("t"), At(V("x"), I(1))>>)>>,
    <<Local(<<"t">>, <<T0>>), Local(<<"x">>, <<V("t")>>),
      LocalFun("f", <<>>, FALSE, <<Set(<<At(V("t"), I(1)), V("t")>>, <<I(2), I(3)>>)>>),
      Do1(Invoke(V("f"), <<>>)), Emit(<<V("t"), At(V("x"), I(1))>>)>>,
    <<Local(<<"x", "y", "m">>, <<Many>>), Set(<<V("x"), V("y"), V("m"), V("g")>>, <<V("y"), Many>>),
      Set(<<V("x"), V("y")>>, <<V("y"), V("x")>>), Return(<<V("x"), V("y"), V("m"), V("g")>>)>>,
    <<Local(<<"x", "y">>, <<I(1)>>), Set(<<V("x"), V("y"), V("g")>>, <<Many, I(2)>>),
      Emit(<<V("x"), V("y"), V("g")>>), Set(<<V("x")>>, <<I(1), Many, V("y")>>), Return(<<V("x")>>)>>}

\* Calls, their arguments and results, `...' and constructors.
Lists == {
    <<LocalFun("f", <<"x">>, TRUE, <<Local(<<"y", "m">>, <<Dots>>), Emit(<<V("x"), V("y"), V("m"), Dots>>),
                                     Return(<<V("x"), <<"paren", Dots>>, Dots>>)>>),
      Return(<<Invoke(V("f"), <<>>), Invoke(V("f"), <<Many>>), Invoke(V("f"), <<I(1), Dots>>)>>)>>,
    <<Local(<<"t">>, <<TableOf(<<I(1), I(2), I(3), I(4), I(5), Many>>)>>), Show("t", 9)>>,
    <<Local(<<"t">>, <<TableOf(<<I(1), Many, I(3), Dots>>)>>), Show("t", 6)>>,
    <<Local(<<"t">>, <<<<"table", <<Item(I(1)), Field(S("a"), Many), Item(I(2)), Field(I(3), I(6)),
                                    Item(Many), Field(S("b"), T0)>>>>>>),
      Show("t", 4), Return(<<At(V("t"), S("a")), <<"len", V("t")>>>>)>>,
    <<Local(<<"t">>, <<T0>>),
      <<"methods", "t", "m", <<"x">>, FALSE, <<Emit(<<V("self"), V("x")>>), Return(<<V("self"), V("x")>>)>>>>,
      <<"functions", <<"t", "n">>, <<"x">>, TRUE, <<Return(<<Dots>>)>>>>,
      <<"functions", <<"g">>, <<>>, FALSE, <<Return(<<V("t")>>)>>>>,
      Return(<<<<"method", V("t"), "m", <<Many>>>>, <<"method", Invoke(V("g"), <<>>), "n", <<I(4), Dots>>>>>>)>>,
    <<LocalFun("f", <<"x", "y">>, FALSE, <<If(Bin("==", V("x"), I(0)), <<Return(<<V("y")>>)>>),
          Return(<<Invoke(V("f"), <<Bin("-", V("x"), I(1)), Fun(<<>>, <<Return(<<V("x"), V("y")>>)>>)>>)>>)>>),
      Local(<<"g">>, <<Invoke(V("f"), <<I(2)>>)>>), Local(<<"x", "h">>, <<Invoke(V("g"), <<>>)>>),
      Return(<<V("x"), Invoke(V("h"), <<>>)>>)>>,
    <<LocalFun("f", <<"x">>, TRUE, <<Local(<<"y">>, <<Dots>>), Set(<<V("g")>>, <<Fun(<<>>, <<Return(<<V("y")>>)>>)>>),
          Return(<<Invoke(V("emit"), <<V("x"), Dots>>)>>)>>),
      Emit(<<Invoke(V("f"), <<Dots>>)>>), Return(<<Invoke(V("g"), <<>>)>>)>>}

\* A variable is new each time a jump backwards leads to its declaration again.
Again == {
    <<Local(<<"t", "c">>, <<T0, I(0)>>), <<"label", "n">>, Local(<<"x">>, <<V("c")>>),
      Set(<<At(V("t"), V("c"))>>, <<Fun(<<>>, <<Set(<<V("x")>>, <<Plus("x", 5)>>), Return(<<V("x")>>)>>)>>),
      If(Bin("<", V("c"), I(2)), <<Next1, <<"goto", "n">>>>),
      Emit(<<Invoke(At(V("t"), I(0)), <<>>)>>), Emit(<<Invoke(At(V("t"), I(0)), <<>>)>>),
      Return(<<Invoke(At(V("t"), I(1)), <<>>), Invoke(At(V("t"), I(2)), <<>>)>>)>>}

\* Variables: shadowed ones, those of functions further out, and closures that may be shared.
Variables == {
    <<Local(<<"x">>, <<I(1)>>), Local(<<"x">>, <<Plus("x", 1)>>), <<"do", <<Local(<<"x", "x">>, <<I(5), I(6)>>),
      Emit(<<V("x")>>)>>>>, Set(<<V("x")>>, <<Plus("x", 1)>>), Return(<<V("x")>>)>>,
    <<Local(<<"x", "y">>, <<I(1), I(2)>>),
      LocalFun("f", <<>>, FALSE, <<LocalFun("h", <<"y">>, FALSE, <<Set(<<V("x")>>, <<Bin("+", V("x"), V("y"))>>),
          Return(<<Fun(<<>>, <<Set(<<V("x")>>, <<Plus("x", 1)>>), Return(<<V("x"), V("y")>>)>>)>>)>>),
          Return(<<Invoke(V("h"), <<V("y")>>)>>)>>),
      Local(<<"g">>, <<Invoke(V("f"), <<>>)>>), Do1(Invoke(V("g"), <<>>)), Set(<<V("y")>>, <<I(9)>>),
      Return(<<V("x"), Invoke(V("g"), <<>>), Invoke(Invoke(V("f"), <<>>), <<>>)>>)>>,
    <<Local(<<"t">>, <<T0>>), <<"fornum", "i", <<I(1), I(2)>>, <<
          Local(<<"x">>, <<V("i")>>), Set(<<At(V("t"), V("i"))>>, <<Fun(<<>>, <<Set(<<V("x")>>, <<Plus("x", 1)>>),
          Return(<<V("x")>>)>>)>>)>>>>,
      Emit(<<Invoke(At(V("t"), I(1)), <<>>)>>), Emit(<<Invoke(At(V("t"), I(1)), <<>>)>>),
      Return(<<Invoke(At(V("t"), I(2)), <<>>)>>)>>,
    <<Local(<<"t", "x">>, <<T0, I(3)>>), <<"fornum", "i", <<I(1), I(2)>>, <<
          Set(<<At(V("t"), V("i"))>>, <<Fun(<<>>, <<Return(<<V("x")>>)>>)>>)>>>>,
      Set(<<V("x")>>, <<I(4)>>), Return(<<Invoke(At(V("t"), I(1)), <<>>), Invoke(At(V("t"), I(2)), <<>>)>>)>>,
    <<Local(<<"x">>, <<>>), Set(<<V("g")>>, <<Fun(<<>>, <<Local(<<"y">>, <<V("x")>>), Set(<<V("x")>>, <<I(4)>>),
          Return(<<V("y"), V("x")>>)>>)>>), Return(<<Invoke(V("g"), <<>>), Invoke(V("g"), <<>>)>>)>>,
    <<Local(<<"_ENV">>, <<<<"table", <<Field(S("a"), I(2)), Field(S("emit"), V("emit"))>>>>>>),
      Set(<<V("b")>>, <<V("a")>>), Emit(<<V("b"), V("x")>>), Return(<<At(V("_ENV"), S("b"))>>)>>,
    <<Local(<<"x", "y">>, <<>>), <<"do", <<Local(<<"a", "b">>, <<I(1), I(2)>>)>>>>, If(V("x"), <<Set(<<V("y")>>, <<I(1)>>)>>),
      Local(<<"m">>, <<>>), Local(<<"n">>, <<>>), Return(<<V("x"), V("y"), V("m"), V("n")>>)>>,
    <<Arguments, <<"do", <<Local(<<"x">>, <<I(5)>>)>>>>, If(V("a"), <<Local(<<"x">>, <<>>)>>), Local(<<"m">>, <<>>),
      Return(<<V("m")>>)>>}

\* Constants beyond what operands and OP_LOADK can name, folding, and precedence.
Constants == {
    <<Local(<<"x">>, <<I(1)>>), Emit([k \in 1 .. 9 |-> Bin("+", V("x"), I(9 + k))]),
      Emit([k \in 1 .. 9 |-> Bin("==", I(9 + k), V("x"))]),
      Return(<<Bin("-", Bin("*", I(2), I(3)), I(7)), <<"neg", I(3)>>, Bin("//", I(7), I(0))>>)>>,
    <<Local(<<"x", "y">>, <<I(7), I(2)>>),
      Return(<<Bin("//", V("x"), V("y")), Bin("%", <<"neg", V("x")>>, V("y")),
               Bin("-", Bin("-", V("x"), V("y")), I(1)), Bin("-", V("x"), Bin("-", V("y"), I(1))),
               Bin("*", Bin("+", V("x"), V("y")), <<"neg", Bin("+", V("y"), I(1))>>),
               Bin("..", V("x"), Bin("..", S("a"), V("y"))), Bin("..", Bin("..", V("x"), S("a")), Bin("+", V("y"), I(1))),
               Not(Bin("<", V("x"), V("y"))), Bin("==", Not(V("x")), False), <<"len", Bin("..", S("a"), S("b"))>>>>)>>,
    <<Local(<<"x">>, <<I(1)>>), <<"fornum", "i", <<I(3), I(1), <<"neg", I(1)>>>>, <<Emit(<<V("i")>>)>>>>,
      <<"fornum", "i", <<I(3), I(1)>>, <<Emit(<<V("i")>>)>>>>,
      <<"fornum", "i", <<V("x"), Plus("x", 3), I(2)>>, <<Set(<<V("i")>>, <<Plus("i", 5)>>), Emit(<<V("i")>>)>>>>,
      <<"fornum", "i", <<I(1), S("a")>>, <<>>>>>>,
    <<Local(<<"t">>, <<T0>>), Set(<<At(V("t"), S("a"))>>, <<T0>>), Set(<<At(At(V("t"), S("a")), S("b"))>>, <<I(1)>>),
      Return(<<At(At(V("t"), S("a")), Bin("..", S("b"), S("n"))), At(At(V("t"), S("x")), I(1))>>)>>}

MCPrograms == ConditionPrograms \cup LoopPrograms \cup Assignments \cup Lists \cup Again \cup Variables \cup Constants

-----------------------------------------------------------------------------
(* Programs for the operators: metatables, registers, and the instructions that use them. *)
Num1 == [t |-> "number", v |-> <<"1">>]
Half3 == [t |-> "number", v |-> <<"1.5">>]
Chars(cs) == [t |-> "string", v |-> cs]
X == Tab("x")
Y == Tab("y")
MX == Tab("mx")
F_ == Func("f")
G_ == Func("g")
MCNumerals == {Chars(<<"1">>)}


\* Contents: what the key of each table holds, and some metamethods by metatable and event.
Content(kx, ky, fields) == (<<"x", "k">> :> kx) @@ (<<"y", "k">> :> ky) @@ fields
FieldChoices(mts, events, choices) == [mts \X events -> choices]
CallField(choices) == [{<<"mx", "__call">>} -> choices]

Operands == {NoValue, Num1, Half3, Chars(<<"1">>), Chars(<<"a">>), X, Y, F_}
BinaryPrograms(name, event, operands) ==
    \E fields \in FieldChoices({"mx", "my", "ms"}, {event}, {NoValue, F_, X}), call \in CallField({NoValue, G_}),
       l, r \in operands :
        opvm = Machine(name, Content(NoValue, NoValue, fields @@ call), <<X, l, r>>, 1)
UnaryPrograms(name, event) ==
    \E fields \in FieldChoices({"mx", "my", "ms"}, {event}, {NoValue, F_, X}), call \in CallField({NoValue, G_}),
       o \in Operands :
        opvm = Machine(name, Content(NoValue, NoValue, fields @@ call), <<X, o>>, 1)
OrderPrograms ==
    \E fields \in FieldChoices({"mx", "my"}, {"__lt", "__le"}, {NoValue, F_, X}), call \in CallField({NoValue, G_}),
       l, r \in {Num1, Half3, Chars(<<>>), Chars(<<"a">>), X, Y} :
        opvm = Machine("order", Content(NoValue, NoValue, fields @@ call), <<X, l, r>>, 1)
EqualPrograms ==
    \E fields \in FieldChoices({"mx", "my"}, {"__eq"}, {NoValue, F_, G_, X}), call \in CallField({NoValue, G_}),
       l, r \in {NoValue, Num1, Chars(<<"1">>), X, Y, MX} :
        opvm = Machine("equal", Content(NoValue, NoValue, fields @@ call), <<X, l, r>>, 1)
IndexPrograms ==
    \E kx, ky \in {NoValue, Half3}, o \in {NoValue, Chars(<<"a">>), X, Y, F_}, key \in {Chars(<<"k">>), Num1},
       fields \in FieldChoices({"mx", "my", "ms"}, {"__index"}, {NoValue, F_, X, Y, Num1}) :
        opvm = Machine("index", Content(kx, ky, fields), <<Num1, o, key, o>>, 1)
NewIndexPrograms ==
    \E kx, ky \in {NoValue, Half3}, o \in {NoValue, Chars(<<"a">>), X, Y},
       fields \in FieldChoices({"mx", "my", "ms"}, {"__newindex"}, {NoValue, F_, X, Y, Num1}) :
        opvm = Machine("newindex", Content(kx, ky, fields), <<o, Num1, Num1>>, 1)
ConcatPrograms ==
    \E fields \in FieldChoices({"mx", "my"}, {"__concat"}, {NoValue, F_, X}), call \in CallField({NoValue, G_}),
       operands \in [1 .. 3 -> {Num1, Chars(<<"a">>), Chars(<<>>), X, Y}]
                    \cup [1 .. 4 -> {Chars(<<"a">>), Chars(<<>>), X}] :
        opvm = Machine("concat", Content(NoValue, NoValue, fields @@ call), <<F_>> \o operands, 1)
CallPrograms ==
    \E call \in CallField({NoValue, G_, X}), f \in {F_, X, Y, NoValue}, a \in {Num1, X} :
        opvm = Machine("call", Content(NoValue, NoValue, call), <<f, a, Y>>, 1)
\* A metatable changes between two uses.
CachedPrograms ==
    \E start \in {NoValue, G_} :
        opvm = Machine("cached", Content(NoValue, NoValue, [key \in {<<"mx", e>> : e \in Cached_} |-> start]),
                     <<Num1, X, Y, MX, F_>>, 3)

OperatorsInit ==
    \/ BinaryPrograms("add", "__add", Operands) \/ BinaryPrograms("band", "__band", Operands \ {F_, NoValue})
    \/ UnaryPrograms("unm", "__unm") \/ UnaryPrograms("len", "__len")
    \/ OrderPrograms \/ EqualPrograms \/ IndexPrograms \/ NewIndexPrograms \/ ConcatPrograms \/ CallPrograms
    \/ CachedPrograms

\* One shape of instruction, with the registers it uses; some write where they read.
Ins3(op_, a, b, c) == [op |-> op_, a |-> a, b |-> b, c |-> c]
Tests(op_) == {[op |-> op_, b |-> 2, c |-> 3, want |-> want] : want \in BOOLEAN}
K_(key) == Chars(<<key>>)
InstructionsOf(name) ==
    CASE name = "add" -> {Ins3("arith", a, 2, 3) @@ [event |-> "__add"] : a \in {1, 2}}
      [] name = "band" -> {Ins3("arith", 3, 2, 3) @@ [event |-> "__band"]}
      [] name = "unm" -> {Ins3("unary", 1, 2, 0) @@ [event |-> "__unm"]}
      [] name = "len" -> {Ins3("OP_LEN", 1, 2, 0)}
      [] name = "order" -> Tests("OP_LT") \cup Tests("OP_LE")
      [] name = "equal" -> Tests("OP_EQ")
      [] name = "index" -> {Ins3("OP_GETTABLE", a, 2, 3) : a \in {1, 2}}
                           \cup {Ins3("OP_SELF", a, 4, 0) @@ [key |-> K_("k")] : a \in {1, 3, 4}}
      [] name = "newindex" -> {Ins3("OP_SETTABLE", 1, 0, 3) @@ [key |-> key] : key \in {K_("k"), NoValue}}
      [] name = "concat" -> {Ins3("OP_CONCAT", a, 2, c) : a \in {1, 2, 6}, c \in {4, 5}}
      [] name = "call" -> {Ins3("OP_CALL", 1, b, c) : b \in {1, 2, 3}, c \in {0, 1, 2, 3}}
                          \cup {Ins3("OP_TFORCALL", 1, 0, c) : c \in {1, 2}}
      [] name = "cached" -> {Ins3("OP_GETTABLE", 1, 2, 5), Ins3("OP_LEN", 1, 2, 0)} \cup Tests("OP_EQ")
                            \cup {Ins3("OP_SETTABLE", 2, 0, 5) @@ [key |-> K_("k")]}
                            \cup {Ins3("OP_SETTABLE", 4, 0, c) @@ [key |-> K_(e)] : e \in Cached_, c \in {5, 6}}

MCResults == {<<>>, <<Truth(FALSE)>>, <<Chars(<<"b">>), X>>, <<Y>>}

\* The registers a concatenation names hold operands.
Fits(i) == i.op = "OP_CONCAT" => opvm.stack[i.c] # NoValue

OperatorsNext ==
    \/ Instruction({i \in InstructionsOf(opvm.program) : Fits(i)})
    \/ \E results \in MCResults : Returns(results) \/ YieldsFirst(results)
    \/ opvm.program = "cached" /\ \E e \in Cached_, o \in {NoValue, F_} : RawSet(MX, K_(e), o)

-----------------------------------------------------------------------------
(* A program is compiled and run, or an operator is looked at. *)

Init ==
    \/ subject = "compile" /\ CompileInit /\ opvm = Machine("none", <<>>, <<>>, 0)
    \/ subject = "operators" /\ program = <<>> /\ asked = FALSE /\ OperatorsInit

Next ==
    \/ subject = "compile" /\ AskProgram /\ UNCHANGED <<subject, opvm>>
    \/ subject = "operators" /\ OperatorsNext /\ UNCHANGED <<subject, compileVars>>
=============================================================================
