----------------------------- MODULE MCLuaText -----------------------------
(* The string functions of the vendored Lua.                               *)
EXTENDS LuaPatterns, LuaLex, LuaNumbers, TLC

VARIABLE subjectOf    \* what is looked at

vars == <<subjectOf, patternVars, items, packVars, utf8Vars, lexVars, value, question>>

MCAlphabet == <<"\\0", "%", "(", ")", ".", "/", "1", "[", "]", "^", "a", "b">>
MCClassSet == ("a" :> {"a", "b"}) @@ ("d" :> {"1"})
MCNegated == "A" :> "a"
MCDigits == ("0" :> 0) @@ ("1" :> 1) @@ ("2" :> 2)

Subjects == UNION {[1 .. n -> {"a", "1"}] : n \in 0 .. 3}

Suffixes == {<<>>, <<"*">>, <<"+">>, <<"-">>, <<"?">>}
Sets == {<<<<"a">>, {"a"}>>, <<<<".">>, {"a", "b", "1"}>>, <<<<"[", "^", "a", "]">>, {"1", "b"}>>,
         <<<<"[", "%", "d", "%", "]", "]">>, {"1", "]"}>>, <<<<"%", "A">>, {"1"}>>}
Classes(sets) == {Class(s[1], s[2], suffix) : s \in sets, suffix \in Suffixes}
Simple == Classes({<<<<"a">>, {"a"}>>, <<<<".">>, {"a", "b", "1"}>>})

Marks == {Item("open", <<"(">>), Item("close", <<")">>), Item("position", <<"(", ")">>),
          [kind |-> "back", text |-> <<"%", "1">>, capture |-> 1],
          [kind |-> "balance", text |-> <<"%", "b", "a", "1">>, open |-> "a", close |-> "1"],
          [kind |-> "frontier", text |-> <<"%", "f", "[", "1", "-", "a", "]">>, set |-> {"1", "a"}]}
End == Item("end", <<"$">>)

AllPatterns ==
    {<<>>, <<End>>, <<Item("position", <<"(", ")">>), Item("open", <<"(">>), Item("open", <<"(">>)>>}
    \cup {<<x>> : x \in Classes(Sets) \cup Marks}
    \cup {<<x, y>> : x \in Classes(Sets) \cup Marks, y \in Simple \cup Marks \cup {End}}
    \cup {<<Item("open", <<"(">>), x, Item("close", <<")">>), y>> :
             x \in Classes(Sets), y \in Simple \cup Marks}
    \cup {<<x, Item("open", <<"(">>), y, Item("close", <<")">>)>> :
             x \in Simple \cup Marks, y \in Simple}

\* An opening parenthesis followed by a closing one is a position capture.
Readable(its) == \A n \in 1 .. Len(its) - 1 : its[n].kind = "open" => its[n + 1].kind # "close"

Patterns == {its \in AllPatterns : Readable(its)}

-----------------------------------------------------------------------------
Opt(kind, size, align) == [kind |-> kind, size |-> size, align |-> align]
Sized == {Opt("int", n, n) : n \in 1 .. 3} \cup {Opt("uint", n, n) : n \in {1, 3}}
          \cup {Opt("string", n, n) : n \in {1, 2}}
Options == Sized \cup {Opt("float", 2, 2), Opt("char", 2, 2), Opt("zstr", 0, 0), Opt("padding", 1, 1)}
Settings == {[kind |-> "big", size |-> 0, align |-> 0]}
            \cup {[kind |-> "maxalign", size |-> 0, align |-> 0, limit |-> n] : n \in {2, 3}}
Aligns == {Opt("paddalign", 0, n) : n \in 0 .. 3}

MCFormat == {<<o>> : o \in Options \cup Settings \cup Aligns}
            \cup {<<c, o, p>> : c \in Settings, o \in Options, p \in Options \cup Aligns}

MCArguments ==
    [int |-> {<<n>> : n \in {-8, -3, -2, -1, 0, 1, 2, 4, 7}},
     uint |-> {<<n>> : n \in {-1, 0, 3, 4, 7}},
     float |-> {<<1, 2>>}, char |-> {<<>>, <<1, 0>>, <<1, 1, 1>>},
     string |-> {<<>>, <<2, 0, 3>>, <<1, 1, 1, 1>>}, zstr |-> {<<>>, <<2, 1>>, <<1, 0>>}]

-----------------------------------------------------------------------------
DigitRows == {<<>>, <<0>>, <<1>>, <<0, 9>>, <<1, 5>>, <<1, 6>>, <<1, 7>>, <<3, 1>>, <<3, 2>>, <<3, 3>>, <<9, 9, 9>>}
MCReadNumerals == {[neg |-> neg, hex |-> hex, digits |-> d, point |-> a # <<>>, after |-> a] :
                      neg \in BOOLEAN, hex \in BOOLEAN, d \in DigitRows, a \in {<<>>, <<5>>, <<2, 5>>}}

-----------------------------------------------------------------------------
Characters == <<"\t", "\n", "\r", " ", "\"", "'", "-", ".", "/", "0", "1", "2", "4", "5", "6", "7", ":",
                "<", "=", ">", "F", "[", "\\", "]", "_", "a", "e", "f", "i", "n", "q", "u", "x", "z",
                "{", "}", "~">>
Codes == <<9, 10, 13, 32, 34, 39, 45, 46, 47, 48, 49, 50, 52, 53, 54, 55, 58,
           60, 61, 62, 70, 91, 92, 93, 95, 97, 101, 102, 105, 110, 113, 117, 120, 122,
           123, 125, 126>>
MCByte == [c \in {Characters[k] : k \in DOMAIN Characters} |->
              Codes[CHOOSE k \in DOMAIN Characters : Characters[k] = c]]
MCHexValue == ("0" :> 0) @@ ("1" :> 1) @@ ("2" :> 2) @@ ("4" :> 4) @@ ("5" :> 5) @@ ("6" :> 6)
              @@ ("7" :> 7) @@ ("a" :> 10) @@ ("e" :> 14) @@ ("F" :> 15)
MCLetters == {"F", "_", "a", "e", "f", "i", "n", "q", "u", "x", "z"}
B(chars) == [k \in DOMAIN chars |-> MCByte[chars[k]]]
MCWords == {B(<<"i", "f">>)}
Numerals == {<<"1">>, <<"0", "x", "F", "e">>, <<"1", "e", "-", "1">>, <<".", "5">>}
MCWellFormed(bs) == bs \in {B(n) : n \in Numerals}

\* What is written, what it means, and the line ends in it.
Piece(chars, bs, lines) == [chars |-> chars, bytes |-> bs, lines |-> lines]
Same(chars) == Piece(chars, B(chars), 0)

Escapes ==
    {Same(<<"a">>), Same(<<"1">>), Same(<<"'">>),
     Piece(<<"\\", "n">>, <<10>>, 0), Piece(<<"\\", "\\">>, <<92>>, 0), Piece(<<"\\", "\"">>, <<34>>, 0),
     Piece(<<"\\", "x", "4", "1">>, <<65>>, 0), Piece(<<"\\", "0", "6", "5">>, <<65>>, 0),
     Piece(<<"\\", "2", "5", "5">>, <<255>>, 0),
     Piece(<<"\\", "u", "{", "7", "F", "F", "}">>, <<223, 191>>, 0),
     Piece(<<"\\", "z", " ", "\n", "\r", " ">>, <<>>, 1), Piece(<<"\\", "\r", "\n">>, <<10>>, 1)}
BadEscapes ==
    {<<"\\", "2", "5", "6">>, <<"\\", "q">>, <<"\n">>, <<"\\", "x", "1", "z">>, <<"\\", "u", "1">>,
     <<"\\", "u", "{", "1", "1", "0", "0", "0", "0", "}">>}
InLevel ==
    [level0 |-> {Same(<<"a">>), Same(<<"]", "=">>), Same(<<"[", "[">>), Same(<<"\\", "n">>),
                 Piece(<<"\r", "\n">>, <<10>>, 1), Piece(<<"\n">>, <<10>>, 1)},
     level1 |-> {Same(<<"a">>), Same(<<"]">>), Same(<<"]", "]">>), Piece(<<"\n", "\r">>, <<10>>, 1)}]

Part(chars, token, lines) == [chars |-> chars, token |-> token, lines |-> lines]
Quoted(x, y) == Part(<<"\"">> \o x.chars \o y.chars \o <<"\"">>, Token("string", x.bytes \o y.bytes),
                     x.lines + y.lines)
Long(open, x, y, close) ==
    Part(open \o x.chars \o y.chars \o close,
         Token("string", (IF x.lines = 1 THEN <<>> ELSE x.bytes) \o y.bytes), x.lines + y.lines)
Word(kind, chars) == Part(chars, Token(kind, B(chars)), 0)

\* Two line ends in a row that are different are one.
Apart(x, y) == x.lines = 0 \/ y.lines = 0 \/ x.chars[Len(x.chars)] = y.chars[1]

FewParts ==
    {Word("name", <<"i", "f", "a">>), Word("reserved", <<"i", "f">>), Word("name", <<"_", "1">>),
     Word("symbol", <<"[">>), Word("symbol", <<".", ".">>), Word("symbol", <<"-">>),
     Quoted(Same(<<"'">>), Piece(<<"\\", "\r", "\n">>, <<10>>, 1)),
     Part(<<"1", ".", ".", "2">>, Malformed, 0), Part(<<"[", "=", "a">>, Malformed, 0),
     Part(<<"[", "[", "a">>, Malformed, 0)}
    \cup {Word("number", n) : n \in Numerals}
AllParts ==
    FewParts
    \cup {Quoted(x, y) : x \in Escapes, y \in Escapes}
    \cup {Part(<<"\"">> \o x.chars \o bad, Malformed, 0) : x \in Escapes, bad \in BadEscapes}
    \cup {Long(<<"[", "[">>, xy[1], xy[2], <<"]", "]">>) :
             xy \in {p \in InLevel.level0 \X InLevel.level0 : Apart(p[1], p[2])}}
    \cup {Long(<<"[", "=", "[">>, xy[1], xy[2], <<"]", "=", "]">>) :
             xy \in {p \in InLevel.level1 \X InLevel.level1 : Apart(p[1], p[2])}}
Gaps == {Piece(<<" ">>, <<>>, 0), Piece(<<"\n">>, <<>>, 1), Piece(<<"\n", "\r", "\r">>, <<>>, 2),
         Piece(<<"-", "-", "x", "\n">>, <<>>, 1), Piece(<<"-", "-", "[", "x", "\r", "\n">>, <<>>, 1),
         Piece(<<"-", "-", "[", "[", "x", "\n", "]", "]">>, <<>>, 1),
         Piece(<<"-", "-", "[", "=", "[", "]", "]", "=", "]">>, <<>>, 0)}

\* The symbols, and the longest ones a row of their characters consists of.
Symbols == Doubles \cup {<<c>> : c \in {"=", "<", ">", "/", "~", ":", "."}}
           \cup {<<".", ".">>, <<".", ".", ".">>}

RECURSIVE Symbolize(_)
Symbolize(chars) ==
    IF chars = <<>> THEN <<>>
    ELSE LET fits == {s \in Symbols : Len(s) <= Len(chars) /\ SubSeq(chars, 1, Len(s)) = s}
             most == CHOOSE s \in fits : \A t \in fits : Len(t) <= Len(s)
         IN  <<most>> \o Symbolize(SubSeq(chars, Len(most) + 1, Len(chars)))

At(token, line) == [token |-> token, line |-> line]
TheEnd == Token("end", <<>>)
Texts ==
    {LET lines == g.lines + x.lines
     IN  [text |-> g.chars \o x.chars, tokens |-> <<At(x.token, 1 + lines), At(TheEnd, 1 + lines)>>] :
        g \in Gaps, x \in AllParts}
    \cup {LET lines == x.lines + g.lines
          IN  [text |-> x.chars \o <<" ">> \o g.chars \o y.chars,
               tokens |-> <<At(x.token, 1 + x.lines), At(y.token, 1 + lines + y.lines),
                            At(TheEnd, 1 + lines + y.lines)>>] :
             x \in {p \in FewParts : p.token # Malformed}, g \in Gaps, y \in FewParts}
    \cup {LET symbols == Symbolize(chars)
          IN  [text |-> chars,
               tokens |-> [k \in 1 .. Len(symbols) |-> At(Token("symbol", B(symbols[k])), 1)]
                          \o <<At(TheEnd, 1)>>] :
             chars \in [1 .. 4 -> {"=", "<", "~", ".", "/"}] \cup [1 .. 3 -> {">", ":", "="}]}

Init ==
    /\ subjectOf \in {"pattern", "pack", "utf8", "lex", "host", "numbers"}
    /\ \/ subjectOf = "pattern" /\ PatternInit(Subjects, {1, -1, 2})
       \/ subjectOf # "pattern" /\ PatternInit({<<>>}, {1})
    /\ PackInit /\ Utf8Init /\ LexInit /\ value = <<>> /\ NumbersInit

PatternStep == /\ subjectOf = "pattern" /\ items = <<>> /\ pattern = <<>>
               /\ AskPattern(Patterns)
               /\ UNCHANGED <<subjectOf, packVars, utf8Vars, lexVars, value, question>>
PackStep == /\ subjectOf = "pack" /\ format = <<>>
            /\ AskPack
            /\ UNCHANGED <<subjectOf, patternVars, items, utf8Vars, lexVars, value, question>>

Utf8Step == /\ subjectOf = "utf8" /\ bytes = <<>>
            /\ AskUtf8(4)
            /\ UNCHANGED <<subjectOf, patternVars, items, packVars, lexVars, value, question>>

LexStep == /\ subjectOf = "lex"
           /\ IF text = <<>> THEN AskText(Texts) ELSE LexNext
           /\ UNCHANGED <<subjectOf, patternVars, items, packVars, utf8Vars, value, question>>

\* Texts with wildcards, and strings they are compared with; texts with what XML escapes.
HostStep == /\ subjectOf = "host" /\ value = <<>> /\ subject = <<>>
            /\ \/ \E c \in {".", "/"} :
                     /\ value' \in UNION {[1 .. n -> {"a", "*", "%", c}] : n \in 1 .. 4}
                     /\ subject' \in UNION {[1 .. n -> {"a", c}] : n \in 0 .. 3}
               \/ value' \in UNION {[1 .. n -> {"a", "&", "<"}] : n \in 1 .. 3} /\ subject' = <<>>
            /\ UNCHANGED <<subjectOf, pattern, start, items, packVars, utf8Vars, lexVars, question>>

NumbersStep == /\ subjectOf = "numbers" /\ question = NoQuestion
               /\ AskNumbers({-16, -7, -1, 1, 3, 15}, 0 .. 3000)
               /\ UNCHANGED <<subjectOf, patternVars, items, packVars, utf8Vars, lexVars, value>>

Next == PatternStep \/ PackStep \/ Utf8Step \/ LexStep \/ HostStep \/ NumbersStep

Spec == Init /\ [][Next]_vars
=============================================================================
