------------------------------ MODULE LuaLex ------------------------------
(***************************************************************************)
(* The scanner of the vendored Lua (core/contrib/lua/src/llex.c) with the  *)
(* token the parser may look ahead at.                                     *)
(*                                                                         *)
(* The text is a sequence of characters.  The buffer holds bytes, as what  *)
(* is saved there is not always a character of the text; a string literal  *)
(* is cut out of it, so every escape has to take back what it saved.       *)
(***************************************************************************)
EXTENDS LuaEncodings

CONSTANTS
    Byte,         \* the byte of each character
    HexValue,     \* the value of each hexadecimal digit
    Letters,      \* the letters and the underscore
    Words,        \* the reserved words, as bytes
    WellFormed(_) \* luaO_str2num(): whether bytes are a numeral

VARIABLES
    written,      \* the tokens the text was written from, each with the line it ends on
    text,         \* the text
    scanner,      \* the place in it, the line and the error
    lookahead,    \* the token that was looked ahead at, or none
    taken         \* the tokens the parser took

lexVars == <<written, text, scanner, lookahead, taken>>

Newlines == {"\n", "\r"}
Spaces == {" ", "\t"}
DecimalDigits == {d \in DOMAIN HexValue : HexValue[d] < 10}
Eoz == "EOZ"

Start == [at |-> 1, line |-> 1, buff |-> <<>>, error |-> FALSE]
Token(kind, bs) == [kind |-> kind, text |-> bs]
None == Token("none", <<>>)
Malformed == Token("error", <<>>)

Char(ls) == IF ls.at \in DOMAIN text THEN text[ls.at] ELSE Eoz
Advance(ls) == [ls EXCEPT !.at = @ + 1]
Save(ls, b) == [ls EXCEPT !.buff = Append(@, b)]
SaveAndStep(ls) == Advance(Save(ls, IF Char(ls) = Eoz THEN 0 ELSE Byte[Char(ls)]))
Unsave(ls, n) == [ls EXCEPT !.buff = SubSeq(@, 1, Len(@) - n)]
Wrong(ls) == [ls EXCEPT !.error = TRUE]

\* One line end, of one or of two different characters.
inclinenumber(ls) ==
    LET one == Advance(ls)
    IN  [(IF Char(one) \in Newlines /\ Char(one) # Char(ls) THEN Advance(one) ELSE one)
            EXCEPT !.line = @ + 1]

-----------------------------------------------------------------------------
(* Strings *)

\* The '='s and what follows the bracket at the place: their number, or a negative one.
RECURSIVE Equals(_, _)
Equals(ls, count) == IF Char(ls) = "=" THEN Equals(SaveAndStep(ls), count + 1)
                     ELSE [ls |-> ls, count |-> count]
skip_sep(ls) ==
    LET e == Equals(SaveAndStep(ls), 0)
    IN  [ls |-> e.ls, sep |-> IF Char(e.ls) = Char(ls) THEN e.count ELSE -e.count - 1]

\* Up to the bracket of the same level; keep says whether it is a string, not a comment.
RECURSIVE LongString(_, _, _)
LongString(ls, sep, keep) ==
    IF Char(ls) = Eoz THEN Wrong(ls)
    ELSE IF Char(ls) = "]"
         THEN LET s == skip_sep(ls)
              IN  IF s.sep = sep THEN SaveAndStep(s.ls) ELSE LongString(s.ls, sep, keep)
    ELSE IF Char(ls) \in Newlines
         THEN LET s == inclinenumber(Save(ls, Byte["\n"]))
              IN  LongString(IF keep THEN s ELSE [s EXCEPT !.buff = <<>>], sep, keep)
    ELSE LongString(IF keep THEN SaveAndStep(ls) ELSE Advance(ls), sep, keep)

read_long_string(ls, sep, keep) ==
    LET open == SaveAndStep(ls)
    IN  LongString(IF Char(open) \in Newlines THEN inclinenumber(open) ELSE open, sep, keep)

IsHex(c) == c \in DOMAIN HexValue

\* gethexa(): the digit is read, the character before it is saved.
gethexa(ls) == LET s == SaveAndStep(ls) IN IF IsHex(Char(s)) THEN s ELSE Wrong(s)

readhexaesc(ls) ==
    LET first  == gethexa(ls)
        second == gethexa(first)
    IN  IF first.error \/ second.error THEN [ls |-> Wrong(ls), value |-> 0]
        ELSE [ls |-> Unsave(second, 2), value |-> 16 * HexValue[Char(first)] + HexValue[Char(second)]]

RECURSIVE MoreHex(_, _, _)
MoreHex(ls, r, i) ==
    LET s == SaveAndStep(ls)
        v == 16 * r + HexValue[Char(s)]
    IN  IF ~IsHex(Char(s)) THEN [ls |-> s, value |-> r, i |-> i]
        ELSE IF v > MAXUNICODE THEN [ls |-> Wrong(s), value |-> 0, i |-> i]
        ELSE MoreHex(s, v, i + 1)

\* readutf8esc() and utf8esc(): \u{XXX}
utf8esc(ls) ==
    LET brace == SaveAndStep(ls)
        first == gethexa(brace)
        all   == MoreHex(first, HexValue[Char(first)], 4)
        clean == Unsave(Advance(all.ls), all.i)
    IN  IF Char(brace) # "{" \/ first.error THEN Wrong(ls)
        ELSE IF all.ls.error \/ Char(all.ls) # "}" THEN Wrong(ls)
        ELSE [clean EXCEPT !.buff = @ \o luaO_utf8esc(all.value)]

RECURSIVE Decimals(_, _, _)
Decimals(ls, r, i) ==
    IF i < 3 /\ Char(ls) \in DecimalDigits
    THEN Decimals(SaveAndStep(ls), 10 * r + HexValue[Char(ls)], i + 1)
    ELSE [ls |-> ls, value |-> r, i |-> i]

\* Seeded error: the digits that were read stay in the buffer.
DecimalKept(ls) ==
    LET d == Decimals(ls, 0, 0)
    IN  [ls |-> IF d.value <= 255 THEN d.ls ELSE Wrong(d.ls), value |-> d.value]

\* readdecesc(): up to three digits.
readdecesc(ls) ==
    LET d == Decimals(ls, 0, 0)
    IN  [ls |-> IF d.value <= 255 THEN Unsave(d.ls, d.i) ELSE Wrong(d.ls), value |-> d.value]

RECURSIVE SkipSpan(_)
SkipSpan(ls) ==
    IF Char(ls) \in Newlines THEN SkipSpan(inclinenumber(ls))
    ELSE IF Char(ls) \in Spaces THEN SkipSpan(Advance(ls)) ELSE ls

Letter == [n |-> 10, t |-> 9]

\* The escape after a backslash, which is saved already.
EscapeAt(ls) ==
    LET c == Char(ls)
        Done(s, b) == Save(Unsave(s, 1), b)
    IN  CASE c \in DOMAIN Letter -> Done(Advance(ls), Letter[c])
          [] c = "x" -> LET h == readhexaesc(ls)
                        IN  IF h.ls.error THEN h.ls ELSE Done(Advance(h.ls), h.value)
          [] c = "u" -> utf8esc(ls)
          [] c \in Newlines -> Done(inclinenumber(ls), Byte["\n"])
          [] c \in {"\\", "\"", "'"} -> Done(Advance(ls), Byte[c])
          [] c = Eoz -> ls
          [] c = "z" -> SkipSpan(Advance(Unsave(ls, 1)))
          [] c \in DecimalDigits ->
                LET d == readdecesc(ls) IN IF d.ls.error THEN d.ls ELSE Done(d.ls, d.value)
          [] OTHER -> Wrong(ls)

RECURSIVE ShortString(_, _)
ShortString(ls, del) ==
    IF ls.error THEN ls
    ELSE IF Char(ls) = del THEN SaveAndStep(ls)
    ELSE IF Char(ls) = Eoz \/ Char(ls) \in Newlines THEN Wrong(ls)
    ELSE IF Char(ls) = "\\" THEN ShortString(EscapeAt(SaveAndStep(ls)), del)
    ELSE ShortString(SaveAndStep(ls), del)

read_string(ls) == ShortString(SaveAndStep(ls), Char(ls))

-----------------------------------------------------------------------------
(* Tokens *)

RECURSIVE Numeral(_, _)
Numeral(ls, expo) ==
    LET e == IF Char(ls) \in expo
             THEN LET s == SaveAndStep(ls) IN IF Char(s) \in {"-", "+"} THEN SaveAndStep(s) ELSE s
             ELSE ls
    IN  IF IsHex(Char(e)) \/ Char(e) = "." THEN Numeral(SaveAndStep(e), expo) ELSE e

read_numeral(ls) ==
    LET first == SaveAndStep(ls)
        hex   == Char(ls) = "0" /\ Char(first) \in {"x", "X"}
    IN  Numeral(IF hex THEN SaveAndStep(first) ELSE first, IF hex THEN {"P", "p"} ELSE {"E", "e"})

RECURSIVE WordFrom(_)
WordFrom(ls) == IF Char(ls) \in Letters \cup DecimalDigits THEN WordFrom(SaveAndStep(ls)) ELSE ls

RECURSIVE EndOfLine(_)
EndOfLine(ls) == IF Char(ls) \in Newlines \cup {Eoz} THEN ls ELSE EndOfLine(Advance(ls))

\* What follows "--", a long comment or one up to the end of the line.
Comment(ls) ==
    LET s == skip_sep(ls)
    IN  IF Char(ls) = "[" /\ s.sep >= 0
        THEN [read_long_string([s.ls EXCEPT !.buff = <<>>], s.sep, FALSE) EXCEPT !.buff = <<>>]
        ELSE EndOfLine(IF Char(ls) = "[" THEN [s.ls EXCEPT !.buff = <<>>] ELSE ls)

Doubles == {<<"=", "=">>, <<"<", "=">>, <<"<", "<">>, <<">", "=">>, <<">", ">">>,
            <<"/", "/">>, <<"~", "=">>, <<":", ":">>}

Got(ls, token) == [ls |-> ls, token |-> IF ls.error THEN Malformed ELSE token]
NumeralAt(ls) ==
    IF WellFormed(ls.buff) THEN Got(ls, Token("number", ls.buff)) ELSE Got(Wrong(ls), None)
Symbol(ls, n) == [ls |-> [ls EXCEPT !.at = @ + n],
                  token |-> Token("symbol", [k \in 1 .. n |-> Byte[text[ls.at + k - 1]]])]

\* llex(): the next token from a place, with an empty buffer.
RECURSIVE llex(_)
llex(ls) ==
    LET c == Char(ls)
        d == Char(Advance(ls))
    IN  CASE ls.error -> Got(ls, None)
          [] c \in Newlines -> llex(inclinenumber(ls))
          [] c \in Spaces -> llex(Advance(ls))
          [] c = "-" /\ d = "-" -> llex(Comment(Advance(Advance(ls))))
          [] c = "[" ->
                LET s    == skip_sep(ls)
                    all  == read_long_string(s.ls, s.sep, TRUE)
                IN  IF s.sep >= 0
                    THEN Got(all, Token("string", SubSeq(all.buff, 3 + s.sep, Len(all.buff) - 2 - s.sep)))
                    ELSE IF s.sep = -1 THEN Symbol(ls, 1) ELSE Got(Wrong(ls), None)
          [] c \in {"\"", "'"} ->
                LET s == read_string(ls) IN Got(s, Token("string", SubSeq(s.buff, 2, Len(s.buff) - 1)))
          [] c = "." ->
                IF d = "." THEN Symbol(ls, IF Char(Advance(Advance(ls))) = "." THEN 3 ELSE 2)
                ELSE IF d \in DecimalDigits THEN NumeralAt(read_numeral(SaveAndStep(ls)))
                ELSE Symbol(ls, 1)
          [] c \in DecimalDigits -> NumeralAt(read_numeral(ls))
          [] c = Eoz -> Got(ls, Token("end", <<>>))
          [] c \in Letters ->
                LET w == WordFrom(ls)
                IN  Got(w, Token(IF w.buff \in Words THEN "reserved" ELSE "name", w.buff))
          [] OTHER -> Symbol(ls, IF <<c, d>> \in Doubles THEN 2 ELSE 1)

\* The token the parser took last.
Latest == IF taken = <<>> THEN None ELSE taken[Len(taken)]

Scan == llex([scanner EXCEPT !.buff = <<>>])

LexInit == written = <<>> /\ text = <<>> /\ scanner = Start /\ lookahead = None /\ taken = <<>>

AskText(texts) ==
    /\ \E t \in texts : text' = t.text /\ written' = t.tokens
    /\ UNCHANGED <<scanner, lookahead, taken>>

\* luaX_next()
luaX_next ==
    /\ Latest.kind \notin {"end", "error"}
    /\ IF lookahead # None
       THEN /\ taken' = Append(taken, lookahead)
            /\ lookahead' = None
            /\ UNCHANGED scanner
       ELSE /\ taken' = Append(taken, Scan.token)
            /\ scanner' = Scan.ls
            /\ UNCHANGED lookahead
    /\ UNCHANGED <<written, text>>

\* luaX_lookahead(), which the parser calls once before it takes the next token. An error is
\* raised where it is read.
luaX_lookahead ==
    /\ lookahead = None
    /\ Latest.kind \notin {"none", "end", "error"}
    /\ Scan.token.kind # "error"
    /\ lookahead' = Scan.token
    /\ scanner' = Scan.ls
    /\ UNCHANGED <<written, text, taken>>

LexNext == luaX_next \/ luaX_lookahead

-----------------------------------------------------------------------------
\* The parser takes the tokens the text was written from, one after the other, whatever is
\* between them and whether or not it looked ahead; a string has the bytes that its escapes
\* name (llex.c:330-565).
TakesWhatWasWritten ==
    \A n \in DOMAIN taken : n \in DOMAIN written /\ taken[n] = written[n].token

\* Every line end is counted once, in and between the tokens, whichever of its four forms it
\* has (llex.c:150-158). The line of a token is that of its last character.
CountsLines ==
    lookahead = None /\ taken # <<>> /\ Latest.kind # "error" =>
        scanner.line = written[Len(taken)].line

\* The parser gets the tokens that were written, and the lines they were written on (llex.c).
TokensAsWritten == TakesWhatWasWritten /\ CountsLines
=============================================================================
