---------------------------- MODULE LuaPatterns ----------------------------
(***************************************************************************)
(* Pattern matching in the vendored Lua (core/contrib/lua/src/lstrlib.c):  *)
(* the backtracking matcher and find, match, gmatch and gsub.              *)
(*                                                                         *)
(* The matcher keeps the captures in one state that every attempt writes   *)
(* to and that a failed attempt has to put back.  A result here is         *)
(* therefore the position that was reached together with that state.       *)
(*                                                                         *)
(* At the end are the two conversions of text of the host program that     *)
(* write to a buffer of fixed size: wildcards, which become such patterns, *)
(* and XML escapes (core/host/src/host/pmk_wildcards.c, pmk_escapeXml.c).  *)
(***************************************************************************)
EXTENDS Integers, Sequences

CONSTANTS
    Alphabet,     \* the characters, in the order of their codes; the first is the zero
    ClassSet,     \* the characters of each class letter, such as "a"
    Negated,      \* the class letter an upper case letter is the complement of
    Digits,       \* the digits, mapped to their numbers
    MaxCaptures,  \* LUA_MAXCAPTURES
    MaxCCalls     \* MAXCCALLS

ASSUME PatternAssumption ==
    /\ \A i, j \in DOMAIN Alphabet : Alphabet[i] = Alphabet[j] => i = j
    /\ \A l \in DOMAIN ClassSet : \A c \in ClassSet[l] : \E i \in DOMAIN Alphabet : Alphabet[i] = c
    /\ \A u \in DOMAIN Negated : Negated[u] \in DOMAIN ClassSet
    /\ MaxCaptures \in Nat \ {0} /\ MaxCCalls \in Nat \ {0}

VARIABLES
    subject,      \* the string that is searched
    pattern,      \* the pattern
    start,        \* the position that is given to find and match, or how many matches to gsub
    items         \* the items the pattern was written from, without the ^ it may begin with

patternVars == <<subject, pattern, start>>

Null == 0            \* no match, otherwise the position after the match
Raised == -1         \* an error
Unfinished == -1     \* CAP_UNFINISHED
AtPosition == -2     \* CAP_POSITION

Zero == Alphabet[1]
CharAt(s, k) == IF k \in DOMAIN s THEN s[k] ELSE Zero
Code(c) == CHOOSE k \in DOMAIN Alphabet : Alphabet[k] = c
SourceEnd == Len(subject) + 1

Reached(at, ms) == [at |-> at, ms |-> ms]
Raise(ms) == Reached(Raised, ms)
Fail(ms) == Reached(Null, ms)

-----------------------------------------------------------------------------
(* Single characters *)

\* classend(): the position after the class at p, or Raised.
RECURSIVE EndOfSet(_, _)
EndOfSet(pat, p) ==
    IF p > Len(pat) THEN Raised
    ELSE LET next == IF pat[p] = "%" /\ p < Len(pat) THEN p + 2 ELSE p + 1
         IN  IF CharAt(pat, next) = "]" THEN next + 1 ELSE EndOfSet(pat, next)

classend(pat, p) ==
    CASE pat[p] = "%" -> IF p = Len(pat) THEN Raised ELSE p + 2
      [] pat[p] = "[" -> EndOfSet(pat, IF CharAt(pat, p + 1) = "^" THEN p + 2 ELSE p + 1)
      [] OTHER -> p + 1

match_class(c, cl) ==
    IF cl \in DOMAIN ClassSet THEN c \in ClassSet[cl]
    ELSE IF cl \in DOMAIN Negated THEN c \notin ClassSet[Negated[cl]]
    ELSE c = cl

\* Whether c is one of what the set lists from p up to its bracket at ec.
RECURSIVE InSet(_, _, _, _)
InSet(pat, c, p, ec) ==
    IF p >= ec THEN FALSE
    ELSE IF pat[p] = "%"
         THEN match_class(c, CharAt(pat, p + 1)) \/ InSet(pat, c, p + 2, ec)
    ELSE IF CharAt(pat, p + 1) = "-" /\ p + 2 < ec
         THEN Code(c) \in Code(pat[p]) .. Code(pat[p + 2]) \/ InSet(pat, c, p + 3, ec)
    ELSE c = pat[p] \/ InSet(pat, c, p + 1, ec)

matchbracketclass(pat, c, p, ec) ==
    IF CharAt(pat, p + 1) = "^" THEN ~InSet(pat, c, p + 2, ec) ELSE InSet(pat, c, p + 1, ec)

singlematch(pat, s, p, ep) ==
    /\ s < SourceEnd
    /\ CASE pat[p] = "." -> TRUE
         [] pat[p] = "%" -> match_class(subject[s], pat[p + 1])
         [] pat[p] = "[" -> matchbracketclass(pat, subject[s], p, ep - 1)
         [] OTHER -> subject[s] = pat[p]

\* The position after the string that begins with x at s and balances x and y.
RECURSIVE BalanceFrom(_, _, _, _)
BalanceFrom(s, x, y, cont) ==
    IF s >= SourceEnd THEN Null
    ELSE IF subject[s] = y
         THEN IF cont = 1 THEN s + 1 ELSE BalanceFrom(s + 1, x, y, cont - 1)
    ELSE BalanceFrom(s + 1, x, y, IF subject[s] = x THEN cont + 1 ELSE cont)

matchbalance(pat, s, p) ==
    IF p >= Len(pat) THEN Raised
    ELSE IF CharAt(subject, s) # pat[p] THEN Null
    ELSE BalanceFrom(s + 1, pat[p], pat[p + 1], 1)

-----------------------------------------------------------------------------
(* Captures *)

\* check_capture(): the capture a digit names, or Raised.
check_capture(ms, l) ==
    IF l \in 1 .. ms.level /\ ms.capture[l].len # Unfinished THEN l ELSE Raised

\* capture_to_close(): the last one that is open, or Raised.
capture_to_close(ms) ==
    LET open == {l \in 1 .. ms.level : ms.capture[l].len = Unfinished}
    IN  IF open = {} THEN Raised ELSE CHOOSE l \in open : \A m \in open : m <= l

match_capture(ms, s, l) ==
    LET cap == ms.capture[l]
    \* A position capture has the length -2, as a size_t more than any string has.
    IN  IF cap.len < 0 \/ SourceEnd - s < cap.len THEN Null
        ELSE IF \A k \in 0 .. cap.len - 1 : subject[cap.init + k] = subject[s + k]
             THEN s + cap.len ELSE Null

-----------------------------------------------------------------------------
(* match() *)

RECURSIVE match(_, _, _, _, _)

\* max_expand(): from i repetitions of the class at p down to none.
RECURSIVE MaxExpand(_, _, _, _, _, _)
MaxExpand(pat, ms, s, ep, i, depth) ==
    LET r == match(pat, ms, s + i, ep + 1, depth)
    IN  IF r.at # Null \/ i = 0 THEN r ELSE MaxExpand(pat, r.ms, s, ep, i - 1, depth)

\* The repetitions there are at s.
Repetitions(pat, s, p, ep) ==
    CHOOSE i \in 0 .. SourceEnd - s :
        /\ \A k \in 0 .. i - 1 : singlematch(pat, s + k, p, ep)
        /\ ~singlematch(pat, s + i, p, ep)

RECURSIVE min_expand(_, _, _, _, _, _)
min_expand(pat, ms, s, p, ep, depth) ==
    LET r == match(pat, ms, s, ep + 1, depth)
    IN  IF r.at = Null /\ singlematch(pat, s, p, ep)
        THEN min_expand(pat, r.ms, s + 1, p, ep, depth) ELSE r

start_capture(pat, ms, s, p, what, depth) ==
    IF ms.level >= MaxCaptures THEN Raise(ms)
    ELSE LET r == match(pat, [level |-> ms.level + 1,
                              capture |-> [ms.capture EXCEPT
                                              ![ms.level + 1] = [init |-> s, len |-> what]]],
                        s, p, depth)
         IN  IF r.at = Null THEN Fail([r.ms EXCEPT !.level = @ - 1]) ELSE r

\* Seeded error: a capture that was closed by an attempt that failed stays closed.
EndCaptureKept(pat, ms, s, p, depth) ==
    LET l == capture_to_close(ms)
    IN  IF l = Raised THEN Raise(ms)
        ELSE match(pat, [ms EXCEPT !.capture[l].len = s - ms.capture[l].init], s, p, depth)

end_capture(pat, ms, s, p, depth) ==
    LET l == capture_to_close(ms)
    IN  IF l = Raised THEN Raise(ms)
        ELSE LET r == match(pat, [ms EXCEPT !.capture[l].len = s - ms.capture[l].init],
                            s, p, depth)
             IN  IF r.at = Null THEN Fail([r.ms EXCEPT !.capture[l].len = Unfinished]) ELSE r

\* A class and what follows it; depth counts the calls that are left.
MatchDefault(pat, ms, s, p, depth) ==
    LET ep     == classend(pat, p)
        suffix == CharAt(pat, ep)
    IN  IF ep = Raised THEN Raise(ms)
        ELSE IF ~singlematch(pat, s, p, ep)
             THEN IF suffix \in {"*", "?", "-"} THEN match(pat, ms, s, ep + 1, depth) ELSE Fail(ms)
        ELSE CASE suffix = "?" ->
                     LET r == match(pat, ms, s + 1, ep + 1, depth - 1)
                     IN  IF r.at = Null THEN match(pat, r.ms, s, ep + 1, depth) ELSE r
               [] suffix = "+" ->
                     MaxExpand(pat, ms, s + 1, ep, Repetitions(pat, s + 1, p, ep), depth - 1)
               [] suffix = "*" ->
                     MaxExpand(pat, ms, s, ep, Repetitions(pat, s, p, ep), depth - 1)
               [] suffix = "-" -> min_expand(pat, ms, s, p, ep, depth - 1)
               [] OTHER -> match(pat, ms, s + 1, ep, depth)

MatchFrontier(pat, ms, s, p, depth) ==
    LET ep == classend(pat, p)
    IN  IF CharAt(pat, p) # "[" \/ ep = Raised THEN Raise(ms)
        ELSE IF /\ ~matchbracketclass(pat, CharAt(subject, s - 1), p, ep - 1)
                /\ matchbracketclass(pat, CharAt(subject, s), p, ep - 1)
             THEN match(pat, ms, s, ep, depth) ELSE Fail(ms)

match(pat, ms, s, p, depth) ==
    LET next == CharAt(pat, p + 1)
    IN  IF depth = 0 THEN Raise(ms)
        ELSE IF p > Len(pat) THEN Reached(s, ms)
        ELSE CASE pat[p] = "(" ->
                     IF next = ")" THEN start_capture(pat, ms, s, p + 2, AtPosition, depth - 1)
                     ELSE start_capture(pat, ms, s, p + 1, Unfinished, depth - 1)
               [] pat[p] = ")" -> end_capture(pat, ms, s, p + 1, depth - 1)
               [] pat[p] = "$" /\ p = Len(pat) -> Reached(IF s = SourceEnd THEN s ELSE Null, ms)
               [] pat[p] = "%" /\ next = "b" ->
                     LET after == matchbalance(pat, s, p + 2)
                     IN  IF after \in {Null, Raised} THEN Reached(after, ms)
                         ELSE match(pat, ms, after, p + 4, depth)
               [] pat[p] = "%" /\ next = "f" -> MatchFrontier(pat, ms, s, p + 2, depth)
               [] pat[p] = "%" /\ next \in DOMAIN Digits ->
                     LET l == check_capture(ms, Digits[next])
                         after == IF l = Raised THEN Raised ELSE match_capture(ms, s, l)
                     IN  IF after \in {Null, Raised} THEN Reached(after, ms)
                         ELSE match(pat, ms, after, p + 2, depth)
               [] OTHER -> MatchDefault(pat, ms, s, p, depth)

\* prepstate() and reprepstate()
NoCaptures == [level |-> 0, capture |-> [l \in 1 .. MaxCaptures |-> [init |-> 1, len |-> 0]]]
Attempt(pat, s) == match(pat, NoCaptures, s, 1, MaxCCalls)

\* push_onecapture(): what a capture gives; the whole match is the first when there is none.
Captures(r, s) ==
    IF r.ms.level = 0 THEN <<[kind |-> "text", text |-> SubSeq(subject, s, r.at - 1)]>>
    ELSE [l \in 1 .. r.ms.level |->
             LET cap == r.ms.capture[l]
             IN  IF cap.len = AtPosition THEN [kind |-> "position", text |-> <<cap.init>>]
                 ELSE IF cap.len = Unfinished THEN [kind |-> "unfinished"]
                 ELSE [kind |-> "text", text |-> SubSeq(subject, cap.init, cap.init + cap.len - 1)]]

-----------------------------------------------------------------------------
(* The functions of the library *)

\* A position that is negative counts from the end; before the first character it is 0.
posrelat(pos, len) == IF pos >= 0 THEN pos ELSE IF -pos > len THEN 0 ELSE len + pos + 1

\* str_sub()
str_sub(s, i, j) ==
    LET from == posrelat(i, Len(s))
        to   == posrelat(j, Len(s))
    IN  IF to > Len(s) THEN SubSeq(s, IF from < 1 THEN 1 ELSE from, Len(s))
        ELSE SubSeq(s, IF from < 1 THEN 1 ELSE from, to)

Specials == {"^", "$", "*", "+", "?", ".", "(", "[", "%", "-"}
nospecials(pat) == \A k \in DOMAIN pat : pat[k] \notin Specials

Anchored(pat) == CharAt(pat, 1) = "^"
Body(pat) == IF Anchored(pat) THEN Tail(pat) ELSE pat

NotFound == [at |-> Null, from |-> 0, captures |-> <<>>]
FoundAt(s, r) == [at |-> r.at, from |-> s, captures |-> IF r.at = Raised THEN <<>> ELSE Captures(r, s)]

\* push_captures(): all of them, which is an error when one was never closed.
push_captures(m) ==
    IF \E l \in DOMAIN m.captures : m.captures[l].kind = "unfinished"
    THEN [m EXCEPT !.at = Raised, !.captures = <<>>] ELSE m

RECURSIVE lmemfind(_, _)

\* lmemfind(): the first place of a string.
lmemfind(s, text) ==
    IF Len(text) > SourceEnd - s THEN NotFound
    ELSE IF SubSeq(subject, s, s + Len(text) - 1) = text
         THEN [at |-> s + Len(text), from |-> s, captures |-> <<[kind |-> "text", text |-> text]>>]
    ELSE lmemfind(s + 1, text)

\* The attempts from s on, until one matches.
RECURSIVE Search(_, _)
Search(pat, s) ==
    LET r == Attempt(Body(pat), s)
    IN  IF r.at # Null THEN push_captures(FoundAt(s, r))
        ELSE IF s < SourceEnd /\ ~Anchored(pat) THEN Search(pat, s + 1)
        ELSE NotFound

str_find_aux(pat, init, plain) ==
    LET from == posrelat(init, Len(subject))
    IN  IF from > Len(subject) + 1 THEN NotFound
        ELSE IF plain THEN lmemfind(IF from < 1 THEN 1 ELSE from, pat)
        ELSE Search(pat, IF from < 1 THEN 1 ELSE from)

RECURSIVE gmatch(_, _, _)

\* gmatch_aux() until it finds no more: from src on, no match may end where the last one did.
gmatch(pat, src, lastmatch) ==
    LET r == Attempt(pat, src)
    IN  IF src > SourceEnd THEN <<>>
        ELSE IF r.at = Raised THEN <<FoundAt(src, r)>>
        ELSE IF r.at # Null /\ r.at # lastmatch
             THEN LET m == push_captures(FoundAt(src, r))
                  IN  IF m.at = Raised THEN <<m>> ELSE <<m>> \o gmatch(pat, r.at, r.at)
        ELSE gmatch(pat, src + 1, lastmatch)

RECURSIVE Pieces(_, _, _, _)

\* str_gsub(): the matches and, between them, the characters that are kept.
Pieces(pat, src, lastmatch, left) ==
    LET r    == Attempt(Body(pat), src)
        rest == <<[kept |-> SubSeq(subject, src, Len(subject))]>>
    IN  IF left = 0 THEN rest
        ELSE IF r.at = Raised THEN <<FoundAt(src, r)>>
        ELSE IF r.at # Null /\ r.at # lastmatch
             THEN <<FoundAt(src, r)>>
                  \o IF Anchored(pat) THEN <<[kept |-> SubSeq(subject, r.at, Len(subject))]>>
                     ELSE Pieces(pat, r.at, r.at, left - 1)
        ELSE IF src < SourceEnd /\ ~Anchored(pat)
             THEN <<[kept |-> <<subject[src]>>]>> \o Pieces(pat, src + 1, lastmatch, left)
        ELSE rest

\* add_s(): the replacement for one match, with %0 to %9 and %% in it; whether it may be used.
RECURSIVE add_s(_, _)
add_s(news, m) ==
    LET c == CharAt(news, 2)
        l == Digits[c]
        Rest(text, k) == LET r == add_s(SubSeq(news, k, Len(news)), m)
                         IN  [text |-> text \o r.text, valid |-> r.valid]
    IN  IF news = <<>> THEN [text |-> <<>>, valid |-> TRUE]
        ELSE IF Head(news) # "%" THEN Rest(<<Head(news)>>, 2)
        ELSE IF c = "%" THEN Rest(<<"%">>, 3)
        ELSE IF c \notin DOMAIN Digits THEN [text |-> <<>>, valid |-> FALSE]
        ELSE IF l = 0 THEN Rest(SubSeq(subject, m.from, m.at - 1), 3)
        ELSE IF l > Len(m.captures) \/ m.captures[l].kind = "unfinished"
             THEN [text |-> <<>>, valid |-> FALSE]
        ELSE Rest(m.captures[l].text, 3)

\* str_gsub() with a replacement: what it builds, and whether it may be used.
RECURSIVE Replaced(_, _)
Replaced(pieces, news) ==
    IF pieces = <<>> THEN [text |-> <<>>, valid |-> TRUE]
    ELSE LET p    == Head(pieces)
             rest == Replaced(Tail(pieces), news)
             one  == IF "kept" \in DOMAIN p THEN [text |-> p.kept, valid |-> TRUE]
                     ELSE IF p.at = Raised THEN [text |-> <<>>, valid |-> FALSE]
                     ELSE add_s(news, p)
         IN  [text |-> one.text \o rest.text, valid |-> one.valid /\ rest.valid]

-----------------------------------------------------------------------------
(***************************************************************************)
(* What a pattern means: a sequence of items, and the matches it has at a  *)
(* position in the order of preference.  There is no state to restore here,*)
(* every match comes with captures of its own.  The matcher is to find the *)
(* first of them.                                                          *)
(***************************************************************************)
\* An item that repeats the characters of a set, the set written as text.
Class(text, set, suffix) == [kind |-> "class", text |-> text \o suffix, set |-> set, suffix |-> suffix]
Item(kind, text) == [kind |-> kind, text |-> text]

RECURSIVE Text(_)
Text(its) == IF its = <<>> THEN <<>> ELSE Head(its).text \o Text(Tail(its))

\* Every pattern over the items of some sequences, with or without an anchor.
AskPattern(sequences) ==
    /\ items' \in sequences
    /\ \E anchor \in {<<>>, <<"^">>} : pattern' = anchor \o Text(items')
    /\ UNCHANGED <<subject, start>>

PatternInit(subjects, starts) ==
    items = <<>> /\ pattern = <<>> /\ subject \in subjects /\ start \in starts

-----------------------------------------------------------------------------
Impossible == [at |-> Raised, caps |-> <<>>]

\* How often a set may be repeated at s, in the order of preference.
Counts(item, s) ==
    LET most == CHOOSE n \in 0 .. SourceEnd - s :
                    /\ \A k \in 0 .. n - 1 : subject[s + k] \in item.set
                    /\ n = SourceEnd - s \/ subject[s + n] \notin item.set
        Falling(to) == [n \in 1 .. most - to + 1 |-> most - n + 1]
    IN  CASE item.suffix = <<>> -> IF most > 0 THEN <<1>> ELSE <<>>
          [] item.suffix = <<"?">> -> IF most > 0 THEN <<1, 0>> ELSE <<0>>
          [] item.suffix = <<"*">> -> Falling(0)
          [] item.suffix = <<"+">> -> Falling(1)
          [] item.suffix = <<"-">> -> [n \in 1 .. most + 1 |-> n - 1]

\* Where the balanced string that begins at s ends.
Balanced(item, s) ==
    LET Count(x, e) == Len(SelectSeq(SubSeq(subject, s, e - 1), LAMBDA c : c = x))
        ends == {e \in s + 2 .. SourceEnd :
                    subject[s] = item.open /\ Count(item.open, e) = Count(item.close, e)}
    IN  {e \in ends : \A f \in ends : e <= f}

RECURSIVE Successes(_, _, _)
RECURSIVE AfterEach(_, _, _, _)

\* The matches after each number of repetitions.
AfterEach(counts, rest, s, caps) ==
    IF counts = <<>> THEN <<>>
    ELSE Successes(rest, s + Head(counts), caps) \o AfterEach(Tail(counts), rest, s, caps)

Successes(its, s, caps) ==
    LET item == Head(its)
        rest == Tail(its)
        opens == {l \in DOMAIN caps : caps[l].len = Unfinished}
    IN  IF its = <<>> THEN <<[at |-> s, caps |-> caps]>>
        ELSE CASE item.kind = "class" -> AfterEach(Counts(item, s), rest, s, caps)
          [] item.kind \in {"open", "position"} ->
                IF Len(caps) = MaxCaptures THEN <<Impossible>>
                ELSE Successes(rest, s, Append(caps, [init |-> s,
                        len |-> IF item.kind = "open" THEN Unfinished ELSE AtPosition]))
          [] item.kind = "close" ->
                IF opens = {} THEN <<Impossible>>
                ELSE LET l == CHOOSE l \in opens : \A m \in opens : m <= l
                     IN  Successes(rest, s, [caps EXCEPT ![l].len = s - caps[l].init])
          [] item.kind = "back" ->
                IF item.capture \notin DOMAIN caps \ opens THEN <<Impossible>>
                ELSE LET cap == caps[item.capture]
                     IN  IF /\ cap.len # AtPosition
                            /\ s + cap.len <= SourceEnd
                            /\ SubSeq(subject, cap.init, cap.init + cap.len - 1)
                                 = SubSeq(subject, s, s + cap.len - 1)
                         THEN Successes(rest, s + cap.len, caps) ELSE <<>>
          [] item.kind = "balance" ->
                LET e == Balanced(item, s)
                IN  IF e = {} THEN <<>> ELSE Successes(rest, CHOOSE x \in e : TRUE, caps)
          [] item.kind = "frontier" ->
                IF CharAt(subject, s - 1) \notin item.set /\ CharAt(subject, s) \in item.set
                THEN Successes(rest, s, caps) ELSE <<>>
          [] item.kind = "end" -> IF s = SourceEnd THEN Successes(rest, s, caps) ELSE <<>>

\* The first match at s, and the same when its captures are returned, which all have to be closed.
First(s) == LET all == Successes(items, s, <<>>) IN IF all = <<>> THEN NotFound ELSE Head(all)

FirstClosed(s) ==
    LET f == First(s)
    IN  IF f.at # Null /\ \E l \in DOMAIN f.caps : f.caps[l].len = Unfinished THEN Impossible ELSE f

\* The end of the first match at each place, Null where there is none.
MatchEnds == [s \in 1 .. SourceEnd |-> FirstClosed(s).at]

-----------------------------------------------------------------------------
\* match() finds the match that comes first, with its captures, or raises the error that comes
\* first, however many attempts failed before (lstrlib.c:425-538). Its calls nest as deep as the
\* pattern has items, however long the subject is.
MatchesFirst ==
    \A s \in 1 .. SourceEnd :
        LET r == Attempt(Body(pattern), s)
            f == First(s)
        IN  /\ r.at = f.at
            /\ r.at > 0 => SubSeq(r.ms.capture, 1, r.ms.level) = f.caps

\* What a search that begins at first finds: the leftmost of the places with a match.
IsLeftmost(found, first, ends) ==
    LET tried == IF Anchored(pattern) THEN {first} \cap 1 .. SourceEnd ELSE first .. SourceEnd
        hits  == {s \in tried : ends[s] # Null}
    IN  IF hits = {} THEN found = NotFound
        ELSE \E s \in hits : /\ \A t \in hits : s <= t
                              /\ found.from = s /\ found.at = ends[s]

\* str_find_aux() finds the leftmost match from the position it is given, which counts from the
\* end when it is negative; an anchored pattern only there (lstrlib.c:607-651).
FindsLeftmost ==
    LET from == IF start < 0 THEN Len(subject) + 1 + start ELSE start
    IN  IsLeftmost(str_find_aux(pattern, start, FALSE), IF from < 1 THEN 1 ELSE from, MatchEnds)

\* A pattern without special characters is searched as plain text, with the same result
\* (lstrlib.c:541-561, 580-588, 620-627). A closing parenthesis, which is none of them, is
\* found as text too where matching it would be an error.
PlainSearchAgrees ==
    nospecials(pattern) /\ (\A k \in DOMAIN pattern : pattern[k] # ")") =>
        str_find_aux(pattern, start, TRUE) = str_find_aux(pattern, start, FALSE)

\* The matches of a whole string: each the first at its place, none overlapping another, and
\* between them only places without a match, except for the empty one where a match just ended.
Complete(found, ends) ==
    LET EndOf(n) == IF n = 0 THEN 1 ELSE found[n].at
        Nothing(s, n) == ends[s] = Null \/ (n > 0 /\ ends[s] = EndOf(n) /\ s = EndOf(n))
    IN  /\ \A n \in DOMAIN found :
              /\ found[n].from >= EndOf(n - 1)
              /\ found[n].at = ends[found[n].from]
              /\ \A s \in EndOf(n - 1) .. found[n].from - 1 : Nothing(s, n - 1)
              /\ n > 1 => found[n].at # EndOf(n - 1)
        /\ found = <<>> \/ found[Len(found)].at # Raised =>
              \A s \in EndOf(Len(found)) .. SourceEnd : Nothing(s, Len(found))

\* gmatch() returns every match, and no empty one where a match ended (lstrlib.c:673-702).
GmatchMissesNothing == ~Anchored(pattern) => Complete(gmatch(pattern, 1, Null), MatchEnds)

GivesBack(replaced) == replaced.valid /\ replaced.text = subject

\* Of all the matches the first ones are replaced, as many as most; the pieces with %0 for each
\* match are the subject, and with %1 too when the pattern captures nothing.
ReplacesFirst(all, pieces, most) ==
    (\A n \in DOMAIN all : all[n].at # Raised) =>
        /\ SelectSeq(pieces, LAMBDA p : "at" \in DOMAIN p)
             = SubSeq(all, 1, IF most > Len(all) THEN Len(all) ELSE most)
        /\ GivesBack(Replaced(pieces, <<"%", "0">>))
        /\ (\A n \in DOMAIN items : items[n].kind \notin {"open", "position"})
              => GivesBack(Replaced(pieces, <<"%", "1">>))

\* gsub() replaces the matches gmatch() returns, as many as it may, keeps everything else, and
\* gives back the subject when each match is replaced by itself (lstrlib.c:704-797).
GsubKeepsTheRest ==
    LET most == IF start < 0 THEN 0 ELSE start
    IN  ~Anchored(pattern) =>
            ReplacesFirst(gmatch(pattern, 1, Null), Pieces(pattern, 1, Null, most), most)

\* string.sub() takes the characters between two positions, each counted from either end and
\* neither of them necessarily inside the string (lstrlib.c:63-81).
SubTakesSlice ==
    \A i, j \in -Len(subject) - 2 .. Len(subject) + 2 :
        LET Place(k) == IF k < 0 THEN SourceEnd + k ELSE k
            inside == {k \in DOMAIN subject : Place(i) <= k /\ k <= Place(j)}
        IN  str_sub(subject, i, j) =
                IF inside = {} THEN <<>>
                ELSE LET low == CHOOSE k \in inside : \A l \in inside : k <= l
                         high == CHOOSE k \in inside : \A l \in inside : l <= k
                     IN  SubSeq(subject, low, high)

\* Patterns mean what their items mean, to every function that takes one (lstrlib.c).
PatternsAsMeant ==
    /\ MatchesFirst
    /\ FindsLeftmost
    /\ PlainSearchAgrees
    /\ GmatchMissesNothing
    /\ GsubKeepsTheRest
    /\ SubTakesSlice

-----------------------------------------------------------------------------
CONSTANTS
    PATH_MAX,    \* the size of the buffers
    STAR         \* the code of `*', 42: pmk_wildcards.c:36 compares a place with it

VARIABLE value        \* the text that is converted

Entity == [amp |-> <<"&", "a", "m", "p", ";">>, lt |-> <<"&", "l", "t", ";">>]
EntityOf(c) == CASE c = "&" -> Entity.amp [] c = "<" -> Entity.lt [] OTHER -> <<c>>

\* Seeded error: what does not fit is cut off at the end of the buffer.
AppendCut(result, text) ==
    result \o SubSeq(text, 1, IF Len(result) + Len(text) < PATH_MAX THEN Len(text)
                              ELSE PATH_MAX - 1 - Len(result))

\* appendChar() and appendStr(): all of the text or, when it does not fit, none of it.
AppendText(result, text) ==
    IF Len(result) + Len(text) < PATH_MAX - 1 THEN result \o text ELSE result

\* pmk_escapeXml(): later characters may still fit where an earlier one did not.
RECURSIVE EscapeFrom(_, _)
EscapeFrom(result, text) ==
    IF text = <<>> THEN result
    ELSE EscapeFrom(AppendText(result, EntityOf(Head(text))), Tail(text))

pmk_escapeXml(text) == EscapeFrom(<<>>, text)

\* ADD() of each of the characters: of as many as there is room for.
Add(result, chars) ==
    result \o SubSeq(chars, 1, IF Len(result) + Len(chars) < PATH_MAX THEN Len(chars)
                               ELSE PATH_MAX - 1 - Len(result))

\* The characters from k on.  Whether two stars in a row begin there is asked of the place.
RECURSIVE PatternFrom(_, _, _, _)
PatternFrom(result, text, k, isPath) ==
    IF k > Len(text) THEN result
    ELSE CASE text[k] # "*" -> PatternFrom(Add(result, <<text[k]>>), text, k + 1, isPath)
           [] text[k] = "*" /\ ~isPath -> PatternFrom(Add(result, <<".", "*">>), text, k + 1, isPath)
           [] text[k] = "*" /\ isPath /\ k = STAR ->
                 PatternFrom(Add(result, <<".", "*">>), text, k + 2, isPath)
           [] text[k] = "*" /\ isPath /\ k # STAR ->
                 PatternFrom(Add(result, <<"[", "^", "/", "]", "*">>), text, k + 1, isPath)

\* What is returned says whether there is room for the terminator, which there always is.
pmk_patternFromWildcards(text, isPath) ==
    LET result == PatternFrom(<<>>, text, 1, isPath)
    IN  [pattern |-> result, fits |-> Len(result) < PATH_MAX]

\* The script's function, which knows no paths; an error unless the expansion fits.
pmk_string_patternFromWildcards(text) ==
    LET made == pmk_patternFromWildcards(text, FALSE)
    IN  [raised |-> ~made.fits, pattern |-> made.pattern]

-----------------------------------------------------------------------------
RECURSIVE Unescape(_)
Unescape(text) ==
    IF text = <<>> THEN <<>>
    ELSE IF Head(text) # "&" THEN <<Head(text)>> \o Unescape(Tail(text))
    ELSE LET whole == {e \in DOMAIN Entity : Len(Entity[e]) <= Len(text) /\ SubSeq(text, 1, Len(Entity[e])) = Entity[e]}
         IN  IF whole = {} THEN <<"broken">>
             ELSE LET e == CHOOSE x \in whole : TRUE
                  IN  <<IF e = "amp" THEN "&" ELSE "<">>
                        \o Unescape(SubSeq(text, Len(Entity[e]) + 1, Len(text)))

RECURSIVE EscapedLength(_)
EscapedLength(text) ==
    IF text = <<>> THEN 0 ELSE Len(EntityOf(Head(text))) + EscapedLength(Tail(text))

\* Escaped text stands for the text when it fits, never ends within an entity when it does not,
\* and leaves room for its terminator (pmk_escapeXml.c:29-62).
EscapesWhole ==
    LET escaped == pmk_escapeXml(value)
    IN  /\ Len(escaped) < PATH_MAX
        /\ \A k \in DOMAIN Unescape(escaped) : Unescape(escaped)[k] # "broken"
        /\ EscapedLength(value) < PATH_MAX - 1 => Unescape(escaped) = value

\* What a text with wildcards stands for: `*' is anything, in a path up to the next separator, and
\* what is special in Lua's patterns stays so, `.' for any character and `%.' for a dot.
RECURSIVE Glob(_, _, _)
Glob(wild, text, isPath) ==
    IF wild = <<>> THEN text = <<>>
    ELSE IF Head(wild) = "*"
         THEN \E k \in 0 .. Len(text) :
                  /\ isPath => \A j \in 1 .. k : text[j] # "/"
                  /\ Glob(Tail(wild), SubSeq(text, k + 1, Len(text)), isPath)
    ELSE /\ text # <<>>
         /\ IF Head(wild) = "%"
            THEN Head(text) = "." /\ Glob(Tail(Tail(wild)), Tail(text), isPath)
            ELSE Head(wild) \in {".", Head(text)} /\ Glob(Tail(wild), Tail(text), isPath)

\* All of the pattern fits.  Of the characters special in patterns the text has only those two,
\* and in a path no two stars in a row and none at the place that is taken for the first of two.
Clear(text, isPath) ==
    /\ Len(text) + (IF isPath THEN 4 ELSE 1) * Len(SelectSeq(text, LAMBDA c : c = "*")) < PATH_MAX
    /\ \A k \in DOMAIN text :
          /\ text[k] \notin {"^", "$", "+", "-", "?", "(", ")", "[", "]"}
          /\ text[k] = "%" => k < Len(text) /\ text[k + 1] = "."
          /\ isPath /\ text[k] = "*" => k # STAR /\ (k < Len(text) => text[k + 1] # "*")

IsWholeMatch(pat) == match(pat, NoCaptures, 1, 1, MaxCCalls).at = SourceEnd

\* The pattern that wildcards become stays within its buffer, and matches a whole string exactly
\* when the wildcards do, as long as all of it fits, with or without characters that are special
\* in patterns: those are copied, and the one caller relies on two of them (pmk_wildcards.c:26-63,
\* pmk_lib_string.c:59-72, testing.lua:137-145, 323-327).  What does not fit is cut without a word.
WildcardsMatch ==
    /\ LET made == pmk_string_patternFromWildcards(value)
       IN  /\ Len(made.pattern) < PATH_MAX
           /\ Clear(value, FALSE) =>
                 ~made.raised /\ (IsWholeMatch(made.pattern) <=> Glob(value, subject, FALSE))
    /\ LET made == pmk_patternFromWildcards(value, TRUE)
       IN  /\ Len(made.pattern) < PATH_MAX
           /\ Clear(value, TRUE) =>
                 made.fits /\ (IsWholeMatch(made.pattern) <=> Glob(value, subject, TRUE))

\* The host's conversions keep the meaning of their text within their buffers (pmk_escapeXml.c,
\* pmk_wildcards.c).
ConversionsKeepMeaning == EscapesWhole /\ WildcardsMatch
=============================================================================
