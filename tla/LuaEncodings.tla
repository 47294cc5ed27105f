---------------------------- MODULE LuaEncodings ----------------------------
(***************************************************************************)
(* Values as bytes in the vendored Lua: UTF-8, with the encoder that the   *)
(* library (core/contrib/lua/src/lutf8lib.c) shares with the lexer         *)
(* (lobject.c), and string.pack, packsize and unpack (lstrlib.c): integers *)
(* of any size in either order of bytes, strings with a length, a size or a*)
(* terminator, and alignment.                                              *)
(*                                                                         *)
(* A format is the sequence of its options.  A packed byte has NB bits, so *)
(* the boundaries of the sizes are a few values away from each other.      *)
(***************************************************************************)
EXTENDS Integers, Sequences

-----------------------------------------------------------------------------
(* UTF-8 *)
CONSTANTS
    CodePoints,   \* the code points strings are made of
    Bytes         \* the bytes that are put together in any order

VARIABLES
    codes,        \* the code points of the string, when it was encoded
    bytes         \* the string

utf8Vars == <<codes, bytes>>

MAXUNICODE == 1114111
Invalid == -1

\* A byte of the string by its offset; after the last there is a zero.
ByteAt(n) == IF n + 1 \in DOMAIN bytes THEN bytes[n + 1] ELSE 0
iscont(n) == ByteAt(n) \in 128 .. 191

\* luaO_utf8esc(): from the last byte back, until the rest fits into the first one.
RECURSIVE Escape(_, _, _)
Escape(x, mfb, after) ==
    IF x > mfb THEN Escape(x \div 64, mfb \div 2, <<128 + (x % 64)>> \o after)
    ELSE <<254 - 2 * mfb + x>> \o after

luaO_utf8esc(x) == IF x < 128 THEN <<x>> ELSE Escape(x \div 64, 31, <<128 + (x % 64)>>)

\* A string of encoded code points, or bytes in any order.
Utf8Init == codes = <<>> /\ bytes = <<>>
RECURSIVE Encoded(_)
Encoded(cs) == IF cs = <<>> THEN <<>> ELSE luaO_utf8esc(Head(cs)) \o Encoded(Tail(cs))

AskUtf8(most) ==
    \/ \E n \in 0 .. most : codes' \in [1 .. n -> CodePoints] /\ bytes' = Encoded(codes')
    \/ \E n \in 1 .. most : bytes' \in [1 .. n -> Bytes] /\ codes' = <<>>

-----------------------------------------------------------------------------
Bit6(c) == (c \div 64) % 2 = 1

\* The continuation bytes that the first byte c at offset n asks for: how many, and their bits.
RECURSIVE Continuation(_, _, _, _)
Continuation(n, c, count, res) ==
    IF ~Bit6(c) THEN [count |-> count, res |-> res + (c % 128) * 32 ^ count]
    ELSE IF ~iscont(n + count + 1) THEN [count |-> 4, res |-> 0]
    ELSE Continuation(n, c * 2, count + 1, res * 64 + (ByteAt(n + count + 1) % 64))

Limits == <<255, 127, 2047, 65535>>

\* The code point at an offset and the offset after it.
utf8_decode(n) ==
    LET c == ByteAt(n)
        s == Continuation(n, c, 0, 0)
    IN  IF c < 128 THEN [value |-> c, next |-> n + 1]
        ELSE IF s.count > 3 \/ s.res > MAXUNICODE THEN [value |-> Invalid, next |-> n]
        ELSE IF s.res <= Limits[s.count + 1] THEN [value |-> Invalid, next |-> n]
        ELSE [value |-> s.res, next |-> n + s.count + 1]

u_posrelat(pos) ==
    IF pos >= 0 THEN pos ELSE IF -pos > Len(bytes) THEN 0 ELSE Len(bytes) + pos + 1

RECURSIVE CountFrom(_, _, _)
CountFrom(n, last, count) ==
    LET d == utf8_decode(n)
    IN  IF n > last THEN [count |-> count, at |-> 0]
        ELSE IF d.value = Invalid THEN [count |-> Invalid, at |-> n + 1]
        ELSE CountFrom(d.next, last, count + 1)

Outside == [count |-> Invalid, at |-> Invalid]

\* utf8.len(): the characters that start in a range, or where the first invalid one is.
utflen(i, j) ==
    LET posi == u_posrelat(i)
        posj == u_posrelat(j)
    IN  IF posi < 1 \/ posi - 1 > Len(bytes) \/ posj - 1 >= Len(bytes) THEN Outside
        ELSE CountFrom(posi - 1, posj - 1, 0)

RECURSIVE CodesFrom(_, _)
CodesFrom(n, end) ==
    LET d == utf8_decode(n)
    IN  IF n >= end THEN <<>>
        ELSE IF d.value = Invalid THEN <<Invalid>>
        ELSE <<d.value>> \o CodesFrom(d.next, end)

\* utf8.codepoint(): the code points that start in a range.
codepoint(i, j) ==
    LET posi == u_posrelat(i)
        pose == u_posrelat(j)
    IN  IF posi < 1 \/ pose > Len(bytes) THEN <<Invalid>> ELSE CodesFrom(posi - 1, pose)

\* The offsets a character is looked for at: back to its first byte, or on to the next.
Back(n) == CHOOSE k \in 0 .. n : (k = 0 \/ ~iscont(k)) /\ \A l \in k + 1 .. n : iscont(l)
On(n) == CHOOSE k \in n .. Len(bytes) : ~iscont(k) /\ \A l \in n .. k - 1 : iscont(l)

RECURSIVE MoveBack(_, _)
MoveBack(n, pos) == IF n < 0 /\ pos > 0 THEN MoveBack(n + 1, Back(pos - 1)) ELSE <<n, pos>>
RECURSIVE MoveOn(_, _)
MoveOn(n, pos) == IF n > 0 /\ pos < Len(bytes) THEN MoveOn(n - 1, On(pos + 1)) ELSE <<n, pos>>

\* Seeded error: the search back stops one character too early.
OffsetEarly(n, i) ==
    LET pos  == u_posrelat(i) - 1
        moved == IF n < 0 THEN MoveBack(n + 1, pos) ELSE MoveOn(n - 1, pos)
    IN  IF pos < 0 \/ pos > Len(bytes) THEN Invalid
        ELSE IF n = 0 THEN Back(pos) + 1
        ELSE IF iscont(pos) THEN Invalid
        ELSE IF moved[1] = 0 THEN moved[2] + 1 ELSE 0

\* utf8.offset(): where the n-th character counted from i starts; 0 when there is none.
byteoffset(n, i) ==
    LET pos  == u_posrelat(i) - 1
        moved == IF n < 0 THEN MoveBack(n, pos) ELSE MoveOn(n - 1, pos)
    IN  IF pos < 0 \/ pos > Len(bytes) THEN Invalid
        ELSE IF n = 0 THEN Back(pos) + 1
        ELSE IF iscont(pos) THEN Invalid
        ELSE IF moved[1] = 0 THEN moved[2] + 1 ELSE 0

RECURSIVE CodesUntilEnd(_)

\* iter_aux() until it ends: the position and the code point of each character, or an error.
CodesUntilEnd(control) ==
    LET n == IF control = 0 THEN 0
             ELSE IF control - 1 < Len(bytes) THEN On(control) ELSE control - 1
        d == utf8_decode(n)
    IN  IF n >= Len(bytes) THEN <<>>
        ELSE IF d.value = Invalid \/ iscont(d.next) THEN <<[at |-> n + 1, code |-> Invalid]>>
        ELSE <<[at |-> n + 1, code |-> d.value]>> \o CodesUntilEnd(n + 1)

-----------------------------------------------------------------------------
\* UTF-8 as the standard tabulates it.
Encoding(c) ==
    CASE c < 128 -> <<c>>
      [] c \in 128 .. 2047 -> <<192 + c \div 64, 128 + (c % 64)>>
      [] c \in 2048 .. 65535 -> <<224 + c \div 4096, 128 + ((c \div 64) % 64), 128 + (c % 64)>>
      [] OTHER -> <<240 + c \div 262144, 128 + ((c \div 4096) % 64),
                    128 + ((c \div 64) % 64), 128 + (c % 64)>>

\* A code point decodes from its encoding, and from no other bytes: nothing overlong, cut off
\* or beyond the last code point is accepted (lutf8lib.c:37-62, lobject.c:346-361).
DecodesOnlyEncodings ==
    /\ codes # <<>> =>
          /\ luaO_utf8esc(codes[1]) = Encoding(codes[1])
          /\ utf8_decode(0) = [value |-> codes[1], next |-> Len(Encoding(codes[1]))]
    /\ bytes # <<>> =>
          LET d == utf8_decode(0)
          IN  d.value # Invalid =>
                 /\ d.value \in 0 .. MAXUNICODE
                 /\ d.next <= Len(bytes)
                 /\ Encoding(d.value) = SubSeq(bytes, 1, d.next)

\* Where the k-th character starts, and where it would after the last.
StartOf(k) == Len(Encoded(SubSeq(codes, 1, k - 1))) + 1

\* In a string of encoded characters the functions count characters: offset finds each from the
\* start, from the end and from inside of it, len and codepoint take the ones that start in a
\* range (lutf8lib.c:65-118, 146-189).
CountsCharacters ==
    LET n == Len(codes)
    IN  codes # <<>> =>
          /\ \A k \in 1 .. n + 1 :
                /\ byteoffset(k, 1) = StartOf(k)
                /\ k <= n => byteoffset(k - n - 1, Len(bytes) + 1) = StartOf(k)
                /\ k <= n => \A i \in StartOf(k) .. StartOf(k + 1) - 1 : byteoffset(0, i) = StartOf(k)
          /\ byteoffset(n + 2, 1) = 0 /\ byteoffset(-n - 1, Len(bytes) + 1) = 0
          /\ \A k \in 1 .. n, m \in 0 .. n :
                \A j \in (IF m = 0 THEN 0 ELSE StartOf(m)) .. StartOf(m + 1) - 1 :
                   j - Len(bytes) - 1 < 0 =>
                     /\ utflen(StartOf(k), j).count = IF k > m THEN 0 ELSE m - k + 1
                     /\ codepoint(StartOf(k), j) = SubSeq(codes, k, m)

\* utf8.codes() goes through a string without an error exactly when utf8.len() counts it, and
\* gives as many characters; otherwise it stops no later than at the invalid one
\* (lutf8lib.c:192-213).
CodesAgreesWithLen ==
    LET found == CodesUntilEnd(0)
        len   == utflen(1, -1)
        fails == found # <<>> /\ found[Len(found)].code = Invalid
    IN  bytes # <<>> =>
           IF fails THEN len.count = Invalid /\ found[Len(found)].at <= len.at
           ELSE len.count = Len(found)

-----------------------------------------------------------------------------
(* Packed values *)
CONSTANTS
    NB,        \* the bits of a byte
    SZINT,     \* the bytes of a lua_Integer and of a size_t
    Format,    \* the formats
    Arguments  \* the values each kind of option takes; an integer is a sequence of one

ASSUME PackAssumption == NB \in Nat \ {0} /\ SZINT \in Nat \ {0, 1}

VARIABLES
    format,    \* the options
    values     \* the values that are packed

packVars == <<format, values>>

Base == 2 ^ NB
MC == Base - 1
MaxUnsigned == Base ^ SZINT - 1
Lim(size) == 2 ^ (size * NB - 1)

\* The options that take a value, and those whose size depends on it.
Takes(o) == o.kind \in {"int", "uint", "float", "char", "string", "zstr"}
Variable(o) == o.kind \in {"string", "zstr"}

\* A value for every option that takes one.
ValuesFor(fmt) ==
    LET taking == SelectSeq(fmt, Takes)
    IN  {v \in [DOMAIN taking -> UNION {Arguments[k] : k \in DOMAIN Arguments}] :
            \A n \in DOMAIN taking : v[n] \in Arguments[taking[n].kind]}

PackInit == format = <<>> /\ values = <<>>

AskPack == format' \in Format /\ values' \in ValuesFor(format')

-----------------------------------------------------------------------------
\* initheader()
Header == [islittle |-> TRUE, maxalign |-> 1]

\* getoption(): what an option of configuration changes.
Configured(h, o) ==
    CASE o.kind = "little" -> [h EXCEPT !.islittle = TRUE]
      [] o.kind = "big" -> [h EXCEPT !.islittle = FALSE]
      [] o.kind = "maxalign" -> [h EXCEPT !.maxalign = o.limit]
      [] OTHER -> h

IsPowerOf2(n) == \E k \in 0 .. n : 2 ^ k = n

\* getdetails(): the bytes that are missing before the option, and whether it is possible. The
\* option "paddalign" has the alignment of the option it is followed by.
getdetails(h, totalsize, o) ==
    LET align == IF o.align > h.maxalign THEN h.maxalign ELSE o.align
    IN  IF o.align <= 1 \/ o.kind = "char"
        THEN [ntoalign |-> 0, valid |-> o.kind # "paddalign" \/ o.align = 1]
        ELSE [ntoalign |-> (align - (totalsize % align)) % align, valid |-> IsPowerOf2(align)]

-----------------------------------------------------------------------------
(* Integers *)

Reversed(s) == [k \in 1 .. Len(s) |-> s[Len(s) + 1 - k]]
Zeros(n) == [k \in 1 .. n |-> 0]

\* packint(): n as lua_Unsigned, byte by byte.
packint(n, islittle, size, neg) ==
    LET digits == [k \in 1 .. size |->
                      IF neg /\ k > SZINT THEN MC ELSE (n \div Base ^ (k - 1)) % Base]
    IN  IF islittle THEN digits ELSE Reversed(digits)

Unsigned(n) == n % (MaxUnsigned + 1)
Signed(n) == IF n >= Lim(SZINT) THEN n - (MaxUnsigned + 1) ELSE n

RECURSIVE ValueOf(_)
ValueOf(digits) == IF digits = <<>> THEN 0 ELSE Head(digits) + Base * ValueOf(Tail(digits))

\* unpackint(): the number, and whether it fits into a lua_Integer.
unpackint(slice, islittle, issigned) ==
    LET size   == Len(slice)
        digits == IF islittle THEN slice ELSE Reversed(slice)
        low    == SubSeq(digits, 1, IF size <= SZINT THEN size ELSE SZINT)
        res    == IF size < SZINT
                  THEN IF issigned /\ ValueOf(low) >= Lim(size)
                       THEN ValueOf(low) - Base ^ size ELSE ValueOf(low)
                  ELSE Signed(ValueOf(low))
        mask   == IF ~issigned \/ res >= 0 THEN 0 ELSE MC
    IN  [value |-> res, valid |-> \A k \in SZINT + 1 .. size : digits[k] = mask]

-----------------------------------------------------------------------------
(* pack, packsize and unpack *)

Refusal == [bytes |-> <<>>, valid |-> FALSE]

\* The bytes of one value, or a refusal.
PackOne(h, o, v) ==
    LET Packed(b, valid) == IF valid THEN [bytes |-> b, valid |-> TRUE] ELSE Refusal
    IN  CASE o.kind = "int" ->
                Packed(packint(Unsigned(v[1]), h.islittle, o.size, v[1] < 0),
                      o.size < SZINT => -Lim(o.size) <= v[1] /\ v[1] < Lim(o.size))
          [] o.kind = "uint" ->
                Packed(packint(Unsigned(v[1]), h.islittle, o.size, FALSE),
                      o.size < SZINT => Unsigned(v[1]) < Base ^ o.size)
          [] o.kind = "float" -> Packed(IF h.islittle THEN v ELSE Reversed(v), TRUE)
          [] o.kind = "char" -> Packed(v \o Zeros(o.size - Len(v)), Len(v) <= o.size)
          [] o.kind = "string" ->
                Packed(packint(Len(v), h.islittle, o.size, FALSE) \o v,
                      o.size >= SZINT \/ Len(v) < Base ^ o.size)
          [] o.kind = "zstr" -> Packed(Append(v, 0), \A k \in DOMAIN v : v[k] # 0)

\* str_pack()
RECURSIVE PackFrom(_, _, _, _)
PackFrom(fmt, args, h, totalsize) ==
    IF fmt = <<>> THEN [bytes |-> <<>>, valid |-> TRUE]
    ELSE LET o    == Head(fmt)
             d    == getdetails(h, totalsize, o)
             one  == IF Takes(o) THEN PackOne(h, o, Head(args))
                     ELSE [bytes |-> IF o.kind = "padding" THEN <<0>> ELSE <<>>, valid |-> TRUE]
             all  == Zeros(d.ntoalign) \o one.bytes
             rest == PackFrom(Tail(fmt), IF Takes(o) THEN Tail(args) ELSE args,
                              Configured(h, o), totalsize + Len(all))
         IN  IF ~d.valid \/ ~one.valid \/ ~rest.valid THEN Refusal
             ELSE [bytes |-> all \o rest.bytes, valid |-> TRUE]

str_pack(fmt, args) == PackFrom(fmt, args, Header, 0)

\* str_packsize()
RECURSIVE SizeFrom(_, _, _)

SizeFrom(fmt, h, totalsize) ==
    IF fmt = <<>> THEN [size |-> totalsize, valid |-> TRUE]
    ELSE LET o == Head(fmt)
             d == getdetails(h, totalsize, o)
         IN  IF ~d.valid \/ Variable(o) THEN [size |-> 0, valid |-> FALSE]
             ELSE SizeFrom(Tail(fmt), Configured(h, o), totalsize + d.ntoalign + o.size)

str_packsize(fmt) == SizeFrom(fmt, Header, 0)

\* What one option takes from the data at pos: the value, and how many bytes besides o.size.
UnpackOne(h, o, data, pos) ==
    LET slice == SubSeq(data, pos + 1, pos + o.size)
        int   == unpackint(slice, h.islittle, o.kind = "int")
        len   == Unsigned(unpackint(slice, h.islittle, FALSE).value)
        ends  == {k \in pos + 1 .. Len(data) : data[k] = 0}
        end   == IF ends = {} THEN Len(data) + 1 ELSE CHOOSE k \in ends : \A l \in ends : k <= l
        Got(value, more, valid) == [value |-> value, more |-> more, valid |-> valid]
    IN  CASE o.kind \in {"int", "uint"} -> Got(<<int.value>>, 0, int.valid)
          [] o.kind = "float" -> Got(IF h.islittle THEN slice ELSE Reversed(slice), 0, TRUE)
          [] o.kind = "char" -> Got(slice, 0, TRUE)
          [] o.kind = "string" ->
                IF int.valid /\ pos + len + o.size <= Len(data)
                THEN Got(SubSeq(data, pos + o.size + 1, pos + o.size + len), len, TRUE)
                ELSE Got(<<>>, 0, FALSE)
          [] o.kind = "zstr" -> Got(SubSeq(data, pos + 1, end - 1), end - pos, TRUE)

Short == [values |-> <<>>, next |-> 0, valid |-> FALSE]

\* str_unpack()
RECURSIVE UnpackFrom(_, _, _, _)

UnpackFrom(fmt, data, h, pos) ==
    IF fmt = <<>> THEN [values |-> <<>>, next |-> pos + 1, valid |-> TRUE]
    ELSE LET o     == Head(fmt)
             d     == getdetails(h, pos, o)
             start == pos + d.ntoalign
             one   == UnpackOne(h, o, data, start)
             rest  == UnpackFrom(Tail(fmt), data, Configured(h, o),
                                 start + o.size + IF Takes(o) THEN one.more ELSE 0)
         IN  IF ~d.valid \/ start + o.size > Len(data) THEN Short
             ELSE IF Takes(o) /\ ~one.valid THEN Short
             ELSE IF Takes(o) THEN [rest EXCEPT !.values = <<one.value>> \o @] ELSE rest

str_unpack(fmt, data) == UnpackFrom(fmt, data, Header, 0)

-----------------------------------------------------------------------------
\* Whether an option can hold a value, from what the manual of the option says: the range of the
\* size for integers (every lua_Integer in as many bytes as it has), the length for strings.
Holds(o, v) ==
    CASE o.kind = "int" -> o.size >= SZINT \/ v[1] \in -Lim(o.size) .. Lim(o.size) - 1
      [] o.kind = "uint" -> o.size >= SZINT \/ v[1] \in 0 .. Base ^ o.size - 1
      [] o.kind = "char" -> Len(v) <= o.size
      [] o.kind = "string" -> o.size >= SZINT \/ Len(v) \in 0 .. Base ^ o.size - 1
      [] o.kind = "zstr" -> \A k \in DOMAIN v : v[k] # 0
      [] OTHER -> TRUE

\* What comes back: a string of fixed size is padded.
Restored(o, v) == IF o.kind = "char" THEN v \o Zeros(o.size - Len(v)) ELSE v

\* Whether every option of the format can hold its value, and the values as they come back.
FormatHolds(taking) == \A n \in DOMAIN taking : Holds(taking[n], values[n])
ComesBack(back, taking, size) ==
    /\ back.valid
    /\ back.values = [n \in DOMAIN taking |-> Restored(taking[n], values[n])]
    /\ back.next = size + 1

\* What pack() accepts, unpack() gives back, up to the end of the data; what does not fit is
\* refused and never cut off (lstrlib.c:1270-1375, 1417-1540).
RoundTrip(packed, taking) ==
    /\ packed.valid => /\ FormatHolds(taking)
                       /\ ComesBack(str_unpack(format, packed.bytes), taking, Len(packed.bytes))
    /\ FormatHolds(taking)
          /\ (\A n \in DOMAIN format : format[n].kind \notin {"maxalign", "paddalign"}) =>
          packed.valid

\* packsize() is the length of what pack() returns, and refuses the formats whose length
\* depends on the values (lstrlib.c:1417-1440).
PacksizeAgrees(packed, size) ==
    IF \E n \in DOMAIN format : Variable(format[n]) THEN ~size.valid
    ELSE packed.valid => size.valid /\ size.size = Len(packed.bytes)

\* Data that was cut off is noticed, except where only the terminator of a string is missing,
\* which every string of Lua has after its end (lstrlib.c:1493-1496, 1519-1531).
TruncationNoticed(packed) ==
    packed.valid /\ (\A n \in DOMAIN format : format[n].kind # "zstr") =>
       \A k \in 0 .. Len(packed.bytes) - 1 : ~str_unpack(format, SubSeq(packed.bytes, 1, k)).valid

\* What is packed comes back, in as many bytes as it was said to take, and not from fewer.
PacksExactly(packed) ==
    /\ RoundTrip(packed, SelectSeq(format, Takes))
    /\ PacksizeAgrees(packed, str_packsize(format))
    /\ TruncationNoticed(packed)

\* An option starts at the next multiple of its alignment, limited by the one that was set
\* (lstrlib.c:1259-1280).
AlignsToNextMultiple ==
    \A n \in DOMAIN format, totalsize \in 0 .. 8, maxalign \in {1, 2, 4} :
        LET o     == format[n]
            d     == getdetails([Header EXCEPT !.maxalign = maxalign], totalsize, o)
            align == IF o.kind = "char" \/ o.align < 1 THEN 1
                     ELSE IF o.align > maxalign THEN maxalign ELSE o.align
        IN  d.valid => /\ (totalsize + d.ntoalign) % align = 0
                       /\ d.ntoalign \in 0 .. align - 1

\* What was encoded is decoded as what it was, and nothing else is decoded at all
\* (lutf8lib.c; lstrlib.c).
EncodingsExact ==
    /\ DecodesOnlyEncodings
    /\ CountsCharacters
    /\ CodesAgreesWithLen
    /\ PacksExactly(str_pack(format, values))
    /\ AlignsToNextMultiple
=============================================================================
