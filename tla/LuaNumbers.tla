----------------------------- MODULE LuaNumbers ----------------------------
(***************************************************************************)
(* The numbers of the vendored Lua: integers that wrap around and floats   *)
(* that round, and what happens where they meet (lvm.c, lobject.c,         *)
(* lmathlib.c).  An integer has IntBits bits; a float is a multiple of     *)
(* 1/UNIT with a significand of FloatBits bits, which are fewer than an    *)
(* integer has, infinite or not a number.  What the C library does with    *)
(* floats (rounding, floor, fmod) is modelled by its definition.  Negative *)
(* zeros, powers and bitwise "and" and "or" are left out.                  *)
(***************************************************************************)
EXTENDS Integers, Sequences, FiniteSets

CONSTANTS IntBits, FloatBits, Exponents, UNIT,
          RANDMAX,      \* L_RANDMAX
          ReadNumerals      \* the numerals that are read

VARIABLES question      \* what is asked

MinInt == -(2 ^ (IntBits - 1))
MaxInt == 2 ^ (IntBits - 1) - 1
Ints == MinInt .. MaxInt
AsUnsigned(i) == i % 2 ^ IntBits
intop(n) == LET u == AsUnsigned(n) IN IF u > MaxInt THEN u - 2 ^ IntBits ELSE u

\* A float is given by its units; two numbers that are none stand for infinity and "not a number".
Inf == 1000000
NaN == Inf + 1
Significands == 0 .. 2 ^ FloatBits - 1
Positive == {m * 2 ^ e : m \in Significands, e \in 0 .. Exponents}
FloatMax == (2 ^ FloatBits - 1) * 2 ^ Exponents
FloatValues == Positive \cup {-x : x \in Positive} \cup {Inf, -Inf, NaN}

Integer(i) == [t |-> "int", v |-> i]
Float(x) == [t |-> "float", v |-> x]
Numbers == {Integer(i) : i \in Ints} \cup {Float(x) : x \in FloatValues}
ttisinteger(o) == o.t = "int"
finite(x) == x \notin {Inf, -Inf, NaN}
Abs(n) == IF n < 0 THEN -n ELSE n

\* The float next to n / d; of two that are equally near, the one whose significand is even.
isEven(x) == IF x < 2 ^ FloatBits THEN x % 2 = 0
             ELSE \E m \in 0 .. 2 ^ (FloatBits - 1) - 1, e \in 0 .. Exponents + 1 : x = m * 2 ^ e
Rounded(n, d) ==
    LET Far(x) == Abs(x * d - Abs(n))
        near == {x \in Positive : \A y \in Positive : Far(x) <= Far(y)}
        half == 2 ^ Exponents
        units == CHOOSE x \in near : \A y \in near : x = y \/ isEven(x)
    IN  IF 2 * Abs(n) >= (2 * FloatMax + half) * d THEN IF n < 0 THEN -Inf ELSE Inf
        ELSE IF n < 0 THEN -units ELSE units
FloatOf == [i \in Ints |-> Rounded(i * UNIT, 1)]
cast_num(i) == FloatOf[i]

numlt(a, b) == a # NaN /\ b # NaN /\ a < b
numle(a, b) == a # NaN /\ b # NaN /\ a <= b
numeq(a, b) == a # NaN /\ b # NaN /\ a = b
numadd(a, b) ==
    IF a = NaN \/ b = NaN \/ (a = Inf /\ b = -Inf) \/ (a = -Inf /\ b = Inf) THEN NaN
    ELSE IF ~finite(a) THEN a ELSE IF ~finite(b) THEN b ELSE Rounded(a + b, 1)
l_floor(x) == IF finite(x) THEN (x \div UNIT) * UNIT ELSE x
negative(x) == IF x = NaN THEN NaN ELSE -x

-----------------------------------------------------------------------------
(* Conversions *)

\* The results of a conversion: none, or one.
lua_numbertointeger(x) ==
    IF numle(cast_num(MinInt), x) /\ numlt(x, -cast_num(MinInt))
    THEN {IF x < 0 THEN -((-x) \div UNIT) ELSE x \div UNIT} ELSE {}

luaV_tointeger(o, mode) ==
    LET f == l_floor(o.v)
    IN  IF ttisinteger(o) THEN {o.v}
        ELSE IF o.v = NaN \/ (f # o.v /\ mode = "integral") THEN {}
        ELSE lua_numbertointeger(IF f # o.v /\ mode = "ceil" THEN numadd(f, UNIT) ELSE f)

tonumber(o) == IF ttisinteger(o) THEN cast_num(o.v) ELSE o.v

\* A numeral: its sign, whether it is hexadecimal, its digits, and those after a point.
RECURSIVE Decimal(_, _, _)
Decimal(digits, neg, a) ==
    LET d == Head(digits)
        MAXBY10 == MaxInt \div 10
        MAXLASTD == MaxInt % 10
    IN  IF digits = <<>> THEN {a}
        ELSE IF a >= MAXBY10 /\ (a > MAXBY10 \/ d > MAXLASTD + neg) THEN {}
        ELSE Decimal(Tail(digits), neg, a * 10 + d)

RECURSIVE Hexadecimal(_, _)
Hexadecimal(digits, a) ==
    IF digits = <<>> THEN {a} ELSE Hexadecimal(Tail(digits), AsUnsigned(a * 16 + Head(digits)))

l_str2int(s) ==
    IF s.digits = <<>> \/ s.point THEN {}
    ELSE LET read == IF s.hex THEN Hexadecimal(s.digits, 0)
                     ELSE Decimal(s.digits, IF s.neg THEN 1 ELSE 0, 0)
         IN  {intop(IF s.neg THEN -a ELSE a) : a \in read}

\* The value of a row of digits; strtod() rounds it.
RECURSIVE DigitsValue(_, _, _)
DigitsValue(digits, base, a) == IF digits = <<>> THEN a ELSE DigitsValue(Tail(digits), base, a * base + Head(digits))
l_str2d(s) ==
    LET base == IF s.hex THEN 16 ELSE 10
        x == Rounded(DigitsValue(s.digits \o s.after, base, 0) * UNIT, base ^ Len(s.after))
    IN  IF s.digits \o s.after = <<>> THEN {} ELSE {IF s.neg THEN negative(x) ELSE x}

luaO_str2num(s) == IF l_str2int(s) # {} THEN {Integer(i) : i \in l_str2int(s)} ELSE {Float(x) : x \in l_str2d(s)}

-----------------------------------------------------------------------------
(* Comparisons *)

l_intfitsf(i) == -(2 ^ FloatBits) <= i /\ i <= 2 ^ FloatBits
Truncated(f) == IF f < 0 THEN -((-f) \div UNIT) ELSE f \div UNIT

LTintfloat(i, f) ==
    IF l_intfitsf(i) THEN numlt(cast_num(i), f)
    ELSE IF numle(-cast_num(MinInt), f) THEN TRUE
    ELSE numlt(cast_num(MinInt), f) /\ i < Truncated(f)

LEintfloat(i, f) ==
    IF l_intfitsf(i) THEN numle(cast_num(i), f)
    ELSE IF numle(-cast_num(MinInt), f) THEN TRUE
    ELSE numle(cast_num(MinInt), f) /\ i <= Truncated(f)

LTnum(l, r) ==
    IF ttisinteger(l) THEN IF ttisinteger(r) THEN l.v < r.v ELSE LTintfloat(l.v, r.v)
    ELSE IF ~ttisinteger(r) THEN numlt(l.v, r.v)
    ELSE l.v # NaN /\ ~LEintfloat(r.v, l.v)

LEnum(l, r) ==
    IF ttisinteger(l) THEN IF ttisinteger(r) THEN l.v <= r.v ELSE LEintfloat(l.v, r.v)
    ELSE IF ~ttisinteger(r) THEN numle(l.v, r.v)
    ELSE l.v # NaN /\ ~LTintfloat(r.v, l.v)

luaV_equalobj(l, r) ==
    IF l.t # r.t
    THEN \E i \in luaV_tointeger(l, "integral"), j \in luaV_tointeger(r, "integral") : i = j
    ELSE IF ttisinteger(l) THEN l.v = r.v ELSE numeq(l.v, r.v)

\* strcoll() on the characters up to the first zero of each string, which is all it sees: -1, 0 or 1.
CString(s) == LET zeros == {n \in DOMAIN s : s[n] = 0}
              IN  IF zeros = {} THEN s ELSE SubSeq(s, 1, (CHOOSE n \in zeros : \A k \in zeros : n <= k) - 1)
Before(l, r) ==
    \/ \E n \in DOMAIN l \cap DOMAIN r : l[n] < r[n] /\ SubSeq(l, 1, n - 1) = SubSeq(r, 1, n - 1)
    \/ Len(l) < Len(r) /\ l = SubSeq(r, 1, Len(l))
strcoll(l, r) == IF CString(l) = CString(r) THEN 0 ELSE IF Before(CString(l), CString(r)) THEN -1 ELSE 1

RECURSIVE l_strcmp(_, _)
l_strcmp(l, r) ==
    LET len == Len(CString(l))
    IN  IF strcoll(l, r) # 0 THEN strcoll(l, r)
        ELSE IF len = Len(r) THEN IF len = Len(l) THEN 0 ELSE 1
        ELSE IF len = Len(l) THEN -1
        ELSE l_strcmp(SubSeq(l, len + 2, Len(l)), SubSeq(r, len + 2, Len(r)))

-----------------------------------------------------------------------------
(* Arithmetic: an error is the empty set *)

\* C division, which truncates.
Quotient(m, n) == IF (m < 0) = (n < 0) THEN Abs(m) \div Abs(n) ELSE -(Abs(m) \div Abs(n))
Remainder(m, n) == IF m < 0 THEN -((-m) % Abs(n)) ELSE m % Abs(n)
Opposite(m, n) == (m < 0) # (n < 0)

luaV_div(m, n) ==
    IF n = 0 THEN {}
    ELSE IF n = -1 THEN {intop(-m)}
    ELSE IF Opposite(m, n) /\ Remainder(m, n) # 0 THEN {Quotient(m, n) - 1}
    ELSE {Quotient(m, n)}

luaV_mod(m, n) ==
    IF n = 0 THEN {}
    ELSE IF n = -1 THEN {0}
    ELSE IF Remainder(m, n) # 0 /\ Opposite(m, n) THEN {Remainder(m, n) + n}
    ELSE {Remainder(m, n)}

NBITS == IntBits
luaV_shiftl(x, y) ==
    IF y < 0 THEN IF y <= -NBITS THEN 0 ELSE intop(AsUnsigned(x) \div 2 ^ (-y))
    ELSE IF y >= NBITS THEN 0 ELSE intop(AsUnsigned(x) * 2 ^ y)

intarith(op, m, n) ==
    CASE op = "add" -> {intop(m + n)}
      [] op = "sub" -> {intop(m - n)}
      [] op = "mul" -> {intop(m * n)}
      [] op = "mod" -> luaV_mod(m, n)
      [] op = "idiv" -> luaV_div(m, n)
      [] op = "shl" -> {luaV_shiftl(m, n)}
      [] op = "shr" -> {luaV_shiftl(m, intop(-n))}
      [] op = "unm" -> {intop(-m)}
      [] op = "bnot" -> {-m - 1}

\* fmod() is exact.
fmod(a, b) == IF a = NaN \/ b \in {NaN, 0} \/ ~finite(a) THEN NaN ELSE IF ~finite(b) THEN a ELSE Remainder(a, b)
nummod(a, b) ==
    LET m == fmod(a, b) IN IF m \notin {NaN, 0} /\ Opposite(m, b) THEN numadd(m, b) ELSE m

\* Of the operations of floats, those that are looked at.
numarith(op, a, b) ==
    CASE op = "add" -> numadd(a, b)
      [] op = "sub" -> numadd(a, negative(b))
      [] op = "mod" -> nummod(a, b)
      [] op = "unm" -> negative(a)

luaO_arith(op, l, r) ==
    IF op \in {"shl", "shr", "bnot"}
    THEN UNION {{Integer(k) : k \in intarith(op, i, j)} :
                   i \in luaV_tointeger(l, "integral"), j \in luaV_tointeger(r, "integral")}
    ELSE IF ttisinteger(l) /\ ttisinteger(r) THEN {Integer(k) : k \in intarith(op, l.v, r.v)}
    ELSE {Float(numarith(op, tonumber(l), tonumber(r)))}

-----------------------------------------------------------------------------
(* Loops over integers *)

\* Seeded error: a limit that no integer reaches stops no loop.
LimitClipped(o, step) ==
    LET fits == luaV_tointeger(o, IF step < 0 THEN "ceil" ELSE "floor")
    IN  IF fits # {} THEN [limit |-> CHOOSE i \in fits : TRUE, stopnow |-> FALSE]
        ELSE [limit |-> IF numlt(0, tonumber(o)) THEN MaxInt ELSE MinInt, stopnow |-> FALSE]

forlimit(o, step) ==
    LET fits == luaV_tointeger(o, IF step < 0 THEN "ceil" ELSE "floor")
    IN  IF fits # {} THEN [limit |-> CHOOSE i \in fits : TRUE, stopnow |-> FALSE]
        ELSE IF numlt(0, tonumber(o)) THEN [limit |-> MaxInt, stopnow |-> step < 0]
        ELSE [limit |-> MinInt, stopnow |-> step >= 0]

\* OP_FORLOOP, as long as it jumps back and at most so many times.
RECURSIVE ForLoop(_, _, _, _)
ForLoop(index, limit, step, most) ==
    LET idx == intop(index + step)
    IN  IF most > 0 /\ (IF 0 < step THEN idx <= limit ELSE limit <= idx)
        THEN <<idx>> \o ForLoop(idx, limit, step, most - 1) ELSE <<>>

\* OP_FORPREP, and the loop.
Visited(init, o, step, most) ==
    LET limit == forlimit(o, step)
    IN  ForLoop(intop((IF limit.stopnow THEN 0 ELSE init) - step), limit.limit, step, most)

-----------------------------------------------------------------------------
(* The mathematical library *)

pushnumint(x) == IF lua_numbertointeger(x) # {} THEN Integer(CHOOSE i \in lua_numbertointeger(x) : TRUE) ELSE Float(x)

l_ceil(x) == IF x = NaN THEN x ELSE -l_floor(-x)

math_floor(o) == IF ttisinteger(o) THEN o ELSE pushnumint(l_floor(o.v))
math_ceil(o) == IF ttisinteger(o) THEN o ELSE pushnumint(l_ceil(o.v))
math_abs(o) ==
    IF ttisinteger(o) THEN Integer(IF o.v < 0 THEN intop(-o.v) ELSE o.v)
    ELSE Float(IF o.v = NaN THEN o.v ELSE Abs(o.v))
math_toint(o) == luaV_tointeger(o, "integral")
math_fmod(l, r) ==
    IF ttisinteger(l) /\ ttisinteger(r)
    THEN IF r.v = 0 THEN {} ELSE {Integer(IF r.v = -1 THEN 0 ELSE Remainder(l.v, r.v))}
    ELSE {Float(fmod(tonumber(l), tonumber(r)))}
math_modf(o) ==
    LET ip == IF numlt(o.v, 0) THEN l_ceil(o.v) ELSE l_floor(o.v)
    IN  IF ttisinteger(o) THEN <<o, Float(0)>>
        ELSE <<pushnumint(ip), Float(IF numeq(o.v, ip) THEN 0 ELSE numadd(o.v, negative(ip)))>>

\* The arguments are compared one by one.
RECURSIVE Least(_, _)
Least(args, n) == IF n = 1 THEN 1 ELSE LET least == Least(args, n - 1)
                                       IN  IF LTnum(args[n], args[least]) THEN n ELSE least
math_min(args) == args[Least(args, Len(args))]

RECURSIVE Greatest(_, _)
Greatest(args, n) == IF n = 1 THEN 1 ELSE LET greatest == Greatest(args, n - 1)
                                          IN  IF LTnum(args[greatest], args[n]) THEN n ELSE greatest
math_max(args) == args[Greatest(args, Len(args))]

\* A random integer, when rand() is k.
math_random(low, up, k) ==
    LET width == numadd(cast_num(up - low), UNIT)
    IN  IF low > up \/ ~(low >= 0 \/ up <= MaxInt + low) THEN {}
        ELSE {intop(Truncated(Rounded(k * width, RANDMAX + 1)) + low)}

-----------------------------------------------------------------------------
(* Sizes in a byte *)

RECURSIVE Steps(_, _, _)
Steps(x, e, bits) ==
    IF x < 8 * 2 ^ bits THEN <<x, e>> ELSE Steps((x + 2 ^ bits - 1) \div 2 ^ bits, e + bits, bits)

luaO_int2fb(x) ==
    LET coarse == Steps(x, 0, 4)
        fine == Steps(coarse[1], coarse[2], 1)
    IN  IF x < 8 THEN x ELSE (fine[2] + 1) * 8 + (fine[1] - 8)

luaO_fb2int(x) == IF x < 8 THEN x ELSE ((x % 8) + 8) * 2 ^ (x \div 8 - 1)

-----------------------------------------------------------------------------
(* What is asked *)

ZeroTexts == UNION {[1 .. n -> {0, 1, 2}] : n \in 0 .. 3}
NoQuestion == [about |-> "none"]
NumbersInit == question = NoQuestion
AskNumbers(steps, sizes) ==
    \/ \E l, r \in Numbers : question' = [about |-> "pair", l |-> l, r |-> r]
    \/ \E i \in Ints, o \in Numbers, s \in steps : question' = [about |-> "loop", init |-> i, limit |-> o, step |-> s]
    \/ \E s \in ReadNumerals : question' = [about |-> "numeral", numeral |-> s]
    \/ \E l, r \in ZeroTexts : question' = [about |-> "strings", left |-> l, right |-> r]
    \/ \E n \in sizes : question' = [about |-> "size", n |-> n]

-----------------------------------------------------------------------------
(* Properties *)

\* A number in units.
Units(o) == IF ttisinteger(o) THEN o.v * UNIT ELSE o.v
isNaN(o) == ~ttisinteger(o) /\ o.v = NaN

\* Integers and floats are compared by their exact values, although an integer may not fit in a
\* float, and nothing is true of what is not a number; the least argument and the
\* greatest are the two ends.
ComparesExactly ==
    question.about = "pair" =>
        LET l == question.l
            r == question.r
            numbers == ~isNaN(l) /\ ~isNaN(r)
        IN  /\ LTnum(l, r) <=> numbers /\ Units(l) < Units(r)
            /\ LEnum(l, r) <=> numbers /\ Units(l) <= Units(r)
            /\ luaV_equalobj(l, r) <=> numbers /\ Units(l) = Units(r)
            /\ numbers => {Units(math_min(<<l, r, l>>)), Units(math_max(<<r, l, r>>))} = {Units(l), Units(r)}
            /\ numbers => Units(math_min(<<l, r>>)) <= Units(math_max(<<l, r>>))

\* Division rounds down and the remainder has the sign of the divisor, at the ends of the range too;
\* the remainder of floats may be as large as the divisor, when it is rounded.  A shift moves the
\* bits of an integer however far it goes.
ArithmeticWraps ==
    question.about = "pair" =>
        LET l == question.l
            r == question.r
            IsInt(op, n) == luaO_arith(op, l, r) = {Integer(intop(n))}
            Bits(i, by) == IF by < 0 THEN AsUnsigned(i) \div 2 ^ Abs(by) ELSE AsUnsigned(i) * 2 ^ by
        IN  /\ ttisinteger(l) /\ ttisinteger(r) =>
                   /\ \A q \in luaO_arith("idiv", l, r), m \in luaO_arith("mod", l, r) :
                          /\ intop(q.v * r.v + m.v) = l.v
                          /\ IF r.v < 0 THEN m.v \in r.v + 1 .. 0 ELSE m.v \in 0 .. r.v - 1
                   /\ IsInt("shl", Bits(l.v, r.v)) /\ IsInt("shr", Bits(l.v, -r.v))
                   /\ (luaO_arith("idiv", l, r) = {}) = (r.v = 0)
            /\ \A m \in luaO_arith("mod", l, r) :
                   ~ttisinteger(m) /\ finite(m.v) /\ finite(Units(r)) =>
                       Abs(m.v) <= Abs(tonumber(r)) /\ (m.v = 0 \/ ~Opposite(m.v, tonumber(r)))

\* A loop over integers visits init, init + step, ... up to the limit, which may be any number, and
\* then ends, unless the next value is beyond the range of integers.  The limit that is not a number
\* is left out for negative steps: it stands for the least integer.
ForVisitsAll ==
    question.about = "loop" =>
        LET init == question.init
            o == question.limit
            step == question.step
            within == {i \in Ints : /\ (i - init) % Abs(step) = 0
                                    /\ IF step > 0 THEN i >= init /\ i * UNIT <= Units(o)
                                       ELSE i <= init /\ i * UNIT >= Units(o)}
            all == [n \in 1 .. Cardinality(within) |-> init + (n - 1) * step]
        IN  IF isNaN(o) THEN step < 0 \/ Visited(init, o, step, 1) = <<>>
            ELSE IF init + Len(all) * step \in Ints THEN Visited(init, o, step, Len(all) + 1) = all
            ELSE Visited(init, o, step, Len(all)) = all

\* A numeral that an integer can hold is read as that integer, any other decimal numeral as the
\* nearest float; hexadecimal integers wrap around.
ReadsNumerals ==
    question.about = "numeral" =>
        LET s == question.numeral
            n == DigitsValue(s.digits \o s.after, IF s.hex THEN 16 ELSE 10, 0)
            signed == IF s.neg THEN -n ELSE n
        IN  luaO_str2num(s) =
                IF s.digits \o s.after = <<>> THEN {}
                ELSE IF ~s.point /\ (s.hex \/ signed \in Ints) THEN {Integer(intop(signed))}
                ELSE {Float(Rounded(signed * UNIT, (IF s.hex THEN 16 ELSE 10) ^ Len(s.after)))}

\* Floor, ceiling, whole part and remainder are exact, and integers whenever an integer can hold them.
RoundsExactly ==
    question.about = "pair" =>
        LET o == question.l
            r == question.r
            Exact(p, units) == Units(p) = units /\ (ttisinteger(p) \/ units \div UNIT \notin Ints)
            whole == math_modf(o)
        IN  /\ finite(Units(o)) =>
                   /\ Exact(math_floor(o), (Units(o) \div UNIT) * UNIT)
                   /\ Exact(math_ceil(o), -(((-Units(o)) \div UNIT) * UNIT))
                   /\ Units(whole[1]) + Units(whole[2]) = Units(o)
                   /\ Abs(Units(whole[2])) < UNIT
            /\ math_toint(o) # {} <=> finite(Units(o)) /\ Units(o) % UNIT = 0 /\ Units(o) \div UNIT \in Ints
            /\ finite(Units(o)) /\ finite(Units(r)) => \A m \in math_fmod(o, r) : isNaN(m) \/
                   /\ Abs(Units(m)) < Abs(Units(r)) /\ (m.v = 0 \/ ~Opposite(m.v, o.v))
                   /\ ~ttisinteger(m) \/ (Units(o) - Units(m)) % Abs(Units(r)) = 0
            /\ finite(Units(o)) => Units(math_abs(o)) = Abs(Units(o)) \/ o.v = MinInt

\* A random integer lies in its interval, whatever rand() returns and however the width is rounded.
RandomInRange ==
    question.about = "pair" /\ ttisinteger(question.l) /\ ttisinteger(question.r) =>
        \A k \in 0 .. RANDMAX : \A n \in math_random(question.l.v, question.r.v, k) :
            n \in question.l.v .. question.r.v

\* A size in a byte is at least the size, and at most an eighth more (OP_NEWTABLE).
SizesCover ==
    question.about = "size" =>
        LET size == luaO_fb2int(luaO_int2fb(question.n))
        IN  size >= question.n /\ 8 * size <= 9 * question.n + 8

\* Strings are ordered as their characters are, a zero among them like any other.
StringsOrdered ==
    question.about = "strings" =>
        l_strcmp(question.left, question.right) =
            IF question.left = question.right THEN 0 ELSE IF Before(question.left, question.right) THEN -1 ELSE 1

\* Integers and floats mean numbers: where they are compared, computed, counted, read and rounded, the
\* result is that of mathematics, wrapped around or rounded once (lvm.c, lobject.c, lmathlib.c).
NumbersAsMeant ==
    /\ ComparesExactly
    /\ ArithmeticWraps
    /\ ForVisitsAll
    /\ ReadsNumerals
    /\ RoundsExactly
    /\ RandomInRange
    /\ SizesCover
    /\ StringsOrdered
=============================================================================
