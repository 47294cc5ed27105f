------------------------- MODULE FieldKinds_proofs -------------------------
(***************************************************************************)
(* Proofs about the kinds of fields: the arrays and keys do what sets do in*)
(* Conditions, and hold what was added in its order.                       *)
(***************************************************************************)
EXTENDS FieldKinds, SequenceTheorems, FiniteSetTheorems, WellFoundedInduction, TLAPS

-----------------------------------------------------------------------------
(***************************************************************************)
(* Numbers, loops and sequences.                                           *)
(***************************************************************************)
LEMMA LeastMember ==
    ASSUME NEW T, T \subseteq Nat, T # {}
    PROVE  \E n \in T : \A m \in T : n <= m
<1> DEFINE below == {pair \in Nat \X Nat : pair[1] < pair[2]}
<1>1. IsWellFoundedOn(below, Nat)
  BY NatLessThanWellFounded, Zenon DEF OpToRel
<1>2. PICK n \in T : \A m \in T : <<m, n>> \notin below
  <2> HIDE DEF below
  <2> QED
    BY <1>1, WFMin, Zenon
<1>3. \A m \in T : ~(m < n)
  BY <1>2
<1> QED
  BY <1>3

\* What holds before a loop and is kept by each of its turns holds after all of them.
LEMMA LoopInduction ==
    ASSUME NEW n \in Nat, NEW T, 0 \in T,
           \A k \in 1 .. n : k - 1 \in T => k \in T
    PROVE  0 .. n \subseteq T
<1> DEFINE U == 0 .. n \ T
<1>1. ASSUME U # {}
      PROVE  FALSE
  <2>1. PICK m \in U : \A k \in U : m <= k
    <3> U \subseteq Nat
      OBVIOUS
    <3> HIDE DEF U
    <3> QED
      BY <1>1, LeastMember
  <2>2. m \in 1 .. n /\ m - 1 \in 0 .. n /\ ~(m <= m - 1)
    OBVIOUS
  <2>3. m - 1 \in T
    BY <2>1, <2>2
  <2> QED
    BY <2>2, <2>3
<1> QED
  BY <1>1

\* What holds before turn k of a loop makes what holds after it.
Kept(holds, step, n) == \A k \in 1 .. n : \A x \in holds[k - 1] : step[<<x, k>>] \in holds[k]

\* There is a function that follows a loop turn by turn, and what holds after each turn is said
\* by the set of the turn.
LEMMA LoopExists ==
    ASSUME NEW n \in Nat, NEW holds, NEW base, base \in holds[0], NEW step, Kept(holds, step, n)
    PROVE  \E g : /\ g = [k \in 0 .. n |-> IF k = 0 THEN base ELSE step[<<g[k - 1], k>>]]
                  /\ \A k \in 0 .. n : g[k] \in holds[k]
<1> DEFINE Follows(g, m) ==
        /\ g = [k \in 0 .. m |-> g[k]]
        /\ g[0] = base
        /\ \A k \in 1 .. m : g[k] = step[<<g[k - 1], k>>]
        /\ \A k \in 0 .. m : g[k] \in holds[k]
           T == {m \in 0 .. n : \E g : Follows(g, m)}
<1>1. 0 \in T
  <2>1. PICK g : g = [k \in 0 .. 0 |-> base]
    OBVIOUS
  <2>2. Follows(g, 0)
    BY <2>1
  <2> QED
    BY <2>2
<1>2. ASSUME NEW m \in 1 .. n, m - 1 \in T
      PROVE  m \in T
  <2>1. PICK g : Follows(g, m - 1)
    BY <1>2
  <2>2. PICK h : h = [k \in 0 .. m |-> IF k = m THEN step[<<g[m - 1], m>>] ELSE g[k]]
    OBVIOUS
  <2>3. step[<<g[m - 1], m>>] \in holds[m]
    BY <2>1 DEF Kept
  <2>4. \A k \in 0 .. m : k = m \/ k \in 0 .. m - 1
    OBVIOUS
  <2>5. \A k \in 0 .. m - 1 : h[k] = g[k]
    BY <2>2
  <2>6. h[m] = step[<<g[m - 1], m>>]
    BY <2>2
  <2>7. h = [k \in 0 .. m |-> h[k]]
    BY <2>2
  <2>8. h[0] = base
    BY <2>1, <2>5
  <2>9. \A k \in 1 .. m : h[k] = step[<<h[k - 1], k>>]
    <3>1. ASSUME NEW k \in 1 .. m
          PROVE  h[k - 1] = g[k - 1]
      BY <2>5
    <3>2. ASSUME NEW k \in 1 .. m, k # m
          PROVE  h[k] = g[k] /\ k \in 1 .. m - 1
      BY <2>5, <3>2
    <3> QED
      BY <2>1, <2>6, <3>1, <3>2
  <2>10. \A k \in 0 .. m : h[k] \in holds[k]
    BY <2>1, <2>3, <2>4, <2>5, <2>6
  <2>11. Follows(h, m)
    BY <2>7, <2>8, <2>9, <2>10
  <2> HIDE DEF Follows
  <2> QED
    BY <2>11
<1>3. 0 .. n \subseteq T
  <2> HIDE DEF T
  <2> QED
    BY <1>1, <1>2, LoopInduction
<1>4. PICK g : Follows(g, n)
  BY <1>3
<1>5. \A k \in 0 .. n : g[k] = IF k = 0 THEN base ELSE step[<<g[k - 1], k>>]
  <2>1. \A k \in 0 .. n : k = 0 \/ k \in 1 .. n
    OBVIOUS
  <2> QED
    BY <1>4, <2>1
<1>6. g = [k \in 0 .. n |-> IF k = 0 THEN base ELSE step[<<g[k - 1], k>>]]
  BY <1>4, <1>5
<1> QED
  BY <1>4, <1>6

-----------------------------------------------------------------------------
(***************************************************************************)
(* What the loops are.                                                     *)
(***************************************************************************)
Value == [set : BOOLEAN, array : Seq(Strings), keys : SUBSET Strings]

\* One turn of receive().
Receive(f, value, s) == IF f \in ListFields THEN Insert(value, s) ELSE AppendToSet(value, s)

LEMMA ReceivedIsChosen ==
    ASSUME NEW f, NEW value, NEW strings
    PROVE  ReceivedEach(f, value, strings) =
               CHOOSE g : g = [n \in 0 .. Len(strings) |->
                                  IF n = 0 THEN OrEmpty(value) ELSE Receive(f, g[n - 1], strings[n])]
  BY DEF ReceivedEach, Receive

\* A property that the value has before receive(), and that each turn keeps, it has afterwards.
LEMMA ReceiveLoop ==
    ASSUME NEW f, NEW value, NEW strings, Len(strings) \in Nat, NEW holds,
           OrEmpty(value) \in holds[0],
           \A k \in 1 .. Len(strings) : \A x \in holds[k - 1] : Receive(f, x, strings[k]) \in holds[k]
    PROVE  ReceivedEach(f, value, strings)[Len(strings)] \in holds[Len(strings)]
<1>1. PICK n : n = Len(strings)
  OBVIOUS
<1>2. PICK S : S = UNION {holds[k] : k \in 0 .. n}
  OBVIOUS
<1>3. PICK step : step = [p \in S \X (1 .. n) |-> Receive(f, p[1], strings[p[2]])]
  OBVIOUS
<1>4. \A k \in 1 .. n : \A x \in holds[k - 1] : step[<<x, k>>] = Receive(f, x, strings[k])
  <2>1. \A k \in 1 .. n : k - 1 \in 0 .. n
    BY <1>1
  <2>2. \A k \in 1 .. n : \A x \in holds[k - 1] : x \in S
    BY <1>2, <2>1
  <2> QED
    BY <1>3, <2>2
<1>5. PICK g : /\ g = [k \in 0 .. n |-> IF k = 0 THEN OrEmpty(value) ELSE step[<<g[k - 1], k>>]]
              /\ \A k \in 0 .. n : g[k] \in holds[k]
  <2>1. n \in Nat /\ OrEmpty(value) \in holds[0]
    BY <1>1
  <2>2. Kept(holds, step, n)
    BY <1>1, <1>4 DEF Kept
  <2> QED
    BY <2>1, <2>2, LoopExists
<1> DEFINE Is(h) == h = [k \in 0 .. n |-> IF k = 0 THEN OrEmpty(value) ELSE Receive(f, h[k - 1], strings[k])]
<1>6. Is(g)
  <2>1. \A k \in 0 .. n : k # 0 => k \in 1 .. n /\ k - 1 \in 0 .. n
    BY <1>1
  <2>2. \A k \in 0 .. n : k # 0 => step[<<g[k - 1], k>>] = Receive(f, g[k - 1], strings[k])
    BY <1>4, <1>5, <2>1
  <2> QED
    BY <1>5, <2>2
<1>7. PICK h : h = CHOOSE e : Is(e)
  OBVIOUS
<1>8. Is(h)
  <2> HIDE DEF Is
  <2> QED
    BY <1>6, <1>7
<1>9. h = ReceivedEach(f, value, strings)
  BY <1>1, <1>7, ReceivedIsChosen
<1> DEFINE T == {k \in 0 .. n : h[k] \in holds[k]}
<1>10. 0 \in T
  BY <1>1, <1>8
<1>11. ASSUME NEW k \in 1 .. n, k - 1 \in T
       PROVE  k \in T
  <2>1. h[k] = Receive(f, h[k - 1], strings[k])
    BY <1>1, <1>8
  <2> QED
    BY <1>1, <1>11, <2>1
<1>12. 0 .. n \subseteq T
  <2> HIDE DEF T
  <2> QED
    BY <1>1, <1>10, <1>11, LoopInduction
<1> QED
  BY <1>1, <1>9, <1>12

-----------------------------------------------------------------------------
(***************************************************************************)
(* What stays when the calls become more.                                  *)
(***************************************************************************)
Call == [operation : {ADD, REMOVE}, strings : Seq(Strings)]

\* The calls, and one more of which only the first k strings are given yet.
With(calls, operation, strings, k) ==
    Append(calls, [operation |-> operation, strings |-> [j \in 1 .. k |-> strings[j]]])

LEMMA GivenFacts ==
    ASSUME NEW calls \in Seq(Call)
    PROVE  /\ Len(calls) \in Nat
           /\ \A c \in 1 .. Len(calls) : calls[c] \in Call
           /\ \A p : p \in Given(calls) <=>
                 \E c \in 1 .. Len(calls) : \E j \in 1 .. Len(calls[c].strings) : p = <<c, j>>
           /\ \A p \in Given(calls) :
                 /\ p = <<p[1], p[2]>> /\ p[1] \in 1 .. Len(calls) /\ p[2] \in Nat \ {0}
                 /\ p[2] \in 1 .. Len(calls[p[1]].strings)
                 /\ StringAt(calls, p) \in Strings
<1>1. Len(calls) \in Nat /\ \A c \in 1 .. Len(calls) : calls[c] \in Call /\ calls[c].strings \in Seq(Strings)
  <2>1. Len(calls) \in Nat /\ \A c \in 1 .. Len(calls) : calls[c] \in Call
    BY ElementOfSeq, LenProperties
  <2>2. \A call \in Call : call.strings \in Seq(Strings)
    BY DEF Call
  <2> QED
    BY <2>1, <2>2
<1>2. \A p : p \in Given(calls) <=>
          \E c \in 1 .. Len(calls) : \E j \in 1 .. Len(calls[c].strings) : p = <<c, j>>
  BY <1>1 DEF Given
<1>3. \A p \in Given(calls) :
          /\ p = <<p[1], p[2]>> /\ p[1] \in 1 .. Len(calls) /\ p[2] \in Nat \ {0}
          /\ p[2] \in 1 .. Len(calls[p[1]].strings)
  BY <1>1, <1>2
<1>4. \A p \in Given(calls) : StringAt(calls, p) \in Strings
  BY <1>1, <1>3 DEF StringAt
<1> QED
  BY <1>1, <1>2, <1>3, <1>4

\* What these calls are: `more' has the C-th call with k strings after `calls'.
MoreCalls(calls, operation, strings, k, more, C) ==
    /\ more \in Seq(Call) /\ Len(more) = C /\ C \in Nat /\ C = Len(calls) + 1 /\ Len(calls) \in Nat
    /\ \A c \in 1 .. Len(calls) : more[c] = calls[c]
    /\ more[C].operation = operation
    /\ Len(more[C].strings) = k
    /\ \A j \in 1 .. k : more[C].strings[j] = strings[j]
    /\ \A p : p \in Given(more) <=> p \in Given(calls) \/ \E j \in 1 .. k : p = <<C, j>>
    /\ \A p \in Given(calls) : StringAt(more, p) = StringAt(calls, p)
    /\ \A j \in 1 .. k : StringAt(more, <<C, j>>) = strings[j]
    /\ Range(more[C].strings) = {strings[j] : j \in 1 .. k}

LEMMA WithFacts ==
    ASSUME NEW calls \in Seq(Call), NEW operation \in {ADD, REMOVE}, NEW strings \in Seq(Strings),
           NEW k \in 0 .. Len(strings)
    PROVE  MoreCalls(calls, operation, strings, k, With(calls, operation, strings, k), Len(calls) + 1)
<1>1. PICK given : given = [j \in 1 .. k |-> strings[j]]
  OBVIOUS
<1>2. given \in Seq(Strings) /\ Len(given) = k /\ \A j \in 1 .. k : given[j] = strings[j]
  BY <1>1
<1>3. PICK call : call = [operation |-> operation, strings |-> given]
  OBVIOUS
<1>4. call \in Call /\ call.operation = operation /\ call.strings = given
  BY <1>2, <1>3 DEF Call
<1>5. PICK more : more = Append(calls, call)
  OBVIOUS
<1>6. more = With(calls, operation, strings, k)
  BY <1>1, <1>3, <1>5 DEF With
<1>7. PICK C : C = Len(calls) + 1
  OBVIOUS
<1>8. /\ more \in Seq(Call) /\ Len(more) = C /\ C \in Nat /\ Len(calls) \in Nat
      /\ \A c \in 1 .. Len(calls) : more[c] = calls[c]
      /\ more[C] = call
  BY <1>4, <1>5, <1>7
<1>9. \A p : p \in Given(more) <=> p \in Given(calls) \/ \E j \in 1 .. k : p = <<C, j>>
  <2>1. \A p : p \in Given(more) <=>
            \E c \in 1 .. C : \E j \in 1 .. Len(more[c].strings) : p = <<c, j>>
    BY <1>8, GivenFacts
  <2>2. \A p : p \in Given(calls) <=>
            \E c \in 1 .. Len(calls) : \E j \in 1 .. Len(calls[c].strings) : p = <<c, j>>
    BY GivenFacts
  <2>3. \A c : c \in 1 .. C <=> c \in 1 .. Len(calls) \/ c = C
    BY <1>7, <1>8
  <2>4. \A c \in 1 .. Len(calls) : c \in 1 .. C /\ more[c] = calls[c]
    BY <1>8, <2>3
  <2>5. more[C].strings = given /\ Len(more[C].strings) = k /\ C \in 1 .. C
    BY <1>2, <1>4, <1>7, <1>8
  <2>6. ASSUME NEW p, p \in Given(more)
        PROVE  p \in Given(calls) \/ \E j \in 1 .. k : p = <<C, j>>
    <3>1. PICK c \in 1 .. C : \E j \in 1 .. Len(more[c].strings) : p = <<c, j>>
      BY <2>1, <2>6
    <3>2. CASE c = C
      BY <2>5, <3>1, <3>2
    <3>3. CASE c \in 1 .. Len(calls)
      BY <2>2, <2>4, <3>1, <3>3
    <3> QED
      BY <2>3, <3>2, <3>3
  <2>7. ASSUME NEW p, p \in Given(calls)
        PROVE  p \in Given(more)
    BY <2>1, <2>2, <2>4, <2>7
  <2>8. ASSUME NEW j \in 1 .. k
        PROVE  <<C, j>> \in Given(more)
    BY <2>1, <2>5
  <2> QED
    BY <2>6, <2>7, <2>8
<1>10. \A p \in Given(calls) : StringAt(more, p) = StringAt(calls, p)
  BY <1>8, GivenFacts DEF StringAt
<1>11. \A j \in 1 .. k : StringAt(more, <<C, j>>) = strings[j]
  BY <1>2, <1>4, <1>8 DEF StringAt
<1>12. Range(given) = {strings[j] : j \in 1 .. k}
  BY <1>1 DEF Range
<1> QED
  BY <1>2, <1>4, <1>6, <1>7, <1>8, <1>9, <1>10, <1>11, <1>12 DEF MoreCalls

\* Of the strings alike that stay the first is none that repeats another.
LEMMA FirstOfThem ==
    ASSUME NEW calls \in Seq(Call), NEW q \in Given(calls), Stays(calls, q)
    PROVE  \E p \in Given(calls) : /\ p = q \/ Earlier(p, q)
                                   /\ Stays(calls, p) /\ StringAt(calls, p) = StringAt(calls, q)
                                   /\ ~Repeats(calls, p)
<1> DEFINE Alike == {p \in Given(calls) : Stays(calls, p) /\ StringAt(calls, p) = StringAt(calls, q)}
<1>1. PICK c \in {p[1] : p \in Alike} : \A d \in {p[1] : p \in Alike} : c <= d
  <2>1. {p[1] : p \in Alike} \subseteq Nat
    BY GivenFacts
  <2>2. {p[1] : p \in Alike} # {}
    OBVIOUS
  <2> HIDE DEF Alike
  <2> QED
    BY <2>1, <2>2, LeastMember
<1> DEFINE There == {p \in Alike : p[1] = c}
<1>2. PICK j \in {p[2] : p \in There} : \A i \in {p[2] : p \in There} : j <= i
  <2>1. {p[2] : p \in There} \subseteq Nat
    BY GivenFacts
  <2>2. {p[2] : p \in There} # {}
    BY <1>1
  <2> HIDE DEF There
  <2> QED
    BY <2>1, <2>2, LeastMember
<1>3. PICK p \in There : p[2] = j
  BY <1>2
<1>4. p \in Alike /\ p[1] = c
  BY <1>3
<1>5. \A r \in Alike : r[1] \in Nat /\ r[2] \in Nat /\ r = <<r[1], r[2]>>
  BY GivenFacts
<1>6. \A r \in Alike : c <= r[1] /\ (r[1] = c => j <= r[2])
  BY <1>1, <1>2
<1>7. \A r \in Alike : ~Earlier(r, p)
  BY <1>3, <1>4, <1>5, <1>6 DEF Earlier
<1>8. ~Repeats(calls, p)
  BY <1>4, <1>7 DEF Repeats
<1>9. q \in Alike
  OBVIOUS
<1>10. p = q \/ Earlier(p, q)
  <2>1. p[1] <= q[1] /\ (p[1] = q[1] => p[2] <= q[2])
    BY <1>3, <1>4, <1>6, <1>9
  <2> QED
    BY <1>4, <1>5, <1>9, <2>1 DEF Earlier
<1> QED
  BY <1>4, <1>8, <1>10

LEMMA StaysWith ==
    ASSUME NEW calls \in Seq(Call), NEW operation \in {ADD, REMOVE}, NEW strings \in Seq(Strings),
           NEW k \in 0 .. Len(strings)
    PROVE  LET more == With(calls, operation, strings, k)
           IN  /\ \A p \in Given(calls) :
                     Stays(more, p) <=>
                         /\ Stays(calls, p)
                         /\ operation = REMOVE => \A j \in 1 .. k : StringAt(calls, p) # strings[j]
               /\ \A j \in 1 .. k : Stays(more, <<Len(calls) + 1, j>>) <=> operation = ADD
<1>1. PICK more : more = With(calls, operation, strings, k)
  OBVIOUS
<1>2. PICK C : C = Len(calls) + 1
  OBVIOUS
<1>3. /\ Len(more) = C /\ C \in Nat /\ Len(calls) \in Nat
      /\ \A c \in 1 .. Len(calls) : more[c] = calls[c]
      /\ more[C].operation = operation
      /\ \A p \in Given(calls) : StringAt(more, p) = StringAt(calls, p)
      /\ Range(more[C].strings) = {strings[j] : j \in 1 .. k}
  <2>1. MoreCalls(calls, operation, strings, k, more, C)
    BY <1>1, <1>2, WithFacts
  <2> QED
    BY <2>1 DEF MoreCalls
<1>4. ASSUME NEW p \in Given(calls)
      PROVE  Stays(more, p) <=>
                 /\ Stays(calls, p)
                 /\ operation = REMOVE => \A j \in 1 .. k : StringAt(calls, p) # strings[j]
  <2>1. p[1] \in 1 .. Len(calls)
    BY GivenFacts
  <2>2. more[p[1]] = calls[p[1]] /\ StringAt(more, p) = StringAt(calls, p)
    BY <1>3, <2>1
  <2>3. \A c : c \in p[1] + 1 .. C <=> c \in p[1] + 1 .. Len(calls) \/ c = C
    BY <1>2, <1>3, <2>1
  <2>4. \A c \in p[1] + 1 .. Len(calls) : more[c] = calls[c]
    BY <1>3, <2>1
  <2>5. (operation = REMOVE => StringAt(calls, p) \notin Range(more[C].strings))
            <=> (operation = REMOVE => \A j \in 1 .. k : StringAt(calls, p) # strings[j])
    BY <1>3
  <2>6. Stays(more, p) <=>
            /\ calls[p[1]].operation = ADD
            /\ \A c \in p[1] + 1 .. Len(calls) :
                  calls[c].operation = REMOVE => StringAt(calls, p) \notin Range(calls[c].strings)
            /\ operation = REMOVE => StringAt(calls, p) \notin Range(more[C].strings)
    BY <1>3, <2>2, <2>3, <2>4 DEF Stays
  <2>7. Stays(calls, p) <=>
            /\ calls[p[1]].operation = ADD
            /\ \A c \in p[1] + 1 .. Len(calls) :
                  calls[c].operation = REMOVE => StringAt(calls, p) \notin Range(calls[c].strings)
    BY DEF Stays
  <2> QED
    BY <2>5, <2>6, <2>7
<1>5. ASSUME NEW j \in 1 .. k
      PROVE  Stays(more, <<C, j>>) <=> operation = ADD
  <2>1. C + 1 .. C = {}
    BY <1>3
  <2> QED
    BY <1>3, <2>1 DEF Stays
<1> QED
  BY <1>1, <1>2, <1>4, <1>5

\* A call of which no string is given yet changes nothing.
LEMMA StayingStart ==
    ASSUME NEW f, NEW calls \in Seq(Call), NEW operation \in {ADD, REMOVE}, NEW strings \in Seq(Strings)
    PROVE  Staying(f, With(calls, operation, strings, 0)) = Staying(f, calls)
<1>1. PICK more : more = With(calls, operation, strings, 0)
  OBVIOUS
<1>2. 0 \in 0 .. Len(strings) /\ 1 .. 0 = {}
  OBVIOUS
<1>3. /\ \A p : p \in Given(more) <=> p \in Given(calls)
      /\ \A p \in Given(calls) : StringAt(more, p) = StringAt(calls, p)
  <2>1. MoreCalls(calls, operation, strings, 0, more, Len(calls) + 1)
    BY <1>1, <1>2, WithFacts
  <2> QED
    BY <1>2, <2>1 DEF MoreCalls
<1>4. \A p \in Given(calls) : Stays(more, p) <=> Stays(calls, p)
  BY <1>1, <1>2, StaysWith
<1>5. \A p \in Given(calls) : Repeats(more, p) <=> Repeats(calls, p)
  BY <1>3, <1>4 DEF Repeats
<1> QED
  BY <1>1, <1>3, <1>4, <1>5 DEF Staying

\* What one string more to add changes: it stays itself, if it is not in a set that has it,
\* and what stayed stays.
Grown(f, before, after, new, s) ==
    /\ Staying(f, after) = Staying(f, before) \cup
          (IF f \in ListFields \/ ~\E p \in Staying(f, before) : StringAt(before, p) = s
           THEN {new} ELSE {})
    /\ \A p \in Given(before) : p \in Given(after) /\ StringAt(after, p) = StringAt(before, p)
    /\ \A p \in Given(before) : Earlier(p, new) /\ ~Earlier(new, p)
    /\ new \in Given(after) /\ StringAt(after, new) = s

LEMMA StayingAdd ==
    ASSUME NEW f, NEW calls \in Seq(Call), NEW strings \in Seq(Strings), NEW k \in 1 .. Len(strings)
    PROVE  Grown(f, With(calls, ADD, strings, k - 1), With(calls, ADD, strings, k),
                 <<Len(calls) + 1, k>>, strings[k])
<1>1. PICK before : before = With(calls, ADD, strings, k - 1)
  OBVIOUS
<1>2. PICK after : after = With(calls, ADD, strings, k)
  OBVIOUS
<1>3. PICK C : C = Len(calls) + 1
  OBVIOUS
<1>4. PICK new : new = <<C, k>>
  OBVIOUS
<1>5. k \in 0 .. Len(strings) /\ k - 1 \in 0 .. Len(strings) /\ Len(calls) \in Nat /\ C \in Nat
  BY <1>3
<1>6. /\ before \in Seq(Call)
      /\ \A p : p \in Given(before) <=> p \in Given(calls) \/ \E j \in 1 .. k - 1 : p = <<C, j>>
      /\ \A p \in Given(calls) : StringAt(before, p) = StringAt(calls, p)
      /\ \A j \in 1 .. k - 1 : StringAt(before, <<C, j>>) = strings[j]
  <2>1. MoreCalls(calls, ADD, strings, k - 1, before, C)
    BY <1>1, <1>3, <1>5, WithFacts
  <2> QED
    BY <2>1 DEF MoreCalls
<1>7. /\ after \in Seq(Call)
      /\ \A p : p \in Given(after) <=> p \in Given(calls) \/ \E j \in 1 .. k : p = <<C, j>>
      /\ \A p \in Given(calls) : StringAt(after, p) = StringAt(calls, p)
      /\ \A j \in 1 .. k : StringAt(after, <<C, j>>) = strings[j]
  <2>1. MoreCalls(calls, ADD, strings, k, after, C)
    BY <1>2, <1>3, <1>5, WithFacts
  <2> QED
    BY <2>1 DEF MoreCalls
<1>8. \A j : j \in 1 .. k <=> j \in 1 .. k - 1 \/ j = k
  BY <1>5
<1>9. \A p : p \in Given(after) <=> p \in Given(before) \/ p = new
  BY <1>4, <1>6, <1>7, <1>8
<1>10. \A p \in Given(before) : StringAt(after, p) = StringAt(before, p)
  <2>1. \A p \in Given(calls) : StringAt(after, p) = StringAt(before, p)
    BY <1>6, <1>7
  <2>2. \A j \in 1 .. k - 1 : StringAt(after, <<C, j>>) = StringAt(before, <<C, j>>)
    BY <1>6, <1>7, <1>8
  <2> QED
    BY <1>6, <2>1, <2>2
<1>11. new \in Given(after) /\ StringAt(after, new) = strings[k]
  BY <1>4, <1>7, <1>8, <1>9
<1>12. ADD # REMOVE /\ ADD \in {ADD, REMOVE}
  BY DEF ADD, REMOVE
<1>13. \A p \in Given(before) : Stays(after, p) <=> Stays(before, p)
  <2>1. \A p \in Given(calls) : Stays(after, p) <=> Stays(calls, p)
    BY <1>2, <1>5, <1>12, StaysWith
  <2>2. \A p \in Given(calls) : Stays(before, p) <=> Stays(calls, p)
    BY <1>1, <1>5, <1>12, StaysWith
  <2>3. \A j \in 1 .. k - 1 : Stays(after, <<C, j>>) /\ Stays(before, <<C, j>>)
    <3>1. \A j \in 1 .. k : Stays(after, <<C, j>>)
      BY <1>2, <1>3, <1>5, <1>12, StaysWith
    <3>2. \A j \in 1 .. k - 1 : Stays(before, <<C, j>>)
      BY <1>1, <1>3, <1>5, <1>12, StaysWith
    <3> QED
      BY <1>8, <3>1, <3>2
  <2> QED
    BY <1>6, <2>1, <2>2, <2>3
<1>14. Stays(after, new)
  BY <1>2, <1>3, <1>4, <1>5, <1>8, <1>12, StaysWith
<1>15. \A p \in Given(before) : Earlier(p, new) /\ ~Earlier(new, p) /\ p # new
  <2>1. \A p \in Given(calls) : p[1] \in 1 .. Len(calls)
    BY GivenFacts
  <2>2. new[1] = C /\ new[2] = k
    BY <1>4
  <2>3. \A p \in Given(calls) : p[1] < C /\ ~(C < p[1]) /\ p[1] # C
    BY <1>3, <1>5, <2>1
  <2>4. \A p \in Given(calls) : Earlier(p, new) /\ ~Earlier(new, p) /\ p # new
    BY <2>2, <2>3 DEF Earlier
  <2>5. ASSUME NEW j \in 1 .. k - 1
        PROVE  Earlier(<<C, j>>, new) /\ ~Earlier(new, <<C, j>>) /\ <<C, j>> # new
    <3>1. j < k /\ ~(k < j) /\ j # k /\ ~(C < C)
      BY <1>5
    <3> QED
      BY <1>4, <3>1 DEF Earlier
  <2> QED
    BY <1>6, <2>4, <2>5
<1>16. \A p \in Given(before) : Repeats(after, p) <=> Repeats(before, p)
  BY <1>9, <1>10, <1>13, <1>15 DEF Repeats
<1>17. f \notin ListFields =>
           (Repeats(after, new) <=> \E p \in Staying(f, before) : StringAt(before, p) = strings[k])
  <2>1. ASSUME f \notin ListFields, NEW p \in Staying(f, before), StringAt(before, p) = strings[k]
        PROVE  Repeats(after, new)
    <3>1. p \in Given(before) /\ Stays(before, p)
      BY DEF Staying
    <3> QED
      BY <1>9, <1>10, <1>11, <1>13, <1>15, <2>1, <3>1 DEF Repeats
  <2>2. ASSUME f \notin ListFields, Repeats(after, new)
        PROVE  \E p \in Staying(f, before) : StringAt(before, p) = strings[k]
    <3>1. PICK q \in Given(after) :
              Earlier(q, new) /\ Stays(after, q) /\ StringAt(after, q) = strings[k]
      BY <1>11, <2>2 DEF Repeats
    <3>2. ~Earlier(new, new)
      <4>1. new[1] = C /\ new[2] = k /\ ~(C < C) /\ ~(k < k)
        BY <1>4, <1>5
      <4> QED
        BY <4>1 DEF Earlier
    <3>3. q \in Given(before)
      BY <1>9, <3>1, <3>2
    <3>4. Stays(before, q) /\ StringAt(before, q) = strings[k]
      BY <1>10, <1>13, <3>1, <3>3
    <3>5. PICK p \in Given(before) :
              Stays(before, p) /\ StringAt(before, p) = strings[k] /\ ~Repeats(before, p)
      BY <1>6, <3>3, <3>4, FirstOfThem
    <3> QED
      BY <3>5 DEF Staying
  <2> QED
    BY <2>1, <2>2
<1>18. Staying(f, after) = Staying(f, before) \cup
           (IF f \in ListFields \/ ~\E p \in Staying(f, before) : StringAt(before, p) = strings[k]
            THEN {new} ELSE {})
  <2>1. \A p \in Given(before) : p \in Staying(f, after) <=> p \in Staying(f, before)
    BY <1>9, <1>13, <1>16 DEF Staying
  <2>2. new \in Staying(f, after) <=> f \in ListFields \/ ~Repeats(after, new)
    BY <1>11, <1>14 DEF Staying
  <2>3. Staying(f, before) \subseteq Given(before) /\ Staying(f, after) \subseteq Given(after)
    BY DEF Staying
  <2>4. new \in Staying(f, after) <=>
            f \in ListFields \/ ~\E p \in Staying(f, before) : StringAt(before, p) = strings[k]
    BY <1>17, <2>2
  <2>5. new \notin Staying(f, before)
    BY <1>15, <2>3
  <2> QED
    BY <1>9, <2>1, <2>3, <2>4, <2>5
<1> QED
  BY <1>1, <1>2, <1>3, <1>4, <1>9, <1>10, <1>11, <1>15, <1>18 DEF Grown

\* What is removed stays no longer.
LEMMA StayingRemove ==
    ASSUME NEW f, NEW calls \in Seq(Call), NEW strings \in Seq(Strings), NEW k \in 0 .. Len(strings)
    PROVE  LET after == With(calls, REMOVE, strings, k)
           IN  Staying(f, after) =
                   {p \in Staying(f, calls) : \A j \in 1 .. k : StringAt(calls, p) # strings[j]}
<1>1. PICK after : after = With(calls, REMOVE, strings, k)
  OBVIOUS
<1>2. PICK C : C = Len(calls) + 1
  OBVIOUS
<1>3. /\ \A p : p \in Given(after) <=> p \in Given(calls) \/ \E j \in 1 .. k : p = <<C, j>>
      /\ \A p \in Given(calls) : StringAt(after, p) = StringAt(calls, p)
  <2>1. MoreCalls(calls, REMOVE, strings, k, after, C)
    BY <1>1, <1>2, WithFacts
  <2> QED
    BY <2>1 DEF MoreCalls
<1>4. REMOVE # ADD
  BY DEF ADD, REMOVE
<1>5. /\ \A p \in Given(calls) :
            Stays(after, p) <=> Stays(calls, p) /\ \A j \in 1 .. k : StringAt(calls, p) # strings[j]
      /\ \A j \in 1 .. k : ~Stays(after, <<C, j>>)
  BY <1>1, <1>2, <1>4, StaysWith
<1>6. ASSUME NEW p \in Given(calls), Stays(after, p)
      PROVE  Repeats(after, p) <=> Repeats(calls, p)
  <2>1. ASSUME NEW q \in Given(calls), StringAt(calls, q) = StringAt(calls, p)
        PROVE  Stays(after, q) <=> Stays(calls, q)
    BY <1>5, <1>6, <2>1
  <2>2. \A q \in Given(after) : Stays(after, q) => q \in Given(calls)
    BY <1>3, <1>5
  <2> QED
    BY <1>3, <2>1, <2>2 DEF Repeats
<1>7. \A p : p \in Staying(f, after) <=>
          p \in Given(calls) /\ Stays(after, p) /\ (f \in ListFields \/ ~Repeats(calls, p))
  BY <1>3, <1>5, <1>6 DEF Staying
<1>8. \A p : p \in Staying(f, calls) <=>
          p \in Given(calls) /\ Stays(calls, p) /\ (f \in ListFields \/ ~Repeats(calls, p))
  BY DEF Staying
<1> QED
  BY <1>1, <1>5, <1>7, <1>8

-----------------------------------------------------------------------------
(***************************************************************************)
(* Arrays that lose or get a string.                                       *)
(***************************************************************************)
LEMMA RemoveAtFacts ==
    ASSUME NEW S, NEW s \in Seq(S), NEW i \in 1 .. Len(s)
    PROVE  /\ RemoveAt(s, i) \in Seq(S)
           /\ Len(s) \in Nat /\ Len(RemoveAt(s, i)) = Len(s) - 1
           /\ \A j \in 1 .. Len(s) - 1 : RemoveAt(s, i)[j] = IF j < i THEN s[j] ELSE s[j + 1]
<1>1. PICK head : head = SubSeq(s, 1, i - 1)
  OBVIOUS
<1>2. PICK tail : tail = SubSeq(s, i + 1, Len(s))
  OBVIOUS
<1>3. Len(s) \in Nat /\ i \in Nat
  OBVIOUS
<1>4. /\ head \in Seq(S) /\ Len(head) = i - 1
      /\ \A j \in 1 .. i - 1 : head[j] = s[j]
  <2>1. \A j \in 1 .. i - 1 : j \in 1 .. Len(s)
    BY <1>3
  <2> QED
    BY <1>1, <1>3, <2>1
<1>5. /\ tail \in Seq(S) /\ Len(tail) = Len(s) - i
      /\ \A j \in 1 .. Len(s) - i : tail[j] = s[i + j]
  <2>1. \A j \in i + 1 .. Len(s) : j \in 1 .. Len(s)
    BY <1>3
  <2>2. tail \in Seq(S) /\ Len(tail) = IF i + 1 <= Len(s) THEN Len(s) - (i + 1) + 1 ELSE 0
    BY <1>2, <1>3, <2>1
  <2>3. \A j \in 1 .. Len(tail) : tail[j] = s[(i + 1) + j - 1]
    BY <1>2, <1>3, <2>1, <2>2
  <2> QED
    BY <1>3, <2>2, <2>3
<1>6. RemoveAt(s, i) = head \o tail
  BY <1>1, <1>2 DEF RemoveAt
<1>7. /\ head \o tail \in Seq(S)
      /\ Len(head \o tail) = Len(s) - 1
      /\ \A j \in 1 .. Len(s) - 1 : (head \o tail)[j] = IF j <= i - 1 THEN head[j] ELSE tail[j - (i - 1)]
  <2>1. /\ head \o tail \in Seq(S)
        /\ Len(head \o tail) = Len(head) + Len(tail)
        /\ \A j \in 1 .. Len(head) + Len(tail) :
              (head \o tail)[j] = IF j <= Len(head) THEN head[j] ELSE tail[j - Len(head)]
    BY <1>4, <1>5, ConcatProperties
  <2>2. Len(head) + Len(tail) = Len(s) - 1
    BY <1>3, <1>4, <1>5
  <2> QED
    BY <1>4, <2>1, <2>2
<1>8. ASSUME NEW j \in 1 .. Len(s) - 1
      PROVE  RemoveAt(s, i)[j] = IF j < i THEN s[j] ELSE s[j + 1]
  <2>1. CASE j < i
    BY <1>3, <1>4, <1>6, <1>7, <2>1
  <2>2. CASE ~(j < i)
    <3>1. ~(j <= i - 1) /\ j - (i - 1) \in 1 .. Len(s) - i /\ i + (j - (i - 1)) = j + 1
      BY <1>3, <2>2
    <3> QED
      BY <1>5, <1>6, <1>7, <2>2, <3>1
  <2> QED
    BY <2>1, <2>2
<1> QED
  BY <1>3, <1>6, <1>7, <1>8

LEMMA CountIsNumber ==
    ASSUME NEW s, Len(s) \in Nat, DOMAIN s = 1 .. Len(s), NEW x
    PROVE  /\ IsFiniteSet({k \in DOMAIN s : s[k] = x})
           /\ CountOf(x, s) \in Nat
<1>1. IsFiniteSet(1 .. Len(s))
  BY FS_Interval
<1>2. {k \in DOMAIN s : s[k] = x} \subseteq 1 .. Len(s)
  OBVIOUS
<1>3. IsFiniteSet({k \in DOMAIN s : s[k] = x})
  BY <1>1, <1>2, FS_Subset
<1> QED
  BY <1>3, FS_CardinalityType DEF CountOf

\* What is at i counts once, the others as they did.
LEMMA CountRemoved ==
    ASSUME NEW S, NEW s \in Seq(S), NEW i \in 1 .. Len(s), NEW x
    PROVE  CountOf(x, s) = CountOf(x, RemoveAt(s, i)) + (IF s[i] = x THEN 1 ELSE 0)
<1>1. PICK t : t = RemoveAt(s, i)
  OBVIOUS
<1>2. PICK A : A = {k \in DOMAIN s : s[k] = x}
  OBVIOUS
<1>3. PICK B : B = {k \in DOMAIN t : t[k] = x}
  OBVIOUS
<1>4. /\ t \in Seq(S) /\ Len(s) \in Nat /\ Len(t) = Len(s) - 1
      /\ \A j \in 1 .. Len(s) - 1 : t[j] = IF j < i THEN s[j] ELSE s[j + 1]
  BY <1>1, RemoveAtFacts
<1>5. DOMAIN s = 1 .. Len(s) /\ DOMAIN t = 1 .. Len(s) - 1 /\ Len(t) \in Nat
  BY <1>4
<1>6. IsFiniteSet(A) /\ IsFiniteSet(B) /\ Cardinality(A) \in Nat /\ Cardinality(B) \in Nat
  BY <1>2, <1>3, <1>4, <1>5, CountIsNumber, FS_CardinalityType
<1>7. PICK move : move = [j \in B |-> IF j < i THEN j ELSE j + 1]
  OBVIOUS
<1>8. move \in Bijection(B, A \ {i})
  <2>1. \A j \in B : j \in 1 .. Len(s) - 1 /\ t[j] = x
    BY <1>3, <1>5
  <2>2. \A j \in B : move[j] \in A \ {i}
    <3>1. ASSUME NEW j \in B
          PROVE  move[j] \in A \ {i}
      <4>1. CASE j < i
        BY <1>2, <1>4, <1>5, <1>7, <2>1, <4>1
      <4>2. CASE ~(j < i)
        BY <1>2, <1>4, <1>5, <1>7, <2>1, <4>2
      <4> QED
        BY <4>1, <4>2
    <3> QED
      BY <3>1
  <2>3. \A j, k \in B : move[j] = move[k] => j = k
    BY <1>7, <2>1
  <2>4. \A m \in A \ {i} : \E j \in B : move[j] = m
    <3>1. ASSUME NEW m \in A \ {i}
          PROVE  \E j \in B : move[j] = m
      <4>1. m \in 1 .. Len(s) /\ s[m] = x /\ m # i
        BY <1>2, <1>5
      <4>2. CASE m < i
        <5>1. m \in 1 .. Len(s) - 1 /\ t[m] = s[m]
          BY <1>4, <4>1, <4>2
        <5>2. m \in B
          BY <1>3, <1>5, <4>1, <5>1
        <5> QED
          BY <1>7, <4>2, <5>2
      <4>3. CASE m > i
        <5>1. m - 1 \in 1 .. Len(s) - 1 /\ ~(m - 1 < i) /\ (m - 1) + 1 = m
          BY <1>4, <4>1, <4>3
        <5>2. m - 1 \in B
          BY <1>3, <1>4, <1>5, <4>1, <5>1
        <5> QED
          BY <1>7, <5>1, <5>2
      <4> QED
        BY <4>1, <4>2, <4>3
    <3> QED
      BY <3>1
  <2>5. move \in [B -> A \ {i}]
    BY <1>7, <2>2
  <2> QED
    BY <2>3, <2>4, <2>5 DEF Bijection, Injection, Surjection, IsInjective
<1>9. Cardinality(A \ {i}) = Cardinality(B)
  BY <1>6, <1>8, FS_Bijection DEF ExistsBijection
<1>10. Cardinality(A \ {i}) = IF i \in A THEN Cardinality(A) - 1 ELSE Cardinality(A)
  BY <1>6, FS_RemoveElement
<1>11. i \in A <=> s[i] = x
  BY <1>2
<1> QED
  BY <1>1, <1>2, <1>3, <1>6, <1>9, <1>10, <1>11 DEF CountOf

LEMMA CountEmpty == \A x : CountOf(x, <<>>) = 0
<1>1. \A x : {k \in DOMAIN <<>> : <<>>[k] = x} = {}
  OBVIOUS
<1> QED
  BY <1>1, FS_EmptySet DEF CountOf

\* Appending is the reverse of removing the last.
LEMMA CountAppended ==
    ASSUME NEW S, NEW s \in Seq(S), NEW e \in S, NEW x
    PROVE  CountOf(x, Append(s, e)) = CountOf(x, s) + (IF e = x THEN 1 ELSE 0)
<1>1. PICK t : t = Append(s, e)
  OBVIOUS
<1>2. t \in Seq(S) /\ Len(t) = Len(s) + 1 /\ t[Len(t)] = e /\ Len(s) \in Nat /\ Len(t) \in 1 .. Len(t)
      /\ \A j \in 1 .. Len(s) : t[j] = s[j]
  BY <1>1
<1>3. PICK u : u = RemoveAt(t, Len(t))
  OBVIOUS
<1>4. /\ u \in Seq(S) /\ Len(u) = Len(s)
      /\ \A j \in 1 .. Len(t) - 1 : u[j] = IF j < Len(t) THEN t[j] ELSE t[j + 1]
  <2>1. PICK i : i = Len(t)
    OBVIOUS
  <2>2. i \in 1 .. Len(t) /\ u = RemoveAt(t, i) /\ t \in Seq(S)
    BY <1>2, <1>3, <2>1
  <2>3. /\ u \in Seq(S) /\ Len(u) = Len(t) - 1
        /\ \A j \in 1 .. Len(t) - 1 : u[j] = IF j < i THEN t[j] ELSE t[j + 1]
    BY <2>2, RemoveAtFacts
  <2> QED
    BY <1>2, <2>1, <2>3
<1>5. \A j \in 1 .. Len(s) : u[j] = s[j]
  BY <1>2, <1>4
<1>6. u = s
  BY <1>4, <1>5, SeqEqual
<1>7. CountOf(x, t) = CountOf(x, u) + (IF t[Len(t)] = x THEN 1 ELSE 0)
  BY <1>2, <1>3, CountRemoved
<1> QED
  BY <1>1, <1>2, <1>6, <1>7

LEMMA CountConcat ==
    ASSUME NEW S, NEW s \in Seq(S), NEW t \in Seq(S), NEW x
    PROVE  CountOf(x, s \o t) = CountOf(x, s) + CountOf(x, t)
<1>1. PICK u : u = s \o t
  OBVIOUS
<1>2. /\ u \in Seq(S) /\ Len(u) = Len(s) + Len(t) /\ Len(s) \in Nat /\ Len(t) \in Nat
      /\ \A j \in 1 .. Len(s) + Len(t) : u[j] = IF j <= Len(s) THEN s[j] ELSE t[j - Len(s)]
  BY <1>1, ConcatProperties, LenProperties
<1>3. DOMAIN u = 1 .. Len(u) /\ DOMAIN s = 1 .. Len(s) /\ DOMAIN t = 1 .. Len(t)
  BY <1>2
<1>4. PICK A : A = {k \in DOMAIN s : s[k] = x}
  OBVIOUS
<1>5. PICK B : B = {k \in DOMAIN t : t[k] = x}
  OBVIOUS
<1>6. PICK C : C = {k \in Len(s) + 1 .. Len(s) + Len(t) : t[k - Len(s)] = x}
  OBVIOUS
<1>7. {k \in DOMAIN u : u[k] = x} = A \cup C
  <2>1. ASSUME NEW k \in DOMAIN u, u[k] = x
        PROVE  k \in A \cup C
    <3>1. CASE k <= Len(s)
      BY <1>2, <1>3, <1>4, <2>1, <3>1
    <3>2. CASE ~(k <= Len(s))
      BY <1>2, <1>3, <1>6, <2>1, <3>2
    <3> QED
      BY <3>1, <3>2
  <2>2. ASSUME NEW k \in A
        PROVE  k \in DOMAIN u /\ u[k] = x
    BY <1>2, <1>3, <1>4
  <2>3. ASSUME NEW k \in C
        PROVE  k \in DOMAIN u /\ u[k] = x
    BY <1>2, <1>3, <1>6
  <2> QED
    BY <2>1, <2>2, <2>3
<1>8. A \cap C = {}
  BY <1>2, <1>3, <1>4, <1>6
<1>9. IsFiniteSet(A) /\ IsFiniteSet(B) /\ Cardinality(A) \in Nat /\ Cardinality(B) \in Nat
  BY <1>2, <1>3, <1>4, <1>5, CountIsNumber, FS_CardinalityType
<1>10. PICK move : move = [j \in B |-> j + Len(s)]
  OBVIOUS
<1>11. move \in Bijection(B, C)
  <2>1. \A j \in B : j \in 1 .. Len(t) /\ t[j] = x
    BY <1>3, <1>5
  <2>2. \A j \in B : move[j] \in C
    <3>1. \A j \in 1 .. Len(t) : (j + Len(s)) - Len(s) = j /\ j + Len(s) \in Len(s) + 1 .. Len(s) + Len(t)
      BY <1>2
    <3> QED
      BY <1>6, <1>10, <2>1, <3>1
  <2>3. \A j, k \in B : move[j] = move[k] => j = k
    BY <1>2, <1>10, <2>1
  <2>4. \A m \in C : m - Len(s) \in B /\ move[m - Len(s)] = m
    <3>1. \A m \in Len(s) + 1 .. Len(s) + Len(t) :
              m - Len(s) \in 1 .. Len(t) /\ (m - Len(s)) + Len(s) = m
      BY <1>2
    <3> QED
      BY <1>3, <1>5, <1>6, <1>10, <3>1
  <2>5. move \in [B -> C]
    BY <1>10, <2>2
  <2> QED
    BY <2>3, <2>4, <2>5 DEF Bijection, Injection, Surjection, IsInjective
<1>12. IsFiniteSet(C) /\ Cardinality(C) = Cardinality(B)
  BY <1>9, <1>11, FS_Bijection DEF ExistsBijection
<1>13. Cardinality(A \cup C) = Cardinality(A) + Cardinality(C) - Cardinality(A \cap C)
  BY <1>9, <1>12, FS_Union
<1>14. Cardinality(A \cap C) = 0
  BY <1>8, FS_EmptySet
<1> QED
  <2>1. CountOf(x, s) = Cardinality(A) /\ CountOf(x, t) = Cardinality(B)
    BY <1>4, <1>5 DEF CountOf
  <2>2. CountOf(x, s \o t) = Cardinality(A \cup C)
    BY <1>1, <1>7 DEF CountOf
  <2> QED
    BY <1>9, <1>12, <1>13, <1>14, <2>1, <2>2

-----------------------------------------------------------------------------
(***************************************************************************)
(* Collections.                                                            *)
(***************************************************************************)
\* The keys of a set are its strings, each there once; a list has none.
KeysOfArray(f, keys, array) ==
    IF f \in ListFields THEN keys = {}
    ELSE /\ keys = {array[j] : j \in 1 .. Len(array)}
         /\ \A j, k \in 1 .. Len(array) : array[j] = array[k] => j = k
KeysFit(f, value) == KeysOfArray(f, value.keys, value.array)

\* The strings of an array come from the places in the calls that `from' tells, in order.
Traced(f, calls, array, from) ==
    /\ from \in [1 .. Len(array) -> Staying(f, calls)]
    /\ \A j, k \in 1 .. Len(array) : j < k => Earlier(from[j], from[k])
    /\ \A k \in 1 .. Len(array) : StringAt(calls, from[k]) = array[k]
    /\ \A p \in Staying(f, calls) : \E k \in 1 .. Len(array) : from[k] = p

IsTraced(f, calls, array) == \E from : Traced(f, calls, array, from)

LEMMA TracedStart ==
    ASSUME NEW f, NEW calls \in Seq(Call), NEW operation \in {ADD, REMOVE}, NEW strings \in Seq(Strings),
           NEW array, IsTraced(f, calls, array)
    PROVE  IsTraced(f, With(calls, operation, strings, 0), array)
<1>1. PICK from : Traced(f, calls, array, from)
  BY DEF IsTraced
<1>2. Staying(f, With(calls, operation, strings, 0)) = Staying(f, calls)
  BY StayingStart
<1>3. \A p \in Given(calls) : StringAt(With(calls, operation, strings, 0), p) = StringAt(calls, p)
  <2>1. MoreCalls(calls, operation, strings, 0, With(calls, operation, strings, 0), Len(calls) + 1)
    <3>1. 0 \in 0 .. Len(strings)
      OBVIOUS
    <3> QED
      BY <3>1, WithFacts
  <2> QED
    BY <2>1 DEF MoreCalls
<1>4. Staying(f, calls) \subseteq Given(calls)
  BY DEF Staying
<1>5. Traced(f, With(calls, operation, strings, 0), array, from)
  BY <1>1, <1>2, <1>3, <1>4 DEF Traced
<1> QED
  BY <1>5 DEF IsTraced

\* What a collection is after the first k strings of a call to add.
Added(f, value, calls, strings, k) ==
    {v \in Value :
        /\ v.set
        /\ KeysFit(f, v)
        /\ Range(v.array) = Range(value.array) \cup {strings[j] : j \in 1 .. k}
        /\ IsTraced(f, With(calls, ADD, strings, k), v.array)}

LEMMA AddTurn ==
    ASSUME NEW f, NEW value, NEW calls \in Seq(Call), NEW strings \in Seq(Strings),
           NEW k \in 1 .. Len(strings), NEW v \in Added(f, value, calls, strings, k - 1)
    PROVE  Receive(f, v, strings[k]) \in Added(f, value, calls, strings, k)
<1>1. PICK before : before = With(calls, ADD, strings, k - 1)
  OBVIOUS
<1>2. PICK after : after = With(calls, ADD, strings, k)
  OBVIOUS
<1>3. PICK new : new = <<Len(calls) + 1, k>>
  OBVIOUS
<1>4. PICK s : s = strings[k]
  OBVIOUS
<1>5. s \in Strings
  BY <1>4
<1>6. /\ v \in Value /\ v.set /\ KeysFit(f, v)
      /\ Range(v.array) = Range(value.array) \cup {strings[j] : j \in 1 .. k - 1}
      /\ IsTraced(f, before, v.array)
  BY <1>1 DEF Added
<1>7. PICK a : a = v.array
  OBVIOUS
<1>8. a \in Seq(Strings) /\ Len(a) \in Nat /\ DOMAIN a = 1 .. Len(a)
  BY <1>6, <1>7 DEF Value
<1>9. PICK from : Traced(f, before, a, from)
  BY <1>6, <1>7 DEF IsTraced
<1>10. /\ Staying(f, after) = Staying(f, before) \cup
                (IF f \in ListFields \/ ~\E p \in Staying(f, before) : StringAt(before, p) = s
                 THEN {new} ELSE {})
       /\ \A p \in Given(before) : p \in Given(after) /\ StringAt(after, p) = StringAt(before, p)
       /\ \A p \in Given(before) : Earlier(p, new) /\ ~Earlier(new, p)
       /\ new \in Given(after) /\ StringAt(after, new) = s
  <2>1. Grown(f, before, after, new, s)
    BY <1>1, <1>2, <1>3, <1>4, StayingAdd
  <2> QED
    BY <2>1 DEF Grown
<1>11. Staying(f, before) \subseteq Given(before)
  BY DEF Staying
<1>12. Range(a) = {a[j] : j \in 1 .. Len(a)}
  BY <1>8 DEF Range
<1>13. (\E p \in Staying(f, before) : StringAt(before, p) = s) <=> s \in Range(a)
  <2>1. /\ \A j \in 1 .. Len(a) : from[j] \in Staying(f, before) /\ StringAt(before, from[j]) = a[j]
        /\ \A p \in Staying(f, before) : \E j \in 1 .. Len(a) : from[j] = p
    BY <1>9 DEF Traced
  <2>2. s \in Range(a) <=> \E j \in 1 .. Len(a) : a[j] = s
    BY <1>12
  <2>3. ASSUME NEW p \in Staying(f, before), StringAt(before, p) = s
        PROVE  \E j \in 1 .. Len(a) : a[j] = s
    <3>1. PICK j \in 1 .. Len(a) : from[j] = p
      BY <2>1
    <3> QED
      BY <2>1, <2>3, <3>1
  <2>4. ASSUME NEW j \in 1 .. Len(a), a[j] = s
        PROVE  \E p \in Staying(f, before) : StringAt(before, p) = s
    BY <2>1, <2>4
  <2> QED
    BY <2>2, <2>3, <2>4
<1>14. {strings[j] : j \in 1 .. k} = {strings[j] : j \in 1 .. k - 1} \cup {s}
  <2>1. \A j : j \in 1 .. k <=> j \in 1 .. k - 1 \/ j = k
    OBVIOUS
  <2> QED
    BY <1>4, <2>1
<1>15. f \notin ListFields => (s \in v.keys <=> s \in Range(a))
  BY <1>6, <1>7, <1>12 DEF KeysFit, KeysOfArray
<1>16. CASE f \notin ListFields /\ s \in v.keys
  <2>1. Receive(f, v, s) = v
    BY <1>16 DEF Receive, AppendToSet
  <2>2. Staying(f, after) = Staying(f, before)
    BY <1>10, <1>13, <1>15, <1>16
  <2>3. Traced(f, after, a, from)
    BY <1>9, <1>10, <1>11, <2>2 DEF Traced
  <2>4. Range(v.array) = Range(value.array) \cup {strings[j] : j \in 1 .. k}
    BY <1>6, <1>7, <1>14, <1>15, <1>16
  <2> QED
    BY <1>2, <1>4, <1>6, <1>7, <2>1, <2>3, <2>4 DEF Added, IsTraced
<1>17. CASE f \in ListFields \/ s \notin v.keys
  <2>1. PICK w : w = Receive(f, v, s)
    OBVIOUS
  <2>2. PICK b : b = Append(a, s)
    OBVIOUS
  <2>3. /\ b \in Seq(Strings) /\ Len(b) = Len(a) + 1 /\ DOMAIN b = 1 .. Len(b)
        /\ \A j \in 1 .. Len(a) : b[j] = a[j]
        /\ b[Len(a) + 1] = s
    BY <1>5, <1>8, <2>2
  <2>4. \A j : j \in 1 .. Len(b) <=> j \in 1 .. Len(a) \/ j = Len(a) + 1
    BY <1>8, <2>3
  <2>5. /\ w \in Value /\ w.set = v.set /\ w.array = b
        /\ w.keys = IF f \in ListFields THEN v.keys ELSE v.keys \cup {s}
    <3>1. CASE f \in ListFields
      BY <1>5, <1>6, <1>7, <2>1, <2>2, <2>3, <3>1 DEF Receive, Insert, Value
    <3>2. CASE f \notin ListFields
      BY <1>5, <1>6, <1>7, <1>17, <2>1, <2>2, <2>3, <3>2 DEF Receive, Insert, AppendToSet, Value
    <3> QED
      BY <3>1, <3>2
  <2>6. Range(b) = Range(a) \cup {s}
    BY <1>12, <2>3, <2>4 DEF Range
  <2>7. KeysFit(f, w)
    <3>1. CASE f \in ListFields
      BY <1>6, <2>5, <3>1 DEF KeysFit, KeysOfArray
    <3>2. CASE f \notin ListFields
      <4>1. /\ v.keys = {a[j] : j \in 1 .. Len(a)}
            /\ \A i, j \in 1 .. Len(a) : a[i] = a[j] => i = j
        BY <1>6, <1>7, <3>2 DEF KeysFit, KeysOfArray
      <4>2. \A j \in 1 .. Len(a) : a[j] # s
        BY <1>17, <3>2, <4>1
      <4>3. \A i, j \in 1 .. Len(b) : b[i] = b[j] => i = j
        BY <2>3, <2>4, <4>1, <4>2
      <4>4. w.keys = {b[j] : j \in 1 .. Len(b)}
        <5>1. w.keys = v.keys \cup {s}
          BY <2>5, <3>2
        <5>2. \A j \in 1 .. Len(b) : b[j] \in v.keys \cup {s}
          BY <2>3, <2>4, <4>1
        <5>3. \A x \in v.keys : \E j \in 1 .. Len(b) : b[j] = x
          BY <2>3, <2>4, <4>1
        <5>4. \E j \in 1 .. Len(b) : b[j] = s
          BY <2>3, <2>4
        <5> QED
          BY <5>1, <5>2, <5>3, <5>4
      <4>5. KeysOfArray(f, w.keys, b)
        BY <3>2, <4>3, <4>4 DEF KeysOfArray
      <4> QED
        BY <2>5, <4>5 DEF KeysFit
    <3> QED
      BY <3>1, <3>2
  <2>8. Staying(f, after) = Staying(f, before) \cup {new}
    BY <1>10, <1>13, <1>15, <1>17
  <2>9. PICK more : more = [j \in 1 .. Len(b) |-> IF j = Len(a) + 1 THEN new ELSE from[j]]
    OBVIOUS
  <2>10. /\ \A j \in 1 .. Len(a) : more[j] = from[j] /\ from[j] \in Staying(f, before)
         /\ more[Len(a) + 1] = new
    BY <1>8, <1>9, <2>3, <2>4, <2>9 DEF Traced
  <2>11. Traced(f, after, b, more)
    <3>1. more \in [1 .. Len(b) -> Staying(f, after)]
      BY <2>4, <2>8, <2>9, <2>10
    <3>2. ASSUME NEW i \in 1 .. Len(b), NEW j \in 1 .. Len(b), i < j
          PROVE  Earlier(more[i], more[j])
      <4>1. i \in 1 .. Len(a)
        BY <1>8, <2>3, <3>2
      <4>2. CASE j = Len(a) + 1
        BY <1>10, <1>11, <2>10, <4>1, <4>2
      <4>3. CASE j \in 1 .. Len(a)
        BY <1>9, <2>10, <3>2, <4>1, <4>3 DEF Traced
      <4> QED
        BY <2>4, <4>2, <4>3
    <3>3. ASSUME NEW j \in 1 .. Len(b)
          PROVE  StringAt(after, more[j]) = b[j]
      <4>1. CASE j = Len(a) + 1
        BY <1>10, <2>3, <2>10, <4>1
      <4>2. CASE j \in 1 .. Len(a)
        BY <1>9, <1>10, <1>11, <2>3, <2>10, <4>2 DEF Traced
      <4> QED
        BY <2>4, <4>1, <4>2
    <3>4. ASSUME NEW p \in Staying(f, after)
          PROVE  \E j \in 1 .. Len(b) : more[j] = p
      BY <1>9, <2>4, <2>8, <2>10 DEF Traced
    <3> QED
      BY <3>1, <3>2, <3>3, <3>4 DEF Traced
  <2>12. Range(w.array) = Range(value.array) \cup {strings[j] : j \in 1 .. k}
    BY <1>6, <1>7, <1>14, <2>5, <2>6
  <2> QED
    BY <1>2, <1>4, <1>6, <2>1, <2>5, <2>7, <2>11, <2>12 DEF Added, IsTraced
<1> QED
  BY <1>16, <1>17

-----------------------------------------------------------------------------
(***************************************************************************)
(* Removing one pattern from a collection.                                 *)
(***************************************************************************)
Loop == [i : Nat, left : Value, gone : Seq(Strings)]

LEMMA TurnsIsChosen ==
    ASSUME NEW f, NEW value, NEW pattern
    PROVE  RemoveTurns(f, value, pattern) =
               CHOOSE g : g = [n \in 0 .. Len(value.array) |->
                                  IF n = 0 THEN [i |-> 1, left |-> OrEmpty(value), gone |-> <<>>]
                                  ELSE RemoveTurn(f, pattern, g[n - 1])]
  BY DEF RemoveTurns

\* A property that each turn of the loop of remove() keeps holds after the loop.
LEMMA RemoveLoop ==
    ASSUME NEW f, NEW value, NEW pattern, Len(value.array) \in Nat, NEW holds,
           [i |-> 1, left |-> OrEmpty(value), gone |-> <<>>] \in holds[0],
           \A k \in 1 .. Len(value.array) : \A x \in holds[k - 1] : RemoveTurn(f, pattern, x) \in holds[k]
    PROVE  RemoveTurns(f, value, pattern)[Len(value.array)] \in holds[Len(value.array)]
<1>1. PICK n : n = Len(value.array)
  OBVIOUS
<1>2. PICK base : base = [i |-> 1, left |-> OrEmpty(value), gone |-> <<>>]
  OBVIOUS
<1>3. PICK S : S = UNION {holds[k] : k \in 0 .. n}
  OBVIOUS
<1>4. PICK step : step = [p \in S \X (1 .. n) |-> RemoveTurn(f, pattern, p[1])]
  OBVIOUS
<1>5. \A k \in 1 .. n : \A x \in holds[k - 1] : step[<<x, k>>] = RemoveTurn(f, pattern, x)
  <2>1. \A k \in 1 .. n : k - 1 \in 0 .. n
    BY <1>1
  <2>2. \A k \in 1 .. n : \A x \in holds[k - 1] : x \in S
    BY <1>3, <2>1
  <2> QED
    BY <1>4, <2>2
<1>6. PICK g : /\ g = [k \in 0 .. n |-> IF k = 0 THEN base ELSE step[<<g[k - 1], k>>]]
              /\ \A k \in 0 .. n : g[k] \in holds[k]
  <2>1. n \in Nat /\ base \in holds[0]
    BY <1>1, <1>2
  <2>2. Kept(holds, step, n)
    BY <1>1, <1>5 DEF Kept
  <2> QED
    BY <2>1, <2>2, LoopExists
<1> DEFINE Is(h) == h = [k \in 0 .. n |-> IF k = 0 THEN base ELSE RemoveTurn(f, pattern, h[k - 1])]
<1>7. Is(g)
  <2>1. \A k \in 0 .. n : k # 0 => k \in 1 .. n /\ k - 1 \in 0 .. n
    BY <1>1
  <2>2. \A k \in 0 .. n : k # 0 => step[<<g[k - 1], k>>] = RemoveTurn(f, pattern, g[k - 1])
    BY <1>5, <1>6, <2>1
  <2> QED
    BY <1>6, <2>2
<1>8. PICK h : h = CHOOSE e : Is(e)
  OBVIOUS
<1>9. Is(h)
  <2> HIDE DEF Is
  <2> QED
    BY <1>7, <1>8
<1>10. h = RemoveTurns(f, value, pattern)
  BY <1>1, <1>2, <1>8, TurnsIsChosen
<1> DEFINE T == {k \in 0 .. n : h[k] \in holds[k]}
<1>11. 0 \in T
  BY <1>1, <1>2, <1>9
<1>12. ASSUME NEW k \in 1 .. n, k - 1 \in T
       PROVE  k \in T
  <2>1. h[k] = RemoveTurn(f, pattern, h[k - 1])
    BY <1>1, <1>9
  <2> QED
    BY <1>1, <1>12, <2>1
<1>13. 0 .. n \subseteq T
  <2> HIDE DEF T
  <2> QED
    BY <1>1, <1>11, <1>12, LoopInduction
<1> QED
  BY <1>1, <1>10, <1>13

\* `chosen' tells where the strings of b stood in a, after n turns of the loop, the index being i.
Chosen(a, pattern, n, i, b, chosen) ==
    /\ chosen \in [1 .. Len(b) -> 1 .. Len(a)]
    /\ \A j, k \in 1 .. Len(b) : j < k => chosen[j] < chosen[k]
    /\ \A j \in 1 .. Len(b) : b[j] = a[chosen[j]]
    /\ \A j \in 1 .. i - 1 : b[j] # pattern
    /\ \A j \in i .. Len(b) : chosen[j] = (j - i) + n + 1
    /\ \A m \in 1 .. Len(a) : m > n \/ a[m] # pattern => \E j \in 1 .. Len(b) : chosen[j] = m

\* What the loop is after n turns.
Turned(f, a, pattern, n) ==
    {x \in Loop :
        /\ x.left.set
        /\ KeysFit(f, x.left)
        /\ x.i \in 1 .. n + 1
        /\ Len(x.left.array) = (x.i - 1) + (Len(a) - n)
        /\ \E chosen : Chosen(a, pattern, n, x.i, x.left.array, chosen)
        /\ \A s : CountOf(s, a) = CountOf(s, x.left.array) + CountOf(s, x.gone)}

LEMMA KeysWithout ==
    ASSUME NEW f, NEW keys, NEW array \in Seq(Strings), NEW i \in 1 .. Len(array),
           KeysOfArray(f, keys, array)
    PROVE  KeysOfArray(f, keys \ {array[i]}, RemoveAt(array, i))
<1>1. PICK b : b = RemoveAt(array, i)
  OBVIOUS
<1>2. /\ b \in Seq(Strings) /\ Len(array) \in Nat /\ Len(b) = Len(array) - 1
      /\ \A j \in 1 .. Len(array) - 1 : b[j] = IF j < i THEN array[j] ELSE array[j + 1]
  BY <1>1, RemoveAtFacts
<1>3. CASE f \in ListFields
  BY <1>3 DEF KeysOfArray
<1>4. CASE f \notin ListFields
  <2>1. /\ keys = {array[j] : j \in 1 .. Len(array)}
        /\ \A j, k \in 1 .. Len(array) : array[j] = array[k] => j = k
    BY <1>4 DEF KeysOfArray
  <2>2. \A j \in 1 .. Len(b) : \E m \in 1 .. Len(array) : m # i /\ b[j] = array[m]
                                /\ m = IF j < i THEN j ELSE j + 1
    <3>1. ASSUME NEW j \in 1 .. Len(b)
          PROVE  \E m \in 1 .. Len(array) : m # i /\ b[j] = array[m] /\ m = IF j < i THEN j ELSE j + 1
      <4>1. j \in 1 .. Len(array) - 1 /\ j \in 1 .. Len(array) /\ j + 1 \in 1 .. Len(array)
        BY <1>2
      <4>2. CASE j < i
        BY <1>2, <4>1, <4>2
      <4>3. CASE ~(j < i)
        <5>1. j + 1 # i /\ b[j] = array[j + 1]
          BY <1>2, <4>1, <4>3
        <5> QED
          BY <4>1, <4>3, <5>1
      <4> QED
        BY <4>2, <4>3
    <3> QED
      BY <3>1
  <2>3. \A m \in 1 .. Len(array) : m # i => \E j \in 1 .. Len(b) : b[j] = array[m]
    <3>1. ASSUME NEW m \in 1 .. Len(array), m # i
          PROVE  \E j \in 1 .. Len(b) : b[j] = array[m]
      <4>1. CASE m < i
        <5>1. m \in 1 .. Len(b) /\ b[m] = array[m]
          BY <1>2, <4>1
        <5> QED
          BY <5>1
      <4>2. CASE m > i
        <5>1. m - 1 \in 1 .. Len(b) /\ ~(m - 1 < i) /\ (m - 1) + 1 = m
          BY <1>2, <4>2
        <5>2. b[m - 1] = array[m]
          BY <1>2, <5>1
        <5> QED
          BY <5>1, <5>2
      <4> QED
        BY <1>2, <3>1, <4>1, <4>2
    <3> QED
      BY <3>1
  <2>4. \A x : x \in keys \ {array[i]} => \E j \in 1 .. Len(b) : b[j] = x
    BY <2>1, <2>3
  <2>5. \A j \in 1 .. Len(b) : b[j] \in keys \ {array[i]}
    BY <2>1, <2>2
  <2>6. keys \ {array[i]} = {b[j] : j \in 1 .. Len(b)}
    BY <2>4, <2>5
  <2>7. ASSUME NEW j \in 1 .. Len(b), NEW k \in 1 .. Len(b), b[j] = b[k]
        PROVE  j = k
    <3>1. PICK m \in 1 .. Len(array) : b[j] = array[m] /\ m = IF j < i THEN j ELSE j + 1
      BY <2>2
    <3>2. PICK l \in 1 .. Len(array) : b[k] = array[l] /\ l = IF k < i THEN k ELSE k + 1
      BY <2>2
    <3>3. m = l
      BY <2>1, <2>7, <3>1, <3>2
    <3>4. j \in Nat /\ k \in Nat /\ i \in Nat
      BY <1>2
    <3> QED
      BY <3>1, <3>2, <3>3, <3>4
  <2> QED
    BY <1>1, <1>4, <2>6, <2>7 DEF KeysOfArray
<1> QED
  BY <1>3, <1>4

LEMMA OrEmptyFacts ==
    ASSUME NEW value \in Value
    PROVE  /\ OrEmpty(value) \in Value /\ OrEmpty(value).set
           /\ OrEmpty(value).array = value.array /\ OrEmpty(value).keys = value.keys
<1>1. OrEmpty(value).array = value.array /\ OrEmpty(value).keys = value.keys
  BY DEF OrEmpty, Value
<1>2. OrEmpty(value).set = TRUE
  BY DEF OrEmpty, Value
<1>3. OrEmpty(value) \in Value
  BY DEF OrEmpty, Value
<1> QED
  BY <1>1, <1>2, <1>3

LEMMA TurnedStart ==
    ASSUME NEW f, NEW value \in Value, NEW pattern, KeysFit(f, value)
    PROVE  [i |-> 1, left |-> OrEmpty(value), gone |-> <<>>] \in Turned(f, value.array, pattern, 0)
<1>1. PICK base : base = [i |-> 1, left |-> OrEmpty(value), gone |-> <<>>]
  OBVIOUS
<1>2. /\ base.left \in Value /\ base.left.set /\ base.left.array = value.array
      /\ base.left.keys = value.keys /\ base.i = 1 /\ base.gone = <<>> /\ base \in Loop
  <2>1. PICK left : left = OrEmpty(value)
    OBVIOUS
  <2>2. /\ left \in Value /\ left.set /\ left.array = value.array /\ left.keys = value.keys
    BY <2>1, OrEmptyFacts
  <2>3. base.left = left /\ base.i = 1 /\ base.gone = <<>>
    BY <1>1, <2>1
  <2>4. <<>> \in Seq(Strings) /\ 1 \in Nat
    OBVIOUS
  <2>5. base \in Loop
    BY <1>1, <2>1, <2>2, <2>4 DEF Loop
  <2> QED
    BY <2>2, <2>3, <2>5
<1>3. value.array \in Seq(Strings) /\ Len(value.array) \in Nat /\ DOMAIN value.array = 1 .. Len(value.array)
  BY DEF Value
<1>4. PICK chosen : chosen = [j \in 1 .. Len(value.array) |-> j]
  OBVIOUS
<1>5. Chosen(value.array, pattern, 0, 1, value.array, chosen)
  <2>1. chosen \in [1 .. Len(value.array) -> 1 .. Len(value.array)]
    BY <1>4
  <2>2. \A j \in 1 .. Len(value.array) : chosen[j] = j
    BY <1>4
  <2>3. 1 .. 1 - 1 = {}
    OBVIOUS
  <2>4. \A j \in 1 .. Len(value.array) : j = (j - 1) + 0 + 1
    BY <1>3
  <2> QED
    BY <2>1, <2>2, <2>3, <2>4 DEF Chosen
<1>6. \A s : CountOf(s, value.array) = CountOf(s, value.array) + CountOf(s, <<>>)
  <2>1. \A s : CountOf(s, value.array) \in Nat
    BY <1>3, CountIsNumber
  <2> QED
    BY <2>1, CountEmpty
<1>7. KeysFit(f, base.left)
  BY <1>2 DEF KeysFit
<1>8. base.i \in 1 .. 0 + 1 /\ Len(base.left.array) = (base.i - 1) + (Len(value.array) - 0)
  BY <1>2, <1>3
<1> QED
  BY <1>1, <1>2, <1>5, <1>6, <1>7, <1>8 DEF Turned

IsTakenOut(y, x, v, g) == y = [x EXCEPT !.left = v, !.gone = g]
LEMMA TakenOut ==
    ASSUME NEW x \in Loop, NEW v \in Value, NEW g \in Seq(Strings), NEW y, IsTakenOut(y, x, v, g)
    PROVE  y \in Loop /\ y.left = v /\ y.gone = g /\ y.i = x.i
  BY DEF Loop, IsTakenOut

LEMMA GonePast ==
    ASSUME NEW x \in Loop, NEW i \in Nat, NEW y, y = [x EXCEPT !.i = i]
    PROVE  y \in Loop /\ y.left = x.left /\ y.gone = x.gone /\ y.i = i
  BY DEF Loop

LEMMA TurnKeeps ==
    ASSUME NEW f, NEW a \in Seq(Strings), NEW pattern \in Strings, NEW n \in 1 .. Len(a),
           NEW x \in Turned(f, a, pattern, n - 1)
    PROVE  RemoveTurn(f, pattern, x) \in Turned(f, a, pattern, n)
<1>1. PICK v : v = x.left
  OBVIOUS
<1>2. PICK b : b = v.array
  OBVIOUS
<1>3. PICK i : i = x.i
  OBVIOUS
<1>4. /\ x \in Loop /\ v.set /\ KeysFit(f, v) /\ i \in 1 .. (n - 1) + 1
      /\ Len(b) = (i - 1) + (Len(a) - (n - 1))
      /\ \A s : CountOf(s, a) = CountOf(s, b) + CountOf(s, x.gone)
  BY <1>1, <1>2, <1>3 DEF Turned
<1>5. PICK chosen : Chosen(a, pattern, n - 1, i, b, chosen)
  BY <1>1, <1>2, <1>3 DEF Turned
<1>6. /\ v \in Value /\ b \in Seq(Strings) /\ Len(b) \in Nat /\ Len(a) \in Nat /\ i \in Nat /\ n \in Nat
      /\ DOMAIN b = 1 .. Len(b) /\ x.gone \in Seq(Strings)
  BY <1>1, <1>2, <1>3, <1>4 DEF Loop, Value
<1>7. i \in 1 .. n /\ i \in 1 .. Len(b) /\ n \in 1 .. Len(a)
  BY <1>4, <1>6
<1>8. chosen[i] = n
  <2>1. i \in i .. Len(b) /\ (i - i) + (n - 1) + 1 = n
    BY <1>6, <1>7
  <2> QED
    BY <1>5, <2>1 DEF Chosen
<1>9. b[i] = a[n]
  BY <1>5, <1>7, <1>8 DEF Chosen
<1>10. PICK y : y = RemoveTurn(f, pattern, x)
  OBVIOUS
<1>11. CASE b[i] = pattern
  <2>1. PICK c : c = RemoveAt(b, i)
    OBVIOUS
  <2>2. /\ c \in Seq(Strings) /\ Len(c) = Len(b) - 1
        /\ \A j \in 1 .. Len(b) - 1 : c[j] = IF j < i THEN b[j] ELSE b[j + 1]
    BY <1>6, <1>7, <2>1, RemoveAtFacts
  <2>3. PICK w : w = RemoveIndex(f, v, i)
    OBVIOUS
  <2>4. /\ w \in Value /\ w.array = c /\ w.keys = v.keys \ {b[i]}
        /\ w.set = v.set
    BY <1>2, <1>6, <2>1, <2>2, <2>3 DEF RemoveIndex, Value
  <2>5. /\ y = [x EXCEPT !.left = w, !.gone = Append(@, pattern)]
    BY <1>1, <1>2, <1>3, <1>10, <1>11, <2>3 DEF RemoveTurn
  <2>6. y \in Loop /\ y.left = w /\ y.i = i /\ y.gone = Append(x.gone, pattern)
    <3>1. PICK g : g = Append(x.gone, pattern)
      OBVIOUS
    <3>2. g \in Seq(Strings)
      BY <1>6, <3>1
    <3>3. y = [x EXCEPT !.left = w, !.gone = g]
      BY <2>5, <3>1
    <3>4. x \in Loop /\ w \in Value
      BY <1>4, <2>4
    <3> QED
      <4>1. y \in Loop /\ y.left = w /\ y.gone = g /\ y.i = x.i
        <5>1. IsTakenOut(y, x, w, g)
          BY <3>3 DEF IsTakenOut
        <5> QED
          BY <3>2, <3>4, <5>1, TakenOut
      <4> QED
        BY <1>3, <3>1, <4>1
  <2>7. KeysFit(f, w)
    <3>1. KeysOfArray(f, v.keys, b)
      BY <1>2, <1>4 DEF KeysFit
    <3>2. KeysOfArray(f, v.keys \ {b[i]}, c)
      BY <1>6, <1>7, <2>1, <3>1, KeysWithout
    <3> QED
      BY <2>4, <3>2 DEF KeysFit
  <2>8. i \in 1 .. n + 1 /\ Len(c) = (i - 1) + (Len(a) - n)
    BY <1>4, <1>6, <1>7, <2>2
  <2>9. \A s : CountOf(s, a) = CountOf(s, c) + CountOf(s, Append(x.gone, pattern))
    <3>1. ASSUME NEW s
          PROVE  CountOf(s, a) = CountOf(s, c) + CountOf(s, Append(x.gone, pattern))
      <4>1. CountOf(s, b) = CountOf(s, c) + (IF b[i] = s THEN 1 ELSE 0)
        BY <1>6, <1>7, <2>1, CountRemoved
      <4>2. CountOf(s, Append(x.gone, pattern)) = CountOf(s, x.gone) + (IF pattern = s THEN 1 ELSE 0)
        BY <1>6, CountAppended
      <4>3. CountOf(s, c) \in Nat /\ CountOf(s, x.gone) \in Nat
        <5>1. Len(c) \in Nat /\ DOMAIN c = 1 .. Len(c)
          BY <2>2
        <5>2. Len(x.gone) \in Nat /\ DOMAIN x.gone = 1 .. Len(x.gone)
          BY <1>6
        <5> QED
          BY <5>1, <5>2, CountIsNumber
      <4> QED
        BY <1>4, <1>11, <4>1, <4>2, <4>3
    <3> QED
      BY <3>1
  <2>10. PICK fewer : fewer = [j \in 1 .. Len(c) |-> IF j < i THEN chosen[j] ELSE chosen[j + 1]]
    OBVIOUS
  <2>11. \A j \in 1 .. Len(c) :
             /\ j \in 1 .. Len(b) /\ j + 1 \in 1 .. Len(b) /\ j \in 1 .. Len(b) - 1
             /\ fewer[j] = IF j < i THEN chosen[j] ELSE chosen[j + 1]
    BY <1>6, <2>2, <2>10
  <2>12. Chosen(a, pattern, n, i, c, fewer)
    <3>1. fewer \in [1 .. Len(c) -> 1 .. Len(a)]
      BY <1>5, <2>10, <2>11 DEF Chosen
    <3>2. ASSUME NEW j \in 1 .. Len(c), NEW k \in 1 .. Len(c), j < k
          PROVE  fewer[j] < fewer[k]
      <4>1. j + 1 < k + 1 /\ j < k + 1
        BY <3>2
      <4>2. CASE j < i /\ k < i
        BY <1>5, <2>11, <3>2, <4>2 DEF Chosen
      <4>3. CASE j < i /\ ~(k < i)
        BY <1>5, <2>11, <4>1, <4>3 DEF Chosen
      <4>4. CASE ~(j < i)
        <5>1. ~(k < i)
          BY <1>6, <3>2, <4>4
        <5> QED
          BY <1>5, <2>11, <4>1, <4>4, <5>1 DEF Chosen
      <4> QED
        BY <4>2, <4>3, <4>4
    <3>3. \A j \in 1 .. Len(c) : c[j] = a[fewer[j]]
      <4>1. \A j \in 1 .. Len(c) : c[j] = IF j < i THEN b[j] ELSE b[j + 1]
        BY <2>2, <2>11
      <4>2. \A j \in 1 .. Len(b) : b[j] = a[chosen[j]]
        BY <1>5 DEF Chosen
      <4> QED
        BY <2>11, <4>1, <4>2
    <3>4. \A j \in 1 .. i - 1 : c[j] # pattern
      <4>1. \A j \in 1 .. i - 1 : j < i /\ j \in 1 .. Len(b) - 1
        BY <1>6, <1>7
      <4> QED
        BY <1>5, <2>2, <4>1 DEF Chosen
    <3>5. \A j \in i .. Len(c) : fewer[j] = (j - i) + n + 1
      <4>1. \A j \in i .. Len(c) : /\ j \in 1 .. Len(c) /\ ~(j < i) /\ j + 1 \in i .. Len(b)
                                   /\ ((j + 1) - i) + (n - 1) + 1 = (j - i) + n + 1
        BY <1>6, <1>7, <2>2
      <4> QED
        BY <1>5, <2>11, <4>1 DEF Chosen
    <3>6. ASSUME NEW m \in 1 .. Len(a), m > n \/ a[m] # pattern
          PROVE  \E j \in 1 .. Len(c) : fewer[j] = m
      <4>1. m > n - 1 \/ a[m] # pattern
        BY <1>6, <3>6
      <4>2. PICK k \in 1 .. Len(b) : chosen[k] = m
        BY <1>5, <4>1 DEF Chosen
      <4>3. m # n
        <5>1. ~(n > n) /\ a[n] = pattern
          BY <1>6, <1>9, <1>11
        <5> QED
          BY <3>6, <5>1
      <4>4. k # i
        BY <1>8, <4>2, <4>3
      <4>5. CASE k < i
        <5>1. k \in 1 .. Len(c)
          BY <1>6, <1>7, <2>2, <4>5
        <5> QED
          BY <2>11, <4>2, <4>5, <5>1
      <4>6. CASE k > i
        <5>1. k - 1 \in 1 .. Len(c) /\ ~(k - 1 < i) /\ (k - 1) + 1 = k
          BY <1>6, <1>7, <2>2, <4>6
        <5> QED
          BY <2>11, <4>2, <5>1
      <4> QED
        BY <1>6, <4>4, <4>5, <4>6
    <3> QED
      BY <3>1, <3>2, <3>3, <3>4, <3>5, <3>6 DEF Chosen
  <2> QED
    BY <1>4, <1>10, <2>4, <2>6, <2>7, <2>8, <2>9, <2>12 DEF Turned
<1>12. CASE b[i] # pattern
  <2>1. y = [x EXCEPT !.i = @ + 1]
    BY <1>1, <1>2, <1>3, <1>10, <1>12 DEF RemoveTurn
  <2>2. y \in Loop /\ y.left = v /\ y.i = i + 1 /\ y.gone = x.gone
    <3>1. y = [x EXCEPT !.i = i + 1]
      BY <1>3, <2>1
    <3>2. x \in Loop /\ i + 1 \in Nat
      BY <1>4, <1>6
    <3>3. x.left \in Value /\ x.gone \in Seq(Strings)
      BY <3>2 DEF Loop
    <3> QED
      BY <1>1, <3>1, <3>2, <3>3, GonePast
  <2>3. i + 1 \in 1 .. n + 1 /\ Len(b) = ((i + 1) - 1) + (Len(a) - n)
    BY <1>4, <1>6, <1>7
  <2>4. Chosen(a, pattern, n, i + 1, b, chosen)
    <3>1. \A j \in 1 .. (i + 1) - 1 : b[j] # pattern
      <4>1. \A j \in 1 .. (i + 1) - 1 : j = i \/ j \in 1 .. i - 1
        BY <1>6
      <4> QED
        BY <1>5, <1>12, <4>1 DEF Chosen
    <3>2. \A j \in i + 1 .. Len(b) : chosen[j] = (j - (i + 1)) + n + 1
      <4>1. \A j \in i + 1 .. Len(b) : j \in i .. Len(b) /\ (j - i) + (n - 1) + 1 = (j - (i + 1)) + n + 1
        BY <1>6
      <4> QED
        BY <1>5, <4>1 DEF Chosen
    <3>3. \A m \in 1 .. Len(a) : m > n \/ a[m] # pattern => \E j \in 1 .. Len(b) : chosen[j] = m
      <4>1. \A m \in 1 .. Len(a) : m > n => m > n - 1
        BY <1>6
      <4> QED
        BY <1>5, <4>1 DEF Chosen
    <3> QED
      BY <1>5, <3>1, <3>2, <3>3 DEF Chosen
  <2> QED
    BY <1>2, <1>4, <1>10, <2>2, <2>3, <2>4 DEF Turned
<1> QED
  BY <1>11, <1>12

\* What is left of a collection when a pattern was removed, and what was taken out.
TakesOut(f, value, pattern, now) ==
    LET a == value.array
        b == now.left.array
    IN  /\ now.left \in Value /\ now.left.set /\ KeysFit(f, now.left)
        /\ now.gone \in Seq(Strings)
        /\ \A s : CountOf(s, a) = CountOf(s, b) + CountOf(s, now.gone)
        /\ \E chosen : /\ Chosen(a, pattern, Len(a), Len(b) + 1, b, chosen)
                       /\ \A j \in 1 .. Len(b) : b[j] # pattern

LEMMA RemoveOneOfCollection ==
    ASSUME NEW f, f \notin StringFields, NEW value \in Value, KeysFit(f, value), NEW pattern \in Strings
    PROVE  TakesOut(f, value, pattern, RemoveOne(f, value, pattern))
<1>1. PICK a : a = value.array
  OBVIOUS
<1>2. a \in Seq(Strings) /\ Len(a) \in Nat
  BY <1>1 DEF Value
<1>3. PICK holds : holds = [n \in 0 .. Len(a) |-> Turned(f, a, pattern, n)]
  OBVIOUS
<1>4. [i |-> 1, left |-> OrEmpty(value), gone |-> <<>>] \in holds[0]
  BY <1>1, <1>2, <1>3, TurnedStart
<1>5. \A k \in 1 .. Len(a) : \A x \in holds[k - 1] : RemoveTurn(f, pattern, x) \in holds[k]
  <2>1. \A k \in 1 .. Len(a) : holds[k] = Turned(f, a, pattern, k) /\ holds[k - 1] = Turned(f, a, pattern, k - 1)
    BY <1>2, <1>3
  <2> QED
    BY <1>2, <2>1, TurnKeeps
<1>6. PICK x : x = RemoveTurns(f, value, pattern)[Len(a)]
  OBVIOUS
<1>7. x \in holds[Len(a)]
  BY <1>1, <1>2, <1>4, <1>5, <1>6, RemoveLoop
<1>8. x \in Turned(f, a, pattern, Len(a))
  BY <1>2, <1>3, <1>7
<1>9. PICK now : now = RemoveOne(f, value, pattern)
  OBVIOUS
<1>10. now = [left |-> x.left, gone |-> x.gone]
  BY <1>1, <1>6, <1>9 DEF RemoveOne
<1>11. PICK b : b = x.left.array
  OBVIOUS
<1>12. PICK chosen : Chosen(a, pattern, Len(a), x.i, b, chosen)
  BY <1>8, <1>11 DEF Turned
<1>13. /\ x \in Loop /\ x.left.set /\ KeysFit(f, x.left) /\ x.i \in 1 .. Len(a) + 1
       /\ Len(b) = (x.i - 1) + (Len(a) - Len(a))
       /\ \A s : CountOf(s, a) = CountOf(s, b) + CountOf(s, x.gone)
  BY <1>8, <1>11 DEF Turned
<1>14. x.i = Len(b) + 1 /\ Len(b) = x.i - 1
  BY <1>2, <1>13
<1>15. \A j \in 1 .. Len(b) : b[j] # pattern
  BY <1>12, <1>14 DEF Chosen
<1>16. x.left \in Value /\ x.gone \in Seq(Strings)
  BY <1>13 DEF Loop
<1>17. now.left = x.left /\ now.gone = x.gone
  BY <1>10
<1> QED
  BY <1>1, <1>9, <1>11, <1>12, <1>13, <1>14, <1>15, <1>16, <1>17 DEF TakesOut

-----------------------------------------------------------------------------
(***************************************************************************)
(* Removing patterns one after the other.                                  *)
(***************************************************************************)
LEMMA RemovedIsChosen ==
    ASSUME NEW f, NEW value, NEW patterns
    PROVE  RemovedEach(f, value, patterns) =
               CHOOSE g : g = [n \in 0 .. Len(patterns) |->
                                  IF n = 0 THEN [left |-> value, gone |-> <<>>]
                                  ELSE RemoveEach(f, g[n - 1], patterns[n])]
  BY DEF RemovedEach

\* A property that each turn of Field.removeValues() keeps holds after it.
LEMMA RemoveAllLoop ==
    ASSUME NEW f, NEW value, NEW patterns, Len(patterns) \in Nat, NEW holds,
           [left |-> value, gone |-> <<>>] \in holds[0],
           \A k \in 1 .. Len(patterns) : \A x \in holds[k - 1] : RemoveEach(f, x, patterns[k]) \in holds[k]
    PROVE  RemovedEach(f, value, patterns)[Len(patterns)] \in holds[Len(patterns)]
<1>1. PICK n : n = Len(patterns)
  OBVIOUS
<1>2. PICK base : base = [left |-> value, gone |-> <<>>]
  OBVIOUS
<1>3. PICK S : S = UNION {holds[k] : k \in 0 .. n}
  OBVIOUS
<1>4. PICK step : step = [p \in S \X (1 .. n) |-> RemoveEach(f, p[1], patterns[p[2]])]
  OBVIOUS
<1>5. \A k \in 1 .. n : \A x \in holds[k - 1] : step[<<x, k>>] = RemoveEach(f, x, patterns[k])
  <2>1. \A k \in 1 .. n : k - 1 \in 0 .. n
    BY <1>1
  <2>2. \A k \in 1 .. n : \A x \in holds[k - 1] : x \in S
    BY <1>3, <2>1
  <2> QED
    BY <1>4, <2>2
<1>6. PICK g : /\ g = [k \in 0 .. n |-> IF k = 0 THEN base ELSE step[<<g[k - 1], k>>]]
              /\ \A k \in 0 .. n : g[k] \in holds[k]
  <2>1. n \in Nat /\ base \in holds[0]
    BY <1>1, <1>2
  <2>2. Kept(holds, step, n)
    BY <1>1, <1>5 DEF Kept
  <2> QED
    BY <2>1, <2>2, LoopExists
<1> DEFINE Is(h) == h = [k \in 0 .. n |-> IF k = 0 THEN base ELSE RemoveEach(f, h[k - 1], patterns[k])]
<1>7. Is(g)
  <2>1. \A k \in 0 .. n : k # 0 => k \in 1 .. n /\ k - 1 \in 0 .. n
    BY <1>1
  <2>2. \A k \in 0 .. n : k # 0 => step[<<g[k - 1], k>>] = RemoveEach(f, g[k - 1], patterns[k])
    BY <1>5, <1>6, <2>1
  <2> QED
    BY <1>6, <2>2
<1>8. PICK h : h = CHOOSE e : Is(e)
  OBVIOUS
<1>9. Is(h)
  <2> HIDE DEF Is
  <2> QED
    BY <1>7, <1>8
<1>10. h = RemovedEach(f, value, patterns)
  BY <1>1, <1>2, <1>8, RemovedIsChosen
<1> DEFINE T == {k \in 0 .. n : h[k] \in holds[k]}
<1>11. 0 \in T
  BY <1>1, <1>2, <1>9
<1>12. ASSUME NEW k \in 1 .. n, k - 1 \in T
       PROVE  k \in T
  <2>1. h[k] = RemoveEach(f, h[k - 1], patterns[k])
    BY <1>1, <1>9
  <2> QED
    BY <1>1, <1>12, <2>1
<1>13. 0 .. n \subseteq T
  <2> HIDE DEF T
  <2> QED
    BY <1>1, <1>11, <1>12, LoopInduction
<1> QED
  BY <1>1, <1>10, <1>13


\* What is left of a collection and what was taken out after the first k patterns of a call to
\* remove.
Outcome == [left : Value, gone : Seq(Strings)]
Removed(f, value, calls, patterns, k) ==
    {d \in Outcome :
        /\ k = 0 => d.left = value
        /\ k >= 1 => d.left.set
        /\ KeysFit(f, d.left)
        /\ Range(d.left.array) = Range(value.array) \ {patterns[j] : j \in 1 .. k}
        /\ IsTraced(f, With(calls, REMOVE, patterns, k), d.left.array)
        /\ \A s : CountOf(s, value.array) = CountOf(s, d.left.array) + CountOf(s, d.gone)}

LEMMA RemoveEachKeeps ==
    ASSUME NEW f, f \notin StringFields, NEW value \in Value, NEW calls \in Seq(Call),
           NEW patterns \in Seq(Strings), NEW k \in 1 .. Len(patterns),
           NEW d \in Removed(f, value, calls, patterns, k - 1)
    PROVE  RemoveEach(f, d, patterns[k]) \in Removed(f, value, calls, patterns, k)
<1>1. PICK before : before = With(calls, REMOVE, patterns, k - 1)
  OBVIOUS
<1>2. PICK after : after = With(calls, REMOVE, patterns, k)
  OBVIOUS
<1>3. PICK pattern : pattern = patterns[k]
  OBVIOUS
<1>4. PICK v : v = d.left
  OBVIOUS
<1>5. PICK a : a = v.array
  OBVIOUS
<1>6. /\ d \in Outcome /\ KeysFit(f, v)
      /\ Range(a) = Range(value.array) \ {patterns[j] : j \in 1 .. k - 1}
      /\ IsTraced(f, before, a)
      /\ \A s : CountOf(s, value.array) = CountOf(s, a) + CountOf(s, d.gone)
  BY <1>1, <1>4, <1>5 DEF Removed
<1>7. /\ v \in Value /\ a \in Seq(Strings) /\ Len(a) \in Nat /\ DOMAIN a = 1 .. Len(a)
      /\ d.gone \in Seq(Strings) /\ pattern \in Strings
  BY <1>3, <1>4, <1>5, <1>6 DEF Outcome, Value
<1>8. PICK now : now = RemoveOne(f, v, pattern)
  OBVIOUS
<1>9. PICK b : b = now.left.array
  OBVIOUS
<1>10. /\ now.left \in Value /\ now.left.set /\ KeysFit(f, now.left)
       /\ now.gone \in Seq(Strings)
       /\ \A s : CountOf(s, a) = CountOf(s, b) + CountOf(s, now.gone)
       /\ \E chosen : /\ Chosen(a, pattern, Len(a), Len(b) + 1, b, chosen)
                      /\ \A j \in 1 .. Len(b) : b[j] # pattern
  <2>1. TakesOut(f, v, pattern, now)
    BY <1>6, <1>7, <1>8, RemoveOneOfCollection
  <2> QED
    BY <1>5, <1>9, <2>1 DEF TakesOut
<1>11. b \in Seq(Strings) /\ Len(b) \in Nat /\ DOMAIN b = 1 .. Len(b)
  BY <1>9, <1>10 DEF Value
<1>12. PICK chosen : /\ Chosen(a, pattern, Len(a), Len(b) + 1, b, chosen)
                     /\ \A j \in 1 .. Len(b) : b[j] # pattern
  BY <1>10
<1>13. PICK from : Traced(f, before, a, from)
  BY <1>6 DEF IsTraced
<1>14. /\ chosen \in [1 .. Len(b) -> 1 .. Len(a)]
       /\ \A j, m \in 1 .. Len(b) : j < m => chosen[j] < chosen[m]
       /\ \A j \in 1 .. Len(b) : b[j] = a[chosen[j]]
       /\ \A m \in 1 .. Len(a) : a[m] # pattern => \E j \in 1 .. Len(b) : chosen[j] = m
  BY <1>12 DEF Chosen
<1>15. Range(b) = Range(a) \ {pattern}
  <2>1. Range(a) = {a[m] : m \in 1 .. Len(a)} /\ Range(b) = {b[j] : j \in 1 .. Len(b)}
    BY <1>7, <1>11 DEF Range
  <2>2. \A j \in 1 .. Len(b) : b[j] # pattern /\ \E m \in 1 .. Len(a) : b[j] = a[m]
    BY <1>12, <1>14
  <2>3. \A m \in 1 .. Len(a) : a[m] # pattern => \E j \in 1 .. Len(b) : b[j] = a[m]
    BY <1>14
  <2>4. \A s : s \in Range(a) <=> \E m \in 1 .. Len(a) : s = a[m]
    BY <2>1
  <2>5. \A s : s \in Range(b) <=> \E j \in 1 .. Len(b) : s = b[j]
    BY <2>1
  <2>6. ASSUME NEW s \in Range(b)
        PROVE  s \in Range(a) /\ s # pattern
    <3>1. PICK j \in 1 .. Len(b) : s = b[j]
      BY <2>5
    <3> QED
      BY <2>2, <2>4, <3>1
  <2>7. ASSUME NEW s \in Range(a), s # pattern
        PROVE  s \in Range(b)
    <3>1. PICK m \in 1 .. Len(a) : s = a[m]
      BY <2>4
    <3> QED
      BY <2>3, <2>5, <2>7, <3>1
  <2> QED
    BY <2>6, <2>7
<1>16. {patterns[j] : j \in 1 .. k} = {patterns[j] : j \in 1 .. k - 1} \cup {pattern}
  <2>1. \A j : j \in 1 .. k <=> j \in 1 .. k - 1 \/ j = k
    OBVIOUS
  <2> QED
    BY <1>3, <2>1
<1>17. Range(b) = Range(value.array) \ {patterns[j] : j \in 1 .. k}
  BY <1>6, <1>15, <1>16
<1>18. \A p : p \in Staying(f, after) <=> p \in Staying(f, before) /\ StringAt(before, p) # pattern
  <2>1. k \in 0 .. Len(patterns) /\ k - 1 \in 0 .. Len(patterns)
    OBVIOUS
  <2>2. Staying(f, after) =
            {p \in Staying(f, calls) : \A j \in 1 .. k : StringAt(calls, p) # patterns[j]}
    BY <1>2, <2>1, StayingRemove
  <2>3. Staying(f, before) =
            {p \in Staying(f, calls) : \A j \in 1 .. k - 1 : StringAt(calls, p) # patterns[j]}
    BY <1>1, <2>1, StayingRemove
  <2>4. \A p \in Staying(f, calls) : StringAt(before, p) = StringAt(calls, p)
    <3>1. MoreCalls(calls, REMOVE, patterns, k - 1, before, Len(calls) + 1)
      BY <1>1, <2>1, WithFacts
    <3>2. Staying(f, calls) \subseteq Given(calls)
      BY DEF Staying
    <3> QED
      BY <3>1, <3>2 DEF MoreCalls
  <2>5. \A j : j \in 1 .. k <=> j \in 1 .. k - 1 \/ j = k
    OBVIOUS
  <2> QED
    BY <1>3, <2>2, <2>3, <2>4, <2>5
<1>19. \A p \in Staying(f, after) : StringAt(after, p) = StringAt(before, p)
  <2>1. k \in 0 .. Len(patterns) /\ k - 1 \in 0 .. Len(patterns)
    OBVIOUS
  <2>2. MoreCalls(calls, REMOVE, patterns, k - 1, before, Len(calls) + 1)
    BY <1>1, <2>1, WithFacts
  <2>3. MoreCalls(calls, REMOVE, patterns, k, after, Len(calls) + 1)
    BY <1>2, <2>1, WithFacts
  <2>4. Staying(f, after) \subseteq Staying(f, calls)
    BY <1>2, <2>1, StayingRemove
  <2>5. Staying(f, calls) \subseteq Given(calls)
    BY DEF Staying
  <2> QED
    BY <2>2, <2>3, <2>4, <2>5 DEF MoreCalls
<1>20. PICK fewer : fewer = [j \in 1 .. Len(b) |-> from[chosen[j]]]
  OBVIOUS
<1>21. Traced(f, after, b, fewer)
  <2>1. /\ \A m \in 1 .. Len(a) : from[m] \in Staying(f, before) /\ StringAt(before, from[m]) = a[m]
        /\ \A i, m \in 1 .. Len(a) : i < m => Earlier(from[i], from[m])
        /\ \A p \in Staying(f, before) : \E m \in 1 .. Len(a) : from[m] = p
    BY <1>13 DEF Traced
  <2>2. \A j \in 1 .. Len(b) : chosen[j] \in 1 .. Len(a) /\ fewer[j] = from[chosen[j]]
    BY <1>14, <1>20
  <2>3. ASSUME NEW j \in 1 .. Len(b)
        PROVE  fewer[j] \in Staying(f, after) /\ StringAt(after, fewer[j]) = b[j]
    <3>1. PICK m \in 1 .. Len(a) : m = chosen[j]
      BY <2>2
    <3>2. fewer[j] = from[m] /\ b[j] = a[m] /\ b[j] # pattern
      BY <1>12, <1>14, <2>2, <3>1
    <3>3. from[m] \in Staying(f, before) /\ StringAt(before, from[m]) = a[m]
      BY <2>1
    <3>4. from[m] \in Staying(f, after)
      BY <1>18, <3>2, <3>3
    <3> QED
      BY <1>19, <3>2, <3>3, <3>4
  <2>4. fewer \in [1 .. Len(b) -> Staying(f, after)]
    BY <1>20, <2>3
  <2>5. ASSUME NEW i \in 1 .. Len(b), NEW j \in 1 .. Len(b), i < j
        PROVE  Earlier(fewer[i], fewer[j])
    <3>1. PICK m \in 1 .. Len(a) : m = chosen[i]
      BY <2>2
    <3>2. PICK l \in 1 .. Len(a) : l = chosen[j]
      BY <2>2
    <3>3. m < l
      BY <1>14, <2>5, <3>1, <3>2
    <3>4. Earlier(from[m], from[l])
      BY <2>1, <3>3
    <3> QED
      BY <2>2, <3>1, <3>2, <3>4
  <2>6. ASSUME NEW p \in Staying(f, after)
        PROVE  \E j \in 1 .. Len(b) : fewer[j] = p
    <3>1. p \in Staying(f, before) /\ StringAt(before, p) # pattern
      BY <1>18
    <3>2. PICK m \in 1 .. Len(a) : from[m] = p
      BY <2>1, <3>1
    <3>3. a[m] # pattern
      BY <2>1, <3>1, <3>2
    <3> QED
      BY <1>14, <2>2, <3>2, <3>3
  <2> QED
    BY <2>3, <2>4, <2>5, <2>6 DEF Traced
<1>22. PICK gone : gone = d.gone \o now.gone
  OBVIOUS
<1>23. gone \in Seq(Strings)
  BY <1>7, <1>10, <1>22, ConcatProperties
<1>24. \A s : CountOf(s, value.array) = CountOf(s, b) + CountOf(s, gone)
  <2>1. ASSUME NEW s
        PROVE  CountOf(s, value.array) = CountOf(s, b) + CountOf(s, gone)
    <3>1. CountOf(s, gone) = CountOf(s, d.gone) + CountOf(s, now.gone)
      BY <1>7, <1>10, <1>22, CountConcat
    <3>2. CountOf(s, b) \in Nat /\ CountOf(s, d.gone) \in Nat /\ CountOf(s, now.gone) \in Nat
      <4>1. Len(d.gone) \in Nat /\ DOMAIN d.gone = 1 .. Len(d.gone)
        BY <1>7
      <4>2. Len(now.gone) \in Nat /\ DOMAIN now.gone = 1 .. Len(now.gone)
        BY <1>10
      <4> QED
        BY <1>11, <4>1, <4>2, CountIsNumber
    <3> QED
      BY <1>6, <1>10, <3>1, <3>2
  <2> QED
    BY <2>1
<1>25. PICK e : e = RemoveEach(f, d, pattern)
  OBVIOUS
<1>26. e = [left |-> now.left, gone |-> gone]
  BY <1>4, <1>8, <1>22, <1>25 DEF RemoveEach
<1>27. e \in Outcome /\ e.left = now.left /\ e.gone = gone
  BY <1>10, <1>23, <1>26 DEF Outcome
<1> QED
  BY <1>2, <1>3, <1>9, <1>10, <1>17, <1>21, <1>24, <1>25, <1>27 DEF Removed, IsTraced

\* What a call to remove does to a collection.
LEMMA RemoveAllOfCollection ==
    ASSUME NEW f, f \notin StringFields, NEW value \in Value, KeysFit(f, value),
           NEW calls \in Seq(Call), IsTraced(f, calls, value.array), NEW patterns \in Seq(Strings)
    PROVE  RemoveAll(f, value, patterns) \in Removed(f, value, calls, patterns, Len(patterns))
<1>1. PICK n : n = Len(patterns)
  OBVIOUS
<1>2. PICK holds : holds = [k \in 0 .. n |-> Removed(f, value, calls, patterns, k)]
  OBVIOUS
<1>3. n \in Nat
  BY <1>1
<1>4. [left |-> value, gone |-> <<>>] \in holds[0]
  <2>1. PICK d : d = [left |-> value, gone |-> <<>>]
    OBVIOUS
  <2>2. <<>> \in Seq(Strings)
    OBVIOUS
  <2>3. d \in Outcome /\ d.left = value /\ d.gone = <<>>
    BY <2>1, <2>2 DEF Outcome
  <2>4. REMOVE \in {ADD, REMOVE}
    OBVIOUS
  <2>5. IsTraced(f, With(calls, REMOVE, patterns, 0), value.array)
    BY <2>4, TracedStart
  <2>6. {patterns[j] : j \in 1 .. 0} = {}
    OBVIOUS
  <2>7. \A s : CountOf(s, value.array) = CountOf(s, value.array) + CountOf(s, <<>>)
    <3>1. Len(value.array) \in Nat /\ DOMAIN value.array = 1 .. Len(value.array)
      BY DEF Value
    <3>2. \A s : CountOf(s, value.array) \in Nat
      BY <3>1, CountIsNumber
    <3> QED
      BY <3>2, CountEmpty
  <2>8. ~(0 >= 1)
    OBVIOUS
  <2>9. Range(value.array) = Range(value.array) \ {patterns[j] : j \in 1 .. 0}
    BY <2>6
  <2>10. d \in Removed(f, value, calls, patterns, 0)
    BY <2>3, <2>5, <2>7, <2>8, <2>9 DEF Removed
  <2> QED
    BY <1>2, <1>3, <2>1, <2>10
<1>5. \A k \in 1 .. Len(patterns) : \A x \in holds[k - 1] : RemoveEach(f, x, patterns[k]) \in holds[k]
  <2>1. \A k \in 1 .. n : /\ holds[k] = Removed(f, value, calls, patterns, k)
                          /\ holds[k - 1] = Removed(f, value, calls, patterns, k - 1)
    BY <1>2, <1>3
  <2>2. ASSUME NEW k \in 1 .. Len(patterns), NEW x \in Removed(f, value, calls, patterns, k - 1)
        PROVE  RemoveEach(f, x, patterns[k]) \in Removed(f, value, calls, patterns, k)
    BY <2>2, RemoveEachKeeps
  <2> QED
    BY <1>1, <2>1, <2>2
<1>6. RemovedEach(f, value, patterns)[n] \in holds[n]
  BY <1>1, <1>3, <1>4, <1>5, RemoveAllLoop
<1> QED
  BY <1>1, <1>2, <1>3, <1>6 DEF RemoveAll

-----------------------------------------------------------------------------
(***************************************************************************)
(* The calls as a whole.                                                   *)
(***************************************************************************)
LEMMA WholeCall ==
    ASSUME NEW calls, NEW operation, NEW strings \in Seq(Strings)
    PROVE  With(calls, operation, strings, Len(strings)) =
               Append(calls, [operation |-> operation, strings |-> strings])
<1>1. [j \in 1 .. Len(strings) |-> strings[j]] = strings
  OBVIOUS
<1> QED
  BY <1>1 DEF With

LEMMA ReceiveAllOfCollection ==
    ASSUME NEW f, f \notin StringFields, NEW value \in Value, KeysFit(f, value),
           NEW calls \in Seq(Call), IsTraced(f, calls, value.array), NEW strings \in Seq(Strings)
    PROVE  ReceiveInto(f, value, strings) \in Added(f, value, calls, strings, Len(strings))
<1>1. PICK n : n = Len(strings)
  OBVIOUS
<1>2. PICK holds : holds = [k \in 0 .. n |-> Added(f, value, calls, strings, k)]
  OBVIOUS
<1>3. n \in Nat
  BY <1>1
<1>4. OrEmpty(value) \in holds[0]
  <2>1. PICK v : v = OrEmpty(value)
    OBVIOUS
  <2>2. v \in Value /\ v.set /\ v.array = value.array /\ v.keys = value.keys
    BY <2>1, OrEmptyFacts
  <2>3. KeysFit(f, v)
    BY <2>2 DEF KeysFit
  <2>4. ADD \in {ADD, REMOVE}
    OBVIOUS
  <2>5. IsTraced(f, With(calls, ADD, strings, 0), v.array)
    BY <2>2, <2>4, TracedStart
  <2>6. {strings[j] : j \in 1 .. 0} = {}
    OBVIOUS
  <2>7. Range(v.array) = Range(value.array) \cup {strings[j] : j \in 1 .. 0}
    BY <2>2, <2>6
  <2>8. v \in Added(f, value, calls, strings, 0)
    BY <2>2, <2>3, <2>5, <2>7 DEF Added
  <2> QED
    BY <1>2, <1>3, <2>1, <2>8
<1>5. \A k \in 1 .. Len(strings) : \A x \in holds[k - 1] : Receive(f, x, strings[k]) \in holds[k]
  <2>1. \A k \in 1 .. n : /\ holds[k] = Added(f, value, calls, strings, k)
                          /\ holds[k - 1] = Added(f, value, calls, strings, k - 1)
    BY <1>2, <1>3
  <2>2. ASSUME NEW k \in 1 .. Len(strings), NEW x \in Added(f, value, calls, strings, k - 1)
        PROVE  Receive(f, x, strings[k]) \in Added(f, value, calls, strings, k)
    BY <2>2, AddTurn
  <2> QED
    BY <1>1, <2>1, <2>2
<1>6. ReceivedEach(f, value, strings)[n] \in holds[n]
  BY <1>1, <1>3, <1>4, <1>5, ReceiveLoop
<1> QED
  BY <1>1, <1>2, <1>3, <1>6 DEF ReceiveInto

\* The value of a string field.
StringValue == {v \in Value : v = Unset \/ (v.set /\ v.keys = {} /\ \E s \in Strings : v.array = <<s>>)}

LEMMA ReceiveString ==
    ASSUME NEW f \in StringFields, NEW value, NEW s \in Strings
    PROVE  /\ ReceiveInto(f, value, <<s>>) \in StringValue
           /\ ReceiveInto(f, value, <<s>>).set
           /\ ReceiveInto(f, value, <<s>>).array = <<s>>
<1>1. PICK v : v = ReceiveInto(f, value, <<s>>)
  OBVIOUS
<1>2. v = [set |-> TRUE, array |-> <<s>>, keys |-> {}]
  BY <1>1 DEF ReceiveInto, Unset
<1>3. v.set = TRUE /\ v.array = <<s>> /\ v.keys = {}
  BY <1>2
<1>4. v \in Value
  <2>1. <<s>> \in Seq(Strings)
    OBVIOUS
  <2> QED
    BY <1>2, <2>1 DEF Value
<1> QED
  BY <1>1, <1>3, <1>4 DEF StringValue

\* A string field loses its value when a pattern is that value, and reports nothing.
LEMMA RemoveString ==
    ASSUME NEW f \in StringFields, NEW value \in StringValue, NEW patterns \in Seq(Strings)
    PROVE  RemoveAll(f, value, patterns) =
               [left |-> IF \E j \in 1 .. Len(patterns) : value.array = <<patterns[j]>> THEN Unset ELSE value,
                gone |-> <<>>]
<1>1. PICK n : n = Len(patterns)
  OBVIOUS
<1>2. n \in Nat
  BY <1>1
<1> DEFINE Left(k) == IF \E j \in 1 .. k : value.array = <<patterns[j]>> THEN Unset ELSE value
<1>3. PICK holds : holds = [k \in 0 .. n |-> {[left |-> Left(k), gone |-> <<>>]}]
  OBVIOUS
<1>4. [left |-> value, gone |-> <<>>] \in holds[0]
  <2>1. Left(0) = value
    OBVIOUS
  <2>2. 0 \in 0 .. n
    BY <1>2
  <2> HIDE DEF Left
  <2>3. holds[0] = {[left |-> Left(0), gone |-> <<>>]}
    BY <1>3, <2>2
  <2> QED
    BY <2>1, <2>3
<1>5. ASSUME NEW k \in 1 .. n
      PROVE  \A x \in holds[k - 1] : RemoveEach(f, x, patterns[k]) \in holds[k]
  <2>1. PICK d : d = [left |-> Left(k - 1), gone |-> <<>>]
    OBVIOUS
  <2>2. d.left = Left(k - 1) /\ d.gone = <<>>
    BY <2>1
  <2>3. RemoveEach(f, d, patterns[k]) =
            [left |-> IF d.left.array = <<patterns[k]>> THEN Unset ELSE d.left, gone |-> d.gone \o <<>>]
    BY DEF RemoveEach, RemoveOne
  <2>4. d.gone \o <<>> = <<>>
    BY <2>2
  <2>5. (IF Left(k - 1).array = <<patterns[k]>> THEN Unset ELSE Left(k - 1)) = Left(k)
    <3>1. \A j : j \in 1 .. k <=> j \in 1 .. k - 1 \/ j = k
      OBVIOUS
    <3>2. CASE \E j \in 1 .. k - 1 : value.array = <<patterns[j]>>
      BY <3>1, <3>2
    <3>3. CASE ~\E j \in 1 .. k - 1 : value.array = <<patterns[j]>>
      BY <3>1, <3>3
    <3> QED
      BY <3>2, <3>3
  <2>6. k - 1 \in 0 .. n /\ k \in 0 .. n
    BY <1>2
  <2> HIDE DEF Left
  <2>7. holds[k] = {[left |-> Left(k), gone |-> <<>>]} /\ holds[k - 1] = {d}
    BY <1>3, <2>1, <2>6
  <2>8. RemoveEach(f, d, patterns[k]) = [left |-> Left(k), gone |-> <<>>]
    BY <2>2, <2>3, <2>4, <2>5
  <2> QED
    BY <2>7, <2>8
<1>6. RemovedEach(f, value, patterns)[n] \in holds[n]
  <2> HIDE DEF Left
  <2>1. \A k \in 1 .. Len(patterns) : \A x \in holds[k - 1] : RemoveEach(f, x, patterns[k]) \in holds[k]
    BY <1>1, <1>5
  <2>2. Len(patterns) \in Nat
    OBVIOUS
  <2>3. RemovedEach(f, value, patterns)[Len(patterns)] \in holds[Len(patterns)]
    BY <1>4, <2>1, <2>2, RemoveAllLoop
  <2> QED
    BY <1>1, <2>3
<1>7. RemoveAll(f, value, patterns) = [left |-> Left(n), gone |-> <<>>]
  <2>1. n \in 0 .. n
    BY <1>2
  <2> HIDE DEF Left
  <2>2. holds[n] = {[left |-> Left(n), gone |-> <<>>]}
    BY <1>3, <2>1
  <2> QED
    BY <1>1, <1>6, <2>2 DEF RemoveAll
<1> QED
  BY <1>1, <1>7

\* A place among the places of an array is the number of those before it.
LEMMA RankOfPlace ==
    ASSUME NEW f, NEW calls \in Seq(Call), NEW array \in Seq(Strings), IsTraced(f, calls, array)
    PROVE  LET staying == Staying(f, calls)
           IN  /\ Len(array) = Cardinality(staying)
               /\ \A p \in staying :
                     array[Cardinality({q \in staying : Earlier(q, p)}) + 1] = StringAt(calls, p)
<1>1. PICK from : Traced(f, calls, array, from)
  BY DEF IsTraced
<1>2. PICK n : n = Len(array)
  OBVIOUS
<1>3. PICK staying : staying = Staying(f, calls)
  OBVIOUS
<1>4. n \in Nat
  BY <1>2
<1>5. /\ from \in [1 .. n -> staying]
      /\ \A j, k \in 1 .. n : j < k => Earlier(from[j], from[k])
      /\ \A k \in 1 .. n : StringAt(calls, from[k]) = array[k]
      /\ \A p \in staying : \E k \in 1 .. n : from[k] = p
  BY <1>1, <1>2, <1>3 DEF Traced
<1>6. \A p \in staying : p[1] \in Nat /\ p[2] \in Nat
  <2>1. staying \subseteq Given(calls)
    BY <1>3 DEF Staying
  <2>2. \A p \in Given(calls) : p[1] \in 1 .. Len(calls) /\ p[2] \in Nat \ {0}
    BY GivenFacts
  <2> QED
    BY <2>1, <2>2
<1>7. \A p \in staying : ~Earlier(p, p)
  BY <1>6 DEF Earlier
<1>8. \A p, q \in staying : Earlier(p, q) => ~Earlier(q, p)
  BY <1>6 DEF Earlier
<1>9. \A j, k \in 1 .. n : Earlier(from[j], from[k]) <=> j < k
  <2>1. ASSUME NEW j \in 1 .. n, NEW k \in 1 .. n, Earlier(from[j], from[k])
        PROVE  j < k
    <3>1. from[j] \in staying /\ from[k] \in staying
      BY <1>5
    <3>2. CASE j = k
      BY <1>7, <2>1, <3>1, <3>2
    <3>3. CASE k < j
      BY <1>5, <1>8, <2>1, <3>1, <3>3
    <3> QED
      BY <1>4, <3>2, <3>3
  <2> QED
    BY <1>5, <2>1
<1>10. \A j, k \in 1 .. n : from[j] = from[k] => j = k
  <2>1. ASSUME NEW j \in 1 .. n, NEW k \in 1 .. n, from[j] = from[k], j < k
        PROVE  FALSE
    <3>1. Earlier(from[j], from[k])
      BY <1>9, <2>1
    <3>2. Earlier(from[k], from[j])
      BY <2>1, <3>1
    <3>3. from[j] \in staying /\ from[k] \in staying
      BY <1>5
    <3> QED
      BY <1>8, <3>1, <3>2, <3>3
  <2>2. \A j, k \in 1 .. n : j = k \/ j < k \/ k < j
    BY <1>4
  <2> QED
    BY <2>1, <2>2
<1>11. Cardinality(staying) = n
  <2>1. from \in Bijection(1 .. n, staying)
    BY <1>5, <1>10 DEF Bijection, Injection, Surjection, IsInjective
  <2>2. ExistsBijection(1 .. n, staying)
    BY <2>1 DEF ExistsBijection
  <2> QED
    BY <1>4, <2>2, FS_CountingElements
<1>12. ASSUME NEW p \in staying
       PROVE  array[Cardinality({q \in staying : Earlier(q, p)}) + 1] = StringAt(calls, p)
  <2>1. PICK k \in 1 .. n : from[k] = p
    BY <1>5
  <2>2. PICK earlier : earlier = {q \in staying : Earlier(q, p)}
    OBVIOUS
  <2>3. PICK first : first = [j \in 1 .. k - 1 |-> from[j]]
    OBVIOUS
  <2>4. k \in Nat /\ k - 1 \in Nat /\ \A j \in 1 .. k - 1 : j \in 1 .. n /\ j < k
    BY <1>4
  <2>5. \A j \in 1 .. k - 1 : from[j] \in earlier
    BY <1>5, <1>9, <2>1, <2>2, <2>4
  <2>6. \A q \in earlier : \E j \in 1 .. k - 1 : from[j] = q
    <3>1. ASSUME NEW q \in earlier
          PROVE  \E j \in 1 .. k - 1 : from[j] = q
      <4>1. q \in staying /\ Earlier(q, p)
        BY <2>2
      <4>2. PICK j \in 1 .. n : from[j] = q
        BY <1>5, <4>1
      <4>3. j < k
        BY <1>9, <2>1, <4>1, <4>2
      <4>4. j \in 1 .. k - 1
        BY <1>4, <4>3
      <4> QED
        BY <4>2, <4>4
    <3> QED
      BY <3>1
  <2>7. first \in Bijection(1 .. k - 1, earlier)
    <3>1. first \in [1 .. k - 1 -> earlier]
      BY <2>3, <2>5
    <3>2. \A i, j \in 1 .. k - 1 : first[i] = first[j] => i = j
      BY <1>10, <2>3, <2>4
    <3>3. \A q \in earlier : \E j \in 1 .. k - 1 : first[j] = q
      BY <2>3, <2>6
    <3> QED
      BY <3>1, <3>2, <3>3 DEF Bijection, Injection, Surjection, IsInjective
  <2>8. Cardinality(earlier) = k - 1
    <3>1. ExistsBijection(1 .. k - 1, earlier)
      BY <2>7 DEF ExistsBijection
    <3> QED
      BY <2>4, <3>1, FS_CountingElements
  <2>9. (k - 1) + 1 = k
    BY <2>4
  <2> QED
    BY <1>5, <2>1, <2>2, <2>8, <2>9
<1> QED
  BY <1>2, <1>3, <1>11, <1>12

-----------------------------------------------------------------------------
(***************************************************************************)
(* Every behaviour.                                                        *)
(***************************************************************************)
\* A value that was never set has no strings; the value of a string field is one string, the
\* array of a collection fits its keys and is made of the places that stay, in their order.
FieldInv ==
    /\ field \in Fields
    /\ fieldCalls \in Seq(Call)
    /\ stored \in Value
    /\ ~stored.set => stored.array = <<>>
    /\ field \in StringFields => stored \in StringValue
    /\ field \notin StringFields => KeysFit(field, stored) /\ IsTraced(field, fieldCalls, stored.array)

\* The actions that ImplementsFieldValues and RemovalsAreReported allow.
AsOnSets ==
    fieldCalls' # fieldCalls =>
       LET call == Last(fieldCalls')
           strings == Range(call.strings)
       IN  Elements(stored') = IF call.operation = ADD THEN MergeValues(field, Elements(stored), strings)
                               ELSE RemoveValues(field, Elements(stored), strings)

AsReported ==
    fieldCalls' # fieldCalls /\ field \notin StringFields /\ Last(fieldCalls').operation = REMOVE =>
          \A s \in Strings :
              CountOf(s, stored.array) = CountOf(s, stored'.array) + CountOf(s, reported')

LEMMA HeldElements ==
    ASSUME NEW value \in Value, ~value.set => value.array = <<>>
    PROVE  Held(Elements(value)) = Range(value.array)
<1>1. Range(value.array) \in SUBSET Strings
  <2>1. value.array \in Seq(Strings)
    BY DEF Value
  <2>2. DOMAIN value.array = 1 .. Len(value.array) /\ \A j \in 1 .. Len(value.array) : value.array[j] \in Strings
    BY <2>1
  <2> QED
    BY <2>2 DEF Range
<1>2. CASE value.set
  <2>1. Nil # Range(value.array)
    BY <1>1, FieldsAssumption
  <2> QED
    BY <1>2, <2>1 DEF Held, Elements
<1>3. CASE ~value.set
  <2>1. value.array = <<>>
    BY <1>3
  <2>2. Range(value.array) = {}
    BY <2>1 DEF Range
  <2> QED
    BY <1>3, <2>2 DEF Held, Elements
<1> QED
  BY <1>2, <1>3

LEMMA RangeIs ==
    ASSUME NEW strings \in Seq(Strings)
    PROVE  Range(strings) = {strings[j] : j \in 1 .. Len(strings)}
<1>1. DOMAIN strings = 1 .. Len(strings)
  OBVIOUS
<1> QED
  BY <1>1 DEF Range

\* A call more, of which the whole is the last.
OneMore(calls, operation, strings, more) ==
    /\ more \in Seq(Call)
    /\ more = With(calls, operation, strings, Len(strings))
    /\ Last(more).operation = operation
    /\ Last(more).strings = strings

LEMMA LastCall ==
    ASSUME NEW calls \in Seq(Call), NEW operation, operation \in {ADD, REMOVE}, NEW strings \in Seq(Strings)
    PROVE  OneMore(calls, operation, strings, Append(calls, [operation |-> operation, strings |-> strings]))
<1>1. PICK call : call = [operation |-> operation, strings |-> strings]
  OBVIOUS
<1>2. call \in Call /\ call.operation = operation /\ call.strings = strings
  BY <1>1 DEF Call
<1>3. PICK more : more = Append(calls, call)
  OBVIOUS
<1>4. more \in Seq(Call) /\ more[Len(more)] = call
  BY <1>2, <1>3, AppendProperties
<1>5. Last(more) = call
  BY <1>4 DEF Last
<1>6. more = With(calls, operation, strings, Len(strings))
  BY <1>1, <1>3, WholeCall
<1> QED
  BY <1>1, <1>2, <1>3, <1>4, <1>5, <1>6 DEF OneMore

LEMMA FieldInvInit == FieldInit => FieldInv
<1> SUFFICES ASSUME FieldInit
             PROVE  FieldInv
  OBVIOUS
<1>1. field \in Fields /\ fieldCalls = <<>> /\ stored = Unset
  BY DEF FieldInit
<1>2. PICK calls : calls = <<>>
  OBVIOUS
<1>3. calls \in Seq(Call) /\ Len(calls) = 0
  BY <1>2
<1>4. stored = [set |-> FALSE, array |-> <<>>, keys |-> {}]
  BY <1>1 DEF Unset
<1>5. stored.set = FALSE /\ stored.array = <<>> /\ stored.keys = {}
  BY <1>4
<1>6. stored \in Value
  <2>1. <<>> \in Seq(Strings)
    OBVIOUS
  <2> QED
    BY <1>4, <2>1 DEF Value
<1>7. stored \in StringValue
  BY <1>1, <1>6 DEF StringValue
<1>8. KeysFit(field, stored)
  <2>1. {stored.array[j] : j \in 1 .. Len(stored.array)} = {}
    BY <1>5
  <2>2. 1 .. Len(stored.array) = {}
    BY <1>5
  <2> QED
    BY <1>5, <2>1, <2>2 DEF KeysFit, KeysOfArray
<1>9. IsTraced(field, calls, stored.array)
  <2>1. Given(calls) = {}
    BY <1>2 DEF Given
  <2>2. Staying(field, calls) = {}
    BY <2>1 DEF Staying
  <2>3. 1 .. Len(stored.array) = {}
    BY <1>5
  <2>4. PICK from : from = [k \in {} |-> k]
    OBVIOUS
  <2>5. Traced(field, calls, stored.array, from)
    BY <2>2, <2>3, <2>4 DEF Traced
  <2> QED
    BY <2>5 DEF IsTraced
<1> QED
  BY <1>1, <1>2, <1>3, <1>5, <1>6, <1>7, <1>8, <1>9 DEF FieldInv

LEMMA AddStep ==
    ASSUME FieldInv, ReceiveFieldValues
    PROVE  FieldInv' /\ AsOnSets /\ AsReported
<1>1. /\ field \in Fields /\ fieldCalls \in Seq(Call) /\ stored \in Value
      /\ ~stored.set => stored.array = <<>>
      /\ field \in StringFields => stored \in StringValue
      /\ field \notin StringFields => KeysFit(field, stored) /\ IsTraced(field, fieldCalls, stored.array)
  BY DEF FieldInv
<1>2. PICK n \in IF field \in StringFields THEN {1} ELSE 0 .. MaxValues : \E strings \in [1 .. n -> Strings] :
         /\ stored' = ReceiveInto(field, stored, strings)
         /\ fieldCalls' = Append(fieldCalls, [operation |-> ADD, strings |-> strings])
  BY DEF ReceiveFieldValues
<1>3. PICK strings \in [1 .. n -> Strings] :
         /\ stored' = ReceiveInto(field, stored, strings)
         /\ fieldCalls' = Append(fieldCalls, [operation |-> ADD, strings |-> strings])
  BY <1>2
<1>4. field' = field
  BY DEF ReceiveFieldValues
<1>5. n \in Nat
  BY <1>2, KindsAssumption
<1>6. strings \in Seq(Strings) /\ Len(strings) = n
  BY <1>3, <1>5
<1>7. ADD \in {ADD, REMOVE} /\ ADD # REMOVE
  BY DEF ADD, REMOVE
<1>8. /\ fieldCalls' \in Seq(Call)
      /\ fieldCalls' = With(fieldCalls, ADD, strings, Len(strings))
      /\ Last(fieldCalls').operation = ADD
      /\ Last(fieldCalls').strings = strings
  <2>1. PICK more : more = Append(fieldCalls, [operation |-> ADD, strings |-> strings])
    OBVIOUS
  <2>2. OneMore(fieldCalls, ADD, strings, more)
    <3>1. fieldCalls \in Seq(Call) /\ strings \in Seq(Strings) /\ ADD \in {ADD, REMOVE}
      BY <1>1, <1>6, <1>7
    <3> QED
      BY <2>1, <3>1, LastCall
  <2> QED
    BY <1>3, <2>1, <2>2 DEF OneMore
<1>9. AsReported
  BY <1>7, <1>8 DEF AsReported
<1>10. CASE field \in StringFields
  <2>1. n = 1
    BY <1>2, <1>10
  <2>2. PICK s \in Strings : strings = <<s>>
    <3>1. strings[1] \in Strings /\ strings = <<strings[1]>>
      BY <1>3, <1>6, <2>1
    <3> QED
      BY <3>1
  <2>3. stored' \in StringValue /\ stored'.set /\ stored'.array = <<s>>
    BY <1>3, <1>10, <2>2, ReceiveString
  <2>4. Range(strings) = {s} /\ Range(stored'.array) = {s}
    <3>1. Range(<<s>>) = {s}
      BY DEF Range
    <3> QED
      BY <2>2, <2>3, <3>1
  <2>5. Elements(stored') = Range(strings)
    BY <2>3, <2>4 DEF Elements
  <2>6. AsOnSets
    BY <1>8, <1>10, <2>5 DEF AsOnSets, MergeValues
  <2>7. stored' \in Value
    BY <2>3 DEF StringValue
  <2> QED
    BY <1>1, <1>4, <1>8, <1>9, <1>10, <2>3, <2>6, <2>7 DEF FieldInv
<1>11. CASE field \notin StringFields
  <2>1. stored' \in Added(field, stored, fieldCalls, strings, Len(strings))
    BY <1>1, <1>3, <1>6, <1>11, ReceiveAllOfCollection
  <2>2. /\ stored' \in Value /\ stored'.set
        /\ KeysFit(field, stored')
        /\ Range(stored'.array) = Range(stored.array) \cup {strings[j] : j \in 1 .. Len(strings)}
        /\ IsTraced(field, fieldCalls', stored'.array)
    BY <1>8, <2>1 DEF Added
  <2>3. Elements(stored') = Held(Elements(stored)) \cup Range(strings)
    <3>1. Held(Elements(stored)) = Range(stored.array)
      BY <1>1, HeldElements
    <3>2. Range(strings) = {strings[j] : j \in 1 .. Len(strings)}
      BY <1>6, RangeIs
    <3> QED
      BY <2>2, <3>1, <3>2 DEF Elements
  <2>4. AsOnSets
    BY <1>8, <1>11, <2>3 DEF AsOnSets, MergeValues
  <2> QED
    BY <1>1, <1>4, <1>8, <1>9, <1>11, <2>2, <2>4 DEF FieldInv
<1> QED
  BY <1>10, <1>11

LEMMA RemoveStep ==
    ASSUME FieldInv, RemoveFieldValues
    PROVE  FieldInv' /\ AsOnSets /\ AsReported
<1>1. /\ field \in Fields /\ fieldCalls \in Seq(Call) /\ stored \in Value
      /\ ~stored.set => stored.array = <<>>
      /\ field \in StringFields => stored \in StringValue
      /\ field \notin StringFields => KeysFit(field, stored) /\ IsTraced(field, fieldCalls, stored.array)
  BY DEF FieldInv
<1>2. PICK n \in 0 .. MaxValues : \E patterns \in [1 .. n -> Strings] :
         /\ stored' = RemoveAll(field, stored, patterns).left
         /\ reported' = RemoveAll(field, stored, patterns).gone
         /\ fieldCalls' = Append(fieldCalls, [operation |-> REMOVE, strings |-> patterns])
  BY DEF RemoveFieldValues
<1>3. PICK patterns \in [1 .. n -> Strings] :
         /\ stored' = RemoveAll(field, stored, patterns).left
         /\ reported' = RemoveAll(field, stored, patterns).gone
         /\ fieldCalls' = Append(fieldCalls, [operation |-> REMOVE, strings |-> patterns])
  BY <1>2
<1>4. field' = field
  BY DEF RemoveFieldValues
<1>5. n \in Nat
  BY <1>2, KindsAssumption
<1>6. patterns \in Seq(Strings) /\ Len(patterns) = n
  BY <1>3, <1>5
<1>7. REMOVE \in {ADD, REMOVE} /\ ADD # REMOVE
  BY DEF ADD, REMOVE
<1>8. /\ fieldCalls' \in Seq(Call)
      /\ fieldCalls' = With(fieldCalls, REMOVE, patterns, Len(patterns))
      /\ Last(fieldCalls').operation = REMOVE
      /\ Last(fieldCalls').strings = patterns
  <2>1. PICK more : more = Append(fieldCalls, [operation |-> REMOVE, strings |-> patterns])
    OBVIOUS
  <2>2. OneMore(fieldCalls, REMOVE, patterns, more)
    <3>1. fieldCalls \in Seq(Call) /\ patterns \in Seq(Strings) /\ REMOVE \in {ADD, REMOVE}
      BY <1>1, <1>6, <1>7
    <3> QED
      BY <2>1, <3>1, LastCall
  <2> QED
    BY <1>3, <2>1, <2>2 DEF OneMore
<1>9. Range(patterns) = {patterns[j] : j \in 1 .. Len(patterns)}
  BY <1>6, RangeIs
<1>10. Held(Elements(stored)) = Range(stored.array)
  BY <1>1, HeldElements
<1>11. CASE field \in StringFields
  <2>1. stored \in StringValue
    BY <1>1, <1>11
  <2>2. stored' = IF \E j \in 1 .. Len(patterns) : stored.array = <<patterns[j]>> THEN Unset ELSE stored
    <3>1. PICK d : d = RemoveAll(field, stored, patterns)
      OBVIOUS
    <3>2. d = [left |-> IF \E j \in 1 .. Len(patterns) : stored.array = <<patterns[j]>> THEN Unset ELSE stored,
               gone |-> <<>>]
      BY <1>6, <1>11, <2>1, <3>1, RemoveString, Zenon
    <3>3. d.left = IF \E j \in 1 .. Len(patterns) : stored.array = <<patterns[j]>> THEN Unset ELSE stored
      BY <3>2
    <3> QED
      BY <1>3, <3>1, <3>3
  <2>3. Unset \in StringValue /\ ~Unset.set /\ Unset.array = <<>>
    <3>1. <<>> \in Seq(Strings)
      OBVIOUS
    <3>2. Unset \in Value
      BY <3>1 DEF Unset, Value
    <3>3. Unset.set = FALSE /\ Unset.array = <<>>
      BY DEF Unset
    <3> QED
      BY <3>2, <3>3 DEF StringValue
  <2>4. stored' \in StringValue /\ (~stored'.set => stored'.array = <<>>)
    BY <1>1, <2>1, <2>2, <2>3
  <2>5. (\E j \in 1 .. Len(patterns) : stored.array = <<patterns[j]>>) <=>
            Range(stored.array) \cap Range(patterns) # {}
    <3>1. CASE stored.array = <<>>
      <4>1. Range(stored.array) = {}
        BY <3>1 DEF Range
      <4>2. \A p : <<p>> # <<>>
        OBVIOUS
      <4> QED
        BY <3>1, <4>1, <4>2
    <3>2. CASE \E s \in Strings : stored.array = <<s>>
      <4>1. PICK s \in Strings : stored.array = <<s>>
        BY <3>2
      <4>2. Range(<<s>>) = {s}
        BY DEF Range
      <4>3. \A p : <<p>> = <<s>> <=> p = s
        OBVIOUS
      <4>4. s \in Range(patterns) <=> \E j \in 1 .. Len(patterns) : patterns[j] = s
        BY <1>9
      <4> QED
        BY <4>1, <4>2, <4>3, <4>4
    <3> QED
      BY <2>1, <2>3, <3>1, <3>2 DEF StringValue
  <2>6. Elements(stored') = RemoveValues(field, Elements(stored), Range(patterns))
    <3>1. Elements(Unset) = Nil
      BY <2>3 DEF Elements
    <3> QED
      BY <1>10, <1>11, <2>2, <2>5, <3>1 DEF RemoveValues
  <2>7. AsOnSets
    BY <1>7, <1>8, <2>6 DEF AsOnSets
  <2>8. AsReported
    BY <1>11 DEF AsReported
  <2>9. stored' \in Value
    BY <2>4 DEF StringValue
  <2> QED
    BY <1>1, <1>4, <1>8, <1>11, <2>4, <2>7, <2>8, <2>9 DEF FieldInv
<1>12. CASE field \notin StringFields
  <2>1. PICK d : d = RemoveAll(field, stored, patterns)
    OBVIOUS
  <2>2. d \in Removed(field, stored, fieldCalls, patterns, Len(patterns))
    BY <1>1, <1>6, <1>12, <2>1, RemoveAllOfCollection
  <2>3. stored' = d.left /\ reported' = d.gone
    BY <1>3, <2>1
  <2>4. /\ stored' \in Value /\ (n = 0 => stored' = stored) /\ (n >= 1 => stored'.set)
        /\ KeysFit(field, stored')
        /\ Range(stored'.array) = Range(stored.array) \ {patterns[j] : j \in 1 .. Len(patterns)}
        /\ IsTraced(field, fieldCalls', stored'.array)
        /\ \A s : CountOf(s, stored.array) = CountOf(s, stored'.array) + CountOf(s, reported')
    BY <1>5, <1>6, <1>8, <2>2, <2>3 DEF Removed, Outcome
  <2>5. Elements(stored') = RemoveValues(field, Elements(stored), Range(patterns))
    <3>1. CASE n = 0
      <4>1. Range(patterns) = {}
        BY <1>6, <1>9, <3>1
      <4> QED
        BY <1>12, <2>4, <3>1, <4>1 DEF RemoveValues
    <3>2. CASE n >= 1
      <4>1. Range(patterns) # {}
        <5>1. 1 \in 1 .. Len(patterns)
          BY <1>5, <1>6, <3>2
        <5> QED
          BY <1>9, <5>1
      <4>2. Elements(stored') = Held(Elements(stored)) \ Range(patterns)
        BY <1>9, <1>10, <2>4, <3>2 DEF Elements
      <4> QED
        BY <1>12, <4>1, <4>2 DEF RemoveValues
    <3> QED
      BY <1>5, <3>1, <3>2
  <2>6. AsOnSets
    BY <1>7, <1>8, <2>5 DEF AsOnSets
  <2>7. AsReported
    BY <2>4 DEF AsReported
  <2> QED
    BY <1>1, <1>4, <1>5, <1>8, <1>12, <2>4, <2>6, <2>7 DEF FieldInv
<1> QED
  BY <1>11, <1>12

LEMMA FieldInvHolds == FieldInv => HoldsWhatWasAdded
<1> SUFFICES ASSUME FieldInv, field \notin StringFields
             PROVE  LET staying == Staying(field, fieldCalls)
                    IN  /\ Len(stored.array) = Cardinality(staying)
                        /\ \A p \in staying :
                              stored.array[Cardinality({q \in staying : Earlier(q, p)}) + 1] = StringAt(fieldCalls, p)
  BY DEF HoldsWhatWasAdded
<1>1. fieldCalls \in Seq(Call) /\ stored \in Value /\ IsTraced(field, fieldCalls, stored.array)
  BY DEF FieldInv
<1>2. stored.array \in Seq(Strings)
  BY <1>1 DEF Value
<1> QED
  BY <1>1, <1>2, RankOfPlace

LEMMA FieldInvNext == FieldInv /\ [FieldNext]_fieldVars => FieldInv' /\ [AsOnSets]_fieldVars /\ [AsReported]_fieldVars
<1> SUFFICES ASSUME FieldInv, [FieldNext]_fieldVars
             PROVE  FieldInv' /\ [AsOnSets]_fieldVars /\ [AsReported]_fieldVars
  OBVIOUS
<1>1. CASE ReceiveFieldValues
  BY <1>1, AddStep
<1>2. CASE RemoveFieldValues
  BY <1>2, RemoveStep
<1>3. CASE UNCHANGED fieldVars
  BY <1>3 DEF FieldInv, fieldVars
<1> QED
  BY <1>1, <1>2, <1>3 DEF FieldNext

\* The kinds keep the promises: what the tables of Lua hold is what the sets of Conditions hold, whatever
\* the calls, in the order they were made, and what a removal reports is what it took
\* (kind_set.lua, kind_list.lua, kind_string.lua, field.lua).
THEOREM KindsHold == FieldSpec => KindsHoldValues
<1>1. FieldSpec => []FieldInv
  BY FieldInvInit, FieldInvNext, PTL DEF FieldSpec
<1>2. FieldSpec => [][AsOnSets]_fieldVars
  BY <1>1, FieldInvNext, PTL DEF FieldSpec
<1>3. FieldSpec => [][AsReported]_fieldVars
  BY <1>1, FieldInvNext, PTL DEF FieldSpec
<1>4. [][AsOnSets]_fieldVars => ImplementsFieldValues
  BY PTL DEF ImplementsFieldValues, AsOnSets
<1>5. [][AsReported]_fieldVars => RemovalsAreReported
  BY PTL DEF RemovalsAreReported, AsReported
<1>6. FieldSpec => HoldsWhatWasAdded /\ [][HoldsWhatWasAdded']_fieldVars
  BY <1>1, FieldInvHolds, PTL
<1> QED
  BY <1>2, <1>3, <1>4, <1>5, <1>6, PTL DEF KindsHoldValues
=============================================================================
