----------------------------- MODULE Tree_proofs -----------------------------
(***************************************************************************)
(* Proofs about SourceTree.                                                *)
(***************************************************************************)
EXTENDS SourceTree, SequenceTheorems, FiniteSetTheorems, WellFoundedInduction, TLAPS

-----------------------------------------------------------------------------
LEMMA LeastMember ==
    ASSUME NEW T, T \subseteq Nat, T # {}
    PROVE  \E n \in T : \A m \in T : n <= m
<1> DEFINE below == {pair \in Nat \X Nat : pair[1] < pair[2]}
<1>1. IsWellFoundedOn(below, Nat)
  BY NatLessThanWellFounded, Zenon DEF OpToRel
<1>2. PICK n \in T : \A m \in T : <<m, n>> \notin below
  <2> HIDE DEF below
  <2> QED
    BY <1>1, WFMin, Zenon
<1>3. \A m \in T : ~(m < n)
  BY <1>2
<1> QED
  BY <1>3

LEMMA GreatestNumber ==
    ASSUME NEW bound \in Nat, NEW T, T \subseteq 0 .. bound, T # {}
    PROVE  \E n \in T : \A m \in T : m <= n
<1> DEFINE distances == {bound - k : k \in T}
<1>1. distances \subseteq Nat /\ distances # {}
  <2>1. \A k \in T : bound - k \in Nat
    OBVIOUS
  <2> QED
    BY <2>1
<1>2. PICK d \in distances : \A e \in distances : d <= e
  BY <1>1, LeastMember
<1>3. PICK n \in T : d = bound - n
  BY <1>2
<1>4. \A m \in T : bound - m \in distances
  OBVIOUS
<1> HIDE DEF distances
<1>5. \A m \in T : m <= n
  BY <1>2, <1>3, <1>4
<1> QED
  BY <1>5

\* What holds before a loop and is kept by each of its turns holds after all of them.
LEMMA LoopInduction ==
    ASSUME NEW n \in Nat, NEW T, 0 \in T,
           \A k \in 1 .. n : k - 1 \in T => k \in T
    PROVE  0 .. n \subseteq T
<1> DEFINE U == 0 .. n \ T
<1>1. ASSUME U # {}
      PROVE  FALSE
  <2>1. PICK m \in U : \A k \in U : m <= k
    <3> U \subseteq Nat
      OBVIOUS
    <3> HIDE DEF U
    <3> QED
      BY <1>1, LeastMember
  <2>2. m \in 1 .. n /\ m - 1 \in 0 .. n /\ ~(m <= m - 1)
    OBVIOUS
  <2>3. m - 1 \in T
    BY <2>1, <2>2
  <2> QED
    BY <2>2, <2>3
<1> QED
  BY <1>1

\* What holds before turn k of a loop makes what holds after it.
Kept(holds, step, n) == \A k \in 1 .. n : \A x \in holds[k - 1] : step[<<x, k>>] \in holds[k]

\* There is a function that follows a loop turn by turn, and what holds after each turn is said
\* by the set of the turn.
LEMMA LoopExists ==
    ASSUME NEW n \in Nat, NEW holds, NEW before, before \in holds[0], NEW step, Kept(holds, step, n)
    PROVE  \E g : /\ g = [k \in 0 .. n |-> IF k = 0 THEN before ELSE step[<<g[k - 1], k>>]]
                  /\ \A k \in 0 .. n : g[k] \in holds[k]
<1> DEFINE Follows(g, m) ==
        /\ g = [k \in 0 .. m |-> g[k]]
        /\ g[0] = before
        /\ \A k \in 1 .. m : g[k] = step[<<g[k - 1], k>>]
        /\ \A k \in 0 .. m : g[k] \in holds[k]
           T == {m \in 0 .. n : \E g : Follows(g, m)}
<1>1. 0 \in T
  <2>1. PICK g : g = [k \in 0 .. 0 |-> before]
    OBVIOUS
  <2>2. Follows(g, 0)
    BY <2>1
  <2> QED
    BY <2>2
<1>2. ASSUME NEW m \in 1 .. n, m - 1 \in T
      PROVE  m \in T
  <2>1. PICK g : Follows(g, m - 1)
    BY <1>2
  <2>2. PICK h : h = [k \in 0 .. m |-> IF k = m THEN step[<<g[m - 1], m>>] ELSE g[k]]
    OBVIOUS
  <2>3. step[<<g[m - 1], m>>] \in holds[m]
    BY <2>1 DEF Kept
  <2>4. \A k \in 0 .. m : k = m \/ k \in 0 .. m - 1
    OBVIOUS
  <2>5. \A k \in 0 .. m - 1 : h[k] = g[k]
    BY <2>2
  <2>6. h[m] = step[<<g[m - 1], m>>]
    BY <2>2
  <2>7. h = [k \in 0 .. m |-> h[k]]
    BY <2>2
  <2>8. h[0] = before
    BY <2>1, <2>5
  <2>9. \A k \in 1 .. m : h[k] = step[<<h[k - 1], k>>]
    <3>1. ASSUME NEW k \in 1 .. m
          PROVE  h[k - 1] = g[k - 1]
      BY <2>5
    <3>2. ASSUME NEW k \in 1 .. m, k # m
          PROVE  h[k] = g[k] /\ k \in 1 .. m - 1
      BY <2>5, <3>2
    <3> QED
      BY <2>1, <2>6, <3>1, <3>2
  <2>10. \A k \in 0 .. m : h[k] \in holds[k]
    BY <2>1, <2>3, <2>4, <2>5, <2>6
  <2>11. Follows(h, m)
    BY <2>7, <2>8, <2>9, <2>10
  <2> HIDE DEF Follows
  <2> QED
    BY <2>11
<1>3. 0 .. n \subseteq T
  <2> HIDE DEF T
  <2> QED
    BY <1>1, <1>2, LoopInduction
<1>4. PICK g : Follows(g, n)
  BY <1>3
<1>5. \A k \in 0 .. n : g[k] = IF k = 0 THEN before ELSE step[<<g[k - 1], k>>]
  <2>1. \A k \in 0 .. n : k = 0 \/ k \in 1 .. n
    OBVIOUS
  <2> QED
    BY <1>4, <2>1
<1>6. g = [k \in 0 .. n |-> IF k = 0 THEN before ELSE step[<<g[k - 1], k>>]]
  BY <1>4, <1>5
<1> QED
  BY <1>4, <1>6

-----------------------------------------------------------------------------
(***************************************************************************)
(* Paths that are normalized.                                              *)
(***************************************************************************)
\* Nothing but names follows so many leading separators, and `..' only where the names start.
Normal(p, first) ==
    /\ p \in Seq(Range(p)) /\ Len(p) \in Nat /\ first \in {0, 1} /\ first < Len(p)
    /\ first = 1 => p[1] = NONAME
    /\ \A k \in first + 1 .. Len(p) : p[k] \notin {NONAME, "."}
    /\ \A j, k \in first + 1 .. Len(p) : j < k /\ p[k] = ".." => p[j] = ".."

LEMMA NamesDiffer == NONAME # "." /\ NONAME # ".." /\ "." # ".."
  BY Zenon DEF NONAME

LEMMA LeadingOfNormal ==
    ASSUME NEW p, NEW first, Normal(p, first)
    PROVE  Leading(p) = first
<1>1. Len(p) \in Nat /\ first \in {0, 1} /\ first < Len(p)
  BY DEF Normal
<1>2. CASE first = 0
  <2>1. p[1] # NONAME
    BY <1>1, <1>2 DEF Normal
  <2> QED
    BY <1>2, <2>1 DEF Leading
<1>3. CASE first = 1
  <2>1. p[1] = NONAME /\ p[2] # NONAME /\ Len(p) > 1
    BY <1>1, <1>3 DEF Normal
  <2> QED
    BY <1>3, <2>1 DEF Leading
<1> QED
  BY <1>1, <1>2, <1>3

LEMMA NormalizedIsChosen ==
    ASSUME NEW p
    PROVE  NormalizeSubstring(p) =
               Rooted(Leading(p),
                      (CHOOSE out : out = [k \in 0 .. Len(p) - Leading(p) |->
                           IF k = 0 THEN [names |-> <<>>, depth |-> 0]
                           ELSE NormalizeName(out[k - 1], p[Leading(p) + k])])[Len(p) - Leading(p)].names)
  BY DEF NormalizeSubstring

\* What the loop has put out after k names, which is them.
NamesOut(p, first, k) ==
    {out \in [names : Seq(Range(p)), depth : Nat] :
        /\ Len(out.names) = k
        /\ \A j \in 1 .. k : out.names[j] = p[first + j]
        /\ (\A j \in 1 .. k : p[first + j] = "..") => out.depth = 0}

LEMMA NoNames ==
    ASSUME NEW p, NEW first
    PROVE  [names |-> <<>>, depth |-> 0] \in NamesOut(p, first, 0)
<1>1. [names |-> <<>>, depth |-> 0] \in [names : Seq(Range(p)), depth : Nat]
  BY EmptySeq
<1> QED
  BY <1>1 DEF NamesOut

LEMMA NextName ==
    ASSUME NEW p, NEW first, Normal(p, first), NEW k \in 1 .. Len(p) - first,
           NEW out \in NamesOut(p, first, k - 1)
    PROVE  NormalizeName(out, p[first + k]) \in NamesOut(p, first, k)
<1>1. PICK name : name = p[first + k]
  OBVIOUS
<1>2. first \in {0, 1} /\ first + k \in 1 .. Len(p) /\ k - 1 \in Nat /\ k \in Nat
  BY DEF Normal
<1>3. name \in Range(p) /\ name \notin {NONAME, "."}
  BY <1>1, <1>2 DEF Normal, Range
<1>4. /\ out.names \in Seq(Range(p)) /\ out.depth \in Nat /\ Len(out.names) = k - 1
      /\ \A j \in 1 .. k - 1 : out.names[j] = p[first + j]
      /\ (\A j \in 1 .. k - 1 : p[first + j] = "..") => out.depth = 0
  BY DEF NamesOut
<1>5. PICK names : names = Append(out.names, name)
  OBVIOUS
<1>6. /\ names \in Seq(Range(p)) /\ Len(names) = k
      /\ \A j \in 1 .. k : names[j] = p[first + j]
  BY <1>1, <1>2, <1>3, <1>4, <1>5
<1>7. CASE name = ".."
  <2>1. \A j \in 1 .. k - 1 : first + j \in first + 1 .. Len(p) /\ first + j < first + k
    BY <1>2
  <2>2. ASSUME NEW j \in 1 .. k - 1
        PROVE  p[first + j] = ".."
    <3>1. PICK m : m = first + j
      OBVIOUS
    <3>2. PICK n : n = first + k
      OBVIOUS
    <3>3. m \in first + 1 .. Len(p) /\ m < n
      BY <2>1, <3>1, <3>2
    <3>4. n \in first + 1 .. Len(p)
      BY <1>2, <3>2
    <3>5. p[n] = ".."
      BY <1>1, <1>7, <3>2
    <3> QED
      BY <3>1, <3>3, <3>4, <3>5 DEF Normal
  <2>3. out.depth = 0
    BY <1>4, <2>2
  <2>4. NormalizeName(out, name) = [out EXCEPT !.names = names]
    BY <1>5, <1>7, <2>3 DEF NormalizeName
  <2>5. [out EXCEPT !.names = names] \in [names : Seq(Range(p)), depth : Nat]
    BY <1>6 DEF NamesOut
  <2>6. [out EXCEPT !.names = names].names = names /\ [out EXCEPT !.names = names].depth = 0
    BY <2>3 DEF NamesOut
  <2> QED
    BY <1>1, <1>6, <2>4, <2>5, <2>6 DEF NamesOut
<1>8. CASE name # ".."
  <2>1. NormalizeName(out, name) = [names |-> names, depth |-> out.depth + 1]
    BY <1>3, <1>5, <1>8 DEF NormalizeName
  <2>2. ~ \A j \in 1 .. k : p[first + j] = ".."
    BY <1>1, <1>2, <1>8
  <2> QED
    BY <1>1, <1>4, <1>6, <2>1, <2>2 DEF NamesOut
<1> QED
  BY <1>7, <1>8

LEMMA NormalizedNames ==
    ASSUME NEW p, NEW first, Normal(p, first)
    PROVE  \E out \in NamesOut(p, first, Len(p) - first) : NormalizeSubstring(p) = Rooted(first, out.names)
<1>1. PICK n : n = Len(p) - first
  OBVIOUS
<1>2. n \in Nat
  BY <1>1 DEF Normal
<1> DEFINE none == [names |-> <<>>, depth |-> 0]
           turn(out, k) == NormalizeName(out, p[first + k])
<1>3. PICK holds : holds = [k \in 0 .. n |-> NamesOut(p, first, k)]
  OBVIOUS
<1>4. \A k \in 0 .. n : holds[k] = NamesOut(p, first, k)
  BY <1>3
<1>5. none \in holds[0]
  BY <1>2, <1>4, NoNames
<1>6. \A k \in 1 .. n : k - 1 \in 0 .. n /\ k \in 0 .. n
  BY <1>2
<1>7. \A k \in 1 .. n : \A out \in holds[k - 1] : turn(out, k) \in holds[k]
  BY <1>1, <1>4, <1>6, NextName
<1>8. PICK S : S = UNION {holds[k] : k \in 0 .. n}
  OBVIOUS
<1>9. PICK step : step = [x \in S \X (1 .. n) |-> turn(x[1], x[2])]
  OBVIOUS
<1>10. \A k \in 1 .. n : \A out \in holds[k - 1] : step[<<out, k>>] = turn(out, k)
  <2>1. \A k \in 1 .. n : \A out \in holds[k - 1] : out \in S
    BY <1>6, <1>8
  <2> HIDE DEF turn
  <2> QED
    BY <1>9, <2>1
<1> HIDE DEF none, turn
<1>11. Kept(holds, step, n)
  BY <1>7, <1>10 DEF Kept
<1>12. PICK g : /\ g = [k \in 0 .. n |-> IF k = 0 THEN none ELSE step[<<g[k - 1], k>>]]
               /\ \A k \in 0 .. n : g[k] \in holds[k]
  BY <1>2, <1>5, <1>11, LoopExists
<1> DEFINE Loop(h) == h = [k \in 0 .. n |-> IF k = 0 THEN none ELSE turn(h[k - 1], k)]
<1>13. Loop(g)
  <2>1. \A k \in 0 .. n : k # 0 => k \in 1 .. n /\ k - 1 \in 0 .. n
    BY <1>2
  <2>2. \A k \in 0 .. n : k # 0 => step[<<g[k - 1], k>>] = turn(g[k - 1], k)
    BY <1>10, <1>12, <2>1
  <2> QED
    BY <1>12, <2>2
<1>14. PICK h : h = CHOOSE e : Loop(e)
  OBVIOUS
<1>15. Loop(h)
  <2> HIDE DEF Loop
  <2> QED
    BY <1>13, <1>14
<1>16. NormalizeSubstring(p) = Rooted(first, h[n].names)
  BY <1>1, <1>14, LeadingOfNormal, NormalizedIsChosen DEF none, turn
<1> DEFINE T == {k \in 0 .. n : h[k] \in holds[k]}
<1>17. 0 \in T
  BY <1>2, <1>5, <1>15
<1>18. ASSUME NEW k \in 1 .. n, k - 1 \in T
       PROVE  k \in T
  <2>1. h[k] = turn(h[k - 1], k)
    BY <1>2, <1>15
  <2> QED
    BY <1>2, <1>7, <1>18, <2>1
<1>19. 0 .. n \subseteq T
  <2> HIDE DEF T
  <2> QED
    BY <1>2, <1>17, <1>18, LoopInduction
<1>20. h[n] \in holds[n]
  BY <1>2, <1>19
<1> QED
  BY <1>1, <1>2, <1>4, <1>16, <1>20

\* What is normal stays as it is.
LEMMA NormalizedSubstring ==
    ASSUME NEW p, NEW first, Normal(p, first)
    PROVE  NormalizeSubstring(p) = p
<1>1. PICK out \in NamesOut(p, first, Len(p) - first) : NormalizeSubstring(p) = Rooted(first, out.names)
  BY NormalizedNames
<1>2. PICK names : names = out.names
  OBVIOUS
<1>3. /\ names \in Seq(Range(p)) /\ Len(names) = Len(p) - first
      /\ \A j \in 1 .. Len(p) - first : names[j] = p[first + j]
  BY <1>2 DEF NamesOut
<1>4. Len(p) \in Nat /\ first \in {0, 1} /\ first < Len(p) /\ p \in Seq(Range(p))
  BY DEF Normal
<1>5. names # <<>>
  BY <1>3, <1>4
<1>6. PICK seps : seps = [k \in 1 .. first |-> NONAME]
  OBVIOUS
<1>7. seps \in Seq({NONAME}) /\ Len(seps) = first /\ \A k \in 1 .. first : seps[k] = NONAME
  BY <1>4, <1>6
<1>8. PICK whole : whole = seps \o names
  OBVIOUS
<1>9. /\ whole \in Seq({NONAME} \cup Range(p)) /\ Len(whole) = Len(p)
      /\ \A k \in 1 .. Len(whole) : whole[k] = IF k <= first THEN seps[k] ELSE names[k - first]
  <2>1. seps \in Seq({NONAME} \cup Range(p)) /\ names \in Seq({NONAME} \cup Range(p))
    BY <1>3, <1>7
  <2> QED
    BY <1>3, <1>4, <1>7, <1>8, <2>1
<1>10. \A k \in 1 .. Len(whole) : whole[k] = p[k]
  <2>1. ASSUME NEW k \in 1 .. Len(whole), k <= first
        PROVE  whole[k] = p[k]
    <3>1. k = 1 /\ first = 1
      BY <1>4, <1>9, <2>1
    <3> QED
      BY <1>7, <1>9, <3>1 DEF Normal
  <2>2. ASSUME NEW k \in 1 .. Len(whole), ~(k <= first)
        PROVE  whole[k] = p[k]
    <3>1. k - first \in 1 .. Len(p) - first /\ first + (k - first) = k
      BY <1>4, <1>9, <2>2
    <3> QED
      BY <1>3, <1>9, <2>2, <3>1
  <2> QED
    BY <2>1, <2>2
<1>11. whole = p
  <2>1. p \in Seq({NONAME} \cup Range(p))
    BY <1>4
  <2> QED
    BY <1>9, <1>10, <2>1, SeqEqual
<1> QED
  BY <1>1, <1>2, <1>5, <1>6, <1>8, <1>11 DEF Rooted

LEMMA NormalStays ==
    ASSUME NEW p, NEW first, Normal(p, first), p[1] # Variable
    PROVE  Normalize(p) = p
  BY NormalizedSubstring DEF Normalize, IsVariable

LEMMA PrefixFacts ==
    ASSUME NEW S, NEW p \in Seq(S), NEW k \in 1 .. Len(p)
    PROVE  /\ SubSeq(p, 1, k) \in Seq(S) /\ Len(SubSeq(p, 1, k)) = k
           /\ \A j \in 1 .. k : SubSeq(p, 1, k)[j] = p[j]
           /\ Range(SubSeq(p, 1, k)) = {p[j] : j \in 1 .. k}
<1>1. PICK q : q = SubSeq(p, 1, k)
  OBVIOUS
<1>2. Len(p) \in Nat /\ k \in Int
  BY LenProperties
<1>3. q \in Seq(S) /\ Len(q) = k /\ \A j \in 1 .. k : q[j] = p[j]
  BY <1>1, <1>2
<1>4. DOMAIN q = 1 .. k
  BY <1>2, <1>3, LenProperties
<1>5. Range(q) = {p[j] : j \in 1 .. k}
  BY <1>3, <1>4 DEF Range
<1> QED
  BY <1>1, <1>3, <1>5

LEMMA NormalPrefix ==
    ASSUME NEW p, NEW first, Normal(p, first), NEW k \in first + 1 .. Len(p)
    PROVE  Normal(SubSeq(p, 1, k), first)
<1>1. PICK q : q = SubSeq(p, 1, k)
  OBVIOUS
<1>2. p \in Seq(Range(p)) /\ Len(p) \in Nat /\ first \in {0, 1} /\ k \in 1 .. Len(p)
  BY DEF Normal
<1>3. /\ q \in Seq(Range(p)) /\ Len(q) = k
      /\ \A j \in 1 .. k : q[j] = p[j]
  BY <1>1, <1>2, PrefixFacts
<1>4. q \in Seq(Range(q))
  <2>1. DOMAIN q = 1 .. Len(q)
    BY <1>3, LenProperties
  <2>2. \A j \in 1 .. Len(q) : q[j] \in Range(q)
    BY <2>1 DEF Range
  <2> QED
    BY <1>3, <2>2, IsASeq
<1>5. first = 1 => q[1] = NONAME
  BY <1>2, <1>3 DEF Normal
<1>6. \A j \in first + 1 .. Len(q) : q[j] \notin {NONAME, "."}
  <2>1. \A j \in first + 1 .. Len(q) : j \in first + 1 .. Len(p) /\ q[j] = p[j]
    BY <1>2, <1>3
  <2> QED
    BY <2>1 DEF Normal
<1>7. ASSUME NEW i \in first + 1 .. Len(q), NEW j \in first + 1 .. Len(q), i < j, q[j] = ".."
      PROVE  q[i] = ".."
  <2>1. i \in first + 1 .. Len(p) /\ j \in first + 1 .. Len(p) /\ q[i] = p[i] /\ q[j] = p[j]
    BY <1>2, <1>3
  <2> QED
    BY <1>7, <2>1 DEF Normal
<1>8. Len(q) \in Nat /\ first < Len(q)
  BY <1>2, <1>3
<1> QED
  BY <1>1, <1>2, <1>4, <1>5, <1>6, <1>7, <1>8 DEF Normal

LEMMA PlainIsNormal ==
    ASSUME NEW p, IsPlain(p)
    PROVE  Normal(p, 1) /\ p[1] # Variable /\ \A k \in 2 .. Len(p) : p[k] \notin {NONAME, ".", "..", Variable}
<1>1. p[1] # Variable
  BY TreeAssumption DEF IsPlain
<1>2. Len(p) \in Nat
  BY LenProperties DEF IsPlain
<1> QED
  BY <1>1, <1>2 DEF IsPlain, Normal

\* What two paths have in common.
LEMMA CommonIs ==
    ASSUME NEW a, NEW b, Len(a) \in Nat, Len(b) \in Nat
    PROVE  /\ Common(a, b) \in 0 .. Len(a) /\ Common(a, b) <= Len(b)
           /\ \A j \in 1 .. Common(a, b) : a[j] = b[j]
           /\ \A m \in 0 .. Len(a) : m <= Len(b) /\ (\A j \in 1 .. m : a[j] = b[j]) => m <= Common(a, b)
<1>1. PICK T : T = {k \in 0 .. Len(a) : k <= Len(b) /\ \A j \in 1 .. k : a[j] = b[j]}
  OBVIOUS
<1>2. 0 \in T /\ T \subseteq 0 .. Len(a)
  BY <1>1
<1>3. PICK n \in T : \A m \in T : m <= n
  BY <1>2, GreatestNumber
<1>4. PICK c : c = Max(T)
  OBVIOUS
<1>5. c \in T /\ \A m \in T : c >= m
  <2>1. \A m \in T : n >= m
    BY <1>2, <1>3
  <2>2. c = CHOOSE x \in T : \A y \in T : x >= y
    BY <1>4 DEF Max
  <2> QED
    BY <1>3, <2>1, <2>2
<1>6. Common(a, b) = c
  BY <1>1, <1>4 DEF Common
<1>7. \A m \in T : m <= c
  BY <1>2, <1>5
<1> QED
  BY <1>1, <1>5, <1>6, <1>7

-----------------------------------------------------------------------------
(***************************************************************************)
(* Paths of the tree.                                                      *)
(***************************************************************************)
\* How many separators a file's way from the project starts with.
First(f) == IF f[2] = BaseDirectory[2] THEN 0 ELSE 1

LEMMA FarFile ==
    ASSUME NEW p, Normal(p, 1), p[1] # Variable, p[2] # BaseDirectory[2]
    PROVE  Relative(p) = p
<1>1. PICK a : a = BaseDirectory
  OBVIOUS
<1>2. Normal(a, 1) /\ a[1] # Variable /\ a[1] = NONAME /\ Len(a) \in Nat /\ Len(a) > 1
  BY <1>1, TreeAssumption, PlainIsNormal DEF Normal
<1>3. Normalize(a) = a /\ Normalize(p) = p
  BY <1>2, NormalStays
<1>4. p[1] = NONAME /\ Len(p) \in Nat /\ Len(p) > 1
  BY DEF Normal
<1>5. PICK k : k = Common(a, p)
  OBVIOUS
<1>6. k \in 0 .. Len(a) /\ k <= Len(p) /\ \A j \in 1 .. k : a[j] = p[j]
  BY <1>2, <1>4, <1>5, CommonIs
<1>7. ~(k >= 2)
  BY <1>1, <1>6
<1>8. \A j \in 1 .. k : j = 1
  BY <1>6, <1>7
<1>9. \A j \in 1 .. k : a[j] = NONAME
  BY <1>2, <1>8
<1>10. a # p /\ ~IsVariable(p)
  BY <1>1 DEF IsVariable
<1> QED
  BY <1>1, <1>3, <1>5, <1>9, <1>10 DEF Relative, GetRelative

LEMMA NearFile ==
    ASSUME NEW p, Normal(p, 0), p[1] # Variable
    PROVE  Relative(p) = p
<1>1. PICK a : a = BaseDirectory
  OBVIOUS
<1>2. Normal(a, 1) /\ a[1] # Variable /\ a[1] = NONAME /\ Len(a) \in Nat /\ Len(a) > 1
  BY <1>1, TreeAssumption, PlainIsNormal DEF Normal
<1>3. Normalize(a) = a /\ Normalize(p) = p
  BY <1>2, NormalStays
<1>4. p[1] # NONAME /\ Len(p) \in Nat
  BY DEF Normal
<1>5. PICK k : k = Common(a, p)
  OBVIOUS
<1>6. k \in 0 .. Len(a) /\ k <= Len(p) /\ \A j \in 1 .. k : a[j] = p[j]
  BY <1>2, <1>4, <1>5, CommonIs
<1>7. ~(k >= 1)
  BY <1>2, <1>4, <1>6
<1>8. \A j \in 1 .. k : a[j] = NONAME
  BY <1>6, <1>7
<1>9. a # p /\ ~IsVariable(p)
  BY <1>2, <1>4 DEF IsVariable
<1> QED
  BY <1>1, <1>3, <1>5, <1>8, <1>9 DEF Relative, GetRelative

\* The way to a file that starts like the project does.
LEMMA NearWay ==
    ASSUME NEW f \in SourceFiles, First(f) = 0
    PROVE  Normal(Relative(f), 0) /\ Relative(f)[1] # Variable
<1>1. PICK a : a = BaseDirectory
  OBVIOUS
<1>2. Normal(a, 1) /\ a[1] # Variable /\ a[1] = NONAME /\ Len(a) \in Nat /\ Len(a) > 1
  BY <1>1, TreeAssumption, PlainIsNormal DEF Normal
<1>3. /\ Normal(f, 1) /\ f[1] # Variable /\ f # a
      /\ \A k \in 2 .. Len(f) : f[k] \notin {NONAME, ".", "..", Variable}
  BY <1>1, TreeAssumption, PlainIsNormal
<1>4. f[1] = NONAME /\ f \in Seq(Range(f)) /\ a \in Seq(Range(a)) /\ Len(f) \in Nat /\ Len(f) > 1 /\ f[2] = a[2]
  BY <1>1, <1>2, <1>3 DEF Normal, First
<1>5. Normalize(a) = a /\ Normalize(f) = f
  BY <1>2, <1>3, NormalStays
<1>6. PICK k : k = Common(a, f)
  OBVIOUS
<1>7. k \in 0 .. Len(a) /\ k <= Len(f) /\ \A j \in 1 .. k : a[j] = f[j]
  BY <1>2, <1>4, <1>6, CommonIs
<1>8. k >= 2
  <2>1. 2 \in 0 .. Len(a) /\ 2 <= Len(f) /\ \A j \in 1 .. 2 : a[j] = f[j]
    BY <1>2, <1>4
  <2> QED
    BY <1>2, <1>4, <1>6, <2>1, CommonIs
<1>9. ~ \A j \in 1 .. k : a[j] = NONAME
  <2>1. 2 \in 1 .. k /\ a[2] = f[2] /\ f[2] # NONAME
    BY <1>3, <1>4, <1>7, <1>8
  <2> QED
    BY <2>1
<1>10. PICK ups : ups = [j \in 1 .. Len(a) - k |-> ".."]
  OBVIOUS
<1>11. PICK downs : downs = SubSeq(f, k + 1, Len(f))
  OBVIOUS
<1>12. Relative(f) = ups \o downs
  BY <1>1, <1>3, <1>5, <1>6, <1>9, <1>10, <1>11 DEF Relative, GetRelative, IsVariable
<1>13. PICK u : u = Len(a) - k
  OBVIOUS
<1>14. PICK d : d = Len(f) - k
  OBVIOUS
<1>15. u \in Nat /\ d \in Nat
  BY <1>2, <1>4, <1>7, <1>13, <1>14
<1>16. u + d > 0
  <2>1. SUFFICES ASSUME u = 0, d = 0
                 PROVE  FALSE
    BY <1>15
  <2>2. Len(a) = k /\ Len(f) = k
    BY <1>2, <1>4, <1>7, <1>13, <1>14, <2>1
  <2>3. a \in Seq(Range(a) \cup Range(f)) /\ f \in Seq(Range(a) \cup Range(f))
    BY <1>4
  <2>4. a = f
    BY <1>7, <2>2, <2>3, SeqEqual
  <2> QED
    BY <1>3, <2>4
<1>17. ups \in Seq({".."}) /\ Len(ups) = u /\ \A j \in 1 .. u : ups[j] = ".."
  BY <1>10, <1>13, <1>15
<1>18. downs \in Seq(Range(f)) /\ Len(downs) = d /\ \A j \in 1 .. d : downs[j] = f[k + j]
  BY <1>4, <1>7, <1>11, <1>14, <1>15
<1>19. PICK S : S = Range(f) \cup {".."}
  OBVIOUS
<1>20. ups \in Seq(S) /\ downs \in Seq(S)
  BY <1>17, <1>18, <1>19
<1>21. PICK r : r = ups \o downs
  OBVIOUS
<1>22. /\ r \in Seq(S) /\ Len(r) = u + d
       /\ \A j \in 1 .. u + d : r[j] = IF j <= u THEN ".." ELSE f[k + j - u]
  <2>1. /\ r \in Seq(S) /\ Len(r) = Len(ups) + Len(downs)
        /\ \A j \in 1 .. Len(ups) + Len(downs) : r[j] = IF j <= Len(ups) THEN ups[j] ELSE downs[j - Len(ups)]
    BY <1>20, <1>21, ConcatProperties
  <2>2. /\ r \in Seq(S) /\ Len(r) = u + d
        /\ \A j \in 1 .. u + d : r[j] = IF j <= u THEN ups[j] ELSE downs[j - u]
    BY <1>17, <1>18, <2>1
  <2>3. \A j \in 1 .. u + d : j <= u => j \in 1 .. u
    BY <1>15
  <2>4. \A j \in 1 .. u + d : ~(j <= u) => j - u \in 1 .. d /\ k + (j - u) = k + j - u
    BY <1>7, <1>15
  <2> QED
    BY <1>17, <1>18, <2>2, <2>3, <2>4
<1>23. \A j \in 1 .. u + d : ~(j <= u) => k + j - u \in 2 .. Len(f)
  BY <1>4, <1>7, <1>8, <1>14, <1>15
<1>24. \A j \in 1 .. u + d : r[j] \notin {NONAME, ".", Variable} /\ (r[j] = ".." <=> j <= u)
  BY <1>3, <1>22, <1>23, NamesDiffer, TreeAssumption
<1>25. r \in Seq(Range(r))
  <2>1. DOMAIN r = 1 .. Len(r) /\ Len(r) \in Nat
    BY <1>22, LenProperties
  <2>2. \A j \in 1 .. Len(r) : r[j] \in Range(r)
    BY <2>1 DEF Range
  <2> QED
    BY <1>22, <2>1, <2>2
<1>26. \A i, j \in 1 .. u + d : i < j /\ r[j] = ".." => r[i] = ".."
  <2>1. \A i, j \in 1 .. u + d : i < j /\ j <= u => i <= u
    BY <1>15
  <2> QED
    BY <1>24, <2>1
<1>27. Normal(r, 0)
  BY <1>15, <1>16, <1>22, <1>24, <1>25, <1>26 DEF Normal
<1>28. r[1] # Variable
  BY <1>15, <1>16, <1>24
<1> QED
  BY <1>12, <1>21, <1>27, <1>28

LEMMA WayFacts ==
    ASSUME NEW f \in SourceFiles
    PROVE  /\ First(f) \in {0, 1} /\ Normal(Relative(f), First(f)) /\ Relative(f)[1] # Variable
           /\ First(f) = 1 => Relative(f) = f /\ f[2] # BaseDirectory[2] /\ Len(f) > 2
<1>1. CASE First(f) = 0
  BY <1>1, NearWay
<1>2. CASE First(f) # 0
  <2>1. First(f) = 1 /\ f[2] # BaseDirectory[2]
    BY <1>2 DEF First
  <2>2. Normal(f, 1) /\ f[1] # Variable /\ Len(f) > 2
    BY TreeAssumption, PlainIsNormal
  <2>3. Relative(f) = f
    BY <2>1, <2>2, FarFile
  <2> QED
    BY <2>1, <2>2, <2>3
<1> QED
  BY <1>1, <1>2

\* A file and the directories above it, seen from the project.
Steps(f) == {SubSeq(Relative(f), 1, k) : k \in First(f) + 1 .. Len(Relative(f))}

TreePaths == UNION {Steps(f) : f \in SourceFiles}

\* What the root of the tree is the directory of.
IsTop(p) == GetDirectory(p) \in {DOT, ROOT}

LEMMA NormalIsSome ==
    ASSUME NEW p, NEW first, Normal(p, first)
    PROVE  p \notin {DOT, EMPTY, ROOT} /\ p # <<>>
<1>1. Len(p) \in Nat /\ first \in {0, 1} /\ first < Len(p) /\ (first = 1 => p[1] = NONAME)
  BY DEF Normal
<1>2. p[first + 1] \notin {NONAME, "."}
  <2>1. first + 1 \in first + 1 .. Len(p)
    BY <1>1
  <2> QED
    BY <2>1 DEF Normal
<1>3. p # DOT
  <2>1. Len(DOT) = 1 /\ DOT[1] = "."
    BY DEF DOT
  <2>2. SUFFICES ASSUME p = DOT
                 PROVE  FALSE
    OBVIOUS
  <2>3. Len(p) = 1 /\ p[1] = "."
    BY <2>1, <2>2
  <2>4. first = 0
    BY <1>1, <2>3
  <2> QED
    BY <1>2, <2>3, <2>4
<1>4. p # EMPTY
  <2>1. Len(EMPTY) = 1 /\ EMPTY[1] = NONAME
    BY DEF EMPTY
  <2> QED
    BY <1>1, <1>2, <2>1
<1>5. p # ROOT
  <2>1. Len(ROOT) = 2 /\ ROOT[1] = NONAME /\ ROOT[2] = NONAME
    BY DEF ROOT
  <2> QED
    BY <1>1, <1>2, <2>1
<1>6. p # <<>>
  BY <1>1
<1> QED
  BY <1>3, <1>4, <1>5, <1>6

\* The directories of the steps of a way.
LEMMA StepFacts ==
    ASSUME NEW f \in SourceFiles, NEW k \in First(f) + 1 .. Len(Relative(f))
    PROVE  LET p == SubSeq(Relative(f), 1, k)
           IN  /\ p \in Steps(f) /\ Normal(p, First(f)) /\ p[1] # Variable /\ Len(p) = k /\ Last(p) = Relative(f)[k]
               /\ IsTop(p) <=> k = First(f) + 1
               /\ k # First(f) + 1 =>
                     GetDirectory(p) = SubSeq(Relative(f), 1, k - 1) /\ SubSeq(Relative(f), 1, k - 1) \in Steps(f)
<1>1. PICK r : r = Relative(f)
  OBVIOUS
<1>2. PICK first : first = First(f)
  OBVIOUS
<1>3. first \in {0, 1} /\ Normal(r, first) /\ r[1] # Variable /\ r \in Seq(Range(r)) /\ Len(r) \in Nat
  BY <1>1, <1>2, WayFacts DEF Normal
<1>4. PICK p : p = SubSeq(r, 1, k)
  OBVIOUS
<1>5. k \in 1 .. Len(r) /\ k \in first + 1 .. Len(r)
  BY <1>1, <1>2, <1>3
<1>6. p \in Seq(Range(r)) /\ Len(p) = k /\ \A j \in 1 .. k : p[j] = r[j]
  BY <1>3, <1>4, <1>5, PrefixFacts
<1>7. Normal(p, first)
  BY <1>3, <1>4, <1>5, NormalPrefix
<1>8. p \in Steps(f)
  BY <1>1, <1>2, <1>4, <1>5 DEF Steps
<1>9. p[1] # Variable /\ Last(p) = r[k]
  BY <1>3, <1>5, <1>6 DEF Last
<1>10. PICK q : q = SubSeq(r, 1, k - 1)
  OBVIOUS
<1>11. Front(p) = q
  <2>1. CASE k = 1
    <3>1. Front(p) = SubSeq(p, 1, 0) /\ q = SubSeq(r, 1, 0)
      BY <1>6, <1>10, <2>1 DEF Front
    <3>2. SubSeq(p, 1, 0) = <<>> /\ SubSeq(r, 1, 0) = <<>>
      BY SubSeqEmpty
    <3> QED
      BY <3>1, <3>2
  <2>2. CASE k # 1
    <3>1. k - 1 \in 1 .. Len(p) /\ k - 1 \in 1 .. Len(r)
      BY <1>3, <1>5, <1>6, <2>2
    <3>2. PICK front : front = SubSeq(p, 1, k - 1)
      OBVIOUS
    <3>3. front \in Seq(Range(r)) /\ Len(front) = k - 1 /\ \A j \in 1 .. k - 1 : front[j] = p[j]
      BY <1>6, <3>1, <3>2, PrefixFacts
    <3>4. q \in Seq(Range(r)) /\ Len(q) = k - 1 /\ \A j \in 1 .. k - 1 : q[j] = r[j]
      BY <1>3, <1>10, <3>1, PrefixFacts
    <3>5. \A j \in 1 .. k - 1 : p[j] = r[j]
      BY <1>5, <1>6
    <3>6. front = q
      BY <3>3, <3>4, <3>5, SeqEqual
    <3> QED
      BY <1>6, <3>2, <3>6 DEF Front
  <2> QED
    BY <2>1, <2>2
<1>12. CASE k = first + 1
  <2>1. CASE first = 0
    <3>1. GetDirectory(p) = DOT
      BY <1>6, <1>12, <2>1 DEF GetDirectory
    <3> QED
      BY <1>1, <1>2, <1>4, <1>6, <1>7, <1>8, <1>9, <1>12, <3>1 DEF IsTop
  <2>2. CASE first = 1
    <3>1. q \in Seq(Range(r)) /\ Len(q) = 1 /\ q[1] = NONAME
      <4>1. k - 1 = 1 /\ 1 \in 1 .. Len(r) /\ r[1] = NONAME
        BY <1>3, <1>5, <1>12, <2>2 DEF Normal
      <4> QED
        BY <1>3, <1>10, <4>1, PrefixFacts
    <3>2. q = EMPTY
      BY <3>1 DEF EMPTY
    <3>3. GetDirectory(p) = ROOT
      BY <1>6, <1>11, <1>12, <2>2, <3>2 DEF GetDirectory
    <3> QED
      BY <1>1, <1>2, <1>4, <1>6, <1>7, <1>8, <1>9, <1>12, <3>3 DEF IsTop
  <2> QED
    BY <1>3, <2>1, <2>2
<1>13. CASE k # first + 1
  <2>1. k - 1 \in first + 1 .. Len(r) /\ k # 1
    BY <1>3, <1>5, <1>13
  <2>2. Normal(q, first)
    BY <1>3, <1>10, <2>1, NormalPrefix
  <2>3. q \notin {DOT, EMPTY, ROOT}
    BY <2>2, NormalIsSome
  <2>4. GetDirectory(p) = q
    BY <1>6, <1>11, <2>1, <2>3 DEF GetDirectory
  <2>5. q \in Steps(f)
    BY <1>1, <1>2, <1>10, <2>1 DEF Steps
  <2>6. ~IsTop(p)
    BY <2>3, <2>4 DEF IsTop
  <2> QED
    BY <1>1, <1>2, <1>4, <1>6, <1>7, <1>8, <1>9, <1>10, <1>13, <2>4, <2>5, <2>6
<1> QED
  BY <1>12, <1>13

LEMMA TreePathFacts ==
    ASSUME NEW p \in TreePaths
    PROVE  /\ p \notin {DOT, EMPTY, ROOT} /\ Len(p) \in Nat /\ Len(p) > 0 /\ p \in Seq(Range(p))
           /\ Relative(p) = p
           /\ Last(p) \in Range(NameOrder)
           /\ ~IsTop(p) =>
                 GetDirectory(p) \in TreePaths /\ GetDirectory(p) = Front(p) /\ Len(GetDirectory(p)) = Len(p) - 1
<1>1. PICK f \in SourceFiles : p \in Steps(f)
  BY DEF TreePaths
<1>2. PICK k \in First(f) + 1 .. Len(Relative(f)) : p = SubSeq(Relative(f), 1, k)
  BY <1>1 DEF Steps
<1>3. PICK r : r = Relative(f)
  OBVIOUS
<1>4. PICK first : first = First(f)
  OBVIOUS
<1>5. /\ Normal(p, first) /\ p[1] # Variable /\ Len(p) = k /\ Last(p) = r[k]
      /\ IsTop(p) <=> k = first + 1
      /\ k # first + 1 =>
            GetDirectory(p) = SubSeq(r, 1, k - 1) /\ SubSeq(r, 1, k - 1) \in Steps(f)
  BY <1>2, <1>3, <1>4, StepFacts
<1>6. p \notin {DOT, EMPTY, ROOT} /\ Len(p) \in Nat /\ Len(p) > 0 /\ p \in Seq(Range(p))
  <2>1. p \notin {DOT, EMPTY, ROOT}
    BY <1>5, NormalIsSome
  <2> QED
    BY <1>5, <2>1 DEF Normal
<1>7. first \in {0, 1} /\ Normal(r, first) /\ Len(r) \in Nat /\ r \in Seq(Range(r)) /\ k \in first + 1 .. Len(r)
  BY <1>3, <1>4, WayFacts DEF Normal
<1>8. Relative(p) = p
  <2>1. CASE first = 0
    BY <1>5, <2>1, NearFile
  <2>2. CASE first = 1
    <3>1. r = f /\ f[2] # BaseDirectory[2]
      BY <1>3, <1>4, <2>2, WayFacts
    <3>2. 2 \in 1 .. k /\ k \in 1 .. Len(r)
      BY <1>7, <2>2
    <3>3. p[2] = r[2]
      BY <1>2, <1>3, <1>7, <3>2, PrefixFacts
    <3> QED
      BY <1>5, <2>2, <3>1, <3>3, FarFile
  <2> QED
    BY <1>7, <2>1, <2>2
<1>9. Last(p) \in Range(NameOrder)
  <2>1. r[k] # NONAME
    BY <1>7 DEF Normal
  <2>2. r[k] \in Range(r)
    <3>1. k \in 1 .. Len(r) /\ DOMAIN r = 1 .. Len(r)
      BY <1>7, LenProperties
    <3> QED
      BY <3>1 DEF Range
  <2>3. Range(r) \ {NONAME} \subseteq Range(NameOrder)
    BY <1>3, TreeAssumption
  <2> QED
    BY <1>5, <2>1, <2>2, <2>3
<1>10. ASSUME ~IsTop(p)
      PROVE  GetDirectory(p) \in TreePaths /\ GetDirectory(p) = Front(p) /\ Len(GetDirectory(p)) = Len(p) - 1
  <2>1. GetDirectory(p) = SubSeq(r, 1, k - 1) /\ SubSeq(r, 1, k - 1) \in Steps(f) /\ k - 1 \in 1 .. Len(r)
    BY <1>5, <1>7, <1>10
  <2>2. GetDirectory(p) \in TreePaths
    BY <2>1 DEF TreePaths
  <2>3. Len(SubSeq(r, 1, k - 1)) = k - 1
    BY <1>7, <2>1, PrefixFacts
  <2>4. GetDirectory(p) = Front(p)
    BY <1>10 DEF IsTop, GetDirectory
  <2> QED
    BY <1>5, <2>1, <2>2, <2>3, <2>4
<1> QED
  BY <1>6, <1>8, <1>9, <1>10

\* A path at the top is its name, after the separator if there is one.
LEMMA TopPath ==
    ASSUME NEW f \in SourceFiles, NEW p \in Steps(f), IsTop(p)
    PROVE  p = IF First(f) = 0 THEN <<Relative(f)[1]>> ELSE <<NONAME, f[2]>>
<1>1. PICK k \in First(f) + 1 .. Len(Relative(f)) : p = SubSeq(Relative(f), 1, k)
  BY DEF Steps
<1>2. PICK r : r = Relative(f)
  OBVIOUS
<1>3. PICK first : first = First(f)
  OBVIOUS
<1>4. first \in {0, 1} /\ Normal(r, first) /\ r \in Seq(Range(r)) /\ k \in 1 .. Len(r) /\ k = first + 1
  BY <1>1, <1>2, <1>3, StepFacts, WayFacts DEF Normal
<1>5. p \in Seq(Range(r)) /\ Len(p) = k /\ \A j \in 1 .. k : p[j] = r[j]
  BY <1>1, <1>2, <1>4, PrefixFacts
<1>6. CASE first = 0
  <2>1. p = <<r[1]>>
    BY <1>4, <1>5, <1>6
  <2> QED
    BY <1>2, <1>3, <1>6, <2>1
<1>7. CASE first = 1
  <2>1. r[1] = NONAME /\ r = f
    BY <1>2, <1>3, <1>4, <1>7, WayFacts DEF Normal
  <2>2. p = <<NONAME, f[2]>>
    BY <1>4, <1>5, <1>7, <2>1
  <2> QED
    BY <1>3, <1>7, <2>2
<1> QED
  BY <1>4, <1>6, <1>7

\* Two paths of one directory and one name are the same.
LEMMA SamePath ==
    ASSUME NEW p \in TreePaths, NEW q \in TreePaths, Last(p) = Last(q),
           \/ IsTop(p) /\ IsTop(q)
           \/ ~IsTop(p) /\ ~IsTop(q) /\ GetDirectory(p) = GetDirectory(q)
    PROVE  p = q
<1>1. CASE IsTop(p) /\ IsTop(q)
  <2>1. PICK f \in SourceFiles, g \in SourceFiles : p \in Steps(f) /\ q \in Steps(g)
    BY DEF TreePaths
  <2>2. /\ p = IF First(f) = 0 THEN <<Relative(f)[1]>> ELSE <<NONAME, f[2]>>
        /\ q = IF First(g) = 0 THEN <<Relative(g)[1]>> ELSE <<NONAME, g[2]>>
    BY <1>1, <2>1, TopPath
  <2>3. Last(p) = (IF First(f) = 0 THEN Relative(f)[1] ELSE f[2]) /\ Last(q) = (IF First(g) = 0 THEN Relative(g)[1] ELSE g[2])
    BY <2>2 DEF Last
  <2>4. (First(f) = 0) <=> (First(g) = 0)
    BY <2>3, TreeAssumption DEF First
  <2> QED
    BY <2>2, <2>3, <2>4
<1>2. CASE ~IsTop(p) /\ ~IsTop(q) /\ GetDirectory(p) = GetDirectory(q)
  <2>1. /\ Len(p) \in Nat /\ Len(q) \in Nat /\ Len(p) > 0 /\ Len(p) = Len(q)
        /\ p \in Seq(Range(p)) /\ q \in Seq(Range(q)) /\ Front(p) = Front(q)
    BY <1>2, TreePathFacts
  <2>2. PICK S : S = Range(p) \cup Range(q)
    OBVIOUS
  <2>3. p \in Seq(S) /\ q \in Seq(S)
    BY <2>1, <2>2
  <2>4. \A j \in 1 .. Len(p) - 1 : Front(p)[j] = p[j] /\ Front(q)[j] = q[j]
    BY <2>1, <2>3 DEF Front
  <2>5. p[Len(p)] = q[Len(p)]
    BY <2>1 DEF Last
  <2>6. \A j \in 1 .. Len(p) : j \in 1 .. Len(p) - 1 \/ j = Len(p)
    BY <2>1
  <2>7. \A j \in 1 .. Len(p) : p[j] = q[j]
    BY <2>1, <2>4, <2>5, <2>6
  <2> QED
    BY <2>1, <2>3, <2>7, SeqEqual
<1> QED
  BY <1>1, <1>2

\* The prefixes of a way, but for what stands for no node, are its steps.
LEMMA StepsArePrefixes ==
    ASSUME NEW f \in SourceFiles
    PROVE  Prefixes(Relative(f)) \ {<<>>, EMPTY} = Steps(f)
<1>1. PICK r : r = Relative(f)
  OBVIOUS
<1>2. PICK first : first = First(f)
  OBVIOUS
<1>3. first \in {0, 1} /\ Normal(r, first) /\ r \in Seq(Range(r)) /\ Len(r) \in Nat
  BY <1>1, <1>2, WayFacts DEF Normal
<1>4. ASSUME NEW k \in 0 .. Len(r), k <= first
      PROVE  SubSeq(r, 1, k) \in {<<>>, EMPTY}
  <2>1. CASE k = 0
    BY <2>1, SubSeqEmpty
  <2>2. CASE k = 1
    <3>1. PICK q : q = SubSeq(r, 1, 1)
      OBVIOUS
    <3>2. 1 \in 1 .. Len(r) /\ r[1] = NONAME
      BY <1>3, <1>4, <2>2 DEF Normal
    <3>3. q \in Seq(Range(r)) /\ Len(q) = 1 /\ q[1] = NONAME
      BY <1>3, <3>1, <3>2, PrefixFacts
    <3>4. q = EMPTY
      BY <3>3 DEF EMPTY
    <3> QED
      BY <2>2, <3>1, <3>4
  <2> QED
    BY <1>3, <1>4, <2>1, <2>2
<1>5. ASSUME NEW k \in first + 1 .. Len(r)
      PROVE  SubSeq(r, 1, k) \notin {<<>>, EMPTY}
  BY <1>3, <1>5, NormalPrefix, NormalIsSome
<1>6. \A k \in 0 .. Len(r) : k <= first \/ k \in first + 1 .. Len(r)
  BY <1>3
<1>7. \A k \in first + 1 .. Len(r) : k \in 0 .. Len(r)
  BY <1>3
<1> QED
  BY <1>1, <1>2, <1>4, <1>5, <1>6, <1>7 DEF Prefixes, Steps

-----------------------------------------------------------------------------
(***************************************************************************)
(* Trees.                                                                  *)
(***************************************************************************)
Node == [name : Range(NameOrder) \cup {NONAME}, path : TreePaths \cup {EMPTY}, children : Nat]

TreeType == [nodes : Seq(Node), lists : Seq(Seq(Nat))]

NodesOf(t) == 1 .. Len(t.nodes)
BelowRoot(t) == 2 .. Len(t.nodes)

\* Node m is the directory of what has path p.
Above(t, m, p) ==
    /\ m \in NodesOf(t)
    /\ \/ m = ROOTNODE /\ IsTop(p)
       \/ m # ROOTNODE /\ ~IsTop(p) /\ t.nodes[m].path = GetDirectory(p)

\* There is one node for each of the paths.
NodesSound(t, P) ==
    /\ Len(t.nodes) > 0
    /\ \A n \in BelowRoot(t) : t.nodes[n].path \in TreePaths /\ t.nodes[n].name = Last(t.nodes[n].path)
    /\ \A m, n \in BelowRoot(t) : t.nodes[m].path = t.nodes[n].path => m = n
    /\ \A p : p \in P <=> \E n \in BelowRoot(t) : t.nodes[n].path = p

\* Nodes share no list but the empty one.
ListsOwned(t) ==
    /\ Len(t.lists) > 0 /\ t.lists[_EMPTY] = <<>>
    /\ \A n \in NodesOf(t) : t.nodes[n].children \in 1 .. Len(t.lists)
    /\ \A m, n \in NodesOf(t) : t.nodes[m].children = t.nodes[n].children /\ t.nodes[n].children # _EMPTY => m = n

\* A node is listed only by its directory, and once.
ListsSound(t) ==
    /\ \A l \in 1 .. Len(t.lists) : \A k \in 1 .. Len(t.lists[l]) :
          /\ t.lists[l][k] \in BelowRoot(t)
          /\ \E m \in NodesOf(t) : t.nodes[m].children = l /\ Above(t, m, t.nodes[t.lists[l][k]].path)
    /\ \A l \in 1 .. Len(t.lists) : \A j, k \in 1 .. Len(t.lists[l]) : t.lists[l][j] = t.lists[l][k] => j = k

SoundTree(t, P) == t \in TreeType /\ NodesSound(t, P) /\ ListsOwned(t) /\ ListsSound(t)

Listed(t, m, n) == \E k \in 1 .. Len(t.lists[t.nodes[m].children]) : t.lists[t.nodes[m].children][k] = n

AllListed(t) == \A n \in BelowRoot(t) : \E m \in NodesOf(t) : Above(t, m, t.nodes[n].path) /\ Listed(t, m, n)

LEMMA TreeFacts ==
    ASSUME NEW t \in TreeType
    PROVE  /\ t.nodes \in Seq(Node) /\ Len(t.nodes) \in Nat /\ DOMAIN t.nodes = 1 .. Len(t.nodes)
           /\ \A n \in NodesOf(t) : t.nodes[n] \in Node
           /\ t.lists \in Seq(Seq(Nat)) /\ Len(t.lists) \in Nat /\ DOMAIN t.lists = 1 .. Len(t.lists)
           /\ \A l \in 1 .. Len(t.lists) :
                 t.lists[l] \in Seq(Nat) /\ Len(t.lists[l]) \in Nat /\ DOMAIN t.lists[l] = 1 .. Len(t.lists[l])
<1>1. t.nodes \in Seq(Node) /\ t.lists \in Seq(Seq(Nat))
  BY DEF TreeType
<1>2. Len(t.nodes) \in Nat /\ DOMAIN t.nodes = 1 .. Len(t.nodes) /\ \A n \in 1 .. Len(t.nodes) : t.nodes[n] \in Node
  BY <1>1, LenProperties, ElementOfSeq
<1>3. Len(t.lists) \in Nat /\ DOMAIN t.lists = 1 .. Len(t.lists) /\ \A l \in 1 .. Len(t.lists) : t.lists[l] \in Seq(Nat)
  BY <1>1, LenProperties, ElementOfSeq
<1>4. \A l \in 1 .. Len(t.lists) : Len(t.lists[l]) \in Nat /\ DOMAIN t.lists[l] = 1 .. Len(t.lists[l])
  BY <1>3, LenProperties
<1> QED
  BY <1>1, <1>2, <1>3, <1>4 DEF NodesOf

\* What a path is listed by, if anything, is the one node of its directory.
LEMMA AboveIsOne ==
    ASSUME NEW t, NEW P, SoundTree(t, P), NEW p, NEW m, NEW n, Above(t, m, p), Above(t, n, p)
    PROVE  m = n
<1>1. CASE IsTop(p)
  BY <1>1 DEF Above
<1>2. CASE ~IsTop(p)
  <2>1. m \in BelowRoot(t) /\ n \in BelowRoot(t) /\ t.nodes[m].path = t.nodes[n].path
    BY <1>2, TreeFacts DEF Above, NodesOf, BelowRoot, SoundTree, ROOTNODE
  <2> QED
    BY <2>1 DEF SoundTree, NodesSound
<1> QED
  BY <1>1, <1>2

LEMMA ListedBelow ==
    ASSUME NEW t, NEW P, SoundTree(t, P), NEW m \in NodesOf(t), NEW n, Listed(t, m, n)
    PROVE  n \in BelowRoot(t) /\ Above(t, m, t.nodes[n].path) /\ t.nodes[m].children # _EMPTY
<1>1. PICK l : l = t.nodes[m].children
  OBVIOUS
<1>2. l \in 1 .. Len(t.lists)
  BY <1>1 DEF SoundTree, ListsOwned
<1>3. PICK k \in 1 .. Len(t.lists[l]) : t.lists[l][k] = n
  BY <1>1 DEF Listed
<1>4. n \in BelowRoot(t) /\ \E o \in NodesOf(t) : t.nodes[o].children = l /\ Above(t, o, t.nodes[n].path)
  BY <1>2, <1>3 DEF SoundTree, ListsSound
<1>5. PICK o \in NodesOf(t) : t.nodes[o].children = l /\ Above(t, o, t.nodes[n].path)
  BY <1>4
<1>6. l # _EMPTY
  <2>1. SUFFICES ASSUME l = _EMPTY
                 PROVE  FALSE
    OBVIOUS
  <2>2. t.lists[l] = <<>>
    BY <2>1 DEF SoundTree, ListsOwned
  <2> QED
    BY <1>3, <2>2
<1>7. o = m
  BY <1>1, <1>5, <1>6 DEF SoundTree, ListsOwned
<1> QED
  BY <1>1, <1>4, <1>5, <1>6, <1>7

LEMMA RangeOfChildren ==
    ASSUME NEW t, NEW P, SoundTree(t, P), NEW m \in NodesOf(t), NEW n
    PROVE  n \in Range(Children(t, m)) <=> Listed(t, m, n)
<1>1. t.nodes[m].children \in 1 .. Len(t.lists) /\ t \in TreeType
  BY DEF SoundTree, ListsOwned
<1>2. DOMAIN t.lists[t.nodes[m].children] = 1 .. Len(t.lists[t.nodes[m].children])
  BY <1>1, TreeFacts
<1> QED
  BY <1>2 DEF Range, Children, Listed

-----------------------------------------------------------------------------
(***************************************************************************)
(* Adding to a tree.                                                       *)
(***************************************************************************)
LEMMA OwnListSound ==
    ASSUME NEW t, NEW P, SoundTree(t, P), AllListed(t), NEW parent \in NodesOf(t)
    PROVE  LET owned == OwnList(t, parent)
           IN  /\ SoundTree(owned, P) /\ AllListed(owned) /\ owned.nodes[parent].children # _EMPTY
               /\ Len(owned.nodes) = Len(t.nodes)
               /\ \A n \in NodesOf(t) : owned.nodes[n].path = t.nodes[n].path
<1>1. CASE t.nodes[parent].children # _EMPTY
  BY <1>1 DEF OwnList
<1>2. CASE t.nodes[parent].children = _EMPTY
  <2>1. PICK o : o = OwnList(t, parent)
    OBVIOUS
  <2>2. PICK new : new = Len(t.lists) + 1
    OBVIOUS
  <2>3. o = [nodes |-> [t.nodes EXCEPT ![parent].children = new], lists |-> Append(t.lists, <<>>)]
    BY <1>2, <2>1, <2>2 DEF OwnList
  <2>4. /\ t \in TreeType /\ Len(t.lists) \in Nat /\ Len(t.lists) > 0 /\ new \in Nat
        /\ parent \in 1 .. Len(t.nodes) /\ Len(t.nodes) \in Nat
    BY <2>2, TreeFacts DEF SoundTree, ListsOwned, NodesOf
  <2>5. PICK node : node = [t.nodes[parent] EXCEPT !.children = new]
    OBVIOUS
  <2>6. t.nodes[parent] \in Node
    BY <2>4, TreeFacts
  <2>7. /\ node \in Node /\ node.path = t.nodes[parent].path /\ node.name = t.nodes[parent].name
        /\ node.children = new
    BY <2>4, <2>5, <2>6 DEF Node
  <2>8. o.nodes = [t.nodes EXCEPT ![parent] = node]
    BY <2>3, <2>5
  <2>9. /\ o.nodes \in Seq(Node) /\ Len(o.nodes) = Len(t.nodes)
        /\ \A n \in 1 .. Len(t.nodes) : o.nodes[n] = IF n = parent THEN node ELSE t.nodes[n]
    BY <2>4, <2>7, <2>8, TreeFacts
  <2>10. /\ o.lists \in Seq(Seq(Nat)) /\ Len(o.lists) = new
         /\ \A l \in 1 .. Len(t.lists) : o.lists[l] = t.lists[l]
         /\ o.lists[new] = <<>>
    <3>1. <<>> \in Seq(Nat) /\ o.lists = Append(t.lists, <<>>)
      BY <2>3, EmptySeq
    <3> QED
      BY <2>2, <2>4, <3>1, TreeFacts, AppendProperties
  <2>11. o \in TreeType
    BY <2>3, <2>9, <2>10 DEF TreeType
  <2>12. NodesOf(o) = NodesOf(t) /\ BelowRoot(o) = BelowRoot(t)
    BY <2>9 DEF NodesOf, BelowRoot
  <2>13. /\ \A n \in NodesOf(t) : o.nodes[n].path = t.nodes[n].path /\ o.nodes[n].name = t.nodes[n].name
         /\ \A n \in NodesOf(t) : o.nodes[n].children = IF n = parent THEN new ELSE t.nodes[n].children
    BY <2>7, <2>9 DEF NodesOf
  <2>14. BelowRoot(t) \subseteq NodesOf(t)
    BY <2>4 DEF BelowRoot, NodesOf
  <2>15. \A m, p : Above(o, m, p) <=> Above(t, m, p)
    BY <2>12, <2>13 DEF Above
  <2>16. NodesSound(o, P)
    <3>1. NodesSound(t, P)
      BY DEF SoundTree
    <3> QED
      BY <2>9, <2>12, <2>13, <2>14, <3>1 DEF NodesSound
  <2>17. ListsOwned(t) /\ ListsSound(t)
    BY DEF SoundTree
  <2>18. ListsOwned(o)
    <3>1. Len(o.lists) > 0 /\ o.lists[_EMPTY] = <<>>
      <4>1. _EMPTY \in 1 .. Len(t.lists) /\ t.lists[_EMPTY] = <<>>
        BY <2>4, <2>17 DEF ListsOwned, _EMPTY
      <4>2. o.lists[_EMPTY] = t.lists[_EMPTY]
        BY <2>10, <4>1
      <4>3. Len(o.lists) > 0
        BY <2>2, <2>4, <2>10
      <4> QED
        BY <4>1, <4>2, <4>3
    <3>2. \A n \in NodesOf(t) : t.nodes[n].children \in 1 .. Len(t.lists)
      BY <2>17 DEF ListsOwned
    <3>3. \A n \in NodesOf(t) : o.nodes[n].children \in 1 .. Len(o.lists)
      <4>1. new \in 1 .. new /\ \A l \in 1 .. Len(t.lists) : l \in 1 .. new
        BY <2>2, <2>4
      <4>2. Len(o.lists) = new
        BY <2>10
      <4> QED
        BY <2>13, <3>2, <4>1, <4>2
    <3>4. ASSUME NEW m \in NodesOf(t), NEW n \in NodesOf(t),
                 o.nodes[m].children = o.nodes[n].children, o.nodes[n].children # _EMPTY
          PROVE  m = n
      <4>1. t.nodes[m].children # new /\ t.nodes[n].children # new
        BY <2>2, <2>4, <3>2
      <4> QED
        BY <2>13, <2>17, <3>4, <4>1 DEF ListsOwned
    <3> QED
      BY <2>12, <3>1, <3>3, <3>4 DEF ListsOwned
  <2>19. \A l \in 1 .. Len(o.lists) : l \in 1 .. Len(t.lists) \/ o.lists[l] = <<>>
    BY <2>2, <2>4, <2>10
  <2>20. ListsSound(o)
    <3>1. ASSUME NEW l \in 1 .. Len(o.lists), NEW k \in 1 .. Len(o.lists[l])
          PROVE  /\ o.lists[l][k] \in BelowRoot(o)
                 /\ \E m \in NodesOf(o) : o.nodes[m].children = l /\ Above(o, m, o.nodes[o.lists[l][k]].path)
      <4>1. l \in 1 .. Len(t.lists) /\ o.lists[l] = t.lists[l]
        BY <2>10, <2>19, <3>1
      <4>2. PICK n : n = t.lists[l][k]
        OBVIOUS
      <4>3. n \in BelowRoot(t) /\ \E m \in NodesOf(t) : t.nodes[m].children = l /\ Above(t, m, t.nodes[n].path)
        BY <2>17, <4>1, <4>2 DEF ListsSound
      <4>4. PICK m \in NodesOf(t) : t.nodes[m].children = l /\ Above(t, m, t.nodes[n].path)
        BY <4>3
      <4>5. m # parent
        <5>1. SUFFICES ASSUME m = parent
                       PROVE  FALSE
          OBVIOUS
        <5>2. t.lists[l] = <<>>
          BY <1>2, <2>17, <4>4, <5>1 DEF ListsOwned
        <5> QED
          BY <4>1, <5>2
      <4>6. o.nodes[m].children = l /\ Above(o, m, o.nodes[n].path)
        BY <2>13, <2>14, <2>15, <4>3, <4>4, <4>5
      <4> QED
        BY <2>12, <4>1, <4>2, <4>3, <4>6
    <3>2. ASSUME NEW l \in 1 .. Len(o.lists), NEW j \in 1 .. Len(o.lists[l]), NEW k \in 1 .. Len(o.lists[l]),
                 o.lists[l][j] = o.lists[l][k]
          PROVE  j = k
      <4>1. l \in 1 .. Len(t.lists) /\ o.lists[l] = t.lists[l]
        BY <2>10, <2>19, <3>2
      <4> QED
        BY <2>17, <3>2, <4>1 DEF ListsSound
    <3> QED
      BY <3>1, <3>2 DEF ListsSound
  <2>21. AllListed(o)
    <3>1. ASSUME NEW n \in BelowRoot(o)
          PROVE  \E m \in NodesOf(o) : Above(o, m, o.nodes[n].path) /\ Listed(o, m, n)
      <4>1. PICK m \in NodesOf(t) : Above(t, m, t.nodes[n].path) /\ Listed(t, m, n)
        BY <2>12, <3>1 DEF AllListed
      <4>2. t.nodes[m].children # _EMPTY
        BY <4>1, ListedBelow
      <4>3. m # parent
        BY <1>2, <4>2
      <4>4. t.nodes[m].children \in 1 .. Len(t.lists)
        BY <2>17 DEF ListsOwned
      <4>5. Listed(o, m, n)
        BY <2>10, <2>13, <4>1, <4>3, <4>4 DEF Listed
      <4> QED
        BY <2>12, <2>13, <2>14, <2>15, <3>1, <4>1, <4>5
    <3> QED
      BY <3>1 DEF AllListed
  <2>22. o.nodes[parent].children # _EMPTY
    BY <2>2, <2>4, <2>13 DEF NodesOf, _EMPTY
  <2>23. SoundTree(o, P)
    BY <2>11, <2>16, <2>18, <2>20 DEF SoundTree
  <2> QED
    BY <2>1, <2>9, <2>13, <2>21, <2>22, <2>23
<1> QED
  BY <1>1, <1>2

\* Tree u is tree o with a new child.
HasNewChild(u, o, parent, p, new) ==
    /\ new = Len(o.nodes) + 1
    /\ u = [nodes |-> Append(o.nodes, NewNode(GetFileName(p), p)),
            lists |-> [o.lists EXCEPT ![o.nodes[parent].children] = Append(@, new)]]

\* The path p is missing in a tree that has the node of its directory.
Misses(o, P, parent, p) ==
    /\ SoundTree(o, P) /\ AllListed(o) /\ p \in TreePaths /\ p \notin P
    /\ parent \in NodesOf(o) /\ o.nodes[parent].children # _EMPTY /\ Above(o, parent, p)

LEMMA NewChildSound ==
    ASSUME NEW o, NEW P, NEW parent, NEW p, Misses(o, P, parent, p),
           NEW new, NEW u, HasNewChild(u, o, parent, p, new)
    PROVE  SoundTree(u, P \cup {p}) /\ AllListed(u) /\ new \in BelowRoot(u) /\ u.nodes[new].path = p
<1>1. /\ SoundTree(o, P) /\ AllListed(o) /\ p \in TreePaths /\ p \notin P
      /\ parent \in NodesOf(o) /\ o.nodes[parent].children # _EMPTY /\ Above(o, parent, p)
  BY DEF Misses
<1>2. /\ o \in TreeType /\ NodesSound(o, P) /\ ListsOwned(o) /\ ListsSound(o)
      /\ Len(o.nodes) \in Nat /\ Len(o.nodes) > 0 /\ Len(o.lists) \in Nat
      /\ o.nodes \in Seq(Node) /\ o.lists \in Seq(Seq(Nat))
  BY <1>1, TreeFacts DEF SoundTree, NodesSound
<1>3. PICK list : list = o.nodes[parent].children
  OBVIOUS
<1>4. list \in 1 .. Len(o.lists) /\ list # _EMPTY
  BY <1>1, <1>2, <1>3 DEF ListsOwned
<1>5. PICK node : node = [name |-> Last(p), path |-> p, children |-> _EMPTY]
  OBVIOUS
<1>6. node \in Node /\ node.name = Last(p) /\ node.path = p /\ node.children = _EMPTY
  <2>1. Last(p) \in Range(NameOrder)
    BY <1>1, TreePathFacts
  <2> QED
    BY <1>1, <1>5, <2>1 DEF Node, _EMPTY
<1>7. u.nodes = Append(o.nodes, node) /\ new = Len(o.nodes) + 1
  BY <1>5 DEF NewNode, GetFileName, HasNewChild
<1>8. /\ u.nodes \in Seq(Node) /\ Len(u.nodes) = new
      /\ \A n \in 1 .. Len(o.nodes) : u.nodes[n] = o.nodes[n]
      /\ u.nodes[new] = node
  BY <1>2, <1>6, <1>7, AppendProperties
<1>9. PICK longer : longer = Append(o.lists[list], new)
  OBVIOUS
<1>10. PICK old : old = o.lists[list]
  OBVIOUS
<1>11. old \in Seq(Nat) /\ Len(old) \in Nat /\ new \in Nat
  <2>1. \A l \in 1 .. Len(o.lists) : o.lists[l] \in Seq(Nat) /\ Len(o.lists[l]) \in Nat
    BY <1>2, TreeFacts
  <2>2. new \in Nat
    BY <1>2, <1>7
  <2> QED
    BY <1>4, <1>10, <2>1, <2>2
<1>12. /\ longer \in Seq(Nat) /\ Len(longer) = Len(old) + 1
       /\ \A k \in 1 .. Len(old) : longer[k] = old[k]
       /\ longer[Len(old) + 1] = new
  BY <1>9, <1>10, <1>11, AppendProperties
<1>13. u.lists = [o.lists EXCEPT ![list] = longer]
  BY <1>3, <1>9 DEF HasNewChild
<1>14. /\ u.lists \in Seq(Seq(Nat)) /\ Len(u.lists) = Len(o.lists)
       /\ \A l \in 1 .. Len(o.lists) : u.lists[l] = IF l = list THEN longer ELSE o.lists[l]
  <2>1. longer \in Seq(Nat) /\ o.lists \in Seq(Seq(Nat)) /\ list \in 1 .. Len(o.lists)
    BY <1>2, <1>4, <1>12
  <2> QED
    BY <1>13, <2>1
<1>15. u \in TreeType
  <2>1. u = [nodes |-> u.nodes, lists |-> u.lists]
    BY DEF HasNewChild
  <2> QED
    BY <1>8, <1>14, <2>1 DEF TreeType
<1>16. /\ \A n : n \in NodesOf(u) <=> n \in NodesOf(o) \/ n = new
       /\ \A n : n \in BelowRoot(u) <=> n \in BelowRoot(o) \/ n = new
       /\ \A n \in NodesOf(o) : n # new /\ u.nodes[n] = o.nodes[n]
       /\ BelowRoot(o) \subseteq NodesOf(o) /\ new # ROOTNODE
  BY <1>2, <1>7, <1>8 DEF NodesOf, BelowRoot, ROOTNODE
<1>17. \A n \in NodesOf(u) : n # new => n \in NodesOf(o)
  BY <1>16
<1>18. ASSUME NEW m \in NodesOf(o), NEW q
       PROVE  Above(u, m, q) <=> Above(o, m, q)
  BY <1>16 DEF Above
<1>19. NodesSound(u, P \cup {p})
  <2>1. Len(u.nodes) > 0
    BY <1>2, <1>7, <1>8
  <2>2. \A n \in BelowRoot(u) : u.nodes[n].path \in TreePaths /\ u.nodes[n].name = Last(u.nodes[n].path)
    <3>1. \A n \in BelowRoot(o) : u.nodes[n].path \in TreePaths /\ u.nodes[n].name = Last(u.nodes[n].path)
      <4>1. \A n \in BelowRoot(o) : o.nodes[n].path \in TreePaths /\ o.nodes[n].name = Last(o.nodes[n].path)
        BY <1>2 DEF NodesSound
      <4>2. \A n \in BelowRoot(o) : u.nodes[n] = o.nodes[n]
        BY <1>16
      <4> QED
        BY <4>1, <4>2
    <3>2. u.nodes[new].path \in TreePaths /\ u.nodes[new].name = Last(u.nodes[new].path)
      BY <1>1, <1>6, <1>8
    <3> QED
      BY <1>16, <3>1, <3>2
  <2>3. \A n \in BelowRoot(o) : o.nodes[n].path # p
    BY <1>1, <1>2 DEF NodesSound
  <2>4. \A m, n \in BelowRoot(u) : u.nodes[m].path = u.nodes[n].path => m = n
    <3>1. ASSUME NEW m \in BelowRoot(u), NEW n \in BelowRoot(u), u.nodes[m].path = u.nodes[n].path
          PROVE  m = n
      <4>1. CASE m \in BelowRoot(o) /\ n \in BelowRoot(o)
        BY <1>2, <1>16, <3>1, <4>1 DEF NodesSound
      <4>2. CASE m = new \/ n = new
        BY <1>6, <1>8, <1>16, <2>3, <3>1, <4>2
      <4> QED
        BY <1>16, <4>1, <4>2
    <3> QED
      BY <3>1
  <2>5. ASSUME NEW q
        PROVE  q \in P \cup {p} <=> \E n \in BelowRoot(u) : u.nodes[n].path = q
    <3>1. q \in P <=> \E n \in BelowRoot(o) : o.nodes[n].path = q
      BY <1>2 DEF NodesSound
    <3>2. q = p <=> u.nodes[new].path = q
      BY <1>6, <1>8
    <3> QED
      BY <1>16, <3>1, <3>2
  <2> QED
    BY <2>1, <2>2, <2>4, <2>5 DEF NodesSound
<1>20. \A n \in NodesOf(o) : u.nodes[n].children = o.nodes[n].children /\ u.nodes[n].path = o.nodes[n].path
  BY <1>16
<1>21. ListsOwned(u)
  <2>1. Len(u.lists) > 0 /\ u.lists[_EMPTY] = <<>>
    <3>1. _EMPTY \in 1 .. Len(o.lists) /\ o.lists[_EMPTY] = <<>> /\ Len(o.lists) > 0
      BY <1>2 DEF ListsOwned, _EMPTY
    <3> QED
      BY <1>4, <1>14, <3>1
  <2>2. \A n \in NodesOf(u) : u.nodes[n].children \in 1 .. Len(u.lists)
    <3>1. \A n \in NodesOf(o) : u.nodes[n].children \in 1 .. Len(u.lists)
      BY <1>2, <1>14, <1>20 DEF ListsOwned
    <3>2. u.nodes[new].children \in 1 .. Len(u.lists)
      <4>1. Len(o.lists) > 0
        BY <1>2 DEF ListsOwned
      <4>2. u.nodes[new].children = 1
        BY <1>6, <1>8 DEF _EMPTY
      <4>3. Len(u.lists) = Len(o.lists)
        BY <1>14
      <4> QED
        BY <1>2, <4>1, <4>2, <4>3
    <3> QED
      BY <1>16, <3>1, <3>2
  <2>3. ASSUME NEW m \in NodesOf(u), NEW n \in NodesOf(u),
               u.nodes[m].children = u.nodes[n].children, u.nodes[n].children # _EMPTY
        PROVE  m = n
    <3>1. m \in NodesOf(o) /\ n \in NodesOf(o)
      BY <1>6, <1>8, <1>16, <2>3
    <3> QED
      BY <1>2, <1>20, <2>3, <3>1 DEF ListsOwned
  <2> QED
    BY <2>1, <2>2, <2>3 DEF ListsOwned
<1>22. ASSUME NEW l \in 1 .. Len(u.lists), NEW k \in 1 .. Len(u.lists[l])
       PROVE  \/ k \in 1 .. Len(o.lists[l]) /\ u.lists[l][k] = o.lists[l][k] /\ o.lists[l][k] \in BelowRoot(o)
              \/ l = list /\ k = Len(old) + 1 /\ u.lists[l][k] = new
  <2>1. l \in 1 .. Len(o.lists)
    BY <1>14
  <2>2. CASE l # list
    <3>1. u.lists[l] = o.lists[l]
      BY <1>14, <2>1, <2>2
    <3>2. o.lists[l][k] \in BelowRoot(o)
      BY <1>2, <2>1, <3>1 DEF ListsSound
    <3> QED
      BY <3>1, <3>2
  <2>3. CASE l = list
    <3>1. u.lists[l] = longer
      BY <1>14, <2>1, <2>3
    <3>2. k \in 1 .. Len(old) \/ k = Len(old) + 1
      BY <1>11, <1>12, <3>1
    <3>3. \A j \in 1 .. Len(old) : old[j] \in BelowRoot(o)
      BY <1>2, <1>4, <1>10 DEF ListsSound
    <3> QED
      BY <1>10, <1>12, <2>3, <3>1, <3>2, <3>3
  <2> QED
    BY <2>2, <2>3
<1>23. ListsSound(u)
  <2>1. ASSUME NEW l \in 1 .. Len(u.lists), NEW k \in 1 .. Len(u.lists[l])
        PROVE  /\ u.lists[l][k] \in BelowRoot(u)
               /\ \E m \in NodesOf(u) : u.nodes[m].children = l /\ Above(u, m, u.nodes[u.lists[l][k]].path)
    <3>1. CASE k \in 1 .. Len(o.lists[l]) /\ u.lists[l][k] = o.lists[l][k]
      <4>1. PICK n : n = o.lists[l][k]
        OBVIOUS
      <4>2. l \in 1 .. Len(o.lists)
        BY <1>14
      <4>3. /\ n \in BelowRoot(o)
            /\ \E m \in NodesOf(o) : o.nodes[m].children = l /\ Above(o, m, o.nodes[n].path)
        BY <1>2, <3>1, <4>1, <4>2 DEF ListsSound
      <4>4. PICK m \in NodesOf(o) : o.nodes[m].children = l /\ Above(o, m, o.nodes[n].path)
        BY <4>3
      <4>5. u.nodes[n].path = o.nodes[n].path
        BY <1>16, <1>20, <4>3
      <4>6. Above(u, m, u.nodes[n].path) /\ u.nodes[m].children = l /\ m \in NodesOf(u)
        BY <1>16, <1>18, <1>20, <4>4, <4>5
      <4> QED
        BY <1>16, <3>1, <4>1, <4>3, <4>6
    <3>2. CASE l = list /\ u.lists[l][k] = new
      <4>1. u.nodes[new].path = p
        BY <1>6, <1>8
      <4>2. Above(u, parent, p) /\ u.nodes[parent].children = list /\ parent \in NodesOf(u)
        BY <1>1, <1>3, <1>16, <1>18, <1>20
      <4> QED
        BY <1>16, <3>2, <4>1, <4>2
    <3> QED
      BY <1>22, <3>1, <3>2
  <2>2. ASSUME NEW l \in 1 .. Len(u.lists), NEW j \in 1 .. Len(u.lists[l]), NEW k \in 1 .. Len(u.lists[l]),
               u.lists[l][j] = u.lists[l][k]
        PROVE  j = k
    <3>1. new \notin BelowRoot(o)
      BY <1>16
    <3>2. \/ j \in 1 .. Len(o.lists[l]) /\ u.lists[l][j] = o.lists[l][j] /\ o.lists[l][j] \in BelowRoot(o)
          \/ j = Len(old) + 1 /\ u.lists[l][j] = new
      BY <1>22
    <3>3. \/ k \in 1 .. Len(o.lists[l]) /\ u.lists[l][k] = o.lists[l][k] /\ o.lists[l][k] \in BelowRoot(o)
          \/ k = Len(old) + 1 /\ u.lists[l][k] = new
      BY <1>22
    <3>4. CASE /\ j \in 1 .. Len(o.lists[l]) /\ u.lists[l][j] = o.lists[l][j]
               /\ k \in 1 .. Len(o.lists[l]) /\ u.lists[l][k] = o.lists[l][k]
      <4>1. l \in 1 .. Len(o.lists)
        BY <1>14
      <4> QED
        BY <1>2, <2>2, <3>4, <4>1 DEF ListsSound
    <3>5. CASE j = Len(old) + 1 /\ k = Len(old) + 1
      BY <3>5
    <3> QED
      BY <2>2, <3>1, <3>2, <3>3, <3>4, <3>5
  <2> QED
    BY <2>1, <2>2 DEF ListsSound
<1>24. AllListed(u)
  <2>1. ASSUME NEW n \in BelowRoot(o)
        PROVE  \E m \in NodesOf(u) : Above(u, m, u.nodes[n].path) /\ Listed(u, m, n)
    <3>1. PICK m \in NodesOf(o) : Above(o, m, o.nodes[n].path) /\ Listed(o, m, n)
      BY <1>1, <2>1 DEF AllListed
    <3>2. PICK l : l = o.nodes[m].children
      OBVIOUS
    <3>3. l \in 1 .. Len(o.lists) /\ u.nodes[m].children = l
      BY <1>2, <1>20, <3>2 DEF ListsOwned
    <3>4. PICK k \in 1 .. Len(o.lists[l]) : o.lists[l][k] = n
      BY <3>1, <3>2 DEF Listed
    <3>5. k \in 1 .. Len(u.lists[l]) /\ u.lists[l][k] = n
      <4>1. CASE l = list
        <5>1. k \in 1 .. Len(old) /\ old[k] = n
          BY <1>10, <3>4, <4>1
        <5>2. u.lists[l] = longer
          BY <1>4, <1>14, <4>1
        <5> QED
          BY <1>11, <1>12, <5>1, <5>2
      <4>2. CASE l # list
        BY <1>14, <3>3, <3>4, <4>2
      <4> QED
        BY <4>1, <4>2
    <3>6. Listed(u, m, n)
      BY <3>3, <3>5 DEF Listed
    <3>7. Above(u, m, u.nodes[n].path) /\ m \in NodesOf(u)
      BY <1>16, <1>18, <1>20, <2>1, <3>1
    <3> QED
      BY <3>6, <3>7
  <2>2. Above(u, parent, u.nodes[new].path) /\ parent \in NodesOf(u)
    BY <1>1, <1>6, <1>8, <1>16, <1>18
  <2>3. Listed(u, parent, new)
    <3>1. u.nodes[parent].children = list /\ u.lists[list] = longer
      BY <1>1, <1>3, <1>4, <1>14, <1>20
    <3>2. Len(old) + 1 \in 1 .. Len(longer)
      BY <1>11, <1>12
    <3> QED
      BY <1>12, <3>1, <3>2 DEF Listed
  <2> QED
    BY <1>16, <2>1, <2>2, <2>3 DEF AllListed
<1>25. SoundTree(u, P \cup {p})
  BY <1>15, <1>19, <1>21, <1>23 DEF SoundTree
<1>26. new \in BelowRoot(u) /\ u.nodes[new].path = p
  BY <1>6, <1>8, <1>16
<1> QED
  BY <1>24, <1>25, <1>26

LEMMA AddChildSound ==
    ASSUME NEW t, NEW P, SoundTree(t, P), AllListed(t), NEW p \in TreePaths, NEW parent, Above(t, parent, p)
    PROVE  LET added == AddChild(t, parent, p)
           IN  /\ SoundTree(added.tree, P \cup {p}) /\ AllListed(added.tree)
               /\ added.at \in BelowRoot(added.tree) /\ added.tree.nodes[added.at].path = p
<1>1. PICK known : known = {n \in Range(Children(t, parent)) : t.nodes[n].name = GetFileName(p)}
  OBVIOUS
<1>2. parent \in NodesOf(t) /\ NodesSound(t, P) /\ t \in TreeType
  BY DEF Above, SoundTree
<1>3. CASE known # {}
  <2>1. PICK n : n = CHOOSE e \in known : TRUE
    OBVIOUS
  <2>2. n \in Range(Children(t, parent)) /\ t.nodes[n].name = Last(p)
    BY <1>1, <1>3, <2>1 DEF GetFileName
  <2>3. n \in BelowRoot(t) /\ Above(t, parent, t.nodes[n].path)
    BY <1>2, <2>2, RangeOfChildren, ListedBelow
  <2>4. t.nodes[n].path = p
    <3>1. PICK q : q = t.nodes[n].path
      OBVIOUS
    <3>2. q \in TreePaths /\ Last(q) = Last(p)
      BY <1>2, <2>2, <2>3, <3>1 DEF NodesSound
    <3>3. Above(t, parent, p) /\ Above(t, parent, q)
      BY <2>3, <3>1
    <3>4. \/ IsTop(p) /\ IsTop(q)
          \/ ~IsTop(p) /\ ~IsTop(q) /\ GetDirectory(p) = GetDirectory(q)
      BY <3>3 DEF Above
    <3> QED
      BY <3>1, <3>2, <3>4, SamePath
  <2>5. P \cup {p} = P
    BY <1>2, <2>3, <2>4 DEF NodesSound
  <2>6. AddChild(t, parent, p) = [tree |-> t, at |-> n]
    BY <1>1, <1>3, <2>1 DEF AddChild
  <2> QED
    BY <2>3, <2>4, <2>5, <2>6
<1>4. CASE known = {}
  <2>1. p \notin P
    <3>1. SUFFICES ASSUME p \in P
                   PROVE  FALSE
      OBVIOUS
    <3>2. PICK n \in BelowRoot(t) : t.nodes[n].path = p
      BY <1>2, <3>1 DEF NodesSound
    <3>3. PICK m \in NodesOf(t) : Above(t, m, p) /\ Listed(t, m, n)
      BY <3>2 DEF AllListed
    <3>4. m = parent
      BY <3>3, AboveIsOne
    <3>5. n \in Range(Children(t, parent))
      BY <1>2, <3>3, <3>4, RangeOfChildren
    <3>6. t.nodes[n].name = Last(p)
      BY <1>2, <3>2 DEF NodesSound
    <3> QED
      BY <1>1, <1>4, <3>5, <3>6 DEF GetFileName
  <2>2. PICK o : o = OwnList(t, parent)
    OBVIOUS
  <2>3. /\ SoundTree(o, P) /\ AllListed(o) /\ o.nodes[parent].children # _EMPTY
        /\ Len(o.nodes) = Len(t.nodes)
        /\ \A n \in NodesOf(t) : o.nodes[n].path = t.nodes[n].path
    BY <1>2, <2>2, OwnListSound
  <2>4. NodesOf(o) = NodesOf(t)
    BY <2>3 DEF NodesOf
  <2>5. Above(o, parent, p)
    BY <1>2, <2>3, <2>4 DEF Above
  <2>6. PICK new : new = Len(t.nodes) + 1
    OBVIOUS
  <2>7. PICK u : u = [nodes |-> Append(o.nodes, NewNode(GetFileName(p), p)),
                      lists |-> [o.lists EXCEPT ![o.nodes[parent].children] = Append(@, new)]]
    OBVIOUS
  <2>8. AddChild(t, parent, p) = [tree |-> u, at |-> new]
    BY <1>1, <1>4, <2>2, <2>6, <2>7 DEF AddChild
  <2>9. HasNewChild(u, o, parent, p, new) /\ parent \in NodesOf(o)
    BY <1>2, <2>3, <2>4, <2>6, <2>7 DEF HasNewChild
  <2>10. SoundTree(u, P \cup {p}) /\ AllListed(u) /\ new \in BelowRoot(u) /\ u.nodes[new].path = p
    <3>1. SoundTree(o, P) /\ AllListed(o) /\ o.nodes[parent].children # _EMPTY
      BY <2>3
    <3>2. Misses(o, P, parent, p)
      BY <2>1, <2>5, <2>9, <3>1 DEF Misses
    <3> QED
      BY <2>9, <3>2, NewChildSound
  <2> QED
    BY <2>8, <2>10
<1> QED
  BY <1>3, <1>4

\* The way to a file, down to the k-th step.
Reached(f, k) == {SubSeq(Relative(f), 1, j) : j \in First(f) + 1 .. k}

\* What tree.add() has made of a tree after k steps.
Grown(P, f, k) ==
    {a \in [tree : TreeType, at : Nat] :
        /\ SoundTree(a.tree, P \cup Reached(f, k)) /\ AllListed(a.tree)
        /\ IF k <= First(f) THEN a.at = ROOTNODE
           ELSE a.at \in BelowRoot(a.tree) /\ a.tree.nodes[a.at].path = SubSeq(Relative(f), 1, k)}

\* One turn of it.
Step(t, p, a, k) ==
    LET above == SubSeq(p, 1, k)
    IN  IF k = 0 \/ above \in {DOT, ROOT} \/ (above = EMPTY /\ k < Len(p))
        THEN [tree |-> t, at |-> ROOTNODE]
        ELSE AddChild(a.tree, a.at, above)

LEMMA AddPathIsChosen ==
    ASSUME NEW t, NEW p
    PROVE  AddPath(t, p) =
               (CHOOSE added : added = [k \in 0 .. Len(p) |-> Step(t, p, added[k - 1], k)])[Len(p)]
  BY DEF AddPath, Step

LEMMA FirstSteps ==
    ASSUME NEW t, NEW P, SoundTree(t, P), AllListed(t), NEW f \in SourceFiles, NEW a,
           NEW k \in 0 .. First(f)
    PROVE  Step(t, Relative(f), a, k) \in Grown(P, f, k)
<1>1. PICK r : r = Relative(f)
  OBVIOUS
<1>2. First(f) \in {0, 1} /\ Normal(r, First(f)) /\ Len(r) \in Nat /\ r \in Seq(Range(r)) /\ First(f) < Len(r)
  BY <1>1, WayFacts DEF Normal
<1>3. Step(t, r, a, k) = [tree |-> t, at |-> ROOTNODE]
  <2>1. CASE k = 0
    BY <2>1 DEF Step
  <2>2. CASE k # 0
    <3>1. k = 1 /\ First(f) = 1 /\ 1 \in 1 .. Len(r) /\ r[1] = NONAME
      BY <1>2, <2>2 DEF Normal
    <3>2. PICK q : q = SubSeq(r, 1, 1)
      OBVIOUS
    <3>3. q \in Seq(Range(r)) /\ Len(q) = 1 /\ q[1] = NONAME
      BY <1>2, <3>1, <3>2, PrefixFacts
    <3>4. q = EMPTY
      BY <3>3 DEF EMPTY
    <3>5. k < Len(r)
      BY <1>2, <3>1
    <3> QED
      BY <3>1, <3>2, <3>4, <3>5 DEF Step
  <2> QED
    BY <2>1, <2>2
<1>4. Reached(f, k) = {}
  BY <1>2 DEF Reached
<1>5. PICK b : b = [tree |-> t, at |-> ROOTNODE]
  OBVIOUS
<1>6. b \in [tree : TreeType, at : Nat] /\ b.tree = t /\ b.at = ROOTNODE
  BY <1>5 DEF SoundTree, ROOTNODE
<1>7. k <= First(f)
  BY <1>2
<1>8. P \cup Reached(f, k) = P
  BY <1>4
<1> QED
  BY <1>1, <1>3, <1>5, <1>6, <1>7, <1>8 DEF Grown

LEMMA NextStep ==
    ASSUME NEW t, NEW P, NEW f \in SourceFiles, NEW k \in First(f) + 1 .. Len(Relative(f)),
           NEW a \in Grown(P, f, k - 1)
    PROVE  Step(t, Relative(f), a, k) \in Grown(P, f, k)
<1>1. PICK r : r = Relative(f)
  OBVIOUS
<1>2. PICK first : first = First(f)
  OBVIOUS
<1>3. first \in {0, 1} /\ Len(r) \in Nat /\ k \in first + 1 .. Len(r)
  BY <1>1, <1>2, WayFacts DEF Normal
<1>4. PICK p : p = SubSeq(r, 1, k)
  OBVIOUS
<1>5. /\ p \in Steps(f) /\ Normal(p, first)
      /\ IsTop(p) <=> k = first + 1
      /\ k # first + 1 => GetDirectory(p) = SubSeq(r, 1, k - 1)
  BY <1>1, <1>2, <1>4, StepFacts
<1>6. p \in TreePaths /\ p \notin {DOT, EMPTY, ROOT}
  BY <1>5, NormalIsSome DEF TreePaths
<1>7. Step(t, r, a, k) = AddChild(a.tree, a.at, p)
  BY <1>3, <1>4, <1>6 DEF Step
<1>8. PICK Q : Q = P \cup Reached(f, k - 1)
  OBVIOUS
<1>9. /\ SoundTree(a.tree, Q) /\ AllListed(a.tree)
      /\ IF k - 1 <= first THEN a.at = ROOTNODE
         ELSE a.at \in BelowRoot(a.tree) /\ a.tree.nodes[a.at].path = SubSeq(r, 1, k - 1)
  BY <1>1, <1>2, <1>8 DEF Grown
<1>10. Above(a.tree, a.at, p)
  <2>1. Len(a.tree.nodes) \in Nat /\ Len(a.tree.nodes) > 0
    BY <1>9, TreeFacts DEF SoundTree, NodesSound
  <2>2. CASE k = first + 1
    <3>1. a.at = ROOTNODE /\ IsTop(p)
      BY <1>3, <1>5, <1>9, <2>2
    <3>2. ROOTNODE \in NodesOf(a.tree)
      BY <2>1 DEF NodesOf, ROOTNODE
    <3> QED
      BY <3>1, <3>2 DEF Above
  <2>3. CASE k # first + 1
    <3>1. ~(k - 1 <= first)
      BY <1>3, <2>3
    <3>2. a.at \in BelowRoot(a.tree) /\ a.tree.nodes[a.at].path = GetDirectory(p) /\ ~IsTop(p)
      BY <1>5, <1>9, <2>3, <3>1
    <3>3. a.at \in NodesOf(a.tree) /\ a.at # ROOTNODE
      BY <2>1, <3>2 DEF BelowRoot, NodesOf, ROOTNODE
    <3> QED
      BY <3>2, <3>3 DEF Above
  <2> QED
    BY <2>2, <2>3
<1>11. PICK b : b = AddChild(a.tree, a.at, p)
  OBVIOUS
<1>12. /\ SoundTree(b.tree, Q \cup {p}) /\ AllListed(b.tree)
       /\ b.at \in BelowRoot(b.tree) /\ b.tree.nodes[b.at].path = p
  BY <1>6, <1>9, <1>10, <1>11, AddChildSound
<1>13. Q \cup {p} = P \cup Reached(f, k)
  <2>1. \A j : j \in first + 1 .. k <=> j \in first + 1 .. k - 1 \/ j = k
    BY <1>3
  <2>2. Reached(f, k) = Reached(f, k - 1) \cup {p}
    BY <1>1, <1>2, <1>4, <2>1 DEF Reached
  <2> QED
    BY <1>8, <2>2
<1>14. b = [tree |-> b.tree, at |-> b.at]
  BY <1>11 DEF AddChild
<1>15. b \in [tree : TreeType, at : Nat]
  <2>1. b.tree \in TreeType
    BY <1>12 DEF SoundTree
  <2>2. b.at \in Nat
    BY <1>12 DEF BelowRoot
  <2> QED
    BY <1>14, <2>1, <2>2
<1>16. ~(k <= first)
  BY <1>3
<1> QED
  BY <1>1, <1>2, <1>4, <1>7, <1>11, <1>12, <1>13, <1>15, <1>16 DEF Grown

\* Adding a file adds the nodes on its way that are missing.
LEMMA AddPathSound ==
    ASSUME NEW t, NEW P, SoundTree(t, P), AllListed(t), NEW f \in SourceFiles
    PROVE  LET u == AddPath(t, Relative(f)).tree
           IN  SoundTree(u, P \cup Steps(f)) /\ AllListed(u)
<1>1. PICK p : p = Relative(f)
  OBVIOUS
<1>2. PICK n : n = Len(p)
  OBVIOUS
<1>3. First(f) \in {0, 1} /\ n \in Nat /\ First(f) < n
  BY <1>1, <1>2, WayFacts DEF Normal
<1> DEFINE turn(a, k) == Step(t, p, a, k)
           none == [tree |-> t, at |-> ROOTNODE]
<1>4. \A a : turn(a, 0) = none
  BY DEF Step
<1>5. PICK holds : holds = [k \in 0 .. n |-> Grown(P, f, k)]
  OBVIOUS
<1>6. \A k \in 0 .. n : holds[k] = Grown(P, f, k)
  BY <1>5
<1>7. none \in holds[0]
  <2>1. 0 \in 0 .. First(f) /\ 0 \in 0 .. n
    BY <1>3
  <2>2. Step(t, p, none, 0) \in Grown(P, f, 0)
    BY <1>1, <2>1, FirstSteps
  <2>3. Step(t, p, none, 0) = none
    BY DEF Step
  <2> QED
    BY <1>6, <2>1, <2>2, <2>3
<1>8. \A k \in 1 .. n : k - 1 \in 0 .. n /\ k \in 0 .. n
  BY <1>3
<1>9. ASSUME NEW k \in 1 .. n, NEW a \in holds[k - 1]
      PROVE  turn(a, k) \in holds[k]
  <2>1. a \in Grown(P, f, k - 1)
    BY <1>6, <1>8
  <2>2. k \in 0 .. First(f) \/ k \in First(f) + 1 .. n
    BY <1>3
  <2>3. Step(t, p, a, k) \in Grown(P, f, k)
    BY <1>1, <1>2, <2>1, <2>2, FirstSteps, NextStep
  <2> QED
    BY <1>6, <1>8, <2>3
<1> HIDE DEF none, turn
<1>10. PICK S : S = UNION {holds[k] : k \in 0 .. n}
  OBVIOUS
<1>11. PICK step : step = [x \in S \X (1 .. n) |-> turn(x[1], x[2])]
  OBVIOUS
<1>12. \A k \in 1 .. n : \A a \in holds[k - 1] : step[<<a, k>>] = turn(a, k)
  <2>1. \A k \in 1 .. n : \A a \in holds[k - 1] : a \in S
    BY <1>8, <1>10
  <2> QED
    BY <1>11, <2>1
<1>13. Kept(holds, step, n)
  BY <1>9, <1>12 DEF Kept
<1>14. PICK g : /\ g = [k \in 0 .. n |-> IF k = 0 THEN none ELSE step[<<g[k - 1], k>>]]
               /\ \A k \in 0 .. n : g[k] \in holds[k]
  BY <1>3, <1>7, <1>13, LoopExists
<1> DEFINE Loop(h) == h = [k \in 0 .. n |-> turn(h[k - 1], k)]
<1>15. Loop(g)
  <2>1. \A k \in 0 .. n : k # 0 => k \in 1 .. n /\ k - 1 \in 0 .. n
    BY <1>3
  <2>2. \A k \in 0 .. n : k # 0 => step[<<g[k - 1], k>>] = turn(g[k - 1], k)
    BY <1>12, <1>14, <2>1
  <2>3. \A k \in 0 .. n : (IF k = 0 THEN none ELSE step[<<g[k - 1], k>>]) = turn(g[k - 1], k)
    BY <1>4, <2>2
  <2> QED
    BY <1>14, <2>3
<1>16. PICK h : h = CHOOSE e : Loop(e)
  OBVIOUS
<1>17. Loop(h)
  <2> HIDE DEF Loop
  <2> QED
    BY <1>15, <1>16
<1>18. AddPath(t, p) = h[n]
  BY <1>2, <1>16, AddPathIsChosen DEF turn
<1> DEFINE T == {k \in 0 .. n : h[k] \in holds[k]}
<1>19. 0 \in T
  <2>1. h[0] = turn(h[0 - 1], 0)
    BY <1>3, <1>17
  <2>2. h[0] = none
    BY <1>4, <2>1
  <2> QED
    BY <1>3, <1>7, <2>2
<1>20. ASSUME NEW k \in 1 .. n, k - 1 \in T
       PROVE  k \in T
  <2>1. h[k] = turn(h[k - 1], k)
    BY <1>3, <1>17
  <2> QED
    BY <1>3, <1>9, <1>20, <2>1
<1>21. 0 .. n \subseteq T
  <2> HIDE DEF T
  <2> QED
    BY <1>3, <1>19, <1>20, LoopInduction
<1>22. h[n] \in Grown(P, f, n)
  BY <1>3, <1>6, <1>21
<1>23. Reached(f, n) = Steps(f)
  BY <1>1, <1>2 DEF Reached, Steps
<1> QED
  BY <1>1, <1>18, <1>22, <1>23 DEF Grown

-----------------------------------------------------------------------------
(***************************************************************************)
(* Sorting.                                                                *)
(***************************************************************************)
LEMMA SortExists ==
    ASSUME NEW n \in Nat, NEW key \in [1 .. n -> Nat],
           \A j, k \in 1 .. n : key[j] = key[k] => j = k
    PROVE  \E s \in [1 .. n -> 1 .. n] : \A j, k \in 1 .. n : j < k => key[s[j]] < key[s[k]]
<1> DEFINE Chosen(m, s) ==
        /\ s \in [1 .. m -> 1 .. n]
        /\ \A j, k \in 1 .. m : j < k => key[s[j]] < key[s[k]]
        /\ \A i \in 1 .. n : (\E j \in 1 .. m : s[j] = i) \/ \A j \in 1 .. m : key[s[j]] < key[i]
           T == {m \in 0 .. n : \E s : Chosen(m, s)}
<1>1. 0 \in T
  <2>1. PICK s : s = [j \in 1 .. 0 |-> 1]
    OBVIOUS
  <2>2. Chosen(0, s)
    BY <2>1
  <2> HIDE DEF Chosen
  <2> QED
    BY <2>2
<1>2. ASSUME NEW m \in 1 .. n, m - 1 \in T
      PROVE  m \in T
  <2>1. PICK s : Chosen(m - 1, s)
    BY <1>2
  <2>2. PICK rest : rest = {i \in 1 .. n : \A j \in 1 .. m - 1 : s[j] # i}
    OBVIOUS
  <2>3. rest # {}
    <3>1. SUFFICES ASSUME rest = {}
                   PROVE  FALSE
      OBVIOUS
    <3>2. s \in Surjection(1 .. m - 1, 1 .. n)
      BY <2>1, <2>2, <3>1 DEF Surjection
    <3>3. IsFiniteSet(1 .. m - 1) /\ Cardinality(1 .. m - 1) = m - 1 /\ Cardinality(1 .. n) = n
      <4>1. m - 1 \in Nat /\ 1 \in Int /\ n \in Int /\ m - 1 \in Int
        OBVIOUS
      <4>2. IsFiniteSet(1 .. m - 1) /\ Cardinality(1 .. m - 1) = IF 1 > m - 1 THEN 0 ELSE (m - 1) - 1 + 1
        BY <4>1, FS_Interval
      <4>3. Cardinality(1 .. n) = IF 1 > n THEN 0 ELSE n - 1 + 1
        BY <4>1, FS_Interval
      <4> QED
        BY <4>1, <4>2, <4>3
    <3>4. n <= m - 1
      BY <3>2, <3>3, FS_Surjection
    <3> QED
      BY <3>4
  <2>4. PICK keys : keys = {key[i] : i \in rest}
    OBVIOUS
  <2>5. keys \subseteq Nat /\ keys # {}
    BY <2>2, <2>3, <2>4
  <2>6. PICK least \in keys : \A e \in keys : least <= e
    BY <2>5, LeastMember
  <2>7. PICK c \in rest : least = key[c]
    BY <2>4, <2>6
  <2>8. \A i \in rest : key[c] <= key[i]
    BY <2>4, <2>6, <2>7
  <2>9. PICK u : u = [j \in 1 .. m |-> IF j = m THEN c ELSE s[j]]
    OBVIOUS
  <2>10. \A j \in 1 .. m : j = m \/ j \in 1 .. m - 1
    OBVIOUS
  <2>11. \A j \in 1 .. m - 1 : j \in 1 .. m /\ u[j] = s[j]
    BY <2>9
  <2>12. u[m] = c /\ c \in 1 .. n
    BY <2>2, <2>9
  <2>13. u \in [1 .. m -> 1 .. n]
    BY <2>1, <2>9, <2>10, <2>12
  <2>14. \A j \in 1 .. m - 1 : key[s[j]] < key[c]
    BY <2>1, <2>2, <2>12
  <2>15. ASSUME NEW j \in 1 .. m, NEW k \in 1 .. m, j < k
         PROVE  key[u[j]] < key[u[k]]
    <3>1. j \in 1 .. m - 1
      BY <2>15
    <3> QED
      BY <2>1, <2>10, <2>11, <2>12, <2>14, <2>15, <3>1
  <2>16. ASSUME NEW i \in 1 .. n, \A j \in 1 .. m : u[j] # i
         PROVE  \A j \in 1 .. m : key[u[j]] < key[i]
    <3>1. i \in rest /\ i # c
      BY <2>2, <2>11, <2>12, <2>16
    <3>2. key[c] < key[i]
      BY <2>8, <2>12, <3>1
    <3>3. \A j \in 1 .. m - 1 : key[u[j]] < key[i]
      BY <2>1, <2>2, <2>11, <3>1
    <3> QED
      BY <2>10, <2>12, <3>2, <3>3
  <2>17. Chosen(m, u)
    BY <2>13, <2>15, <2>16
  <2> HIDE DEF Chosen
  <2> QED
    BY <2>17
<1>3. 0 .. n \subseteq T
  <2> HIDE DEF T
  <2> QED
    BY <1>1, <1>2, LoopInduction
<1>4. PICK s : Chosen(n, s)
  <2>1. n \in T
    <3> HIDE DEF T
    <3> QED
      BY <1>3
  <2> HIDE DEF Chosen
  <2> QED
    BY <2>1
<1> QED
  BY <1>4

\* Names are where they stand in the order.
LEMMA PositionFacts ==
    ASSUME NEW name \in Range(NameOrder)
    PROVE  Position(name) \in Nat /\ NameOrder[Position(name)] = name
<1>1. \E k \in DOMAIN NameOrder : NameOrder[k] = name
  BY DEF Range
<1>2. Position(name) \in DOMAIN NameOrder /\ NameOrder[Position(name)] = name
  BY <1>1 DEF Position
<1>3. DOMAIN NameOrder = 1 .. Len(NameOrder) /\ Len(NameOrder) \in Nat
  BY TreeAssumption, LenProperties
<1> QED
  BY <1>2, <1>3

\* Nodes of one directory differ in their names.
LEMMA SiblingsDiffer ==
    ASSUME NEW t, NEW P, NodesSound(t, P), NEW m, NEW a \in BelowRoot(t), NEW b \in BelowRoot(t),
           Above(t, m, t.nodes[a].path), Above(t, m, t.nodes[b].path),
           Position(t.nodes[a].name) = Position(t.nodes[b].name)
    PROVE  a = b
<1>1. PICK p, q : p = t.nodes[a].path /\ q = t.nodes[b].path
  OBVIOUS
<1>2. p \in TreePaths /\ q \in TreePaths /\ t.nodes[a].name = Last(p) /\ t.nodes[b].name = Last(q)
  BY <1>1 DEF NodesSound
<1>3. Last(p) \in Range(NameOrder) /\ Last(q) \in Range(NameOrder)
  BY <1>2, TreePathFacts
<1>4. Last(p) = Last(q)
  BY <1>2, <1>3, PositionFacts
<1>5. \/ IsTop(p) /\ IsTop(q)
      \/ ~IsTop(p) /\ ~IsTop(q) /\ GetDirectory(p) = GetDirectory(q)
  BY <1>1 DEF Above
<1>6. p = q
  BY <1>2, <1>4, <1>5, SamePath
<1> QED
  BY <1>1, <1>6 DEF NodesSound

LEMMA NamesHavePlaces ==
    ASSUME NEW t, NEW P, NodesSound(t, P), NEW n \in BelowRoot(t)
    PROVE  Position(t.nodes[n].name) \in Nat
<1>1. t.nodes[n].name \in Range(NameOrder)
  BY TreePathFacts DEF NodesSound
<1> QED
  BY <1>1, PositionFacts

\* What is in a list is in s, in order.
Arranged(t, s, list) ==
    /\ s \in Seq(Nat) /\ Len(s) = Len(list)
    /\ \A j, k \in 1 .. Len(s) : j < k => InOrder(t, s[j], s[k])
    /\ \A j, k \in 1 .. Len(s) : s[j] = s[k] => j = k
    /\ \A j \in 1 .. Len(s) : \E k \in 1 .. Len(list) : s[j] = list[k]
    /\ \A k \in 1 .. Len(list) : \E j \in 1 .. Len(s) : list[k] = s[j]

\* A list that is sorted holds what it has held before, in order.
LEMMA SortedFacts ==
    ASSUME NEW t, NEW P, SoundTree(t, P), NEW l \in 1 .. Len(t.lists)
    PROVE  Arranged(t, Sorted(t, t.lists[l]), t.lists[l])
<1>1. PICK list : list = t.lists[l]
  OBVIOUS
<1>2. PICK n : n = Len(list)
  OBVIOUS
<1>3. NodesSound(t, P) /\ ListsSound(t) /\ ListsOwned(t)
  BY DEF SoundTree
<1>4. list \in Seq(Nat) /\ n \in Nat /\ DOMAIN list = 1 .. n /\ \A j \in 1 .. n : list[j] \in BelowRoot(t) /\ list[j] \in Nat
  <2>1. list \in Seq(Nat) /\ n \in Nat /\ DOMAIN list = 1 .. n
    BY <1>1, <1>2, TreeFacts DEF SoundTree
  <2>2. \A j \in 1 .. n : list[j] \in BelowRoot(t)
    BY <1>1, <1>2, <1>3 DEF ListsSound
  <2>3. \A j \in 1 .. n : list[j] \in Nat
    BY <1>2, <2>1, ElementOfSeq
  <2> QED
    BY <2>1, <2>2, <2>3
<1>5. PICK key : key = [j \in 1 .. n |-> Position(t.nodes[list[j]].name)]
  OBVIOUS
<1>6. key \in [1 .. n -> Nat]
  <2>1. \A j \in 1 .. n : Position(t.nodes[list[j]].name) \in Nat
    BY <1>3, <1>4, NamesHavePlaces
  <2> QED
    BY <1>5, <2>1
<1>7. ASSUME NEW j \in 1 .. n, NEW k \in 1 .. n, key[j] = key[k]
      PROVE  j = k
  <2>1. PICK a, b : a = list[j] /\ b = list[k]
    OBVIOUS
  <2>2. /\ \E m \in NodesOf(t) : t.nodes[m].children = l /\ Above(t, m, t.nodes[a].path)
        /\ \E m \in NodesOf(t) : t.nodes[m].children = l /\ Above(t, m, t.nodes[b].path)
    BY <1>1, <1>2, <1>3, <2>1 DEF ListsSound
  <2>3. PICK m \in NodesOf(t) : t.nodes[m].children = l /\ Above(t, m, t.nodes[a].path)
    BY <2>2
  <2>4. PICK o \in NodesOf(t) : t.nodes[o].children = l /\ Above(t, o, t.nodes[b].path)
    BY <2>2
  <2>5. l # _EMPTY
    <3>1. SUFFICES ASSUME l = _EMPTY
                   PROVE  FALSE
      OBVIOUS
    <3>2. list = <<>>
      BY <1>1, <1>3, <3>1 DEF ListsOwned
    <3>3. n = 0
      BY <1>2, <3>2
    <3> QED
      BY <1>7, <3>3
  <2>6. m = o
    BY <1>3, <2>3, <2>4, <2>5 DEF ListsOwned
  <2>7. Position(t.nodes[a].name) = Position(t.nodes[b].name)
    BY <1>5, <1>7, <2>1
  <2>8. a \in BelowRoot(t) /\ b \in BelowRoot(t)
    BY <1>4, <2>1
  <2>9. a = b
    BY <1>3, <2>3, <2>4, <2>6, <2>7, <2>8, SiblingsDiffer
  <2> QED
    BY <1>1, <1>2, <1>3, <2>1, <2>9 DEF ListsSound
<1>8. PICK at \in [1 .. n -> 1 .. n] : \A j, k \in 1 .. n : j < k => key[at[j]] < key[at[k]]
  BY <1>4, <1>6, <1>7, SortExists
<1> DEFINE SortedAs(s) ==
        s \in [1 .. Len(list) -> Range(list)] /\ \A j, k \in 1 .. Len(list) : j < k => InOrder(t, s[j], s[k])
<1>9. \E s : SortedAs(s)
  <2>1. PICK s : s = [j \in 1 .. n |-> list[at[j]]]
    OBVIOUS
  <2>2. s \in [1 .. Len(list) -> Range(list)]
    BY <1>2, <1>4, <1>8, <2>1 DEF Range
  <2>3. ASSUME NEW j \in 1 .. n, NEW k \in 1 .. n, j < k
        PROVE  InOrder(t, s[j], s[k])
    <3>1. key[at[j]] < key[at[k]]
      BY <1>8, <2>3
    <3> QED
      BY <1>5, <1>8, <2>1, <3>1 DEF InOrder
  <2>4. SortedAs(s)
    BY <1>2, <2>2, <2>3
  <2> QED
    BY <2>4
<1>10. PICK s : s = Sorted(t, list)
  OBVIOUS
<1>11. SortedAs(s)
  <2>1. s = CHOOSE e \in [1 .. Len(list) -> Range(list)] : \A j, k \in 1 .. Len(list) : j < k => InOrder(t, e[j], e[k])
    BY <1>10 DEF Sorted
  <2> QED
    BY <1>9, <2>1
<1>12. s \in [1 .. n -> Range(list)] /\ \A j, k \in 1 .. n : j < k => InOrder(t, s[j], s[k])
  BY <1>2, <1>11
<1> HIDE DEF SortedAs
<1>13. \A j \in 1 .. n : \E k \in 1 .. n : s[j] = list[k]
  BY <1>4, <1>12 DEF Range
<1>14. s \in Seq(Nat) /\ Len(s) = n
  <2>1. \A j \in 1 .. n : s[j] \in Nat
    BY <1>4, <1>13
  <2>2. s \in [1 .. n -> Nat]
    BY <1>12, <2>1
  <2> QED
    BY <1>4, <2>2, SeqDef
<1>15. ASSUME NEW j \in 1 .. n, NEW k \in 1 .. n, s[j] = s[k]
       PROVE  j = k
  <2>1. PICK place : place = Position(t.nodes[s[j]].name)
    OBVIOUS
  <2>2. place \in Nat
    BY <1>3, <1>4, <1>13, <2>1, NamesHavePlaces
  <2>3. j < k => place < place
    BY <1>12, <1>15, <2>1 DEF InOrder
  <2>4. k < j => place < place
    BY <1>12, <1>15, <2>1 DEF InOrder
  <2> QED
    BY <2>2, <2>3, <2>4
<1>16. s \in Surjection(1 .. n, Range(list))
  <2>1. list \in Bijection(1 .. n, Range(list))
    <3>1. list \in [1 .. n -> Range(list)]
      BY <1>4, LenProperties DEF Range
    <3>2. \A j, k \in DOMAIN list : list[j] = list[k] => j = k
      BY <1>1, <1>2, <1>3, <1>4 DEF ListsSound
    <3>3. \A e \in Range(list) : \E j \in 1 .. n : list[j] = e
      BY <1>4 DEF Range
    <3> QED
      BY <3>1, <3>2, <3>3 DEF Bijection, Injection, Surjection, IsInjective
  <2>2. ExistsBijection(1 .. n, Range(list))
    BY <2>1 DEF ExistsBijection
  <2>3. IsFiniteSet(1 .. n)
    BY <1>4, FS_Interval
  <2>4. IsFiniteSet(Range(list)) /\ Cardinality(Range(list)) = Cardinality(1 .. n)
    BY <2>2, <2>3, FS_Bijection
  <2>5. s \in Injection(1 .. n, Range(list))
    BY <1>12, <1>15 DEF Injection, IsInjective
  <2> QED
    BY <2>4, <2>5, FS_Injection
<1>17. \A k \in 1 .. n : \E j \in 1 .. n : list[k] = s[j]
  BY <1>4, <1>16 DEF Surjection, Range
<1> QED
  BY <1>1, <1>2, <1>10, <1>12, <1>13, <1>14, <1>15, <1>17 DEF Arranged

\* Tree u is tree t with its lists rearranged, or with less in them.
Prunes(u, t) ==
    /\ u \in TreeType /\ u.nodes = t.nodes /\ Len(u.lists) = Len(t.lists)
    /\ \A l \in 1 .. Len(t.lists) :
          /\ \A j \in 1 .. Len(u.lists[l]) : \E k \in 1 .. Len(t.lists[l]) : u.lists[l][j] = t.lists[l][k]
          /\ \A j, k \in 1 .. Len(u.lists[l]) : u.lists[l][j] = u.lists[l][k] => j = k

LEMMA PrunedIsSound ==
    ASSUME NEW t, NEW P, SoundTree(t, P), NEW u, Prunes(u, t)
    PROVE  SoundTree(u, P)
<1>1. u \in TreeType /\ u.nodes = t.nodes /\ Len(u.lists) = Len(t.lists)
  BY DEF Prunes
<1>2. NodesOf(u) = NodesOf(t) /\ BelowRoot(u) = BelowRoot(t) /\ \A m, p : Above(u, m, p) <=> Above(t, m, p)
  BY <1>1 DEF NodesOf, BelowRoot, Above
<1>3. NodesSound(u, P)
  BY <1>1, <1>2 DEF SoundTree, NodesSound
<1>4. ListsOwned(t) /\ ListsSound(t) /\ t \in TreeType
  BY DEF SoundTree
<1>5. u.lists[_EMPTY] = <<>>
  <2>1. _EMPTY \in 1 .. Len(t.lists) /\ t.lists[_EMPTY] = <<>>
    BY <1>4, TreeFacts DEF ListsOwned, _EMPTY
  <2>2. PICK empty : empty = u.lists[_EMPTY]
    OBVIOUS
  <2>3. empty \in Seq(Nat) /\ Len(empty) \in Nat
    BY <1>1, <2>1, <2>2, TreeFacts
  <2>4. Len(t.lists[_EMPTY]) = 0
    BY <2>1
  <2>5. \A j \in 1 .. Len(empty) : FALSE
    BY <2>1, <2>2, <2>4 DEF Prunes
  <2>6. Len(empty) = 0
    BY <2>3, <2>5
  <2> QED
    BY <2>2, <2>3, <2>6, EmptySeq
<1>6. ListsOwned(u)
  BY <1>1, <1>2, <1>4, <1>5 DEF ListsOwned
<1>7. ListsSound(u)
  <2>1. ASSUME NEW l \in 1 .. Len(u.lists), NEW j \in 1 .. Len(u.lists[l])
        PROVE  /\ u.lists[l][j] \in BelowRoot(u)
               /\ \E m \in NodesOf(u) : u.nodes[m].children = l /\ Above(u, m, u.nodes[u.lists[l][j]].path)
    <3>1. PICK k \in 1 .. Len(t.lists[l]) : u.lists[l][j] = t.lists[l][k]
      BY <1>1 DEF Prunes
    <3>2. PICK n : n = t.lists[l][k]
      OBVIOUS
    <3>3. n \in BelowRoot(t) /\ \E m \in NodesOf(t) : t.nodes[m].children = l /\ Above(t, m, t.nodes[n].path)
      BY <1>1, <1>4, <3>2 DEF ListsSound
    <3> QED
      BY <1>1, <1>2, <3>1, <3>2, <3>3
  <2>2. \A l \in 1 .. Len(u.lists) : \A j, k \in 1 .. Len(u.lists[l]) : u.lists[l][j] = u.lists[l][k] => j = k
    BY <1>1 DEF Prunes
  <2> QED
    BY <2>1, <2>2 DEF ListsSound
<1> QED
  BY <1>1, <1>3, <1>6, <1>7 DEF SoundTree

ListsOrdered(t) ==
    \A l \in 1 .. Len(t.lists) : \A j, k \in 1 .. Len(t.lists[l]) :
        j < k => InOrder(t, t.lists[l][j], t.lists[l][k])

\* A tree that is sorted has all its nodes still.
LEMMA SortedTreeSound ==
    ASSUME NEW t, NEW P, SoundTree(t, P), AllListed(t)
    PROVE  SoundTree(SortedTree(t), P) /\ AllListed(SortedTree(t)) /\ ListsOrdered(SortedTree(t))
<1>1. PICK u : u = SortedTree(t)
  OBVIOUS
<1>2. t \in TreeType /\ ListsOwned(t)
  BY DEF SoundTree
<1>3. PICK lists : lists = [l \in 1 .. Len(t.lists) |-> Sorted(t, t.lists[l])]
  OBVIOUS
<1>4. u = [nodes |-> t.nodes, lists |-> lists]
  <2>1. DOMAIN t.lists = 1 .. Len(t.lists)
    BY <1>2, TreeFacts
  <2>2. t = [nodes |-> t.nodes, lists |-> t.lists]
    BY <1>2 DEF TreeType
  <2> QED
    BY <1>1, <1>3, <2>1, <2>2 DEF SortedTree
<1>5. PICK n : n = Len(t.lists)
  OBVIOUS
<1>6. n \in Nat
  BY <1>2, <1>5, TreeFacts
<1>7. \A l \in 1 .. n : Arranged(t, lists[l], t.lists[l])
  BY <1>3, <1>5, SortedFacts
<1>8. lists \in Seq(Seq(Nat)) /\ Len(lists) = n
  <2>1. lists \in [1 .. n -> Seq(Nat)]
    BY <1>3, <1>5, <1>7 DEF Arranged
  <2> QED
    BY <1>6, <2>1, SeqDef
<1>9. u \in TreeType
  BY <1>2, <1>4, <1>8, TreeFacts DEF TreeType
<1>10. u.nodes = t.nodes /\ u.lists = lists
  BY <1>4
<1>11. Prunes(u, t)
  <2>1. ASSUME NEW l \in 1 .. n
        PROVE  /\ \A j \in 1 .. Len(lists[l]) : \E k \in 1 .. Len(t.lists[l]) : lists[l][j] = t.lists[l][k]
               /\ \A j, k \in 1 .. Len(lists[l]) : lists[l][j] = lists[l][k] => j = k
    BY <1>7 DEF Arranged
  <2> QED
    BY <1>5, <1>8, <1>9, <1>10, <2>1 DEF Prunes
<1>12. SoundTree(u, P)
  BY <1>11, PrunedIsSound
<1>13. NodesOf(u) = NodesOf(t) /\ BelowRoot(u) = BelowRoot(t) /\ \A m, p : Above(u, m, p) <=> Above(t, m, p)
  BY <1>10 DEF NodesOf, BelowRoot, Above
<1>14. AllListed(u)
  <2>1. ASSUME NEW b \in BelowRoot(u)
        PROVE  \E m \in NodesOf(u) : Above(u, m, u.nodes[b].path) /\ Listed(u, m, b)
    <3>1. PICK m \in NodesOf(t) : Above(t, m, t.nodes[b].path) /\ Listed(t, m, b)
      BY <1>13, <2>1 DEF AllListed
    <3>2. PICK l : l = t.nodes[m].children
      OBVIOUS
    <3>3. l \in 1 .. n
      BY <1>2, <1>5, <3>2 DEF ListsOwned
    <3>4. PICK k \in 1 .. Len(t.lists[l]) : t.lists[l][k] = b
      BY <3>1, <3>2 DEF Listed
    <3>5. \E j \in 1 .. Len(lists[l]) : lists[l][j] = b
      <4>1. \A i \in 1 .. Len(t.lists[l]) : \E j \in 1 .. Len(lists[l]) : t.lists[l][i] = lists[l][j]
        BY <1>7, <3>3 DEF Arranged
      <4> QED
        BY <3>4, <4>1
    <3>6. Listed(u, m, b)
      BY <1>10, <3>2, <3>5 DEF Listed
    <3> QED
      BY <1>10, <1>13, <3>1, <3>6
  <2> QED
    BY <2>1 DEF AllListed
<1>15. ListsOrdered(u)
  <2>1. \A a, b : InOrder(u, a, b) <=> InOrder(t, a, b)
    BY <1>10 DEF InOrder
  <2>2. \A l \in 1 .. n : \A j, k \in 1 .. Len(lists[l]) : j < k => InOrder(t, lists[l][j], lists[l][k])
    BY <1>7 DEF Arranged
  <2> QED
    BY <1>8, <1>10, <2>1, <2>2 DEF ListsOrdered
<1> QED
  BY <1>1, <1>12, <1>14, <1>15

-----------------------------------------------------------------------------
(***************************************************************************)
(* The tree of the files.                                                  *)
(***************************************************************************)
Ways == UNION {Steps(f) : f \in Range(files)}

LEMMA NodesAreBelowRoot ==
    ASSUME sources \in TreeType
    PROVE  Nodes = BelowRoot(sources) /\ DOMAIN sources.nodes = NodesOf(sources)
<1>1. DOMAIN sources.nodes = 1 .. Len(sources.nodes) /\ Len(sources.nodes) \in Nat
  BY TreeFacts
<1> QED
  BY <1>1 DEF Nodes, BelowRoot, NodesOf, ROOTNODE

LEMMA ParentsAreListing ==
    ASSUME NEW P, SoundTree(sources, P), NEW n
    PROVE  ParentsOf(n) = {m \in NodesOf(sources) : Listed(sources, m, n)}
<1>1. DOMAIN sources.nodes = NodesOf(sources)
  BY NodesAreBelowRoot DEF SoundTree
<1>2. \A m \in NodesOf(sources) : n \in Range(Children(sources, m)) <=> Listed(sources, m, n)
  BY RangeOfChildren
<1> QED
  BY <1>1, <1>2 DEF ParentsOf

\* The only parent of what is listed is the node of its directory.
LEMMA ParentIsOne ==
    ASSUME NEW P, SoundTree(sources, P), NEW n, NEW m \in NodesOf(sources), Listed(sources, m, n)
    PROVE  ParentsOf(n) = {m} /\ n \in Nodes /\ Above(sources, m, PathOf(n))
<1>1. n \in BelowRoot(sources) /\ Above(sources, m, sources.nodes[n].path)
  BY ListedBelow
<1>2. ASSUME NEW o \in NodesOf(sources), Listed(sources, o, n)
      PROVE  o = m
  <2>1. Above(sources, o, sources.nodes[n].path)
    BY <1>2, ListedBelow
  <2> QED
    BY <1>1, <2>1, AboveIsOne
<1>3. ParentsOf(n) = {m}
  BY <1>2, ParentsAreListing
<1>4. n \in Nodes
  BY <1>1, NodesAreBelowRoot DEF SoundTree
<1> QED
  BY <1>1, <1>3, <1>4 DEF PathOf

LEMMA HoldsPrefixes ==
    ASSUME files \in Seq(SourceFiles), SoundTree(sources, Ways), AllListed(sources)
    PROVE  TreeHoldsPrefixes
<1>1. PICK P : P = Ways
  OBVIOUS
<1>2. SoundTree(sources, P) /\ sources \in TreeType /\ NodesSound(sources, P) /\ ListsOwned(sources) /\ ListsSound(sources)
  BY <1>1 DEF SoundTree
<1>3. Nodes = BelowRoot(sources) /\ DOMAIN sources.nodes = NodesOf(sources)
  BY <1>2, NodesAreBelowRoot
<1>4. \A f \in Range(files) : f \in SourceFiles
  <2>1. DOMAIN files = 1 .. Len(files)
    BY LenProperties
  <2> QED
    BY <2>1, ElementOfSeq DEF Range
<1>5. {PathOf(n) : n \in Nodes} = UNION {Prefixes(Relative(f)) \ {<<>>, EMPTY} : f \in Range(files)}
  <2>1. {PathOf(n) : n \in Nodes} = P
    BY <1>2, <1>3 DEF NodesSound, PathOf
  <2>2. \A f \in Range(files) : Prefixes(Relative(f)) \ {<<>>, EMPTY} = Steps(f)
    BY <1>4, StepsArePrefixes
  <2>3. {Prefixes(Relative(f)) \ {<<>>, EMPTY} : f \in Range(files)} = {Steps(f) : f \in Range(files)}
    BY <2>2
  <2> QED
    BY <1>1, <2>1, <2>3 DEF Ways
<1>6. ASSUME NEW l \in DOMAIN sources.lists, NEW m \in DOMAIN sources.lists,
             NEW j \in DOMAIN sources.lists[l], NEW k \in DOMAIN sources.lists[m],
             sources.lists[l][j] = sources.lists[m][k]
      PROVE  l = m /\ j = k
  <2>1. l \in 1 .. Len(sources.lists) /\ m \in 1 .. Len(sources.lists)
    BY <1>2, TreeFacts
  <2>2. j \in 1 .. Len(sources.lists[l]) /\ k \in 1 .. Len(sources.lists[m])
    BY <1>2, <2>1, TreeFacts
  <2>3. PICK n : n = sources.lists[l][j]
    OBVIOUS
  <2>4. PICK a \in NodesOf(sources) : sources.nodes[a].children = l /\ Above(sources, a, sources.nodes[n].path)
    BY <1>2, <2>1, <2>2, <2>3 DEF ListsSound
  <2>5. PICK b \in NodesOf(sources) : sources.nodes[b].children = m /\ Above(sources, b, sources.nodes[n].path)
    BY <1>2, <1>6, <2>1, <2>2, <2>3 DEF ListsSound
  <2>6. a = b
    BY <1>2, <2>4, <2>5, AboveIsOne
  <2>7. l = m
    BY <2>4, <2>5, <2>6
  <2> QED
    BY <1>2, <1>6, <2>1, <2>2, <2>7 DEF ListsSound
<1>7. ASSUME NEW n \in Nodes
      PROVE  \E m \in ParentsOf(n) :
                /\ ParentsOf(n) = {m}
                /\ IF m = ROOTNODE THEN GetDirectory(PathOf(n)) \in {DOT, ROOT} ELSE PathOf(m) = GetDirectory(PathOf(n))
  <2>1. PICK m \in NodesOf(sources) : Above(sources, m, sources.nodes[n].path) /\ Listed(sources, m, n)
    BY <1>3 DEF AllListed
  <2>2. ParentsOf(n) = {m}
    BY <1>2, <2>1, ParentIsOne
  <2> QED
    BY <2>1, <2>2 DEF Above, IsTop, PathOf
<1>8. sources.lists[_EMPTY] = <<>>
  BY <1>2 DEF ListsOwned
<1> QED
  BY <1>5, <1>6, <1>7, <1>8 DEF TreeHoldsPrefixes

\* Whatever is on the way to a file has a node, which the node of its directory lists.
LEMMA NodeOfStep ==
    ASSUME SoundTree(sources, Ways), AllListed(sources), NEW f \in Range(files), NEW p \in Steps(f)
    PROVE  \E n \in Nodes : PathOf(n) = p /\ \E m \in NodesOf(sources) : Above(sources, m, p) /\ Listed(sources, m, n)
<1>1. p \in Ways
  BY DEF Ways
<1>2. PICK n \in BelowRoot(sources) : sources.nodes[n].path = p
  BY <1>1 DEF SoundTree, NodesSound
<1>3. \E m \in NodesOf(sources) : Above(sources, m, p) /\ Listed(sources, m, n)
  BY <1>2 DEF AllListed
<1>4. n \in Nodes
  BY <1>2, NodesAreBelowRoot DEF SoundTree
<1> QED
  BY <1>2, <1>3, <1>4 DEF PathOf

LEMMA ListedMeansChildren ==
    ASSUME NEW P, SoundTree(sources, P), NEW m \in NodesOf(sources)
    PROVE  Children(sources, m) # <<>> <=> \E n : Listed(sources, m, n)
<1>1. PICK list : list = sources.lists[sources.nodes[m].children]
  OBVIOUS
<1>2. list \in Seq(Nat) /\ Len(list) \in Nat
  BY <1>1, TreeFacts DEF SoundTree, ListsOwned
<1>3. list # <<>> <=> 1 \in 1 .. Len(list)
  BY <1>2, EmptySeq
<1>4. (\E n : Listed(sources, m, n)) <=> 1 \in 1 .. Len(list)
  <2>1. (\E n : Listed(sources, m, n)) <=> \E k \in 1 .. Len(list) : TRUE
    BY <1>1 DEF Listed
  <2> QED
    BY <1>2, <2>1
<1> QED
  BY <1>1, <1>3, <1>4 DEF Children

\* The last step of a way is the whole of it.
LEMMA LastStep ==
    ASSUME NEW f \in SourceFiles
    PROVE  /\ Relative(f) \in Steps(f)
           /\ Len(Relative(f)) \in First(f) + 1 .. Len(Relative(f))
           /\ SubSeq(Relative(f), 1, Len(Relative(f))) = Relative(f)
<1>1. PICK r : r = Relative(f)
  OBVIOUS
<1>2. First(f) \in {0, 1} /\ Len(r) \in Nat /\ First(f) < Len(r) /\ r \in Seq(Range(r))
  BY <1>1, WayFacts DEF Normal
<1>3. SubSeq(r, 1, Len(r)) = r
  BY <1>2, SubSeqFull
<1>4. Len(r) \in First(f) + 1 .. Len(r)
  BY <1>2
<1> QED
  BY <1>1, <1>3, <1>4 DEF Steps

\* A file that lies in a folder does not lie at the top.
LEMMA FolderOfFile ==
    ASSUME NEW f \in SourceFiles
    PROVE  /\ GetDirectory(Relative(f)) # DOT <=> ~IsTop(Relative(f))
           /\ ~IsTop(Relative(f)) <=> Len(Relative(f)) # First(f) + 1
<1>1. PICK r : r = Relative(f)
  OBVIOUS
<1>2. First(f) \in {0, 1} /\ Len(r) \in Nat /\ First(f) < Len(r) /\ (First(f) = 1 => Len(r) > 2)
  BY <1>1, WayFacts DEF Normal
<1>3. IsTop(r) <=> Len(r) = First(f) + 1
  BY <1>1, LastStep, StepFacts
<1>4. ASSUME IsTop(r)
      PROVE  GetDirectory(r) = DOT
  <2>1. Len(r) = 1
    BY <1>2, <1>3, <1>4
  <2> QED
    BY <2>1 DEF GetDirectory
<1>5. ASSUME ~IsTop(r)
      PROVE  GetDirectory(r) # DOT
  BY <1>5 DEF IsTop
<1> QED
  BY <1>1, <1>3, <1>4, <1>5

LEMMA FoldersDeclared ==
    ASSUME files \in Seq(SourceFiles), SoundTree(sources, Ways), AllListed(sources)
    PROVE  FiltersDeclared
<1> DEFINE Groups == {GetDirectory(Relative(f)) : f \in Range(files)} \ {DOT}
           Branches == {n \in Nodes : Children(sources, n) # <<>>}
           Declared == {Relative(PathOf(n)) : n \in Branches}
<1>1. PICK P : P = Ways
  OBVIOUS
<1>2. SoundTree(sources, P) /\ sources \in TreeType /\ NodesSound(sources, P) /\ ListsOwned(sources)
  BY <1>1 DEF SoundTree
<1>3. Nodes = BelowRoot(sources) /\ DOMAIN sources.nodes = NodesOf(sources) /\ Nodes \subseteq NodesOf(sources)
  BY <1>2, NodesAreBelowRoot DEF Nodes
<1>4. \A f \in Range(files) : f \in SourceFiles
  <2>1. DOMAIN files = 1 .. Len(files)
    BY LenProperties
  <2> QED
    BY <2>1, ElementOfSeq DEF Range
<1>5. \A n \in Nodes : PathOf(n) \in TreePaths /\ Relative(PathOf(n)) = PathOf(n)
  BY <1>2, <1>3, TreePathFacts DEF NodesSound, PathOf
<1>6. Groups \subseteq Declared
  <2>1. ASSUME NEW f \in Range(files), GetDirectory(Relative(f)) # DOT
        PROVE  \E m \in Branches : PathOf(m) = GetDirectory(Relative(f))
    <3>1. Relative(f) \in Steps(f) /\ ~IsTop(Relative(f))
      BY <1>4, <2>1, LastStep, FolderOfFile
    <3>2. PICK n \in Nodes : PathOf(n) = Relative(f) /\ \E m \in NodesOf(sources) : Above(sources, m, Relative(f)) /\ Listed(sources, m, n)
      BY <3>1, NodeOfStep
    <3>3. PICK m \in NodesOf(sources) : Above(sources, m, Relative(f)) /\ Listed(sources, m, n)
      BY <3>2
    <3>4. m # ROOTNODE /\ PathOf(m) = GetDirectory(Relative(f))
      BY <3>1, <3>3 DEF Above, PathOf
    <3>5. m \in Nodes
      BY <1>3, <3>4 DEF Nodes
    <3>6. Children(sources, m) # <<>>
      BY <1>2, <3>3, ListedMeansChildren
    <3> QED
      BY <3>4, <3>5, <3>6
  <2>2. ASSUME NEW m \in Branches
        PROVE  PathOf(m) \in Declared
    BY <1>5
  <2> HIDE DEF Branches, Declared
  <2> QED
    BY <2>1, <2>2
<1>7. Cardinality(Declared) = Cardinality(Branches)
  <2>1. PICK g : g = [n \in Branches |-> Relative(PathOf(n))]
    OBVIOUS
  <2>2. \A m, n \in Branches : g[m] = g[n] => m = n
    BY <1>2, <1>3, <1>5, <2>1 DEF NodesSound, PathOf
  <2>3. Branches \subseteq 1 .. Len(sources.nodes) /\ Len(sources.nodes) \in Nat
    BY <1>2, <1>3, TreeFacts DEF NodesOf
  <2>4. IsFiniteSet(Branches)
    <3>1. IsFiniteSet(1 .. Len(sources.nodes))
      BY <2>3, FS_Interval
    <3> HIDE DEF Branches
    <3> QED
      BY <2>3, <3>1, FS_Subset
  <2> HIDE DEF Branches
  <2>5. g \in [Branches -> Declared]
    BY <2>1
  <2>6. g \in Bijection(Branches, Declared)
    BY <2>1, <2>2, <2>5 DEF Bijection, Injection, Surjection, IsInjective
  <2>7. ExistsBijection(Branches, Declared)
    BY <2>6 DEF ExistsBijection
  <2> HIDE DEF Declared
  <2> QED
    BY <2>4, <2>7, FS_Bijection
<1>8. ASSUME NEW f \in Range(files), GetDirectory(Relative(f)) # DOT
      PROVE  HasBranches(sources)
  <2>1. PICK first, r, k : first = First(f) /\ r = Relative(f) /\ k = first + 2
    OBVIOUS
  <2>2. first \in {0, 1} /\ Len(r) \in Nat /\ first < Len(r) /\ Len(r) # first + 1
    BY <1>4, <1>8, <2>1, WayFacts, FolderOfFile DEF Normal
  <2>3. first + 1 \in first + 1 .. Len(r) /\ k \in first + 1 .. Len(r) /\ k # first + 1 /\ k - 1 = first + 1
    BY <2>1, <2>2
  <2>4. PICK p, q : p = SubSeq(r, 1, first + 1) /\ q = SubSeq(r, 1, k)
    OBVIOUS
  <2>5. p \in Steps(f) /\ IsTop(p)
    BY <1>4, <2>1, <2>3, <2>4, StepFacts
  <2>6. q \in Steps(f) /\ ~IsTop(q) /\ GetDirectory(q) = p
    BY <1>4, <2>1, <2>3, <2>4, StepFacts
  <2>7. PICK n \in Nodes : PathOf(n) = p /\ \E m \in NodesOf(sources) : Above(sources, m, p) /\ Listed(sources, m, n)
    BY <2>5, NodeOfStep
  <2>8. Listed(sources, ROOTNODE, n) /\ ROOTNODE \in NodesOf(sources)
    BY <2>5, <2>7 DEF Above
  <2>9. PICK c \in Nodes : PathOf(c) = q /\ \E m \in NodesOf(sources) : Above(sources, m, q) /\ Listed(sources, m, c)
    BY <2>6, NodeOfStep
  <2>10. PICK m \in NodesOf(sources) : Above(sources, m, q) /\ Listed(sources, m, c)
    BY <2>9
  <2>11. Above(sources, n, q)
    BY <1>3, <2>6, <2>7 DEF Above, PathOf, Nodes
  <2>12. Listed(sources, n, c)
    BY <1>2, <2>10, <2>11, AboveIsOne
  <2>13. Children(sources, n) # <<>>
    BY <1>2, <1>3, <2>12, ListedMeansChildren
  <2>14. n \in Range(Children(sources, ROOTNODE))
    BY <1>2, <2>8, RangeOfChildren
  <2> QED
    BY <2>13, <2>14 DEF HasBranches
<1>9. ASSUME HasBranches(sources)
      PROVE  \E f \in Range(files) : GetDirectory(Relative(f)) # DOT
  <2>1. ROOTNODE \in NodesOf(sources)
    BY <1>2, TreeFacts DEF NodesSound, NodesOf, ROOTNODE
  <2>2. PICK n \in Range(Children(sources, ROOTNODE)) : Children(sources, n) # <<>>
    BY <1>9 DEF HasBranches
  <2>3. n \in Nodes
    BY <1>2, <1>3, <2>1, RangeOfChildren, ListedBelow
  <2>4. PICK c : Listed(sources, n, c)
    BY <1>2, <1>3, <2>2, <2>3, ListedMeansChildren
  <2>5. c \in Nodes /\ Above(sources, n, PathOf(c))
    BY <1>2, <1>3, <2>3, <2>4, ParentIsOne
  <2>6. ~IsTop(PathOf(c))
    BY <2>3, <2>5 DEF Above, Nodes
  <2>7. PathOf(c) \in Ways
    BY <1>1, <1>2, <1>3, <2>5 DEF NodesSound, PathOf
  <2>8. PICK f \in Range(files) : PathOf(c) \in Steps(f)
    BY <2>7 DEF Ways
  <2>9. PICK k \in First(f) + 1 .. Len(Relative(f)) : PathOf(c) = SubSeq(Relative(f), 1, k)
    BY <2>8 DEF Steps
  <2>10. k # First(f) + 1
    BY <1>4, <2>6, <2>9, StepFacts
  <2>11. PICK first, long : first = First(f) /\ long = Len(Relative(f))
    OBVIOUS
  <2>12. first \in {0, 1} /\ long \in Nat
    BY <1>4, <2>11, WayFacts DEF Normal
  <2>13. long # first + 1
    BY <2>9, <2>10, <2>11, <2>12
  <2> QED
    BY <1>4, <2>11, <2>13, FolderOfFile
<1>10. HasBranches(sources) <=> Groups # {}
  BY <1>8, <1>9
<1> QED
  BY <1>6, <1>7, <1>10 DEF FiltersDeclared

-----------------------------------------------------------------------------
(***************************************************************************)
(* Removing from a tree.                                                   *)
(***************************************************************************)
LEMMA RemoveAtFacts ==
    ASSUME NEW S, NEW s \in Seq(S), NEW r \in 1 .. Len(s)
    PROVE  /\ RemoveAt(s, r) \in Seq(S) /\ Len(RemoveAt(s, r)) = Len(s) - 1
           /\ \A j \in 1 .. Len(s) - 1 : RemoveAt(s, r)[j] = IF j < r THEN s[j] ELSE s[j + 1]
<1>1. PICK n : n = Len(s)
  OBVIOUS
<1>2. n \in Nat /\ r \in 1 .. n /\ \A j \in 1 .. n : s[j] \in S
  BY <1>1, LenProperties, ElementOfSeq
<1>3. PICK a, b : a = SubSeq(s, 1, r - 1) /\ b = SubSeq(s, r + 1, n)
  OBVIOUS
<1>4. a \in Seq(S) /\ Len(a) = r - 1 /\ \A j \in 1 .. r - 1 : a[j] = s[j]
  <2>1. 1 \in Int /\ r - 1 \in Int /\ \A j \in 1 .. r - 1 : s[j] \in S
    BY <1>2
  <2>2. /\ a \in Seq(S) /\ Len(a) = (IF 1 <= r - 1 THEN (r - 1) - 1 + 1 ELSE 0)
        /\ \A j \in 1 .. (r - 1) - 1 + 1 : a[j] = s[1 + j - 1]
    BY <1>3, <2>1, SubSeqProperties
  <2>3. \A j \in 1 .. r - 1 : j \in 1 .. (r - 1) - 1 + 1 /\ 1 + j - 1 = j
    BY <1>2
  <2>4. Len(a) = r - 1
    BY <1>2, <2>2
  <2> QED
    BY <2>2, <2>3, <2>4
<1>5. b \in Seq(S) /\ Len(b) = n - r /\ \A j \in 1 .. n - r : b[j] = s[r + j]
  <2>1. r + 1 \in Int /\ n \in Int /\ \A j \in r + 1 .. n : s[j] \in S
    BY <1>2
  <2>2. /\ b \in Seq(S) /\ Len(b) = (IF r + 1 <= n THEN n - (r + 1) + 1 ELSE 0)
        /\ \A j \in 1 .. n - (r + 1) + 1 : b[j] = s[(r + 1) + j - 1]
    BY <1>3, <2>1, SubSeqProperties
  <2>3. \A j \in 1 .. n - r : j \in 1 .. n - (r + 1) + 1 /\ (r + 1) + j - 1 = r + j
    BY <1>2
  <2>4. Len(b) = n - r
    BY <1>2, <2>2
  <2> QED
    BY <2>2, <2>3, <2>4
<1>6. PICK c : c = a \o b
  OBVIOUS
<1>7. /\ c \in Seq(S) /\ Len(c) = n - 1
      /\ \A j \in 1 .. n - 1 : c[j] = IF j <= r - 1 THEN a[j] ELSE b[j - (r - 1)]
  <2>1. /\ c \in Seq(S) /\ Len(c) = Len(a) + Len(b)
        /\ \A j \in 1 .. Len(a) + Len(b) : c[j] = IF j <= Len(a) THEN a[j] ELSE b[j - Len(a)]
    BY <1>4, <1>5, <1>6, ConcatProperties
  <2>2. Len(a) + Len(b) = n - 1
    BY <1>2, <1>4, <1>5
  <2> QED
    BY <1>4, <2>1, <2>2
<1>8. ASSUME NEW j \in 1 .. n - 1
      PROVE  c[j] = IF j < r THEN s[j] ELSE s[j + 1]
  <2>1. CASE j < r
    <3>1. j \in 1 .. r - 1 /\ j <= r - 1
      BY <1>2, <2>1
    <3> QED
      BY <1>4, <1>7, <2>1, <3>1
  <2>2. CASE ~(j < r)
    <3>1. ~(j <= r - 1) /\ j - (r - 1) \in 1 .. n - r /\ r + (j - (r - 1)) = j + 1
      BY <1>2, <2>2
    <3>2. b[j - (r - 1)] = s[j + 1]
      BY <1>5, <3>1
    <3> QED
      BY <1>7, <2>2, <3>1, <3>2
  <2> QED
    BY <2>1, <2>2
<1>9. RemoveAt(s, r) = c
  BY <1>1, <1>3, <1>6 DEF RemoveAt
<1> QED
  BY <1>1, <1>7, <1>8, <1>9

\* List u is list s without its element r, if r is one.
Shortened(u, s, r) ==
    /\ u \in Seq(Nat) /\ Len(u) = (IF r = 0 THEN Len(s) ELSE Len(s) - 1)
    /\ \A j \in 1 .. Len(u) : u[j] = IF r = 0 \/ j < r THEN s[j] ELSE s[j + 1]

\* Tree u is tree t after a callback at a node: child r is gone, if r is one.
Cut(u, t, parent, r) ==
    /\ u \in TreeType /\ u.nodes = t.nodes /\ Len(u.lists) = Len(t.lists)
    /\ r \in 0 .. Len(Children(t, parent))
    /\ Shortened(Children(u, parent), Children(t, parent), r)
    /\ \A l \in 1 .. Len(t.lists) : l # t.nodes[parent].children => u.lists[l] = t.lists[l]

LEMMA CallbackCuts ==
    ASSUME NEW t, NEW P, SoundTree(t, P), NEW parent \in NodesOf(t), NEW u,
           u \in {t} \cup {Without(t, parent, k) : k \in DOMAIN Children(t, parent)}
    PROVE  \E r \in 0 .. Len(Children(t, parent)) : Cut(u, t, parent, r)
<1>1. PICK l : l = t.nodes[parent].children
  OBVIOUS
<1>2. t \in TreeType /\ l \in 1 .. Len(t.lists)
  BY <1>1 DEF SoundTree, ListsOwned
<1>3. PICK list : list = t.lists[l]
  OBVIOUS
<1>4. /\ Children(t, parent) = list /\ list \in Seq(Nat) /\ Len(list) \in Nat
      /\ DOMAIN list = 1 .. Len(list) /\ t.lists \in Seq(Seq(Nat)) /\ t.nodes \in Seq(Node)
  BY <1>1, <1>2, <1>3, TreeFacts DEF Children
<1>5. CASE u = t
  <2>1. Shortened(list, list, 0)
    BY <1>4 DEF Shortened
  <2>2. 0 \in 0 .. Len(list)
    BY <1>4
  <2>3. Cut(u, t, parent, 0)
    BY <1>2, <1>4, <1>5, <2>1, <2>2 DEF Cut
  <2> QED
    BY <1>4, <2>2, <2>3
<1>6. CASE u # t
  <2>1. PICK k \in 1 .. Len(list) : u = Without(t, parent, k)
    BY <1>4, <1>6
  <2>2. PICK less : less = RemoveAt(list, k)
    OBVIOUS
  <2>3. /\ less \in Seq(Nat) /\ Len(less) = Len(list) - 1
        /\ \A j \in 1 .. Len(list) - 1 : less[j] = IF j < k THEN list[j] ELSE list[j + 1]
    BY <1>4, <2>1, <2>2, RemoveAtFacts
  <2>4. t = [nodes |-> t.nodes, lists |-> t.lists]
    BY <1>2 DEF TreeType
  <2>5. u = [nodes |-> t.nodes, lists |-> [t.lists EXCEPT ![l] = less]]
    BY <1>1, <1>3, <2>1, <2>2, <2>4 DEF Without
  <2>6. PICK lists : lists = [t.lists EXCEPT ![l] = less]
    OBVIOUS
  <2>7. /\ lists \in Seq(Seq(Nat)) /\ Len(lists) = Len(t.lists)
        /\ \A m \in 1 .. Len(t.lists) : lists[m] = IF m = l THEN less ELSE t.lists[m]
    <3>1. less \in Seq(Nat) /\ t.lists \in Seq(Seq(Nat)) /\ l \in 1 .. Len(t.lists)
      BY <1>2, <1>4, <2>3
    <3> QED
      BY <2>6, <3>1
  <2>8. u.nodes = t.nodes /\ u.lists = lists /\ u \in TreeType
    BY <1>4, <2>5, <2>6, <2>7 DEF TreeType
  <2>9. Children(u, parent) = less
    BY <1>1, <1>2, <2>7, <2>8 DEF Children
  <2>10. k \in 0 .. Len(list) /\ k # 0
    BY <1>4, <2>1
  <2>11. Shortened(less, list, k)
    BY <2>3, <2>10 DEF Shortened
  <2>12. \A m \in 1 .. Len(t.lists) : m # t.nodes[parent].children => u.lists[m] = t.lists[m]
    BY <1>1, <2>7, <2>8
  <2>13. Cut(u, t, parent, k)
    BY <1>4, <2>7, <2>8, <2>9, <2>10, <2>11, <2>12 DEF Cut
  <2> QED
    BY <1>4, <2>10, <2>13
<1> QED
  BY <1>5, <1>6

\* What is in a list stands in another one, and in the same order.
Within(u, s) ==
    \E at \in [1 .. Len(u) -> 1 .. Len(s)] :
        /\ \A j \in 1 .. Len(u) : u[j] = s[at[j]]
        /\ \A j, k \in 1 .. Len(u) : j < k => at[j] < at[k]

LEMMA ShortenedKeeps ==
    ASSUME NEW s \in Seq(Nat), NEW r \in 0 .. Len(s), NEW u, Shortened(u, s, r)
    PROVE  Within(u, s)
<1>1. PICK n, m : n = Len(s) /\ m = Len(u)
  OBVIOUS
<1>2. n \in Nat /\ r \in 0 .. n /\ m = (IF r = 0 THEN n ELSE n - 1)
  BY <1>1, LenProperties DEF Shortened
<1>3. PICK at : at = [j \in 1 .. m |-> IF r = 0 \/ j < r THEN j ELSE j + 1]
  OBVIOUS
<1>4. at \in [1 .. m -> 1 .. n]
  BY <1>2, <1>3
<1>5. \A j, k \in 1 .. m : j < k => at[j] < at[k]
  BY <1>2, <1>3
<1>6. \A j \in 1 .. m : u[j] = s[at[j]]
  BY <1>1, <1>3 DEF Shortened
<1> QED
  BY <1>1, <1>4, <1>5, <1>6 DEF Within

LEMMA CutFacts ==
    ASSUME NEW t, NEW P, SoundTree(t, P), ListsOrdered(t), NEW parent \in NodesOf(t),
           NEW r \in 0 .. Len(Children(t, parent)), NEW u, Cut(u, t, parent, r)
    PROVE  /\ SoundTree(u, P) /\ ListsOrdered(u)
           /\ \A m \in NodesOf(t) : \A n : Listed(u, m, n) => Listed(t, m, n)
<1>1. PICK l : l = t.nodes[parent].children
  OBVIOUS
<1>2. t \in TreeType /\ l \in 1 .. Len(t.lists) /\ ListsSound(t) /\ ListsOwned(t)
  BY <1>1 DEF SoundTree, ListsOwned
<1>3. u \in TreeType /\ u.nodes = t.nodes /\ Len(u.lists) = Len(t.lists)
  BY DEF Cut
<1>4. /\ Children(t, parent) = t.lists[l] /\ Children(u, parent) = u.lists[l]
      /\ t.lists[l] \in Seq(Nat) /\ Shortened(u.lists[l], t.lists[l], r) /\ r \in 0 .. Len(t.lists[l])
  BY <1>1, <1>2, <1>3, TreeFacts DEF Children, Cut
<1>5. ASSUME NEW m \in 1 .. Len(t.lists)
      PROVE  Within(u.lists[m], t.lists[m])
  <2>1. CASE m = l
    BY <1>4, <2>1, ShortenedKeeps
  <2>2. CASE m # l
    <3>1. u.lists[m] = t.lists[m]
      BY <1>1, <2>2 DEF Cut
    <3>2. PICK s : s = t.lists[m]
      OBVIOUS
    <3>3. PICK at : at = [j \in 1 .. Len(s) |-> j]
      OBVIOUS
    <3>4. at \in [1 .. Len(s) -> 1 .. Len(s)] /\ \A j \in 1 .. Len(s) : at[j] = j
      BY <3>3
    <3>5. Within(s, s)
      BY <3>4 DEF Within
    <3> QED
      BY <3>1, <3>2, <3>5
  <2> QED
    BY <2>1, <2>2
<1>6. ASSUME NEW m \in 1 .. Len(t.lists), NEW j \in 1 .. Len(u.lists[m])
      PROVE  \E k \in 1 .. Len(t.lists[m]) : u.lists[m][j] = t.lists[m][k]
  BY <1>5 DEF Within
<1>7. ASSUME NEW m \in 1 .. Len(t.lists), NEW j \in 1 .. Len(u.lists[m]), NEW k \in 1 .. Len(u.lists[m]),
             u.lists[m][j] = u.lists[m][k]
      PROVE  j = k
  <2>1. PICK at \in [1 .. Len(u.lists[m]) -> 1 .. Len(t.lists[m])] :
                 /\ \A a \in 1 .. Len(u.lists[m]) : u.lists[m][a] = t.lists[m][at[a]]
                 /\ \A a, b \in 1 .. Len(u.lists[m]) : a < b => at[a] < at[b]
    BY <1>5 DEF Within
  <2>2. PICK x, y : x = at[j] /\ y = at[k]
    OBVIOUS
  <2>3. x \in 1 .. Len(t.lists[m]) /\ y \in 1 .. Len(t.lists[m]) /\ t.lists[m][x] = t.lists[m][y]
    BY <1>7, <2>1, <2>2
  <2>4. x = y
    BY <1>2, <2>3 DEF ListsSound
  <2>5. (j < k => x < y) /\ (k < j => y < x)
    BY <2>1, <2>2
  <2>6. x \in Nat /\ j \in Nat /\ k \in Nat
    BY <2>3
  <2> QED
    BY <2>4, <2>5, <2>6
<1>8. Prunes(u, t)
  BY <1>3, <1>6, <1>7 DEF Prunes
<1>9. SoundTree(u, P)
  BY <1>8, PrunedIsSound
<1>10. ListsOrdered(u)
  <2>1. ASSUME NEW m \in 1 .. Len(u.lists), NEW j \in 1 .. Len(u.lists[m]), NEW k \in 1 .. Len(u.lists[m]), j < k
        PROVE  InOrder(u, u.lists[m][j], u.lists[m][k])
    <3>1. m \in 1 .. Len(t.lists)
      BY <1>3
    <3>2. PICK at \in [1 .. Len(u.lists[m]) -> 1 .. Len(t.lists[m])] :
                 /\ \A a \in 1 .. Len(u.lists[m]) : u.lists[m][a] = t.lists[m][at[a]]
                 /\ \A a, b \in 1 .. Len(u.lists[m]) : a < b => at[a] < at[b]
      BY <1>5, <3>1 DEF Within
    <3>3. PICK x, y : x = at[j] /\ y = at[k]
      OBVIOUS
    <3>4. /\ x \in 1 .. Len(t.lists[m]) /\ y \in 1 .. Len(t.lists[m]) /\ x < y
          /\ u.lists[m][j] = t.lists[m][x] /\ u.lists[m][k] = t.lists[m][y]
      BY <2>1, <3>2, <3>3
    <3>5. InOrder(t, t.lists[m][x], t.lists[m][y])
      BY <3>1, <3>4 DEF ListsOrdered
    <3> QED
      BY <1>3, <3>4, <3>5 DEF InOrder
  <2> QED
    BY <2>1 DEF ListsOrdered
<1>11. ASSUME NEW m \in NodesOf(t), NEW n, Listed(u, m, n)
       PROVE  Listed(t, m, n)
  <2>1. PICK c : c = t.nodes[m].children
    OBVIOUS
  <2>2. c \in 1 .. Len(t.lists)
    BY <1>2, <2>1 DEF ListsOwned
  <2>3. PICK j \in 1 .. Len(u.lists[c]) : u.lists[c][j] = n
    BY <1>3, <1>11, <2>1 DEF Listed
  <2>4. \E k \in 1 .. Len(t.lists[c]) : u.lists[c][j] = t.lists[c][k]
    BY <1>6, <2>2
  <2> QED
    BY <2>1, <2>3, <2>4 DEF Listed
<1> QED
  BY <1>9, <1>10, <1>11

-----------------------------------------------------------------------------
(***************************************************************************)
(* Walking through a tree.                                                 *)
(***************************************************************************)
Frame == [node : Nat, i : Nat \ {0}]

\* Where the loop of a call is, or will be when the call it has made returns.
NextIndex(t, W, j) == IF j = Len(W) THEN W[j].i ELSE Advance(t, W[j], W[j + 1].node).i

\* The children before the index have been visited, and no others.
Split(t, n, i, V) == \A k \in 1 .. Len(Children(t, n)) : Children(t, n)[k] \in Range(V) <=> k < i

WalkSound(t, W, V) ==
    /\ W \in Seq(Frame)
    /\ \A j \in 1 .. Len(W) : W[j].node \in NodesOf(t) /\ (W[j].node = ROOTNODE \/ W[j].node \in Range(V))
    /\ \A j, k \in 1 .. Len(W) : W[j].node = W[k].node => j = k
    /\ \A j \in 1 .. Len(W) : Split(t, W[j].node, NextIndex(t, W, j), V)

\* What has been visited is in order below every node, and below what has been visited.
VisitedSound(t, V) ==
    /\ V \in Seq(BelowRoot(t))
    /\ \A j, k \in 1 .. Len(V) : V[j] = V[k] => j = k
    /\ \A n \in BelowRoot(t) \ Range(V) : \A c : Listed(t, n, c) => c \notin Range(V)
    /\ \A j, k \in 1 .. Len(V) : \A m \in NodesOf(t) :
          j < k /\ Listed(t, m, V[j]) /\ Listed(t, m, V[k]) => InOrder(t, V[j], V[k])

\* Where the walk has been and is no longer, all have been visited.
Finished(t, W, V) ==
    \A n \in NodesOf(t) :
        (n = ROOTNODE \/ n \in Range(V)) /\ (\A j \in 1 .. Len(W) : W[j].node # n) =>
            \A c : Listed(t, n, c) => c \in Range(V)

Going(t, P, W, V) ==
    SoundTree(t, P) /\ ListsOrdered(t) /\ WalkSound(t, W, V) /\ VisitedSound(t, V) /\ Finished(t, W, V)

\* A turn of the loop of the innermost call.
Visits(t, W, V, frame, child, r, u, W2, V2) ==
    /\ W # <<>> /\ frame = Last(W)
    /\ frame.i \in DOMAIN Children(t, frame.node) /\ child = Children(t, frame.node)[frame.i]
    /\ r \in 0 .. Len(Children(t, frame.node)) /\ Cut(u, t, frame.node, r)
    /\ V2 = Append(V, child)
    /\ W2 = IF Children(u, child) = <<>> THEN Append(Front(W), Advance(u, frame, child))
            ELSE Append(W, [node |-> child, i |-> 1])

LEMMA AppendRange ==
    ASSUME NEW S, NEW s \in Seq(S), NEW e \in S
    PROVE  Range(Append(s, e)) = Range(s) \cup {e}
<1>1. PICK u, n : u = Append(s, e) /\ n = Len(s)
  OBVIOUS
<1>2. n \in Nat /\ DOMAIN s = 1 .. n
  BY <1>1, LenProperties
<1>3. u \in Seq(S) /\ Len(u) = n + 1 /\ (\A j \in 1 .. n : u[j] = s[j]) /\ u[n + 1] = e
  BY <1>1, <1>2, AppendProperties
<1>4. DOMAIN u = 1 .. n + 1
  BY <1>3, LenProperties
<1>5. \A j : j \in 1 .. n + 1 <=> j \in 1 .. n \/ j = n + 1
  BY <1>2
<1>6. Range(u) = {u[j] : j \in 1 .. n + 1} /\ Range(s) = {s[j] : j \in 1 .. n}
  BY <1>2, <1>4 DEF Range
<1> QED
  BY <1>1, <1>3, <1>5, <1>6

LEMMA ChildrenAreList ==
    ASSUME NEW t, NEW P, SoundTree(t, P), NEW n \in NodesOf(t)
    PROVE  /\ Children(t, n) \in Seq(Nat) /\ Len(Children(t, n)) \in Nat
           /\ DOMAIN Children(t, n) = 1 .. Len(Children(t, n))
           /\ \A c : Listed(t, n, c) <=> \E k \in 1 .. Len(Children(t, n)) : Children(t, n)[k] = c
           /\ \A j, k \in 1 .. Len(Children(t, n)) : Children(t, n)[j] = Children(t, n)[k] => j = k
<1>1. t.nodes[n].children \in 1 .. Len(t.lists) /\ t \in TreeType /\ ListsSound(t)
  BY DEF SoundTree, ListsOwned
<1> QED
  BY <1>1, TreeFacts DEF Children, Listed, ListsSound

LEMMA FrameFacts ==
    ASSUME NEW t, NEW W, NEW V, WalkSound(t, W, V)
    PROVE  /\ Len(W) \in Nat /\ \A j \in 1 .. Len(W) : W[j] \in Frame
           /\ W # <<>> => Len(W) \in 1 .. Len(W) /\ Last(W) = W[Len(W)]
<1>1. W \in Seq(Frame)
  BY DEF WalkSound
<1>2. Len(W) \in Nat /\ \A j \in 1 .. Len(W) : W[j] \in Frame
  BY <1>1, LenProperties, ElementOfSeq
<1>3. W # <<>> => Len(W) # 0
  BY <1>1, EmptySeq
<1> QED
  BY <1>2, <1>3 DEF Last

LEMMA ChildFacts ==
    ASSUME NEW t, NEW P, NEW W, NEW V, Going(t, P, W, V),
           NEW frame, NEW child, NEW r, NEW u, NEW W2, NEW V2, Visits(t, W, V, frame, child, r, u, W2, V2)
    PROVE  /\ frame \in Frame /\ frame = W[Len(W)] /\ frame.node \in NodesOf(t)
           /\ Listed(t, frame.node, child) /\ child \in BelowRoot(t) /\ child \notin Range(V)
           /\ \A j \in 1 .. Len(W) : W[j].node # child
           /\ V2 \in Seq(BelowRoot(t)) /\ Range(V2) = Range(V) \cup {child}
           /\ Len(V) \in Nat /\ Len(V2) = Len(V) + 1 /\ V2[Len(V) + 1] = child /\ \A j \in 1 .. Len(V) : V2[j] = V[j]
<1>1. SoundTree(t, P) /\ WalkSound(t, W, V) /\ VisitedSound(t, V)
  BY DEF Going
<1>2. /\ W # <<>> /\ frame = Last(W)
      /\ frame.i \in DOMAIN Children(t, frame.node) /\ child = Children(t, frame.node)[frame.i]
      /\ V2 = Append(V, child)
  BY DEF Visits
<1>3. Len(W) \in 1 .. Len(W) /\ frame = W[Len(W)] /\ frame \in Frame
  BY <1>1, <1>2, FrameFacts
<1>4. frame.node \in NodesOf(t) /\ Split(t, frame.node, frame.i, V)
  BY <1>1, <1>3 DEF WalkSound, NextIndex
<1>5. PICK list, i : list = Children(t, frame.node) /\ i = frame.i
  OBVIOUS
<1>6. list \in Seq(Nat) /\ Len(list) \in Nat /\ DOMAIN list = 1 .. Len(list) /\ i \in 1 .. Len(list) /\ child = list[i]
  BY <1>1, <1>2, <1>4, <1>5, ChildrenAreList
<1>7. Listed(t, frame.node, child)
  BY <1>1, <1>4, <1>5, <1>6, ChildrenAreList
<1>8. child \in BelowRoot(t)
  BY <1>1, <1>4, <1>7, ListedBelow
<1>9. child \notin Range(V)
  <2>1. child \in Range(V) <=> i < i
    BY <1>4, <1>5, <1>6 DEF Split
  <2>2. ~(i < i)
    BY <1>6
  <2> QED
    BY <2>1, <2>2
<1>10. \A j \in 1 .. Len(W) : W[j].node # child
  <2>1. child # ROOTNODE
    BY <1>8 DEF BelowRoot, ROOTNODE
  <2> QED
    BY <1>1, <1>9, <2>1 DEF WalkSound
<1>11. V \in Seq(BelowRoot(t)) /\ Len(V) \in Nat
  BY <1>1, LenProperties DEF VisitedSound
<1>12. /\ V2 \in Seq(BelowRoot(t)) /\ Len(V2) = Len(V) + 1 /\ V2[Len(V) + 1] = child
       /\ \A j \in 1 .. Len(V) : V2[j] = V[j]
  BY <1>2, <1>8, <1>11, AppendProperties
<1>13. Range(V2) = Range(V) \cup {child}
  BY <1>2, <1>8, <1>11, AppendRange
<1> QED
  BY <1>3, <1>4, <1>7, <1>8, <1>9, <1>10, <1>11, <1>12, <1>13

\* A callback leaves the lists of other nodes alone.
LEMMA OtherLists ==
    ASSUME NEW t, NEW P, SoundTree(t, P), NEW parent \in NodesOf(t), NEW c, Listed(t, parent, c),
           NEW r, NEW u, Cut(u, t, parent, r), NEW m \in NodesOf(t), m # parent
    PROVE  Children(u, m) = Children(t, m)
<1>1. t.nodes[parent].children # _EMPTY
  BY ListedBelow
<1>2. t.nodes[m].children # t.nodes[parent].children /\ t.nodes[m].children \in 1 .. Len(t.lists)
  BY <1>1 DEF SoundTree, ListsOwned
<1> QED
  BY <1>2 DEF Cut, Children

\* What the set has of a list stands before the index.
Divided(s, S, i) ==
    /\ \A j, k \in 1 .. Len(s) : s[j] = s[k] => j = k
    /\ \A k \in 1 .. Len(s) : s[k] \in S <=> k < i

Advanced(u, s, i) == IF i \in 1 .. Len(u) /\ u[i] = s[i] THEN i + 1 ELSE i

\* The index goes on so that what follows has not been visited, whatever the callback removed.
LEMMA AdvanceSplits ==
    ASSUME NEW s \in Seq(Nat), NEW i \in 1 .. Len(s), NEW r \in 0 .. Len(s), NEW u, Shortened(u, s, r),
           NEW S, Divided(s, S, i)
    PROVE  \A k \in 1 .. Len(u) : u[k] \in S \cup {s[i]} <=> k < Advanced(u, s, i)
<1> DEFINE next == Advanced(u, s, i)
<1>1. PICK n, m : n = Len(s) /\ m = Len(u)
  OBVIOUS
<1>2. n \in Nat /\ i \in 1 .. n /\ r \in 0 .. n /\ m = (IF r = 0 THEN n ELSE n - 1)
  BY <1>1, LenProperties DEF Shortened
<1>3. \A k \in 1 .. m : u[k] = IF r = 0 \/ k < r THEN s[k] ELSE s[k + 1]
  BY <1>1 DEF Shortened
<1>4. \A k \in 1 .. n : s[k] \in S \cup {s[i]} <=> k <= i
  <2>1. TAKE k \in 1 .. n
  <2>2. s[k] \in S <=> k < i
    BY <1>1 DEF Divided
  <2>3. s[k] = s[i] <=> k = i
    BY <1>1 DEF Divided
  <2>4. k <= i <=> k < i \/ k = i
    BY <1>2
  <2> QED
    BY <2>2, <2>3, <2>4
<1>5. CASE r = 0 \/ i < r
  <2>1. i \in 1 .. m /\ u[i] = s[i]
    BY <1>2, <1>3, <1>5
  <2>2. next = i + 1
    BY <1>1, <2>1 DEF Advanced
  <2>3. ASSUME NEW k \in 1 .. m
        PROVE  u[k] \in S \cup {s[i]} <=> k < next
    <3>1. CASE r = 0 \/ k < r
      <4>1. u[k] = s[k] /\ k \in 1 .. n /\ (k <= i <=> k < i + 1)
        BY <1>2, <1>3, <3>1
      <4> QED
        BY <1>4, <2>2, <4>1
    <3>2. CASE ~(r = 0 \/ k < r)
      <4>1. u[k] = s[k + 1] /\ k + 1 \in 1 .. n /\ ~(k + 1 <= i) /\ ~(k < i + 1)
        BY <1>2, <1>3, <1>5, <3>2
      <4> QED
        BY <1>4, <2>2, <4>1
    <3> QED
      BY <3>1, <3>2
  <2> QED
    BY <1>1, <2>3
<1>6. CASE ~(r = 0 \/ i < r)
  <2>1. next = i
    <3>1. SUFFICES ASSUME i \in 1 .. m, u[i] = s[i]
                   PROVE  FALSE
      BY <1>1 DEF Advanced
    <3>2. u[i] = s[i + 1] /\ i + 1 \in 1 .. n /\ i + 1 # i
      BY <1>2, <1>3, <1>6, <3>1
    <3> QED
      BY <1>1, <3>1, <3>2 DEF Divided
  <2>2. ASSUME NEW k \in 1 .. m
        PROVE  u[k] \in S \cup {s[i]} <=> k < next
    <3>1. CASE k < r
      <4>1. u[k] = s[k] /\ k \in 1 .. n /\ k <= i /\ k < i
        BY <1>2, <1>3, <1>6, <3>1
      <4> QED
        BY <1>4, <2>1, <4>1
    <3>2. CASE ~(k < r)
      <4>1. u[k] = s[k + 1] /\ k + 1 \in 1 .. n /\ (k + 1 <= i <=> k < i)
        BY <1>2, <1>3, <1>6, <3>2
      <4> QED
        BY <1>4, <2>1, <4>1
    <3> QED
      BY <3>1, <3>2
  <2> QED
    BY <1>1, <2>2
<1> QED
  BY <1>5, <1>6

LEMMA AdvanceFacts ==
    ASSUME NEW t, NEW frame \in Frame, NEW child
    PROVE  /\ Advance(t, frame, child) \in Frame /\ Advance(t, frame, child).node = frame.node
           /\ Advance(t, frame, child).i =
                 IF frame.i \in DOMAIN Children(t, frame.node) /\ Children(t, frame.node)[frame.i] = child
                 THEN frame.i + 1 ELSE frame.i
<1>1. PICK f : f = [frame EXCEPT !.i = @ + 1]
  OBVIOUS
<1>2. frame.i \in Nat \ {0} /\ frame.node \in Nat /\ frame.i + 1 \in Nat \ {0}
  BY DEF Frame
<1>3. f \in Frame /\ f.node = frame.node /\ f.i = frame.i + 1
  BY <1>1, <1>2 DEF Frame
<1>4. Advance(t, frame, child) =
          IF frame.i \in DOMAIN Children(t, frame.node) /\ Children(t, frame.node)[frame.i] = child THEN f ELSE frame
  BY <1>1 DEF Advance
<1> QED
  BY <1>3, <1>4

LEMMA FrontFacts ==
    ASSUME NEW S, NEW s \in Seq(S), s # <<>>
    PROVE  Front(s) \in Seq(S) /\ Len(Front(s)) = Len(s) - 1 /\ \A j \in 1 .. Len(s) - 1 : Front(s)[j] = s[j]
<1>1. Len(s) \in Nat \ {0} /\ \A j \in 1 .. Len(s) : s[j] \in S
  BY EmptySeq, ElementOfSeq
<1>2. PICK n, f : n = Len(s) - 1 /\ f = SubSeq(s, 1, n)
  OBVIOUS
<1>3. n \in Nat /\ 1 \in Int /\ n \in Int /\ \A j \in 1 .. n : s[j] \in S
  BY <1>1, <1>2
<1>4. f \in Seq(S) /\ Len(f) = (IF 1 <= n THEN n - 1 + 1 ELSE 0) /\ \A j \in 1 .. n - 1 + 1 : f[j] = s[1 + j - 1]
  BY <1>2, <1>3, SubSeqProperties
<1>5. Len(f) = n /\ \A j \in 1 .. n : j \in 1 .. n - 1 + 1 /\ 1 + j - 1 = j
  BY <1>3, <1>4
<1> QED
  BY <1>2, <1>4, <1>5 DEF Front

\* The walk after a visit: the calls there were, and one for the child if it has children.
Turned(t, W, frame, child, u, W2) ==
    /\ W2 \in Seq(Frame) /\ Len(W2) \in {Len(W), Len(W) + 1}
    /\ \A j \in 1 .. Len(W) : W2[j].node = W[j].node
    /\ \A j \in 1 .. Len(W) - 1 : NextIndex(u, W2, j) = NextIndex(t, W, j)
    /\ NextIndex(u, W2, Len(W)) = Advance(u, frame, child).i
    /\ Len(W2) = Len(W) + 1 => W2[Len(W) + 1].node = child /\ NextIndex(u, W2, Len(W) + 1) = 1
    /\ Len(W2) = Len(W) => Children(u, child) = <<>>

LEMMA WalkTurns ==
    ASSUME NEW t, NEW P, NEW W, NEW V, Going(t, P, W, V),
           NEW frame, NEW child, NEW r, NEW u, NEW W2, NEW V2, Visits(t, W, V, frame, child, r, u, W2, V2)
    PROVE  Turned(t, W, frame, child, u, W2)
<1>1. SoundTree(t, P) /\ WalkSound(t, W, V) /\ Cut(u, t, frame.node, r) /\ W # <<>>
  BY DEF Going, Visits
<1>2. frame \in Frame /\ frame = W[Len(W)] /\ frame.node \in NodesOf(t) /\ Listed(t, frame.node, child) /\ child \in BelowRoot(t)
  BY ChildFacts
<1>3. PICK d : d = Len(W)
  OBVIOUS
<1>4. d \in Nat /\ d \in 1 .. d /\ W \in Seq(Frame) /\ \A j \in 1 .. d : W[j] \in Frame
  BY <1>1, <1>3, FrameFacts DEF WalkSound
<1>5. ASSUME NEW j \in 1 .. d - 1, NEW c
      PROVE  Advance(u, W[j], c) = Advance(t, W[j], c)
  <2>1. j \in 1 .. d /\ j # d
    BY <1>4
  <2>2. W[j].node \in NodesOf(t) /\ W[j].node # frame.node
    BY <1>1, <1>2, <1>3, <1>4, <2>1 DEF WalkSound
  <2>3. Children(u, W[j].node) = Children(t, W[j].node)
    BY <1>1, <1>2, <2>2, OtherLists
  <2> QED
    BY <2>3 DEF Advance
<1>6. PICK f : f = Advance(u, frame, child)
  OBVIOUS
<1>7. f \in Frame /\ f.node = frame.node
  BY <1>2, <1>6, AdvanceFacts
<1>8. CASE Children(u, child) = <<>>
  <2>1. PICK front : front = Front(W)
    OBVIOUS
  <2>2. front \in Seq(Frame) /\ Len(front) = d - 1 /\ \A j \in 1 .. d - 1 : front[j] = W[j]
    BY <1>1, <1>3, <1>4, <2>1, FrontFacts
  <2>3. W2 = Append(front, f)
    BY <1>6, <1>8, <2>1 DEF Visits
  <2>4. W2 \in Seq(Frame) /\ Len(W2) = d - 1 + 1 /\ (\A j \in 1 .. d - 1 : W2[j] = front[j]) /\ W2[d - 1 + 1] = f
    BY <1>7, <2>2, <2>3, AppendProperties
  <2>5. Len(W2) = d /\ d - 1 + 1 = d
    BY <1>4, <2>4
  <2>6. (\A j \in 1 .. d - 1 : W2[j] = W[j]) /\ W2[d] = f
    BY <2>2, <2>4, <2>5
  <2>7. \A j \in 1 .. d : j = d \/ j \in 1 .. d - 1
    BY <1>4
  <2>8. \A j \in 1 .. d : W2[j].node = W[j].node
    BY <1>2, <1>3, <1>7, <2>6, <2>7
  <2>9. ASSUME NEW j \in 1 .. d - 1
        PROVE  NextIndex(u, W2, j) = NextIndex(t, W, j)
    <3>1. j # d /\ j + 1 \in 1 .. d
      BY <1>4
    <3>2. W2[j + 1].node = W[j + 1].node /\ W2[j] = W[j]
      BY <2>6, <2>8, <3>1
    <3> QED
      BY <1>3, <1>5, <2>5, <3>1, <3>2 DEF NextIndex
  <2>10. NextIndex(u, W2, d) = f.i
    BY <2>5, <2>6 DEF NextIndex
  <2>11. Len(W2) # d + 1
    BY <1>4, <2>5
  <2> QED
    BY <1>3, <1>6, <1>8, <2>4, <2>5, <2>8, <2>9, <2>10, <2>11 DEF Turned
<1>9. CASE Children(u, child) # <<>>
  <2>1. PICK new : new = [node |-> child, i |-> 1]
    OBVIOUS
  <2>2. new \in Frame /\ new.node = child /\ new.i = 1
    BY <1>2, <2>1 DEF Frame, BelowRoot
  <2>3. W2 = Append(W, new)
    BY <1>9, <2>1 DEF Visits
  <2>4. W2 \in Seq(Frame) /\ Len(W2) = d + 1 /\ (\A j \in 1 .. d : W2[j] = W[j]) /\ W2[d + 1] = new
    BY <1>3, <1>4, <2>2, <2>3, AppendProperties
  <2>5. d # d + 1
    BY <1>4
  <2>6. ASSUME NEW j \in 1 .. d - 1
        PROVE  NextIndex(u, W2, j) = NextIndex(t, W, j)
    <3>1. j # d /\ j # d + 1 /\ j + 1 \in 1 .. d /\ j \in 1 .. d
      BY <1>4
    <3>2. W2[j + 1] = W[j + 1] /\ W2[j] = W[j]
      BY <2>4, <3>1
    <3> QED
      BY <1>3, <1>5, <2>4, <3>1, <3>2 DEF NextIndex
  <2>7. NextIndex(u, W2, d) = f.i
    BY <1>2, <1>3, <1>4, <1>6, <2>2, <2>4, <2>5 DEF NextIndex
  <2>8. NextIndex(u, W2, d + 1) = 1
    BY <2>2, <2>4 DEF NextIndex
  <2> QED
    BY <1>3, <1>6, <2>2, <2>4, <2>5, <2>6, <2>7, <2>8 DEF Turned
<1> QED
  BY <1>8, <1>9

\* A node that two list is listed by one.
LEMMA OneLists ==
    ASSUME NEW t, NEW P, SoundTree(t, P), NEW m \in NodesOf(t), NEW n \in NodesOf(t), NEW c,
           Listed(t, m, c), Listed(t, n, c)
    PROVE  m = n
<1>1. Above(t, m, t.nodes[c].path) /\ Above(t, n, t.nodes[c].path)
  BY ListedBelow
<1> QED
  BY <1>1, AboveIsOne

LEMMA VisitKeepsWalk ==
    ASSUME NEW t, NEW P, NEW W, NEW V, Going(t, P, W, V),
           NEW frame, NEW child, NEW r, NEW u, NEW W2, NEW V2, Visits(t, W, V, frame, child, r, u, W2, V2)
    PROVE  WalkSound(u, W2, V2)
<1>1. /\ SoundTree(t, P) /\ ListsOrdered(t) /\ WalkSound(t, W, V) /\ VisitedSound(t, V) /\ Finished(t, W, V)
      /\ Cut(u, t, frame.node, r) /\ W # <<>>
      /\ frame.i \in DOMAIN Children(t, frame.node) /\ child = Children(t, frame.node)[frame.i]
      /\ r \in 0 .. Len(Children(t, frame.node))
  BY DEF Going, Visits
<1>2. /\ frame \in Frame /\ frame = W[Len(W)] /\ frame.node \in NodesOf(t)
      /\ Listed(t, frame.node, child) /\ child \in BelowRoot(t) /\ child \notin Range(V)
      /\ \A j \in 1 .. Len(W) : W[j].node # child
      /\ Range(V2) = Range(V) \cup {child}
  BY ChildFacts
<1>3. PICK d : d = Len(W)
  OBVIOUS
<1>4. d \in Nat /\ d \in 1 .. d
  BY <1>1, <1>3, FrameFacts
<1>5. /\ W2 \in Seq(Frame) /\ Len(W2) \in {d, d + 1}
      /\ \A j \in 1 .. d : W2[j].node = W[j].node
      /\ \A j \in 1 .. d - 1 : NextIndex(u, W2, j) = NextIndex(t, W, j)
      /\ NextIndex(u, W2, d) = Advance(u, frame, child).i
      /\ Len(W2) = d + 1 => W2[d + 1].node = child /\ NextIndex(u, W2, d + 1) = 1
  BY <1>3, WalkTurns DEF Turned
<1>6. NodesOf(u) = NodesOf(t) /\ child \in NodesOf(t)
  <2>1. u.nodes = t.nodes
    BY <1>1 DEF Cut
  <2>2. BelowRoot(t) \subseteq NodesOf(t)
    BY <1>1, TreeFacts DEF SoundTree, BelowRoot, NodesOf
  <2> QED
    BY <1>2, <2>1, <2>2 DEF NodesOf
<1>7. \A j \in 1 .. Len(W2) : j \in 1 .. d - 1 \/ j = d \/ (j = d + 1 /\ Len(W2) = d + 1)
  BY <1>4, <1>5
<1>8. \A j \in 1 .. d - 1 : j \in 1 .. d
  BY <1>4
<1>9. ASSUME NEW j \in 1 .. Len(W2)
      PROVE  W2[j].node \in NodesOf(u) /\ (W2[j].node = ROOTNODE \/ W2[j].node \in Range(V2))
  <2>1. CASE j \in 1 .. d
    BY <1>1, <1>2, <1>3, <1>5, <1>6, <2>1 DEF WalkSound
  <2>2. CASE j = d + 1 /\ Len(W2) = d + 1
    BY <1>2, <1>5, <1>6, <2>2
  <2> QED
    BY <1>4, <1>7, <1>8, <2>1, <2>2
<1>10. ASSUME NEW j \in 1 .. Len(W2), NEW k \in 1 .. Len(W2), W2[j].node = W2[k].node
       PROVE  j = k
  <2>1. CASE j \in 1 .. d /\ k \in 1 .. d
    BY <1>1, <1>3, <1>5, <1>10, <2>1 DEF WalkSound
  <2>2. CASE j = d + 1 /\ k \in 1 .. d
    BY <1>2, <1>3, <1>4, <1>5, <1>7, <1>10, <2>2
  <2>3. CASE k = d + 1 /\ j \in 1 .. d
    BY <1>2, <1>3, <1>4, <1>5, <1>7, <1>10, <2>3
  <2> QED
    BY <1>4, <1>7, <1>8, <2>1, <2>2, <2>3
<1>11. ASSUME NEW j \in 1 .. d - 1
       PROVE  Split(u, W2[j].node, NextIndex(u, W2, j), V2)
  <2>1. PICK n, i : n = W[j].node /\ i = NextIndex(t, W, j)
    OBVIOUS
  <2>2. W2[j].node = n /\ NextIndex(u, W2, j) = i
    BY <1>5, <1>8, <2>1
  <2>3. n \in NodesOf(t) /\ n # frame.node /\ Split(t, n, i, V)
    <3>1. j \in 1 .. d /\ j # d
      BY <1>4
    <3> QED
      BY <1>1, <1>2, <1>3, <1>4, <2>1, <3>1 DEF WalkSound
  <2>4. Children(u, n) = Children(t, n)
    BY <1>1, <1>2, <2>3, OtherLists
  <2>5. \A k \in 1 .. Len(Children(t, n)) : Children(t, n)[k] # child
    <3>1. ~Listed(t, n, child)
      BY <1>1, <1>2, <2>3, OneLists
    <3> QED
      BY <1>1, <2>3, <3>1, ChildrenAreList
  <2>6. Split(u, n, i, V2)
    BY <1>2, <2>3, <2>4, <2>5 DEF Split
  <2> QED
    BY <2>2, <2>6
<1>12. Split(u, W2[d].node, NextIndex(u, W2, d), V2)
  <2>1. PICK n, i, s, v : n = frame.node /\ i = frame.i /\ s = Children(t, n) /\ v = Children(u, n)
    OBVIOUS
  <2>2. /\ s \in Seq(Nat) /\ Len(s) \in Nat /\ DOMAIN s = 1 .. Len(s)
        /\ \A j, k \in 1 .. Len(s) : s[j] = s[k] => j = k
    BY <1>1, <1>2, <2>1, ChildrenAreList
  <2>3. Shortened(v, s, r) /\ i \in 1 .. Len(s) /\ r \in 0 .. Len(s) /\ child = s[i]
    BY <1>1, <2>1, <2>2 DEF Cut
  <2>4. v \in Seq(Nat) /\ DOMAIN v = 1 .. Len(v)
    BY <2>3, LenProperties DEF Shortened
  <2>5. PICK next : next = Advance(u, frame, child).i
    OBVIOUS
  <2>6. next = Advanced(v, s, i)
    BY <1>2, <2>1, <2>3, <2>4, <2>5, AdvanceFacts DEF Advanced
  <2>7. \A k \in 1 .. Len(s) : s[k] \in Range(V) <=> k < i
    <3>1. Split(t, W[d].node, NextIndex(t, W, d), V)
      BY <1>1, <1>3, <1>4 DEF WalkSound
    <3>2. NextIndex(t, W, d) = i /\ W[d].node = n
      BY <1>2, <1>3, <2>1 DEF NextIndex
    <3> QED
      BY <2>1, <3>1, <3>2 DEF Split
  <2>8. \A k \in 1 .. Len(v) : v[k] \in Range(V) \cup {s[i]} <=> k < next
    <3>1. Divided(s, Range(V), i)
      BY <2>2, <2>7 DEF Divided
    <3> QED
      BY <2>2, <2>3, <2>6, <3>1, AdvanceSplits
  <2>9. Split(u, n, next, V2)
    BY <1>2, <2>1, <2>3, <2>8 DEF Split
  <2>10. W2[d].node = n
    BY <1>2, <1>3, <1>4, <1>5, <2>1
  <2> QED
    BY <1>5, <2>5, <2>9, <2>10
<1>13. Split(u, child, 1, V2)
  <2>1. child # frame.node
    BY <1>2, <1>3, <1>4
  <2>2. Children(u, child) = Children(t, child)
    BY <1>1, <1>2, <1>6, <2>1, OtherLists
  <2>3. PICK s : s = Children(t, child)
    OBVIOUS
  <2>4. ASSUME NEW k \in 1 .. Len(s)
        PROVE  s[k] \notin Range(V2) /\ ~(k < 1)
    <3>1. Listed(t, child, s[k])
      BY <1>1, <1>6, <2>3, ChildrenAreList
    <3>2. s[k] \notin Range(V)
      BY <1>1, <1>2, <3>1 DEF VisitedSound
    <3>3. s[k] # child
      BY <1>1, <1>2, <1>6, <2>1, <3>1, OneLists
    <3>4. ~(k < 1)
      BY <1>1, <1>6, <2>3, ChildrenAreList
    <3> QED
      BY <1>2, <3>2, <3>3, <3>4
  <2> QED
    BY <2>2, <2>3, <2>4 DEF Split
<1>14. \A j \in 1 .. Len(W2) : Split(u, W2[j].node, NextIndex(u, W2, j), V2)
  BY <1>5, <1>7, <1>11, <1>12, <1>13
<1> QED
  BY <1>5, <1>9, <1>10, <1>14 DEF WalkSound

LEMMA VisitKeepsVisited ==
    ASSUME NEW t, NEW P, NEW W, NEW V, Going(t, P, W, V),
           NEW frame, NEW child, NEW r, NEW u, NEW W2, NEW V2, Visits(t, W, V, frame, child, r, u, W2, V2)
    PROVE  VisitedSound(u, V2)
<1>1. /\ SoundTree(t, P) /\ ListsOrdered(t) /\ WalkSound(t, W, V) /\ VisitedSound(t, V)
      /\ Cut(u, t, frame.node, r) /\ r \in 0 .. Len(Children(t, frame.node)) /\ W # <<>>
      /\ frame.i \in DOMAIN Children(t, frame.node) /\ child = Children(t, frame.node)[frame.i]
  BY DEF Going, Visits
<1>2. /\ frame \in Frame /\ frame = W[Len(W)] /\ frame.node \in NodesOf(t)
      /\ Listed(t, frame.node, child) /\ child \in BelowRoot(t) /\ child \notin Range(V)
      /\ V2 \in Seq(BelowRoot(t)) /\ Range(V2) = Range(V) \cup {child}
      /\ Len(V) \in Nat /\ Len(V2) = Len(V) + 1 /\ V2[Len(V) + 1] = child /\ \A j \in 1 .. Len(V) : V2[j] = V[j]
  BY ChildFacts
<1>3. u.nodes = t.nodes
  BY <1>1 DEF Cut
<1>4. NodesOf(u) = NodesOf(t) /\ BelowRoot(u) = BelowRoot(t) /\ \A a, b : InOrder(u, a, b) <=> InOrder(t, a, b)
  BY <1>3 DEF NodesOf, BelowRoot, InOrder
<1>5. \A m \in NodesOf(t) : \A n : Listed(u, m, n) => Listed(t, m, n)
  BY <1>1, <1>2, CutFacts
<1>6. PICK n : n = Len(V)
  OBVIOUS
<1>7. \A j \in 1 .. Len(V2) : j \in 1 .. n \/ j = n + 1
  BY <1>2, <1>6
<1>8. DOMAIN V = 1 .. n /\ \A j \in 1 .. n : V[j] \in Range(V)
  <2>1. DOMAIN V = 1 .. n
    BY <1>1, <1>6, LenProperties DEF VisitedSound
  <2> QED
    BY <2>1 DEF Range
<1>9. BelowRoot(t) \subseteq NodesOf(t)
  BY <1>1, TreeFacts DEF SoundTree, BelowRoot, NodesOf
<1>10. ASSUME NEW j \in 1 .. Len(V2), NEW k \in 1 .. Len(V2), V2[j] = V2[k]
       PROVE  j = k
  <2>1. CASE j \in 1 .. n /\ k \in 1 .. n
    BY <1>1, <1>2, <1>6, <1>10, <2>1 DEF VisitedSound
  <2>2. CASE j = n + 1 /\ k \in 1 .. n
    BY <1>2, <1>6, <1>8, <1>10, <2>2
  <2>3. CASE k = n + 1 /\ j \in 1 .. n
    BY <1>2, <1>6, <1>8, <1>10, <2>3
  <2> QED
    BY <1>7, <2>1, <2>2, <2>3
<1>11. ASSUME NEW a \in BelowRoot(u) \ Range(V2), NEW c, Listed(u, a, c)
       PROVE  c \notin Range(V2)
  <2>1. a \in BelowRoot(t) \ Range(V) /\ a \in NodesOf(t) /\ a # child
    BY <1>2, <1>4, <1>9
  <2>2. Listed(t, a, c)
    BY <1>5, <1>11, <2>1
  <2>3. c \notin Range(V)
    BY <1>1, <2>1, <2>2 DEF VisitedSound
  <2>4. c # child
    <3>1. SUFFICES ASSUME c = child
                   PROVE  FALSE
      OBVIOUS
    <3>2. a = frame.node
      BY <1>1, <1>2, <2>1, <2>2, <3>1, OneLists
    <3>3. frame.node = ROOTNODE \/ frame.node \in Range(V)
      <4>1. Len(W) \in 1 .. Len(W)
        BY <1>1, FrameFacts
      <4> QED
        BY <1>1, <1>2, <4>1 DEF WalkSound
    <3>4. a # ROOTNODE
      BY <2>1 DEF BelowRoot, ROOTNODE
    <3> QED
      BY <2>1, <3>2, <3>3, <3>4
  <2> QED
    BY <1>2, <2>3, <2>4
<1>12. ASSUME NEW j \in 1 .. Len(V2), NEW k \in 1 .. Len(V2), NEW m \in NodesOf(u),
              j < k, Listed(u, m, V2[j]), Listed(u, m, V2[k])
       PROVE  InOrder(u, V2[j], V2[k])
  <2>1. m \in NodesOf(t) /\ Listed(t, m, V2[j]) /\ Listed(t, m, V2[k])
    BY <1>4, <1>5, <1>12
  <2>2. j \in 1 .. n /\ V2[j] = V[j]
    BY <1>2, <1>6, <1>7, <1>12
  <2>3. CASE k \in 1 .. n
    BY <1>1, <1>2, <1>4, <1>6, <1>12, <2>1, <2>2, <2>3 DEF VisitedSound
  <2>4. CASE k = n + 1
    <3>1. V2[k] = child
      BY <1>2, <1>6, <2>4
    <3>2. m = frame.node
      BY <1>1, <1>2, <2>1, <3>1, OneLists
    <3>3. PICK s, i : s = Children(t, frame.node) /\ i = frame.i
      OBVIOUS
    <3>4. s \in Seq(Nat) /\ Len(s) \in Nat /\ DOMAIN s = 1 .. Len(s) /\ i \in 1 .. Len(s) /\ child = s[i]
      BY <1>1, <1>2, <3>3, ChildrenAreList
    <3>5. PICK l \in 1 .. Len(s) : s[l] = V[j]
      BY <1>1, <1>2, <2>1, <2>2, <3>2, <3>3, ChildrenAreList
    <3>6. l < i
      <4>1. Len(W) \in 1 .. Len(W)
        BY <1>1, FrameFacts
      <4>2. Split(t, W[Len(W)].node, NextIndex(t, W, Len(W)), V)
        BY <1>1, <4>1 DEF WalkSound
      <4>3. Split(t, frame.node, i, V)
        BY <1>2, <3>3, <4>2 DEF NextIndex
      <4>4. s[l] \in Range(V)
        BY <1>8, <2>2, <3>5
      <4> QED
        BY <3>3, <3>5, <4>3, <4>4 DEF Split
    <3>7. InOrder(t, s[l], s[i])
      <4>1. t.nodes[frame.node].children \in 1 .. Len(t.lists) /\ s = t.lists[t.nodes[frame.node].children]
        BY <1>1, <1>2, <3>3 DEF SoundTree, ListsOwned, Children
      <4> QED
        BY <1>1, <3>4, <3>5, <3>6, <4>1 DEF ListsOrdered
    <3> QED
      BY <1>4, <2>2, <3>1, <3>4, <3>5, <3>7
  <2> QED
    BY <1>7, <2>3, <2>4
<1> QED
  BY <1>2, <1>4, <1>10, <1>11, <1>12 DEF VisitedSound

LEMMA VisitKeepsGoing ==
    ASSUME NEW t, NEW P, NEW W, NEW V, Going(t, P, W, V),
           NEW frame, NEW child, NEW r, NEW u, NEW W2, NEW V2, Visits(t, W, V, frame, child, r, u, W2, V2)
    PROVE  Going(u, P, W2, V2)
<1>1. /\ SoundTree(t, P) /\ ListsOrdered(t) /\ Finished(t, W, V) /\ WalkSound(t, W, V)
      /\ Cut(u, t, frame.node, r) /\ r \in 0 .. Len(Children(t, frame.node))
  BY DEF Going, Visits
<1>2. frame.node \in NodesOf(t) /\ child \in BelowRoot(t) /\ Range(V2) = Range(V) \cup {child}
  BY ChildFacts
<1>3. /\ SoundTree(u, P) /\ ListsOrdered(u)
      /\ \A m \in NodesOf(t) : \A n : Listed(u, m, n) => Listed(t, m, n)
  BY <1>1, <1>2, CutFacts
<1>4. WalkSound(u, W2, V2) /\ VisitedSound(u, V2)
  BY VisitKeepsWalk, VisitKeepsVisited
<1>5. NodesOf(u) = NodesOf(t)
  BY <1>1 DEF Cut, NodesOf
<1>6. PICK d : d = Len(W)
  OBVIOUS
<1>7. /\ d \in Nat /\ Len(W2) \in {d, d + 1}
      /\ \A j \in 1 .. d : W2[j].node = W[j].node
      /\ Len(W2) = d + 1 => W2[d + 1].node = child
      /\ Len(W2) = d => Children(u, child) = <<>>
  BY <1>1, <1>6, FrameFacts, WalkTurns DEF Turned
<1>8. ASSUME NEW n \in NodesOf(u), n = ROOTNODE \/ n \in Range(V2), \A j \in 1 .. Len(W2) : W2[j].node # n,
             NEW c, Listed(u, n, c)
      PROVE  c \in Range(V2)
  <2>1. CASE n = child
    <3>1. Len(W2) # d + 1
      <4>1. SUFFICES ASSUME Len(W2) = d + 1
                     PROVE  FALSE
        OBVIOUS
      <4>2. d + 1 \in 1 .. Len(W2)
        BY <1>7, <4>1
      <4> QED
        BY <1>7, <1>8, <2>1, <4>1, <4>2
    <3>2. Children(u, child) = <<>>
      BY <1>7, <3>1
    <3>3. \E k \in 1 .. Len(Children(u, child)) : TRUE
      BY <1>3, <1>8, <2>1, ChildrenAreList
    <3> QED
      BY <3>2, <3>3
  <2>2. CASE n # child
    <3>1. n = ROOTNODE \/ n \in Range(V)
      BY <1>2, <1>8, <2>2
    <3>2. \A j \in 1 .. d : W[j].node # n
      <4>1. \A j \in 1 .. d : j \in 1 .. Len(W2)
        BY <1>7
      <4> QED
        BY <1>7, <1>8, <4>1
    <3>3. Listed(t, n, c) /\ n \in NodesOf(t)
      BY <1>3, <1>5, <1>8
    <3>4. c \in Range(V)
      BY <1>1, <1>6, <3>1, <3>2, <3>3 DEF Finished
    <3> QED
      BY <1>2, <3>4
  <2> QED
    BY <2>1, <2>2
<1> QED
  BY <1>3, <1>4, <1>8 DEF Going, Finished

\* The innermost call returns to the one above it.
Leaves(t, W, W2) ==
    /\ W # <<>> /\ Last(W).i \notin DOMAIN Children(t, Last(W).node)
    /\ W2 = IF Front(W) = <<>> THEN <<>>
            ELSE Append(Front(Front(W)), Advance(t, Last(Front(W)), Last(W).node))

LEMMA LeaveKeepsGoing ==
    ASSUME NEW t, NEW P, NEW W, NEW V, Going(t, P, W, V), NEW W2, Leaves(t, W, W2)
    PROVE  Going(t, P, W2, V)
<1>1. /\ SoundTree(t, P) /\ ListsOrdered(t) /\ WalkSound(t, W, V) /\ VisitedSound(t, V) /\ Finished(t, W, V)
      /\ W # <<>> /\ Last(W).i \notin DOMAIN Children(t, Last(W).node)
  BY DEF Going, Leaves
<1>2. PICK d : d = Len(W)
  OBVIOUS
<1>3. d \in Nat /\ d \in 1 .. d /\ Last(W) = W[d] /\ W \in Seq(Frame) /\ \A j \in 1 .. d : W[j] \in Frame
  BY <1>1, <1>2, FrameFacts DEF WalkSound
<1>4. PICK above : above = Front(W)
  OBVIOUS
<1>5. above \in Seq(Frame) /\ Len(above) = d - 1 /\ \A j \in 1 .. d - 1 : above[j] = W[j]
  BY <1>1, <1>2, <1>3, <1>4, FrontFacts
<1>6. /\ W2 \in Seq(Frame) /\ Len(W2) = d - 1
      /\ \A j \in 1 .. d - 1 : W2[j].node = W[j].node /\ NextIndex(t, W2, j) = NextIndex(t, W, j)
  <2>1. CASE above = <<>>
    <3>1. d - 1 = 0 /\ W2 = <<>>
      BY <1>3, <1>4, <1>5, <2>1 DEF Leaves
    <3>2. Len(W2) = 0 /\ W2 \in Seq(Frame)
      BY <3>1, EmptySeq
    <3> QED
      BY <3>1, <3>2
  <2>2. CASE above # <<>>
    <3>1. d - 1 \in Nat \ {0}
      BY <1>5, <2>2, EmptySeq
    <3>2. PICK e : e = d - 1
      OBVIOUS
    <3>3. e \in Nat \ {0} /\ d = e + 1 /\ e \in 1 .. e
      BY <3>1, <3>2, <1>3
    <3>4. PICK front : front = Front(above)
      OBVIOUS
    <3>5. front \in Seq(Frame) /\ Len(front) = e - 1 /\ \A j \in 1 .. e - 1 : front[j] = above[j]
      BY <1>5, <2>2, <3>2, <3>4, FrontFacts
    <3>6. PICK f : f = Advance(t, W[e], W[d].node)
      OBVIOUS
    <3>7. f \in Frame /\ f.node = W[e].node
      <4>1. W[e] \in Frame
        BY <1>3, <3>3
      <4> QED
        BY <3>6, <4>1, AdvanceFacts
    <3>8. Last(above) = W[e]
      BY <1>5, <3>2, <3>3 DEF Last
    <3>9. W2 = Append(front, f)
      BY <1>3, <1>4, <2>2, <3>4, <3>6, <3>8 DEF Leaves
    <3>10. W2 \in Seq(Frame) /\ Len(W2) = e - 1 + 1 /\ (\A j \in 1 .. e - 1 : W2[j] = front[j]) /\ W2[e - 1 + 1] = f
      BY <3>5, <3>7, <3>9, AppendProperties
    <3>11. Len(W2) = e /\ e - 1 + 1 = e
      BY <3>3, <3>10
    <3>12. W2[e] = f /\ \A j \in 1 .. e - 1 : W2[j] = W[j]
      <4>1. \A j \in 1 .. e - 1 : j \in 1 .. d - 1
        BY <3>2, <3>3
      <4> QED
        BY <1>5, <3>5, <3>10, <3>11, <4>1
    <3>13. \A j \in 1 .. e : j = e \/ j \in 1 .. e - 1
      BY <3>3
    <3>14. \A j \in 1 .. e : W2[j].node = W[j].node
      BY <3>7, <3>12, <3>13
    <3>15. ASSUME NEW j \in 1 .. e - 1
           PROVE  NextIndex(t, W2, j) = NextIndex(t, W, j)
      <4>1. j # e /\ j # d /\ j + 1 \in 1 .. e
        BY <3>3
      <4>2. W2[j] = W[j] /\ W2[j + 1].node = W[j + 1].node
        BY <3>12, <3>14, <4>1
      <4> QED
        BY <1>2, <3>11, <4>1, <4>2 DEF NextIndex
    <3>16. NextIndex(t, W2, e) = NextIndex(t, W, e)
      <4>1. NextIndex(t, W2, e) = f.i
        BY <3>11, <3>12 DEF NextIndex
      <4>2. e # d /\ e + 1 = d
        BY <3>3
      <4> QED
        BY <1>2, <3>6, <4>1, <4>2 DEF NextIndex
    <3> QED
      BY <3>2, <3>10, <3>11, <3>13, <3>14, <3>15, <3>16
  <2> QED
    BY <2>1, <2>2
<1>7. \A j \in 1 .. d - 1 : j \in 1 .. d
  BY <1>3
<1>8. WalkSound(t, W2, V)
  <2>1. \A j \in 1 .. d - 1 : W2[j].node \in NodesOf(t) /\ (W2[j].node = ROOTNODE \/ W2[j].node \in Range(V))
    BY <1>1, <1>2, <1>6, <1>7 DEF WalkSound
  <2>2. \A j, k \in 1 .. d - 1 : W2[j].node = W2[k].node => j = k
    BY <1>1, <1>2, <1>6, <1>7 DEF WalkSound
  <2>3. \A j \in 1 .. d - 1 : Split(t, W2[j].node, NextIndex(t, W2, j), V)
    BY <1>1, <1>2, <1>6, <1>7 DEF WalkSound
  <2> QED
    BY <1>6, <2>1, <2>2, <2>3 DEF WalkSound
<1>9. ASSUME NEW n \in NodesOf(t), n = ROOTNODE \/ n \in Range(V), \A j \in 1 .. Len(W2) : W2[j].node # n,
             NEW c, Listed(t, n, c)
      PROVE  c \in Range(V)
  <2>1. CASE n = W[d].node
    <3>1. PICK s, i : s = Children(t, n) /\ i = W[d].i
      OBVIOUS
    <3>2. Len(s) \in Nat /\ DOMAIN s = 1 .. Len(s) /\ i \in Nat \ {0} /\ i \notin 1 .. Len(s)
      BY <1>1, <1>3, <2>1, <3>1, ChildrenAreList DEF Frame
    <3>3. Split(t, n, i, V)
      BY <1>1, <1>2, <1>3, <2>1, <3>1 DEF WalkSound, NextIndex
    <3>4. PICK k \in 1 .. Len(s) : s[k] = c
      BY <1>1, <1>9, <3>1, ChildrenAreList
    <3>5. k < i
      BY <3>2
    <3> QED
      BY <3>1, <3>3, <3>4, <3>5 DEF Split
  <2>2. CASE n # W[d].node
    <3>1. \A j \in 1 .. d : j = d \/ j \in 1 .. d - 1
      BY <1>3
    <3>2. \A j \in 1 .. d : W[j].node # n
      BY <1>6, <1>9, <2>2, <3>1
    <3> QED
      BY <1>1, <1>2, <1>9, <3>2 DEF Finished
  <2> QED
    BY <2>1, <2>2
<1> QED
  BY <1>1, <1>8, <1>9 DEF Going, Finished

\* A walk starts at the root.
LEMMA StartGoing ==
    ASSUME NEW t, NEW P, SoundTree(t, P), ListsOrdered(t)
    PROVE  Going(t, P, <<[node |-> ROOTNODE, i |-> 1]>>, <<>>)
<1>1. PICK W : W = <<[node |-> ROOTNODE, i |-> 1]>>
  OBVIOUS
<1>2. Range(<<>>) = {}
  BY DEF Range
<1>3. W \in Seq(Frame) /\ Len(W) = 1 /\ W[1].node = ROOTNODE /\ W[1].i = 1
  <2>1. [node |-> ROOTNODE, i |-> 1] \in Frame
    BY DEF Frame, ROOTNODE
  <2> QED
    BY <1>1, <2>1
<1>4. ROOTNODE \in NodesOf(t)
  BY TreeFacts DEF SoundTree, NodesSound, NodesOf, ROOTNODE
<1>5. \A j \in 1 .. Len(W) : j = 1
  BY <1>3
<1>6. NextIndex(t, W, 1) = 1
  BY <1>3 DEF NextIndex
<1>7. Split(t, ROOTNODE, 1, <<>>)
  BY <1>2, <1>4, ChildrenAreList DEF Split
<1>8. WalkSound(t, W, <<>>)
  BY <1>3, <1>4, <1>5, <1>6, <1>7 DEF WalkSound
<1>9. VisitedSound(t, <<>>)
  <2>1. Len(<<>>) = 0 /\ <<>> \in Seq(BelowRoot(t)) /\ \A j \in 1 .. 0 : FALSE
    BY EmptySeq
  <2> QED
    BY <1>2, <2>1 DEF VisitedSound
<1>10. Finished(t, W, <<>>)
  <2>1. 1 \in 1 .. Len(W)
    BY <1>3
  <2> QED
    BY <1>2, <1>3, <2>1 DEF Finished
<1> QED
  BY <1>1, <1>8, <1>9, <1>10 DEF Going

-----------------------------------------------------------------------------
(***************************************************************************)
(* What holds of the tree as files are added, as it is sorted and as it    *)
(* is walked.                                                              *)
(***************************************************************************)
TreeInv ==
    /\ files \in Seq(SourceFiles)
    /\ SoundTree(sources, Ways)
    /\ visited = <<>> => AllListed(sources)
    /\ ~sorted => walk = <<>> /\ visited = <<>>
    /\ sorted => Going(sources, Ways, walk, visited)

LEMMA NewTree == TreeInit => TreeInv
<1> SUFFICES ASSUME TreeInit
             PROVE  TreeInv
  OBVIOUS
<1>1. PICK t : t = sources
  OBVIOUS
<1>2. PICK root : root = NewNode(NONAME, EMPTY)
  OBVIOUS
<1>3. t = [nodes |-> <<root>>, lists |-> <<<<>>>>] /\ root.children = _EMPTY
  BY <1>1, <1>2 DEF TreeInit, NewNode
<1>4. root \in Node
  BY <1>2 DEF NewNode, Node, _EMPTY
<1>5. t.nodes = <<root>> /\ t.lists = <<<<>>>>
  BY <1>3
<1>6. t.nodes \in Seq(Node) /\ Len(t.nodes) = 1 /\ t.nodes[1] = root
  BY <1>4, <1>5
<1>7. t.lists \in Seq(Seq(Nat)) /\ Len(t.lists) = 1 /\ t.lists[1] = <<>> /\ Len(t.lists[1]) = 0
  <2>1. <<>> \in Seq(Nat) /\ Len(<<>>) = 0
    OBVIOUS
  <2> QED
    BY <1>5, <2>1
<1>8. t \in TreeType
  BY <1>3, <1>6, <1>7 DEF TreeType
<1>9. BelowRoot(t) = {} /\ NodesOf(t) = {1} /\ 1 .. Len(t.lists) = {1}
  BY <1>6, <1>7 DEF BelowRoot, NodesOf
<1>10. Range(files) = {} /\ files = <<>>
  BY DEF TreeInit, Range
<1>11. Ways = {}
  BY <1>10 DEF Ways
<1>12. NodesSound(t, {})
  BY <1>6, <1>9 DEF NodesSound
<1>13. ListsOwned(t)
  BY <1>3, <1>6, <1>7, <1>9 DEF ListsOwned, _EMPTY
<1>14. ListsSound(t)
  BY <1>7, <1>9 DEF ListsSound
<1>15. SoundTree(t, {}) /\ AllListed(t)
  BY <1>8, <1>9, <1>12, <1>13, <1>14 DEF SoundTree, AllListed
<1>16. files \in Seq(SourceFiles)
  BY <1>10
<1> QED
  BY <1>1, <1>11, <1>15, <1>16 DEF TreeInit, TreeInv

LEMMA AddFileKeepsTree == TreeInv /\ AddFile => TreeInv'
<1> SUFFICES ASSUME TreeInv, AddFile
             PROVE  TreeInv'
  OBVIOUS
<1>1. PICK f \in SourceFiles \ Range(files) :
         /\ files' = Append(files, f)
         /\ sources' = AddPath(sources, Relative(f)).tree
  BY DEF AddFile
<1>2. PICK t, P, u, s : t = sources /\ P = Ways /\ u = sources' /\ s = files
  OBVIOUS
<1>3. SoundTree(t, P) /\ AllListed(t) /\ s \in Seq(SourceFiles)
  BY <1>2 DEF AddFile, TreeInv
<1>4. SoundTree(u, P \cup Steps(f)) /\ AllListed(u)
  BY <1>1, <1>2, <1>3, AddPathSound
<1>5. Append(s, f) \in Seq(SourceFiles) /\ Range(Append(s, f)) = Range(s) \cup {f}
  BY <1>3, AppendRange, AppendProperties
<1>6. Ways' = P \cup Steps(f)
  <2>1. Ways' = UNION {Steps(g) : g \in Range(files')}
    BY DEF Ways
  <2>2. files' = Append(s, f)
    BY <1>1, <1>2
  <2> QED
    BY <1>2, <1>5, <2>1, <2>2 DEF Ways
<1>7. ~sorted' /\ walk' = <<>> /\ visited' = <<>>
  BY DEF AddFile, TreeInv
<1>8. files' \in Seq(SourceFiles)
  BY <1>1, <1>2, <1>5
<1>9. SoundTree(sources', Ways') /\ AllListed(sources')
  BY <1>2, <1>4, <1>6
<1> QED
  BY <1>7, <1>8, <1>9 DEF TreeInv

LEMMA SortTreeKeepsTree == TreeInv /\ SortTree => TreeInv'
<1> SUFFICES ASSUME TreeInv, SortTree
             PROVE  TreeInv'
  OBVIOUS
<1>1. PICK t, P, u : t = sources /\ P = Ways /\ u = sources'
  OBVIOUS
<1>2. SoundTree(t, P) /\ AllListed(t) /\ u = SortedTree(t)
  BY <1>1 DEF SortTree, TreeInv
<1>3. SoundTree(u, P) /\ AllListed(u) /\ ListsOrdered(u)
  BY <1>2, SortedTreeSound
<1>4. Ways' = P /\ files' = files
  BY <1>1 DEF SortTree, Ways
<1>5. sorted' /\ visited' = <<>> /\ walk' = <<[node |-> ROOTNODE, i |-> 1]>>
  BY DEF SortTree, TreeInv
<1>6. Going(u, P, <<[node |-> ROOTNODE, i |-> 1]>>, <<>>)
  BY <1>3, StartGoing
<1>7. Going(sources', Ways', walk', visited')
  BY <1>1, <1>4, <1>5, <1>6
<1>8. SoundTree(sources', Ways') /\ AllListed(sources')
  BY <1>1, <1>3, <1>4
<1> QED
  BY <1>4, <1>5, <1>7, <1>8 DEF TreeInv

LEMMA VisitKeepsTree == TreeInv /\ Visit => TreeInv'
<1> SUFFICES ASSUME TreeInv, Visit
             PROVE  TreeInv'
  OBVIOUS
<1>1. PICK t, P, u, W, V, W2, V2 :
         /\ t = sources /\ P = Ways /\ u = sources'
         /\ W = walk /\ V = visited /\ W2 = walk' /\ V2 = visited'
  OBVIOUS
<1>2. PICK frame : frame = Last(W)
  OBVIOUS
<1>3. PICK child : child = Children(t, frame.node)[frame.i]
  OBVIOUS
<1>4. /\ W # <<>> /\ frame.i \in DOMAIN Children(t, frame.node)
      /\ u \in {t} \cup {Without(t, frame.node, k) : k \in DOMAIN Children(t, frame.node)}
      /\ V2 = Append(V, child)
      /\ W2 = IF Children(u, child) = <<>> THEN Append(Front(W), Advance(u, frame, child))
              ELSE Append(W, [node |-> child, i |-> 1])
  BY <1>1, <1>2, <1>3 DEF Visit
<1>5. sorted /\ SoundTree(t, P) /\ Going(t, P, W, V)
  BY <1>1, <1>4 DEF TreeInv
<1>6. frame.node \in NodesOf(t)
  BY <1>2, <1>4, <1>5, FrameFacts DEF Going, WalkSound
<1>7. PICK r \in 0 .. Len(Children(t, frame.node)) : Cut(u, t, frame.node, r)
  BY <1>4, <1>5, <1>6, CallbackCuts
<1>8. Visits(t, W, V, frame, child, r, u, W2, V2)
  BY <1>2, <1>3, <1>4, <1>7 DEF Visits
<1>9. Going(u, P, W2, V2)
  BY <1>5, <1>8, VisitKeepsGoing
<1>10. SoundTree(u, P)
  BY <1>9 DEF Going
<1>11. V2 # <<>>
  <2>1. Len(V) \in Nat /\ Len(V2) = Len(V) + 1
    BY <1>5, <1>8, ChildFacts
  <2> QED
    BY <2>1, EmptySeq
<1>12. Ways' = P /\ files' = files /\ sorted' = sorted
  BY <1>1 DEF Visit, Ways
<1>13. SoundTree(sources', Ways') /\ Going(sources', Ways', walk', visited')
  BY <1>1, <1>9, <1>10, <1>12
<1> QED
  BY <1>1, <1>5, <1>11, <1>12, <1>13 DEF TreeInv

LEMMA LeaveKeepsTree == TreeInv /\ Leave => TreeInv'
<1> SUFFICES ASSUME TreeInv, Leave
             PROVE  TreeInv'
  OBVIOUS
<1>1. PICK t, P, W, V, W2 : t = sources /\ P = Ways /\ W = walk /\ V = visited /\ W2 = walk'
  OBVIOUS
<1>2. W # <<>> /\ sorted /\ Going(t, P, W, V) /\ SoundTree(t, P)
  BY <1>1 DEF TreeInv, Leave
<1>3. Leaves(t, W, W2)
  BY <1>1 DEF Leave, Leaves
<1>4. Going(t, P, W2, V)
  BY <1>2, <1>3, LeaveKeepsGoing
<1>5. Ways' = P /\ files' = files /\ sorted' = sorted /\ sources' = t /\ visited' = V
  BY <1>1 DEF Leave, Ways
<1>6. SoundTree(sources', Ways') /\ Going(sources', Ways', walk', visited')
  BY <1>1, <1>2, <1>4, <1>5
<1>7. visited' = <<>> => AllListed(sources')
  BY <1>1, <1>5 DEF TreeInv
<1> QED
  BY <1>2, <1>5, <1>6, <1>7 DEF TreeInv

LEMMA TreeInvHolds == TreeSpec => []TreeInv
<1>1. TreeInit => TreeInv
  BY NewTree
<1>2. TreeInv /\ UNCHANGED treeVars => TreeInv'
  BY DEF TreeInv, Ways, treeVars
<1>3. TreeInv /\ [TreeNext]_treeVars => TreeInv'
  BY <1>2, AddFileKeepsTree, SortTreeKeepsTree, VisitKeepsTree, LeaveKeepsTree DEF TreeNext
<1> QED
  BY <1>1, <1>3, PTL DEF TreeSpec

LEMMA FrontIsPrefix ==
    ASSUME NEW S, NEW p \in Seq(S), p # <<>>
    PROVE  p \in Prefixes(p) /\ Prefixes(Front(p)) \subseteq Prefixes(p)
<1>1. PICK n, f : n = Len(p) - 1 /\ f = Front(p)
  OBVIOUS
<1>2. f \in Seq(S) /\ Len(f) = n /\ \A j \in 1 .. n : f[j] = p[j]
  BY <1>1, FrontFacts
<1>3. n \in Nat /\ Len(p) = n + 1
  BY <1>1, EmptySeq, LenProperties
<1>4. p \in Prefixes(p)
  <2>1. PICK q : q = SubSeq(p, 1, n + 1)
    OBVIOUS
  <2>2. n + 1 \in 1 .. Len(p) /\ n + 1 \in 0 .. Len(p)
    BY <1>3
  <2>3. q \in Seq(S) /\ Len(q) = n + 1 /\ \A j \in 1 .. n + 1 : q[j] = p[j]
    BY <2>1, <2>2, PrefixFacts
  <2>4. q = p
    BY <1>3, <2>3, SeqEqual
  <2> QED
    BY <2>1, <2>2, <2>4 DEF Prefixes
<1>5. ASSUME NEW k \in 0 .. n
      PROVE  k \in 0 .. Len(p) /\ SubSeq(f, 1, k) = SubSeq(p, 1, k)
  <2>1. k \in 0 .. Len(p)
    BY <1>3
  <2>2. CASE k = 0
    BY <2>1, <2>2, SubSeqEmpty
  <2>3. CASE k # 0
    <3>1. PICK q, h : q = SubSeq(p, 1, k) /\ h = SubSeq(f, 1, k)
      OBVIOUS
    <3>2. k \in 1 .. Len(p) /\ k \in 1 .. Len(f) /\ \A j \in 1 .. k : j \in 1 .. n
      BY <1>2, <1>3, <2>3
    <3>3. q \in Seq(S) /\ Len(q) = k /\ \A j \in 1 .. k : q[j] = p[j]
      BY <3>1, <3>2, PrefixFacts
    <3>4. h \in Seq(S) /\ Len(h) = k /\ \A j \in 1 .. k : h[j] = f[j]
      BY <1>2, <3>1, <3>2, PrefixFacts
    <3>5. \A j \in 1 .. k : h[j] = q[j]
      BY <1>2, <3>2, <3>3, <3>4
    <3>6. h = q
      BY <3>3, <3>4, <3>5, SeqEqual
    <3> QED
      BY <2>1, <3>1, <3>6
  <2> QED
    BY <2>2, <2>3
<1>6. Prefixes(f) = {SubSeq(f, 1, k) : k \in 0 .. n}
  BY <1>2 DEF Prefixes
<1>7. Prefixes(f) \subseteq Prefixes(p)
  BY <1>5, <1>6 DEF Prefixes
<1> QED
  BY <1>1, <1>4, <1>7

\* The walk has come to every node that is left, and to none twice.
LEMMA WalkSkipsNothing ==
    ASSUME TreeInv
    PROVE  TraversalSkipsNothing
<1> DEFINE Gone == {n \in Nodes : ParentsOf(n) = {}}
           Left == {n \in Nodes : \A m \in Gone : PathOf(m) \notin Prefixes(PathOf(n))}
<1>1. CASE ~sorted
  <2>1. visited = <<>> /\ DOMAIN visited = {} /\ ~Walked
    BY <1>1 DEF TreeInv, Walked
  <2> QED
    BY <2>1 DEF TraversalSkipsNothing, IsInjective
<1>2. CASE sorted
  <2>1. PICK t, P, W, V : t = sources /\ P = Ways /\ W = walk /\ V = visited
    OBVIOUS
  <2>2. SoundTree(t, P) /\ SoundTree(sources, P) /\ VisitedSound(t, V) /\ Finished(t, W, V)
    BY <1>2, <2>1 DEF TreeInv, Going
  <2>3. Nodes = BelowRoot(t) /\ DOMAIN sources.nodes = NodesOf(t)
    BY <2>1, <2>2, NodesAreBelowRoot DEF SoundTree
  <2>4. \A n : ParentsOf(n) = {m \in NodesOf(t) : Listed(t, m, n)}
    BY <2>1, <2>2, ParentsAreListing
  <2>5. V \in Seq(BelowRoot(t)) /\ DOMAIN V = 1 .. Len(V)
    BY <2>2, LenProperties DEF VisitedSound
  <2>6. IsInjective(visited)
    BY <2>1, <2>2, <2>5 DEF IsInjective, VisitedSound
  <2>7. ASSUME NEW j \in DOMAIN visited, NEW k \in DOMAIN visited,
               j < k, ParentsOf(visited[j]) = ParentsOf(visited[k]), ParentsOf(visited[j]) # {}
        PROVE  Position(sources.nodes[visited[j]].name) < Position(sources.nodes[visited[k]].name)
    <3>1. PICK a, b : a = visited[j] /\ b = visited[k]
      OBVIOUS
    <3>2. PICK m : m \in ParentsOf(a) /\ m \in ParentsOf(b)
      BY <2>7, <3>1
    <3>3. m \in NodesOf(t) /\ Listed(t, m, a) /\ Listed(t, m, b)
      BY <2>4, <3>2
    <3>4. j \in 1 .. Len(V) /\ k \in 1 .. Len(V) /\ V[j] = a /\ V[k] = b
      BY <2>1, <2>5, <3>1
    <3>5. InOrder(t, a, b)
      BY <2>2, <2>7, <3>3, <3>4 DEF VisitedSound
    <3> QED
      BY <2>1, <3>1, <3>5 DEF InOrder
  <2>8. ASSUME Walked
        PROVE  Left \subseteq Range(visited)
    <3> DEFINE Missed == Left \ Range(V)
               lengths == {Len(PathOf(n)) : n \in Missed}
    <3> SUFFICES ASSUME Missed # {}
                 PROVE  FALSE
      BY <2>1
    <3>1. \A n \in Nodes : PathOf(n) \in TreePaths
      BY <2>1, <2>2, <2>3 DEF PathOf, SoundTree, NodesSound
    <3>2. lengths \subseteq Nat /\ lengths # {}
      <4>1. \A n \in Nodes : Len(PathOf(n)) \in Nat
        BY <3>1, TreePathFacts
      <4> QED
        BY <4>1
    <3>3. PICK least \in lengths : \A m \in lengths : least <= m
      <4> HIDE DEF lengths
      <4> QED
        BY <3>2, LeastMember
    <3>4. PICK n \in Missed : least = Len(PathOf(n))
      BY <3>3
    <3>5. PICK p : p = PathOf(n)
      OBVIOUS
    <3>6. /\ p \in TreePaths /\ Len(p) \in Nat /\ p \in Seq(Range(p)) /\ p # <<>>
          /\ ~IsTop(p) => GetDirectory(p) = Front(p) /\ Len(GetDirectory(p)) = Len(p) - 1
      BY <3>1, <3>4, <3>5, TreePathFacts
    <3>7. p \in Prefixes(p) /\ Prefixes(Front(p)) \subseteq Prefixes(p)
      BY <3>6, FrontIsPrefix
    <3>8. n \in Nodes /\ (\A g \in Gone : PathOf(g) \notin Prefixes(p)) /\ n \notin Range(V)
      BY <3>4, <3>5
    <3>9. n \notin Gone
      BY <3>5, <3>7, <3>8
    <3>10. PICK m : m \in ParentsOf(n)
      BY <3>8, <3>9
    <3>11. m \in NodesOf(t) /\ Listed(t, m, n)
      BY <2>4, <3>10
    <3>12. Above(t, m, p)
      BY <2>1, <2>2, <3>5, <3>11, ListedBelow DEF PathOf
    <3>13. m = ROOTNODE \/ m \in Range(V)
      <4>1. SUFFICES ASSUME m # ROOTNODE, m \notin Range(V)
                     PROVE  FALSE
        OBVIOUS
      <4>2. ~IsTop(p) /\ PathOf(m) = GetDirectory(p)
        BY <2>1, <3>12, <4>1 DEF Above, PathOf
      <4>3. m \in Nodes
        BY <2>3, <3>11, <4>1 DEF Nodes
      <4>4. PathOf(m) = Front(p) /\ Len(PathOf(m)) = Len(p) - 1
        BY <3>6, <4>2
      <4>5. \A g \in Gone : PathOf(g) \notin Prefixes(PathOf(m))
        BY <3>7, <3>8, <4>4
      <4>6. m \in Missed
        BY <4>1, <4>3, <4>5
      <4>7. Len(PathOf(m)) \in lengths
        BY <4>6
      <4>8. Len(p) <= Len(p) - 1
        BY <3>3, <3>4, <3>5, <4>4, <4>7
      <4> QED
        BY <3>6, <4>8
    <3>14. \A j \in 1 .. Len(W) : FALSE
      BY <2>1, <2>8 DEF Walked
    <3>15. n \in Range(V)
      BY <2>2, <3>11, <3>13, <3>14 DEF Finished
    <3> QED
      BY <3>8, <3>15
  <2> QED
    BY <2>6, <2>7, <2>8 DEF TraversalSkipsNothing
<1> QED
  BY <1>1, <1>2

\* Whatever files a project has and in whatever order they come, the tree that the exporter builds
\* of them has one node for each file and each directory above it, listed once and by its directory;
\* the folders of the files each get one identifier; and a walk through the sorted tree comes once,
\* in alphabetical order, to every node its callbacks do not cut off (tree.lua; vcxproj.filters.lua).
THEOREM TreesHold == TreeSpec => []TreesComplete
<1>1. TreeInv => TreeHoldsPrefixes
  BY HoldsPrefixes DEF TreeInv, TreeHoldsPrefixes, Untouched
<1>2. TreeInv => FiltersDeclared
  BY FoldersDeclared DEF TreeInv, FiltersDeclared, Untouched
<1>3. TreeInv => TreesComplete
  BY <1>1, <1>2, WalkSkipsNothing DEF TreesComplete
<1> QED
  BY <1>3, TreeInvHolds, PTL
=============================================================================
