---------------------------- MODULE Host_proofs ----------------------------
(***************************************************************************)
(* Proofs about the parts of the host and the modules around it: the       *)
(* growing buffer, running scripts, the command line, files and captured   *)
(* exports.                                                                *)
(***************************************************************************)
EXTENDS Exports, Scripts, Options, SequenceTheorems, FiniteSetTheorems,
        WellFoundedInduction, TLAPS

-----------------------------------------------------------------------------
(***************************************************************************)
(* Numbers.                                                                *)
(***************************************************************************)
LEMMA LeastMember ==
    ASSUME NEW T, T \subseteq Nat, T # {}
    PROVE  \E n \in T : \A m \in T : n <= m
<1> DEFINE below == {pair \in Nat \X Nat : pair[1] < pair[2]}
<1>1. IsWellFoundedOn(below, Nat)
  BY NatLessThanWellFounded, Zenon DEF OpToRel
<1>2. PICK n \in T : \A m \in T : <<m, n>> \notin below
  <2> HIDE DEF below
  <2> QED
    BY <1>1, WFMin, Zenon
<1>3. \A m \in T : ~(m < n)
  BY <1>2
<1> QED
  BY <1>3

LEMMA GreatestNumber ==
    ASSUME NEW bound \in Nat, NEW T, T \subseteq 0 .. bound, T # {}
    PROVE  \E n \in T : \A m \in T : m <= n
<1> DEFINE distances == {bound - k : k \in T}
<1>1. distances \subseteq Nat /\ distances # {}
  <2>1. \A k \in T : bound - k \in Nat
    OBVIOUS
  <2> QED
    BY <2>1
<1>2. PICK d \in distances : \A e \in distances : d <= e
  BY <1>1, LeastMember
<1>3. PICK n \in T : d = bound - n
  BY <1>2
<1>4. \A m \in T : bound - m \in distances
  OBVIOUS
<1> HIDE DEF distances
<1>5. \A m \in T : m <= n
  BY <1>2, <1>3, <1>4
<1> QED
  BY <1>5

-----------------------------------------------------------------------------
(***************************************************************************)
(* The buffer.                                                             *)
(***************************************************************************)
\* While an append goes on, the capacity that is computed starts from the one there is and
\* is only raised for a text that does not fit.
BufferInv ==
    /\ WithinCapacity
    /\ text # <<>> =>
          /\ capacity <= cap
          /\ Required <= capacity => cap = capacity

LEMMA MoreCapacity ==
    ASSUME NEW c \in Nat
    PROVE  (c * 3) \div 2 \in Nat /\ (c * 3) \div 2 >= c
  BY SMT

\* What is copied to stands in its place, the rest stays.
LEMMA CopyFacts ==
    ASSUME NEW S, NEW memory \in Seq(S), NEW at \in Nat, NEW s \in Seq(S),
           at + Len(s) <= Len(memory)
    PROVE  /\ Copy(memory, at, s) \in Seq(S)
           /\ Len(Copy(memory, at, s)) = Len(memory)
           /\ \A k \in 1 .. Len(memory) :
                 Copy(memory, at, s)[k] =
                     IF k > at /\ k <= at + Len(s) THEN s[k - at] ELSE memory[k]
<1>1. /\ Len(memory) \in Nat
      /\ Len(s) \in Nat
      /\ DOMAIN memory = 1 .. Len(memory)
      /\ DOMAIN s = 1 .. Len(s)
      /\ \A k \in 1 .. Len(memory) : memory[k] \in S
      /\ \A k \in 1 .. Len(s) : s[k] \in S
  BY LenProperties, ElementOfSeq
<1>2. Copy(memory, at, s) = [k \in 1 .. Len(memory) |->
          IF k > at /\ k <= at + Len(s) THEN s[k - at] ELSE memory[k]]
  BY <1>1 DEF Copy
<1>3. \A k \in 1 .. Len(memory) : k > at /\ k <= at + Len(s) => k - at \in 1 .. Len(s)
  BY <1>1
<1>4. \A k \in 1 .. Len(memory) :
          (IF k > at /\ k <= at + Len(s) THEN s[k - at] ELSE memory[k]) \in S
  BY <1>1, <1>3
<1>5. Copy(memory, at, s) \in [1 .. Len(memory) -> S]
  BY <1>2, <1>4
<1>6. Copy(memory, at, s) \in Seq(S) /\ DOMAIN Copy(memory, at, s) = 1 .. Len(memory)
  BY <1>1, <1>2, <1>5, SeqDef
<1>7. Len(Copy(memory, at, s)) = Len(memory)
  BY <1>1, <1>6, LenProperties
<1> QED
  BY <1>2, <1>6, <1>7

\* The memory an append writes to is large enough and holds what was there.
LEMMA MemoryFacts ==
    ASSUME BufferInv, text # <<>>, Required <= cap
    PROVE  /\ Memory \in Seq(Bytes \cup {Zero})
           /\ Len(Memory) = cap
           /\ \A k \in 1 .. length : Memory[k] = data[k] /\ Memory[k] \in Bytes
           /\ Required \in Nat
           /\ Required = length + Len(text)
<1>1. /\ capacity \in Nat
      /\ length \in Nat
      /\ cap \in Nat
      /\ data \in Seq(Bytes \cup {Zero})
      /\ Len(data) = capacity
      /\ length <= capacity
      /\ \A k \in 1 .. length : data[k] \in Bytes
      /\ Len(text) \in Nat
      /\ capacity <= cap
      /\ Required <= capacity => cap = capacity
  BY LenProperties DEF BufferInv, WithinCapacity, BufferTypeOK
<1>2. Required \in Nat /\ Required = length + Len(text)
  BY <1>1 DEF Required
<1>3. CASE Required > capacity
  <2>1. Memory = [k \in 1 .. cap |-> IF k <= length THEN data[k] ELSE Zero]
    BY <1>3 DEF Memory
  <2>2. \A k \in 1 .. cap : (IF k <= length THEN data[k] ELSE Zero) \in Bytes \cup {Zero}
    BY <1>1
  <2>3. Memory \in [1 .. cap -> Bytes \cup {Zero}]
    BY <2>1, <2>2
  <2>4. Memory \in Seq(Bytes \cup {Zero}) /\ DOMAIN Memory = 1 .. cap
    BY <1>1, <2>1, <2>3, SeqDef
  <2>5. Len(Memory) = cap
    BY <1>1, <2>4, LenProperties
  <2>6. \A k \in 1 .. length : Memory[k] = data[k]
    BY <1>1, <2>1
  <2> QED
    BY <1>1, <1>2, <2>4, <2>5, <2>6
<1>4. CASE ~(Required > capacity)
  <2>1. Memory = data
    BY <1>4 DEF Memory
  <2> QED
    BY <1>1, <1>2, <1>4, <2>1
<1> QED
  BY <1>3, <1>4

\* An append that is done: the contents and the text behind them.
LEMMA StoreFacts ==
    ASSUME BufferInv, Store
    PROVE  WithinCapacity' /\ Contents' = Contents \o text
<1>1. /\ Memory \in Seq(Bytes \cup {Zero})
      /\ Len(Memory) = cap
      /\ \A k \in 1 .. length : Memory[k] = data[k] /\ Memory[k] \in Bytes
      /\ Required \in Nat
      /\ Required = length + Len(text)
      /\ Required <= cap
  BY MemoryFacts DEF Store
<1>2. /\ cap \in Nat
      /\ capacity \in Nat
      /\ length \in Nat
      /\ length <= capacity
      /\ text \in Seq(Bytes)
      /\ data \in Seq(Bytes \cup {Zero})
      /\ Len(data) = capacity
  BY DEF BufferInv, WithinCapacity, BufferTypeOK
<1>3. /\ Len(text) \in Nat
      /\ text \in Seq(Bytes \cup {Zero})
      /\ \A k \in 1 .. Len(text) : text[k] \in Bytes
  <2>1. Len(text) \in Nat /\ DOMAIN text = 1 .. Len(text) /\ \A k \in 1 .. Len(text) : text[k] \in Bytes
    BY <1>2, LenProperties, ElementOfSeq
  <2>2. text \in [1 .. Len(text) -> Bytes \cup {Zero}]
    BY <1>2, <2>1, LenProperties
  <2> QED
    BY <2>1, <2>2, SeqDef
<1>4. /\ data' = Copy(Memory, length, text)
      /\ capacity' = cap
      /\ length' = Required
      /\ text' = <<>>
      /\ cap' = cap
  BY DEF Store
<1>5. /\ data' \in Seq(Bytes \cup {Zero})
      /\ Len(data') = cap
      /\ \A k \in 1 .. cap :
            data'[k] = IF k > length /\ k <= length + Len(text) THEN text[k - length] ELSE Memory[k]
  <2>1. PICK memory, at, s : memory = Memory /\ at = length /\ s = text
    OBVIOUS
  <2>2. /\ memory \in Seq(Bytes \cup {Zero})
        /\ at \in Nat
        /\ s \in Seq(Bytes \cup {Zero})
        /\ at + Len(s) <= Len(memory)
        /\ Len(memory) = cap
        /\ data' = Copy(memory, at, s)
    BY <1>1, <1>2, <1>3, <1>4, <2>1
  <2>3. /\ data' \in Seq(Bytes \cup {Zero})
        /\ Len(data') = Len(memory)
        /\ \A k \in 1 .. Len(memory) :
              data'[k] = IF k > at /\ k <= at + Len(s) THEN s[k - at] ELSE memory[k]
    BY <2>2, CopyFacts
  <2> QED
    BY <2>1, <2>2, <2>3
<1>6. \A k \in 1 .. Required :
          data'[k] = IF k <= length THEN data[k] ELSE text[k - length]
  BY <1>1, <1>2, <1>3, <1>5
<1>7. \A k \in 1 .. Required : data'[k] \in Bytes
  <2>1. \A k \in 1 .. Required : k > length => k - length \in 1 .. Len(text)
    BY <1>1, <1>2, <1>3
  <2>2. \A k \in 1 .. Required : k <= length => k \in 1 .. length
    BY <1>1, <1>2
  <2>3. \A k \in 1 .. length : data[k] \in Bytes
    BY <1>1
  <2>4. ASSUME NEW k \in 1 .. Required
        PROVE  data'[k] \in Bytes
    <3>1. CASE k <= length
      BY <1>6, <2>2, <2>3, <3>1
    <3>2. CASE ~(k <= length)
      <4>1. k - length \in 1 .. Len(text)
        BY <1>1, <1>2, <2>1, <3>2
      <4> QED
        BY <1>3, <1>6, <3>2, <4>1
    <3> QED
      BY <3>1, <3>2
  <2> QED
    BY <2>4
<1>8. WithinCapacity'
  <2>1. text' \in Seq(Bytes)
    BY <1>4
  <2> QED
    BY <1>1, <1>2, <1>4, <1>5, <1>7, <2>1 DEF WithinCapacity, BufferTypeOK
<1>9. /\ Contents \in Seq(Bytes \cup {Zero})
      /\ Len(Contents) = length
      /\ \A k \in 1 .. length : Contents[k] = data[k]
  <2>1. 1 .. length \subseteq 1 .. Len(data)
    BY <1>2
  <2> QED
    BY <1>2, <2>1, SubSeqProperties DEF Contents
<1>10. /\ Contents' \in Seq(Bytes \cup {Zero})
       /\ Len(Contents') = Required
       /\ \A k \in 1 .. Required : Contents'[k] = data'[k]
  <2>1. Contents' = SubSeq(data', 1, Required)
    BY <1>4 DEF Contents
  <2> QED
    BY <1>1, <1>2, <1>5, <2>1, SubSeqProperties
<1>11. /\ Contents \o text \in Seq(Bytes \cup {Zero})
       /\ Len(Contents \o text) = Required
       /\ \A k \in 1 .. Required :
             (Contents \o text)[k] = IF k <= length THEN Contents[k] ELSE text[k - length]
  <2>1. /\ Len(Contents \o text) = length + Len(text)
        /\ Contents \o text \in Seq(Bytes \cup {Zero})
        /\ \A k \in 1 .. Len(Contents) + Len(text) :
              (Contents \o text)[k] =
                  IF k <= Len(Contents) THEN Contents[k] ELSE text[k - Len(Contents)]
    BY <1>3, <1>9, ConcatProperties
  <2>2. Len(Contents) = length /\ Required = length + Len(text)
    BY <1>1, <1>9
  <2> HIDE DEF Contents, Required
  <2> QED
    BY <2>1, <2>2
<1>12. \A k \in 1 .. Required : Contents'[k] = (Contents \o text)[k]
  <2>1. ASSUME NEW k \in 1 .. Required
        PROVE  Contents'[k] = (Contents \o text)[k]
    <3>1. /\ Contents'[k] = IF k <= length THEN data[k] ELSE text[k - length]
          /\ (Contents \o text)[k] = IF k <= length THEN Contents[k] ELSE text[k - length]
      BY <1>6, <1>10, <1>11
    <3>2. k <= length => Contents[k] = data[k]
      BY <1>1, <1>2, <1>9
    <3> HIDE DEF Contents
    <3> QED
      BY <3>1, <3>2
  <2> QED
    BY <2>1
<1>13. Contents' = Contents \o text
  BY <1>10, <1>11, <1>12, SeqEqual
<1> QED
  BY <1>8, <1>13

LEMMA BufferInvInit == BufferInit => BufferInv
  BY DEF BufferInit, BufferInv, WithinCapacity, BufferTypeOK

LEMMA BufferInvStep ==
    ASSUME BufferInv, [BufferNext]_bufferVars
    PROVE  BufferInv'
<1>1. /\ capacity \in Nat
      /\ length \in Nat
      /\ cap \in Nat
      /\ length <= capacity
      /\ MinCapacity \in Nat
  BY BufferAssumption DEF BufferInv, WithinCapacity, BufferTypeOK
<1>2. ASSUME NEW s \in UNION {[1 .. n -> Bytes] : n \in 1 .. MaxLength}, Puts(s)
      PROVE  BufferInv'
  <2>1. PICK n \in 1 .. MaxLength : s \in [1 .. n -> Bytes]
    OBVIOUS
  <2>2. s \in Seq(Bytes)
    BY <2>1, BufferAssumption, SeqDef
  <2>3. WithinCapacity'
    BY <1>1, <1>2, <2>2 DEF Puts, BufferInv, WithinCapacity, BufferTypeOK
  <2> QED
    BY <1>1, <1>2, <2>3 DEF Puts, BufferInv, Required
<1>3. CASE Grow
  <2>1. cap' = IF (cap * 3) \div 2 <= MinCapacity THEN MinCapacity ELSE (cap * 3) \div 2
    BY <1>3 DEF Grow
  <2>2. (cap * 3) \div 2 \in Nat /\ (cap * 3) \div 2 >= cap
    BY <1>1, MoreCapacity
  <2>3. cap' \in Nat /\ cap' >= cap
    BY <1>1, <2>1, <2>2
  <2>4. WithinCapacity'
    BY <1>3, <2>3 DEF Grow, BufferInv, WithinCapacity, BufferTypeOK
  <2>5. ~(Required <= capacity)
    BY <1>1, <1>3, LenProperties DEF Grow, BufferInv, WithinCapacity, BufferTypeOK, Required
  <2>6. capacity <= cap /\ Required' = Required /\ capacity' = capacity /\ text # <<>>
    BY <1>3 DEF Grow, BufferInv, Required
  <2> QED
    BY <1>1, <2>3, <2>4, <2>5, <2>6 DEF BufferInv
<1>4. CASE Store
  BY <1>4, StoreFacts DEF BufferInv, Store
<1>5. CASE UNCHANGED bufferVars
  BY <1>5 DEF bufferVars, BufferInv, WithinCapacity, BufferTypeOK, Required
<1> QED
  BY <1>2, <1>3, <1>4, <1>5 DEF BufferNext

\* Every step of the buffer is one of the string, or none.
LEMMA BufferRefines ==
    ASSUME BufferInv, [BufferNext]_bufferVars
    PROVE  [Abstract!Next]_<<Contents, text>>
<1>1. ASSUME NEW s \in UNION {[1 .. n -> Bytes] : n \in 1 .. MaxLength}, Puts(s)
      PROVE  Abstract!Give
  <2>1. PICK n \in 1 .. MaxLength : s \in [1 .. n -> Bytes]
    OBVIOUS
  <2>2. s \in Seq(Bytes)
    BY <2>1, BufferAssumption, SeqDef
  <2> QED
    BY <1>1, <2>2 DEF Puts, Abstract!Give, Contents
<1>2. CASE Grow
  BY <1>2 DEF Grow, Contents
<1>3. CASE Store
  BY <1>3, StoreFacts DEF Store, Abstract!Take, Abstract!Next
<1>4. CASE UNCHANGED bufferVars
  BY <1>4 DEF bufferVars, Contents
<1> QED
  BY <1>1, <1>2, <1>3, <1>4 DEF BufferNext, Abstract!Next

LEMMA BufferInvariant == BufferSpec => []BufferInv
<1>1. BufferInit => BufferInv
  BY BufferInvInit
<1>2. BufferInv /\ [BufferNext]_bufferVars => BufferInv'
  BY BufferInvStep
<1> QED
  BY <1>1, <1>2, PTL DEF BufferSpec

\* Through every reallocation the buffer is a string that grows at its end by what it is
\* given, and it never writes past its memory (pmk_buffer.c:46-72).
THEOREM BufferIsByteString == BufferSpec => ImplementsByteString
<1>1. BufferInit => Abstract!Init /\ WithinCapacity
  <2>1. ASSUME BufferInit
        PROVE  Abstract!Init
    BY <2>1 DEF BufferInit, Abstract!Init, Contents
  <2> QED
    BY <2>1, BufferInvInit DEF BufferInv
<1>2. BufferInv /\ [BufferNext]_bufferVars => [Abstract!Next]_<<Contents, text>>
  BY BufferRefines
<1>3. BufferInv' => [WithinCapacity']_bufferVars
  BY DEF BufferInv
<1> QED
  BY <1>1, <1>2, <1>3, BufferInvariant, PTL DEF BufferSpec, ImplementsByteString, Abstract!Spec

-----------------------------------------------------------------------------
(***************************************************************************)
(* Running scripts.                                                        *)
(***************************************************************************)
Context == Files \cup {NIL}

Frame ==
    [kind : {"pcall"}]
    \cup [kind : {"require"}, module : Modules, due : Seq(Context)]
    \cup [kind : {"chunk"}, module : Names, old : Context, at : Context, run : Nat]
    \cup [kind : Restoring \ {"chunk"}, module : Modules, old : Context, at : Context, run : Nat]

ScriptTypeOK ==
    /\ script \in Context
    /\ frames \in Seq(Frame)
    /\ loaded \in [Modules -> Nat]
    /\ callbacks \in [Modules -> Seq(Context)]
    /\ calls \in Nat
    /\ leaked \in -1 .. Len(frames)

\* The context of the innermost chunk or callback among the first n frames.
RestoringAmong(fs, n) == {k \in 1 .. n : fs[k].kind \in Restoring}

ContextOf(fs, restoring) ==
    IF restoring = {} THEN NIL ELSE fs[CHOOSE k \in restoring : \A j \in restoring : j <= k].at

OwnContext(fs, n) == ContextOf(fs, RestoringAmong(fs, n))

\* No error has left another context at the return of frame k.
Sound(k) == leaked = -1 \/ k <= leaked

\* What a chunk or a callback puts back is the context around it.
PutsBackOwn ==
    \A k \in 1 .. Len(frames) :
        frames[k].kind \in Restoring /\ Sound(k) => frames[k].old = OwnContext(frames, k - 1)

\* A frame that stays is the same, but for the callbacks a require() has yet to run.
SameCall(f, g) ==
    \/ g = f
    \/ f.kind = "require" /\ g.kind = "require" /\ g.module = f.module

Kept(n) ==
    /\ n \in 0 .. Len(frames) /\ n <= Len(frames')
    /\ \A k \in 1 .. n : SameCall(frames[k], frames'[k])

Unwound(p) ==
    /\ frames[p].kind = "pcall"
    /\ frames' = SubSeq(frames, 1, p - 1)
    /\ leaked' =
           IF \/ leaked >= p
              \/ leaked = -1 /\ \E k \in p .. Len(frames) : frames[k].kind \in Restoring
           THEN p - 1
           ELSE leaked

\* The ways a step changes the frames.
Stays ==
    Kept(Len(frames)) /\ Len(frames') = Len(frames) /\ UNCHANGED <<script, leaked>>

Pushes ==
    /\ Kept(Len(frames)) /\ Len(frames') = Len(frames) + 1 /\ UNCHANGED leaked
    /\ LET f == frames'[Len(frames')]
       IN  /\ f.kind \in Restoring => f.old = script /\ script' = f.at
           /\ f.kind \notin Restoring => script' = script

Unwinds ==
    UNCHANGED script /\ \E p \in 1 .. Len(frames) : Kept(p - 1) /\ Unwound(p)

Ends ==
    /\ frames # <<>> /\ frames[Len(frames)].kind \notin Restoring
    /\ Kept(Len(frames) - 1) /\ Len(frames') = Len(frames) - 1 /\ UNCHANGED script
    /\ leaked' = IF Len(frames) <= leaked THEN Len(frames) - 1 ELSE leaked

Returns ==
    /\ frames # <<>> /\ frames[Len(frames)].kind \in Restoring
    /\ Kept(Len(frames) - 1) /\ script' = frames[Len(frames)].old
    /\ leaked' = IF Len(frames) <= leaked THEN -1 ELSE leaked
    /\ \/ Len(frames') = Len(frames) - 1
       \/ Len(frames') = Len(frames) /\ frames'[Len(frames)].kind = "require"

LEMMA OwnContextSame ==
    ASSUME NEW fs, NEW gs, NEW n \in Nat,
           \A k \in 1 .. n : /\ fs[k].kind \in Restoring <=> gs[k].kind \in Restoring
                             /\ fs[k].kind \in Restoring => fs[k].at = gs[k].at
    PROVE  OwnContext(fs, n) = OwnContext(gs, n)
<1>1. PICK R : R = RestoringAmong(fs, n)
  OBVIOUS
<1>2. R = RestoringAmong(gs, n) /\ R \subseteq 0 .. n
  BY <1>1 DEF RestoringAmong
<1>3. ASSUME R # {}
      PROVE  fs[CHOOSE k \in R : \A j \in R : j <= k].at = gs[CHOOSE k \in R : \A j \in R : j <= k].at
  <2>1. \E k \in R : \A j \in R : j <= k
    BY <1>2, <1>3, GreatestNumber
  <2>2. PICK last : last = CHOOSE k \in R : \A j \in R : j <= k
    OBVIOUS
  <2>3. last \in R
    BY <2>1, <2>2
  <2>4. fs[last].at = gs[last].at
    BY <1>1, <2>3 DEF RestoringAmong
  <2> QED
    BY <2>2, <2>4
<1>4. ContextOf(fs, R) = ContextOf(gs, R)
  BY <1>3 DEF ContextOf
<1> QED
  BY <1>1, <1>2, <1>4 DEF OwnContext

\* A frame on top decides, if it has a context.
LEMMA OwnContextTop ==
    ASSUME NEW fs, NEW n \in Nat \ {0}
    PROVE  OwnContext(fs, n) =
               IF fs[n].kind \in Restoring THEN fs[n].at ELSE OwnContext(fs, n - 1)
<1>1. CASE fs[n].kind \in Restoring
  <2>1. PICK R : R = RestoringAmong(fs, n)
    OBVIOUS
  <2>2. n \in R /\ \A j \in R : j \in Nat /\ j <= n
    BY <1>1, <2>1 DEF RestoringAmong
  <2>3. \A k \in R : (\A j \in R : j <= k) => k = n
    BY <2>2
  <2>4. (CHOOSE k \in R : \A j \in R : j <= k) = n
    BY <2>2, <2>3
  <2>5. ContextOf(fs, R) = fs[n].at
    BY <2>2, <2>4 DEF ContextOf
  <2> QED
    BY <1>1, <2>1, <2>5 DEF OwnContext
<1>2. CASE fs[n].kind \notin Restoring
  <2>1. RestoringAmong(fs, n) = RestoringAmong(fs, n - 1)
    BY <1>2 DEF RestoringAmong
  <2> QED
    BY <1>2, <2>1 DEF OwnContext
<1> QED
  BY <1>1, <1>2

\* Frames without a context do not matter.
LEMMA OwnContextPlain ==
    ASSUME NEW fs, NEW n \in Nat, NEW m \in 0 .. n,
           \A k \in m + 1 .. n : fs[k].kind \notin Restoring
    PROVE  OwnContext(fs, n) = OwnContext(fs, m)
<1>1. RestoringAmong(fs, n) = RestoringAmong(fs, m)
  <2>1. \A k \in 1 .. n : k \in 1 .. m \/ k \in m + 1 .. n
    OBVIOUS
  <2>2. 1 .. m \subseteq 1 .. n
    OBVIOUS
  <2> QED
    BY <2>1, <2>2 DEF RestoringAmong
<1> QED
  BY <1>1 DEF OwnContext

LEMMA LexicalIsOwn == ScriptTypeOK => Lexical = OwnContext(frames, Len(frames))
<1> SUFFICES ASSUME ScriptTypeOK
             PROVE  Lexical = OwnContext(frames, Len(frames))
  OBVIOUS
<1>1. Lexical = ContextOf(frames, {k \in DOMAIN frames : frames[k].kind \in Restoring})
  BY DEF Lexical, ContextOf
<1>2. DOMAIN frames = 1 .. Len(frames)
  BY LenProperties DEF ScriptTypeOK
<1>3. {k \in DOMAIN frames : frames[k].kind \in Restoring} = RestoringAmong(frames, Len(frames))
  BY <1>2 DEF RestoringAmong
<1> QED
  BY <1>1, <1>3 DEF OwnContext

\* What pmk_locate() finds is a file.
LEMMA LocatedFiles == \A name, patterns : Located(name, patterns) \subseteq Files
  BY DEF Located

LEMMA FirstOnes ==
    ASSUME NEW S, NEW s \in Seq(S), s # <<>>
    PROVE  LET t == SubSeq(s, 1, Len(s) - 1)
           IN  t \in Seq(S) /\ Len(t) = Len(s) - 1 /\ \A k \in 1 .. Len(s) - 1 : t[k] = s[k]
<1>1. Len(s) \in Nat \ {0}
  BY EmptySeq, LenProperties
<1>2. PICK n : n = Len(s) - 1
  OBVIOUS
<1>3. n \in 0 .. Len(s) /\ \A i \in 1 .. n : s[i] \in S
  BY <1>1, <1>2, ElementOfSeq
<1>4. PICK t : t = SubSeq(s, 1, n)
  OBVIOUS
<1>5. t \in Seq(S)
  BY <1>3, <1>4, SubSeqProperties
<1>6. Len(t) = n
  BY <1>1, <1>3, <1>4, SubSeqProperties
<1>7. \A k \in 1 .. n : t[k] = s[k]
  BY <1>1, <1>3, <1>4, SubSeqProperties
<1> QED
  BY <1>2, <1>4, <1>5, <1>6, <1>7

LEMMA TwoMore ==
    ASSUME NEW S, NEW s \in Seq(S), NEW a \in S, NEW b \in S
    PROVE  LET t == s \o <<a, b>>
           IN  /\ t \in Seq(S) /\ Len(t) = Len(s) + 2
               /\ \A k \in 1 .. Len(s) : t[k] = s[k]
               /\ t[Len(s) + 1] = a /\ t[Len(s) + 2] = b
<1>1. PICK two : two = <<a, b>>
  OBVIOUS
<1>2. two \in Seq(S) /\ Len(two) = 2 /\ two[1] = a /\ two[2] = b /\ Len(s) \in Nat
  BY <1>1, LenProperties
<1>3. /\ s \o two \in Seq(S) /\ Len(s \o two) = Len(s) + Len(two)
      /\ \A k \in 1 .. Len(s) + Len(two) :
             (s \o two)[k] = IF k <= Len(s) THEN s[k] ELSE two[k - Len(s)]
  <2>1. two \in Seq(S)
    BY <1>2
  <2> QED
    BY <2>1, ConcatProperties, Zenon
<1>4. PICK t : t = s \o two
  OBVIOUS
<1>5. \A k \in 1 .. Len(s) + 2 : t[k] = IF k <= Len(s) THEN s[k] ELSE two[k - Len(s)]
  BY <1>2, <1>3, <1>4, Zenon
<1>6. \A k \in 1 .. Len(s) : t[k] = s[k]
  BY <1>2, <1>5
<1>7. t[Len(s) + 1] = two[1] /\ t[Len(s) + 2] = two[2]
  BY <1>2, <1>5
<1> QED
  BY <1>1, <1>2, <1>3, <1>4, <1>6, <1>7

LEMMA Appended ==
    ASSUME NEW f \in Frame, ScriptTypeOK, frames' = Append(frames, f)
    PROVE  /\ frames' \in Seq(Frame) /\ Len(frames') = Len(frames) + 1
           /\ Kept(Len(frames)) /\ frames'[Len(frames')] = f
<1>1. frames \in Seq(Frame)
  BY DEF ScriptTypeOK
<1>2. frames' \in Seq(Frame) /\ Len(frames') = Len(frames) + 1 /\ frames'[Len(frames')] = f
      /\ \A k \in 1 .. Len(frames) : frames'[k] = frames[k]
  BY <1>1, AppendProperties
<1>3. Len(frames) \in Nat
  BY <1>1, LenProperties
<1> QED
  BY <1>2, <1>3 DEF Kept, SameCall

\* The frames without the innermost ones.
LEMMA Shortened ==
    ASSUME NEW n \in 0 .. Len(frames), ScriptTypeOK, frames' = SubSeq(frames, 1, n)
    PROVE  frames' \in Seq(Frame) /\ Len(frames') = n /\ Kept(n)
<1>1. frames \in Seq(Frame) /\ Len(frames) \in Nat
  BY LenProperties DEF ScriptTypeOK
<1>2. frames' \in Seq(Frame) /\ Len(frames') = n /\ \A k \in 1 .. n : frames'[k] = frames[k]
  BY <1>1, SubSeqProperties
<1> QED
  BY <1>1, <1>2 DEF Kept, SameCall

LEMMA FrontFrames ==
    ASSUME ScriptTypeOK, frames # <<>>
    PROVE  /\ Front(frames) = SubSeq(frames, 1, Len(frames) - 1)
           /\ Last(frames) = frames[Len(frames)]
           /\ Len(frames) \in Nat \ {0} /\ frames[Len(frames)] \in Frame
           /\ Front(frames) \in Seq(Frame) /\ Len(Front(frames)) = Len(frames) - 1
           /\ \A k \in 1 .. Len(frames) - 1 : Front(frames)[k] = frames[k]
<1>1. frames \in Seq(Frame)
  BY DEF ScriptTypeOK
<1>2. Len(frames) \in Nat \ {0} /\ frames[Len(frames)] \in Frame
  BY <1>1, EmptySeq, LenProperties, ElementOfSeq
<1>3. Front(frames) = SubSeq(frames, 1, Len(frames) - 1) /\ Last(frames) = frames[Len(frames)]
  BY DEF Front, Last
<1>4. PICK below : below = SubSeq(frames, 1, Len(frames) - 1)
  OBVIOUS
<1>5. below \in Seq(Frame) /\ Len(below) = Len(frames) - 1
      /\ \A k \in 1 .. Len(frames) - 1 : below[k] = frames[k]
  BY <1>1, <1>4, FirstOnes
<1> QED
  BY <1>2, <1>3, <1>4, <1>5

LEMMA UnwindShape ==
    ASSUME ScriptTypeOK, Unwind, script' = script
    PROVE  (Stays \/ Unwinds) /\ frames' \in Seq(Frame) /\ leaked' \in -1 .. Len(frames')
<1> DEFINE P == {p \in DOMAIN frames : frames[p].kind = "pcall"}
           p == CHOOSE q \in P : \A r \in P : r <= q
<1>1. frames \in Seq(Frame) /\ Len(frames) \in Nat /\ DOMAIN frames = 1 .. Len(frames)
      /\ leaked \in -1 .. Len(frames)
  BY LenProperties DEF ScriptTypeOK
<1>2. CASE P = {}
  <2>1. frames' = frames /\ leaked' = leaked
    BY <1>2 DEF Unwind
  <2> QED
    BY <1>1, <2>1 DEF Stays, Kept, SameCall
<1>3. CASE P # {}
  <2>1. frames' = SubSeq(frames, 1, p - 1)
        /\ leaked' =
              IF \/ leaked >= p
                 \/ leaked = -1 /\ \E k \in p .. Len(frames) : frames[k].kind \in Restoring
              THEN p - 1
              ELSE leaked
    BY <1>3 DEF Unwind
  <2>2. P \subseteq 0 .. Len(frames)
    BY <1>1
  <2>3. \E q \in P : \A r \in P : r <= q
    <3> HIDE DEF P
    <3> QED
      BY <1>1, <1>3, <2>2, GreatestNumber
  <2>4. p \in P
    <3> HIDE DEF P
    <3> QED
      BY <2>3
  <2>5. PICK q : q = p
    OBVIOUS
  <2>6. Unwound(q) /\ q \in 1 .. Len(frames)
    BY <1>1, <2>1, <2>4, <2>5 DEF Unwound
  <2> HIDE DEF p, P
  <2>7. frames' = SubSeq(frames, 1, q - 1) /\ q - 1 \in 0 .. Len(frames)
    BY <1>1, <2>6 DEF Unwound
  <2>8. frames' \in Seq(Frame) /\ Len(frames') = q - 1 /\ Kept(q - 1)
    BY <2>7, Shortened
  <2>9. leaked' \in -1 .. q - 1
    BY <1>1, <2>6 DEF Unwound
  <2> QED
    BY <2>6, <2>8, <2>9 DEF Unwinds
<1> QED
  BY <1>2, <1>3

LEMMA RunShape ==
    ASSUME NEW kind \in Restoring, NEW module, NEW at \in Context,
           module \in (IF kind = "chunk" THEN Names ELSE Modules),
           ScriptTypeOK, calls' \in Nat, Run(kind, module, at)
    PROVE  /\ \/ Stays \/ Unwinds
              \/ /\ Pushes
                 /\ frames'[Len(frames')] =
                        [kind |-> kind, module |-> module, old |-> script, at |-> at, run |-> calls']
           /\ script' \in Context /\ frames' \in Seq(Frame) /\ leaked' \in -1 .. Len(frames')
<1>1. PICK f : f = [kind |-> kind, module |-> module, old |-> script, at |-> at, run |-> calls']
  OBVIOUS
<1>2. f \in Frame
  BY <1>1 DEF Frame, ScriptTypeOK
<1>3. f.kind \in Restoring /\ f.old = script /\ f.at = at
  BY <1>1
<1>4. Len(frames) \in Nat /\ leaked \in -1 .. Len(frames) /\ script \in Context
  BY LenProperties DEF ScriptTypeOK
<1>5. CASE Len(frames) < MaxDepth
  <2>1. frames' = Append(frames, f) /\ script' = at /\ leaked' = leaked
    BY <1>1, <1>5 DEF Run
  <2>2. Pushes /\ frames' \in Seq(Frame) /\ Len(frames') = Len(frames) + 1 /\ frames'[Len(frames')] = f
    BY <1>2, <1>3, <2>1, Appended DEF Pushes
  <2> QED
    BY <1>1, <1>4, <2>1, <2>2
<1>6. CASE ~(Len(frames) < MaxDepth)
  <2>1. Unwind /\ script' = script
    BY <1>6 DEF Run
  <2> QED
    BY <1>4, <2>1, UnwindShape
<1> QED
  BY <1>5, <1>6

Held == loaded' = loaded /\ rerun \subseteq rerun'

\* What is known of a new frame.
Promised ==
    LET f == frames'[Len(frames')]
    IN  /\ f.kind = "chunk" => f.at \in Located(f.module, ScriptPatterns)
        /\ f.kind = "require" => loaded[f.module] # 0
        /\ f.kind = "callback" =>
              /\ frames # <<>> /\ frames[Len(frames)].kind = "require"
              /\ frames[Len(frames)].module = f.module
        /\ f.kind \in {"module", "force"} => f.run > 0
        /\ f.kind = "force" => f.module \in rerun'
        /\ f.kind = "module" =>
              /\ loaded[f.module] = 0
              /\ \/ f.module \in rerun'
                 \/ \A k \in 1 .. Len(frames) :
                       ~(frames[k].kind = "module" /\ frames[k].module = f.module)

NotesModule ==
    /\ rerun' = rerun
    /\ \E value \in BOOLEAN : loaded' = Noted(frames[Len(frames)], value)
    /\ Len(frames') = Len(frames) =>
          /\ frames[Len(frames)].kind = "module"
          /\ frames'[Len(frames)].module = frames[Len(frames)].module

ScriptStep ==
    \/ Held /\ (Stays \/ Unwinds \/ Ends \/ (Pushes /\ Promised))
    \/ Returns /\ NotesModule

ScriptsStep == ScriptTypeOK' /\ ScriptStep

Untouched == UNCHANGED <<loaded, callbacks, rerun>>

LEMMA DoFileStep ==
    ASSUME NEW name \in Names, NEW optional \in BOOLEAN, ScriptTypeOK, DoFile(name, optional)
    PROVE  ScriptsStep
<1>1. calls' \in Nat /\ Untouched
  BY DEF DoFile, Step, ScriptTypeOK, Untouched
<1>2. CASE Located(name, ScriptPatterns) # {}
  <2>1. PICK f \in Located(name, ScriptPatterns) : Run("chunk", name, f)
    BY <1>2 DEF DoFile
  <2>2. f \in Context
    BY LocatedFiles DEF Context
  <2>3. "chunk" \in Restoring
    BY DEF Restoring
  <2>4. /\ \/ Stays \/ Unwinds
           \/ /\ Pushes
              /\ frames'[Len(frames')] =
                     [kind |-> "chunk", module |-> name, old |-> script, at |-> f, run |-> calls']
        /\ script' \in Context /\ frames' \in Seq(Frame) /\ leaked' \in -1 .. Len(frames')
    BY <1>1, <2>1, <2>2, <2>3, RunShape
  <2>5. Pushes => Promised
    BY <1>1, <2>4 DEF Promised, Stays, Unwinds, Pushes, Unwound
  <2> QED
    BY <1>1, <2>4, <2>5 DEF ScriptsStep, ScriptStep, Held, Untouched, ScriptTypeOK
<1>3. CASE Located(name, ScriptPatterns) = {} /\ optional
  <2>1. UNCHANGED <<script, frames, leaked>>
    BY <1>3 DEF DoFile
  <2> QED
    BY <1>1, <2>1, LenProperties DEF ScriptsStep, ScriptStep, Held, Untouched, ScriptTypeOK, Stays, Kept, SameCall
<1>4. CASE Located(name, ScriptPatterns) = {} /\ ~optional
  <2>1. Unwind /\ UNCHANGED script
    BY <1>4 DEF DoFile
  <2>2. (Stays \/ Unwinds) /\ frames' \in Seq(Frame) /\ leaked' \in -1 .. Len(frames')
    BY <2>1, UnwindShape
  <2> QED
    BY <1>1, <2>1, <2>2 DEF ScriptsStep, ScriptStep, Held, Untouched, ScriptTypeOK
<1> QED
  BY <1>2, <1>3, <1>4

LEMMA UnwindStep ==
    ASSUME ScriptTypeOK, calls' \in Nat, UNCHANGED <<loaded, callbacks>>, rerun \subseteq rerun',
           Unwind, UNCHANGED script
    PROVE  ScriptsStep
<1>1. (Stays \/ Unwinds) /\ frames' \in Seq(Frame) /\ leaked' \in -1 .. Len(frames')
  BY UnwindShape
<1> QED
  BY <1>1 DEF ScriptsStep, ScriptStep, Held, ScriptTypeOK

LEMMA RunStep ==
    ASSUME NEW kind \in {"module", "force", "register"}, NEW module \in Modules, NEW at \in Context,
           ScriptTypeOK, calls' = calls + 1, UNCHANGED <<loaded, callbacks>>, rerun \subseteq rerun',
           Run(kind, module, at),
           kind = "force" => module \in rerun',
           kind = "module" =>
               /\ loaded[module] = 0
               /\ \/ module \in rerun'
                  \/ \A k \in 1 .. Len(frames) : ~(frames[k].kind = "module" /\ frames[k].module = module)
    PROVE  ScriptsStep
<1>1. kind \in Restoring /\ kind # "chunk" /\ calls' \in Nat /\ calls' > 0
  BY DEF Restoring, ScriptTypeOK
<1>2. /\ \/ Stays \/ Unwinds
         \/ /\ Pushes
            /\ frames'[Len(frames')] =
                   [kind |-> kind, module |-> module, old |-> script, at |-> at, run |-> calls']
      /\ script' \in Context /\ frames' \in Seq(Frame) /\ leaked' \in -1 .. Len(frames')
  BY <1>1, RunShape
<1>3. ASSUME Pushes,
             frames'[Len(frames')] =
                 [kind |-> kind, module |-> module, old |-> script, at |-> at, run |-> calls']
      PROVE  Promised
  BY <1>1, <1>3 DEF Promised
<1> QED
  BY <1>1, <1>2, <1>3 DEF ScriptsStep, ScriptStep, Held, ScriptTypeOK

LEMMA RequireStep ==
    ASSUME NEW m \in Modules, ScriptTypeOK, Require(m)
    PROVE  ScriptsStep
<1>1. calls' = calls + 1 /\ calls' \in Nat /\ UNCHANGED <<loaded, callbacks>>
  BY DEF Require, Step, ScriptTypeOK
<1>2. CASE loaded[m] # 0
  <2>1. frames' = Append(frames, CallbacksOf(m)) /\ UNCHANGED <<script, leaked, rerun>>
    BY <1>2 DEF Require
  <2>2. CallbacksOf(m) \in Frame
    BY DEF CallbacksOf, Frame, ScriptTypeOK
  <2>3. /\ frames' \in Seq(Frame) /\ Len(frames') = Len(frames) + 1
        /\ Kept(Len(frames)) /\ frames'[Len(frames')] = CallbacksOf(m)
    BY <2>1, <2>2, Appended
  <2>4. CallbacksOf(m).kind = "require" /\ CallbacksOf(m).module = m /\ "require" \notin Restoring
    BY DEF CallbacksOf, Restoring
  <2>5. Pushes /\ Promised
    BY <1>2, <2>1, <2>3, <2>4 DEF Pushes, Promised
  <2>6. leaked' \in -1 .. Len(frames')
    BY <2>1, <2>3, LenProperties DEF ScriptTypeOK
  <2> QED
    BY <1>1, <2>1, <2>3, <2>5, <2>6 DEF ScriptsStep, ScriptStep, Held, ScriptTypeOK
<1>3. CASE loaded[m] = 0
  <2>1. rerun' = rerun \cup {x \in {m} : \E k \in DOMAIN frames :
                     frames[k].kind = "module" /\ frames[k].module = m}
    BY <1>3 DEF Require
  <2>2. DOMAIN frames = 1 .. Len(frames)
    BY LenProperties DEF ScriptTypeOK
  <2>3. \/ m \in rerun'
        \/ \A k \in 1 .. Len(frames) : ~(frames[k].kind = "module" /\ frames[k].module = m)
    BY <2>1, <2>2
  <2>4. rerun \subseteq rerun'
    BY <2>1
  <2>5. CASE Located(m, ModulePatterns) # {}
    <3>1. PICK f \in Located(m, ModulePatterns) : Run("module", m, f)
      BY <1>3, <2>5 DEF Require
    <3>2. f \in Context
      BY LocatedFiles DEF Context
    <3> QED
      BY <1>1, <1>3, <2>3, <2>4, <3>1, <3>2, RunStep
  <2>6. CASE Located(m, ModulePatterns) = {}
    <3>1. Unwind /\ UNCHANGED script
      BY <1>3, <2>6 DEF Require
    <3> QED
      BY <1>1, <2>4, <3>1, UnwindStep
  <2> QED
    BY <2>5, <2>6
<1> QED
  BY <1>2, <1>3

LEMMA ForceRequireStep ==
    ASSUME NEW m \in Modules, ScriptTypeOK, ForceRequire(m)
    PROVE  ScriptsStep
<1>1. calls' = calls + 1 /\ calls' \in Nat /\ UNCHANGED <<loaded, callbacks>>
      /\ rerun' = rerun \cup {m}
  BY DEF ForceRequire, Step, ScriptTypeOK
<1>2. CASE Located(m, ModulePatterns) # {}
  <2>1. PICK f \in Located(m, ModulePatterns) : Run("force", m, f)
    BY <1>2 DEF ForceRequire
  <2>2. f \in Context
    BY LocatedFiles DEF Context
  <2> QED
    BY <1>1, <2>1, <2>2, RunStep
<1>3. CASE Located(m, ModulePatterns) = {}
  <2>1. Unwind /\ UNCHANGED script
    BY <1>3 DEF ForceRequire
  <2> QED
    BY <1>1, <2>1, UnwindStep
<1> QED
  BY <1>2, <1>3

LEMMA FramesStay ==
    ASSUME ScriptTypeOK, UNCHANGED <<script, frames, leaked>>
    PROVE  Stays /\ leaked' \in -1 .. Len(frames') /\ frames' \in Seq(Frame) /\ script' \in Context
  BY LenProperties DEF ScriptTypeOK, Stays, Kept, SameCall

LEMMA RegisterStep ==
    ASSUME NEW m \in Modules, ScriptTypeOK, Register(m)
    PROVE  ScriptsStep
<1>1. calls' = calls + 1 /\ calls' \in Nat /\ Untouched
  BY DEF Register, Step, ScriptTypeOK, Untouched
<1>2. PICK f \in Located(m, ModulePatterns) :
        \/ UNCHANGED <<script, frames, leaked>>
        \/ \E s \in Files : Run("register", m, s)
  BY DEF Register
<1>3. CASE UNCHANGED <<script, frames, leaked>>
  BY <1>1, <1>3, FramesStay DEF ScriptsStep, ScriptStep, Held, Untouched, ScriptTypeOK
<1>4. ASSUME NEW s \in Files, Run("register", m, s)
      PROVE  ScriptsStep
  <2>1. s \in Context
    BY DEF Context
  <2> QED
    BY <1>1, <1>4, <2>1, RunStep DEF Untouched
<1> QED
  BY <1>2, <1>3, <1>4

LEMMA OnRequireStep ==
    ASSUME NEW m \in Modules, ScriptTypeOK, OnRequire(m)
    PROVE  ScriptsStep
<1>1. calls' \in Nat /\ UNCHANGED <<script, frames, loaded, leaked, rerun>>
  BY DEF OnRequire, Step, ScriptTypeOK
<1>2. callbacks' = [callbacks EXCEPT ![m] = Append(@, script)]
  BY DEF OnRequire
<1>3. callbacks' \in [Modules -> Seq(Context)]
  <2>1. Append(callbacks[m], script) \in Seq(Context)
    BY AppendProperties DEF ScriptTypeOK
  <2> QED
    BY <1>2, <2>1 DEF ScriptTypeOK
<1> QED
  BY <1>1, <1>3, FramesStay DEF ScriptsStep, ScriptStep, Held, ScriptTypeOK

LEMMA RunCallbackStep ==
    ASSUME ScriptTypeOK, RunCallback
    PROVE  ScriptsStep
<1> DEFINE top == Last(frames)
           at == Head(top.due)
           rest == [top EXCEPT !.due = Tail(@)]
           call == [kind |-> "callback", module |-> rest.module, old |-> script, at |-> at, run |-> calls]
<1>1. calls' \in Nat /\ calls' = calls /\ Untouched
  BY DEF RunCallback, ScriptTypeOK, Untouched
<1>2. frames # <<>> /\ top.kind = "require" /\ top.due # <<>>
  BY DEF RunCallback, Innermost
<1>3. /\ Front(frames) = SubSeq(frames, 1, Len(frames) - 1) /\ top = frames[Len(frames)]
      /\ Len(frames) \in Nat \ {0} /\ top \in Frame
  BY <1>2, FrontFrames
<1>4. top \in [kind : {"require"}, module : Modules, due : Seq(Context)]
  BY <1>2, <1>3 DEF Frame, Restoring
<1>5. rest \in [kind : {"require"}, module : Modules, due : Seq(Context)] /\ rest.module = top.module
  <2>1. Tail(top.due) \in Seq(Context)
    BY <1>2, <1>4, HeadTailProperties
  <2> HIDE DEF top
  <2> QED
    BY <1>4, <2>1
<1>6. at \in Context
  BY <1>2, <1>4, HeadTailProperties
<1>7. rest \in Frame /\ rest.kind = "require" /\ call \in Frame
      /\ call.kind = "callback" /\ call.old = script /\ call.at = at /\ call.module = top.module
  <2> HIDE DEF rest, at, top
  <2> QED
    BY <1>4, <1>5, <1>6 DEF Frame, Restoring, ScriptTypeOK
<1>8. CASE Len(frames) < MaxDepth
  <2>1. frames' = Front(frames) \o <<rest, call>> /\ script' = at /\ leaked' = leaked
    BY <1>8 DEF RunCallback
  <2> HIDE DEF rest, call, at, top
  <2>2. PICK below : below = Front(frames)
    OBVIOUS
  <2>3. /\ below \in Seq(Frame) /\ Len(below) = Len(frames) - 1
        /\ \A k \in 1 .. Len(frames) - 1 : below[k] = frames[k]
    BY <1>2, <2>2, FrontFrames
  <2>5. frames' = below \o <<rest, call>>
    BY <2>1, <2>2
  <2>6. /\ frames' \in Seq(Frame) /\ Len(frames') = Len(frames) + 1
        /\ \A k \in 1 .. Len(frames) - 1 : frames'[k] = frames[k]
        /\ frames'[Len(frames)] = rest /\ frames'[Len(frames) + 1] = call
    <3>1. PICK longer : longer = below \o <<rest, call>>
      OBVIOUS
    <3>2. /\ longer \in Seq(Frame) /\ Len(longer) = Len(below) + 2
          /\ \A k \in 1 .. Len(below) : longer[k] = below[k]
          /\ longer[Len(below) + 1] = rest /\ longer[Len(below) + 2] = call
      BY <1>7, <2>3, <3>1, TwoMore
    <3>3. frames' = longer
      BY <2>5, <3>1
    <3> QED
      BY <1>3, <2>3, <3>2, <3>3
  <2>7. Kept(Len(frames))
    <3>1. SameCall(frames[Len(frames)], frames'[Len(frames)])
      BY <1>2, <1>3, <1>5, <1>7, <2>6 DEF SameCall
    <3>2. \A k \in 1 .. Len(frames) : k = Len(frames) \/ k \in 1 .. Len(frames) - 1
      BY <1>3
    <3>3. \A k \in 1 .. Len(frames) - 1 : SameCall(frames[k], frames'[k])
      BY <2>6 DEF SameCall
    <3> QED
      BY <1>3, <2>6, <3>1, <3>2, <3>3 DEF Kept
  <2>8. Pushes
    BY <1>7, <2>1, <2>6, <2>7 DEF Pushes, Restoring
  <2>9. Promised
    BY <1>2, <1>3, <1>7, <2>6 DEF Promised
  <2>10. leaked' \in -1 .. Len(frames') /\ script' \in Context
    BY <1>6, <2>1, <2>6 DEF ScriptTypeOK
  <2> QED
    BY <1>1, <2>6, <2>8, <2>9, <2>10 DEF ScriptsStep, ScriptStep, Held, Untouched, ScriptTypeOK
<1>9. CASE ~(Len(frames) < MaxDepth)
  <2>1. Unwind /\ UNCHANGED script
    BY <1>9 DEF RunCallback
  <2> QED
    BY <1>1, <2>1, UnwindStep DEF Untouched
<1> QED
  BY <1>8, <1>9

LEMMA BeginProtectedStep ==
    ASSUME ScriptTypeOK, BeginProtected
    PROVE  ScriptsStep
<1>1. calls' \in Nat /\ Untouched /\ UNCHANGED <<script, leaked>>
  BY DEF BeginProtected, Step, ScriptTypeOK, Untouched
<1>2. PICK f : f = [kind |-> "pcall"]
  OBVIOUS
<1>3. f \in Frame /\ f.kind = "pcall" /\ frames' = Append(frames, f)
  BY <1>2 DEF Frame, BeginProtected
<1>4. /\ frames' \in Seq(Frame) /\ Len(frames') = Len(frames) + 1
      /\ Kept(Len(frames)) /\ frames'[Len(frames')] = f
  BY <1>3, Appended
<1>5. Pushes /\ Promised
  BY <1>1, <1>3, <1>4 DEF Pushes, Promised, Restoring
<1>6. leaked' \in -1 .. Len(frames')
  BY <1>1, <1>4, LenProperties DEF ScriptTypeOK
<1> QED
  BY <1>1, <1>4, <1>5, <1>6 DEF ScriptsStep, ScriptStep, Held, Untouched, ScriptTypeOK

LEMMA EndPlainStep ==
    ASSUME ScriptTypeOK, EndPlain
    PROVE  ScriptsStep
<1>1. calls' \in Nat /\ Untouched /\ UNCHANGED script
  BY DEF EndPlain, ScriptTypeOK, Untouched
<1>2. frames # <<>> /\ Last(frames).kind \in {"pcall", "require"}
  BY DEF EndPlain, Innermost
<1>3. /\ Front(frames) = SubSeq(frames, 1, Len(frames) - 1) /\ Last(frames) = frames[Len(frames)]
      /\ Len(frames) \in Nat \ {0}
  BY <1>2, FrontFrames
<1>4. frames' \in Seq(Frame) /\ Len(frames') = Len(frames) - 1 /\ Kept(Len(frames) - 1)
  <2>1. frames' = SubSeq(frames, 1, Len(frames) - 1)
    BY <1>3 DEF EndPlain
  <2>2. Len(frames) - 1 \in 0 .. Len(frames)
    BY <1>3
  <2> QED
    BY <2>1, <2>2, Shortened, Zenon
<1>5. leaked' = IF Len(frames) <= leaked THEN Len(frames) - 1 ELSE leaked
  BY DEF EndPlain
<1>6. Ends
  BY <1>1, <1>2, <1>3, <1>4, <1>5 DEF Ends, Restoring
<1>7. leaked' \in -1 .. Len(frames')
  BY <1>3, <1>4, <1>5 DEF ScriptTypeOK
<1> QED
  BY <1>1, <1>4, <1>6, <1>7 DEF ScriptsStep, ScriptStep, Held, Untouched, ScriptTypeOK

LEMMA ReturnStep ==
    ASSUME NEW value \in BOOLEAN, ScriptTypeOK, Return(value)
    PROVE  ScriptsStep
<1>1. calls' \in Nat /\ UNCHANGED <<callbacks, rerun>>
  BY DEF Return, ScriptTypeOK
<1>2. frames # <<>> /\ Last(frames).kind \in Restoring
  BY DEF Return, Innermost
<1>3. /\ Front(frames) = SubSeq(frames, 1, Len(frames) - 1) /\ Last(frames) = frames[Len(frames)]
      /\ Len(frames) \in Nat \ {0} /\ frames[Len(frames)] \in Frame
  BY <1>2, FrontFrames
<1>4. PICK f : f = frames[Len(frames)]
  OBVIOUS
<1>5. /\ f.kind \in Restoring /\ f.old \in Context /\ f.run \in Nat
      /\ f.kind \in {"module", "force", "register", "callback"} => f.module \in Modules
  BY <1>2, <1>3, <1>4 DEF Frame, Restoring
<1>6. /\ script' = f.old /\ loaded' = Noted(f, value)
      /\ frames' = IF f.kind = "module" THEN Append(Front(frames), CallbacksOf(f.module)) ELSE Front(frames)
      /\ leaked' = IF Len(frames) <= leaked THEN -1 ELSE leaked
  BY <1>3, <1>4 DEF Return
<1>7. loaded' \in [Modules -> Nat]
  BY <1>5, <1>6 DEF Noted, ScriptTypeOK
<1>8. PICK below : below = Front(frames)
  OBVIOUS
<1>9. /\ below \in Seq(Frame) /\ Len(below) = Len(frames) - 1
      /\ \A k \in 1 .. Len(frames) - 1 : below[k] = frames[k]
  BY <1>2, <1>8, FrontFrames
<1>10. /\ frames' \in Seq(Frame) /\ \A k \in 1 .. Len(frames) - 1 : frames'[k] = frames[k]
       /\ \/ Len(frames') = Len(frames) - 1
          \/ /\ Len(frames') = Len(frames) /\ f.kind = "module"
             /\ frames'[Len(frames)].kind = "require" /\ frames'[Len(frames)].module = f.module
  <2>1. CASE f.kind = "module"
    <3>1. PICK g : g = CallbacksOf(f.module)
      OBVIOUS
    <3>2. g \in Frame /\ g.kind = "require" /\ g.module = f.module
      BY <1>5, <2>1, <3>1 DEF CallbacksOf, Frame, ScriptTypeOK
    <3>3. frames' = Append(below, g)
      BY <1>6, <1>8, <2>1, <3>1
    <3> QED
      BY <1>3, <1>9, <2>1, <3>2, <3>3, AppendProperties
  <2>2. CASE f.kind # "module"
    BY <1>6, <1>8, <1>9, <2>2
  <2> QED
    BY <2>1, <2>2
<1>11. Kept(Len(frames) - 1)
  BY <1>3, <1>10 DEF Kept, SameCall
<1>12. Returns
  BY <1>2, <1>4, <1>5, <1>6, <1>10, <1>11 DEF Returns
<1>13. NotesModule
  <2>1. loaded' = Noted(frames[Len(frames)], value)
    BY <1>4, <1>6
  <2>2. Len(frames') = Len(frames) => f.kind = "module" /\ frames'[Len(frames)].module = f.module
    BY <1>3, <1>10
  <2> QED
    BY <1>1, <1>4, <2>1, <2>2 DEF NotesModule
<1>14. leaked' \in -1 .. Len(frames') /\ script' \in Context
  BY <1>3, <1>5, <1>6, <1>10 DEF ScriptTypeOK
<1> QED
  BY <1>1, <1>7, <1>10, <1>12, <1>13, <1>14 DEF ScriptsStep, ScriptStep, ScriptTypeOK

\* Every step changes the frames, and what is noted of the modules, in one of these ways.
LEMMA ScriptSteps == ScriptTypeOK /\ [ScriptNext]_scriptVars => ScriptsStep
<1> SUFFICES ASSUME ScriptTypeOK, [ScriptNext]_scriptVars
             PROVE  ScriptsStep
  OBVIOUS
<1>1. CASE Raise
  <2>1. calls' \in Nat /\ UNCHANGED <<loaded, callbacks, rerun>> /\ Unwind /\ UNCHANGED script
    BY <1>1 DEF Raise, Step, ScriptTypeOK
  <2> QED
    BY <2>1, UnwindStep
<1>2. CASE Proceed
  BY <1>2, FramesStay DEF Proceed, ScriptsStep, ScriptStep, Held, ScriptTypeOK
<1>3. CASE UNCHANGED scriptVars
  BY <1>3, FramesStay DEF scriptVars, ScriptsStep, ScriptStep, Held, ScriptTypeOK
<1>4. ASSUME NEW name \in Names, NEW optional \in BOOLEAN, DoFile(name, optional)
      PROVE  ScriptsStep
  BY <1>4, DoFileStep
<1>5. ASSUME NEW m \in Modules, Require(m) \/ ForceRequire(m) \/ Register(m) \/ OnRequire(m)
      PROVE  ScriptsStep
  BY <1>5, RequireStep, ForceRequireStep, RegisterStep, OnRequireStep
<1>6. CASE RunCallback
  BY <1>6, RunCallbackStep
<1>7. CASE BeginProtected
  BY <1>7, BeginProtectedStep
<1>8. CASE EndPlain
  BY <1>8, EndPlainStep
<1>9. ASSUME NEW value \in BOOLEAN, Return(value)
      PROVE  ScriptsStep
  BY <1>9, ReturnStep
<1> QED
  BY <1>1, <1>2, <1>3, <1>4, <1>5, <1>6, <1>7, <1>8, <1>9 DEF ScriptNext

\* What a script and the frames below it were written for.
ContextInv ==
    /\ PutsBackOwn
    /\ leaked = -1 => script = OwnContext(frames, Len(frames))

LEMMA OwnContextKept ==
    ASSUME NEW n \in Nat, NEW j \in 0 .. n, Kept(n)
    PROVE  OwnContext(frames', j) = OwnContext(frames, j)
<1>1. \A k \in 1 .. j : SameCall(frames[k], frames'[k])
  BY DEF Kept
<1>2. "require" \notin Restoring
  BY DEF Restoring
<1>3. \A k \in 1 .. j : /\ frames'[k].kind \in Restoring <=> frames[k].kind \in Restoring
                        /\ frames'[k].kind \in Restoring => frames'[k].at = frames[k].at
  BY <1>1, <1>2 DEF SameCall
<1>4. PICK fs, gs : fs = frames' /\ gs = frames
  OBVIOUS
<1>5. OwnContext(fs, j) = OwnContext(gs, j)
  <2>1. \A k \in 1 .. j : /\ fs[k].kind \in Restoring <=> gs[k].kind \in Restoring
                          /\ fs[k].kind \in Restoring => fs[k].at = gs[k].at
    BY <1>3, <1>4
  <2>2. j \in Nat
    OBVIOUS
  <2> QED
    BY <2>1, <2>2, OwnContextSame
<1> QED
  BY <1>4, <1>5

\* The frames that stay put back what is theirs, as far as they did before.
LEMMA StillPutsBack ==
    ASSUME NEW n \in Nat, Kept(n), PutsBackOwn,
           NEW k \in 1 .. n, Sound(k), frames'[k].kind \in Restoring
    PROVE  frames'[k].old = OwnContext(frames', k - 1)
<1>1. SameCall(frames[k], frames'[k]) /\ k \in 1 .. Len(frames)
  BY DEF Kept
<1>2. frames'[k] = frames[k]
  BY <1>1 DEF SameCall, Restoring
<1>3. frames[k].old = OwnContext(frames, k - 1)
  BY <1>1, <1>2 DEF PutsBackOwn
<1>4. OwnContext(frames', k - 1) = OwnContext(frames, k - 1)
  <2>1. k - 1 \in 0 .. n
    OBVIOUS
  <2> QED
    BY <2>1, OwnContextKept
<1> QED
  BY <1>2, <1>3, <1>4

LEMMA ContextStep ==
    ASSUME ScriptTypeOK, ScriptTypeOK', ContextInv, ScriptStep
    PROVE  ContextInv'
<1>0. PICK n : n = Len(frames)
  OBVIOUS
<1>1. n \in Nat /\ Len(frames') \in Nat /\ leaked \in -1 .. n /\ leaked' \in -1 .. Len(frames')
  BY <1>0, LenProperties DEF ScriptTypeOK
<1>2. CASE Stays
  <2>1. Kept(n) /\ Len(frames') = n /\ UNCHANGED <<script, leaked>>
    BY <1>0, <1>2 DEF Stays
  <2>2. \A k \in 1 .. n : frames'[k].kind \in Restoring /\ Sound(k)' => frames'[k].old = OwnContext(frames', k - 1)
    BY <1>1, <2>1, StillPutsBack DEF ContextInv, Sound
  <2>3. OwnContext(frames', n) = OwnContext(frames, n)
    BY <1>1, <2>1, OwnContextKept
  <2> QED
    BY <1>0, <2>1, <2>2, <2>3 DEF ContextInv, PutsBackOwn
<1>3. CASE Pushes
  <2>1. /\ Kept(n) /\ Len(frames') = n + 1 /\ leaked' = leaked
        /\ frames'[n + 1].kind \in Restoring => frames'[n + 1].old = script /\ script' = frames'[n + 1].at
        /\ frames'[n + 1].kind \notin Restoring => script' = script
    BY <1>0, <1>3 DEF Pushes
  <2>2. \A k \in 1 .. n : frames'[k].kind \in Restoring /\ Sound(k)' => frames'[k].old = OwnContext(frames', k - 1)
    BY <1>1, <2>1, StillPutsBack DEF ContextInv, Sound
  <2>3. OwnContext(frames', n) = OwnContext(frames, n)
    BY <1>1, <2>1, OwnContextKept
  <2>4. leaked' = -1 => script = OwnContext(frames', n)
    BY <1>0, <2>1, <2>3 DEF ContextInv
  <2>5. frames'[n + 1].kind \in Restoring /\ Sound(n + 1)' => frames'[n + 1].old = OwnContext(frames', n)
    BY <1>1, <2>1, <2>4 DEF Sound
  <2>6. OwnContext(frames', n + 1) =
            IF frames'[n + 1].kind \in Restoring THEN frames'[n + 1].at ELSE OwnContext(frames', n)
    <3>1. PICK fs : fs = frames'
      OBVIOUS
    <3>2. PICK m : m = n + 1
      OBVIOUS
    <3>3. m \in Nat \ {0} /\ m - 1 = n
      BY <1>1, <3>2
    <3>4. OwnContext(fs, m) = IF fs[m].kind \in Restoring THEN fs[m].at ELSE OwnContext(fs, m - 1)
      BY <3>3, OwnContextTop
    <3> QED
      BY <3>1, <3>2, <3>3, <3>4
  <2>7. \A k \in 1 .. n + 1 : k \in 1 .. n \/ k = n + 1
    BY <1>1
  <2>8. PutsBackOwn'
    <3>1. \A k \in 1 .. n + 1 : frames'[k].kind \in Restoring /\ Sound(k)' => frames'[k].old = OwnContext(frames', k - 1)
      <4>1. SUFFICES ASSUME NEW k \in 1 .. n + 1, frames'[k].kind \in Restoring, Sound(k)'
                     PROVE  frames'[k].old = OwnContext(frames', k - 1)
        OBVIOUS
      <4>2. CASE k = n + 1
        <5>1. frames'[n + 1].kind \in Restoring
          BY <4>1, <4>2
        <5>2. Sound(n + 1)'
          BY <4>1, <4>2 DEF Sound
        <5>3. frames'[n + 1].old = OwnContext(frames', n)
          BY <2>5, <5>1, <5>2
        <5>4. k - 1 = n
          BY <1>1, <4>2
        <5> QED
          BY <4>2, <5>3, <5>4
      <4>3. CASE k \in 1 .. n
        BY <2>2, <4>1, <4>3
      <4> QED
        BY <2>7, <4>2, <4>3
    <3> QED
      BY <2>1, <3>1 DEF PutsBackOwn
  <2>9. leaked' = -1 => script' = OwnContext(frames', Len(frames'))
    BY <2>1, <2>4, <2>6
  <2> QED
    BY <2>8, <2>9 DEF ContextInv
<1>4. CASE Unwinds
  <2>1. PICK p \in 1 .. n : Kept(p - 1) /\ Unwound(p)
    BY <1>0, <1>4 DEF Unwinds
  <2>2. script' = script /\ Len(frames') = p - 1 /\ p - 1 \in 0 .. n
    <3>1. script' = script /\ p - 1 \in 0 .. n
      BY <1>1, <1>4 DEF Unwinds
    <3>2. frames' = SubSeq(frames, 1, p - 1)
      BY <2>1 DEF Unwound
    <3> QED
      BY <1>0, <3>1, <3>2, Shortened, Zenon
  <2>3. leaked' = IF \/ leaked >= p
                     \/ leaked = -1 /\ \E k \in p .. n : frames[k].kind \in Restoring
                  THEN p - 1
                  ELSE leaked
    BY <1>0, <2>1 DEF Unwound
  <2>4. \A k \in 1 .. p - 1 : Sound(k)' => Sound(k)
    BY <1>1, <2>2, <2>3 DEF Sound
  <2>5. \A k \in 1 .. p - 1 : frames'[k].kind \in Restoring /\ Sound(k)' => frames'[k].old = OwnContext(frames', k - 1)
    <3>1. p - 1 \in Nat
      BY <2>2
    <3> QED
      BY <2>1, <2>4, <3>1, StillPutsBack DEF ContextInv
  <2>6. ASSUME leaked' = -1
        PROVE  script = OwnContext(frames', p - 1)
    <3>1. leaked = -1 /\ \A k \in p .. n : frames[k].kind \notin Restoring
      BY <1>1, <2>3, <2>6
    <3>2. OwnContext(frames, n) = OwnContext(frames, p - 1)
      <4>1. \A k \in p - 1 + 1 .. n : frames[k].kind \notin Restoring
        BY <3>1
      <4> QED
        BY <1>1, <2>2, <4>1, OwnContextPlain
    <3>3. OwnContext(frames', p - 1) = OwnContext(frames, p - 1)
      BY <2>1, <2>2, OwnContextKept
    <3> QED
      BY <1>0, <3>1, <3>2, <3>3 DEF ContextInv
  <2> QED
    BY <2>2, <2>5, <2>6 DEF ContextInv, PutsBackOwn
<1>5. CASE Ends
  <2>1. /\ frames # <<>> /\ frames[n].kind \notin Restoring
        /\ Kept(n - 1) /\ Len(frames') = n - 1 /\ script' = script
        /\ leaked' = IF n <= leaked THEN n - 1 ELSE leaked
    BY <1>0, <1>5 DEF Ends
  <2>2. n \in Nat \ {0} /\ n - 1 \in Nat
    BY <1>0, <1>1, <2>1, FrontFrames
  <2>3. \A k \in 1 .. n - 1 : Sound(k)' => Sound(k)
    BY <1>1, <2>1 DEF Sound
  <2>4. \A k \in 1 .. n - 1 : frames'[k].kind \in Restoring /\ Sound(k)' => frames'[k].old = OwnContext(frames', k - 1)
    BY <2>1, <2>2, <2>3, StillPutsBack DEF ContextInv
  <2>5. OwnContext(frames, n) = OwnContext(frames, n - 1)
    BY <2>1, <2>2, OwnContextTop
  <2>6. OwnContext(frames', n - 1) = OwnContext(frames, n - 1)
    BY <2>1, <2>2, OwnContextKept
  <2>7. leaked' = -1 => leaked = -1
    BY <1>1, <2>1, <2>2
  <2>8. leaked' = -1 => script' = OwnContext(frames', n - 1)
    BY <1>0, <2>1, <2>5, <2>6, <2>7 DEF ContextInv
  <2> QED
    BY <2>1, <2>4, <2>8 DEF ContextInv, PutsBackOwn
<1>6. CASE Returns
  <2>1. /\ frames # <<>> /\ frames[n].kind \in Restoring
        /\ Kept(n - 1) /\ script' = frames[n].old
        /\ leaked' = IF n <= leaked THEN -1 ELSE leaked
        /\ \/ Len(frames') = n - 1
           \/ Len(frames') = n /\ frames'[n].kind = "require"
    BY <1>0, <1>6 DEF Returns
  <2>2. n \in Nat \ {0} /\ n - 1 \in Nat /\ n \in 1 .. Len(frames)
    BY <1>0, <1>1, <2>1, FrontFrames
  <2>3. \A k \in 1 .. n - 1 : Sound(k)' => Sound(k)
    BY <1>1, <2>1 DEF Sound
  <2>4. \A k \in 1 .. n - 1 : frames'[k].kind \in Restoring /\ Sound(k)' => frames'[k].old = OwnContext(frames', k - 1)
    BY <2>1, <2>2, <2>3, StillPutsBack DEF ContextInv
  <2>5. leaked' = -1 => Sound(n)
    BY <1>1, <2>1, <2>2 DEF Sound
  <2>6. leaked' = -1 => script' = OwnContext(frames, n - 1)
    BY <2>1, <2>2, <2>5 DEF ContextInv, PutsBackOwn
  <2>7. OwnContext(frames', n - 1) = OwnContext(frames, n - 1)
    BY <2>1, <2>2, OwnContextKept
  <2>8. CASE Len(frames') = n - 1
    BY <2>4, <2>6, <2>7, <2>8 DEF ContextInv, PutsBackOwn
  <2>9. CASE Len(frames') = n /\ frames'[n].kind = "require"
    <3>1. frames'[n].kind \notin Restoring
      BY <2>9 DEF Restoring
    <3>2. OwnContext(frames', n) = OwnContext(frames', n - 1)
      <4>1. PICK fs : fs = frames'
        OBVIOUS
      <4>2. OwnContext(fs, n) = OwnContext(fs, n - 1)
        BY <2>2, <3>1, <4>1, OwnContextTop
      <4> QED
        BY <4>1, <4>2
    <3>3. \A k \in 1 .. n : k \in 1 .. n - 1 \/ k = n
      BY <2>2
    <3>4. PutsBackOwn'
      BY <2>4, <2>9, <3>1, <3>3 DEF PutsBackOwn
    <3> QED
      BY <2>6, <2>7, <2>9, <3>2, <3>4 DEF ContextInv
  <2> QED
    BY <2>1, <2>8, <2>9
<1> QED
  BY <1>2, <1>3, <1>4, <1>5, <1>6 DEF ScriptStep

LEMMA PlaceIsFirst ==
    ASSUME NEW S, NEW seq \in Seq(S), NEW x
    PROVE  /\ Place(seq, x) \in 0 .. Len(seq)
           /\ Place(seq, x) > 0 => seq[Place(seq, x)] = x
           /\ \A i \in 1 .. Len(seq) : seq[i] = x => Place(seq, x) > 0 /\ Place(seq, x) <= i
<1>1. PICK I : I = {i \in 1 .. Len(seq) : seq[i] = x}
  OBVIOUS
<1>2. I \subseteq 1 .. Len(seq) /\ I \subseteq Nat /\ Len(seq) \in Nat
  BY <1>1, LenProperties
<1>3. PICK place : place = Place(seq, x)
  OBVIOUS
<1>4. I = {} => place = 0
  BY <1>1, <1>3 DEF Place, SelectInSeq
<1>5. I # {} => place = Min(I)
  BY <1>1, <1>3 DEF Place, SelectInSeq
<1>6. I # {} => Min(I) \in I /\ \A i \in I : Min(I) <= i
  <2>1. I # {} => \E n \in I : \A m \in I : n <= m
    BY <1>2, LeastMember
  <2> QED
    BY <2>1 DEF Min
<1> QED
  BY <1>1, <1>2, <1>3, <1>4, <1>5, <1>6

\* A file of the running script's directory is found before any other.
LEMMA OwnDirectoryFirst ==
    ASSUME NEW name, NEW f \in Files, NEW g \in Located(name, ScriptPatterns),
           f.root = script.dir, f.pattern = "?", f.name = name
    PROVE  g = f
<1>1. script # NIL
  BY ScriptFilesAssumption DEF NIL
<1>2. PICK paths : paths = SearchPaths
  OBVIOUS
<1>3. PICK S : paths \in Seq(S) /\ Len(paths) \in Nat \ {0} /\ paths[1] = script.dir
  <2>1. PICK Env : EnvPath \in Seq(Env)
    BY ScriptFilesAssumption
  <2>2. PICK T : T = Env \cup {Option, "cwd", "home", "localShare", "share", "executable", script.dir}
    OBVIOUS
  <2>3. EnvPath \in Seq(T)
    BY <2>1, <2>2, SeqDef
  <2>4. <<"cwd">> \in Seq(T) /\ <<"home", "localShare", "share", "executable">> \in Seq(T)
        /\ (IF Option = NoDirectory THEN <<>> ELSE <<Option>>) \in Seq(T)
    <3>1. \A a \in T : <<a>> \in Seq(T)
      OBVIOUS
    <3>2. \A a, b, c, d \in T : <<a, b, c, d>> \in Seq(T)
      OBVIOUS
    <3>3. <<>> \in Seq(T)
      OBVIOUS
    <3>4. "cwd" \in T /\ "home" \in T /\ "localShare" \in T /\ "share" \in T /\ "executable" \in T /\ Option \in T
      BY <2>2
    <3> QED
      BY <3>1, <3>2, <3>3, <3>4, Zenon
  <2>5. SearchPath \in Seq(T)
    BY <2>3, <2>4, ConcatProperties, Zenon DEF SearchPath
  <2>6. PICK path : path = SearchPath
    OBVIOUS
  <2>7. PICK first : first = <<script.dir>>
    OBVIOUS
  <2>8. first \in Seq(T) /\ Len(first) = 1 /\ first[1] = script.dir /\ path \in Seq(T) /\ Len(path) \in Nat
    BY <2>2, <2>5, <2>6, <2>7, LenProperties
  <2>9. paths = first \o path
    BY <1>1, <1>2, <2>6, <2>7 DEF SearchPaths
  <2>10. /\ first \o path \in Seq(T) /\ Len(first \o path) = Len(first) + Len(path)
         /\ \A i \in 1 .. Len(first) + Len(path) :
                (first \o path)[i] = IF i <= Len(first) THEN first[i] ELSE path[i - Len(first)]
    BY <2>8, ConcatProperties, Zenon
  <2>11. paths \in Seq(T) /\ Len(paths) = Len(first) + Len(path)
         /\ \A i \in 1 .. Len(first) + Len(path) :
                paths[i] = IF i <= Len(first) THEN first[i] ELSE path[i - Len(first)]
    BY <2>9, <2>10, Zenon
  <2>12. paths[1] = first[1]
    BY <2>8, <2>11
  <2> QED
    BY <2>8, <2>11, <2>12
<1>4. Place(paths, f.root) = 1
  BY <1>3, PlaceIsFirst
<1>5. PICK patterns : patterns = ScriptPatterns
  OBVIOUS
<1>6. patterns \in Seq({"?"}) /\ Len(patterns) = 1 /\ patterns[1] = "?"
  BY <1>5 DEF ScriptPatterns
<1>7. Place(patterns, "?") > 0
  BY <1>6, PlaceIsFirst
<1>8. /\ g \in Files /\ g.name = name /\ Place(paths, g.root) > 0 /\ Place(patterns, g.pattern) > 0
      /\ \/ Place(paths, g.root) < Place(paths, f.root)
         \/ g.root = f.root /\ Place(patterns, g.pattern) <= Place(patterns, f.pattern)
  BY <1>2, <1>4, <1>5, <1>7 DEF Located
<1>9. g.root = f.root
  BY <1>3, <1>4, <1>8, PlaceIsFirst
<1>10. g.pattern = "?"
  BY <1>6, <1>8, PlaceIsFirst
<1> QED
  BY <1>8, <1>9, <1>10, ScriptFilesAssumption

\* What the running calls tell of the modules.
ModuleKnown(k) ==
    /\ frames[k].kind \in {"require", "callback"} => loaded[frames[k].module] # 0
    /\ frames[k].kind \in {"module", "force"} => frames[k].run > 0
    /\ frames[k].kind = "force" => frames[k].module \in rerun
    /\ frames[k].kind = "module" /\ frames[k].module \notin rerun =>
          /\ loaded[frames[k].module] = 0
          /\ \A j \in 1 .. Len(frames) :
                j # k /\ frames[j].kind = "module" => frames[j].module # frames[k].module

ModulesInv == \A k \in 1 .. Len(frames) : ModuleKnown(k)

LEMMA FramesTyped ==
    ASSUME ScriptTypeOK, NEW k \in 1 .. Len(frames)
    PROVE  /\ frames[k] \in Frame
           /\ frames[k].kind \in {"require", "module", "force", "register", "callback"} =>
                  frames[k].module \in Modules
           /\ frames[k].kind \in Restoring => frames[k].run \in Nat
<1>1. frames[k] \in Frame
  BY ElementOfSeq DEF ScriptTypeOK
<1> QED
  BY <1>1 DEF Frame, Restoring

LEMMA FewerFrames ==
    ASSUME NEW n \in Nat, Kept(n), Len(frames') = n, Held, ModulesInv
    PROVE  ModulesInv'
<1>1. \A k \in 1 .. n : SameCall(frames[k], frames'[k]) /\ ModuleKnown(k) /\ k \in 1 .. Len(frames)
  BY DEF Kept, ModulesInv
<1>2. ASSUME NEW k \in 1 .. n
      PROVE  ModuleKnown(k)'
  <2>1. SameCall(frames[k], frames'[k]) /\ ModuleKnown(k)
    BY <1>1
  <2>2. loaded' = loaded /\ rerun \subseteq rerun'
    BY DEF Held
  <2>3. /\ frames'[k].kind = frames[k].kind
        /\ frames'[k].kind # "require" => frames'[k] = frames[k]
        /\ frames'[k].kind = "require" => frames'[k].module = frames[k].module
    BY <2>1 DEF SameCall
  <2>4. /\ frames'[k].kind \in {"require", "callback"} => loaded'[frames'[k].module] # 0
        /\ frames'[k].kind \in {"module", "force"} => frames'[k].run > 0
        /\ frames'[k].kind = "force" => frames'[k].module \in rerun'
    BY <2>1, <2>2, <2>3 DEF ModuleKnown
  <2>5. ASSUME frames'[k].kind = "module", frames'[k].module \notin rerun'
        PROVE  /\ loaded'[frames'[k].module] = 0
               /\ \A j \in 1 .. n :
                     j # k /\ frames'[j].kind = "module" => frames'[j].module # frames'[k].module
    <3>1. frames'[k] = frames[k] /\ frames[k].module \notin rerun
      BY <2>2, <2>3, <2>5
    <3>2. loaded[frames[k].module] = 0
          /\ \A j \in 1 .. Len(frames) :
                j # k /\ frames[j].kind = "module" => frames[j].module # frames[k].module
      BY <2>1, <2>5, <3>1 DEF ModuleKnown
    <3>3. \A j \in 1 .. n : frames'[j].kind = "module" => frames'[j] = frames[j] /\ j \in 1 .. Len(frames)
      BY <1>1 DEF SameCall
    <3> QED
      BY <2>2, <3>1, <3>2, <3>3
  <2> QED
    BY <2>4, <2>5 DEF ModuleKnown
<1> QED
  BY <1>2 DEF ModulesInv

LEMMA ModulesStep ==
    ASSUME ScriptTypeOK, ScriptTypeOK', ModulesInv, ScriptStep
    PROVE  ModulesInv'
<1>0. PICK n : n = Len(frames)
  OBVIOUS
<1>1. n \in Nat /\ Len(frames') \in Nat
  BY <1>0, LenProperties DEF ScriptTypeOK
<1>2. CASE Held /\ Stays
  BY <1>0, <1>1, <1>2, FewerFrames DEF Stays
<1>3. CASE Held /\ Unwinds
  <2>1. PICK p \in 1 .. n : Kept(p - 1) /\ frames' = SubSeq(frames, 1, p - 1)
    BY <1>0, <1>3 DEF Unwinds, Unwound
  <2>2. PICK m : m = p - 1
    OBVIOUS
  <2>3. m \in 0 .. n /\ m \in Nat /\ Kept(m)
    BY <1>1, <2>1, <2>2
  <2>4. Len(frames') = m
    BY <1>0, <2>1, <2>2, <2>3, Shortened, Zenon
  <2> QED
    BY <1>3, <2>3, <2>4, FewerFrames
<1>4. CASE Held /\ Ends
  <2>1. n # 0 /\ Kept(n - 1) /\ Len(frames') = n - 1
    BY <1>0, <1>4, FrontFrames DEF Ends
  <2>2. PICK m : m = n - 1
    OBVIOUS
  <2> QED
    BY <1>1, <1>4, <2>1, <2>2, FewerFrames
<1>5. CASE Held /\ Pushes /\ Promised
  <2>1. Kept(n) /\ Len(frames') = n + 1 /\ loaded' = loaded /\ rerun \subseteq rerun'
    BY <1>0, <1>5 DEF Held, Pushes
  <2>2. PICK f : f = frames'[n + 1]
    OBVIOUS
  <2>3. /\ f.kind = "require" => loaded[f.module] # 0
        /\ f.kind = "callback" =>
              /\ frames # <<>> /\ frames[n].kind = "require"
              /\ frames[n].module = f.module
        /\ f.kind \in {"module", "force"} => f.run > 0
        /\ f.kind = "force" => f.module \in rerun'
        /\ f.kind = "module" =>
              /\ loaded[f.module] = 0
              /\ \/ f.module \in rerun'
                 \/ \A k \in 1 .. n : ~(frames[k].kind = "module" /\ frames[k].module = f.module)
    BY <1>0, <1>5, <2>1, <2>2 DEF Promised
  <2>4. \A k \in 1 .. n : SameCall(frames[k], frames'[k]) /\ ModuleKnown(k)
    BY <1>0, <2>1 DEF Kept, ModulesInv
  <2>5. \A k \in 1 .. n + 1 : k \in 1 .. n \/ k = n + 1
    BY <1>1
  <2>6. f.kind = "callback" => loaded[f.module] # 0
    <3>1. f.kind = "callback" => n \in 1 .. n
      BY <1>0, <1>1, <2>3, FrontFrames
    <3> QED
      BY <2>3, <2>4, <3>1 DEF ModuleKnown
  <2>7. ModuleKnown(n + 1)'
    <3>1. /\ frames'[n + 1].kind \in {"require", "callback"} => loaded'[frames'[n + 1].module] # 0
          /\ frames'[n + 1].kind \in {"module", "force"} => frames'[n + 1].run > 0
          /\ frames'[n + 1].kind = "force" => frames'[n + 1].module \in rerun'
      BY <2>1, <2>2, <2>3, <2>6
    <3>2. ASSUME frames'[n + 1].kind = "module", frames'[n + 1].module \notin rerun'
          PROVE  /\ loaded'[frames'[n + 1].module] = 0
                 /\ \A j \in 1 .. n + 1 :
                       j # n + 1 /\ frames'[j].kind = "module" => frames'[j].module # frames'[n + 1].module
      <4>1. loaded[f.module] = 0
            /\ \A k \in 1 .. n : ~(frames[k].kind = "module" /\ frames[k].module = f.module)
        BY <2>2, <2>3, <3>2
      <4>2. \A j \in 1 .. n : frames'[j].kind = "module" => frames'[j] = frames[j]
        BY <2>4 DEF SameCall
      <4> QED
        BY <2>1, <2>2, <2>5, <4>1, <4>2
    <3> QED
      BY <2>1, <3>1, <3>2 DEF ModuleKnown
  <2>8. ASSUME NEW k \in 1 .. n
        PROVE  ModuleKnown(k)'
    <3>1. SameCall(frames[k], frames'[k]) /\ ModuleKnown(k)
      BY <2>4
    <3>2. /\ frames'[k].kind = frames[k].kind
          /\ frames'[k].kind # "require" => frames'[k] = frames[k]
          /\ frames'[k].kind = "require" => frames'[k].module = frames[k].module
      BY <3>1 DEF SameCall
    <3>3. /\ frames'[k].kind \in {"require", "callback"} => loaded'[frames'[k].module] # 0
          /\ frames'[k].kind \in {"module", "force"} => frames'[k].run > 0
          /\ frames'[k].kind = "force" => frames'[k].module \in rerun'
      BY <2>1, <3>1, <3>2 DEF ModuleKnown
    <3>4. ASSUME frames'[k].kind = "module", frames'[k].module \notin rerun'
          PROVE  /\ loaded'[frames'[k].module] = 0
                 /\ \A j \in 1 .. n + 1 :
                       j # k /\ frames'[j].kind = "module" => frames'[j].module # frames'[k].module
      <4>1. frames'[k] = frames[k] /\ frames[k].kind = "module" /\ frames[k].module \notin rerun
        BY <2>1, <3>2, <3>4
      <4>2. loaded[frames[k].module] = 0
            /\ \A j \in 1 .. n :
                  j # k /\ frames[j].kind = "module" => frames[j].module # frames[k].module
        BY <1>0, <3>1, <4>1 DEF ModuleKnown
      <4>3. \A j \in 1 .. n : frames'[j].kind = "module" => frames'[j] = frames[j]
        BY <2>4 DEF SameCall
      <4>4. f.kind = "module" => f.module # frames'[k].module
        BY <2>3, <3>4, <4>1
      <4> QED
        BY <2>1, <2>2, <2>5, <4>1, <4>2, <4>3, <4>4
    <3> QED
      BY <2>1, <3>3, <3>4 DEF ModuleKnown
  <2> QED
    BY <2>1, <2>5, <2>7, <2>8 DEF ModulesInv
<1>6. CASE Returns /\ NotesModule
  <2>1. /\ n \in Nat \ {0} /\ Kept(n - 1) /\ rerun' = rerun
        /\ \/ Len(frames') = n - 1
           \/ /\ Len(frames') = n /\ frames'[n].kind = "require"
              /\ frames[n].kind = "module" /\ frames'[n].module = frames[n].module
    BY <1>0, <1>6, FrontFrames DEF Returns, NotesModule
  <2>2. PICK f : f = frames[n]
    OBVIOUS
  <2>3. PICK value \in BOOLEAN : loaded' = Noted(f, value)
    BY <1>0, <1>6, <2>2 DEF NotesModule
  <2>4. ModuleKnown(n) /\ f.kind \in Restoring /\ n \in 1 .. Len(frames)
    BY <1>0, <1>6, <2>1, <2>2 DEF ModulesInv, Returns
  <2>5. f.kind \in {"module", "force"} => f.module \in Modules /\ f.run > 0
    BY <2>2, <2>4, FramesTyped DEF ModuleKnown
  <2>6. \A m \in Modules : loaded[m] # 0 => loaded'[m] # 0
    BY <2>3, <2>5 DEF Noted, ScriptTypeOK
  <2>7. f.kind = "module" => loaded'[f.module] # 0
    BY <2>3, <2>5 DEF Noted, ScriptTypeOK
  <2>8. \A m \in Modules : loaded'[m] # loaded[m] => f.kind \in {"module", "force"} /\ m = f.module
    BY <2>3, <2>5 DEF Noted, ScriptTypeOK
  <2>9. \A k \in 1 .. n - 1 : SameCall(frames[k], frames'[k]) /\ ModuleKnown(k) /\ k \in 1 .. Len(frames)
    BY <1>0, <2>1 DEF Kept, ModulesInv
  <2>10. \A j \in 1 .. Len(frames') : frames'[j].kind = "module" => j \in 1 .. n - 1 /\ frames'[j] = frames[j]
    <3>1. \A j \in 1 .. Len(frames') : j \in 1 .. n - 1 \/ (j = n /\ Len(frames') = n)
      BY <1>1, <2>1
    <3> QED
      BY <2>1, <2>9, <3>1 DEF SameCall
  <2>11. ASSUME NEW k \in 1 .. n - 1
         PROVE  ModuleKnown(k)'
    <3>1. SameCall(frames[k], frames'[k]) /\ ModuleKnown(k) /\ k \in 1 .. Len(frames)
      BY <2>9
    <3>2. /\ frames'[k].kind = frames[k].kind
          /\ frames'[k].kind # "require" => frames'[k] = frames[k]
          /\ frames'[k].kind = "require" => frames'[k].module = frames[k].module
      BY <3>1 DEF SameCall
    <3>3. frames'[k].kind \in {"require", "callback"} => loaded'[frames'[k].module] # 0
      <4>1. frames[k].kind \in {"require", "callback"} => frames[k].module \in Modules
        BY <3>1, FramesTyped
      <4>2. frames'[k].kind \in {"require", "callback"} => frames'[k].module = frames[k].module
        BY <3>2
      <4> QED
        BY <2>6, <3>1, <3>2, <4>1, <4>2 DEF ModuleKnown
    <3>4. /\ frames'[k].kind \in {"module", "force"} => frames'[k].run > 0
          /\ frames'[k].kind = "force" => frames'[k].module \in rerun'
      BY <2>1, <3>1, <3>2 DEF ModuleKnown
    <3>5. ASSUME frames'[k].kind = "module", frames'[k].module \notin rerun'
          PROVE  /\ loaded'[frames'[k].module] = 0
                 /\ \A j \in 1 .. Len(frames') :
                       j # k /\ frames'[j].kind = "module" => frames'[j].module # frames'[k].module
      <4>1. frames'[k] = frames[k] /\ frames[k].kind = "module" /\ frames[k].module \notin rerun
        BY <2>1, <3>2, <3>5
      <4>2. loaded[frames[k].module] = 0
            /\ \A j \in 1 .. n :
                  j # k /\ frames[j].kind = "module" => frames[j].module # frames[k].module
        BY <1>0, <3>1, <4>1 DEF ModuleKnown
      <4>3. frames[k].module \in Modules
        BY <3>1, <4>1, FramesTyped
      <4>4. f.kind \in {"module", "force"} => f.module # frames[k].module
        <5>1. f.kind = "force" => f.module \in rerun
          BY <2>2, <2>4 DEF ModuleKnown
        <5>2. f.kind = "module" => f.module # frames[k].module
          BY <1>1, <2>1, <2>2, <4>2
        <5> QED
          BY <4>1, <5>1, <5>2
      <4>5. loaded'[frames[k].module] = 0
        BY <2>8, <4>2, <4>3, <4>4
      <4>6. \A j \in 1 .. n - 1 : j \in 1 .. n
        BY <1>1
      <4> QED
        BY <2>10, <4>1, <4>2, <4>5, <4>6
    <3> QED
      BY <3>3, <3>4, <3>5 DEF ModuleKnown
  <2>12. CASE Len(frames') = n - 1
    BY <2>11, <2>12 DEF ModulesInv
  <2>13. CASE /\ Len(frames') = n /\ frames'[n].kind = "require"
              /\ frames[n].kind = "module" /\ frames'[n].module = frames[n].module
    <3>1. ModuleKnown(n)'
      BY <2>2, <2>7, <2>13 DEF ModuleKnown
    <3>2. \A k \in 1 .. n : k \in 1 .. n - 1 \/ k = n
      BY <1>1
    <3> QED
      BY <2>11, <2>13, <3>1, <3>2 DEF ModulesInv
  <2> QED
    BY <2>1, <2>12, <2>13
<1> QED
  BY <1>2, <1>3, <1>4, <1>5, <1>6 DEF ScriptStep

\* What nobody forces, and does not require itself, is made once.
LEMMA MadeOnceStep ==
    ASSUME ScriptTypeOK, ModulesInv, ScriptStep
    PROVE  \A m \in Modules \ rerun' : loaded[m] # 0 => loaded'[m] = loaded[m]
<1>1. CASE Held
  BY <1>1 DEF Held
<1>2. CASE Returns /\ NotesModule
  <2>1. PICK n, f : n = Len(frames) /\ f = frames[n]
    OBVIOUS
  <2>2. PICK value \in BOOLEAN : loaded' = Noted(f, value) /\ rerun' = rerun
    BY <1>2, <2>1 DEF NotesModule
  <2>3. n \in 1 .. Len(frames)
    BY <1>2, <2>1, FrontFrames DEF Returns
  <2>4. ModuleKnown(n) /\ (f.kind \in {"module", "force"} => f.module \in Modules)
    BY <2>1, <2>3, FramesTyped DEF ModulesInv
  <2>5. /\ f.kind = "force" => f.module \in rerun
        /\ f.kind = "module" /\ f.module \notin rerun => loaded[f.module] = 0
    BY <2>1, <2>4 DEF ModuleKnown
  <2> QED
    BY <2>2, <2>4, <2>5 DEF Noted, ScriptTypeOK
<1> QED
  BY <1>1, <1>2 DEF ScriptStep

LEMMA NearestStep ==
    ASSUME ScriptTypeOK, ScriptTypeOK', ScriptStep
    PROVE  \A f \in Files :
              /\ Len(frames') > Len(frames) /\ Last(frames').kind = "chunk"
              /\ f.root = script.dir /\ f.pattern = "?" /\ f.name = Last(frames').module
              => script' = f
<1> SUFFICES ASSUME NEW f \in Files, Len(frames') > Len(frames), Last(frames').kind = "chunk",
                    f.root = script.dir, f.pattern = "?", f.name = Last(frames').module
             PROVE  script' = f
  OBVIOUS
<1>1. Len(frames) \in Nat /\ Len(frames') \in Nat
  BY LenProperties DEF ScriptTypeOK
<1>2. ~Stays /\ ~Ends /\ ~Returns
  BY <1>1, FrontFrames DEF Stays, Ends, Returns
<1>3. ~Unwinds
  <2>1. SUFFICES ASSUME NEW p \in 1 .. Len(frames), frames' = SubSeq(frames, 1, p - 1)
                 PROVE  FALSE
    BY DEF Unwinds, Unwound
  <2>2. PICK m : m = p - 1
    OBVIOUS
  <2>3. m \in 0 .. Len(frames) /\ frames' = SubSeq(frames, 1, m)
    BY <1>1, <2>1, <2>2
  <2>4. Len(frames') = m
    BY <2>3, Shortened, Zenon
  <2> QED
    BY <1>1, <2>3, <2>4
<1>4. Pushes /\ Promised
  BY <1>2, <1>3 DEF ScriptStep
<1>5. PICK g : g = frames'[Len(frames')]
  OBVIOUS
<1>6. Last(frames') = g
  BY <1>5 DEF Last
<1>7. g.at \in Located(g.module, ScriptPatterns)
  BY <1>4, <1>5, <1>6 DEF Promised
<1>8. script' = g.at
  BY <1>4, <1>5, <1>6 DEF Pushes, Restoring
<1>9. g.at = f
  BY <1>6, <1>7, OwnDirectoryFirst
<1> QED
  BY <1>8, <1>9

ScriptInv == ScriptTypeOK /\ ContextInv /\ ModulesInv

LEMMA ScriptInvInit == ScriptInit => ScriptInv
<1> SUFFICES ASSUME ScriptInit
             PROVE  ScriptInv
  OBVIOUS
<1>1. frames = <<>> /\ Len(frames) = 0 /\ script = NIL
  BY DEF ScriptInit
<1>2. ScriptTypeOK
  BY <1>1 DEF ScriptInit, ScriptTypeOK, Context
<1>3. OwnContext(frames, 0) = NIL
  <2>1. RestoringAmong(frames, 0) = {}
    BY DEF RestoringAmong
  <2> QED
    BY <2>1 DEF OwnContext, ContextOf
<1> QED
  BY <1>1, <1>2, <1>3 DEF ScriptInv, ContextInv, PutsBackOwn, ModulesInv

LEMMA ScriptInvStep == ScriptInv /\ [ScriptNext]_scriptVars => ScriptInv' /\ ScriptStep
<1> SUFFICES ASSUME ScriptInv, [ScriptNext]_scriptVars
             PROVE  ScriptInv' /\ ScriptStep
  OBVIOUS
<1>1. ScriptTypeOK /\ ContextInv /\ ModulesInv
  BY DEF ScriptInv
<1>2. ScriptTypeOK' /\ ScriptStep
  BY <1>1, ScriptSteps DEF ScriptsStep
<1>3. ContextInv' /\ ModulesInv'
  BY <1>1, <1>2, ContextStep, ModulesStep
<1> QED
  BY <1>2, <1>3 DEF ScriptInv

\* Whatever errors are raised and caught, and however modules require each other, a script and
\* a callback run in the context of their own file until an error leaves one of them, and again
\* once a call around it has returned; a callback sees its module; a module that nobody forces
\* is made once; and a script finds the files next to it first (pmk_load.c:53-80;
\* callback.lua:29-45; _G.lua:57-67; premake.c:163-165).
THEOREM ScriptsInContext == ScriptSpec => ScriptsRunInContext
<1>1. ScriptInit => ScriptInv
  BY ScriptInvInit
<1>2. ScriptInv /\ [ScriptNext]_scriptVars => ScriptInv'
  BY ScriptInvStep
<1>3. ScriptInv => ContextIsOwn /\ CallbacksSeeModule
  <2>1. ASSUME ScriptInv
        PROVE  ContextIsOwn
    BY <2>1, LexicalIsOwn DEF ScriptInv, ContextInv, ContextIsOwn
  <2>2. ASSUME ScriptInv
        PROVE  CallbacksSeeModule
    <3>1. DOMAIN frames = 1 .. Len(frames)
      BY <2>2, LenProperties DEF ScriptInv, ScriptTypeOK
    <3> QED
      BY <2>2, <3>1 DEF ScriptInv, ModulesInv, ModuleKnown, CallbacksSeeModule
  <2> QED
    BY <2>1, <2>2
<1>4. ScriptInv /\ [ScriptNext]_scriptVars =>
          [\A m \in Modules \ rerun' : loaded[m] # 0 => loaded'[m] = loaded[m]]_scriptVars
  BY ScriptInvStep, MadeOnceStep DEF ScriptInv
<1>5. ScriptInv /\ ScriptInv' /\ [ScriptNext]_scriptVars =>
          [\A f \in Files :
              /\ Len(frames') > Len(frames) /\ Last(frames').kind = "chunk"
              /\ f.root = script.dir /\ f.pattern = "?" /\ f.name = Last(frames').module
              => script' = f]_scriptVars
  BY ScriptInvStep, NearestStep DEF ScriptInv
<1> QED
  BY <1>1, <1>2, <1>3, <1>4, <1>5, PTL
  DEF ScriptSpec, ScriptsRunInContext, ModulesMadeOnce, NearestFirst

-----------------------------------------------------------------------------
(***************************************************************************)
(* The command line.                                                       *)
(***************************************************************************)
\* The options that are given, after position i, if those after it are f.
AfterFrom(args, defs, f, i) ==
    IF i >= Len(args)
    THEN <<>>
    ELSE <<AllAt(args, defs, i + 1)>> \o f[AllAt(args, defs, i + 1).last]

ItemsOf(args, defs) == {AllAt(args, defs, i) : i \in 1 .. Len(args)}

IsCommandLine(args) == Len(args) \in Nat /\ \A i \in 1 .. Len(args) : Len(args[i]) \in {1, 2}

LEMMA AllIsChosen ==
    ASSUME NEW args, NEW defs
    PROVE  All(args, defs) =
               CHOOSE f : f = [i \in 0 .. Len(args) + 1 |-> AfterFrom(args, defs, f, i)]
  BY DEF All, AfterFrom

LEMMA LastAhead ==
    ASSUME NEW args, NEW defs, IsCommandLine(args), NEW i \in 0 .. Len(args) + 1, ~(i >= Len(args))
    PROVE  /\ AllAt(args, defs, i + 1).last \in i + 1 .. Len(args) + 1
           /\ AllAt(args, defs, i + 1) \in ItemsOf(args, defs)
<1>1. i + 1 \in 1 .. Len(args)
  BY DEF IsCommandLine
<1>2. PICK j : j = i + 1
  OBVIOUS
<1>3. AllAt(args, defs, j).last \in {j, j + 1}
  BY DEF AllAt
<1>4. AllAt(args, defs, j) \in ItemsOf(args, defs)
  BY <1>1, <1>2 DEF ItemsOf
<1> QED
  BY <1>1, <1>2, <1>3, <1>4 DEF IsCommandLine

LEMMA AfterTyped ==
    ASSUME NEW args, NEW defs, IsCommandLine(args), NEW i \in 0 .. Len(args) + 1, NEW f,
           ~(i >= Len(args)) => f[AllAt(args, defs, i + 1).last] \in Seq(ItemsOf(args, defs))
    PROVE  AfterFrom(args, defs, f, i) \in Seq(ItemsOf(args, defs))
<1>1. CASE i >= Len(args)
  BY <1>1 DEF AfterFrom
<1>2. CASE ~(i >= Len(args))
  <2>1. PICK a, rest : a = AllAt(args, defs, i + 1) /\ rest = f[AllAt(args, defs, i + 1).last]
    OBVIOUS
  <2>2. a \in ItemsOf(args, defs) /\ rest \in Seq(ItemsOf(args, defs))
    BY <1>2, <2>1, LastAhead
  <2>3. <<a>> \in Seq(ItemsOf(args, defs))
    BY <2>2
  <2>4. <<a>> \o rest \in Seq(ItemsOf(args, defs))
    BY <2>2, <2>3, ConcatProperties, Zenon
  <2> QED
    BY <1>2, <2>1, <2>4 DEF AfterFrom
<1> QED
  BY <1>1, <1>2

\* The recursion ends: there is a function as options.all() describes it.
LEMMA AllExists ==
    ASSUME NEW args, NEW defs, IsCommandLine(args)
    PROVE  \E f : f = [i \in 0 .. Len(args) + 1 |-> AfterFrom(args, defs, f, i)]
<1>0. PICK L : L = Len(args)
  OBVIOUS
<1>1. PICK S : S = Seq(ItemsOf(args, defs))
  OBVIOUS
<1> DEFINE Solves(f, n) ==
        /\ f \in [n .. L + 1 -> S]
        /\ \A i \in n .. L + 1 : f[i] = AfterFrom(args, defs, f, i)
           T == {n \in 0 .. L + 1 : ~\E f : Solves(f, n)}
<1>2. L \in Nat
  BY <1>0 DEF IsCommandLine
<1>3. ASSUME T # {}
      PROVE  FALSE
  <2>1. T \subseteq 0 .. L + 1 /\ L + 1 \in Nat
    BY <1>2
  <2>2. PICK n \in T : \A m \in T : m <= n
    <3> HIDE DEF T
    <3> QED
      BY <1>3, <2>1, GreatestNumber
  <2>3. n \in 0 .. L + 1 /\ ~\E f : Solves(f, n)
    OBVIOUS
  <2>4. n # L + 1
    <3>1. SUFFICES ASSUME n = L + 1
                   PROVE  FALSE
      OBVIOUS
    <3>2. PICK f : f = [i \in n .. L + 1 |-> <<>>]
      OBVIOUS
    <3>3. <<>> \in S
      BY <1>1
    <3>4. \A i \in n .. L + 1 : i >= Len(args)
      BY <1>0, <1>2, <3>1
    <3>5. \A i \in n .. L + 1 : AfterFrom(args, defs, f, i) = <<>>
      BY <3>4 DEF AfterFrom
    <3>6. Solves(f, n)
      BY <3>2, <3>3, <3>5
    <3> QED
      BY <2>3, <3>6
  <2>5. n + 1 \in 0 .. L + 1 /\ n + 1 \notin T
    BY <1>2, <2>2, <2>3, <2>4
  <2>6. PICK f : Solves(f, n + 1)
    BY <2>5
  <2>7. PICK g : g = [i \in n .. L + 1 |-> IF i = n THEN AfterFrom(args, defs, f, n) ELSE f[i]]
    OBVIOUS
  <2>8. \A i \in n + 1 .. L + 1 : g[i] = f[i] /\ f[i] \in S /\ i \in n .. L + 1
    BY <1>2, <2>3, <2>6, <2>7
  <2>9. \A i \in n .. L + 1 : ~(i >= Len(args)) => AllAt(args, defs, i + 1).last \in i + 1 .. L + 1
    BY <1>0, <1>2, <2>3, LastAhead
  <2>10. \A i \in n .. L + 1 : ~(i >= Len(args)) =>
             /\ AllAt(args, defs, i + 1).last \in n + 1 .. L + 1
             /\ AllAt(args, defs, i + 1).last \in n .. L + 1
    BY <1>2, <2>3, <2>9
  <2>11. \A i \in n .. L + 1 : AfterFrom(args, defs, g, i) = AfterFrom(args, defs, f, i)
    BY <2>8, <2>10 DEF AfterFrom
  <2>12. AfterFrom(args, defs, f, n) \in S
    <3>1. ~(n >= Len(args)) => f[AllAt(args, defs, n + 1).last] \in Seq(ItemsOf(args, defs))
      <4>1. n \in n .. L + 1
        BY <1>2, <2>3
      <4> QED
        BY <1>1, <2>8, <2>10, <4>1
    <3> QED
      BY <1>0, <1>1, <2>3, <3>1, AfterTyped
  <2>13. \A i \in n .. L + 1 : i = n \/ i \in n + 1 .. L + 1
    BY <1>2, <2>3
  <2>14. g \in [n .. L + 1 -> S]
    BY <2>7, <2>8, <2>12, <2>13
  <2>15. \A i \in n .. L + 1 : g[i] = AfterFrom(args, defs, g, i)
    <3>1. n \in n .. L + 1 /\ g[n] = AfterFrom(args, defs, f, n)
      BY <1>2, <2>3, <2>7
    <3>2. \A i \in n + 1 .. L + 1 : g[i] = AfterFrom(args, defs, f, i)
      BY <2>6, <2>8
    <3> QED
      BY <2>11, <2>13, <3>1, <3>2
  <2> QED
    BY <2>3, <2>14, <2>15
<1>4. \E f : Solves(f, 0)
  BY <1>2, <1>3
<1>5. PICK f : Solves(f, 0)
  BY <1>4
<1>6. f = [i \in 0 .. Len(args) + 1 |-> AfterFrom(args, defs, f, i)]
  BY <1>0, <1>5
<1> QED
  BY <1>6

LEMMA AllUnfolds ==
    ASSUME NEW args, NEW defs, IsCommandLine(args)
    PROVE  \A i \in 0 .. Len(args) + 1 :
               /\ All(args, defs)[i] = AfterFrom(args, defs, All(args, defs), i)
               /\ All(args, defs)[i] \in Seq(ItemsOf(args, defs))
<1>1. PICK f : f = All(args, defs)
  OBVIOUS
<1>2. f = [i \in 0 .. Len(args) + 1 |-> AfterFrom(args, defs, f, i)]
  BY <1>1, AllExists, AllIsChosen
<1>3. \A i \in 0 .. Len(args) + 1 : f[i] = AfterFrom(args, defs, f, i)
  BY <1>2
<1> DEFINE T == {n \in 0 .. Len(args) + 1 : f[n] \notin Seq(ItemsOf(args, defs))}
<1>4. ASSUME T # {}
      PROVE  FALSE
  <2>1. T \subseteq 0 .. Len(args) + 1 /\ Len(args) + 1 \in Nat
    BY DEF IsCommandLine
  <2>2. PICK n \in T : \A m \in T : m <= n
    <3> HIDE DEF T
    <3> QED
      BY <1>4, <2>1, GreatestNumber
  <2>3. n \in 0 .. Len(args) + 1 /\ f[n] \notin Seq(ItemsOf(args, defs))
    OBVIOUS
  <2>4. ASSUME ~(n >= Len(args))
        PROVE  f[AllAt(args, defs, n + 1).last] \in Seq(ItemsOf(args, defs))
    <3>1. PICK m : m = AllAt(args, defs, n + 1).last
      OBVIOUS
    <3>2. m \in n + 1 .. Len(args) + 1
      BY <2>3, <2>4, <3>1, LastAhead
    <3>3. m \in 0 .. Len(args) + 1 /\ ~(m <= n)
      BY <2>1, <2>3, <3>2
    <3> QED
      BY <2>2, <3>1, <3>3
  <2>5. AfterFrom(args, defs, f, n) \in Seq(ItemsOf(args, defs))
    BY <2>3, <2>4, AfterTyped
  <2> QED
    BY <1>3, <2>3, <2>5
<1> QED
  BY <1>1, <1>3, <1>4

LEMMA OneBefore ==
    ASSUME NEW S, NEW s \in Seq(S), NEW a \in S
    PROVE  LET t == <<a>> \o s
           IN  Len(t) = Len(s) + 1 /\ t[1] = a /\ \A k \in 1 .. Len(s) : t[k + 1] = s[k]
<1>1. PICK one : one = <<a>>
  OBVIOUS
<1>2. one \in Seq(S) /\ Len(one) = 1 /\ one[1] = a /\ Len(s) \in Nat
  BY <1>1, LenProperties
<1>3. /\ one \o s \in Seq(S) /\ Len(one \o s) = Len(one) + Len(s)
      /\ \A k \in 1 .. Len(one) + Len(s) :
             (one \o s)[k] = IF k <= Len(one) THEN one[k] ELSE s[k - Len(one)]
  BY <1>2, ConcatProperties, Zenon
<1>4. PICK t : t = one \o s
  OBVIOUS
<1>5. \A k \in 1 .. 1 + Len(s) : t[k] = IF k <= 1 THEN one[k] ELSE s[k - 1]
  BY <1>2, <1>3, <1>4, Zenon
<1>6. \A k \in 1 .. Len(s) : t[k + 1] = s[k]
  BY <1>2, <1>5
<1>7. t[1] = a
  BY <1>2, <1>5
<1> QED
  BY <1>1, <1>2, <1>3, <1>4, <1>6, <1>7

LEMMA NoOptions ==
    ASSUME NEW args, NEW defs, IsCommandLine(args), NEW i \in 0 .. Len(args) + 1, i >= Len(args)
    PROVE  All(args, defs)[i] = <<>>
  BY AllUnfolds DEF AfterFrom

\* The options from a position on are the one there and those after it.
GoesOn(args, defs, i, a, all, rest) ==
    /\ IsCommandLine(args) /\ i \in 0 .. Len(args) + 1 /\ ~(i >= Len(args))
    /\ a = AllAt(args, defs, i + 1) /\ all = All(args, defs)[i] /\ rest = All(args, defs)[a.last]

IsSplit(a, all, rest) ==
    /\ Len(rest) \in Nat
    /\ Len(all) = Len(rest) + 1 /\ all[1] = a
    /\ \A k \in 1 .. Len(rest) : all[k + 1] = rest[k]
    /\ all = <<a>> \o rest

LEMMA RestOfOptions ==
    ASSUME NEW args, NEW defs, NEW i, NEW a, NEW all, NEW rest, GoesOn(args, defs, i, a, all, rest)
    PROVE  a.last \in i + 1 .. Len(args) + 1 /\ IsSplit(a, all, rest)
<1>0. /\ IsCommandLine(args) /\ i \in 0 .. Len(args) + 1 /\ ~(i >= Len(args))
      /\ a = AllAt(args, defs, i + 1) /\ all = All(args, defs)[i] /\ rest = All(args, defs)[a.last]
  BY DEF GoesOn
<1>1. all = AfterFrom(args, defs, All(args, defs), i)
  BY <1>0, AllUnfolds
<1>2. a.last \in i + 1 .. Len(args) + 1 /\ a \in ItemsOf(args, defs)
  BY <1>0, LastAhead
<1>3. a.last \in 0 .. Len(args) + 1
  BY <1>0, <1>2 DEF IsCommandLine
<1>4. rest \in Seq(ItemsOf(args, defs))
  BY <1>0, <1>3, AllUnfolds
<1>5. all = <<a>> \o rest
  BY <1>0, <1>1 DEF AfterFrom
<1>6. Len(all) = Len(rest) + 1 /\ all[1] = a /\ \A k \in 1 .. Len(rest) : all[k + 1] = rest[k]
  BY <1>2, <1>4, <1>5, OneBefore
<1>7. Len(rest) \in Nat
  BY <1>4, LenProperties
<1> QED
  BY <1>2, <1>5, <1>6, <1>7 DEF IsSplit

\* Which arguments are options is settled one after the other.
ReadUpTo(args, defs, n, places) ==
    /\ places \subseteq 1 .. n
    /\ \A i \in 1 .. n : i \in places <=> ~(i - 1 \in places /\ Wants(args, defs, i - 1))

LEMMA OptionPlacesExist ==
    ASSUME NEW args, NEW defs, IsCommandLine(args)
    PROVE  /\ OptionPlaces(args, defs) \subseteq 1 .. Len(args)
           /\ AreOptions(args, defs, OptionPlaces(args, defs))
<1>0. DOMAIN args = 1 .. Len(args) /\ Len(args) \in Nat
  BY DEF IsCommandLine
<1> DEFINE T == {n \in 0 .. Len(args) : ~ \E places : ReadUpTo(args, defs, n, places)}
<1>1. ASSUME T # {}
      PROVE  FALSE
  <2>1. T \subseteq Nat
    BY <1>0
  <2>2. PICK n \in T : \A m \in T : n <= m
    <3> HIDE DEF T
    <3> QED
      BY <1>1, <2>1, LeastMember
  <2>3. n \in 0 .. Len(args) /\ ~ \E places : ReadUpTo(args, defs, n, places)
    OBVIOUS
  <2>4. n # 0
    <3>1. ReadUpTo(args, defs, 0, {})
      BY DEF ReadUpTo
    <3> QED
      BY <2>3, <3>1
  <2>5. n - 1 \in 0 .. Len(args) /\ n - 1 \notin T
    BY <1>0, <2>1, <2>2, <2>3, <2>4
  <2>6. PICK before : ReadUpTo(args, defs, n - 1, before)
    BY <2>5
  <2> DEFINE isOption == ~(n - 1 \in before /\ Wants(args, defs, n - 1))
             now == before \cup {i \in {n} : isOption}
  <2>7. now \subseteq 1 .. n
    <3>1. n \in 1 .. n /\ 1 .. n - 1 \subseteq 1 .. n
      BY <1>0, <2>3, <2>4
    <3> QED
      BY <2>6, <3>1 DEF ReadUpTo
  <2>8. \A i \in 1 .. n : i \in 1 .. n - 1 \/ i = n
    BY <1>0, <2>3
  <2>9. n \notin before /\ \A i \in 1 .. n - 1 : i # n /\ i - 1 # n
    BY <1>0, <2>3, <2>6 DEF ReadUpTo
  <2>10. \A i \in 1 .. n - 1 : (i \in now <=> i \in before) /\ (i - 1 \in now <=> i - 1 \in before)
    BY <2>9
  <2>11. n \in now <=> isOption
    BY <2>9
  <2>12. n - 1 \in now <=> n - 1 \in before
    BY <1>0, <2>3
  <2>13. \A i \in 1 .. n - 1 : i \in before <=> ~(i - 1 \in before /\ Wants(args, defs, i - 1))
    BY <2>6 DEF ReadUpTo
  <2> HIDE DEF now
  <2>14. \A i \in 1 .. n : i \in now <=> ~(i - 1 \in now /\ Wants(args, defs, i - 1))
    BY <2>8, <2>10, <2>11, <2>12, <2>13
  <2>15. ReadUpTo(args, defs, n, now)
    BY <2>7, <2>14 DEF ReadUpTo
  <2> QED
    BY <2>3, <2>15
<1>2. Len(args) \in 0 .. Len(args) /\ Len(args) \notin T
  BY <1>0, <1>1
<1>3. PICK places : ReadUpTo(args, defs, Len(args), places)
  BY <1>2
<1>4. places \in SUBSET (DOMAIN args) /\ AreOptions(args, defs, places)
  BY <1>0, <1>3 DEF ReadUpTo, AreOptions
<1>5. OptionPlaces(args, defs) \in SUBSET (DOMAIN args) /\ AreOptions(args, defs, OptionPlaces(args, defs))
  BY <1>4 DEF OptionPlaces
<1> QED
  BY <1>0, <1>5

\* An option among those that options.all() returns, and the value of its last occurrence; the
\* same for where it is given after a position.
IsThere(all, t) == \E k \in 1 .. Len(all) : all[k].trigger = t

IsLast(all, t, v) ==
    \E k \in 1 .. Len(all) :
        /\ all[k].trigger = t /\ all[k].value = v
        /\ \A j \in 1 .. Len(all) : j > k => all[j].trigger # t

ValueGiven(args, i) == IF Len(args[i]) = 2 THEN <<args[i][2]>> ELSE ArgumentAt(args, i + 1)

IsGiven(args, places, i, t) == \E p \in places : p > i /\ args[p][1] = t

IsGivenLast(args, places, i, t, v) ==
    \E p \in places :
        /\ p > i /\ args[p][1] = t /\ v = ValueGiven(args, p)
        /\ \A q \in places : q > p => args[q][1] # t

LEMMA GreatestIsMax ==
    ASSUME NEW S, S \subseteq Nat, NEW n \in S, \A m \in S : ~(m > n)
    PROVE  Max(S) = n
<1>1. \A m \in S : n >= m
  OBVIOUS
<1>2. Max(S) \in S /\ \A m \in S : Max(S) >= m
  BY <1>1 DEF Max
<1>3. PICK x : x = Max(S)
  OBVIOUS
<1>4. x \in Nat /\ n \in Nat /\ x >= n /\ n >= x
  BY <1>1, <1>2, <1>3
<1> QED
  BY <1>3, <1>4

\* A walk that stands before an option goes on before an option, past this one and its value only.
LEMMA NextOption ==
    ASSUME NEW args, NEW defs, IsCommandLine(args), NEW places, places \subseteq 1 .. Len(args),
           AreOptions(args, defs, places),
           NEW n \in 0 .. Len(args) + 1, ~(n >= Len(args)), n + 1 \in places
    PROVE  LET m == AllAt(args, defs, n + 1).last
           IN  /\ m \in n + 1 .. Len(args) + 1
               /\ m >= Len(args) \/ m + 1 \in places
               /\ \A p \in places : p > n <=> p = n + 1 \/ p > m
<1>0. DOMAIN args = 1 .. Len(args) /\ Len(args) \in Nat
  BY DEF IsCommandLine
<1>1. \A i \in 1 .. Len(args) : i \in places <=> ~(i - 1 \in places /\ Wants(args, defs, i - 1))
  BY <1>0 DEF AreOptions
<1>2. PICK m : m = AllAt(args, defs, n + 1).last
  OBVIOUS
<1>3. m = IF Wants(args, defs, n + 1) THEN n + 2 ELSE n + 1
  <2>1. Len(args[n + 1]) \in {1, 2}
    BY <1>0 DEF IsCommandLine
  <2>2. (n + 1) + 1 = n + 2
    BY <1>0
  <2> QED
    BY <1>2, <2>1, <2>2 DEF AllAt, Wants
<1>4. (n + 2) - 1 = n + 1 /\ (n + 3) - 1 = n + 2
  BY <1>0
<1>5. n + 2 <= Len(args) => (n + 2 \in places <=> ~Wants(args, defs, n + 1))
  BY <1>0, <1>1, <1>4
<1>6. n + 3 <= Len(args) /\ n + 2 \notin places => n + 3 \in places
  BY <1>0, <1>1, <1>4
<1>7. \A p \in places : p \in 1 .. Len(args)
  OBVIOUS
<1>8. CASE Wants(args, defs, n + 1)
  <2>1. m = n + 2 /\ n + 2 \notin places
    BY <1>0, <1>3, <1>5, <1>7, <1>8
  <2> QED
    BY <1>0, <1>2, <1>6, <1>7, <2>1
<1>9. CASE ~Wants(args, defs, n + 1)
  <2>1. m = n + 1
    BY <1>3, <1>9
  <2> QED
    BY <1>0, <1>2, <1>5, <1>7, <1>9, <2>1
<1> QED
  BY <1>8, <1>9

LEMMA OneMoreOption ==
    ASSUME NEW a, NEW all, NEW rest, IsSplit(a, all, rest), NEW t
    PROVE  /\ IsThere(all, t) <=> a.trigger = t \/ IsThere(rest, t)
           /\ \A v : IsLast(all, t, v) <=>
                        IsLast(rest, t, v) \/ (~IsThere(rest, t) /\ a.trigger = t /\ a.value = v)
<1>1. /\ Len(rest) \in Nat /\ Len(all) = Len(rest) + 1 /\ all[1] = a
      /\ \A k \in 1 .. Len(rest) : all[k + 1] = rest[k]
  BY DEF IsSplit
<1>2. 1 \in 1 .. Len(all) /\ \A k \in 1 .. Len(rest) : k + 1 \in 1 .. Len(all)
  BY <1>1
<1>3. \A k \in 1 .. Len(all) : k = 1 \/ (k - 1 \in 1 .. Len(rest) /\ all[k] = rest[k - 1])
  <2>1. \A k \in 1 .. Len(all) : k = 1 \/ (k - 1 \in 1 .. Len(rest) /\ (k - 1) + 1 = k)
    BY <1>1
  <2> QED
    BY <1>1, <2>1
<1>4. IsThere(all, t) <=> a.trigger = t \/ IsThere(rest, t)
  BY <1>1, <1>2, <1>3 DEF IsThere
<1>5. ASSUME NEW v, IsLast(rest, t, v)
      PROVE  IsLast(all, t, v)
  <2>1. PICK k \in 1 .. Len(rest) : /\ rest[k].trigger = t /\ rest[k].value = v
                                    /\ \A j \in 1 .. Len(rest) : j > k => rest[j].trigger # t
    BY <1>5 DEF IsLast
  <2>2. k + 1 \in 1 .. Len(all) /\ all[k + 1] = rest[k]
    BY <1>1, <1>2, <2>1
  <2>3. \A j \in 1 .. Len(all) : j > k + 1 => all[j].trigger # t
    <3>1. \A j \in 1 .. Len(all) : j > k + 1 => j # 1 /\ j - 1 > k
      BY <1>1, <2>1
    <3> QED
      BY <1>3, <2>1, <3>1
  <2> QED
    BY <2>1, <2>2, <2>3 DEF IsLast
<1>6. ASSUME NEW v, ~IsThere(rest, t), a.trigger = t, a.value = v
      PROVE  IsLast(all, t, v)
  <2>1. \A j \in 1 .. Len(all) : j > 1 => all[j].trigger # t
    <3>1. \A j \in 1 .. Len(all) : j > 1 => j # 1
      OBVIOUS
    <3> QED
      BY <1>3, <1>6, <3>1 DEF IsThere
  <2> QED
    BY <1>1, <1>2, <1>6, <2>1 DEF IsLast
<1>7. ASSUME NEW v, IsLast(all, t, v)
      PROVE  IsLast(rest, t, v) \/ (~IsThere(rest, t) /\ a.trigger = t /\ a.value = v)
  <2>1. PICK k \in 1 .. Len(all) : /\ all[k].trigger = t /\ all[k].value = v
                                   /\ \A j \in 1 .. Len(all) : j > k => all[j].trigger # t
    BY <1>7 DEF IsLast
  <2>2. \A j \in 1 .. Len(rest) : j + 1 > k => rest[j].trigger # t
    BY <1>1, <1>2, <2>1
  <2>3. CASE k = 1
    <3>1. \A j \in 1 .. Len(rest) : j + 1 > 1
      BY <1>1
    <3> QED
      BY <1>1, <2>1, <2>2, <2>3, <3>1 DEF IsThere
  <2>4. CASE k # 1
    <3>1. k - 1 \in 1 .. Len(rest) /\ all[k] = rest[k - 1]
      BY <1>3, <2>1, <2>4
    <3>2. \A j \in 1 .. Len(rest) : j > k - 1 => j + 1 > k
      BY <1>1, <2>1
    <3>3. IsLast(rest, t, v)
      BY <2>1, <2>2, <3>1, <3>2 DEF IsLast
    <3> QED
      BY <3>3
  <2> QED
    BY <2>3, <2>4
<1> QED
  BY <1>4, <1>5, <1>6, <1>7

LEMMA OneMorePlace ==
    ASSUME NEW args, NEW places, places \subseteq Nat, NEW n \in Nat, NEW m \in Nat, n + 1 <= m, n + 1 \in places,
           \A p \in places : p > n <=> p = n + 1 \/ p > m,
           NEW t
    PROVE  /\ IsGiven(args, places, n, t) <=> args[n + 1][1] = t \/ IsGiven(args, places, m, t)
           /\ \A v : IsGivenLast(args, places, n, t, v) <=>
                        \/ IsGivenLast(args, places, m, t, v)
                        \/ ~IsGiven(args, places, m, t) /\ args[n + 1][1] = t /\ v = ValueGiven(args, n + 1)
<1>1. \A p \in places : p > m => p > n
  OBVIOUS
<1>2. \A p \in places : p > n => p = n + 1 \/ p > m
  OBVIOUS
<1>3. n + 1 > n
  OBVIOUS
<1>4. \A p \in places : p > n + 1 => p > m
  <2>1. \A p \in places : p > n + 1 => p > n /\ p # n + 1
    OBVIOUS
  <2> QED
    BY <1>2, <2>1
<1>5. IsGiven(args, places, n, t) <=> args[n + 1][1] = t \/ IsGiven(args, places, m, t)
  BY <1>1, <1>2, <1>3 DEF IsGiven
<1>6. ASSUME NEW v, IsGivenLast(args, places, m, t, v)
      PROVE  IsGivenLast(args, places, n, t, v)
  BY <1>1, <1>6 DEF IsGivenLast
<1>7. ASSUME NEW v, ~IsGiven(args, places, m, t), args[n + 1][1] = t, v = ValueGiven(args, n + 1)
      PROVE  IsGivenLast(args, places, n, t, v)
  BY <1>3, <1>4, <1>7 DEF IsGivenLast, IsGiven
<1>8. ASSUME NEW v, IsGivenLast(args, places, n, t, v)
      PROVE  \/ IsGivenLast(args, places, m, t, v)
             \/ ~IsGiven(args, places, m, t) /\ args[n + 1][1] = t /\ v = ValueGiven(args, n + 1)
  <2>1. PICK p \in places : /\ p > n /\ args[p][1] = t /\ v = ValueGiven(args, p)
                            /\ \A q \in places : q > p => args[q][1] # t
    BY <1>8 DEF IsGivenLast
  <2>2. CASE p > m
    BY <2>1, <2>2 DEF IsGivenLast
  <2>3. CASE p = n + 1
    <3>1. \A q \in places : q > m => q > p
      BY <2>3
    <3> QED
      BY <2>1, <2>3, <3>1 DEF IsGiven
  <2> QED
    BY <1>2, <2>1, <2>2, <2>3
<1> QED
  BY <1>5, <1>6, <1>7, <1>8

Agree(all, args, places, n, t) ==
    /\ IsThere(all, t) <=> IsGiven(args, places, n, t)
    /\ \A v : IsLast(all, t, v) <=> IsGivenLast(args, places, n, t, v)

LEMMA LastValueMeant ==
    ASSUME NEW args, NEW defs, IsCommandLine(args), NEW places, places \subseteq 1 .. Len(args),
           AreOptions(args, defs, places), NEW t
    PROVE  \A n \in 0 .. Len(args) + 1 :
               n >= Len(args) \/ n + 1 \in places => Agree(All(args, defs)[n], args, places, n, t)
<1> DEFINE T == {n \in 0 .. Len(args) + 1 :
                    (n >= Len(args) \/ n + 1 \in places) /\ ~Agree(All(args, defs)[n], args, places, n, t)}
<1>0. Len(args) \in Nat
  BY DEF IsCommandLine
<1>1. ASSUME T # {}
      PROVE  FALSE
  <2>1. T \subseteq 0 .. Len(args) + 1 /\ Len(args) + 1 \in Nat
    BY <1>0
  <2>2. PICK n \in T : \A m \in T : m <= n
    <3> HIDE DEF T
    <3> QED
      BY <1>1, <2>1, GreatestNumber
  <2>3. /\ n \in 0 .. Len(args) + 1 /\ (n >= Len(args) \/ n + 1 \in places)
        /\ ~Agree(All(args, defs)[n], args, places, n, t)
    OBVIOUS
  <2> HIDE DEF T
  <2>4. CASE n >= Len(args)
    <3>1. All(args, defs)[n] = <<>>
      BY <2>3, <2>4, NoOptions
    <3>2. \A p \in places : ~(p > n)
      BY <1>0, <2>3, <2>4
    <3>3. Len(<<>>) = 0
      OBVIOUS
    <3>4. Agree(<<>>, args, places, n, t)
      BY <3>2, <3>3 DEF Agree, IsThere, IsLast, IsGiven, IsGivenLast
    <3> QED
      BY <2>3, <3>1, <3>4
  <2>5. CASE ~(n >= Len(args))
    <3>1. PICK a, all, rest : /\ a = AllAt(args, defs, n + 1) /\ all = All(args, defs)[n]
                              /\ rest = All(args, defs)[a.last]
      OBVIOUS
    <3>2. n + 1 \in places /\ n + 1 \in 1 .. Len(args)
      BY <2>3, <2>5
    <3>3. PICK m : m = a.last
      OBVIOUS
    <3>4. /\ m \in n + 1 .. Len(args) + 1
          /\ m >= Len(args) \/ m + 1 \in places
          /\ \A p \in places : p > n <=> p = n + 1 \/ p > m
      BY <2>3, <2>5, <3>1, <3>2, <3>3, NextOption
    <3>5. IsSplit(a, all, rest)
      <4>1. n \in 0 .. Len(args) + 1
        BY <2>3
      <4>2. GoesOn(args, defs, n, a, all, rest)
        BY <2>5, <3>1, <4>1 DEF GoesOn
      <4> QED
        BY <4>2, RestOfOptions, Zenon
    <3>6. Agree(rest, args, places, m, t)
      <4>1. m \in 0 .. Len(args) + 1 /\ ~(m <= n)
        BY <1>0, <2>3, <3>4
      <4>2. m \notin T
        BY <2>2, <4>1
      <4> QED
        BY <3>1, <3>3, <3>4, <4>1, <4>2 DEF T
    <3>7. a.trigger = args[n + 1][1] /\ a.value = ValueGiven(args, n + 1)
      BY <3>1 DEF AllAt, ValueGiven
    <3>8. n \in Nat /\ m \in Nat /\ n + 1 <= m /\ places \subseteq Nat
      BY <1>0, <2>3, <3>4
    <3>9. /\ IsThere(all, t) <=> a.trigger = t \/ IsThere(rest, t)
          /\ \A v : IsLast(all, t, v) <=>
                       IsLast(rest, t, v) \/ (~IsThere(rest, t) /\ a.trigger = t /\ a.value = v)
      BY <3>5, OneMoreOption
    <3>10. /\ IsGiven(args, places, n, t) <=> args[n + 1][1] = t \/ IsGiven(args, places, m, t)
           /\ \A v : IsGivenLast(args, places, n, t, v) <=>
                        \/ IsGivenLast(args, places, m, t, v)
                        \/ ~IsGiven(args, places, m, t) /\ args[n + 1][1] = t /\ v = ValueGiven(args, n + 1)
      BY <3>2, <3>4, <3>8, OneMorePlace
    <3>11. Agree(all, args, places, n, t)
      BY <3>6, <3>7, <3>9, <3>10 DEF Agree
    <3> QED
      BY <2>3, <3>1, <3>11
  <2> QED
    BY <2>4, <2>5
<1> QED
  BY <1>1

\* What is parsed is what the command line means.
LEMMA ParsedIsMeant ==
    ASSUME NEW args, NEW defs, IsCommandLine(args)
    PROVE  Parsed(args, defs) = [t \in {x \in Triggers : IsDefined(defs, x)} |-> ValueMeant(args, defs, t)]
<1>0. DOMAIN args = 1 .. Len(args) /\ Len(args) \in Nat /\ 0 \in 0 .. Len(args) + 1
  BY DEF IsCommandLine
<1>1. PICK all, places : all = All(args, defs)[0] /\ places = OptionPlaces(args, defs)
  OBVIOUS
<1>2. places \subseteq 1 .. Len(args) /\ AreOptions(args, defs, places)
  BY <1>1, OptionPlacesExist
<1>3. all \in Seq(ItemsOf(args, defs))
  BY <1>0, <1>1, AllUnfolds
<1>4. DOMAIN all = 1 .. Len(all) /\ Len(all) \in Nat
  BY <1>3, LenProperties
<1>5. 0 >= Len(args) \/ 0 + 1 \in places
  <2>1. Len(args) # 0 => 1 \in 1 .. Len(args) /\ 1 - 1 \notin places
    BY <1>0, <1>2
  <2> QED
    BY <1>0, <1>2, <2>1 DEF AreOptions
<1>6. ASSUME NEW t
      PROVE  (LET given == {k \in DOMAIN all : all[k].trigger = t}
              IN  IF given = {} THEN NOVALUE ELSE all[Max(given)].value) = ValueMeant(args, defs, t)
  <2>1. Agree(all, args, places, 0, t)
    BY <1>0, <1>1, <1>2, <1>5, LastValueMeant
  <2>2. PICK given, said : /\ given = {k \in DOMAIN all : all[k].trigger = t}
                           /\ said = {i \in places : args[i][1] = t}
    OBVIOUS
  <2>3. given \subseteq 1 .. Len(all) /\ said \subseteq 1 .. Len(args)
    BY <1>2, <1>4, <2>2
  <2>4. given = {} <=> said = {}
    <3>1. \A p \in places : p > 0
      BY <1>0, <1>2
    <3> QED
      BY <1>4, <2>1, <2>2, <3>1 DEF Agree, IsThere, IsGiven
  <2>5. ASSUME given # {}
        PROVE  all[Max(given)].value = ValueGiven(args, Max(said))
    <3>1. PICK n \in given : \A k \in given : k <= n
      <4>1. given \subseteq 0 .. Len(all)
        BY <1>4, <2>3
      <4> QED
        BY <1>4, <2>5, <4>1, GreatestNumber
    <3>2. Max(given) = n
      <4>1. \A k \in given : ~(k > n)
        BY <2>3, <3>1
      <4>2. given \subseteq Nat
        BY <1>4, <2>3
      <4> QED
        BY <3>1, <4>1, <4>2, GreatestIsMax
    <3>3. IsLast(all, t, all[n].value)
      <4>1. \A j \in 1 .. Len(all) : j > n => j \notin given
        BY <2>3, <3>1
      <4> QED
        BY <1>4, <2>2, <3>1, <4>1 DEF IsLast
    <3>4. IsGivenLast(args, places, 0, t, all[n].value)
      BY <2>1, <3>3 DEF Agree
    <3>5. PICK p \in places : /\ args[p][1] = t /\ all[n].value = ValueGiven(args, p)
                              /\ \A q \in places : q > p => args[q][1] # t
      BY <3>4 DEF IsGivenLast
    <3>6. Max(said) = p
      <4>1. p \in said /\ \A q \in said : ~(q > p)
        BY <2>2, <3>5
      <4>2. said \subseteq Nat
        BY <1>0, <2>3
      <4> QED
        BY <4>1, <4>2, GreatestIsMax
    <3> QED
      BY <3>2, <3>5, <3>6
  <2>6. ValueMeant(args, defs, t) = IF said = {} THEN NOVALUE ELSE ValueGiven(args, Max(said))
    BY <1>1, <2>2 DEF ValueMeant, ValueGiven
  <2>7. (LET g == {k \in DOMAIN all : all[k].trigger = t}
         IN  IF g = {} THEN NOVALUE ELSE all[Max(g)].value)
        = IF given = {} THEN NOVALUE ELSE all[Max(given)].value
    BY <2>2
  <2> QED
    BY <2>4, <2>5, <2>6, <2>7
<1> QED
  BY <1>1, <1>6 DEF Parsed

\* Definitions that are added do not change how options that are defined are read.
LEMMA SameRest ==
    ASSUME NEW args, NEW defs, NEW defs2, IsCommandLine(args),
           \A t : IsDefined(defs, t) => defs2[t] = defs[t],
           NEW i \in 0 .. Len(args) + 1,
           \A k \in 1 .. Len(All(args, defs)[i]) : IsDefined(defs, All(args, defs)[i][k].trigger)
    PROVE  All(args, defs2)[i] = All(args, defs)[i]
<1> DEFINE Defined(n) == \A k \in 1 .. Len(All(args, defs)[n]) : IsDefined(defs, All(args, defs)[n][k].trigger)
           T == {n \in 0 .. Len(args) + 1 : Defined(n) /\ All(args, defs2)[n] # All(args, defs)[n]}
<1>1. ASSUME T # {}
      PROVE  FALSE
  <2>1. T \subseteq 0 .. Len(args) + 1 /\ Len(args) + 1 \in Nat
    BY DEF IsCommandLine
  <2>2. PICK n \in T : \A m \in T : m <= n
    <3> HIDE DEF T
    <3> QED
      BY <1>1, <2>1, GreatestNumber
  <2>3. n \in 0 .. Len(args) + 1 /\ Defined(n) /\ All(args, defs2)[n] # All(args, defs)[n]
    OBVIOUS
  <2> HIDE DEF T, Defined
  <2>4. CASE n >= Len(args)
    <3>1. \A d : All(args, d)[n] = <<>>
      BY <2>3, <2>4, NoOptions
    <3> QED
      BY <2>3, <3>1
  <2>5. CASE ~(n >= Len(args))
    <3>1. PICK a, all, rest : /\ a = AllAt(args, defs, n + 1) /\ all = All(args, defs)[n]
                              /\ rest = All(args, defs)[a.last]
      OBVIOUS
    <3>2. /\ a.last \in n + 1 .. Len(args) + 1 /\ Len(rest) \in Nat
          /\ Len(all) = Len(rest) + 1 /\ all[1] = a
          /\ \A k \in 1 .. Len(rest) : all[k + 1] = rest[k]
          /\ all = <<a>> \o rest
      <4>1. n \in 0 .. Len(args) + 1
        BY <2>3
      <4>2. GoesOn(args, defs, n, a, all, rest)
        BY <2>5, <3>1, <4>1 DEF GoesOn
      <4>3. a.last \in n + 1 .. Len(args) + 1 /\ IsSplit(a, all, rest)
        BY <4>2, RestOfOptions, Zenon
      <4> QED
        BY <4>3 DEF IsSplit
    <3>3. \A k \in 1 .. Len(all) : IsDefined(defs, all[k].trigger)
      BY <2>3, <3>1 DEF Defined
    <3>4. IsDefined(defs, a.trigger)
      <4>1. 1 \in 1 .. Len(all)
        BY <3>2
      <4> QED
        BY <3>2, <3>3, <4>1
    <3>5. AllAt(args, defs2, n + 1) = a
      <4>1. a.trigger = args[n + 1][1]
        BY <3>1 DEF AllAt
      <4>2. TakesValue(defs2, a.trigger) <=> TakesValue(defs, a.trigger)
        BY <3>4 DEF TakesValue, IsDefined
      <4> QED
        BY <3>1, <4>1, <4>2 DEF AllAt
    <3>6. \A k \in 1 .. Len(rest) : IsDefined(defs, rest[k].trigger)
      <4>1. \A k \in 1 .. Len(rest) : k + 1 \in 1 .. Len(all)
        BY <3>2
      <4> QED
        BY <3>2, <3>3, <4>1
    <3>7. Defined(a.last)
      BY <3>1, <3>6 DEF Defined
    <3>8. a.last \in 0 .. Len(args) + 1 /\ ~(a.last <= n)
      BY <2>1, <2>3, <3>2
    <3>9. All(args, defs2)[a.last] = rest
      BY <2>2, <3>1, <3>7, <3>8 DEF T
    <3>10. All(args, defs2)[n] = <<a>> \o rest
      <4>1. n \in 0 .. Len(args) + 1
        BY <2>3
      <4>2. PICK all2 : all2 = All(args, defs2)[n]
        OBVIOUS
      <4>3. a = AllAt(args, defs2, n + 1) /\ rest = All(args, defs2)[a.last]
        BY <3>5, <3>9
      <4>4. GoesOn(args, defs2, n, a, all2, rest)
        BY <2>5, <4>1, <4>2, <4>3 DEF GoesOn
      <4>5. IsSplit(a, all2, rest)
        BY <4>4, RestOfOptions, Zenon
      <4>6. all2 = <<a>> \o rest
        BY <4>5 DEF IsSplit
      <4> QED
        BY <4>2, <4>6
    <3> QED
      BY <2>3, <3>1, <3>2, <3>10
  <2> QED
    BY <2>4, <2>5
<1> QED
  BY <1>1

Kinds == {"none", "flag", "value"}
Items == {AllAt(arguments, defs, i) : defs \in [Triggers -> Kinds], i \in 1 .. Len(arguments)}

OptionTypeOK ==
    /\ IsCommandLine(arguments)
    /\ definitions \in [Triggers -> Kinds]
    /\ position \in 0 .. Len(arguments) + 1
    /\ executed \in Seq(Items)
    /\ step = "scripts" => position = 0 /\ executed = <<>>

\* What was validated is what was executed, and then what is still to be; it is all defined.
SplitAt(rest) ==
    /\ validated = [k \in 1 .. Len(executed) + Len(rest) |-> validated[k]]
    /\ \A k \in 1 .. Len(executed) : validated[k] = executed[k].trigger
    /\ \A k \in 1 .. Len(rest) :
          /\ validated[Len(executed) + k] = rest[k].trigger
          /\ IsDefined(definitions, rest[k].trigger)

OptionInv ==
    /\ OptionTypeOK
    /\ values # <<>> => values = <<Parsed(arguments, definitions)>>
    /\ step \in {"execute", "done"} /\ ~redefined => SplitAt(All(arguments, definitions)[position])
    /\ step = "done" => position >= Len(arguments)

LEMMA OptionInvInit == OptionInit => OptionInv
<1> SUFFICES ASSUME OptionInit
             PROVE  OptionInv
  OBVIOUS
<1>1. IsCommandLine(arguments)
  <2>1. PICK S : arguments \in Seq(S)
    BY CommandLinesAssumption DEF OptionInit
  <2>2. Len(arguments) \in Nat /\ DOMAIN arguments = 1 .. Len(arguments)
    BY <2>1, LenProperties
  <2> QED
    BY <2>2, CommandLinesAssumption DEF OptionInit, IsCommandLine
<1>2. position \in 0 .. Len(arguments) + 1
  BY <1>1 DEF OptionInit, IsCommandLine
<1>3. definitions \in [Triggers -> Kinds] /\ executed \in Seq(Items)
  BY DEF OptionInit, Kinds
<1> QED
  BY <1>1, <1>2, <1>3 DEF OptionInit, OptionInv, OptionTypeOK

LEMMA RegisterOptionStep ==
    ASSUME OptionInv, NEW t \in Triggers, NEW kind \in {"flag", "value"}, RegisterOption(t, kind)
    PROVE  OptionInv'
<1>1. /\ definitions' = [definitions EXCEPT ![t] = kind] /\ values' = <<>>
      /\ redefined' = (redefined \/ (step = "execute" /\ definitions[t] # "none"))
      /\ UNCHANGED <<arguments, step, position, executed, validated>>
      /\ step \in {"scripts", "execute"}
  BY DEF RegisterOption
<1>2. OptionTypeOK'
  BY <1>1 DEF OptionInv, OptionTypeOK, Kinds, Items, IsCommandLine
<1>3. ASSUME step = "execute", ~redefined'
      PROVE  SplitAt(All(arguments, definitions)[position])'
  <2>1. ~redefined /\ definitions[t] = "none"
    BY <1>1, <1>3
  <2>2. PICK rest : rest = All(arguments, definitions)[position]
    OBVIOUS
  <2>3. SplitAt(rest)
    BY <1>3, <2>1, <2>2 DEF OptionInv
  <2>4. \A u : IsDefined(definitions, u) => definitions'[u] = definitions[u] /\ IsDefined(definitions', u)
    BY <1>1, <2>1 DEF IsDefined, OptionInv, OptionTypeOK
  <2>5. All(arguments, definitions')[position] = rest
    <3>1. PICK defs, defs2 : defs = definitions /\ defs2 = definitions'
      OBVIOUS
    <3>2. \A u : IsDefined(defs, u) => defs2[u] = defs[u]
      BY <2>4, <3>1
    <3>3. \A k \in 1 .. Len(rest) : IsDefined(defs, rest[k].trigger)
      BY <2>3, <3>1 DEF SplitAt
    <3>4. IsCommandLine(arguments) /\ position \in 0 .. Len(arguments) + 1
      BY DEF OptionInv, OptionTypeOK
    <3> QED
      BY <2>2, <3>1, <3>2, <3>3, <3>4, SameRest
  <2> QED
    BY <1>1, <2>3, <2>4, <2>5 DEF SplitAt
<1> QED
  BY <1>1, <1>2, <1>3 DEF OptionInv

LEMMA ValidateStep ==
    ASSUME OptionInv, Validate
    PROVE  OptionInv'
<1>1. PICK all : all = All(arguments, definitions)[0]
  OBVIOUS
<1>2. /\ step = "scripts" /\ UNCHANGED <<arguments, definitions, values, position, executed, redefined>>
      /\ step' = IF \A k \in DOMAIN all : IsDefined(definitions, all[k].trigger) THEN "execute" ELSE "invalid"
      /\ validated' = [k \in DOMAIN all |-> all[k].trigger]
  BY <1>1 DEF Validate
<1>3. IsCommandLine(arguments) /\ position = 0 /\ executed = <<>> /\ 0 \in 0 .. Len(arguments) + 1
  BY <1>2 DEF OptionInv, OptionTypeOK, IsCommandLine
<1>4. DOMAIN all = 1 .. Len(all) /\ Len(all) \in Nat
  <2>1. all \in Seq(ItemsOf(arguments, definitions))
    BY <1>1, <1>3, AllUnfolds
  <2> QED
    BY <2>1, LenProperties
<1>5. OptionTypeOK'
  BY <1>2 DEF OptionInv, OptionTypeOK, Items
<1>6. step' # "scripts" /\ step' # "done"
  BY <1>2
<1>7. ASSUME step' = "execute"
      PROVE  SplitAt(All(arguments, definitions)[position])'
  <2>1. \A k \in 1 .. Len(all) : IsDefined(definitions, all[k].trigger)
    BY <1>2, <1>4, <1>7
  <2>2. All(arguments', definitions')[position'] = all /\ executed' = <<>> /\ definitions' = definitions
    BY <1>1, <1>2, <1>3
  <2>3. Len(executed') = 0
    BY <2>2
  <2>4. validated' = [k \in 1 .. Len(all) |-> validated'[k]] /\ \A k \in 1 .. Len(all) : validated'[k] = all[k].trigger
    BY <1>2, <1>4
  <2>5. \A k \in 1 .. Len(all) : Len(executed') + k = k
    BY <1>4, <2>3
  <2>6. Len(executed') + Len(all) = Len(all)
    BY <1>4, <2>3
  <2>7. \A k \in 1 .. Len(executed') : FALSE
    BY <2>3
  <2> QED
    BY <2>1, <2>2, <2>4, <2>5, <2>6, <2>7 DEF SplitAt
<1> QED
  BY <1>2, <1>5, <1>6, <1>7 DEF OptionInv

LEMMA ExecuteStep ==
    ASSUME OptionInv, Execute
    PROVE  OptionInv'
<1>1. /\ step = "execute" /\ UNCHANGED <<arguments, definitions, values, validated, redefined>>
      /\ IsCommandLine(arguments) /\ position \in 0 .. Len(arguments) + 1 /\ Len(arguments) \in Nat
      /\ definitions \in [Triggers -> Kinds] /\ executed \in Seq(Items)
  BY DEF Execute, OptionInv, OptionTypeOK, IsCommandLine
<1>2. CASE position >= Len(arguments)
  <2>1. step' = "done" /\ UNCHANGED <<position, executed>>
    BY <1>2 DEF Execute
  <2>2. OptionTypeOK'
    BY <1>1, <2>1 DEF OptionInv, OptionTypeOK, Items
  <2>3. ~redefined' => SplitAt(All(arguments, definitions)[position])'
    BY <1>1, <2>1 DEF OptionInv, SplitAt
  <2> QED
    BY <1>1, <1>2, <2>1, <2>2, <2>3 DEF OptionInv
<1>3. CASE ~(position >= Len(arguments))
  <2>1. PICK a, all, rest : /\ a = AllAt(arguments, definitions, position + 1)
                            /\ all = All(arguments, definitions)[position]
                            /\ rest = All(arguments, definitions)[a.last]
    OBVIOUS
  <2>2. /\ a.last \in position + 1 .. Len(arguments) + 1 /\ Len(rest) \in Nat
        /\ Len(all) = Len(rest) + 1 /\ all[1] = a
        /\ \A k \in 1 .. Len(rest) : all[k + 1] = rest[k]
    <3>1. GoesOn(arguments, definitions, position, a, all, rest)
      BY <1>1, <1>3, <2>1 DEF GoesOn
    <3>2. a.last \in position + 1 .. Len(arguments) + 1 /\ IsSplit(a, all, rest)
      BY <3>1, RestOfOptions, Zenon
    <3> QED
      BY <3>2 DEF IsSplit
  <2>3. /\ position' = a.last /\ step' = step
        /\ executed' = IF IsDefined(definitions, a.trigger) THEN Append(executed, a) ELSE executed
    BY <1>3, <2>1 DEF Execute
  <2>4. a \in Items
    <3>1. position + 1 \in 1 .. Len(arguments)
      BY <1>1, <1>3
    <3> QED
      BY <1>1, <2>1, <3>1 DEF Items
  <2>5. OptionTypeOK'
    <3>1. executed' \in Seq(Items)
      BY <1>1, <2>3, <2>4, AppendProperties
    <3>2. a.last \in 0 .. Len(arguments) + 1
      BY <1>1, <2>2
    <3> QED
      BY <1>1, <2>3, <3>1, <3>2 DEF OptionTypeOK, Items
  <2>6. ASSUME ~redefined
        PROVE  SplitAt(All(arguments, definitions)[position])'
    <3>1. SplitAt(all)
      BY <1>1, <2>1, <2>6 DEF OptionInv
    <3>2. 1 \in 1 .. Len(all) /\ Len(executed) \in Nat
      BY <1>1, <2>2, LenProperties
    <3>3. IsDefined(definitions, a.trigger) /\ validated[Len(executed) + 1] = a.trigger
      BY <2>2, <3>1, <3>2 DEF SplitAt
    <3>4. /\ Len(executed') = Len(executed) + 1 /\ executed'[Len(executed) + 1] = a
          /\ \A k \in 1 .. Len(executed) : executed'[k] = executed[k]
      BY <1>1, <2>3, <2>4, <3>3, AppendProperties
    <3>5. Len(executed') + Len(rest) = Len(executed) + Len(all)
      BY <2>2, <3>2, <3>4
    <3>6. validated = [k \in 1 .. Len(executed') + Len(rest) |-> validated[k]]
      BY <3>1, <3>5 DEF SplitAt
    <3>7. \A k \in 1 .. Len(executed') : validated[k] = executed'[k].trigger
      <4>1. \A k \in 1 .. Len(executed') : k \in 1 .. Len(executed) \/ k = Len(executed) + 1
        BY <3>2, <3>4
      <4>2. \A k \in 1 .. Len(executed) : validated[k] = executed[k].trigger
        BY <3>1 DEF SplitAt
      <4> QED
        BY <3>3, <3>4, <4>1, <4>2
    <3>8. \A k \in 1 .. Len(rest) :
              /\ validated[Len(executed') + k] = rest[k].trigger
              /\ IsDefined(definitions, rest[k].trigger)
      <4>1. \A k \in 1 .. Len(rest) :
                k + 1 \in 1 .. Len(all) /\ Len(executed) + (k + 1) = Len(executed') + k
        BY <2>2, <3>2, <3>4
      <4>2. \A k \in 1 .. Len(all) :
                /\ validated[Len(executed) + k] = all[k].trigger
                /\ IsDefined(definitions, all[k].trigger)
        BY <3>1 DEF SplitAt
      <4> QED
        BY <2>2, <4>1, <4>2
    <3>9. All(arguments', definitions')[position'] = rest /\ validated' = validated /\ definitions' = definitions
      BY <1>1, <2>1, <2>3
    <3> QED
      BY <3>6, <3>7, <3>8, <3>9 DEF SplitAt
  <2> QED
    BY <1>1, <2>3, <2>5, <2>6 DEF OptionInv
<1> QED
  BY <1>2, <1>3

LEMMA OptionInvStep == OptionInv /\ [OptionNext]_optionVars => OptionInv'
<1> SUFFICES ASSUME OptionInv, [OptionNext]_optionVars
             PROVE  OptionInv'
  OBVIOUS
<1>1. CASE ValueOf
  <2>1. values' = <<Parsed(arguments', definitions')>>
        /\ UNCHANGED <<arguments, definitions, step, position, executed, validated, redefined>>
    BY <1>1 DEF ValueOf
  <2> QED
    BY <2>1 DEF OptionInv, OptionTypeOK, Items, SplitAt
<1>2. CASE UNCHANGED optionVars
  BY <1>2 DEF optionVars, OptionInv, OptionTypeOK, Items, SplitAt
<1> QED
  BY <1>1, <1>2, RegisterOptionStep, ValidateStep, ExecuteStep DEF OptionNext

\* However options are registered, by scripts and by the options executed, a value that is asked
\* for is the one on the command line, and what was found valid is executed, once and in order
\* (options.lua; main.lua:67-76).
THEOREM OptionsFollowCommandLine == OptionSpec => []OptionsAsGiven
<1>1. OptionInit => OptionInv
  BY OptionInvInit
<1>2. OptionInv /\ [OptionNext]_optionVars => OptionInv'
  BY OptionInvStep
<1>3. OptionInv => OptionsAsGiven
  <2>1. ASSUME OptionInv
        PROVE  ValuesCurrent
    <3>1. values # <<>> => values = <<Parsed(arguments, definitions)>> /\ IsCommandLine(arguments)
      BY <2>1 DEF OptionInv, OptionTypeOK
    <3>2. values # <<>> => values[1] = Parsed(arguments, definitions)
      BY <3>1
    <3> QED
      BY <3>1, <3>2, ParsedIsMeant DEF ValuesCurrent
  <2>2. ASSUME OptionInv, step = "done", ~redefined
        PROVE  [k \in DOMAIN executed |-> executed[k].trigger] = validated
    <3>1. PICK rest : rest = All(arguments, definitions)[position]
      OBVIOUS
    <3>2. SplitAt(rest) /\ position >= Len(arguments) /\ IsCommandLine(arguments)
          /\ position \in 0 .. Len(arguments) + 1 /\ executed \in Seq(Items)
      BY <2>2, <3>1 DEF OptionInv, OptionTypeOK
    <3>3. rest = <<>>
      BY <3>1, <3>2, NoOptions
    <3>4. DOMAIN executed = 1 .. Len(executed) /\ Len(executed) \in Nat
      BY <3>2, LenProperties
    <3>5. Len(executed) + Len(rest) = Len(executed)
      BY <3>3, <3>4
    <3> QED
      BY <3>2, <3>4, <3>5 DEF SplitAt
  <2> QED
    BY <2>1, <2>2 DEF ExecutesWhatWasValidated, OptionsAsGiven
<1> QED
  BY <1>1, <1>2, <1>3, PTL DEF OptionSpec

-----------------------------------------------------------------------------
(***************************************************************************)
(* Files.                                                                  *)
(***************************************************************************)
Written == Bytes \cup {Space, Word, Tab} \cup UNION {Range(t) : t \in Texts}
Nodes == {MISSING, DIRECTORY} \cup {File(s) : s \in Seq(Written)}

Closed(t) == \A p \in Paths : Exists(t, p) => DirectoryAt(t, Parent(p))
SoundTree(t) == t \in [Paths -> Nodes] /\ Closed(t)

\* What no operation does to what is there, and what only writing does to files.
Grows(t, u) ==
    \A p \in Paths :
        Exists(t, p) => Exists(u, p) /\ (DirectoryAt(t, p) <=> DirectoryAt(u, p))
KeepsText(t, u) == \A p \in Paths : IsFile(t, p) => IsPrefix(t[p].text, u[p].text)

LEMMA TextsTyped == <<>> \in Seq(Written) /\ Texts \subseteq Seq(Written)
<1>1. Texts \subseteq Seq(UNION {Range(t) : t \in Texts})
  BY FilesAssumption
<1>2. ASSUME NEW s \in Texts
      PROVE  s \in Seq(Written)
  <2> DEFINE U == UNION {Range(t) : t \in Texts}
  <2>1. s \in Seq(U)
    BY <1>1, <1>2
  <2>2. U \subseteq Written
    BY DEF Written
  <2> HIDE DEF U
  <2> QED
    BY <2>1, <2>2
<1> QED
  BY <1>2

LEMMA PathsAreSequences ==
    \A p : p \in Paths <=> p \in Seq(FileNames) /\ Len(p) \in 1 .. MaxNames
<1>1. ASSUME NEW p \in Paths
      PROVE  p \in Seq(FileNames) /\ Len(p) \in 1 .. MaxNames
  <2>1. PICK n \in 1 .. MaxNames : p \in [1 .. n -> FileNames]
    BY <1>1 DEF Paths
  <2>2. n \in Nat
    BY <2>1, FilesAssumption
  <2>3. p \in Seq(FileNames)
    BY <2>1, <2>2, SeqDef
  <2>4. Len(p) = n
    BY <2>1, <2>2, <2>3, LenProperties
  <2> QED
    BY <2>1, <2>3, <2>4
<1>2. ASSUME NEW p \in Seq(FileNames), Len(p) \in 1 .. MaxNames
      PROVE  p \in Paths
  <2>1. p \in [1 .. Len(p) -> FileNames]
    BY LenProperties
  <2> QED
    BY <1>2, <2>1 DEF Paths
<1> QED
  BY <1>1, <1>2

\* The beginnings of a path are paths, and what is above them lies on the way.
LEMMA Beginnings ==
    ASSUME NEW p \in Paths
    PROVE  /\ Len(p) \in 1 .. MaxNames
           /\ Len(p) \in Nat
           /\ Len(p) # 0
           /\ p # <<>>
           /\ SubSeq(p, 1, 0) = <<>>
           /\ SubSeq(p, 1, Len(p)) = p
           /\ Parent(p) = SubSeq(p, 1, Len(p) - 1)
           /\ \A k \in 1 .. Len(p) :
                 /\ SubSeq(p, 1, k) \in Paths
                 /\ Len(SubSeq(p, 1, k)) = k
                 /\ Parent(SubSeq(p, 1, k)) = SubSeq(p, 1, k - 1)
<1>1. p \in Seq(FileNames) /\ Len(p) \in 1 .. MaxNames
  BY PathsAreSequences
<1>2. Len(p) \in Nat /\ Len(p) # 0 /\ p # <<>> /\ DOMAIN p = 1 .. Len(p)
  BY <1>1, LenProperties, EmptySeq, FilesAssumption
<1>3. \A k \in 0 .. Len(p) :
          /\ SubSeq(p, 1, k) \in Seq(FileNames)
          /\ Len(SubSeq(p, 1, k)) = k
          /\ \A i \in 1 .. k : SubSeq(p, 1, k)[i] = p[i]
  BY <1>1, <1>2, SubSeqProperties
<1>4. SubSeq(p, 1, 0) = <<>>
  BY <1>3, <1>2, EmptySeq
<1>5. SubSeq(p, 1, Len(p)) = p
  BY <1>1, <1>2, <1>3, SeqEqual
<1>6. Parent(p) = SubSeq(p, 1, Len(p) - 1)
  BY DEF Parent, Front
<1>7. ASSUME NEW k \in 1 .. Len(p)
      PROVE  /\ SubSeq(p, 1, k) \in Paths
             /\ Len(SubSeq(p, 1, k)) = k
             /\ Parent(SubSeq(p, 1, k)) = SubSeq(p, 1, k - 1)
  <2> DEFINE q == SubSeq(p, 1, k)
  <2>1. q \in Seq(FileNames) /\ Len(q) = k /\ \A i \in 1 .. k : q[i] = p[i]
    BY <1>2, <1>3
  <2>2. q \in Paths
    <3>1. k \in 1 .. MaxNames
      BY <1>1, <1>2, FilesAssumption
    <3> QED
      BY <2>1, <3>1, PathsAreSequences
  <2>3. Parent(q) = SubSeq(q, 1, k - 1)
    BY <2>1 DEF Parent, Front
  <2> HIDE DEF q
  <2>4. /\ SubSeq(q, 1, k - 1) \in Seq(FileNames)
        /\ Len(SubSeq(q, 1, k - 1)) = k - 1
        /\ \A i \in 1 .. k - 1 : SubSeq(q, 1, k - 1)[i] = q[i]
    BY <1>2, <2>1, SubSeqProperties
  <2>5. SubSeq(q, 1, k - 1) = SubSeq(p, 1, k - 1)
    <3>1. k - 1 \in 0 .. Len(p)
      BY <1>2
    <3>2. \A i \in 1 .. k - 1 : i \in 1 .. k
      BY <1>2
    <3> QED
      BY <1>3, <2>1, <2>4, <3>1, <3>2, SeqEqual
  <2> QED
    BY <2>1, <2>2, <2>3, <2>5 DEF q
<1> QED
  BY <1>1, <1>2, <1>4, <1>5, <1>6, <1>7

LEMMA NotTheFirst == \A n : n \in Nat /\ n # 0 /\ n # 1 => n - 1 \in 1 .. n
  OBVIOUS

LEMMA Parents == \A p \in Paths : Parent(p) = <<>> \/ Parent(p) \in Paths
<1> SUFFICES ASSUME NEW p \in Paths
             PROVE  Parent(p) = <<>> \/ Parent(p) \in Paths
  OBVIOUS
<1>1. Len(p) \in Nat /\ Len(p) # 0
  BY Beginnings
<1>2. Parent(p) = SubSeq(p, 1, Len(p) - 1) /\ SubSeq(p, 1, 0) = <<>>
  BY Beginnings
<1>3. CASE Len(p) = 1
  BY <1>2, <1>3
<1>4. CASE Len(p) # 1
  <2>1. Len(p) - 1 \in 1 .. Len(p)
    BY <1>1, <1>4
  <2> QED
    BY <1>2, <2>1, Beginnings
<1> QED
  BY <1>3, <1>4

LEMMA NodeFacts ==
    /\ MISSING # DIRECTORY
    /\ MISSING \in Nodes
    /\ DIRECTORY \in Nodes
    /\ \A s \in Seq(Written) :
          File(s) \in Nodes /\ File(s) # MISSING /\ File(s) # DIRECTORY /\ File(s).text = s
    /\ \A node \in Nodes :
          node # MISSING /\ node # DIRECTORY =>
              node.text \in Seq(Written) /\ node = File(node.text)
<1>1. MISSING.kind = "missing" /\ DIRECTORY.kind = "directory"
  BY DEF MISSING, DIRECTORY
<1>2. \A s : File(s).kind = "file" /\ File(s).text = s
  BY DEF File
<1>3. MISSING # DIRECTORY /\ \A s : File(s) # MISSING /\ File(s) # DIRECTORY
  BY <1>1, <1>2
<1>4. /\ MISSING \in Nodes
      /\ DIRECTORY \in Nodes
      /\ \A s \in Seq(Written) : File(s) \in Nodes
  BY DEF Nodes
<1>5. ASSUME NEW node \in Nodes, node # MISSING, node # DIRECTORY
      PROVE  node.text \in Seq(Written) /\ node = File(node.text)
  <2>1. PICK s \in Seq(Written) : node = File(s)
    BY <1>5 DEF Nodes
  <2> QED
    BY <1>2, <2>1
<1> QED
  BY <1>2, <1>3, <1>4, <1>5

LEMMA ExistsFacts ==
    ASSUME NEW t \in [Paths -> Nodes], NEW p \in Paths
    PROVE  /\ p # <<>>
           /\ t[p] \in Nodes
           /\ Exists(t, p) <=> t[p] # MISSING
           /\ DirectoryAt(t, p) <=> t[p] = DIRECTORY
           /\ IsFile(t, p) <=> t[p] # MISSING /\ t[p] # DIRECTORY
           /\ IsFile(t, p) => t[p].text \in Seq(Written) /\ t[p] = File(t[p].text)
<1>1. p # <<>> /\ t[p] \in Nodes
  BY Beginnings
<1>2. /\ Exists(t, p) <=> t[p] # MISSING
      /\ DirectoryAt(t, p) <=> t[p] = DIRECTORY
  BY <1>1 DEF Exists, DirectoryAt
<1>3. IsFile(t, p) <=> t[p] # MISSING /\ t[p] # DIRECTORY
  BY <1>2 DEF IsFile
<1> QED
  BY <1>1, <1>2, <1>3, NodeFacts

\* pmk_mkdir() stops going up at the last beginning that exists.
LEMMA WhatToMake ==
    ASSUME NEW t, NEW p \in Paths
    PROVE  \E base \in 0 .. Len(p) :
              /\ Exists(t, SubSeq(p, 1, base))
              /\ \A k \in base + 1 .. Len(p) : ~Exists(t, SubSeq(p, 1, k))
              /\ ToMake(t, p) = base + 1 .. Len(p)
              /\ Cardinality(ToMake(t, p)) = Len(p) - base
              /\ ToMake(t, p) = {} <=> base = Len(p)
<1> DEFINE T == {k \in 0 .. Len(p) : Exists(t, SubSeq(p, 1, k))}
<1>1. Len(p) \in Nat /\ Exists(t, SubSeq(p, 1, 0))
  BY Beginnings DEF Exists
<1>2. 0 \in T
  BY <1>1
<1>3. PICK base \in T : \A k \in T : k <= base
  BY <1>1, <1>2, GreatestNumber
<1>4. base \in 0 .. Len(p) /\ Exists(t, SubSeq(p, 1, base))
  BY <1>3
<1>5. \A k \in base + 1 .. Len(p) : ~Exists(t, SubSeq(p, 1, k))
  BY <1>1, <1>3, <1>4
<1> HIDE DEF T
<1>6. ToMake(t, p) = base + 1 .. Len(p)
  <2>1. ASSUME NEW k \in 1 .. Len(p), \A j \in k .. Len(p) : ~Exists(t, SubSeq(p, 1, j))
        PROVE  k \in base + 1 .. Len(p)
    <3>1. ~(base \in k .. Len(p))
      BY <1>4, <2>1
    <3> QED
      BY <1>1, <1>4, <3>1
  <2>2. ASSUME NEW k \in base + 1 .. Len(p)
        PROVE  k \in 1 .. Len(p) /\ \A j \in k .. Len(p) : ~Exists(t, SubSeq(p, 1, j))
    BY <1>1, <1>4, <1>5
  <2> QED
    BY <2>1, <2>2 DEF ToMake
<1>7. Cardinality(base + 1 .. Len(p)) = Len(p) - base
  <2>1. base + 1 \in Int /\ Len(p) \in Int
    BY <1>1, <1>4
  <2>2. Cardinality(base + 1 .. Len(p)) =
            IF base + 1 > Len(p) THEN 0 ELSE Len(p) - (base + 1) + 1
    BY <2>1, FS_Interval
  <2> QED
    BY <1>1, <1>4, <2>2
<1>8. base + 1 .. Len(p) = {} <=> base = Len(p)
  BY <1>1, <1>4
<1> QED
  BY <1>4, <1>5, <1>6, <1>7, <1>8

\* A tree in which the beginnings of p after the first ones are directories.
WithDirectories(t, p, base, n) ==
    [q \in Paths |->
        IF \E k \in base + 1 .. base + n : q = SubSeq(p, 1, k) THEN DIRECTORY ELSE t[q]]

LEMMA MadeDirectories ==
    ASSUME NEW t, SoundTree(t), NEW p \in Paths, NEW base \in 0 .. Len(p),
           NEW n \in 0 .. Len(p) - base,
           DirectoryAt(t, SubSeq(p, 1, base)),
           \A k \in base + 1 .. Len(p) : ~Exists(t, SubSeq(p, 1, k))
    PROVE  LET u == WithDirectories(t, p, base, n)
           IN  /\ SoundTree(u)
               /\ Grows(t, u)
               /\ KeepsText(t, u)
               /\ n > 0 => Exists(u, SubSeq(p, 1, base + n))
<1> DEFINE u == WithDirectories(t, p, base, n)
<1>1. PICK v : v = u
  OBVIOUS
<1>2. v = [q \in Paths |-> IF \E k \in base + 1 .. base + n : q = SubSeq(p, 1, k)
                           THEN DIRECTORY ELSE t[q]]
  BY <1>1 DEF WithDirectories
<1> HIDE DEF u
<1>3. t \in [Paths -> Nodes] /\ Closed(t)
  BY DEF SoundTree
<1>4. v \in [Paths -> Nodes]
  BY <1>2, <1>3, NodeFacts
<1>5. /\ Len(p) \in Nat
      /\ base + n \in 0 .. Len(p)
      /\ \A k \in base + 1 .. base + n : k \in 1 .. Len(p) /\ k \in base + 1 .. Len(p)
  BY Beginnings
<1>6. \A k \in base + 1 .. base + n :
          /\ SubSeq(p, 1, k) \in Paths
          /\ v[SubSeq(p, 1, k)] = DIRECTORY
          /\ DirectoryAt(v, SubSeq(p, 1, k))
          /\ ~Exists(t, SubSeq(p, 1, k))
  BY <1>2, <1>5, Beginnings DEF DirectoryAt
<1>7. ASSUME NEW q \in Paths, ~\E k \in base + 1 .. base + n : q = SubSeq(p, 1, k)
      PROVE  v[q] = t[q]
  BY <1>2, <1>7
<1>8. ASSUME NEW q \in Paths, Exists(t, q)
      PROVE  v[q] = t[q]
  BY <1>6, <1>7, <1>8
<1>9. \A q : DirectoryAt(t, q) /\ (q \in Paths \/ q = <<>>) => DirectoryAt(v, q)
  <2>1. ASSUME NEW q \in Paths, DirectoryAt(t, q)
        PROVE  DirectoryAt(v, q)
    BY <1>3, <1>4, <1>8, <2>1, ExistsFacts, NodeFacts
  <2>2. DirectoryAt(v, <<>>)
    BY DEF DirectoryAt
  <2> QED
    BY <2>1, <2>2
<1>10. Closed(v)
  <2> SUFFICES ASSUME NEW q \in Paths, Exists(v, q)
               PROVE  DirectoryAt(v, Parent(q))
    BY DEF Closed
  <2>1. ASSUME NEW k \in base + 1 .. base + n, q = SubSeq(p, 1, k)
        PROVE  DirectoryAt(v, Parent(q))
    <3>1. Parent(q) = SubSeq(p, 1, k - 1)
      BY <1>5, <2>1, Beginnings
    <3>2. CASE k = base + 1
      <4>1. Parent(q) = SubSeq(p, 1, base) /\ (base = 0 \/ base \in 1 .. Len(p))
        BY <1>5, <3>1, <3>2
      <4>2. Parent(q) = <<>> \/ Parent(q) \in Paths
        BY <4>1, Beginnings
      <4>3. DirectoryAt(t, Parent(q))
        BY <4>1
      <4> QED
        BY <1>9, <4>2, <4>3, Zenon
    <3>3. CASE k # base + 1
      <4>1. k - 1 \in base + 1 .. base + n
        BY <1>5, <3>3
      <4> QED
        BY <1>6, <3>1, <4>1
    <3> QED
      BY <3>2, <3>3
  <2>2. CASE ~\E k \in base + 1 .. base + n : q = SubSeq(p, 1, k)
    <3>1. v[q] = t[q]
      BY <1>7, <2>2
    <3>2. Exists(t, q)
      BY <1>3, <1>4, <3>1, ExistsFacts
    <3>3. DirectoryAt(t, Parent(q))
      BY <1>3, <3>2 DEF Closed
    <3>4. Parent(q) = <<>> \/ Parent(q) \in Paths
      BY Parents
    <3> QED
      BY <1>9, <3>3, <3>4
  <2> QED
    BY <2>1, <2>2
<1>11. Grows(t, v)
  BY <1>3, <1>4, <1>8, ExistsFacts DEF Grows
<1>12. KeepsText(t, v)
  <2> SUFFICES ASSUME NEW q \in Paths, IsFile(t, q)
               PROVE  IsPrefix(t[q].text, v[q].text)
    BY DEF KeepsText
  <2>1. v[q] = t[q] /\ t[q].text \in Seq(Written)
    BY <1>3, <1>8, ExistsFacts
  <2> QED
    BY <2>1, LenProperties DEF IsPrefix
<1>13. n > 0 => Exists(v, SubSeq(p, 1, base + n))
  <2>1. SUFFICES ASSUME n > 0
                 PROVE  Exists(v, SubSeq(p, 1, base + n))
    OBVIOUS
  <2>2. base + n \in base + 1 .. base + n
    BY <2>1, <1>5
  <2> QED
    BY <1>4, <1>6, <2>2, ExistsFacts, NodeFacts
<1> QED
  BY <1>1, <1>4, <1>10, <1>11, <1>12, <1>13 DEF u, SoundTree

\* What an operation leaves: a sound tree with everything that was there.
Leaves(t, u) == SoundTree(u) /\ Grows(t, u)

LEMMA SameTree == \A t : SoundTree(t) => Leaves(t, t) /\ KeepsText(t, t)
<1> SUFFICES ASSUME NEW t, SoundTree(t)
             PROVE  Leaves(t, t) /\ KeepsText(t, t)
  OBVIOUS
<1>1. Grows(t, t)
  BY DEF Grows
<1>2. ASSUME NEW p \in Paths, IsFile(t, p)
      PROVE  IsPrefix(t[p].text, t[p].text)
  <2>1. t[p].text \in Seq(Written)
    BY <1>2, ExistsFacts DEF SoundTree
  <2> QED
    BY <2>1, LenProperties DEF IsPrefix
<1> QED
  BY <1>1, <1>2 DEF Leaves, KeepsText

LEMMA RestOf ==
    \A m \in Nat : \A b \in 0 .. m : b # m => b + (m - b) = m /\ m - b > 0
  OBVIOUS

LEMMA MkdirOutcome ==
    ASSUME NEW t, SoundTree(t), NEW p \in Paths, NEW o \in Mkdir(t, p)
    PROVE  /\ Leaves(t, o.tree)
           /\ KeepsText(t, o.tree)
           /\ o.result \in BOOLEAN
           /\ o.result = TRUE => Exists(o.tree, p)
<1>1. PICK base \in 0 .. Len(p) :
          /\ Exists(t, SubSeq(p, 1, base))
          /\ \A k \in base + 1 .. Len(p) : ~Exists(t, SubSeq(p, 1, k))
          /\ Cardinality(ToMake(t, p)) = Len(p) - base
          /\ ToMake(t, p) = {} <=> base = Len(p)
  BY WhatToMake, Zenon
<1>2. Len(p) \in Nat /\ SubSeq(p, 1, Len(p)) = p
  BY Beginnings
<1>3. base = Len(p) - Cardinality(ToMake(t, p)) /\ base \in Nat
  <2>1. PICK c : c = Cardinality(ToMake(t, p))
    OBVIOUS
  <2>2. c = Len(p) - base
    BY <1>1, <2>1
  <2>3. base = Len(p) - c /\ base \in Nat
    BY <1>2, <2>2
  <2> QED
    BY <2>1, <2>3
<1> DEFINE Made(n) == WithDirectories(t, p, base, n)
<1>4. Mkdir(t, p) =
          IF ToMake(t, p) = {}
          THEN {[tree |-> t, result |-> TRUE]}
          ELSE IF ~DirectoryAt(t, SubSeq(p, 1, base))
          THEN {[tree |-> t, result |-> FALSE]}
          ELSE {[tree |-> Made(n), result |-> n = Cardinality(ToMake(t, p))] :
                    n \in 0 .. Cardinality(ToMake(t, p))}
  <2> DEFINE Outcomes(b) ==
                 IF ToMake(t, p) = {}
                 THEN {[tree |-> t, result |-> TRUE]}
                 ELSE IF ~DirectoryAt(t, SubSeq(p, 1, b))
                 THEN {[tree |-> t, result |-> FALSE]}
                 ELSE {[tree |-> WithDirectories(t, p, b, n),
                        result |-> n = Cardinality(ToMake(t, p))] :
                           n \in 0 .. Cardinality(ToMake(t, p))}
  <2>1. Mkdir(t, p) = Outcomes(Len(p) - Cardinality(ToMake(t, p)))
    BY Zenon DEF Mkdir, WithDirectories
  <2>2. Mkdir(t, p) = Outcomes(base)
    <3> HIDE DEF Outcomes
    <3> QED
      BY <1>3, <2>1
  <2> QED
    BY <2>2, Zenon
<1>5. CASE ToMake(t, p) = {}
  <2>1. o = [tree |-> t, result |-> TRUE]
    BY <1>4, <1>5
  <2>2. Exists(t, p)
    BY <1>1, <1>2, <1>5
  <2> QED
    BY <2>1, <2>2, SameTree
<1>6. CASE ToMake(t, p) # {} /\ ~DirectoryAt(t, SubSeq(p, 1, base))
  <2>1. o = [tree |-> t, result |-> FALSE]
    BY <1>4, <1>6
  <2> QED
    BY <2>1, SameTree
<1>7. CASE ToMake(t, p) # {} /\ DirectoryAt(t, SubSeq(p, 1, base))
  <2> HIDE DEF Made
  <2>1. PICK n \in 0 .. Cardinality(ToMake(t, p)) :
            o = [tree |-> Made(n), result |-> n = Cardinality(ToMake(t, p))]
    BY <1>4, <1>7
  <2>2. n \in 0 .. Len(p) - base
    BY <1>1, <2>1
  <2>3. /\ SoundTree(Made(n))
        /\ Grows(t, Made(n))
        /\ KeepsText(t, Made(n))
        /\ n > 0 => Exists(Made(n), SubSeq(p, 1, base + n))
    BY <1>1, <1>7, <2>2, MadeDirectories DEF Made
  <2>4. o.tree = Made(n) /\ o.result = (n = Cardinality(ToMake(t, p)))
    BY <2>1
  <2>5. ASSUME n = Cardinality(ToMake(t, p))
        PROVE  Exists(Made(n), p)
    <3>1. base + n = Len(p) /\ n > 0
      <4>1. n = Len(p) - base /\ base # Len(p)
        BY <1>1, <1>7, <2>5
      <4> QED
        BY <1>2, <4>1, RestOf
    <3> QED
      BY <1>2, <2>3, <3>1
  <2> QED
    BY <2>3, <2>4, <2>5 DEF Leaves
<1> QED
  BY <1>5, <1>6, <1>7

\* A file with some text takes the place of a file or of nothing.
LEMMA FilePut ==
    ASSUME NEW t, SoundTree(t), NEW p \in Paths, NEW s \in Seq(Written),
           DirectoryAt(t, Parent(p)), ~DirectoryAt(t, p),
           NEW u, u = [t EXCEPT ![p] = File(s)]
    PROVE  /\ Leaves(t, u)
           /\ Exists(u, p)
           /\ (IsFile(t, p) => IsPrefix(t[p].text, s)) => KeepsText(t, u)
<1>1. u = [t EXCEPT ![p] = File(s)]
  OBVIOUS
<1>2. t \in [Paths -> Nodes] /\ Closed(t)
  BY DEF SoundTree
<1>3. /\ u \in [Paths -> Nodes]
      /\ u[p] = File(s)
      /\ \A q \in Paths : q # p => u[q] = t[q]
  BY <1>1, <1>2, NodeFacts
<1>4. Exists(u, p) /\ ~DirectoryAt(u, p)
  BY <1>3, ExistsFacts, NodeFacts
<1>5. \A q \in Paths : q # p => (Exists(u, q) <=> Exists(t, q)) /\ (DirectoryAt(u, q) <=> DirectoryAt(t, q))
  BY <1>2, <1>3, ExistsFacts
<1>6. \A q \in Paths : DirectoryAt(t, q) => DirectoryAt(u, q)
  BY <1>5
<1>7. Closed(u)
  <2> SUFFICES ASSUME NEW q \in Paths, Exists(u, q)
               PROVE  DirectoryAt(u, Parent(q))
    BY DEF Closed
  <2>1. DirectoryAt(t, Parent(q))
    BY <1>2, <1>5 DEF Closed
  <2>2. CASE Parent(q) = <<>>
    BY <2>2 DEF DirectoryAt
  <2>3. CASE Parent(q) \in Paths
    BY <1>6, <2>1, <2>3
  <2> QED
    BY <2>2, <2>3, Parents
<1>8. Grows(t, u)
  BY <1>4, <1>5 DEF Grows
<1>9. ASSUME IsFile(t, p) => IsPrefix(t[p].text, s)
      PROVE  KeepsText(t, u)
  <2> SUFFICES ASSUME NEW q \in Paths, IsFile(t, q)
               PROVE  IsPrefix(t[q].text, u[q].text)
    BY DEF KeepsText
  <2>1. CASE q = p
    BY <1>3, <1>9, <2>1, NodeFacts
  <2>2. CASE q # p
    BY <1>3, <2>2, SameTree DEF KeepsText
  <2> QED
    BY <2>1, <2>2
<1> QED
  BY <1>1, <1>3, <1>4, <1>7, <1>8, <1>9 DEF Leaves, SoundTree

LEMMA WriteOutcome ==
    ASSUME NEW t, SoundTree(t), NEW p \in Paths, NEW content \in Seq(Written),
           NEW o \in WriteFile(t, p, content)
    PROVE  /\ Leaves(t, o.tree)
           /\ o.result \in BOOLEAN
           /\ o.result = TRUE => Exists(o.tree, p)
<1>1. CASE o = [tree |-> t, result |-> FALSE]
  BY <1>1, SameTree
<1>2. CASE o # [tree |-> t, result |-> FALSE]
  <2>1. CanOpenToWrite(t, p)
    BY <1>2 DEF WriteFile
  <2>2. PICK n \in 0 .. Len(content) :
            o = [tree |-> [t EXCEPT ![p] = File(SubSeq(content, 1, n))], result |-> TRUE]
    BY <1>2, <2>1, Zenon DEF WriteFile
  <2>3. SubSeq(content, 1, n) \in Seq(Written)
    BY LenProperties, SubSeqProperties
  <2>4. /\ o.tree = [t EXCEPT ![p] = File(SubSeq(content, 1, n))]
        /\ o.result = TRUE
    BY <2>2
  <2> QED
    BY <2>1, <2>3, <2>4, FilePut, Zenon DEF CanOpenToWrite
<1> QED
  BY <1>1, <1>2

LEMMA AppendedKeeps ==
    ASSUME NEW s \in Seq(Written)
    PROVE  IsPrefix(s, Append(s, Space)) /\ Append(s, Space) \in Seq(Written)
<1>1. Space \in Written
  BY DEF Written
<1>2. /\ Append(s, Space) \in Seq(Written)
      /\ Len(Append(s, Space)) = Len(s) + 1
      /\ \A i \in 1 .. Len(s) : Append(s, Space)[i] = s[i]
      /\ Len(s) \in Nat
  BY <1>1, AppendProperties, LenProperties
<1>3. PICK a : a = Append(s, Space)
  OBVIOUS
<1>4. /\ SubSeq(a, 1, Len(s)) \in Seq(Written)
      /\ Len(SubSeq(a, 1, Len(s))) = Len(s)
      /\ \A i \in 1 .. Len(s) : SubSeq(a, 1, Len(s))[i] = a[i]
  BY <1>2, <1>3, SubSeqProperties
<1>5. /\ SubSeq(s, 1, Len(s)) \in Seq(Written)
      /\ Len(SubSeq(s, 1, Len(s))) = Len(s)
      /\ \A i \in 1 .. Len(s) : SubSeq(s, 1, Len(s))[i] = s[i]
  BY <1>2, SubSeqProperties
<1>6. SubSeq(s, 1, Len(s)) = SubSeq(a, 1, Len(s))
  BY <1>2, <1>3, <1>4, <1>5, SeqEqual
<1> QED
  BY <1>2, <1>3, <1>6 DEF IsPrefix

LEMMA TouchOutcome ==
    ASSUME NEW t, SoundTree(t), NEW p \in Paths, NEW o \in TouchFile(t, p)
    PROVE  Leaves(t, o.tree) /\ KeepsText(t, o.tree) /\ o.result \in BOOLEAN
<1>1. CASE o = [tree |-> t, result |-> TRUE]
  BY <1>1, SameTree
<1>2. CASE o # [tree |-> t, result |-> TRUE] /\ IsFile(t, p)
  <2> DEFINE longer == [t EXCEPT ![p].text = Append(@, Space)]
  <2>1. o = [tree |-> longer, result |-> TRUE]
    BY <1>2 DEF TouchFile
  <2>2. /\ t \in [Paths -> Nodes]
        /\ t[p].text \in Seq(Written)
        /\ t[p] = File(t[p].text)
        /\ Exists(t, p)
        /\ ~DirectoryAt(t, p)
    BY <1>2, ExistsFacts DEF SoundTree, IsFile
  <2>3. DirectoryAt(t, Parent(p))
    BY <2>2 DEF SoundTree, Closed
  <2>4. longer = [t EXCEPT ![p] = File(Append(t[p].text, Space))]
    <3>1. [t[p] EXCEPT !.text = Append(t[p].text, Space)] = File(Append(t[p].text, Space))
      <4>1. PICK x : x = t[p].text
        OBVIOUS
      <4>2. [File(x) EXCEPT !.text = Append(x, Space)] = File(Append(x, Space))
        BY DEF File
      <4> QED
        BY <2>2, <4>1, <4>2
    <3> QED
      BY <3>1
  <2>5. o.tree = [t EXCEPT ![p] = File(Append(t[p].text, Space))] /\ o.result = TRUE
    BY <2>1, <2>4
  <2>6. /\ Append(t[p].text, Space) \in Seq(Written)
        /\ IsPrefix(t[p].text, Append(t[p].text, Space))
    BY <2>2, AppendedKeeps
  <2> HIDE DEF longer
  <2> QED
    BY <2>2, <2>3, <2>5, <2>6, FilePut, Zenon
<1>3. CASE o # [tree |-> t, result |-> TRUE] /\ ~IsFile(t, p)
  <2>1. o = [tree |-> [t EXCEPT ![p] = File(<<>>)], result |-> TRUE] /\ CanOpenToWrite(t, p)
    BY <1>3 DEF TouchFile
  <2>2. o.tree = [t EXCEPT ![p] = File(<<>>)] /\ o.result = TRUE
    BY <2>1
  <2> QED
    BY <1>3, <2>1, <2>2, TextsTyped, FilePut DEF CanOpenToWrite
<1> QED
  BY <1>1, <1>2, <1>3

LEMMA GrowthAdds ==
    ASSUME NEW t, NEW u, NEW v, Leaves(t, u), Leaves(u, v)
    PROVE  Leaves(t, v)
  BY DEF Leaves, Grows

LEMMA OpenOutcome ==
    ASSUME NEW t, SoundTree(t), NEW p \in Paths, NEW o \in OpenForWriting(t, p)
    PROVE  /\ Leaves(t, o.tree)
           /\ o.result \in BOOLEAN
           /\ o.result = TRUE => Exists(o.tree, p)
<1>1. CASE Len(p) = 1
  <2>1. o \in WriteFile(t, p, <<>>)
    BY <1>1 DEF OpenForWriting
  <2> QED
    BY <2>1, TextsTyped, WriteOutcome
<1>2. CASE Len(p) # 1
  <2>1. PICK m \in Mkdir(t, Parent(p)) : o \in IF m.result THEN WriteFile(m.tree, p, <<>>) ELSE {m}
    BY <1>2, Zenon DEF OpenForWriting
  <2>2. Parent(p) \in Paths
    <3>1. Len(p) \in Nat /\ Len(p) # 0 /\ Parent(p) = SubSeq(p, 1, Len(p) - 1)
      BY Beginnings
    <3>2. Len(p) - 1 \in 1 .. Len(p)
      BY <1>2, <3>1, NotTheFirst, Zenon
    <3> QED
      BY <3>1, <3>2, Beginnings
  <2>3. Leaves(t, m.tree) /\ m.result \in BOOLEAN
    BY <2>1, <2>2, MkdirOutcome
  <2>4. CASE m.result = TRUE
    <3>1. o \in WriteFile(m.tree, p, <<>>)
      BY <2>1, <2>4, Zenon
    <3>2. Leaves(m.tree, o.tree) /\ o.result \in BOOLEAN /\ (o.result = TRUE => Exists(o.tree, p))
      BY <2>3, <3>1, TextsTyped, WriteOutcome DEF Leaves
    <3> QED
      BY <2>3, <3>2, GrowthAdds
  <2>5. CASE m.result = FALSE
    <3>1. o = m
      BY <2>1, <2>5, Zenon
    <3> QED
      BY <2>3, <2>5, <3>1
  <2> QED
    BY <2>3, <2>4, <2>5, Zenon
<1> QED
  BY <1>1, <1>2

\* Every position lies in some chunk that is compared.
LEMMA SomeChunk ==
    ASSUME NEW C \in Nat \ {0}, NEW n \in Nat, NEW k \in 1 .. n
    PROVE  /\ (k - 1) \div C \in 0 .. n \div C
           /\ k \in C * ((k - 1) \div C) + 1 .. C * ((k - 1) \div C + 1)
<1> DEFINE q == (k - 1) \div C
           r == (k - 1) % C
           Q == n \div C
           R == n % C
<1>1. q \in Nat /\ r \in 0 .. C - 1 /\ k - 1 = C * q + r
  <2>1. k - 1 \in Nat
    OBVIOUS
  <2> QED
    BY <2>1, SMT
<1>2. Q \in Nat /\ R \in 0 .. C - 1 /\ n = C * Q + R
  BY SMT
<1> HIDE DEF q, r, Q, R
<1>3. ASSUME q > Q
      PROVE  FALSE
  <2>1. C * q >= C * (Q + 1)
    BY <1>1, <1>2, <1>3, SMT
  <2>2. C * (Q + 1) = C * Q + C
    BY <1>2, SMT
  <2>3. C * q \in Nat /\ C * Q \in Nat
    BY <1>1, <1>2, SMT
  <2> QED
    BY <1>1, <1>2, <2>1, <2>2, <2>3
<1>4. C * (q + 1) = C * q + C /\ C * q \in Nat
  BY <1>1, SMT
<1>5. k \in C * q + 1 .. C * (q + 1)
  BY <1>1, <1>4
<1>6. q \in 0 .. Q
  BY <1>1, <1>2, <1>3
<1> QED
  BY <1>5, <1>6 DEF q, Q

LEMMA EqualInChunks ==
    ASSUME NEW S, NEW a \in Seq(S), NEW b \in Seq(S), Len(a) = Len(b), ChunksEqual(a, b)
    PROVE  a = b
<1>1. Len(a) \in Nat /\ Len(b) = Len(a) /\ ChunkSize \in Nat \ {0}
  BY LenProperties, FilesAssumption
<1> SUFFICES ASSUME NEW k \in 1 .. Len(a)
             PROVE  a[k] = b[k]
  BY <1>1, SeqEqual
<1>2. PICK n \in 0 .. Len(a) \div ChunkSize :
          k \in ChunkSize * n + 1 .. ChunkSize * (n + 1)
  BY <1>1, SomeChunk, Zenon
<1>3. n \in Nat
  BY <1>2
<1> DEFINE last == IF (n + 1) * ChunkSize < Len(a) THEN (n + 1) * ChunkSize ELSE Len(a)
<1>4. SubSeq(a, n * ChunkSize + 1, last) = SubSeq(b, n * ChunkSize + 1, last)
  BY <1>2, Zenon DEF ChunksEqual
<1>5. PICK first : first = n * ChunkSize
  OBVIOUS
<1>6. PICK end : end = last
  OBVIOUS
<1>7. /\ first \in Nat
      /\ end \in Nat
      /\ end <= Len(a)
      /\ k \in first + 1 .. end
  <2>1. PICK m : m = (n + 1) * ChunkSize
    OBVIOUS
  <2>2. /\ m \in Nat
        /\ first \in Nat
        /\ ChunkSize * n = first
        /\ ChunkSize * (n + 1) = m
    BY <1>1, <1>3, <1>5, <2>1, SMT
  <2>3. end = IF m < Len(a) THEN m ELSE Len(a)
    BY <1>6, <2>1, Zenon
  <2>4. k \in first + 1 .. m
    BY <1>2, <2>2
  <2> HIDE DEF last
  <2> QED
    BY <1>1, <2>2, <2>3, <2>4
<1> HIDE DEF last
<1>8. SubSeq(a, first + 1, end) = SubSeq(b, first + 1, end)
  BY <1>4, <1>5, <1>6
<1>9. \A c \in Seq(S) : Len(c) = Len(a) => SubSeq(c, first + 1, end)[k - first] = c[k]
  <2> SUFFICES ASSUME NEW c \in Seq(S), Len(c) = Len(a)
               PROVE  SubSeq(c, first + 1, end)[k - first] = c[k]
    OBVIOUS
  <2>1. \A i \in 1 .. end - first : SubSeq(c, first + 1, end)[i] = c[first + 1 + i - 1]
    <3>1. first + 1 \in 1 .. Len(c) + 1 /\ end \in first .. Len(c)
      BY <1>1, <1>7
    <3> QED
      BY <1>7, <3>1, SubSeqProperties
  <2>2. k - first \in 1 .. end - first /\ first + 1 + (k - first) - 1 = k
    BY <1>1, <1>7
  <2> QED
    BY <2>1, <2>2
<1> QED
  BY <1>1, <1>8, <1>9

LEMMA CompareOutcome ==
    ASSUME NEW t, SoundTree(t), NEW p \in Paths, NEW content \in Seq(Written),
           NEW found \in CompareFile(t, p, content)
    PROVE  /\ found = "match" => t[p] = File(content)
           /\ found = "noMatch" => t[p] # File(content)
           /\ found \in {"failed", "noMatch", "match"}
<1>1. CASE ~IsFile(t, p)
  BY <1>1 DEF CompareFile
<1>2. CASE IsFile(t, p)
  <2>1. t[p].text \in Seq(Written) /\ t[p] = File(t[p].text)
    BY <1>2, ExistsFacts DEF SoundTree
  <2>2. CASE Len(t[p].text) # Len(content)
    <3>1. found \in {"failed", "noMatch"}
      BY <1>2, <2>2 DEF CompareFile
    <3>2. t[p] # File(content)
      BY <2>1, <2>2, NodeFacts
    <3> QED
      BY <3>1, <3>2
  <2>3. CASE Len(t[p].text) = Len(content)
    <3>1. found \in {"failed", IF ChunksEqual(t[p].text, content) THEN "match" ELSE "noMatch"}
      BY <1>2, <2>3 DEF CompareFile
    <3>2. CASE ChunksEqual(t[p].text, content)
      <4>1. t[p].text = content
        BY <2>1, <2>3, <3>2, EqualInChunks, Zenon
      <4> QED
        BY <2>1, <3>1, <3>2, <4>1
    <3>3. CASE ~ChunksEqual(t[p].text, content)
      <4>1. t[p].text # content
        BY <3>3 DEF ChunksEqual
      <4>2. t[p] # File(content)
        BY <2>1, <4>1, NodeFacts
      <4> QED
        BY <3>1, <3>3, <4>2
    <3> QED
      BY <3>2, <3>3
  <2> QED
    BY <2>2, <2>3
<1> QED
  BY <1>1, <1>2

FilesInv == SoundTree(tree) /\ ReportedIsThere /\ MatchIsEquality

\* What a step on files may do.
FilesStep ==
    /\ Grows(tree, tree')
    /\ done'.operation \in {"mkdir", "touch", "compare"} => KeepsText(tree, tree')

LEMMA FilesInvInit == FilesInit => FilesInv
<1> SUFFICES ASSUME FilesInit
             PROVE  FilesInv
  OBVIOUS
<1>1. tree = [p \in Paths |-> MISSING] /\ done.operation = "none"
  BY DEF FilesInit
<1>2. tree \in [Paths -> Nodes]
  BY <1>1, NodeFacts
<1>3. \A p \in Paths : ~Exists(tree, p)
  BY <1>1, <1>2, ExistsFacts
<1> QED
  BY <1>1, <1>2, <1>3 DEF FilesInv, SoundTree, Closed, ReportedIsThere, MatchIsEquality

\* An operation that changes files does what its outcomes do.
LEMMA DoStep ==
    ASSUME SoundTree(tree),
           NEW operation \in {"mkdir", "touch", "open", "write"}, NEW p \in Paths, NEW outcomes,
           Do(operation, p, outcomes),
           \A o \in outcomes : Leaves(tree, o.tree) /\ o.result \in BOOLEAN,
           operation # "touch" => \A o \in outcomes : o.result = TRUE => Exists(o.tree, p),
           operation \in {"mkdir", "touch"} => \A o \in outcomes : KeepsText(tree, o.tree)
    PROVE  FilesInv' /\ FilesStep
<1>1. PICK o \in outcomes :
          /\ tree' = o.tree
          /\ done' = [operation |-> operation, path |-> p, result |-> o.result]
  BY DEF Do
<1>2. Leaves(tree, tree') /\ o.result \in BOOLEAN
  BY <1>1
<1>3. done'.operation = operation /\ done'.path = p /\ done'.result = o.result
  BY <1>1
<1>4. operation # "touch" /\ o.result = TRUE => Exists(tree', p)
  BY <1>1
<1>5. operation \in {"mkdir", "touch"} => KeepsText(tree, tree')
  BY <1>1
<1>6. ReportedIsThere'
  <2> SUFFICES ASSUME done'.operation \in {"mkdir", "write", "open"}, done'.result
               PROVE  Exists(tree', done'.path)
    BY DEF ReportedIsThere
  <2>1. operation # "touch"
    BY <1>3
  <2>2. o.result = TRUE
    BY <1>2, <1>3, Zenon
  <2>3. Exists(tree', p)
    BY <1>4, <2>1, <2>2, Zenon
  <2> QED
    BY <1>3, <2>3, Zenon
<1>7. MatchIsEquality'
  BY <1>3 DEF MatchIsEquality
<1> QED
  BY <1>2, <1>3, <1>5, <1>6, <1>7 DEF FilesInv, FilesStep, Leaves

LEMMA FilesInvStep == FilesInv /\ [FilesNext]_filesVars => FilesInv' /\ (FilesStep \/ UNCHANGED filesVars)
<1> SUFFICES ASSUME FilesInv, [FilesNext]_filesVars
             PROVE  FilesInv' /\ (FilesStep \/ UNCHANGED filesVars)
  OBVIOUS
<1>1. SoundTree(tree)
  BY DEF FilesInv
<1>2. CASE UNCHANGED filesVars
  BY <1>2 DEF FilesInv, filesVars, SoundTree, Closed, Exists, DirectoryAt, ReportedIsThere, MatchIsEquality
<1>3. ASSUME NEW p \in Paths, Do("mkdir", p, Mkdir(tree, p))
      PROVE  FilesInv' /\ FilesStep
  <2>1. \A o \in Mkdir(tree, p) :
            /\ Leaves(tree, o.tree) /\ o.result \in BOOLEAN
            /\ o.result = TRUE => Exists(o.tree, p)
            /\ KeepsText(tree, o.tree)
    BY <1>1, MkdirOutcome
  <2> QED
    BY <1>1, <1>3, <2>1, DoStep
<1>4. ASSUME NEW p \in Paths, Do("touch", p, TouchFile(tree, p))
      PROVE  FilesInv' /\ FilesStep
  <2>1. \A o \in TouchFile(tree, p) :
            /\ Leaves(tree, o.tree) /\ o.result \in BOOLEAN
            /\ KeepsText(tree, o.tree)
    BY <1>1, TouchOutcome
  <2> QED
    BY <1>1, <1>4, <2>1, DoStep
<1>5. ASSUME NEW p \in Paths, Do("open", p, OpenForWriting(tree, p))
      PROVE  FilesInv' /\ FilesStep
  <2>1. \A o \in OpenForWriting(tree, p) :
            /\ Leaves(tree, o.tree) /\ o.result \in BOOLEAN
            /\ o.result = TRUE => Exists(o.tree, p)
    BY <1>1, OpenOutcome
  <2> QED
    BY <1>1, <1>5, <2>1, DoStep
<1>6. ASSUME NEW p \in Paths, NEW content \in Texts, Do("write", p, WriteFile(tree, p, content))
      PROVE  FilesInv' /\ FilesStep
  <2>1. \A o \in WriteFile(tree, p, content) :
            /\ Leaves(tree, o.tree) /\ o.result \in BOOLEAN
            /\ o.result = TRUE => Exists(o.tree, p)
    BY <1>1, TextsTyped, WriteOutcome
  <2> QED
    BY <1>1, <1>6, <2>1, DoStep
<1>7. ASSUME NEW p \in Paths, NEW content \in Texts, NEW found \in {"failed", "noMatch", "match"},
             found \in CompareFile(tree, p, content),
             done' = [operation |-> "compare", path |-> p, text |-> content, result |-> found],
             UNCHANGED tree
      PROVE  FilesInv' /\ FilesStep
  <2>1. /\ found = "match" => tree[p] = File(content)
        /\ found = "noMatch" => tree[p] # File(content)
    BY <1>1, <1>7, TextsTyped, CompareOutcome
  <2>2. /\ done'.operation = "compare"
        /\ done'.path = p
        /\ done'.text = content
        /\ done'.result = found
    BY <1>7
  <2>3. MatchIsEquality'
    BY <1>7, <2>1, <2>2 DEF MatchIsEquality
  <2>4. ReportedIsThere'
    BY <2>2 DEF ReportedIsThere
  <2>5. Leaves(tree, tree') /\ KeepsText(tree, tree')
    BY <1>1, <1>7, SameTree
  <2> QED
    BY <2>3, <2>4, <2>5 DEF FilesInv, FilesStep, Leaves
<1> QED
  BY <1>2, <1>3, <1>4, <1>5, <1>6, <1>7, Zenon DEF FilesNext

\* Whichever calls of the system fail, in whatever order files are operated on: what was
\* reported is there, what was reported as equal is equal, files and directories stand in
\* directories, and nothing else changes what is there (pmk_mkdir.c, pmk_writeFile.c,
\* pmk_compareFile.c, pmk_touchFile.c).
THEOREM FilesReported == FilesSpec => FilesAsReported
<1>1. FilesInv => TreeIsClosed /\ ReportedIsThere /\ MatchIsEquality
  BY DEF FilesInv, SoundTree, Closed, TreeIsClosed
<1> DEFINE NothingLess ==
        \A p \in Paths :
            /\ Exists(tree, p) => Exists(tree, p)' /\ (DirectoryAt(tree, p) <=> DirectoryAt(tree', p))
            /\ IsFile(tree, p) /\ done'.operation \in {"mkdir", "touch", "compare"} =>
                  IsPrefix(tree[p].text, tree'[p].text)
<1>2. FilesStep => NothingLess
  BY DEF FilesStep, Grows, KeepsText, Exists
<1>3. FilesInv /\ [FilesNext]_filesVars => FilesInv' /\ [NothingLess]_filesVars
  BY <1>2, FilesInvStep
<1> HIDE DEF NothingLess
<1>4. FilesSpec => []FilesInv /\ [][NothingLess]_filesVars
  BY <1>3, FilesInvInit, PTL DEF FilesSpec
<1>5. [][NothingLess]_filesVars => NothingDeleted
  BY PTL DEF NothingDeleted, NothingLess
<1> QED
  BY <1>1, <1>4, <1>5, PTL DEF FilesAsReported

-----------------------------------------------------------------------------
(***************************************************************************)
(* Exports.                                                                *)
(***************************************************************************)
Saved == [buffer : Nat, eol : Seq(Written), level : Nat]
Meanings == [text : Seq(Written), eol : Seq(Written), level : Nat]
ExportFrames ==
    [kind : {"capture"}, path : {NONE, ExportPath}, old : Saved] \cup [kind : {"pcall"}]

\* c[k] is the number of meanings there are with k calls running: one for the outside and one
\* for each capture.  The last two conjuncts sum up the third.
Depths(c, r) ==
    /\ c \in [0 .. Len(r) -> Nat]
    /\ c[0] = 1
    /\ \A k \in 1 .. Len(r) : c[k] = IF r[k].kind = "capture" THEN c[k - 1] + 1 ELSE c[k - 1]
    /\ \A i, j \in 0 .. Len(r) : i <= j => c[i] <= c[j]
    /\ \A i, j \in 0 .. Len(r) :
          i <= j /\ (\A k \in i + 1 .. j : r[k].kind = "capture") => c[j] = c[i] + (j - i)

\* The globals s are those of the capture with the meaning l, at a depth.
Match(s, l, depth, bs) ==
    /\ s.level = l.level
    /\ s.eol = l.eol
    /\ s.buffer # 0 => bs[s.buffer] = l.text
    /\ s.buffer = 0 <=> depth = 1

\* The calls around the capture that an error last lost.
Intact(k, l) == l = -1 \/ k <= l

ExportTypes ==
    /\ SoundTree(tree)
    /\ buffers \in Seq(Seq(Written))
    /\ settings \in Saved
    /\ settings.buffer <= Len(buffers)
    /\ running \in Seq(ExportFrames)
    /\ lexical \in Seq(Meanings)
    /\ lost \in -1 .. Len(running)

\* A capture puts back an older buffer than any it or the captures in it make.
OlderBuffers ==
    \A k \in 1 .. Len(running) :
        running[k].kind = "capture" =>
            /\ running[k].old.buffer < settings.buffer
            /\ \A j \in k + 1 .. Len(running) :
                  running[j].kind = "capture" => running[k].old.buffer < running[j].old.buffer

\* What intact captures put back is what the captures around them mean.
PutBackAsMeant(c) ==
    \A k \in 1 .. Len(running) :
        running[k].kind = "capture" /\ Intact(k, lost) =>
            Match(running[k].old, lexical[c[k - 1]], c[k - 1], buffers)

CurrentAsMeant == lost = -1 => Match(settings, lexical[Len(lexical)], Len(lexical), buffers)

NestedInv(c) ==
    /\ ExportTypes
    /\ Depths(c, running)
    /\ Len(lexical) = c[Len(running)]
    /\ OlderBuffers
    /\ PutBackAsMeant(c)
    /\ CurrentAsMeant

ExportInv == (\E c : NestedInv(c)) /\ FalseMeansCurrent

LEMMA DepthFacts ==
    ASSUME NEW r \in Seq(ExportFrames), NEW c, Depths(c, r)
    PROVE  /\ Len(r) \in Nat
           /\ \A k \in 0 .. Len(r) : c[k] \in Nat /\ c[k] >= 1 /\ c[k] <= c[Len(r)]
           /\ \A k \in 1 .. Len(r) :
                 r[k].kind = "capture" =>
                     c[k - 1] < c[Len(r)] /\ c[k - 1] >= 1 /\ c[k - 1] \in Nat /\ c[k] = c[k - 1] + 1
<1>1. Len(r) \in Nat
  BY LenProperties
<1>2. \A k \in 0 .. Len(r) : c[k] \in Nat /\ c[k] >= 1 /\ c[k] <= c[Len(r)]
  <2>1. 0 \in 0 .. Len(r) /\ Len(r) \in 0 .. Len(r)
    BY <1>1
  <2> QED
    BY <1>1, <2>1 DEF Depths
<1>3. \A k \in 1 .. Len(r) : k \in 0 .. Len(r) /\ k - 1 \in 0 .. Len(r)
  BY <1>1
<1>4. \A k \in 1 .. Len(r) : r[k].kind = "capture" => c[k] = c[k - 1] + 1
  BY DEF Depths
<1> QED
  BY <1>1, <1>2, <1>3, <1>4

\* The depths with one more frame, and with only the first frames.
LEMMA DepthsAppended ==
    ASSUME NEW r \in Seq(ExportFrames), NEW c, Depths(c, r), NEW f \in ExportFrames
    PROVE  LET d == [k \in 0 .. Len(r) + 1 |->
                        IF k <= Len(r) THEN c[k]
                        ELSE IF f.kind = "capture" THEN c[Len(r)] + 1 ELSE c[Len(r)]]
           IN  Depths(d, Append(r, f))
<1>1. PICK d : d = [k \in 0 .. Len(r) + 1 |->
                        IF k <= Len(r) THEN c[k]
                        ELSE IF f.kind = "capture" THEN c[Len(r)] + 1 ELSE c[Len(r)]]
  OBVIOUS
<1>2. PICK n : n = Len(r)
  OBVIOUS
<1>3. n \in Nat /\ \A k \in 0 .. n : c[k] \in Nat /\ c[k] >= 1 /\ c[k] <= c[n]
  BY <1>2, DepthFacts, Zenon
<1>4. PICK q : q = Append(r, f)
  OBVIOUS
<1>5. Len(q) = n + 1 /\ q[n + 1] = f /\ \A k \in 1 .. n : q[k] = r[k]
  BY <1>2, <1>4, AppendProperties
<1>6. /\ \A k \in 0 .. n : d[k] = c[k]
      /\ d[n + 1] = IF f.kind = "capture" THEN c[n] + 1 ELSE c[n]
      /\ d \in [0 .. n + 1 -> Nat]
  BY <1>1, <1>2, <1>3
<1>7. /\ c[0] = 1
      /\ \A k \in 1 .. n : c[k] = IF r[k].kind = "capture" THEN c[k - 1] + 1 ELSE c[k - 1]
      /\ \A i, j \in 0 .. n : i <= j => c[i] <= c[j]
      /\ \A i, j \in 0 .. n :
            i <= j /\ (\A k \in i + 1 .. j : r[k].kind = "capture") => c[j] = c[i] + (j - i)
  BY <1>2, Zenon DEF Depths
<1>8. d[0] = 1
  BY <1>3, <1>6, <1>7
<1>9. ASSUME NEW k \in 1 .. n + 1
      PROVE  d[k] = IF q[k].kind = "capture" THEN d[k - 1] + 1 ELSE d[k - 1]
  <2>1. CASE k = n + 1
    BY <1>3, <1>5, <1>6, <2>1
  <2>2. CASE k # n + 1
    <3>1. k \in 1 .. n /\ k \in 0 .. n /\ k - 1 \in 0 .. n
      BY <1>3, <2>2
    <3> QED
      BY <1>5, <1>6, <1>7, <3>1
  <2> QED
    BY <2>1, <2>2
<1>10. ASSUME NEW i \in 0 .. n + 1, NEW j \in 0 .. n + 1, i <= j
       PROVE  d[i] <= d[j]
  <2>1. CASE j = n + 1 /\ i # n + 1
    <3>1. i \in 0 .. n
      BY <1>3, <2>1
    <3>2. d[i] = c[i] /\ c[i] \in Nat /\ c[i] <= c[n] /\ c[n] \in Nat
      BY <1>3, <1>6, <3>1
    <3> QED
      BY <1>6, <2>1, <3>2
  <2>2. CASE i = n + 1
    <3>1. i = j
      BY <1>3, <1>10, <2>2
    <3>2. d[i] \in Nat
      BY <1>6
    <3> QED
      BY <3>1, <3>2
  <2>3. CASE j # n + 1 /\ i # n + 1
    <3>1. i \in 0 .. n /\ j \in 0 .. n
      BY <1>3, <2>3
    <3> QED
      BY <1>6, <1>7, <1>10, <3>1
  <2> QED
    BY <2>1, <2>2, <2>3
<1>11. ASSUME NEW i \in 0 .. n + 1, NEW j \in 0 .. n + 1, i <= j,
              \A k \in i + 1 .. j : q[k].kind = "capture"
       PROVE  d[j] = d[i] + (j - i)
  <2>1. CASE i = j
    <3>1. d[i] \in Nat
      BY <1>6
    <3> QED
      BY <2>1, <3>1
  <2>2. CASE i # j /\ j = n + 1
    <3>1. i \in 0 .. n /\ n \in 0 .. n /\ n + 1 \in i + 1 .. j
      BY <1>3, <1>11, <2>2
    <3>2. \A k \in i + 1 .. n : k \in i + 1 .. j /\ k \in 1 .. n
      BY <1>3, <2>2, <3>1
    <3>3. \A k \in i + 1 .. n : r[k].kind = "capture"
      BY <1>5, <1>11, <3>2
    <3>4. c[n] = c[i] + (n - i)
      BY <1>3, <1>7, <3>1, <3>3
    <3>5. d[n + 1] = c[n] + 1
      BY <1>5, <1>6, <1>11, <3>1
    <3> QED
      BY <1>3, <1>6, <2>2, <3>1, <3>4, <3>5
  <2>3. CASE j # n + 1
    <3>1. i \in 0 .. n /\ j \in 0 .. n
      BY <1>3, <1>11, <2>3
    <3>2. \A k \in i + 1 .. j : k \in 1 .. n
      BY <1>3, <3>1
    <3>3. \A k \in i + 1 .. j : r[k].kind = "capture"
      BY <1>5, <1>11, <3>2
    <3>4. c[j] = c[i] + (j - i)
      BY <1>7, <1>11, <3>1, <3>3
    <3> QED
      BY <1>6, <3>1, <3>4
  <2> QED
    BY <2>1, <2>2, <2>3
<1>12. Depths(d, q)
  BY <1>5, <1>6, <1>8, <1>9, <1>10, <1>11 DEF Depths
<1> QED
  BY <1>1, <1>4, <1>12, Zenon

LEMMA DepthsShortened ==
    ASSUME NEW r \in Seq(ExportFrames), NEW c, Depths(c, r), NEW m \in 0 .. Len(r)
    PROVE  Depths([k \in 0 .. m |-> c[k]], SubSeq(r, 1, m))
<1>1. PICK d : d = [k \in 0 .. m |-> c[k]]
  OBVIOUS
<1>2. PICK n : n = Len(r)
  OBVIOUS
<1>3. n \in Nat /\ m \in 0 .. n
  BY <1>2, LenProperties
<1>4. PICK q : q = SubSeq(r, 1, m)
  OBVIOUS
<1>5. Len(q) = m /\ \A k \in 1 .. m : q[k] = r[k]
  <2>1. m \in Int /\ \A k \in 1 .. m : r[k] \in ExportFrames
    BY <1>2, <1>3, ElementOfSeq
  <2> QED
    BY <1>3, <1>4, <2>1, SubSeqProperties
<1>6. /\ c \in [0 .. n -> Nat]
      /\ c[0] = 1
      /\ \A k \in 1 .. n : c[k] = IF r[k].kind = "capture" THEN c[k - 1] + 1 ELSE c[k - 1]
      /\ \A i, j \in 0 .. n : i <= j => c[i] <= c[j]
      /\ \A i, j \in 0 .. n :
            i <= j /\ (\A k \in i + 1 .. j : r[k].kind = "capture") => c[j] = c[i] + (j - i)
  BY <1>2, Zenon DEF Depths
<1>7. /\ \A k \in 0 .. m : d[k] = c[k] /\ k \in 0 .. n
      /\ d \in [0 .. m -> Nat]
  BY <1>1, <1>3, <1>6
<1>8. d[0] = 1
  BY <1>3, <1>6, <1>7
<1>9. \A k \in 1 .. m : d[k] = IF q[k].kind = "capture" THEN d[k - 1] + 1 ELSE d[k - 1]
  <2>1. \A k \in 1 .. m : k \in 1 .. n /\ k \in 0 .. m /\ k - 1 \in 0 .. m
    BY <1>3
  <2> QED
    BY <1>5, <1>6, <1>7, <2>1
<1>10. \A i, j \in 0 .. m : i <= j => d[i] <= d[j]
  BY <1>6, <1>7
<1>11. ASSUME NEW i \in 0 .. m, NEW j \in 0 .. m, i <= j,
              \A k \in i + 1 .. j : q[k].kind = "capture"
       PROVE  d[j] = d[i] + (j - i)
  <2>1. \A k \in i + 1 .. j : k \in 1 .. m
    BY <1>3
  <2>2. \A k \in i + 1 .. j : r[k].kind = "capture"
    BY <1>5, <1>11, <2>1
  <2> QED
    BY <1>6, <1>7, <1>11, <2>2
<1>12. Depths(d, q)
  BY <1>5, <1>7, <1>8, <1>9, <1>10, <1>11 DEF Depths
<1> QED
  BY <1>1, <1>4, <1>12, Zenon

\* What is put back is among the buffers and the meanings there are.
LEMMA OldOnes ==
    ASSUME NEW c, NestedInv(c)
    PROVE  /\ Len(running) \in Nat
           /\ Len(lexical) \in Nat
           /\ Len(lexical) >= 1
           /\ lexical[Len(lexical)] \in Meanings
           /\ lexical = <<>> => FALSE
           /\ Len(buffers) \in Nat
           /\ settings.buffer \in 0 .. Len(buffers)
           /\ \A k \in 1 .. Len(running) :
                 running[k].kind = "capture" =>
                     /\ running[k] \in ExportFrames
                     /\ running[k].old \in Saved
                     /\ running[k].old.buffer \in 0 .. Len(buffers)
                     /\ running[k].old.buffer < settings.buffer
                     /\ c[k - 1] \in 1 .. Len(lexical) - 1
                     /\ c[k] = c[k - 1] + 1
<1>1. /\ running \in Seq(ExportFrames)
      /\ Depths(c, running)
      /\ Len(lexical) = c[Len(running)]
      /\ lexical \in Seq(Meanings)
      /\ buffers \in Seq(Seq(Written))
      /\ settings \in Saved
      /\ settings.buffer <= Len(buffers)
      /\ OlderBuffers
  BY DEF NestedInv, ExportTypes
<1>2. Len(running) \in Nat /\ Len(buffers) \in Nat
  BY <1>1, LenProperties
<1>3. Len(lexical) \in Nat /\ Len(lexical) >= 1
  BY <1>1, <1>2, DepthFacts
<1>4. lexical[Len(lexical)] \in Meanings /\ (lexical = <<>> => FALSE)
  BY <1>1, <1>3, ElementOfSeq, EmptySeq
<1>5. settings.buffer \in 0 .. Len(buffers)
  BY <1>1, <1>2 DEF Saved
<1>6. ASSUME NEW k \in 1 .. Len(running), running[k].kind = "capture"
      PROVE  /\ running[k] \in ExportFrames
             /\ running[k].old \in Saved
             /\ running[k].old.buffer \in 0 .. Len(buffers)
             /\ running[k].old.buffer < settings.buffer
             /\ c[k - 1] \in 1 .. Len(lexical) - 1
             /\ c[k] = c[k - 1] + 1
  <2>1. running[k] \in ExportFrames
    BY <1>1, ElementOfSeq
  <2>2. running[k].old \in Saved
    BY <2>1, <1>6 DEF ExportFrames
  <2>3. running[k].old.buffer < settings.buffer /\ running[k].old.buffer \in Nat
    BY <1>1, <1>6, <2>2 DEF OlderBuffers, Saved
  <2>4. c[k - 1] < Len(lexical) /\ c[k - 1] >= 1 /\ c[k - 1] \in Nat /\ c[k] = c[k - 1] + 1
    BY <1>1, <1>6, DepthFacts
  <2>5. running[k].old.buffer \in 0 .. Len(buffers)
    BY <1>2, <1>5, <2>3
  <2>6. c[k - 1] \in 1 .. Len(lexical) - 1
    BY <1>3, <2>4
  <2> QED
    BY <2>1, <2>2, <2>3, <2>4, <2>5, <2>6
<1> QED
  BY <1>2, <1>3, <1>4, <1>5, <1>6

\* A call that stays within the innermost capture.
LEMMA WithinCapture ==
    ASSUME NEW c, NestedInv(c), UNCHANGED <<running, lost, tree>>,
           buffers' \in Seq(Seq(Written)), Len(buffers') = Len(buffers),
           \A i \in 1 .. Len(buffers) : i # settings.buffer => buffers'[i] = buffers[i],
           settings' \in Saved, settings'.buffer = settings.buffer,
           lexical' \in Seq(Meanings), Len(lexical') = Len(lexical),
           \A i \in 1 .. Len(lexical) - 1 : lexical'[i] = lexical[i],
           Match(settings, lexical[Len(lexical)], Len(lexical), buffers) =>
               Match(settings', lexical'[Len(lexical)], Len(lexical), buffers')
    PROVE  NestedInv(c)'
<1>1. ExportTypes'
  BY DEF NestedInv, ExportTypes, SoundTree, Closed, Exists, DirectoryAt
<1>2. Depths(c, running)' /\ Len(lexical') = c[Len(running')]
  BY DEF NestedInv, Depths
<1>3. OlderBuffers'
  BY DEF NestedInv, OlderBuffers
<1>4. PutBackAsMeant(c)'
  <2> SUFFICES ASSUME NEW k \in 1 .. Len(running), running[k].kind = "capture", Intact(k, lost)
               PROVE  Match(running[k].old, lexical'[c[k - 1]], c[k - 1], buffers')
    BY DEF PutBackAsMeant, Intact
  <2>1. Match(running[k].old, lexical[c[k - 1]], c[k - 1], buffers)
    BY DEF NestedInv, PutBackAsMeant
  <2>2. /\ running[k].old.buffer \in 0 .. Len(buffers)
        /\ running[k].old.buffer < settings.buffer
        /\ c[k - 1] \in 1 .. Len(lexical) - 1
        /\ settings.buffer \in 0 .. Len(buffers)
        /\ Len(buffers) \in Nat
    BY OldOnes
  <2>3. lexical'[c[k - 1]] = lexical[c[k - 1]]
    BY <2>2
  <2>4. running[k].old.buffer # 0 => buffers'[running[k].old.buffer] = buffers[running[k].old.buffer]
    <3>1. running[k].old.buffer # 0 =>
              running[k].old.buffer \in 1 .. Len(buffers) /\ running[k].old.buffer # settings.buffer
      BY <2>2
    <3> QED
      BY <3>1
  <2> QED
    BY <2>1, <2>3, <2>4 DEF Match
<1>5. CurrentAsMeant'
  BY DEF NestedInv, CurrentAsMeant
<1> QED
  BY <1>1, <1>2, <1>3, <1>4, <1>5 DEF NestedInv

\* A call that returns or fails: only the first m calls are running.
LEMMA FewerCalls ==
    ASSUME NEW c, NestedInv(c), NEW m \in 0 .. Len(running), m # Len(running), SoundTree(tree'),
           running' = SubSeq(running, 1, m), lexical' = SubSeq(lexical, 1, c[m]),
           UNCHANGED buffers,
           settings' \in Saved, settings'.buffer <= Len(buffers),
           \A k \in 1 .. m :
               running[k].kind = "capture" => running[k].old.buffer < settings'.buffer,
           lost' \in -1 .. m,
           \A k \in 1 .. m : Intact(k, lost') => Intact(k, lost),
           lost' = -1 => Match(settings', lexical[c[m]], c[m], buffers)
    PROVE  \E d : NestedInv(d)'
<1>1. /\ running \in Seq(ExportFrames)
      /\ Depths(c, running)
      /\ Len(lexical) = c[Len(running)]
      /\ lexical \in Seq(Meanings)
      /\ Len(running) \in Nat
      /\ Len(lexical) \in Nat
      /\ \A k \in 1 .. Len(running) : running[k] \in ExportFrames
      /\ \A k \in 1 .. Len(lexical) : lexical[k] \in Meanings
  BY OldOnes, ElementOfSeq DEF NestedInv, ExportTypes
<1>2. c[m] \in 1 .. Len(lexical)
  BY <1>1, DepthFacts
<1>3. /\ running' \in Seq(ExportFrames)
      /\ Len(running') = m
      /\ \A k \in 1 .. m : running'[k] = running[k]
  BY <1>1, SubSeqProperties
<1>4. /\ lexical' \in Seq(Meanings)
      /\ Len(lexical') = c[m]
      /\ \A k \in 1 .. c[m] : lexical'[k] = lexical[k]
  <2>1. c[m] \in Int /\ 1 <= c[m] /\ \A k \in 1 .. c[m] : lexical[k] \in Meanings
    BY <1>1, <1>2
  <2> QED
    BY <2>1, SubSeqProperties
<1>5. PICK d : d = [k \in 0 .. m |-> c[k]]
  OBVIOUS
<1>6. Depths(d, running')
  BY <1>1, <1>5, DepthsShortened
<1>7. \A k \in 0 .. m : d[k] = c[k]
  BY <1>5
<1>8. ExportTypes'
  BY <1>3, <1>4 DEF NestedInv, ExportTypes
<1>9. Len(lexical') = d[Len(running')]
  BY <1>3, <1>4, <1>7
<1>10. \A k \in 1 .. m : k \in 1 .. Len(running) /\ k - 1 \in 0 .. m
  BY <1>1
<1>11. OlderBuffers'
  <2> SUFFICES ASSUME NEW k \in 1 .. m, running'[k].kind = "capture"
               PROVE  /\ running'[k].old.buffer < settings'.buffer
                      /\ \A j \in k + 1 .. m :
                            running'[j].kind = "capture" =>
                                running'[k].old.buffer < running'[j].old.buffer
    BY <1>3 DEF OlderBuffers
  <2>1. \A j \in k + 1 .. m : j \in 1 .. m /\ j \in k + 1 .. Len(running)
    BY <1>1
  <2> QED
    BY <1>3, <1>10, <2>1 DEF NestedInv, OlderBuffers
<1>12. PutBackAsMeant(d)'
  <2> SUFFICES ASSUME NEW k \in 1 .. m, running'[k].kind = "capture", Intact(k, lost')
               PROVE  Match(running'[k].old, lexical'[d[k - 1]], d[k - 1], buffers')
    BY <1>3 DEF PutBackAsMeant
  <2>1. Match(running[k].old, lexical[c[k - 1]], c[k - 1], buffers)
    BY <1>3, <1>10 DEF NestedInv, PutBackAsMeant
  <2>2. lexical'[c[k - 1]] = lexical[c[k - 1]]
    <3>1. k - 1 \in 0 .. Len(running) /\ m \in 0 .. Len(running) /\ k - 1 <= m
      BY <1>1
    <3>2. c[k - 1] <= c[m] /\ c[k - 1] >= 1 /\ c[k - 1] \in Nat
      BY <1>1, <3>1, DepthFacts DEF Depths
    <3>3. c[k - 1] \in 1 .. c[m]
      BY <1>2, <3>2
    <3> QED
      BY <1>4, <3>3
  <2> QED
    BY <1>3, <1>7, <1>10, <2>1, <2>2
<1>13. CurrentAsMeant'
  <2>1. lexical'[c[m]] = lexical[c[m]]
    BY <1>2, <1>4
  <2> QED
    BY <1>4, <2>1 DEF CurrentAsMeant
<1>14. NestedInv(d)'
  BY <1>6, <1>8, <1>9, <1>11, <1>12, <1>13 DEF NestedInv
<1> QED
  BY <1>14

LEMMA WholeSequence ==
    ASSUME NEW S, NEW s \in Seq(S)
    PROVE  SubSeq(s, 1, Len(s)) = s
<1>1. Len(s) \in Nat /\ \A i \in 1 .. Len(s) : s[i] \in S
  BY LenProperties, ElementOfSeq
<1>2. /\ SubSeq(s, 1, Len(s)) \in Seq(S)
      /\ Len(SubSeq(s, 1, Len(s))) = Len(s)
      /\ \A i \in 1 .. Len(s) : SubSeq(s, 1, Len(s))[i] = s[i]
  BY <1>1, SubSeqProperties
<1> QED
  BY <1>2, SeqEqual

LEMMA LastIndex ==
    \A n \in Nat :
        /\ n >= 1 => n \in 1 .. n
        /\ \A k \in 1 .. n - 1 : k \in 1 .. n
        /\ \A k \in 0 .. n : k # 0 => k \in 1 .. n
  OBVIOUS

LEMMA OtherBuffer ==
    ASSUME NEW s \in Saved, NEW b \in Nat
    PROVE  LET t == [s EXCEPT !.buffer = b]
           IN  t \in Saved /\ t.buffer = b /\ t.eol = s.eol /\ t.level = s.level
  BY DEF Saved

LEMMA BeginPcallNested ==
    ASSUME NEW c, NestedInv(c), BeginPcall
    PROVE  \E d : NestedInv(d)'
<1> DEFINE f == [kind |-> "pcall"]
<1>1. /\ running' = Append(running, f)
      /\ UNCHANGED <<buffers, settings, lexical, lost, tree>>
  BY DEF BeginPcall
<1>2. f \in ExportFrames /\ f.kind = "pcall"
  BY DEF ExportFrames
<1> HIDE DEF f
<1>3. /\ running \in Seq(ExportFrames)
      /\ Depths(c, running)
      /\ Len(running) \in Nat
      /\ Len(lexical) = c[Len(running)]
      /\ lost \in -1 .. Len(running)
  BY OldOnes DEF NestedInv, ExportTypes
<1>4. /\ running' \in Seq(ExportFrames)
      /\ Len(running') = Len(running) + 1
      /\ running'[Len(running) + 1] = f
      /\ \A k \in 1 .. Len(running) : running'[k] = running[k]
  BY <1>1, <1>2, <1>3, AppendProperties
<1>5. PICK d : d = [k \in 0 .. Len(running) + 1 |->
                        IF k <= Len(running) THEN c[k]
                        ELSE IF f.kind = "capture" THEN c[Len(running)] + 1 ELSE c[Len(running)]]
  OBVIOUS
<1>6. Depths(d, running')
  BY <1>1, <1>2, <1>3, <1>5, DepthsAppended
<1>7. /\ \A k \in 0 .. Len(running) : d[k] = c[k]
      /\ d[Len(running) + 1] = c[Len(running)]
  BY <1>2, <1>3, <1>5
<1>8. ExportTypes'
  BY <1>1, <1>3, <1>4 DEF NestedInv, ExportTypes, SoundTree, Closed, Exists, DirectoryAt
<1>9. Len(lexical') = d[Len(running')]
  BY <1>1, <1>3, <1>4, <1>7
<1>10. \A k \in 1 .. Len(running') :
           running'[k].kind = "capture" => k \in 1 .. Len(running) /\ k - 1 \in 0 .. Len(running)
  BY <1>2, <1>3, <1>4
<1>11. OlderBuffers'
  <2> SUFFICES ASSUME NEW k \in 1 .. Len(running'), running'[k].kind = "capture"
               PROVE  /\ running'[k].old.buffer < settings'.buffer
                      /\ \A j \in k + 1 .. Len(running') :
                            running'[j].kind = "capture" =>
                                running'[k].old.buffer < running'[j].old.buffer
    BY DEF OlderBuffers
  <2>1. k \in 1 .. Len(running)
    BY <1>10
  <2>2. \A j \in k + 1 .. Len(running') :
            running'[j].kind = "capture" => j \in k + 1 .. Len(running) /\ j \in 1 .. Len(running)
    BY <1>3, <1>4, <1>10, <2>1
  <2> QED
    BY <1>1, <1>4, <2>1, <2>2 DEF NestedInv, OlderBuffers
<1>12. PutBackAsMeant(d)'
  BY <1>1, <1>4, <1>7, <1>10 DEF NestedInv, PutBackAsMeant, Intact
<1>13. CurrentAsMeant'
  BY <1>1 DEF NestedInv, CurrentAsMeant
<1> QED
  BY <1>6, <1>8, <1>9, <1>11, <1>12, <1>13 DEF NestedInv

LEMMA BeginCaptureNested ==
    ASSUME NEW c, NestedInv(c), NEW path \in {NONE, ExportPath}, BeginCapture(path)
    PROVE  \E d : NestedInv(d)'
<1> DEFINE f == [kind |-> "capture", path |-> path, old |-> settings]
           l == [Last(lexical) EXCEPT !.text = <<>>]
<1>1. /\ running' = Append(running, f)
      /\ buffers' = Append(buffers, <<>>)
      /\ settings' = [settings EXCEPT !.buffer = Len(buffers) + 1]
      /\ lexical' = Append(lexical, l)
      /\ UNCHANGED <<lost, tree>>
  BY DEF BeginCapture
<1>2. /\ running \in Seq(ExportFrames)
      /\ Depths(c, running)
      /\ Len(running) \in Nat
      /\ Len(lexical) = c[Len(running)]
      /\ lexical \in Seq(Meanings)
      /\ Len(lexical) \in Nat
      /\ Len(lexical) >= 1
      /\ lexical[Len(lexical)] \in Meanings
      /\ buffers \in Seq(Seq(Written))
      /\ Len(buffers) \in Nat
      /\ settings \in Saved
      /\ settings.buffer \in 0 .. Len(buffers)
      /\ lost \in -1 .. Len(running)
  BY OldOnes DEF NestedInv, ExportTypes
<1>3. f \in ExportFrames /\ f.kind = "capture" /\ f.old = settings
  BY <1>2 DEF ExportFrames
<1>4. PICK top : top = lexical[Len(lexical)]
  OBVIOUS
<1>5. l = [top EXCEPT !.text = <<>>] /\ top \in Meanings
  BY <1>2, <1>4 DEF Last
<1>6. l \in Meanings /\ l.text = <<>> /\ l.eol = top.eol /\ l.level = top.level
  BY <1>5, TextsTyped DEF Meanings
<1> HIDE DEF f, l
<1>7. /\ running' \in Seq(ExportFrames)
      /\ Len(running') = Len(running) + 1
      /\ running'[Len(running) + 1] = f
      /\ \A k \in 1 .. Len(running) : running'[k] = running[k]
  BY <1>1, <1>2, <1>3, AppendProperties
<1>8. /\ buffers' \in Seq(Seq(Written))
      /\ Len(buffers') = Len(buffers) + 1
      /\ buffers'[Len(buffers) + 1] = <<>>
      /\ \A k \in 1 .. Len(buffers) : buffers'[k] = buffers[k]
  BY <1>1, <1>2, TextsTyped, AppendProperties
<1>9. /\ lexical' \in Seq(Meanings)
      /\ Len(lexical') = Len(lexical) + 1
      /\ lexical'[Len(lexical) + 1] = l
      /\ \A k \in 1 .. Len(lexical) : lexical'[k] = lexical[k]
  BY <1>1, <1>2, <1>6, AppendProperties
<1>10. /\ settings' \in Saved
       /\ settings'.buffer = Len(buffers) + 1
       /\ settings'.eol = settings.eol
       /\ settings'.level = settings.level
  <2>1. Len(buffers) + 1 \in Nat
    BY <1>2
  <2> QED
    BY <1>1, <1>2, <2>1, OtherBuffer
<1>11. PICK d : d = [k \in 0 .. Len(running) + 1 |->
                        IF k <= Len(running) THEN c[k]
                        ELSE IF f.kind = "capture" THEN c[Len(running)] + 1 ELSE c[Len(running)]]
  OBVIOUS
<1>12. Depths(d, running')
  BY <1>1, <1>2, <1>3, <1>11, DepthsAppended
<1>13. /\ \A k \in 0 .. Len(running) : d[k] = c[k]
       /\ d[Len(running) + 1] = c[Len(running)] + 1
  BY <1>2, <1>3, <1>11
<1>14. ExportTypes'
  BY <1>1, <1>2, <1>7, <1>8, <1>9, <1>10
     DEF NestedInv, ExportTypes, SoundTree, Closed, Exists, DirectoryAt
<1>15. Len(lexical') = d[Len(running')]
  BY <1>2, <1>7, <1>9, <1>13
<1>16. \A k \in 1 .. Len(running') : k = Len(running) + 1 \/ k \in 1 .. Len(running)
  BY <1>2, <1>7
<1>17. OlderBuffers'
  <2> SUFFICES ASSUME NEW k \in 1 .. Len(running'), running'[k].kind = "capture"
               PROVE  /\ running'[k].old.buffer < settings'.buffer
                      /\ \A j \in k + 1 .. Len(running') :
                            running'[j].kind = "capture" =>
                                running'[k].old.buffer < running'[j].old.buffer
    BY DEF OlderBuffers
  <2>1. CASE k = Len(running) + 1
    <3>1. running'[k].old.buffer < settings'.buffer
      BY <1>2, <1>3, <1>7, <1>10, <2>1
    <3>2. k + 1 .. Len(running') = {}
      BY <1>2, <1>7, <2>1
    <3> QED
      BY <3>1, <3>2
  <2>2. CASE k \in 1 .. Len(running)
    <3>1. /\ running[k].kind = "capture"
          /\ running'[k].old.buffer = running[k].old.buffer
          /\ running[k].old.buffer \in 0 .. Len(buffers)
          /\ running[k].old.buffer < settings.buffer
      BY <1>7, <2>2, OldOnes
    <3>2. running'[k].old.buffer < settings'.buffer
      BY <1>2, <1>10, <3>1
    <3>3. ASSUME NEW j \in k + 1 .. Len(running'), running'[j].kind = "capture"
          PROVE  running[k].old.buffer < running'[j].old.buffer
      <4>1. CASE j = Len(running) + 1
        BY <1>3, <1>7, <3>1, <4>1
      <4>2. CASE j # Len(running) + 1
        <5>1. j \in k + 1 .. Len(running) /\ j \in 1 .. Len(running)
          BY <1>2, <1>7, <2>2, <4>2
        <5> QED
          BY <1>7, <2>2, <3>1, <3>3, <5>1 DEF NestedInv, OlderBuffers
      <4> QED
        BY <4>1, <4>2
    <3> QED
      BY <3>1, <3>2, <3>3
  <2> QED
    BY <1>16, <2>1, <2>2
<1>18. Match(settings, top, Len(lexical), buffers) =>
           Match(settings, top, Len(lexical), buffers')
  <2>1. settings.buffer # 0 => settings.buffer \in 1 .. Len(buffers)
    BY <1>2
  <2> QED
    BY <1>8, <2>1 DEF Match
<1>19. PutBackAsMeant(d)'
  <2> SUFFICES ASSUME NEW k \in 1 .. Len(running'), running'[k].kind = "capture", Intact(k, lost)
               PROVE  Match(running'[k].old, lexical'[d[k - 1]], d[k - 1], buffers')
    BY <1>1 DEF PutBackAsMeant
  <2>1. CASE k = Len(running) + 1
    <3>1. lost = -1
      BY <1>2, <2>1 DEF Intact
    <3>2. Match(settings, top, Len(lexical), buffers)
      BY <1>4, <3>1 DEF NestedInv, CurrentAsMeant
    <3>3. Len(running) \in 0 .. Len(running) /\ k - 1 = Len(running)
      BY <1>2, <2>1
    <3>4. d[k - 1] = Len(lexical)
      BY <1>2, <1>13, <3>3
    <3>5. lexical'[Len(lexical)] = top
      <4>1. Len(lexical) \in 1 .. Len(lexical)
        BY <1>2, LastIndex
      <4> QED
        BY <1>4, <1>9, <4>1
    <3> QED
      BY <1>3, <1>7, <1>18, <2>1, <3>2, <3>4, <3>5
  <2>2. CASE k \in 1 .. Len(running)
    <3>1. running'[k] = running[k] /\ k - 1 \in 0 .. Len(running)
      BY <1>2, <1>7, <2>2
    <3>2. Match(running[k].old, lexical[c[k - 1]], c[k - 1], buffers)
      BY <2>2, <3>1 DEF NestedInv, PutBackAsMeant
    <3>3. c[k - 1] \in 1 .. Len(lexical) /\ running[k].old.buffer \in 0 .. Len(buffers)
      <4>1. running[k].kind = "capture"
        BY <3>1
      <4>2. c[k - 1] \in 1 .. Len(lexical) - 1 /\ running[k].old.buffer \in 0 .. Len(buffers)
        BY <2>2, <4>1, OldOnes, Zenon
      <4> QED
        BY <1>2, <4>2, LastIndex
    <3>4. running[k].old.buffer # 0 =>
              buffers'[running[k].old.buffer] = buffers[running[k].old.buffer]
      <4>1. running[k].old.buffer # 0 => running[k].old.buffer \in 1 .. Len(buffers)
        BY <1>2, <3>3, LastIndex
      <4> QED
        BY <1>8, <4>1
    <3>5. lexical'[c[k - 1]] = lexical[c[k - 1]]
      BY <1>9, <3>3
    <3>6. d[k - 1] = c[k - 1]
      BY <1>13, <3>1
    <3> QED
      BY <3>1, <3>2, <3>4, <3>5, <3>6 DEF Match
  <2> QED
    BY <1>16, <2>1, <2>2
<1>20. CurrentAsMeant'
  <2> SUFFICES ASSUME lost = -1
               PROVE  Match(settings', lexical'[Len(lexical')], Len(lexical'), buffers')
    BY <1>1 DEF CurrentAsMeant
  <2>1. Match(settings, top, Len(lexical), buffers)
    BY <1>4 DEF NestedInv, CurrentAsMeant
  <2>2. lexical'[Len(lexical')] = l
    BY <1>9
  <2>3. Len(lexical') # 1 /\ settings'.buffer # 0
    BY <1>2, <1>9, <1>10
  <2> QED
    BY <1>6, <1>8, <1>10, <2>1, <2>2, <2>3 DEF Match
<1> QED
  BY <1>12, <1>14, <1>15, <1>17, <1>19, <1>20 DEF NestedInv

\* What is meant changes in one field, for the innermost capture or the outside.
LEMMA MeantFacts ==
    ASSUME NEW c, NestedInv(c), NEW top, top = lexical[Len(lexical)],
           NEW new \in Meanings, lexical' = [lexical EXCEPT ![Len(lexical)] = new]
    PROVE  /\ lexical' \in Seq(Meanings)
           /\ Len(lexical') = Len(lexical)
           /\ \A i \in 1 .. Len(lexical) - 1 : lexical'[i] = lexical[i]
           /\ lexical'[Len(lexical)] = new
<1>1. lexical \in Seq(Meanings) /\ Len(lexical) \in Nat /\ Len(lexical) >= 1
  BY OldOnes DEF NestedInv, ExportTypes
<1>2. Len(lexical) \in 1 .. Len(lexical)
  BY <1>1, LastIndex
<1>3. DOMAIN lexical = 1 .. Len(lexical)
  BY <1>1, LenProperties
<1>4. lexical' \in Seq(Meanings) /\ Len(lexical') = Len(lexical)
  BY <1>1, <1>2, ExceptSeq
<1>5. \A i \in 1 .. Len(lexical) - 1 : i \in 1 .. Len(lexical) /\ i # Len(lexical)
  BY <1>1
<1> QED
  BY <1>2, <1>3, <1>4, <1>5

LEMMA MeaningChanged ==
    ASSUME NEW l \in Meanings
    PROVE  /\ \A v \in Seq(Written) :
                 LET m == [l EXCEPT !["text"] = v]
                 IN  m \in Meanings /\ m.text = v /\ m.eol = l.eol /\ m.level = l.level
           /\ \A v \in Seq(Written) :
                 LET m == [l EXCEPT !["eol"] = v]
                 IN  m \in Meanings /\ m.text = l.text /\ m.eol = v /\ m.level = l.level
           /\ \A v \in Nat :
                 LET m == [l EXCEPT !["level"] = v]
                 IN  m \in Meanings /\ m.text = l.text /\ m.eol = l.eol /\ m.level = v
  BY DEF Meanings

LEMMA SettingChanged ==
    ASSUME NEW s \in Saved
    PROVE  /\ \A v \in Seq(Written) :
                 LET t == [s EXCEPT !.eol = v]
                 IN  t \in Saved /\ t.buffer = s.buffer /\ t.eol = v /\ t.level = s.level
           /\ \A v \in Nat :
                 LET t == [s EXCEPT !.level = v]
                 IN  t \in Saved /\ t.buffer = s.buffer /\ t.eol = s.eol /\ t.level = v
  BY DEF Saved

LEMMA LineTyped ==
    ASSUME NEW indented \in BOOLEAN, NEW line \in BOOLEAN,
           NEW s, s.level \in Nat, s.eol \in Seq(Written)
    PROVE  Line(indented, line, s) \in Seq(Written)
<1>1. Word \in Written /\ Tab \in Written
  BY DEF Written
<1>2. PICK n \in Nat : n = IF indented THEN s.level ELSE 0
  OBVIOUS
<1>3. Indentation(n) \in Seq(Written)
  <2>1. Indentation(n) \in [1 .. n -> Written]
    BY <1>1 DEF Indentation
  <2> QED
    BY <2>1, SeqDef
<1>4. Indentation(n) \o <<Word>> \in Seq(Written)
  BY <1>1, <1>3, ConcatProperties
<1>5. (IF line THEN s.eol ELSE <<>>) \in Seq(Written)
  BY TextsTyped
<1>6. PICK a : a = Indentation(n) \o <<Word>>
  OBVIOUS
<1>7. PICK e : e = IF line THEN s.eol ELSE <<>>
  OBVIOUS
<1>8. Line(indented, line, s) = a \o e
  BY <1>2, <1>6, <1>7 DEF Line
<1> QED
  BY <1>4, <1>5, <1>6, <1>7, <1>8, ConcatProperties

LEMMA WriteNested ==
    ASSUME NEW c, NestedInv(c), NEW indented \in BOOLEAN, NEW line \in BOOLEAN,
           Write(indented, line)
    PROVE  NestedInv(c)'
<1>1. PICK top : top = lexical[Len(lexical)]
  OBVIOUS
<1>2. /\ buffers \in Seq(Seq(Written))
      /\ Len(buffers) \in Nat
      /\ settings \in Saved
      /\ settings.buffer \in 0 .. Len(buffers)
      /\ top \in Meanings
      /\ lexical \in Seq(Meanings)
      /\ Len(lexical) \in Nat
      /\ Len(lexical) >= 1
  BY <1>1, OldOnes DEF NestedInv, ExportTypes
<1>3. PICK out : out = Line(indented, line, settings)
  OBVIOUS
<1>4. PICK meant : meant = Line(indented, line, top)
  OBVIOUS
<1>5. PICK b : b = settings.buffer
  OBVIOUS
<1>6. /\ b # 0
      /\ buffers' = [buffers EXCEPT ![b] = buffers[b] \o out]
      /\ lexical' = [lexical EXCEPT ![Len(lexical)] =
                        [lexical[Len(lexical)] EXCEPT !["text"] = top.text \o meant]]
      /\ UNCHANGED <<settings, running, lost, tree>>
  BY <1>1, <1>3, <1>4, <1>5 DEF Write, Meant, Last
<1>7. b \in 1 .. Len(buffers)
  BY <1>2, <1>5, <1>6, LastIndex
<1>8. buffers[b] \in Seq(Written) /\ DOMAIN buffers = 1 .. Len(buffers)
  BY <1>2, <1>7, ElementOfSeq, LenProperties
<1>9. settings.level \in Nat /\ settings.eol \in Seq(Written)
  BY <1>2 DEF Saved
<1>10. top.level \in Nat /\ top.eol \in Seq(Written) /\ top.text \in Seq(Written)
  BY <1>2 DEF Meanings
<1>11. out \in Seq(Written) /\ meant \in Seq(Written)
  BY <1>3, <1>4, <1>9, <1>10, LineTyped
<1>12. buffers[b] \o out \in Seq(Written) /\ top.text \o meant \in Seq(Written)
  BY <1>8, <1>10, <1>11, ConcatProperties
<1>13. /\ buffers' \in Seq(Seq(Written))
       /\ Len(buffers') = Len(buffers)
       /\ buffers'[b] = buffers[b] \o out
       /\ \A i \in 1 .. Len(buffers) : i # b => buffers'[i] = buffers[i]
  BY <1>2, <1>6, <1>7, <1>8, <1>12, ExceptSeq
<1>14. PICK new : new = [top EXCEPT !["text"] = top.text \o meant]
  OBVIOUS
<1>15. /\ new \in Meanings
       /\ new.text = top.text \o meant
       /\ new.eol = top.eol
       /\ new.level = top.level
  BY <1>2, <1>12, <1>14, MeaningChanged
<1>16. lexical' = [lexical EXCEPT ![Len(lexical)] = new]
  BY <1>1, <1>6, <1>14
<1>17. /\ lexical' \in Seq(Meanings)
       /\ Len(lexical') = Len(lexical)
       /\ \A i \in 1 .. Len(lexical) - 1 : lexical'[i] = lexical[i]
       /\ lexical'[Len(lexical)] = new
  BY <1>1, <1>15, <1>16, MeantFacts
<1>18. ASSUME Match(settings, top, Len(lexical), buffers)
       PROVE  Match(settings, new, Len(lexical), buffers')
  <2>1. settings.level = top.level /\ settings.eol = top.eol /\ buffers[b] = top.text
    BY <1>5, <1>6, <1>18 DEF Match
  <2>2. out = meant
    BY <1>3, <1>4, <2>1 DEF Line
  <2>3. buffers'[b] = new.text
    BY <1>13, <1>15, <2>1, <2>2
  <2> QED
    BY <1>5, <1>15, <1>18, <2>3 DEF Match
<1> QED
  BY <1>1, <1>2, <1>5, <1>6, <1>13, <1>17, <1>18, WithinCapture

\* Indent(), Outdent() and Eol() change one setting and its meaning alike.
LEMMA SettingNested ==
    ASSUME NEW c, NestedInv(c), NEW top, top = lexical[Len(lexical)],
           NEW new \in Meanings, lexical' = [lexical EXCEPT ![Len(lexical)] = new],
           settings' \in Saved, settings'.buffer = settings.buffer, new.text = top.text,
           settings.level = top.level => settings'.level = new.level,
           settings.eol = top.eol => settings'.eol = new.eol,
           UNCHANGED <<buffers, running, lost, tree>>
    PROVE  NestedInv(c)'
<1>1. /\ lexical' \in Seq(Meanings)
      /\ Len(lexical') = Len(lexical)
      /\ \A i \in 1 .. Len(lexical) - 1 : lexical'[i] = lexical[i]
      /\ lexical'[Len(lexical)] = new
  BY MeantFacts
<1>2. Match(settings, top, Len(lexical), buffers) =>
          Match(settings', new, Len(lexical), buffers')
  BY DEF Match
<1>3. buffers' \in Seq(Seq(Written)) /\ Len(buffers') = Len(buffers)
  BY DEF NestedInv, ExportTypes
<1> QED
  BY <1>1, <1>2, <1>3, WithinCapture

LEMMA IndentNested ==
    ASSUME NEW c, NestedInv(c), Indent(1) \/ Outdent(1)
    PROVE  NestedInv(c)'
<1>1. PICK top : top = lexical[Len(lexical)]
  OBVIOUS
<1>2. top \in Meanings /\ settings \in Saved
  BY <1>1, OldOnes DEF NestedInv, ExportTypes
<1>3. top.level \in Nat /\ settings.level \in Nat
  BY <1>2 DEF Meanings, Saved
<1>4. CASE Indent(1)
  <2>1. /\ settings' = [settings EXCEPT !.level = settings.level + 1]
        /\ lexical' = [lexical EXCEPT ![Len(lexical)] = [top EXCEPT !["level"] = top.level + 1]]
        /\ UNCHANGED <<buffers, running, lost, tree>>
    BY <1>1, <1>4 DEF Indent, Meant, Last
  <2>2. top.level + 1 \in Nat /\ settings.level + 1 \in Nat
    BY <1>3
  <2>3. PICK new : new = [top EXCEPT !["level"] = top.level + 1]
    OBVIOUS
  <2>4. new \in Meanings /\ new.text = top.text /\ new.eol = top.eol /\ new.level = top.level + 1
    BY <1>2, <2>2, <2>3, MeaningChanged
  <2>5. /\ settings' \in Saved
        /\ settings'.buffer = settings.buffer
        /\ settings'.eol = settings.eol
        /\ settings'.level = settings.level + 1
    BY <1>2, <2>1, <2>2, SettingChanged
  <2> QED
    BY <1>1, <2>1, <2>3, <2>4, <2>5, SettingNested
<1>5. CASE Outdent(1)
  <2>1. /\ settings' = [settings EXCEPT !.level = Less(settings.level, 1)]
        /\ lexical' = [lexical EXCEPT ![Len(lexical)] =
                          [top EXCEPT !["level"] = Less(top.level, 1)]]
        /\ UNCHANGED <<buffers, running, lost, tree>>
    BY <1>1, <1>5 DEF Outdent, Meant, Last
  <2>2. Less(top.level, 1) \in Nat /\ Less(settings.level, 1) \in Nat
    BY <1>3 DEF Less
  <2>3. PICK new : new = [top EXCEPT !["level"] = Less(top.level, 1)]
    OBVIOUS
  <2>4. /\ new \in Meanings
        /\ new.text = top.text
        /\ new.eol = top.eol
        /\ new.level = Less(top.level, 1)
    BY <1>2, <2>2, <2>3, MeaningChanged
  <2>5. /\ settings' \in Saved
        /\ settings'.buffer = settings.buffer
        /\ settings'.eol = settings.eol
        /\ settings'.level = Less(settings.level, 1)
    BY <1>2, <2>1, <2>2, SettingChanged
  <2> QED
    BY <1>1, <2>1, <2>3, <2>4, <2>5, SettingNested
<1> QED
  BY <1>4, <1>5

LEMMA EolNested ==
    ASSUME NEW c, NestedInv(c), Eol(<<CR, LF>>)
    PROVE  NestedInv(c)'
<1>1. PICK top : top = lexical[Len(lexical)]
  OBVIOUS
<1>2. top \in Meanings /\ settings \in Saved
  BY <1>1, OldOnes DEF NestedInv, ExportTypes
<1>3. PICK value : value = <<CR, LF>>
  OBVIOUS
<1>4. value \in Seq(Written)
  BY <1>3, BufferAssumption DEF Written
<1>5. /\ settings' = [settings EXCEPT !.eol = value]
      /\ lexical' = [lexical EXCEPT ![Len(lexical)] = [top EXCEPT !["eol"] = value]]
      /\ UNCHANGED <<buffers, running, lost, tree>>
  BY <1>1, <1>3 DEF Eol, Meant, Last
<1>6. PICK new : new = [top EXCEPT !["eol"] = value]
  OBVIOUS
<1>7. new \in Meanings /\ new.text = top.text /\ new.eol = value /\ new.level = top.level
  BY <1>2, <1>4, <1>6, MeaningChanged
<1>8. /\ settings' \in Saved
      /\ settings'.buffer = settings.buffer
      /\ settings'.eol = value
      /\ settings'.level = settings.level
  BY <1>2, <1>4, <1>5, SettingChanged
<1> QED
  BY <1>1, <1>5, <1>6, <1>7, <1>8, SettingNested

LEMMA EndPcallNested ==
    ASSUME NEW c, NestedInv(c), EndPcall
    PROVE  \E d : NestedInv(d)'
<1>1. PICK n : n = Len(running)
  OBVIOUS
<1>2. /\ n \in Nat
      /\ running \in Seq(ExportFrames)
      /\ Depths(c, running)
      /\ Len(lexical) = c[n]
      /\ lexical \in Seq(Meanings)
      /\ settings \in Saved
      /\ settings.buffer <= Len(buffers)
      /\ lost \in -1 .. n
  BY <1>1, OldOnes DEF NestedInv, ExportTypes
<1>3. /\ running # <<>>
      /\ running[n].kind = "pcall"
      /\ running' = SubSeq(running, 1, n - 1)
      /\ lost' = IF n <= lost THEN n - 1 ELSE lost
      /\ UNCHANGED <<buffers, settings, lexical, tree>>
  BY <1>1 DEF EndPcall, InnermostFrame, Last, Front
<1>4. n # 0
  BY <1>1, <1>2, <1>3, EmptySeq
<1>5. n \in 1 .. n /\ n - 1 \in 0 .. n /\ n - 1 # n
  BY <1>2, <1>4
<1>6. c[n] = c[n - 1]
  BY <1>1, <1>2, <1>3, <1>5 DEF Depths
<1>7. lexical' = SubSeq(lexical, 1, c[n - 1])
  <2>1. Len(lexical) \in Nat
    BY OldOnes
  <2>2. SubSeq(lexical, 1, Len(lexical)) = lexical
    BY <1>2, WholeSequence
  <2> QED
    BY <1>2, <1>3, <1>6, <2>2
<1>8. lost' \in -1 .. n - 1
  BY <1>2, <1>3, <1>4
<1>9. \A k \in 1 .. n - 1 : Intact(k, lost') => Intact(k, lost)
  BY <1>2, <1>3, <1>4 DEF Intact
<1>10. \A k \in 1 .. n - 1 : running[k].kind = "capture" => running[k].old.buffer < settings.buffer
  <2>1. \A k \in 1 .. n - 1 : k \in 1 .. n
    BY <1>2
  <2> QED
    BY <1>1, <2>1, OldOnes
<1>11. lost' = -1 => Match(settings', lexical[c[n - 1]], c[n - 1], buffers)
  <2>1. lost' = -1 => lost = -1
    BY <1>2, <1>3, <1>4
  <2> QED
    BY <1>2, <1>3, <1>6, <2>1 DEF NestedInv, CurrentAsMeant
<1>12. SoundTree(tree')
  BY <1>3 DEF NestedInv, ExportTypes
<1>13. settings' \in Saved /\ settings'.buffer <= Len(buffers) /\ UNCHANGED buffers
  BY <1>2, <1>3
<1>14. \A k \in 1 .. n - 1 : running[k].kind = "capture" => running[k].old.buffer < settings'.buffer
  BY <1>3, <1>10
<1> QED
  BY <1>1, <1>3, <1>5, <1>7, <1>8, <1>9, <1>11, <1>12, <1>13, <1>14, FewerCalls

LEMMA FinishCaptureNested ==
    ASSUME NEW c, NestedInv(c), FinishCapture, SoundTree(tree')
    PROVE  \E d : NestedInv(d)'
<1>1. PICK n : n = Len(running)
  OBVIOUS
<1>2. /\ n \in Nat
      /\ running \in Seq(ExportFrames)
      /\ Depths(c, running)
      /\ Len(lexical) = c[n]
      /\ lost \in -1 .. n
      /\ Len(buffers) \in Nat
  BY <1>1, OldOnes DEF NestedInv, ExportTypes
<1>3. /\ running # <<>>
      /\ running[n].kind = "capture"
      /\ running' = SubSeq(running, 1, n - 1)
      /\ lexical' = SubSeq(lexical, 1, Len(lexical) - 1)
      /\ settings' = running[n].old
      /\ lost' = IF n <= lost THEN -1 ELSE lost
      /\ UNCHANGED buffers
  BY <1>1 DEF FinishCapture, InnermostFrame, PutBack, Last, Front
<1>4. n # 0
  BY <1>1, <1>2, <1>3, EmptySeq
<1>5. n \in 1 .. n /\ n - 1 \in 0 .. n /\ n - 1 # n
  BY <1>2, <1>4
<1>6. /\ running[n].old \in Saved
      /\ running[n].old.buffer \in 0 .. Len(buffers)
      /\ c[n] = c[n - 1] + 1
      /\ c[n - 1] \in 1 .. Len(lexical) - 1
  BY <1>1, <1>3, <1>5, OldOnes
<1>7. lexical' = SubSeq(lexical, 1, c[n - 1])
  <2>1. Len(lexical) - 1 = c[n - 1]
    <3>1. c[n - 1] \in Nat
      BY <1>1, <1>2, <1>5, DepthFacts
    <3> QED
      BY <1>2, <1>6, <3>1
  <2> QED
    BY <1>3, <2>1
<1>8. lost' \in -1 .. n - 1
  BY <1>2, <1>3, <1>4
<1>9. \A k \in 1 .. n - 1 : Intact(k, lost') => Intact(k, lost)
  BY <1>2, <1>3, <1>4 DEF Intact
<1>10. \A k \in 1 .. n - 1 : running[k].kind = "capture" => running[k].old.buffer < settings'.buffer
  <2>1. \A k \in 1 .. n - 1 : k \in 1 .. n /\ n \in k + 1 .. n
    BY <1>2, <1>4
  <2> QED
    BY <1>1, <1>3, <2>1 DEF NestedInv, OlderBuffers
<1>11. lost' = -1 => Match(settings', lexical[c[n - 1]], c[n - 1], buffers)
  <2>1. lost' = -1 => Intact(n, lost)
    BY <1>2, <1>3, <1>4 DEF Intact
  <2> QED
    BY <1>1, <1>3, <1>5, <2>1 DEF NestedInv, PutBackAsMeant
<1>12. settings' \in Saved /\ settings'.buffer <= Len(buffers)
  BY <1>2, <1>3, <1>6
<1> QED
  BY <1>1, <1>3, <1>5, <1>7, <1>8, <1>9, <1>10, <1>11, <1>12, FewerCalls

LEMMA RaiseErrorNested ==
    ASSUME NEW c, NestedInv(c), RaiseError
    PROVE  \E d : NestedInv(d)'
<1>1. PICK n : n = Len(running)
  OBVIOUS
<1>2. /\ n \in Nat
      /\ running \in Seq(ExportFrames)
      /\ Depths(c, running)
      /\ Len(lexical) = c[n]
      /\ lost \in -1 .. n
      /\ settings \in Saved
      /\ settings.buffer <= Len(buffers)
      /\ DOMAIN running = 1 .. n
  BY <1>1, OldOnes, LenProperties DEF NestedInv, ExportTypes
<1>3. PICK p \in 1 .. n :
          /\ running[p].kind = "pcall"
          /\ \A k \in p + 1 .. n : running[k].kind = "capture"
          /\ running' = SubSeq(running, 1, p - 1)
          /\ lexical' = SubSeq(lexical, 1, Len(lexical) - (n - p))
          /\ lost' = IF lost >= p \/ (lost = -1 /\ p < n) THEN p - 1 ELSE lost
  BY <1>1, <1>2 DEF RaiseError
<1>4. UNCHANGED <<buffers, settings, tree>>
  BY DEF RaiseError
<1>5. p - 1 \in 0 .. n /\ p - 1 # n /\ p \in 0 .. n /\ n \in 0 .. n /\ p <= n
  BY <1>2, <1>3
<1>6. c[p] = c[p - 1]
  BY <1>1, <1>2, <1>3 DEF Depths
<1>7. c[n] = c[p] + (n - p)
  BY <1>1, <1>2, <1>3, <1>5 DEF Depths
<1>8. c[p] \in Nat
  BY <1>1, <1>2, <1>5, DepthFacts
<1>9. lexical' = SubSeq(lexical, 1, c[p - 1])
  <2>1. Len(lexical) - (n - p) = c[p - 1]
    BY <1>2, <1>5, <1>6, <1>7, <1>8
  <2> QED
    BY <1>3, <2>1
<1>10. lost' \in -1 .. p - 1
  BY <1>2, <1>3, <1>5
<1>11. \A k \in 1 .. p - 1 : Intact(k, lost') => Intact(k, lost)
  BY <1>2, <1>3, <1>5 DEF Intact
<1>12. \A k \in 1 .. p - 1 : running[k].kind = "capture" => running[k].old.buffer < settings'.buffer
  <2>1. \A k \in 1 .. p - 1 : k \in 1 .. n
    BY <1>2, <1>3
  <2> QED
    BY <1>1, <1>4, <2>1, OldOnes
<1>13. lost' = -1 => Match(settings', lexical[c[p - 1]], c[p - 1], buffers)
  <2>1. lost' = -1 => lost = -1 /\ p = n
    BY <1>2, <1>3, <1>5
  <2> QED
    BY <1>2, <1>4, <1>6, <2>1 DEF NestedInv, CurrentAsMeant
<1>14. SoundTree(tree')
  BY <1>4 DEF NestedInv, ExportTypes
<1>15. settings' \in Saved /\ settings'.buffer <= Len(buffers) /\ UNCHANGED buffers
  BY <1>2, <1>4
<1> QED
  BY <1>1, <1>3, <1>5, <1>9, <1>10, <1>11, <1>12, <1>13, <1>14, <1>15, FewerCalls

LEMMA TrimmedTyped == \A s \in Seq(Written) : Trimmed(s) \in Seq(Written)
<1> SUFFICES ASSUME NEW s \in Seq(Written)
             PROVE  Trimmed(s) \in Seq(Written)
  OBVIOUS
<1>1. Len(s) \in Nat
  BY LenProperties
<1>2. PICK m : m = IF Len(s) > 0 /\ s[Len(s)] = LF THEN Len(s) - 1 ELSE Len(s)
  OBVIOUS
<1>3. PICK k : k = IF Len(s) > 0 /\ m > 0 /\ s[m] = CR THEN m - 1 ELSE m
  OBVIOUS
<1>4. Trimmed(s) = SubSeq(s, 1, k)
  BY <1>2, <1>3, Zenon DEF Trimmed
<1>5. m \in 0 .. Len(s)
  <2>1. (m = Len(s) - 1 /\ Len(s) > 0) \/ m = Len(s)
    BY <1>2
  <2> QED
    BY <1>1, <2>1
<1>6. k \in 0 .. Len(s)
  <2>1. (k = m - 1 /\ m > 0) \/ k = m
    BY <1>3
  <2> QED
    BY <1>1, <1>5, <2>1
<1>7. k \in Int /\ \A i \in 1 .. k : s[i] \in Written
  BY <1>1, <1>6, ElementOfSeq
<1> QED
  BY <1>4, <1>7, SubSeqProperties

\* What premake.export() says of the file, and what it leaves.
LEMMA ExportOutcome ==
    ASSUME SoundTree(tree), NEW contents \in Seq(Written), NEW meant,
           Export(ExportPath, contents, meant),
           lost = -1 => contents = meant
    PROVE  SoundTree(tree') /\ FalseMeansCurrent'
<1>1. PICK found \in CompareFile(tree, ExportPath, contents) :
          IF found = "match"
          THEN /\ exported' = [result |-> "unchanged", path |-> ExportPath, meant |-> meant,
                               contents |-> contents, whole |-> lost = -1]
               /\ UNCHANGED tree
          ELSE \E o \in WriteFile(tree, ExportPath, contents) :
                  /\ tree' = o.tree
                  /\ exported' = [result |-> "written", path |-> ExportPath, meant |-> meant,
                                  contents |-> contents, whole |-> lost = -1]
  BY Zenon DEF Export
<1>2. ExportPath \in Paths
  BY ExportPathAssumption
<1>3. CASE found = "match"
  <2>1. tree[ExportPath] = File(contents)
    BY <1>2, <1>3, CompareOutcome
  <2>2. UNCHANGED tree
    BY <1>1, <1>3
  <2>3. /\ exported'.path = ExportPath
        /\ exported'.contents = contents
        /\ exported'.meant = meant
        /\ exported'.whole = (lost = -1)
    BY <1>1, <1>3
  <2>4. SoundTree(tree')
    BY <2>2
  <2>5. tree'[exported'.path] = File(exported'.contents)
    BY <2>1, <2>2, <2>3
  <2>6. exported'.whole => exported'.contents = exported'.meant
    BY <2>3, Zenon
  <2> QED
    BY <2>4, <2>5, <2>6, Zenon DEF FalseMeansCurrent
<1>4. CASE found # "match"
  <2>1. PICK o \in WriteFile(tree, ExportPath, contents) :
            /\ tree' = o.tree
            /\ exported'.result = "written"
    BY <1>1, <1>4
  <2>2. Leaves(tree, tree')
    BY <1>2, <2>1, WriteOutcome
  <2> QED
    BY <2>1, <2>2 DEF Leaves, FalseMeansCurrent
<1> QED
  BY <1>3, <1>4

LEMMA FinishCaptureExports ==
    ASSUME NEW c, NestedInv(c), FinishCapture
    PROVE  SoundTree(tree') /\ FalseMeansCurrent'
<1>1. PICK n : n = Len(running)
  OBVIOUS
<1>2. /\ n \in Nat
      /\ running \in Seq(ExportFrames)
      /\ running # <<>>
      /\ running[n].kind = "capture"
      /\ SoundTree(tree)
      /\ lexical[Len(lexical)] \in Meanings
      /\ buffers \in Seq(Seq(Written))
      /\ Len(buffers) \in Nat
      /\ settings.buffer \in 0 .. Len(buffers)
  BY <1>1, OldOnes DEF NestedInv, ExportTypes, FinishCapture, InnermostFrame, Last
<1>3. n \in 1 .. n
  <2>1. n # 0
    BY <1>1, <1>2, EmptySeq
  <2> QED
    BY <1>2, <2>1
<1>4. running[n].path \in {NONE, ExportPath}
  BY <1>1, <1>2, <1>3, ElementOfSeq DEF ExportFrames
<1>5. settings.buffer \in 1 .. Len(buffers)
  <2>1. /\ running[n].old.buffer \in 0 .. Len(buffers)
        /\ running[n].old.buffer < settings.buffer
    BY <1>1, <1>2, <1>3, OldOnes
  <2> QED
    BY <1>2, <2>1
<1>6. CASE running[n].path = NONE
  <2>1. exported' = NOTHING /\ UNCHANGED tree
    BY <1>1, <1>6 DEF FinishCapture, Last
  <2> QED
    BY <1>2, <2>1 DEF FalseMeansCurrent, NOTHING
<1>7. CASE running[n].path # NONE
  <2>1. PICK contents : contents = Trimmed(buffers[settings.buffer])
    OBVIOUS
  <2>2. PICK meant : meant = Trimmed(lexical[Len(lexical)].text)
    OBVIOUS
  <2>3. Export(ExportPath, contents, meant)
    <3>1. running[n].path = ExportPath
      BY <1>4, <1>7
    <3> QED
      BY <1>1, <1>7, <2>1, <2>2, <3>1, Zenon DEF FinishCapture, Last
  <2>4. contents \in Seq(Written)
    BY <1>2, <1>5, <2>1, ElementOfSeq, TrimmedTyped
  <2>5. lost = -1 => contents = meant
    BY <1>5, <2>1, <2>2 DEF NestedInv, CurrentAsMeant, Match
  <2> QED
    BY <1>2, <2>3, <2>4, <2>5, ExportOutcome
<1> QED
  BY <1>6, <1>7

LEMMA ExportInvInit == FilesInit /\ ExportInit => ExportInv
<1> SUFFICES ASSUME FilesInit, ExportInit
             PROVE  ExportInv
  OBVIOUS
<1>1. PICK first : first = [text |-> <<>>, eol |-> <<LF>>, level |-> 0]
  OBVIOUS
<1>2. <<LF>> \in Seq(Written)
  BY BufferAssumption DEF Written
<1>3. first \in Meanings /\ first.level = 0 /\ first.eol = <<LF>>
  BY <1>1, <1>2, TextsTyped DEF Meanings
<1>4. /\ buffers = <<>>
      /\ running = <<>>
      /\ lexical = <<first>>
      /\ lost = -1
      /\ exported = NOTHING
  BY <1>1 DEF ExportInit
<1>5. /\ settings \in Saved
      /\ settings.buffer = 0
      /\ settings.level = 0
      /\ settings.eol = <<LF>>
  BY <1>2 DEF ExportInit, Saved
<1>6. SoundTree(tree)
  BY FilesInvInit DEF FilesInv
<1>7. /\ buffers \in Seq(Seq(Written))
      /\ Len(buffers) = 0
      /\ running \in Seq(ExportFrames)
      /\ Len(running) = 0
      /\ lexical \in Seq(Meanings)
      /\ Len(lexical) = 1
      /\ lexical[1] = first
  BY <1>3, <1>4
<1>8. PICK c : c = [k \in 0 .. 0 |-> 1]
  OBVIOUS
<1>9. c[0] = 1 /\ c \in [0 .. 0 -> Nat]
  BY <1>8
<1>10. Depths(c, running)
  BY <1>7, <1>9 DEF Depths
<1>11. ExportTypes
  BY <1>4, <1>5, <1>6, <1>7 DEF ExportTypes
<1>12. OlderBuffers /\ PutBackAsMeant(c)
  BY <1>7 DEF OlderBuffers, PutBackAsMeant
<1>13. CurrentAsMeant
  BY <1>3, <1>5, <1>7 DEF CurrentAsMeant, Match
<1>14. NestedInv(c)
  BY <1>7, <1>9, <1>10, <1>11, <1>12, <1>13 DEF NestedInv
<1>15. FalseMeansCurrent
  BY <1>4 DEF FalseMeansCurrent, NOTHING
<1> QED
  BY <1>14, <1>15 DEF ExportInv

LEMMA ExportInvStep ==
    ExportInv /\ [ExportNext /\ UNCHANGED done]_<<filesVars, exportVars>> => ExportInv'
<1> SUFFICES ASSUME ExportInv, [ExportNext /\ UNCHANGED done]_<<filesVars, exportVars>>
             PROVE  ExportInv'
  OBVIOUS
<1>1. PICK c : NestedInv(c)
  BY DEF ExportInv
<1>2. Call => FalseMeansCurrent'
  BY DEF Call, FalseMeansCurrent, NOTHING
<1>3. ASSUME NEW path \in {NONE, ExportPath}, BeginCapture(path)
      PROVE  ExportInv'
  <2>1. Call
    BY <1>3 DEF BeginCapture
  <2> QED
    BY <1>1, <1>2, <1>3, <2>1, BeginCaptureNested DEF ExportInv
<1>4. CASE FinishCapture
  BY <1>1, <1>4, FinishCaptureExports, FinishCaptureNested DEF ExportInv
<1>5. CASE BeginPcall
  <2>1. Call
    BY <1>5 DEF BeginPcall
  <2> QED
    BY <1>1, <1>2, <1>5, <2>1, BeginPcallNested DEF ExportInv
<1>6. CASE EndPcall
  <2>1. Call
    BY <1>6 DEF EndPcall
  <2> QED
    BY <1>1, <1>2, <1>6, <2>1, EndPcallNested DEF ExportInv
<1>7. CASE RaiseError
  <2>1. Call
    BY <1>7 DEF RaiseError
  <2> QED
    BY <1>1, <1>2, <1>7, <2>1, RaiseErrorNested DEF ExportInv
<1>8. ASSUME NEW indented \in BOOLEAN, NEW line \in BOOLEAN, Write(indented, line)
      PROVE  ExportInv'
  <2>1. Call
    BY <1>8 DEF Write
  <2>2. NestedInv(c)'
    BY <1>1, <1>8, WriteNested
  <2> QED
    BY <1>2, <2>1, <2>2 DEF ExportInv
<1>9. CASE Indent(1) \/ Outdent(1)
  <2>1. Call
    BY <1>9 DEF Indent, Outdent
  <2>2. NestedInv(c)'
    BY <1>1, <1>9, IndentNested
  <2> QED
    BY <1>2, <2>1, <2>2 DEF ExportInv
<1>10. CASE Eol(<<CR, LF>>)
  <2>1. Call
    BY <1>10 DEF Eol
  <2>2. NestedInv(c)'
    BY <1>1, <1>10, EolNested
  <2> QED
    BY <1>2, <2>1, <2>2 DEF ExportInv
<1>11. CASE UNCHANGED <<filesVars, exportVars>>
  <2>1. UNCHANGED <<tree, buffers, settings, running, lexical, lost, exported>>
    BY <1>11 DEF filesVars, exportVars
  <2>2. NestedInv(c)'
    BY <1>1, <2>1 DEF NestedInv, ExportTypes, SoundTree, Closed, Exists, DirectoryAt,
                      Depths, OlderBuffers, PutBackAsMeant, CurrentAsMeant, Intact, Match
  <2>3. FalseMeansCurrent'
    BY <2>1 DEF ExportInv, FalseMeansCurrent
  <2> QED
    BY <2>2, <2>3 DEF ExportInv
<1> QED
  BY <1>3, <1>4, <1>5, <1>6, <1>7, <1>8, <1>9, <1>10, <1>11, Zenon DEF ExportNext

\* For captures nested to any depth, with errors leaving any number of them: the globals are
\* what the innermost capture means, its buffer holds what was written in it, and a file that
\* premake.export() leaves unchanged holds the contents (export.lua:28-44, premake.lua:98-110).
THEOREM ExportsCaptured == ExportSpec => []ExportsAsCaptured
<1>1. ExportInv => ExportsAsCaptured
  <2> SUFFICES ASSUME ExportInv
               PROVE  CapturesNest /\ FalseMeansCurrent
    BY DEF ExportsAsCaptured
  <2>1. PICK c : NestedInv(c)
    BY DEF ExportInv
  <2>2. CapturesNest
    BY <2>1 DEF NestedInv, CurrentAsMeant, CapturesNest, Match, Last
  <2> QED
    BY <2>2 DEF ExportInv
<1> QED
  BY <1>1, ExportInvInit, ExportInvStep, PTL DEF ExportSpec
=============================================================================
