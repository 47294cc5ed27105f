---------------------------- MODULE State_proofs ----------------------------
(***************************************************************************)
(* Proofs about State: whatever is cached in a state and shared with those *)
(* derived from it, for every script, hierarchy of scopes and number of    *)
(* states.                                                                 *)
(***************************************************************************)
EXTENDS State, SequenceTheorems, FiniteSetTheorems, WellFoundedInduction, TLAPS

-----------------------------------------------------------------------------
(***************************************************************************)
(* Scopes that are crossed.                                                *)
(***************************************************************************)
\* Division with a remainder.
LEMMA Division ==
    ASSUME NEW L \in Nat \ {0}, NEW n \in Nat
    PROVE  /\ n \div L \in Nat
           /\ n % L \in 0 .. L - 1
           /\ n = L * (n \div L) + (n % L)
  BY SMT

LEMMA DivisionBound ==
    ASSUME NEW L \in Nat \ {0}, NEW N \in Nat, NEW n \in Nat, n < N * L
    PROVE  n \div L < N
<1> DEFINE q == n \div L
<1>1. q \in Nat /\ n % L \in 0 .. L - 1 /\ n = L * q + (n % L)
  BY Division
<1> HIDE DEF q
<1>2. ASSUME q >= N
      PROVE  FALSE
  BY <1>1, <1>2
<1> QED
  BY <1>1, <1>2 DEF q

LEMMA DivisionUnique ==
    ASSUME NEW L \in Nat \ {0}, NEW q \in Nat, NEW r \in 0 .. L - 1
    PROVE  (L * q + r) \div L = q /\ (L * q + r) % L = r
  BY SMT

\* The indices of a table of N rows and L columns, row by row.
LEMMA RowsAndColumns ==
    ASSUME NEW L \in Nat, NEW N \in Nat
    PROVE  /\ N * L \in Nat
           /\ \A n \in 1 .. N * L :
                 ((n - 1) % L) + 1 \in 1 .. L /\ ((n - 1) \div L) + 1 \in 1 .. N
           /\ \A row \in 1 .. N, column \in 1 .. L :
                 \E n \in 1 .. N * L :
                     ((n - 1) % L) + 1 = column /\ ((n - 1) \div L) + 1 = row
<1>1. N * L \in Nat
  OBVIOUS
<1>2. ASSUME NEW n \in 1 .. N * L
      PROVE  ((n - 1) % L) + 1 \in 1 .. L /\ ((n - 1) \div L) + 1 \in 1 .. N
  <2>1. L # 0 /\ n - 1 \in Nat /\ n - 1 < N * L
    BY <1>1, <1>2
  <2> DEFINE q == (n - 1) \div L
             r == (n - 1) % L
  <2>2. q \in Nat /\ r \in 0 .. L - 1
    BY <2>1, Division
  <2>3. q < N
    BY <2>1, DivisionBound
  <2> HIDE DEF q, r
  <2>4. r + 1 \in 1 .. L /\ q + 1 \in 1 .. N
    BY <2>2, <2>3
  <2> QED
    BY <2>4 DEF q, r
<1>3. ASSUME NEW row \in 1 .. N, NEW column \in 1 .. L
      PROVE  \E n \in 1 .. N * L :
                 ((n - 1) % L) + 1 = column /\ ((n - 1) \div L) + 1 = row
  <2> DEFINE k == L * (row - 1) + (column - 1)
  <2>1. L \in Nat \ {0} /\ row - 1 \in Nat /\ column - 1 \in 0 .. L - 1
    BY <1>3
  <2>2. k \div L = row - 1 /\ k % L = column - 1
    BY <2>1, DivisionUnique
  <2>3. k \in Nat /\ k < N * L
    <3>1. L * (row - 1) <= L * (N - 1)
      BY <1>3
    <3> QED
      BY <2>1, <3>1
  <2> HIDE DEF k
  <2>4. k + 1 \in 1 .. N * L /\ (k + 1) - 1 = k
    BY <2>3, <1>1
  <2>5. (((k + 1) - 1) % L) + 1 = column /\ (((k + 1) - 1) \div L) + 1 = row
    BY <2>2, <2>4
  <2> QED
    BY <2>4, <2>5
<1> QED
  BY <1>1, <1>2, <1>3

LEMMA MergeKeysType ==
    ASSUME NEW first \in ValueMap, NEW second \in ValueMap
    PROVE  MergeKeys(first, second) \in ValueMap
  BY DEF MergeKeys, ValueMap

LEMMA CrossScopesFacts ==
    ASSUME NEW locals \in Seq(ValueMap), NEW outers \in Seq(ValueMap)
    PROVE  /\ CrossScopes(locals, outers) \in Seq(ValueMap)
           /\ ToSet(CrossScopes(locals, outers)) =
                 {MergeKeys(a, b) : a \in ToSet(locals), b \in ToSet(outers)}
<1> DEFINE L == Len(locals)
           N == Len(outers)
           crossed == CrossScopes(locals, outers)
<1>1. /\ L \in Nat
      /\ N \in Nat
      /\ DOMAIN locals = 1 .. L
      /\ DOMAIN outers = 1 .. N
      /\ \A k \in 1 .. L : locals[k] \in ValueMap
      /\ \A k \in 1 .. N : outers[k] \in ValueMap
  BY LenProperties, ElementOfSeq
<1>2. /\ N * L \in Nat
      /\ crossed = [n \in 1 .. N * L |->
             MergeKeys(locals[((n - 1) % L) + 1], outers[((n - 1) \div L) + 1])]
  BY <1>1, RowsAndColumns DEF CrossScopes
<1> HIDE DEF L, N, crossed
<1>3. ASSUME NEW n \in 1 .. N * L
      PROVE  \E j \in 1 .. L, k \in 1 .. N : crossed[n] = MergeKeys(locals[j], outers[k])
  <2>1. ((n - 1) % L) + 1 \in 1 .. L /\ ((n - 1) \div L) + 1 \in 1 .. N
    BY <1>1, <1>3, RowsAndColumns
  <2> QED
    BY <1>2, <2>1
<1>4. ASSUME NEW j \in 1 .. L, NEW k \in 1 .. N
      PROVE  \E n \in 1 .. N * L : crossed[n] = MergeKeys(locals[j], outers[k])
  <2>1. \A row \in 1 .. N, column \in 1 .. L :
            \E n \in 1 .. N * L : ((n - 1) % L) + 1 = column /\ ((n - 1) \div L) + 1 = row
    BY <1>1, RowsAndColumns, Zenon
  <2>2. PICK n \in 1 .. N * L : ((n - 1) % L) + 1 = j /\ ((n - 1) \div L) + 1 = k
    BY <2>1, Zenon
  <2> QED
    BY <1>2, <2>2
<1>5. DOMAIN crossed = 1 .. N * L /\ \A n \in 1 .. N * L : crossed[n] \in ValueMap
  BY <1>1, <1>2, <1>3, MergeKeysType
<1>6. crossed \in Seq(ValueMap)
  <2>1. crossed \in [1 .. N * L -> ValueMap]
    BY <1>2, <1>5
  <2> QED
    BY <1>2, <2>1, SeqDef
<1>7. ASSUME NEW s
      PROVE  s \in ToSet(crossed) <=>
                 \E a \in ToSet(locals), b \in ToSet(outers) : s = MergeKeys(a, b)
  <2>1. s \in ToSet(crossed) <=> \E n \in 1 .. N * L : s = crossed[n]
    BY <1>5 DEF ToSet
  <2>2. (\E a \in ToSet(locals), b \in ToSet(outers) : s = MergeKeys(a, b))
           <=> \E j \in 1 .. L, k \in 1 .. N : s = MergeKeys(locals[j], outers[k])
    BY <1>1 DEF ToSet
  <2>3. ASSUME NEW n \in 1 .. N * L, s = crossed[n]
        PROVE  \E j \in 1 .. L, k \in 1 .. N : s = MergeKeys(locals[j], outers[k])
    BY <1>3, <2>3
  <2>4. ASSUME NEW j \in 1 .. L, NEW k \in 1 .. N, s = MergeKeys(locals[j], outers[k])
        PROVE  \E n \in 1 .. N * L : s = crossed[n]
    BY <1>4, <2>4
  <2> QED
    BY <2>1, <2>2, <2>3, <2>4, Zenon
<1> QED
  BY <1>6, <1>7 DEF crossed

LEMMA CrossScopesAndOuterFacts ==
    ASSUME NEW locals \in Seq(ValueMap), NEW outers \in Seq(ValueMap)
    PROVE  /\ CrossScopesAndOuter(locals, outers) \in Seq(ValueMap)
           /\ ToSet(outers) \subseteq ToSet(CrossScopesAndOuter(locals, outers))
           /\ \A a \in ToSet(locals), b \in ToSet(outers) :
                 MergeKeys(a, b) \in ToSet(CrossScopesAndOuter(locals, outers))
<1> DEFINE L == Len(locals)
           N == Len(outers)
           crossed == CrossScopesAndOuter(locals, outers)
           Cell(j, k) == IF j = L + 1 THEN outers[k] ELSE MergeKeys(locals[j], outers[k])
<1>1. /\ L \in Nat
      /\ L + 1 \in Nat
      /\ N \in Nat
      /\ DOMAIN locals = 1 .. L
      /\ DOMAIN outers = 1 .. N
      /\ \A k \in 1 .. L : locals[k] \in ValueMap
      /\ \A k \in 1 .. N : outers[k] \in ValueMap
  BY LenProperties, ElementOfSeq
<1>2. /\ N * (L + 1) \in Nat
      /\ crossed = [n \in 1 .. N * (L + 1) |->
             Cell(((n - 1) % (L + 1)) + 1, ((n - 1) \div (L + 1)) + 1)]
  BY <1>1, RowsAndColumns DEF CrossScopesAndOuter
<1>3. ASSUME NEW j \in 1 .. L + 1, NEW k \in 1 .. N
      PROVE  Cell(j, k) \in ValueMap
  BY <1>1, <1>3, MergeKeysType
<1> HIDE DEF L, N, crossed, Cell
<1>4. ASSUME NEW n \in 1 .. N * (L + 1)
      PROVE  crossed[n] \in ValueMap
  <2>1. ((n - 1) % (L + 1)) + 1 \in 1 .. L + 1 /\ ((n - 1) \div (L + 1)) + 1 \in 1 .. N
    BY <1>1, <1>4, RowsAndColumns
  <2> QED
    BY <1>2, <1>3, <2>1
<1>5. ASSUME NEW j \in 1 .. L + 1, NEW k \in 1 .. N
      PROVE  Cell(j, k) \in ToSet(crossed)
  <2>1. \A row \in 1 .. N, column \in 1 .. L + 1 :
            \E n \in 1 .. N * (L + 1) :
                ((n - 1) % (L + 1)) + 1 = column /\ ((n - 1) \div (L + 1)) + 1 = row
    BY <1>1, RowsAndColumns, Zenon
  <2>2. PICK n \in 1 .. N * (L + 1) : ((n - 1) % (L + 1)) + 1 = j /\ ((n - 1) \div (L + 1)) + 1 = k
    BY <2>1, Zenon
  <2> QED
    BY <1>2, <2>2 DEF ToSet
<1>6. crossed \in Seq(ValueMap)
  <2>1. crossed \in [1 .. N * (L + 1) -> ValueMap]
    BY <1>2, <1>4
  <2> QED
    BY <1>2, <2>1, SeqDef
<1>7. ToSet(outers) \subseteq ToSet(crossed)
  <2>1. L + 1 \in 1 .. L + 1 /\ \A k : Cell(L + 1, k) = outers[k]
    BY <1>1 DEF Cell
  <2> QED
    BY <1>1, <1>5, <2>1 DEF ToSet
<1>8. ASSUME NEW a \in ToSet(locals), NEW b \in ToSet(outers)
      PROVE  MergeKeys(a, b) \in ToSet(crossed)
  <2>1. PICK j \in 1 .. L, k \in 1 .. N : a = locals[j] /\ b = outers[k]
    BY <1>1 DEF ToSet
  <2>2. j \in 1 .. L + 1 /\ Cell(j, k) = MergeKeys(a, b)
    BY <1>1, <2>1 DEF Cell
  <2> QED
    BY <1>5, <2>2
<1> QED
  BY <1>6, <1>7, <1>8 DEF crossed

LEMMA ConcatMembers ==
    ASSUME NEW S, NEW s \in Seq(S), NEW t \in Seq(S)
    PROVE  s \o t \in Seq(S) /\ ToSet(s \o t) = ToSet(s) \cup ToSet(t)
<1>1. /\ ToSet(s) = Range(s)
      /\ ToSet(t) = Range(t)
      /\ ToSet(s \o t) = Range(s \o t)
  BY DEF ToSet, Range
<1> QED
  BY <1>1, RangeConcatenation, ConcatProperties

-----------------------------------------------------------------------------
(***************************************************************************)
(* What states are made of.                                                *)
(***************************************************************************)
LEMMA LeastNumber ==
    ASSUME NEW T, T \subseteq Nat, T # {}
    PROVE  \E n \in T : \A m \in T : n <= m
<1> DEFINE below == {pair \in Nat \X Nat : pair[1] < pair[2]}
<1>1. IsWellFoundedOn(below, Nat)
  BY NatLessThanWellFounded, Zenon DEF OpToRel
<1>2. PICK n \in T : \A m \in T : <<m, n>> \notin below
  <2> HIDE DEF below
  <2> QED
    BY <1>1, WFMin, Zenon
<1>3. \A m \in T : ~(m < n)
  BY <1>2
<1> QED
  BY <1>3

\* The scopes that select() and selectAny() are called with name scope fields only.
LocalScopes ==
    {scopes \in Seq(ValueMap) :
        \A k \in DOMAIN scopes : \A f \in Fields \ ScopeFields : scopes[k][f] = Nil}

LEMMA EmptyMapType == EmptyMap \in ValueMap
  BY DEF EmptyMap, ValueMap, FieldValue

LEMMA ReceiveAllType ==
    ASSUME NEW values \in ValueMap, NEW maps \in Seq(ValueMap)
    PROVE  ReceiveAllValues(values, maps) \in ValueMap
<1>1. DOMAIN maps \subseteq Nat /\ \A k \in DOMAIN maps : maps[k] \in ValueMap
  BY LenProperties, ElementOfSeq
<1> SUFFICES ASSUME NEW f \in Fields
             PROVE  ReceiveAllValues(values, maps)[f] \in FieldValue
  BY DEF ReceiveAllValues, ValueMap
<1> DEFINE given == {k \in DOMAIN maps : maps[k][f] # Nil}
           first == CHOOSE k \in given : \A l \in given : k <= l
<1>2. ReceiveAllValues(values, maps)[f] =
          IF given = {} \/ (f \in StringFields /\ values[f] # Nil) THEN values[f]
          ELSE IF f \in StringFields THEN maps[first][f]
          ELSE Held(values[f]) \cup UNION {maps[k][f] : k \in given}
  BY DEF ReceiveAllValues
<1>3. given # {} => first \in given
  <2>1. given # {} => \E k \in given : \A l \in given : k <= l
    BY <1>1, LeastNumber
  <2> QED
    BY <2>1
<1>4. \A k \in given : maps[k][f] \in SUBSET Strings
  BY <1>1 DEF ValueMap, FieldValue
<1>5. values[f] \in FieldValue /\ Held(values[f]) \in SUBSET Strings
  BY DEF ValueMap, FieldValue, Held
<1> HIDE DEF first, given
<1>6. UNION {maps[k][f] : k \in given} \in SUBSET Strings
  BY <1>4
<1> QED
  BY <1>2, <1>3, <1>4, <1>5, <1>6 DEF FieldValue

LEMMA SingleScope ==
    ASSUME NEW s \in ValueMap
    PROVE  <<s>> \in Seq(ValueMap) /\ DOMAIN <<s>> = {1} /\ <<s>>[1] = s
  OBVIOUS

LEMMA AnyOfType ==
    ASSUME NEW selector \in ValueMap,
           \A f \in Fields \ ScopeFields : selector[f] = Nil,
           NEW keys \in SetToSeqs(Keys(selector))
    PROVE  AnyOf(selector, keys) \in LocalScopes
<1> DEFINE n == Cardinality(Keys(selector))
           single == [k \in DOMAIN keys |-> [EmptyMap EXCEPT ![keys[k]] = selector[keys[k]]]]
<1>1. Keys(selector) \subseteq Fields /\ Keys(selector) \subseteq ScopeFields
  BY FieldsAssumption DEF Keys
<1>2. n \in Nat
  BY <1>1, SelectorsAssumption, FS_Subset, FS_CardinalityType
<1>3. keys \in [1 .. n -> Keys(selector)]
  BY DEF SetToSeqs
<1>4. ASSUME NEW k \in 1 .. n
      PROVE  /\ single[k] \in ValueMap
             /\ \A f \in Fields \ ScopeFields : single[k][f] = Nil
  <2>1. keys[k] \in Fields /\ keys[k] \in ScopeFields
    BY <1>1, <1>3
  <2>2. single[k] = [EmptyMap EXCEPT ![keys[k]] = selector[keys[k]]]
    BY <1>3
  <2> QED
    BY <2>1, <2>2, EmptyMapType DEF ValueMap, EmptyMap
<1>5. single \in Seq(ValueMap) /\ DOMAIN single = 1 .. n
  <2>1. DOMAIN single = 1 .. n
    BY <1>3
  <2>2. single \in [1 .. n -> ValueMap]
    BY <1>4, <2>1
  <2> HIDE DEF single, n
  <2> QED
    BY <1>2, <2>1, <2>2, SeqDef
<1>6. single \in LocalScopes
  BY <1>4, <1>5 DEF LocalScopes
<1> HIDE DEF single, n
<1>7. Append(single, selector) \in LocalScopes
  <2>1. /\ Append(single, selector) \in Seq(ValueMap)
        /\ DOMAIN Append(single, selector) = 1 .. Len(single) + 1
        /\ \A k \in 1 .. Len(single) : Append(single, selector)[k] = single[k]
        /\ Append(single, selector)[Len(single) + 1] = selector
    BY <1>5, AppendProperties, LenProperties
  <2>2. Len(single) \in Nat /\ DOMAIN single = 1 .. Len(single)
    BY <1>5, LenProperties
  <2>3. ASSUME NEW k \in DOMAIN Append(single, selector), NEW f \in Fields \ ScopeFields
        PROVE  Append(single, selector)[k][f] = Nil
    <3>1. CASE k \in 1 .. Len(single)
      BY <1>4, <1>5, <2>1, <2>2, <3>1
    <3>2. CASE k = Len(single) + 1
      BY <2>1, <3>2
    <3> QED
      BY <2>1, <2>2, <3>1, <3>2
  <2> QED
    BY <2>1, <2>3 DEF LocalScopes
<1> QED
  BY <1>6, <1>7 DEF AnyOf, single

Targets(h) == ToSet(states[h].scopes.targetScopes)
Globals(h) == ToSet(states[h].scopes.globalScopes)
Locals(h) == ToSet(states[h].scopes.localScopes)

\* What deriving and fetching leaves of a state.
Keeps(h) ==
    /\ states'[h].scopes = states[h].scopes
    /\ states'[h].container = states[h].container
    /\ states'[h].base = states[h].base
    /\ states'[h].unset = states[h].unset

KeepsCache(h) ==
    /\ states'[h].evaluated = states[h].evaluated
    /\ states'[h].blocks = states[h].blocks
    /\ states'[h].fetched = states[h].fetched

\* A state was derived, and the others are as they were, but for inheriting versions.
Derived(record) ==
    /\ Len(states') = Len(states) + 1
    /\ DOMAIN states' = 1 .. Len(states) + 1
    /\ states'[Len(states) + 1] = record
    /\ \A h \in Handles : Keeps(h) /\ KeepsCache(h)
    /\ UNCHANGED script

HandleFacts ==
    /\ Len(states) \in Nat
    /\ Handles = 1 .. Len(states)
    /\ \A h \in Handles : states[h] \in StateRecord

LEMMA TypedHandles == TypeOK => HandleFacts
  BY LenProperties, ElementOfSeq DEF TypeOK, HandleFacts, Handles

LEMMA CleanFacts ==
    ASSUME TypeOK, NEW h \in Handles
    PROVE  CleanInstance(h) \in Handles
  BY TypedHandles DEF TypeOK, CleanInstance, HandleFacts

LEMMA SelectedScopes ==
    ASSUME TypeOK, NEW h \in Handles, NEW localScopes \in Seq(ValueMap)
    PROVE  SelectScopes(states[CleanInstance(h)].scopes, localScopes) \in StateScopesType
<1> DEFINE container == states[CleanInstance(h)].scopes
<1>1. container \in StateScopesType
  BY CleanFacts, TypedHandles DEF HandleFacts, StateRecord
<1> HIDE DEF container
<1>2. /\ container.initialValues \in ValueMap
      /\ container.targetScopes \in Seq(ValueMap)
      /\ container.globalScopes \in Seq(ValueMap)
  BY <1>1 DEF StateScopesType
<1>3. /\ ReceiveAllValues(container.initialValues, localScopes) \in ValueMap
      /\ CrossScopes(localScopes, container.targetScopes) \in Seq(ValueMap)
      /\ CrossScopesAndOuter(localScopes, container.globalScopes) \in Seq(ValueMap)
  BY <1>2, ReceiveAllType, CrossScopesFacts, CrossScopesAndOuterFacts
<1>4. SelectScopes(container, localScopes) \in StateScopesType
  BY <1>3 DEF SelectScopes, StateScopesType
<1> QED
  BY <1>4 DEF container

LEMMA SelectedRecord ==
    ASSUME TypeOK, NEW h \in Handles, NEW localScopes \in Seq(ValueMap)
    PROVE  NewRecord(SelectScopes(states[CleanInstance(h)].scopes, localScopes), h) \in StateRecord
<1>1. h \in Nat /\ Len(unsetTables) + 1 \in Nat
  BY TypedHandles, LenProperties DEF HandleFacts, TypeOK
<1> QED
  BY <1>1, SelectedScopes, EmptyMapType DEF NewRecord, StateRecord

LEMMA AppendedState ==
    ASSUME TypeOK, NEW record \in StateRecord,
           states' = Append(states, record), UNCHANGED script
    PROVE  /\ Derived(record)
           /\ states' \in Seq(StateRecord)
           /\ \A h \in Handles : states'[h] = states[h]
<1>1. /\ states' \in Seq(StateRecord)
      /\ Len(states') = Len(states) + 1
      /\ \A h \in 1 .. Len(states) : states'[h] = states[h]
      /\ states'[Len(states) + 1] = record
  BY AppendProperties DEF TypeOK
<1>2. DOMAIN states' = 1 .. Len(states) + 1
  BY <1>1, LenProperties
<1> QED
  BY <1>1, <1>2, TypedHandles DEF Derived, HandleFacts, Keeps, KeepsCache

LEMMA SelectDerives ==
    ASSUME TypeOK, NEW h \in Handles, NEW localScopes \in Seq(ValueMap), Derive(h, localScopes)
    PROVE  /\ Derived(NewRecord(SelectScopes(states[CleanInstance(h)].scopes, localScopes), h))
           /\ states' \in Seq(StateRecord)
           /\ \A g \in Handles : states'[g] = states[g]
  BY SelectedRecord, AppendedState DEF Derive

LEMMA FromScopesDerives ==
    ASSUME TypeOK, NEW h \in Handles, NEW c \in Handles, FromScopesOf(h, c)
    PROVE  LET record == [CopyOf(h) EXCEPT !.scopes = FromScopes(@, states[c].scopes)]
           IN  /\ record \in StateRecord
               /\ Derived(record)
               /\ states' \in Seq(StateRecord)
               /\ \A g \in Handles : states'[g] = states[g]
<1> DEFINE record == [CopyOf(h) EXCEPT !.scopes = FromScopes(@, states[c].scopes)]
<1>1. states[h] \in StateRecord /\ states[c] \in StateRecord
  BY TypedHandles DEF HandleFacts
<1>2. states[h].scopes \in StateScopesType /\ states[c].scopes \in StateScopesType
  BY <1>1 DEF StateRecord
<1>3. CrossScopes(states[h].scopes.localScopes, states[c].scopes.targetScopes) \in Seq(ValueMap)
  BY <1>2, CrossScopesFacts DEF StateScopesType
<1>4. states[h].scopes.targetScopes
          \o CrossScopes(states[h].scopes.localScopes, states[c].scopes.targetScopes)
          \in Seq(ValueMap)
  BY <1>2, <1>3, ConcatMembers DEF StateScopesType
<1>5. FromScopes(states[h].scopes, states[c].scopes) \in StateScopesType
  BY <1>2, <1>4 DEF FromScopes, StateScopesType
<1>6. record \in StateRecord
  BY <1>1, <1>5, EmptyMapType DEF CopyOf, StateRecord
<1> QED
  BY <1>6, AppendedState DEF FromScopesOf

LEMMA InheritDerives ==
    ASSUME TypeOK, NEW h \in Handles, WithInheritance(h)
    PROVE  /\ states[h].container \in Handles
           /\ InheritingVersion(h) \in StateRecord
           /\ Derived(InheritingVersion(h))
           /\ states' \in Seq(StateRecord)
           /\ states'[h].inheriting = Len(states) + 1
           /\ \A g \in Handles : g # h => states'[g] = states[g]
<1> DEFINE c == states[h].container
<1>1. c \in Handles /\ h \in Nat
  BY TypedHandles DEF TypeOK, HandleFacts, WithInheritance
<1>2. states[h] \in StateRecord /\ states[c] \in StateRecord
  BY <1>1, TypedHandles DEF HandleFacts
<1>3. states[h].scopes \in StateScopesType /\ states[c].scopes \in StateScopesType
  BY <1>2 DEF StateRecord
<1>4. states[h].scopes.targetScopes \o states[c].scopes.targetScopes \in Seq(ValueMap)
  BY <1>3, ConcatMembers DEF StateScopesType
<1>5. InheritFrom(states[h].scopes, states[c].scopes) \in StateScopesType
  BY <1>3, <1>4 DEF InheritFrom, StateScopesType
<1>6. InheritingVersion(h) \in StateRecord
  BY <1>1, <1>2, <1>5, EmptyMapType DEF InheritingVersion, CopyOf, StateRecord
<1> DEFINE longer == Append(states, InheritingVersion(h))
           n == Len(states)
<1>7. /\ longer \in Seq(StateRecord)
      /\ Len(longer) = n + 1
      /\ \A g \in 1 .. n : longer[g] = states[g]
      /\ longer[n + 1] = InheritingVersion(h)
  BY <1>6, AppendProperties DEF TypeOK
<1>8. /\ n \in Nat
      /\ h \in 1 .. n
      /\ Handles = 1 .. n
      /\ DOMAIN longer = 1 .. n + 1
  BY <1>7, LenProperties, TypedHandles DEF HandleFacts
<1>9. states' = [longer EXCEPT ![h].inheriting = n + 1]
  BY DEF WithInheritance
<1> HIDE DEF longer, n
<1>10. [longer[h] EXCEPT !.inheriting = n + 1] \in StateRecord
  <2>1. longer[h] = states[h] /\ n + 1 \in Nat
    BY <1>7, <1>8
  <2>2. \A r \in StateRecord, m \in Nat : [r EXCEPT !.inheriting = m] \in StateRecord
    BY DEF StateRecord
  <2> QED
    BY <1>2, <2>1, <2>2
<1>11. /\ DOMAIN states' = 1 .. n + 1
       /\ states'[h] = [longer[h] EXCEPT !.inheriting = n + 1]
       /\ \A g \in 1 .. n + 1 : g # h => states'[g] = longer[g]
  BY <1>8, <1>9
<1>12. states' \in Seq(StateRecord) /\ Len(states') = n + 1
  <2>1. h \in 1 .. Len(longer) /\ states' = [longer EXCEPT ![h] = [longer[h] EXCEPT !.inheriting = n + 1]]
    BY <1>7, <1>8, <1>9
  <2> QED
    BY <1>7, <1>10, <2>1, ExceptSeq
<1>13. /\ Keeps(h) /\ KeepsCache(h)
       /\ states'[h].inheriting = n + 1
  BY <1>2, <1>7, <1>8, <1>11 DEF Keeps, KeepsCache, StateRecord
<1>14. \A g \in Handles : g # h => states'[g] = states[g]
  BY <1>7, <1>8, <1>11
<1>15. states'[n + 1] = InheritingVersion(h)
  BY <1>7, <1>8, <1>11
<1>16. Derived(InheritingVersion(h))
  BY <1>8, <1>11, <1>12, <1>13, <1>14, <1>15 DEF Derived, Keeps, KeepsCache, n, WithInheritance
<1> QED
  BY <1>1, <1>6, <1>12, <1>13, <1>14, <1>16 DEF n

\* The value of a field that blocks of the script build.
LEMMA FetchedType ==
    ASSUME TypeOK, NEW places \in SUBSET DOMAIN script, NEW values \in ValueMap, NEW f \in Fields
    PROVE  FetchedValue([k \in places |-> script[k]], values, f) \in FieldValue
<1>1. Survivors([k \in places |-> script[k]], f) \in SUBSET Strings
  BY DEF Survivors, SurvivorsOf
<1>2. values[f] \in FieldValue
  BY DEF ValueMap
<1> QED
  BY <1>1, <1>2 DEF FetchedValue, BuildValue, DefaultValue, FieldValue

LEMMA BlocksType ==
    ASSUME TypeOK, NEW h \in Handles
    PROVE  BlocksOf(h) \in SUBSET DOMAIN script /\ BlocksOf(h) \in SUBSET Nat
<1>1. DOMAIN script \subseteq Nat
  BY ScriptsAssumption, LenProperties DEF TypeOK
<1> QED
  BY <1>1 DEF TypeOK, BlocksOf, EnabledFor

LEMMA FetchFacts ==
    ASSUME TypeOK, NEW h \in Handles, NEW f \in Fields, Fetch(h, f)
    PROVE  /\ states' \in Seq(StateRecord)
           /\ Len(states') = Len(states)
           /\ DOMAIN states' = DOMAIN states
           /\ \A g \in Handles : Keeps(g) /\ states'[g].inheriting = states[g].inheriting
           /\ \A g \in Handles : g # h => KeepsCache(g)
           /\ states'[h].evaluated
           /\ states'[h].blocks = BlocksOf(h)
           /\ \A e \in Fields :
                 states'[h].fetched[e] = IF e = f THEN ValueOf(h, f) ELSE states[h].fetched[e]
           /\ UNCHANGED script
<1>1. states[h] \in StateRecord /\ h \in 1 .. Len(states)
  BY TypedHandles DEF HandleFacts
<1>2. states[h].scopes.initialValues \in ValueMap /\ states[h].fetched \in ValueMap
  BY <1>1 DEF StateRecord, StateScopesType
<1>3. ValueOf(h, f) \in FieldValue
  BY <1>2, BlocksType, FetchedType DEF ValueOf
<1> DEFINE fetched == [states[h].fetched EXCEPT ![f] = ValueOf(h, f)]
           record == [states[h] EXCEPT !.evaluated = TRUE, !.blocks = BlocksOf(h),
                                       !.fetched = fetched]
<1>4. /\ fetched \in ValueMap
      /\ \A e \in Fields : fetched[e] = IF e = f THEN ValueOf(h, f) ELSE states[h].fetched[e]
  BY <1>2, <1>3 DEF ValueMap
<1>5. states' = [states EXCEPT ![h] = record]
  BY DEF Fetch
<1> HIDE DEF fetched
<1>6. record \in StateRecord
  BY <1>1, <1>4, BlocksType DEF StateRecord
<1>7. /\ record.scopes = states[h].scopes
      /\ record.container = states[h].container
      /\ record.base = states[h].base
      /\ record.unset = states[h].unset
      /\ record.inheriting = states[h].inheriting
      /\ record.evaluated
      /\ record.blocks = BlocksOf(h)
      /\ record.fetched = fetched
  BY <1>1 DEF StateRecord
<1> HIDE DEF record
<1>8. /\ states' \in Seq(StateRecord)
      /\ Len(states') = Len(states)
      /\ \A g \in 1 .. Len(states) : states'[g] = IF g = h THEN record ELSE states[g]
  BY <1>1, <1>5, <1>6, ExceptSeq DEF TypeOK
<1>9. DOMAIN states' = DOMAIN states
  BY <1>5
<1>10. UNCHANGED script
  BY DEF Fetch
<1>11. states'[h] = record /\ \A g \in Handles : g # h => states'[g] = states[g]
  BY <1>1, <1>8, TypedHandles DEF HandleFacts
<1>12. /\ Keeps(h)
       /\ states'[h].inheriting = states[h].inheriting
       /\ states'[h].evaluated
       /\ states'[h].blocks = BlocksOf(h)
  BY <1>7, <1>11 DEF Keeps
<1>13. \A e \in Fields :
          states'[h].fetched[e] = IF e = f THEN ValueOf(h, f) ELSE states[h].fetched[e]
  BY <1>4, <1>7, <1>11
<1>14. \A g \in Handles :
          g # h => Keeps(g) /\ KeepsCache(g) /\ states'[g].inheriting = states[g].inheriting
  BY <1>11 DEF Keeps, KeepsCache
<1>15. \A g \in Handles : Keeps(g) /\ states'[g].inheriting = states[g].inheriting
  BY <1>12, <1>14
<1> QED
  BY <1>8, <1>9, <1>10, <1>12, <1>13, <1>14, <1>15

\* What a step of an exporter does.
Selects(h) == \E localScopes \in LocalScopes : Derive(h, localScopes)
Includes(h) == h = Len(states) /\ Untouched(h) /\ \E c \in Ancestors(h) : FromScopesOf(h, c)
Inherits(h) == h = Len(states) /\ Untouched(h) /\ WithInheritance(h)
Fetches(h, f) == (f \in StringFields => ~Superseded(h)) /\ Fetch(h, f)

LEMMA StepCases ==
    ASSUME TypeOK, ExporterNext
    PROVE  \E h \in Handles :
               \/ Selects(h)
               \/ Includes(h)
               \/ Inherits(h)
               \/ \E f \in Fields \ ScopeFields : Fetches(h, f)
<1>1. ASSUME NEW h \in Handles, NEW selector \in Selectors(script),
             SelectState(h, selector) \/ SelectAnyState(h, selector)
      PROVE  Selects(h)
  <2>1. /\ selector \in ValueMap
        /\ \A f \in Fields \ ScopeFields : selector[f] = Nil
    BY SelectorsAssumption DEF TypeOK
  <2>2. <<selector>> \in LocalScopes
    BY <2>1, SingleScope DEF LocalScopes
  <2>3. \A keys \in SetToSeqs(Keys(selector)) : AnyOf(selector, keys) \in LocalScopes
    BY <2>1, AnyOfType
  <2> QED
    BY <1>1, <2>2, <2>3 DEF Selects, SelectState, SelectAnyState
<1> QED
  BY <1>1 DEF ExporterNext, Includes, Inherits, Fetches

LEMMA DerivedType ==
    ASSUME TypeOK, NEW record \in StateRecord, Derived(record),
           states' \in Seq(StateRecord), unsetTables' \in Seq(SUBSET Fields),
           DOMAIN unsetTables \subseteq DOMAIN unsetTables',
           \A h \in Handles : states'[h].inheriting \in 0 .. Len(states) + 1,
           {record.container, record.base, record.inheriting} \subseteq 0 .. Len(states),
           record.unset \in DOMAIN unsetTables',
           record.blocks \subseteq DOMAIN script
    PROVE  TypeOK'
<1>1. HandleFacts
  BY TypedHandles
<1>2. ASSUME NEW h \in Handles'
      PROVE  /\ {states'[h].container, states'[h].base, states'[h].inheriting}
                    \subseteq 0 .. Len(states')
             /\ states'[h].unset \in DOMAIN unsetTables'
             /\ states'[h].blocks \subseteq DOMAIN script'
  <2>0. Len(states) \in Nat /\ Len(states') = Len(states) + 1 /\ UNCHANGED script
    BY <1>1 DEF Derived, HandleFacts
  <2>1. CASE h \in Handles
    <3>1. Keeps(h) /\ KeepsCache(h)
      BY <2>1 DEF Derived
    <3>2. /\ states[h].container \in 0 .. Len(states)
          /\ states[h].base \in 0 .. Len(states)
          /\ states[h].unset \in DOMAIN unsetTables
          /\ states[h].blocks \subseteq DOMAIN script
      BY <2>1 DEF TypeOK
    <3>3. states'[h].inheriting \in 0 .. Len(states) + 1
      BY <2>1
    <3>4. /\ states'[h].container \in 0 .. Len(states) + 1
          /\ states'[h].base \in 0 .. Len(states) + 1
      BY <2>0, <3>1, <3>2 DEF Keeps
    <3>5. states'[h].unset \in DOMAIN unsetTables' /\ states'[h].blocks \subseteq DOMAIN script'
      BY <2>0, <3>1, <3>2 DEF Keeps, KeepsCache
    <3> QED
      BY <2>0, <3>3, <3>4, <3>5
  <2>2. CASE h = Len(states) + 1
    <3>1. states'[h] = record
      BY <2>2 DEF Derived
    <3> QED
      BY <2>0, <3>1
  <2> QED
    BY <1>1, <2>1, <2>2 DEF Derived, HandleFacts, Handles
<1> QED
  BY <1>2 DEF TypeOK, Derived

LEMMA FetchType ==
    ASSUME TypeOK, NEW h \in Handles, NEW f \in Fields, Fetch(h, f)
    PROVE  TypeOK'
<1>1. /\ states' \in Seq(StateRecord)
      /\ Len(states') = Len(states)
      /\ DOMAIN states' = DOMAIN states
      /\ \A g \in Handles : Keeps(g) /\ states'[g].inheriting = states[g].inheriting
      /\ \A g \in Handles : g # h => KeepsCache(g)
      /\ states'[h].blocks = BlocksOf(h)
      /\ UNCHANGED script
  BY FetchFacts
<1>2. unsetTables' \in Seq(SUBSET Fields) /\ DOMAIN unsetTables' = DOMAIN unsetTables
  <2>1. unsetTables \in Seq(SUBSET Fields) /\ states[h].unset \in DOMAIN unsetTables
    BY DEF TypeOK
  <2>2. DOMAIN unsetTables = 1 .. Len(unsetTables)
    BY <2>1, LenProperties
  <2>3. CASE ValueOf(h, f) = Nil
    <3>1. unsetTables' =
              [unsetTables EXCEPT ![states[h].unset] = unsetTables[states[h].unset] \cup {f}]
      BY <2>3 DEF Fetch
    <3>2. unsetTables[states[h].unset] \cup {f} \in SUBSET Fields
      BY <2>1, <2>2, ElementOfSeq
    <3> QED
      BY <2>1, <2>2, <3>1, <3>2, ExceptSeq
  <2>4. CASE ValueOf(h, f) # Nil
    BY <2>1, <2>4 DEF Fetch
  <2> QED
    BY <2>3, <2>4
<1>3. BlocksOf(h) \subseteq DOMAIN script
  BY BlocksType
<1>4. ASSUME NEW g \in Handles
      PROVE  /\ {states'[g].container, states'[g].base, states'[g].inheriting}
                    \subseteq 0 .. Len(states')
             /\ states'[g].unset \in DOMAIN unsetTables'
             /\ states'[g].blocks \subseteq DOMAIN script'
  <2>1. /\ {states[g].container, states[g].base, states[g].inheriting} \subseteq 0 .. Len(states)
        /\ states[g].unset \in DOMAIN unsetTables
        /\ states[g].blocks \subseteq DOMAIN script
    BY DEF TypeOK
  <2>2. Keeps(g) /\ states'[g].inheriting = states[g].inheriting
    BY <1>1
  <2>3. states'[g].blocks \subseteq DOMAIN script
    BY <1>1, <1>3, <2>1 DEF KeepsCache
  <2> QED
    BY <1>1, <1>2, <2>1, <2>2, <2>3 DEF Keeps
<1> QED
  BY <1>1, <1>2, <1>4 DEF TypeOK, Handles

LEMMA TypeInit == StateInit => TypeOK
<1> SUFFICES ASSUME StateInit
             PROVE  TypeOK
  OBVIOUS
<1> DEFINE first == [scopes |-> NewState(EmptyMap), container |-> 0, base |-> 0,
                     inheriting |-> 0, evaluated |-> FALSE, blocks |-> {},
                     fetched |-> EmptyMap, unset |-> 1]
<1>1. states = <<first>> /\ unsetTables = <<{}>> /\ script \in Scripts
  BY DEF StateInit
<1>2. NewState(EmptyMap) \in StateScopesType
  BY EmptyMapType, SingleScope DEF NewState, StateScopesType
<1>3. first \in StateRecord
  BY <1>2, EmptyMapType DEF StateRecord
<1>4. /\ first.container = 0
      /\ first.base = 0
      /\ first.inheriting = 0
      /\ first.unset = 1
      /\ first.blocks = {}
  OBVIOUS
<1> HIDE DEF first
<1>5. /\ states \in Seq(StateRecord)
      /\ Handles = {1}
      /\ Len(states) = 1
      /\ states[1] = first
      /\ unsetTables \in Seq(SUBSET Fields)
      /\ DOMAIN unsetTables = {1}
  BY <1>1, <1>3 DEF Handles
<1> QED
  BY <1>1, <1>4, <1>5 DEF TypeOK

LEMMA AppendedTable ==
    ASSUME TypeOK, unsetTables' = Append(unsetTables, {})
    PROVE  /\ unsetTables' \in Seq(SUBSET Fields)
           /\ Len(unsetTables) + 1 \in DOMAIN unsetTables'
           /\ Len(unsetTables) + 1 \notin DOMAIN unsetTables
           /\ unsetTables'[Len(unsetTables) + 1] = {}
           /\ \A u \in DOMAIN unsetTables :
                 u \in DOMAIN unsetTables' /\ unsetTables'[u] = unsetTables[u]
<1>1. unsetTables \in Seq(SUBSET Fields) /\ {} \in SUBSET Fields
  BY DEF TypeOK
<1>2. /\ unsetTables' \in Seq(SUBSET Fields)
      /\ Len(unsetTables') = Len(unsetTables) + 1
      /\ \A u \in 1 .. Len(unsetTables) : unsetTables'[u] = unsetTables[u]
      /\ unsetTables'[Len(unsetTables) + 1] = {}
  BY <1>1, AppendProperties
<1>3. /\ Len(unsetTables) \in Nat
      /\ DOMAIN unsetTables = 1 .. Len(unsetTables)
      /\ DOMAIN unsetTables' = 1 .. Len(unsetTables')
  BY <1>1, <1>2, LenProperties
<1> QED
  BY <1>2, <1>3

LEMMA TypeStep ==
    ASSUME TypeOK, [ExporterNext]_vars
    PROVE  TypeOK'
<1>1. CASE UNCHANGED vars
  BY <1>1 DEF vars, TypeOK, Handles
<1>2. CASE ExporterNext
  <2>1. PICK h \in Handles :
            \/ Selects(h)
            \/ Includes(h)
            \/ Inherits(h)
            \/ \E f \in Fields \ ScopeFields : Fetches(h, f)
    BY <1>2, StepCases
  <2>2. HandleFacts /\ h \in Nat /\ h \in 0 .. Len(states)
    BY TypedHandles DEF HandleFacts
  <2>3. \A g \in Handles :
            /\ {states[g].container, states[g].base, states[g].inheriting} \subseteq 0 .. Len(states)
            /\ states[g].unset \in DOMAIN unsetTables
            /\ states[g].blocks \subseteq DOMAIN script
            /\ states[g] \in StateRecord
    BY <2>2 DEF TypeOK, HandleFacts
  <2>4. CASE Selects(h)
    <3>1. PICK localScopes \in LocalScopes : Derive(h, localScopes)
      BY <2>4 DEF Selects
    <3>2. localScopes \in Seq(ValueMap)
      BY DEF LocalScopes
    <3> DEFINE record == NewRecord(SelectScopes(states[CleanInstance(h)].scopes, localScopes), h)
    <3>3. /\ record.container = h
          /\ record.base = 0
          /\ record.inheriting = 0
          /\ record.unset = Len(unsetTables) + 1
          /\ record.blocks = {}
      BY DEF NewRecord
    <3>4. /\ Derived(record)
          /\ states' \in Seq(StateRecord)
          /\ \A g \in Handles : states'[g] = states[g]
      BY <3>1, <3>2, SelectDerives
    <3>5. record \in StateRecord
      BY <3>2, SelectedRecord
    <3> HIDE DEF record
    <3>6. unsetTables' = Append(unsetTables, {})
      BY <3>1 DEF Derive
    <3>7. \A g \in Handles : states'[g].inheriting \in 0 .. Len(states) + 1
      BY <2>2, <2>3, <3>4 DEF HandleFacts
    <3>8. {record.container, record.base, record.inheriting} \subseteq 0 .. Len(states)
      BY <2>2, <3>3 DEF HandleFacts
    <3> QED
      BY <3>3, <3>4, <3>5, <3>6, <3>7, <3>8, AppendedTable, DerivedType
  <2>5. CASE Includes(h)
    <3>1. PICK c \in Handles : FromScopesOf(h, c)
      BY <2>5 DEF Includes, Ancestors
    <3> DEFINE record == [CopyOf(h) EXCEPT !.scopes = FromScopes(@, states[c].scopes)]
    <3>2. /\ record \in StateRecord
          /\ Derived(record)
          /\ states' \in Seq(StateRecord)
          /\ \A g \in Handles : states'[g] = states[g]
      BY <3>1, FromScopesDerives
    <3>3. /\ record.container = states[h].container
          /\ record.base = states[h].base
          /\ record.inheriting = states[h].inheriting
          /\ record.unset = states[h].unset
          /\ record.blocks = states[h].blocks
      BY <2>3 DEF CopyOf, StateRecord
    <3> HIDE DEF record
    <3>4. UNCHANGED unsetTables
      BY <3>1 DEF FromScopesOf
    <3>5. \A g \in Handles : states'[g].inheriting \in 0 .. Len(states) + 1
      BY <2>2, <2>3, <3>2 DEF HandleFacts
    <3>6. unsetTables' \in Seq(SUBSET Fields) /\ DOMAIN unsetTables \subseteq DOMAIN unsetTables'
      BY <3>4 DEF TypeOK
    <3>7. /\ {record.container, record.base, record.inheriting} \subseteq 0 .. Len(states)
          /\ record.unset \in DOMAIN unsetTables'
          /\ record.blocks \subseteq DOMAIN script
      BY <2>3, <3>3, <3>4
    <3> QED
      BY <3>2, <3>5, <3>6, <3>7, DerivedType
  <2>6. CASE Inherits(h)
    <3>1. WithInheritance(h)
      BY <2>6 DEF Inherits
    <3>2. /\ InheritingVersion(h) \in StateRecord
          /\ Derived(InheritingVersion(h))
          /\ states' \in Seq(StateRecord)
          /\ states'[h].inheriting = Len(states) + 1
          /\ \A g \in Handles : g # h => states'[g] = states[g]
      BY <3>1, InheritDerives
    <3>3. /\ InheritingVersion(h).container = states[h].container
          /\ InheritingVersion(h).base = h
          /\ InheritingVersion(h).inheriting = states[h].inheriting
          /\ InheritingVersion(h).unset = states[h].unset
          /\ InheritingVersion(h).blocks = states[h].blocks
      BY <2>3 DEF InheritingVersion, CopyOf, StateRecord
    <3>4. UNCHANGED unsetTables
      BY <3>1 DEF WithInheritance
    <3>5. \A g \in Handles : states'[g].inheriting \in 0 .. Len(states) + 1
      BY <2>2, <2>3, <3>2 DEF HandleFacts
    <3>6. unsetTables' \in Seq(SUBSET Fields) /\ DOMAIN unsetTables \subseteq DOMAIN unsetTables'
      BY <3>4 DEF TypeOK
    <3>7. /\ {InheritingVersion(h).container, InheritingVersion(h).base,
              InheritingVersion(h).inheriting} \subseteq 0 .. Len(states)
          /\ InheritingVersion(h).unset \in DOMAIN unsetTables'
          /\ InheritingVersion(h).blocks \subseteq DOMAIN script
      BY <2>2, <2>3, <3>3, <3>4
    <3> QED
      BY <3>2, <3>5, <3>6, <3>7, DerivedType
  <2>7. CASE \E f \in Fields \ ScopeFields : Fetches(h, f)
    BY <2>7, FetchType DEF Fetches
  <2> QED
    BY <2>1, <2>4, <2>5, <2>6, <2>7
<1> QED
  BY <1>1, <1>2

-----------------------------------------------------------------------------
(***************************************************************************)
(* The scopes of the states that exporters derive.                         *)
(***************************************************************************)
\* The states a state was selected from have scopes among its own, with and without what
\* it was selected by.
WithinContainer(h) ==
    LET c == states[h].container
    IN  c # 0 =>
            /\ Globals(c) \subseteq Globals(h)
            /\ \A a \in Locals(h), b \in Globals(c) : MergeKeys(a, b) \in Globals(h)

\* The inheriting version looks where its base and its container look.
ExtendsBase(h) ==
    LET b == states[h].base
        c == states[h].container
    IN  b # 0 =>
            /\ states[b].base = 0
            /\ c # 0
            /\ Globals(h) = Globals(b)
            /\ Targets(h) = Targets(b) \cup Targets(c)

LeadsBack(h) ==
    LET g == states[h].inheriting
    IN  g # 0 => g > h /\ states[g].base = h

SeededByScope(h) ==
    \A f \in Fields \ ScopeFields : states[h].scopes.initialValues[f] = Nil

\* The inductive invariant.
ScopesInv ==
    \A h \in Handles :
        /\ Targets(h) \subseteq Globals(h)
        /\ SeededByScope(h)
        /\ WithinContainer(h)
        /\ ExtendsBase(h)
        /\ LeadsBack(h)

LEMMA ScopesKept ==
    ASSUME NEW h, Keeps(h)
    PROVE  /\ Targets(h)' = Targets(h)
           /\ Globals(h)' = Globals(h)
           /\ Locals(h)' = Locals(h)
           /\ SeededByScope(h)' = SeededByScope(h)
  BY DEF Keeps, Targets, Globals, Locals, SeededByScope

\* What holds of the old states' scopes keeps holding of them.
LEMMA OldScopes ==
    ASSUME TypeOK, ScopesInv, NEW h \in Handles, \A g \in Handles : Keeps(g)
    PROVE  /\ (Targets(h) \subseteq Globals(h))'
           /\ SeededByScope(h)'
           /\ WithinContainer(h)'
           /\ ExtendsBase(h)'
<1>1. /\ Targets(h) \subseteq Globals(h)
      /\ SeededByScope(h)
      /\ WithinContainer(h)
      /\ ExtendsBase(h)
  BY DEF ScopesInv
<1>2. /\ states[h].container # 0 => states[h].container \in Handles
      /\ states[h].base # 0 => states[h].base \in Handles
  BY TypedHandles DEF TypeOK, HandleFacts
<1>3. \A g \in Handles :
          /\ Targets(g)' = Targets(g)
          /\ Globals(g)' = Globals(g)
          /\ Locals(g)' = Locals(g)
          /\ SeededByScope(g)' = SeededByScope(g)
          /\ states'[g].container = states[g].container
          /\ states'[g].base = states[g].base
  BY ScopesKept DEF Keeps
<1>4. WithinContainer(h)'
  <2>1. SUFFICES ASSUME states[h].container # 0
                 PROVE  /\ (Globals(states[h].container) \subseteq Globals(h))'
                        /\ \A a \in Locals(h)', b \in Globals(states[h].container)' :
                              MergeKeys(a, b) \in Globals(h)'
    BY <1>3 DEF WithinContainer, Globals
  <2> QED
    BY <1>1, <1>2, <1>3, <2>1 DEF WithinContainer, Globals
<1>5. ExtendsBase(h)'
  BY <1>1, <1>2, <1>3 DEF ExtendsBase, Globals, Targets
<1> QED
  BY <1>1, <1>3, <1>4, <1>5

LEMMA ScopesInit == StateInit => ScopesInv
<1> SUFFICES ASSUME StateInit
             PROVE  ScopesInv
  OBVIOUS
<1>1. /\ Handles = {1}
      /\ states[1].scopes = NewState(EmptyMap)
      /\ states[1].container = 0
      /\ states[1].base = 0
      /\ states[1].inheriting = 0
  BY DEF StateInit, Handles
<1>2. /\ Targets(1) \subseteq Globals(1)
      /\ SeededByScope(1)
  BY <1>1 DEF Targets, Globals, SeededByScope, NewState, EmptyMap
<1> QED
  BY <1>1, <1>2 DEF ScopesInv, WithinContainer, ExtendsBase, LeadsBack

LEMMA SelectScopesStep ==
    ASSUME TypeOK, ScopesInv, NEW h \in Handles, Selects(h)
    PROVE  ScopesInv'
<1>1. PICK localScopes \in LocalScopes : Derive(h, localScopes)
  BY DEF Selects
<1>2. localScopes \in Seq(ValueMap)
  BY DEF LocalScopes
<1>0. PICK n : n = Len(states) + 1
  OBVIOUS
<1> DEFINE clean == CleanInstance(h)
           scopes == SelectScopes(states[clean].scopes, localScopes)
<1>3. /\ Derived(NewRecord(scopes, h))
      /\ \A g \in Handles : states'[g] = states[g]
  BY <1>1, <1>2, SelectDerives
<1>4. HandleFacts /\ clean \in Handles /\ Handles' = 1 .. n
  BY <1>0, <1>3, TypedHandles, CleanFacts DEF Derived, Handles
<1>5. /\ states'[n].scopes = scopes
      /\ states'[n].container = h
      /\ states'[n].base = 0
      /\ states'[n].inheriting = 0
  BY <1>0, <1>3 DEF Derived, NewRecord
<1>6. states[clean].scopes \in StateScopesType
  BY <1>4 DEF HandleFacts, StateRecord
<1>7. /\ Globals(clean) = Globals(h)
      /\ Targets(clean) \subseteq Globals(clean)
      /\ SeededByScope(clean)
  BY <1>4 DEF ScopesInv, ExtendsBase, CleanInstance
<1>8. /\ Targets(n)' = {MergeKeys(a, b) : a \in ToSet(localScopes), b \in Targets(clean)}
      /\ Locals(n)' = ToSet(localScopes)
      /\ Globals(clean) \subseteq Globals(n)'
      /\ \A a \in ToSet(localScopes), b \in Globals(clean) : MergeKeys(a, b) \in Globals(n)'
  <2>1. /\ Targets(n)' = ToSet(CrossScopes(localScopes, states[clean].scopes.targetScopes))
        /\ Globals(n)' = ToSet(CrossScopesAndOuter(localScopes, states[clean].scopes.globalScopes))
        /\ Locals(n)' = ToSet(localScopes)
    BY <1>5 DEF Targets, Globals, Locals, SelectScopes
  <2>2. /\ states[clean].scopes.targetScopes \in Seq(ValueMap)
        /\ states[clean].scopes.globalScopes \in Seq(ValueMap)
    BY <1>6 DEF StateScopesType
  <2> QED
    BY <1>2, <2>1, <2>2, CrossScopesFacts, CrossScopesAndOuterFacts DEF Targets, Globals
<1>9. SeededByScope(n)'
  <2>1. ASSUME NEW f \in Fields \ ScopeFields
        PROVE  scopes.initialValues[f] = Nil
    <3>1. \A k \in DOMAIN localScopes : localScopes[k][f] = Nil
      BY DEF LocalScopes
    <3>2. states[clean].scopes.initialValues[f] = Nil
      BY <1>7 DEF SeededByScope
    <3> QED
      BY <3>1, <3>2 DEF SelectScopes, ReceiveAllValues
  <2> QED
    BY <1>5, <2>1 DEF SeededByScope
<1>10. Globals(h)' = Globals(h)
  BY <1>3 DEF Globals
<1> HIDE DEF clean, scopes
<1>11. /\ (Targets(n) \subseteq Globals(n))'
       /\ WithinContainer(n)'
       /\ ExtendsBase(n)'
       /\ LeadsBack(n)'
  <2>1. (Targets(n) \subseteq Globals(n))'
    BY <1>7, <1>8
  <2>2. WithinContainer(n)'
    BY <1>5, <1>7, <1>8, <1>10 DEF WithinContainer, Globals
  <2>3. ExtendsBase(n)' /\ LeadsBack(n)'
    BY <1>5 DEF ExtendsBase, LeadsBack
  <2> QED
    BY <2>1, <2>2, <2>3
<1>12. ASSUME NEW g \in Handles
       PROVE  LeadsBack(g)'
  <2>1. LeadsBack(g) /\ (states[g].inheriting # 0 => states[g].inheriting \in Handles)
    BY <1>4 DEF ScopesInv, TypeOK, HandleFacts
  <2> QED
    BY <1>3, <2>1 DEF LeadsBack
<1>13. \A g \in Handles : Keeps(g)
  BY <1>3 DEF Derived
<1>14. \A g \in Handles' : g = n \/ g \in Handles
  BY <1>0, <1>4 DEF HandleFacts
<1> QED
  BY <1>9, <1>11, <1>12, <1>13, <1>14, OldScopes DEF ScopesInv

\* Every state that a state was selected from, directly or not, has scopes among those of
\* the one it was selected from directly.
LEMMA AncestorScopes ==
    ASSUME TypeOK, ScopesInv, NEW h \in Handles, NEW c \in Ancestors(h)
    PROVE  /\ states[h].container \in Handles
           /\ c \in Handles
           /\ Globals(c) \subseteq Globals(states[h].container)
<1> DEFINE k == states[h].container
           within == {g \in Handles : Globals(g) \subseteq Globals(k)}
<1>1. \A g \in Handles : states[g].container \in {0} \cup Handles
  BY TypedHandles DEF TypeOK, HandleFacts
<1>2. \A among \in SUBSET Handles :
          /\ states[h].container \in among \cup {0}
          /\ \A g \in among : states[g].container \in among \cup {0}
          => c \in among
  BY DEF Ancestors
<1>3. k # 0
  <2>1. ASSUME k = 0
        PROVE  c \in {}
    BY <1>2, <2>1
  <2> QED
    BY <2>1
<1>4. k \in Handles /\ k \in within
  BY <1>1, <1>3
<1>5. ASSUME NEW g \in within
      PROVE  states[g].container \in within \cup {0}
  BY <1>1, <1>5 DEF ScopesInv, WithinContainer
<1> HIDE DEF within, k
<1>6. c \in within
  <2>1. within \in SUBSET Handles
    BY DEF within
  <2> QED
    BY <1>2, <1>4, <1>5, <2>1 DEF k
<1> QED
  BY <1>4, <1>6 DEF k, within

LEMMA IncludeScopesStep ==
    ASSUME TypeOK, ScopesInv, NEW h \in Handles, Includes(h)
    PROVE  ScopesInv'
<1>1. PICK c \in Ancestors(h) : FromScopesOf(h, c)
  BY DEF Includes
<1>0. PICK n, k : n = Len(states) + 1 /\ k = states[h].container
  OBVIOUS
<1> DEFINE record == [CopyOf(h) EXCEPT !.scopes = FromScopes(@, states[c].scopes)]
<1>2. /\ k \in Handles
      /\ c \in Handles
      /\ Globals(c) \subseteq Globals(k)
  BY <1>0, AncestorScopes
<1>3. /\ Derived(record)
      /\ \A g \in Handles : states'[g] = states[g]
  BY <1>1, <1>2, FromScopesDerives
<1>4. HandleFacts /\ Handles' = 1 .. n /\ h = Len(states)
  BY <1>0, <1>3, TypedHandles DEF Derived, Handles, Includes
<1>5. states[h] \in StateRecord /\ states[c] \in StateRecord
  BY <1>2, <1>4 DEF HandleFacts
<1>6. /\ states'[n].scopes = FromScopes(states[h].scopes, states[c].scopes)
      /\ states'[n].container = k
      /\ states'[n].base = 0
      /\ states'[n].inheriting = states[h].inheriting
  <2>1. states'[n] = record /\ states[h].base = 0
    BY <1>0, <1>1, <1>3 DEF Derived, FromScopesOf
  <2> QED
    BY <1>0, <1>5, <2>1 DEF CopyOf, StateRecord
<1>7. /\ Targets(h) \subseteq Globals(h)
      /\ SeededByScope(h)
      /\ WithinContainer(h)
      /\ Targets(c) \subseteq Globals(c)
  BY <1>2 DEF ScopesInv
<1>8. states[h].inheriting = 0
  <2>1. /\ states[h].inheriting \in 0 .. Len(states)
        /\ states[h].inheriting # 0 => states[h].inheriting > h
    BY DEF TypeOK, ScopesInv, LeadsBack
  <2> QED
    BY <1>4, <2>1 DEF HandleFacts
<1>9. /\ Targets(n)' =
             Targets(h) \cup {MergeKeys(a, b) : a \in Locals(h), b \in Targets(c)}
      /\ Globals(n)' = Globals(h)
      /\ Locals(n)' = Locals(h)
      /\ SeededByScope(n)'
  <2> DEFINE self == states[h].scopes
             crossed == CrossScopes(self.localScopes, states[c].scopes.targetScopes)
  <2>1. self \in StateScopesType /\ states[c].scopes \in StateScopesType
    BY <1>5 DEF StateRecord
  <2>2. /\ crossed \in Seq(ValueMap)
        /\ ToSet(crossed) = {MergeKeys(a, b) : a \in Locals(h), b \in Targets(c)}
    BY <2>1, CrossScopesFacts DEF StateScopesType, Locals, Targets
  <2>3. /\ states'[n].scopes.targetScopes = self.targetScopes \o crossed
        /\ states'[n].scopes.globalScopes = self.globalScopes
        /\ states'[n].scopes.localScopes = self.localScopes
        /\ states'[n].scopes.initialValues = self.initialValues
    BY <1>6, <2>1 DEF FromScopes, StateScopesType
  <2>4. self.targetScopes \in Seq(ValueMap)
    BY <2>1 DEF StateScopesType
  <2> HIDE DEF crossed
  <2>5. ToSet(self.targetScopes \o crossed) = ToSet(self.targetScopes) \cup ToSet(crossed)
    BY <2>2, <2>4, ConcatMembers
  <2> QED
    BY <1>7, <2>2, <2>3, <2>5 DEF Targets, Globals, Locals, SeededByScope
<1> HIDE DEF record
<1>10. Globals(k)' = Globals(k)
  BY <1>2, <1>3 DEF Globals
<1>11. /\ (Targets(n) \subseteq Globals(n))'
       /\ WithinContainer(n)'
       /\ ExtendsBase(n)'
       /\ LeadsBack(n)'
  <2>1. /\ Globals(k) \subseteq Globals(h)
        /\ \A a \in Locals(h), b \in Globals(k) : MergeKeys(a, b) \in Globals(h)
    BY <1>0, <1>2, <1>4, <1>7 DEF WithinContainer, HandleFacts
  <2>2. (Targets(n) \subseteq Globals(n))'
    BY <1>2, <1>7, <1>9, <2>1
  <2>3. WithinContainer(n)'
    BY <1>6, <1>9, <1>10, <2>1 DEF WithinContainer, Globals
  <2>4. ExtendsBase(n)' /\ LeadsBack(n)'
    BY <1>6, <1>8 DEF ExtendsBase, LeadsBack
  <2> QED
    BY <2>2, <2>3, <2>4
<1>12. ASSUME NEW g \in Handles
       PROVE  LeadsBack(g)'
  <2>1. LeadsBack(g) /\ (states[g].inheriting # 0 => states[g].inheriting \in Handles)
    BY <1>4 DEF ScopesInv, TypeOK, HandleFacts
  <2> QED
    BY <1>3, <2>1 DEF LeadsBack
<1>13. \A g \in Handles : Keeps(g)
  BY <1>3 DEF Derived
<1>14. \A g \in Handles' : g = n \/ g \in Handles
  BY <1>0, <1>4 DEF HandleFacts
<1> QED
  BY <1>9, <1>11, <1>12, <1>13, <1>14, OldScopes DEF ScopesInv

LEMMA InheritScopesStep ==
    ASSUME TypeOK, ScopesInv, NEW h \in Handles, Inherits(h)
    PROVE  ScopesInv'
<1>0. PICK n, k : n = Len(states) + 1 /\ k = states[h].container
  OBVIOUS
<1>1. WithInheritance(h)
  BY DEF Inherits
<1>2. /\ k \in Handles
      /\ Derived(InheritingVersion(h))
      /\ states'[h].inheriting = n
      /\ \A g \in Handles : g # h => states'[g] = states[g]
  BY <1>0, <1>1, InheritDerives
<1>3. HandleFacts /\ Handles' = 1 .. n
  BY <1>0, <1>2, TypedHandles DEF Derived, Handles
<1>4. states[h] \in StateRecord /\ states[k] \in StateRecord
  BY <1>2, <1>3 DEF HandleFacts
<1>5. states[h].base = 0 /\ states[h].inheriting = 0
  BY <1>1 DEF WithInheritance
<1>6. /\ states'[n].scopes = InheritFrom(states[h].scopes, states[k].scopes)
      /\ states'[n].container = k
      /\ states'[n].base = h
      /\ states'[n].inheriting = 0
  <2>1. states'[n] = InheritingVersion(h)
    BY <1>0, <1>2 DEF Derived
  <2> QED
    BY <1>0, <1>4, <1>5, <2>1 DEF InheritingVersion, CopyOf, StateRecord
<1>7. /\ Targets(h) \subseteq Globals(h)
      /\ SeededByScope(h)
      /\ WithinContainer(h)
      /\ Targets(k) \subseteq Globals(k)
  BY <1>2 DEF ScopesInv
<1>8. /\ Targets(n)' = Targets(h) \cup Targets(k)
      /\ Globals(n)' = Globals(h)
      /\ Locals(n)' = Locals(h)
      /\ SeededByScope(n)'
  <2> DEFINE self == states[h].scopes
  <2>1. self \in StateScopesType /\ states[k].scopes \in StateScopesType
    BY <1>4 DEF StateRecord
  <2>2. /\ states'[n].scopes.targetScopes = self.targetScopes \o states[k].scopes.targetScopes
        /\ states'[n].scopes.globalScopes = self.globalScopes
        /\ states'[n].scopes.localScopes = self.localScopes
        /\ states'[n].scopes.initialValues = self.initialValues
    BY <1>6, <2>1 DEF InheritFrom, StateScopesType
  <2>3. /\ self.targetScopes \in Seq(ValueMap)
        /\ states[k].scopes.targetScopes \in Seq(ValueMap)
    BY <2>1 DEF StateScopesType
  <2>4. ToSet(self.targetScopes \o states[k].scopes.targetScopes) =
            ToSet(self.targetScopes) \cup ToSet(states[k].scopes.targetScopes)
    BY <2>3, ConcatMembers
  <2> QED
    BY <1>7, <2>2, <2>4 DEF Targets, Globals, Locals, SeededByScope
<1>9. \A g \in Handles : Keeps(g)
  BY <1>2 DEF Derived
<1>10. /\ Globals(k)' = Globals(k)
       /\ Targets(k)' = Targets(k)
       /\ Globals(h)' = Globals(h)
       /\ Targets(h)' = Targets(h)
       /\ states'[h].base = 0
  BY <1>2, <1>5, <1>9, ScopesKept DEF Keeps
<1>11. h \in Nat /\ h < n /\ k # 0
  BY <1>0, <1>2, <1>3 DEF HandleFacts
<1>12. \A g \in Handles' : g = n \/ g \in Handles
  BY <1>0, <1>3 DEF HandleFacts
<1>13. /\ (Targets(n) \subseteq Globals(n))'
       /\ WithinContainer(n)'
       /\ ExtendsBase(n)'
       /\ LeadsBack(n)'
  <2>1. /\ Globals(k) \subseteq Globals(h)
        /\ \A a \in Locals(h), b \in Globals(k) : MergeKeys(a, b) \in Globals(h)
    BY <1>0, <1>7, <1>11 DEF WithinContainer
  <2>2. (Targets(n) \subseteq Globals(n))'
    BY <1>7, <1>8, <2>1
  <2>3. WithinContainer(n)'
    BY <1>6, <1>8, <1>10, <2>1 DEF WithinContainer, Globals
  <2>4. ExtendsBase(n)'
    BY <1>6, <1>8, <1>10, <1>11 DEF ExtendsBase, Globals, Targets
  <2>5. LeadsBack(n)'
    BY <1>6 DEF LeadsBack
  <2> QED
    BY <2>2, <2>3, <2>4, <2>5
<1>14. ASSUME NEW g \in Handles
       PROVE  LeadsBack(g)'
  <2>1. CASE g = h
    BY <1>2, <1>6, <1>11, <2>1 DEF LeadsBack
  <2>2. CASE g # h
    <3>1. LeadsBack(g) /\ (states[g].inheriting # 0 => states[g].inheriting \in Handles)
      BY <1>3 DEF ScopesInv, TypeOK, HandleFacts
    <3>2. states'[g].inheriting = states[g].inheriting
      BY <1>2, <2>2
    <3> QED
      BY <1>9, <3>1, <3>2 DEF LeadsBack, Keeps
  <2> QED
    BY <2>1, <2>2
<1> QED
  BY <1>8, <1>9, <1>12, <1>13, <1>14, OldScopes DEF ScopesInv

LEMMA ScopesStep ==
    ASSUME TypeOK, ScopesInv, [ExporterNext]_vars
    PROVE  ScopesInv'
<1>1. CASE UNCHANGED vars
  <2>1. UNCHANGED states /\ Handles' = Handles
    BY <1>1 DEF vars, Handles
  <2>2. \A h \in Handles : Keeps(h)
    BY <2>1 DEF Keeps
  <2>3. \A h \in Handles : LeadsBack(h)'
    BY <2>1 DEF ScopesInv, LeadsBack
  <2> QED
    BY <2>1, <2>2, <2>3, OldScopes DEF ScopesInv
<1>2. CASE ExporterNext
  <2>1. ASSUME NEW h \in Handles, NEW f \in Fields, Fetch(h, f)
        PROVE  ScopesInv'
    <3>1. /\ Handles' = Handles
          /\ \A g \in Handles : Keeps(g) /\ states'[g].inheriting = states[g].inheriting
      BY <2>1, FetchFacts DEF Handles
    <3>2. ASSUME NEW g \in Handles
          PROVE  LeadsBack(g)'
      <4>1. LeadsBack(g) /\ (states[g].inheriting # 0 => states[g].inheriting \in Handles)
        BY TypedHandles DEF ScopesInv, TypeOK, HandleFacts
      <4> QED
        BY <3>1, <4>1 DEF LeadsBack, Keeps
    <3> QED
      BY <3>1, <3>2, OldScopes DEF ScopesInv
  <2> QED
    BY <1>2, <2>1, StepCases, SelectScopesStep, IncludeScopesStep, InheritScopesStep DEF Fetches
<1> QED
  BY <1>1, <1>2

-----------------------------------------------------------------------------
(***************************************************************************)
(* What a fetch answers.                                                   *)
(***************************************************************************)
\* The condition names scopes only: no other value decides.
Matched(condition, scope) ==
    TestsScope(condition, scope) /\ MatchesValues(condition, EmptyMap, scope, NIL_MATCHES_NONE)

EnabledIn(targets) ==
    {k \in DOMAIN script : \E scope \in targets : Matched(script[k].condition, scope)}

LEMMA ScopesDecide ==
    ASSUME NEW condition, FieldsTested(condition) \subseteq ScopeFields,
           NEW values, NEW among
    PROVE  MatchingScopes(condition, values, among, NIL_MATCHES_NONE) # {}
               <=> \E scope \in ToSet(among) : Matched(condition, scope)
<1>1. ASSUME NEW scope
      PROVE  MatchesValues(condition, values, scope, NIL_MATCHES_NONE)
                 <=> MatchesValues(condition, EmptyMap, scope, NIL_MATCHES_NONE)
  <2>1. ASSUME NEW clause \in condition, NEW literal \in clause
        PROVE  MatchLiteral(literal, values, scope, NIL_MATCHES_NONE)
                   = MatchLiteral(literal, EmptyMap, scope, NIL_MATCHES_NONE)
    <3>1. literal.field \in ScopeFields
      BY DEF FieldsTested
    <3> QED
      BY <3>1 DEF MatchLiteral, TestValue
  <2> QED
    BY <2>1 DEF MatchesValues
<1>2. \A k \in DOMAIN among :
          k \in MatchingScopes(condition, values, among, NIL_MATCHES_NONE)
              <=> Matched(condition, among[k])
  BY <1>1 DEF MatchingScopes, Matched
<1>3. MatchingScopes(condition, values, among, NIL_MATCHES_NONE) \subseteq DOMAIN among
  BY DEF MatchingScopes
<1> QED
  BY <1>2, <1>3 DEF ToSet

\* Blocks are enabled for a state when they match one of its targets.
LEMMA EnabledMembers ==
    ASSUME TypeOK, NEW h \in Handles, Targets(h) \subseteq Globals(h)
    PROVE  EnabledFor(states[h].scopes) = EnabledIn(Targets(h))
<1> DEFINE scopes == states[h].scopes
<1>1. ASSUME NEW k \in DOMAIN script
      PROVE  k \in EnabledFor(scopes)
                 <=> \E scope \in Targets(h) : Matched(script[k].condition, scope)
  <2>1. FieldsTested(script[k].condition) \subseteq ScopeFields
    BY ScriptsAssumption DEF TypeOK
  <2>2. k \in EnabledFor(scopes)
            <=> /\ MatchingScopes(script[k].condition, scopes.initialValues,
                                  scopes.targetScopes, NIL_MATCHES_NONE) # {}
                /\ MatchingScopes(script[k].condition, scopes.initialValues,
                                  scopes.globalScopes, NIL_MATCHES_NONE) # {}
    BY DEF EnabledFor
  <2>3. k \in EnabledFor(scopes)
            <=> /\ \E scope \in Targets(h) : Matched(script[k].condition, scope)
                /\ \E scope \in Globals(h) : Matched(script[k].condition, scope)
    BY <2>1, <2>2, ScopesDecide DEF Targets, Globals
  <2> QED
    BY <2>3
<1>2. EnabledFor(scopes) \subseteq DOMAIN script
  BY DEF EnabledFor
<1> QED
  BY <1>1, <1>2 DEF EnabledIn

\* The answer for a collection: what the enabled blocks add, if any does.
LEMMA CollectionAnswer ==
    ASSUME TypeOK, NEW h \in Handles, SeededByScope(h), Targets(h) \subseteq Globals(h),
           NEW f \in Fields \ (ScopeFields \cup StringFields)
    PROVE  /\ FreshAnswer(h, f) # Nil
           /\ Held(FreshAnswer(h, f)) =
                  {v \in Strings : \E k \in EnabledIn(Targets(h)) : v \in Held(script[k].data[f])}
<1> DEFINE enabled == EnabledIn(Targets(h))
           blocks == [k \in enabled |-> script[k]]
           added == {v \in Strings : \E k \in enabled : v \in Held(script[k].data[f])}
           mentioned == \E k \in enabled : script[k].data[f] # Nil
<1>1. FreshAnswer(h, f) = FetchedValue(blocks, states[h].scopes.initialValues, f)
  BY EnabledMembers DEF FreshAnswer
<1>2. states[h].scopes.initialValues[f] = Nil
  BY DEF SeededByScope
<1>3. enabled \subseteq DOMAIN script /\ \A k \in enabled : script[k].operation = ADD
  BY ScriptsAssumption DEF TypeOK, EnabledIn
<1>4. Survivors(blocks, f) = added
  <2>1. \A k \in DOMAIN blocks : blocks[k].operation = ADD /\ blocks[k].data = script[k].data
    BY <1>3
  <2>2. DOMAIN blocks = enabled
    OBVIOUS
  <2> HIDE DEF blocks, enabled
  <2> QED
    BY <2>1, <2>2 DEF Survivors, SurvivorsOf
<1>5. (\E k \in DOMAIN blocks : blocks[k].data[f] # Nil) <=> mentioned
  OBVIOUS
<1>6. ~mentioned => added = {}
  BY DEF Held
<1>7. added \in SUBSET Strings /\ Nil # added /\ Nil # {}
  BY FieldsAssumption
<1> HIDE DEF blocks, added, enabled, mentioned
<1>8. BuildValue(blocks, f) = IF mentioned THEN added ELSE Nil
  BY <1>4, <1>5 DEF BuildValue
<1>9. FreshAnswer(h, f) = IF mentioned THEN added ELSE {}
  BY <1>1, <1>2, <1>7, <1>8 DEF FetchedValue, DefaultValue
<1>10. FreshAnswer(h, f) = added
  BY <1>6, <1>9
<1> QED
  BY <1>7, <1>10 DEF Held, added, enabled

\* A string field is answered with nil exactly when no enabled block mentions it.
LEMMA StringAnswer ==
    ASSUME TypeOK, NEW h \in Handles, SeededByScope(h), Targets(h) \subseteq Globals(h),
           NEW f \in StringFields \ ScopeFields
    PROVE  FreshAnswer(h, f) = Nil
               <=> \A k \in EnabledIn(Targets(h)) : script[k].data[f] = Nil
<1> DEFINE enabled == EnabledIn(Targets(h))
           blocks == [k \in enabled |-> script[k]]
           mentions == {k \in enabled : script[k].data[f] # Nil}
<1>0. f \in Fields
  BY FieldsAssumption
<1>1. FreshAnswer(h, f) = FetchedValue(blocks, states[h].scopes.initialValues, f)
  BY EnabledMembers DEF FreshAnswer
<1>2. states[h].scopes.initialValues[f] = Nil
  BY <1>0 DEF SeededByScope
<1>3. /\ script \in Seq(Block)
      /\ enabled \subseteq DOMAIN script
      /\ \A k \in enabled : script[k].operation = ADD /\ script[k].data[f] # {}
  BY ScriptsAssumption DEF TypeOK, EnabledIn
<1>4. /\ DOMAIN script = 1 .. Len(script)
      /\ Len(script) \in Nat
      /\ \A k \in DOMAIN script : script[k].data[f] \in FieldValue
  <2>1. /\ Len(script) \in Nat
        /\ DOMAIN script = 1 .. Len(script)
        /\ \A k \in DOMAIN script : script[k] \in Block
    BY <1>3, LenProperties, ElementOfSeq
  <2>2. \A block \in Block : block.data \in ValueMap
    BY DEF Block
  <2>3. \A map \in ValueMap : map[f] \in FieldValue
    BY <1>0 DEF ValueMap
  <2> QED
    BY <2>1, <2>2, <2>3
<1>5. (\E k \in DOMAIN blocks : blocks[k].data[f] # Nil) <=> mentions # {}
  OBVIOUS
<1>6. /\ DOMAIN blocks = enabled
      /\ \A k \in enabled : blocks[k].operation = ADD /\ blocks[k].data = script[k].data
  BY <1>3
<1> HIDE DEF blocks
<1>7. ASSUME mentions # {}
      PROVE  Survivors(blocks, f) # {}
  <2> DEFINE last == {k \in mentions : \A l \in mentions : l <= k}
             distances == {Len(script) - k : k \in mentions}
  <2>1. mentions \subseteq 1 .. Len(script)
    BY <1>3, <1>4
  <2>2. distances \subseteq Nat /\ distances # {}
    BY <1>4, <1>7, <2>1
  <2>3. PICK d \in distances : \A e \in distances : d <= e
    BY <2>2, LeastNumber
  <2>4. PICK k \in mentions : d = Len(script) - k
    BY <2>3
  <2>5. \A l \in mentions : l <= k
    <3>1. \A l \in mentions : Len(script) - l \in distances
      OBVIOUS
    <3> HIDE DEF distances, mentions
    <3> QED
      BY <1>4, <2>1, <2>3, <2>4, <3>1
  <2>6. k \in enabled /\ script[k].data[f] # Nil
    BY <2>4
  <2>7. PICK v \in Strings : v \in Held(script[k].data[f])
    <3>1. script[k].data[f] \in SUBSET Strings /\ script[k].data[f] # {}
      BY <1>3, <1>4, <2>6 DEF FieldValue
    <3> QED
      BY <2>6, <3>1 DEF Held
  <2>8. \A l \in enabled : l > k => script[l].data[f] = Nil
    <3>1. \A l \in enabled : l \in Nat /\ k \in Nat
      BY <1>3, <1>4, <2>6
    <3>2. ASSUME NEW l \in enabled, l > k, script[l].data[f] # Nil
          PROVE  FALSE
      <4>1. l \in mentions
        BY <3>2
      <4> HIDE DEF mentions, enabled
      <4> QED
        BY <2>5, <3>1, <3>2, <4>1
    <3> QED
      BY <3>2
  <2> HIDE DEF enabled
  <2>9. v \in Survivors(blocks, f)
    BY <1>6, <2>6, <2>7, <2>8 DEF Survivors, SurvivorsOf
  <2> QED
    BY <2>9
<1>8. Nil # Survivors(blocks, f)
  <2>1. Survivors(blocks, f) \in SUBSET Strings
    BY DEF Survivors, SurvivorsOf
  <2> QED
    BY <2>1, FieldsAssumption
<1> HIDE DEF mentions
<1>9. BuildValue(blocks, f) = IF mentions # {} THEN Survivors(blocks, f) ELSE Nil
  BY <1>5, <1>7 DEF BuildValue
<1>10. FreshAnswer(h, f) = BuildValue(blocks, f)
  BY <1>1, <1>2 DEF FetchedValue, DefaultValue
<1>11. FreshAnswer(h, f) = Nil <=> mentions = {}
  BY <1>8, <1>9, <1>10
<1> QED
  BY <1>11 DEF mentions, enabled

-----------------------------------------------------------------------------
(***************************************************************************)
(* What is cached, and shared between states.                              *)
(***************************************************************************)
\* What a state has cached is what it would find anew.
CacheIsFresh(h) ==
    /\ states[h].evaluated => states[h].blocks = EnabledFor(states[h].scopes)
    /\ \A f \in Fields \ ScopeFields :
          states[h].fetched[f] # Nil => states[h].fetched[f] = FreshAnswer(h, f)
    /\ \A f \in Fields \ ScopeFields : IsUnset(h, f) => FreshAnswer(h, f) = Nil

\* Of the states with one table of unset names, a later one looks in more scopes.
TargetsGrow ==
    \A g, h \in Handles :
        g <= h /\ states[g].unset = states[h].unset => Targets(g) \subseteq Targets(h)

\* The inductive invariant.
CacheInv ==
    /\ TargetsGrow
    /\ \A h \in Handles : CacheIsFresh(h)

LEMMA FreshAnswerKept ==
    ASSUME NEW h, Keeps(h), UNCHANGED script, NEW f
    PROVE  /\ FreshAnswer(h, f)' = FreshAnswer(h, f)
           /\ EnabledFor(states[h].scopes)' = EnabledFor(states[h].scopes)
  BY DEF Keeps, FreshAnswer, EnabledFor

\* What is found is the same for a state whose scopes and script are the same.
LEMMA OldCache ==
    ASSUME NEW h, CacheIsFresh(h), Keeps(h), KeepsCache(h), UNCHANGED script,
           \A f \in Fields \ ScopeFields : IsUnset(h, f)' => IsUnset(h, f)
    PROVE  CacheIsFresh(h)'
<1>1. \A f : FreshAnswer(h, f)' = FreshAnswer(h, f)
  BY FreshAnswerKept
<1>2. EnabledFor(states[h].scopes)' = EnabledFor(states[h].scopes)
  BY FreshAnswerKept
<1> QED
  BY <1>1, <1>2 DEF CacheIsFresh, KeepsCache

\* Nothing is cached in a state that was just derived.
LEMMA NewCache ==
    ASSUME NEW n, ~states'[n].evaluated, states'[n].fetched = EmptyMap,
           unsetTables'[states'[n].unset] = {}
    PROVE  CacheIsFresh(n)'
  BY DEF CacheIsFresh, IsUnset, EmptyMap

LEMMA CacheInit == StateInit => CacheInv
<1> SUFFICES ASSUME StateInit
             PROVE  CacheInv
  OBVIOUS
<1>1. /\ Handles = {1}
      /\ states[1].evaluated = FALSE
      /\ states[1].fetched = EmptyMap
      /\ unsetTables[states[1].unset] = {}
  BY DEF StateInit, Handles
<1> QED
  BY <1>1 DEF CacheInv, TargetsGrow, CacheIsFresh, IsUnset, EmptyMap

\* A state with a table of unset names of its own.
LEMMA SelectCacheStep ==
    ASSUME TypeOK, CacheInv, NEW h \in Handles, Selects(h)
    PROVE  CacheInv'
<1>1. PICK localScopes \in LocalScopes : Derive(h, localScopes)
  BY DEF Selects
<1>2. localScopes \in Seq(ValueMap)
  BY DEF LocalScopes
<1>3. PICK n, u : n = Len(states) + 1 /\ u = Len(unsetTables) + 1
  OBVIOUS
<1> DEFINE scopes == SelectScopes(states[CleanInstance(h)].scopes, localScopes)
<1>4. Derived(NewRecord(scopes, h))
  BY <1>1, <1>2, SelectDerives
<1>5. /\ ~states'[n].evaluated
      /\ states'[n].fetched = EmptyMap
      /\ states'[n].unset = u
  BY <1>3, <1>4 DEF Derived, NewRecord
<1> HIDE DEF scopes
<1>6. /\ u \notin DOMAIN unsetTables
      /\ unsetTables'[u] = {}
      /\ \A v \in DOMAIN unsetTables : unsetTables'[v] = unsetTables[v]
  BY <1>1, <1>3, AppendedTable DEF Derive
<1>7. /\ \A g \in Handles : Keeps(g) /\ KeepsCache(g)
      /\ UNCHANGED script
      /\ \A g \in Handles' : g = n \/ g \in Handles
      /\ n \notin Handles
  BY <1>3, <1>4, TypedHandles DEF Derived, HandleFacts, Handles
<1>8. \A g \in Handles : states[g].unset \in DOMAIN unsetTables /\ states[g].unset # u
  BY <1>6 DEF TypeOK
<1>9. ASSUME NEW g \in Handles
      PROVE  CacheIsFresh(g)'
  <2>1. \A f : IsUnset(g, f)' => IsUnset(g, f)
    BY <1>6, <1>7, <1>8 DEF IsUnset, Keeps
  <2> QED
    BY <1>7, <2>1, OldCache DEF CacheInv
<1>10. CacheIsFresh(n)'
  BY <1>5, <1>6, NewCache
<1>11. TargetsGrow'
  <2>1. SUFFICES ASSUME NEW f \in Handles', NEW g \in Handles', f <= g,
                        states'[f].unset = states'[g].unset
                 PROVE  Targets(f)' \subseteq Targets(g)'
    BY DEF TargetsGrow
  <2>2. CASE f = n \/ g = n
    BY <1>5, <1>7, <1>8, <2>1, <2>2 DEF Keeps
  <2>3. CASE f \in Handles /\ g \in Handles
    BY <1>7, <2>1, <2>3, ScopesKept DEF CacheInv, TargetsGrow, Keeps
  <2> QED
    BY <1>7, <2>2, <2>3
<1> QED
  BY <1>7, <1>9, <1>10, <1>11 DEF CacheInv

\* A copy of the state derived last, looking in more scopes: nothing was cached yet.
LEMMA CopyCacheStep ==
    ASSUME TypeOK, CacheInv, NEW h \in Handles, h = Len(states), Untouched(h),
           NEW record, Derived(record), UNCHANGED unsetTables,
           record.evaluated = states[h].evaluated, record.fetched = EmptyMap,
           record.unset = states[h].unset,
           Targets(h) \subseteq ToSet(record.scopes.targetScopes)
    PROVE  CacheInv'
<1>1. PICK n : n = Len(states) + 1
  OBVIOUS
<1>2. /\ \A g \in Handles : Keeps(g) /\ KeepsCache(g)
      /\ UNCHANGED script
      /\ \A g \in Handles' : g = n \/ g \in Handles
      /\ \A g \in Handles : g \in Nat /\ g <= h /\ h < n
      /\ n \in Nat
  BY <1>1, TypedHandles DEF Derived, HandleFacts, Handles
<1>3. states'[n] = record
  BY <1>1 DEF Derived
<1>4. CacheIsFresh(n)'
  BY <1>3, NewCache DEF Untouched
<1>5. ASSUME NEW g \in Handles
      PROVE  CacheIsFresh(g)'
  <2>1. \A f : IsUnset(g, f)' => IsUnset(g, f)
    BY <1>2 DEF IsUnset, Keeps
  <2> QED
    BY <1>2, <2>1, OldCache DEF CacheInv
<1>6. TargetsGrow'
  <2>1. SUFFICES ASSUME NEW f \in Handles', NEW g \in Handles', f <= g,
                        states'[f].unset = states'[g].unset
                 PROVE  Targets(f)' \subseteq Targets(g)'
    BY DEF TargetsGrow
  <2>2. CASE f \in Handles /\ g \in Handles
    BY <1>2, <2>1, <2>2, ScopesKept DEF CacheInv, TargetsGrow, Keeps
  <2>3. CASE f \in Handles /\ g = n
    <3>1. f <= h /\ states[f].unset = states[h].unset
      BY <1>2, <1>3, <2>1, <2>3 DEF Keeps
    <3>2. Targets(f) \subseteq Targets(h)
      BY <3>1, <2>3 DEF CacheInv, TargetsGrow
    <3>3. Targets(f)' = Targets(f) /\ Targets(g)' = ToSet(record.scopes.targetScopes)
      BY <1>2, <1>3, <2>3, ScopesKept DEF Targets
    <3> QED
      BY <3>2, <3>3
  <2>4. CASE f = n /\ g = n
    BY <2>4
  <2>5. CASE f = n /\ g \in Handles
    <3>1. g <= h /\ h < n /\ g \in Nat /\ h \in Nat /\ n \in Nat
      BY <1>2, <2>5
    <3> QED
      BY <2>1, <2>5, <3>1
  <2> QED
    BY <1>2, <2>2, <2>3, <2>4, <2>5
<1> QED
  BY <1>2, <1>4, <1>5, <1>6 DEF CacheInv

LEMMA IncludeCacheStep ==
    ASSUME TypeOK, CacheInv, NEW h \in Handles, Includes(h)
    PROVE  CacheInv'
<1>1. PICK c \in Handles : FromScopesOf(h, c)
  BY DEF Includes, Ancestors
<1> DEFINE record == [CopyOf(h) EXCEPT !.scopes = FromScopes(@, states[c].scopes)]
<1>2. Derived(record)
  BY <1>1, FromScopesDerives
<1>3. states[h] \in StateRecord /\ states[c] \in StateRecord
  BY TypedHandles DEF HandleFacts
<1>4. /\ record.evaluated = states[h].evaluated
      /\ record.fetched = EmptyMap
      /\ record.unset = states[h].unset
      /\ record.scopes = FromScopes(states[h].scopes, states[c].scopes)
  BY <1>3 DEF CopyOf, StateRecord
<1> HIDE DEF record
<1>5. Targets(h) \subseteq ToSet(record.scopes.targetScopes)
  <2> DEFINE self == states[h].scopes
             crossed == CrossScopes(self.localScopes, states[c].scopes.targetScopes)
  <2>1. self \in StateScopesType /\ states[c].scopes \in StateScopesType
    BY <1>3 DEF StateRecord
  <2>2. crossed \in Seq(ValueMap) /\ self.targetScopes \in Seq(ValueMap)
    BY <2>1, CrossScopesFacts DEF StateScopesType
  <2>3. record.scopes.targetScopes = self.targetScopes \o crossed
    BY <1>4, <2>1 DEF FromScopes, StateScopesType
  <2> HIDE DEF crossed
  <2> QED
    BY <2>2, <2>3, ConcatMembers DEF Targets
<1>6. UNCHANGED unsetTables
  BY <1>1 DEF FromScopesOf
<1> QED
  BY <1>2, <1>4, <1>5, <1>6, CopyCacheStep DEF Includes

LEMMA InheritCacheStep ==
    ASSUME TypeOK, CacheInv, NEW h \in Handles, Inherits(h)
    PROVE  CacheInv'
<1>1. WithInheritance(h)
  BY DEF Inherits
<1>2. PICK k : k = states[h].container
  OBVIOUS
<1>3. k \in Handles /\ Derived(InheritingVersion(h))
  BY <1>1, <1>2, InheritDerives
<1>4. states[h] \in StateRecord /\ states[k] \in StateRecord
  BY <1>3, TypedHandles DEF HandleFacts
<1>5. PICK record : record = InheritingVersion(h)
  OBVIOUS
<1>6. /\ record.evaluated = states[h].evaluated
      /\ record.fetched = EmptyMap
      /\ record.unset = states[h].unset
      /\ record.scopes = InheritFrom(states[h].scopes, states[k].scopes)
  BY <1>2, <1>4, <1>5 DEF InheritingVersion, CopyOf, StateRecord
<1>7. Targets(h) \subseteq ToSet(record.scopes.targetScopes)
  <2>1. states[h].scopes \in StateScopesType /\ states[k].scopes \in StateScopesType
    BY <1>4 DEF StateRecord
  <2>2. record.scopes.targetScopes = states[h].scopes.targetScopes \o states[k].scopes.targetScopes
    BY <1>6, <2>1 DEF InheritFrom, StateScopesType
  <2>3. /\ states[h].scopes.targetScopes \in Seq(ValueMap)
        /\ states[k].scopes.targetScopes \in Seq(ValueMap)
    BY <2>1 DEF StateScopesType
  <2> QED
    BY <2>2, <2>3, ConcatMembers DEF Targets
<1>8. UNCHANGED unsetTables
  BY <1>1 DEF WithInheritance
<1> QED
  BY <1>3, <1>5, <1>6, <1>7, <1>8, CopyCacheStep DEF Inherits

\* A name is noted as unset for the states that share the table as well: they look in no
\* more scopes.
LEMMA FetchCacheStep ==
    ASSUME TypeOK, ScopesInv, CacheInv, NEW h \in Handles,
           NEW f \in Fields \ ScopeFields, Fetches(h, f)
    PROVE  CacheInv'
<1>1. Fetch(h, f)
  BY DEF Fetches
<1>2. /\ Handles' = Handles
      /\ \A g \in Handles : Keeps(g)
      /\ \A g \in Handles : g # h => KeepsCache(g)
      /\ states'[h].evaluated
      /\ states'[h].blocks = BlocksOf(h)
      /\ \A e \in Fields :
            states'[h].fetched[e] = IF e = f THEN ValueOf(h, f) ELSE states[h].fetched[e]
      /\ UNCHANGED script
  BY <1>1, FetchFacts DEF Handles
<1>3. /\ BlocksOf(h) = EnabledFor(states[h].scopes)
      /\ ValueOf(h, f) = FreshAnswer(h, f)
  BY DEF CacheInv, CacheIsFresh, BlocksOf, ValueOf, FreshAnswer
<1>4. \A g \in Handles, e \in Fields :
          /\ FreshAnswer(g, e)' = FreshAnswer(g, e)
          /\ EnabledFor(states[g].scopes)' = EnabledFor(states[g].scopes)
  BY <1>2, FreshAnswerKept
<1>5. \A g \in Handles : CacheIsFresh(g) /\ SeededByScope(g) /\ Targets(g) \subseteq Globals(g)
  BY DEF CacheInv, ScopesInv
<1>6. ASSUME NEW g \in Handles, states[g].unset = states[h].unset, FreshAnswer(h, f) = Nil
      PROVE  FreshAnswer(g, f) = Nil
  <2>1. f \in StringFields
    BY <1>5, <1>6, CollectionAnswer
  <2>2. ~(g > h)
    BY <1>6, <2>1 DEF Fetches, Superseded
  <2>3. g <= h
    BY <2>2, TypedHandles DEF HandleFacts
  <2>4. Targets(g) \subseteq Targets(h)
    BY <1>6, <2>3 DEF CacheInv, TargetsGrow
  <2>5. EnabledIn(Targets(g)) \subseteq EnabledIn(Targets(h))
    BY <2>4 DEF EnabledIn
  <2>6. \A k \in EnabledIn(Targets(h)) : script[k].data[f] = Nil
    BY <1>5, <1>6, <2>1, StringAnswer
  <2> QED
    BY <1>5, <2>1, <2>5, <2>6, StringAnswer
<1>7. ASSUME NEW g \in Handles, NEW e \in Fields \ ScopeFields, IsUnset(g, e)'
      PROVE  FreshAnswer(g, e) = Nil
  <2>1. CASE IsUnset(g, e)
    BY <1>5, <2>1 DEF CacheIsFresh
  <2>2. CASE ~IsUnset(g, e)
    <3>1. /\ states[h].unset \in DOMAIN unsetTables
          /\ states'[g].unset = states[g].unset
      BY <1>2 DEF TypeOK, Keeps
    <3>2. ValueOf(h, f) = Nil
      BY <1>1, <1>7, <2>2, <3>1 DEF Fetch, IsUnset
    <3>3. unsetTables' = [unsetTables EXCEPT ![states[h].unset] = @ \cup {f}]
      BY <1>1, <3>2 DEF Fetch
    <3>4. states[g].unset = states[h].unset /\ e = f
      BY <1>7, <2>2, <3>1, <3>3 DEF IsUnset
    <3> QED
      BY <1>3, <1>6, <3>2, <3>4
  <2> QED
    BY <2>1, <2>2
<1>8. ASSUME NEW g \in Handles
      PROVE  CacheIsFresh(g)'
  <2>1. \A e \in Fields \ ScopeFields : IsUnset(g, e)' => FreshAnswer(g, e)' = Nil
    BY <1>4, <1>7
  <2>2. CASE g = h
    <3>1. (states[g].blocks = EnabledFor(states[g].scopes))'
      BY <1>2, <1>3, <1>4, <2>2
    <3>2. ASSUME NEW e \in Fields \ ScopeFields, states'[g].fetched[e] # Nil
          PROVE  states'[g].fetched[e] = FreshAnswer(g, e)'
      BY <1>2, <1>3, <1>4, <1>5, <2>2, <3>2 DEF CacheIsFresh
    <3> QED
      BY <2>1, <3>1, <3>2 DEF CacheIsFresh
  <2>3. CASE g # h
    <3>1. KeepsCache(g) /\ CacheIsFresh(g)
      BY <1>2, <1>5, <2>3
    <3>2. (states[g].evaluated => states[g].blocks = EnabledFor(states[g].scopes))'
      BY <1>4, <3>1 DEF CacheIsFresh, KeepsCache
    <3>3. ASSUME NEW e \in Fields \ ScopeFields, states'[g].fetched[e] # Nil
          PROVE  states'[g].fetched[e] = FreshAnswer(g, e)'
      BY <1>4, <3>1, <3>3 DEF CacheIsFresh, KeepsCache
    <3> QED
      BY <2>1, <3>2, <3>3 DEF CacheIsFresh
  <2> QED
    BY <2>2, <2>3
<1>9. TargetsGrow'
  BY <1>2, ScopesKept DEF CacheInv, TargetsGrow, Keeps
<1> QED
  BY <1>2, <1>8, <1>9 DEF CacheInv

LEMMA CacheStep ==
    ASSUME TypeOK, ScopesInv, CacheInv, [ExporterNext]_vars
    PROVE  CacheInv'
<1>1. CASE UNCHANGED vars
  <2>1. UNCHANGED <<states, script, unsetTables>> /\ Handles' = Handles
    BY <1>1 DEF vars, Handles
  <2>2. \A h \in Handles : Keeps(h) /\ KeepsCache(h)
    BY <2>1 DEF Keeps, KeepsCache
  <2>3. \A h \in Handles : CacheIsFresh(h)'
    BY <2>1, <2>2, OldCache DEF CacheInv, IsUnset
  <2>4. TargetsGrow'
    BY <2>1, <2>2, ScopesKept DEF CacheInv, TargetsGrow
  <2> QED
    BY <2>1, <2>3, <2>4 DEF CacheInv
<1>2. CASE ExporterNext
  BY <1>2, StepCases, SelectCacheStep, IncludeCacheStep, InheritCacheStep, FetchCacheStep
<1> QED
  BY <1>1, <1>2

-----------------------------------------------------------------------------
(***************************************************************************)
(* The properties.                                                         *)
(***************************************************************************)
StateInv == TypeOK /\ ScopesInv /\ CacheInv

LEMMA StateInvariant == ExporterSpec => []StateInv
<1>1. StateInit => StateInv
  BY TypeInit, ScopesInit, CacheInit DEF StateInv
<1>2. StateInv /\ [ExporterNext]_vars => StateInv'
  BY TypeStep, ScopesStep, CacheStep DEF StateInv
<1> QED
  BY <1>1, <1>2, PTL DEF ExporterSpec

LEMMA InvWellFormed == TypeOK /\ ScopesInv => StatesWellFormed
  BY DEF ScopesInv, LeadsBack, StatesWellFormed, TargetsAreGlobal, InheritancePaired, Targets,
         Globals

LEMMA InvCoherent == CacheInv => Coherent
  BY DEF CacheInv, CacheIsFresh, Coherent, Answer, ValueOf, BlocksOf, FreshAnswer

LEMMA InvInherits == TypeOK /\ ScopesInv => InheritsFromContainer
<1> SUFFICES ASSUME TypeOK, ScopesInv,
                    NEW h \in Handles, NEW f \in Fields \ (ScopeFields \cup StringFields),
                    states[h].base # 0
             PROVE  Held(FreshAnswer(h, f)) =
                        Held(FreshAnswer(states[h].base, f))
                            \cup Held(FreshAnswer(states[h].container, f))
  BY DEF InheritsFromContainer
<1>1. PICK b, c : b = states[h].base /\ c = states[h].container
  OBVIOUS
<1>2. c # 0 /\ Targets(h) = Targets(b) \cup Targets(c)
  BY <1>1 DEF ScopesInv, ExtendsBase
<1>3. b \in Handles /\ c \in Handles
  BY <1>1, <1>2, TypedHandles DEF TypeOK, HandleFacts
<1>4. \A g \in Handles : SeededByScope(g) /\ Targets(g) \subseteq Globals(g)
  BY DEF ScopesInv
<1>5. \A g \in Handles :
          Held(FreshAnswer(g, f)) =
              {v \in Strings : \E k \in EnabledIn(Targets(g)) : v \in Held(script[k].data[f])}
  BY <1>4, CollectionAnswer
<1>6. EnabledIn(Targets(h)) = EnabledIn(Targets(b)) \cup EnabledIn(Targets(c))
  BY <1>2 DEF EnabledIn
<1> QED
  BY <1>1, <1>3, <1>5, <1>6

\* States refer to what exists, find the scopes they look for, and lead back to the version
\* they inherit for (state.lua:196-269, 317-340).
THEOREM StatesStayWellFormed == ExporterSpec => []StatesWellFormed
<1>1. StateInv => StatesWellFormed
  BY InvWellFormed DEF StateInv
<1> QED
  BY <1>1, StateInvariant, PTL

\* A fetch answers for the scopes of the state that was asked, whatever was cached before
\* in it or in a state it shares a cache with (state.lua:116-160, 273-340).
THEOREM CachesCoherent == ExporterSpec => []Coherent
<1>1. StateInv => Coherent
  BY InvCoherent DEF StateInv
<1> QED
  BY <1>1, StateInvariant, PTL

\* The version that inherits has the collections of its base and its container, and
\* nothing else (state.lua:315-340).
THEOREM InheritedExactly == ExporterSpec => []InheritsFromContainer
<1>1. StateInv => InheritsFromContainer
  BY InvInherits DEF StateInv
<1> QED
  BY <1>1, StateInvariant, PTL
=============================================================================
