---------------------------- MODULE Query_proofs ----------------------------
(***************************************************************************)
(* Proofs about Query, for every set of fields, strings and queries.       *)
(***************************************************************************)
EXTENDS Query, SequenceTheorems, TLAPS

-----------------------------------------------------------------------------
(***************************************************************************)
(* Inserting into a sequence.                                              *)
(***************************************************************************)
\* InsertAt moves the entry at n, and those after it, one place up.
LEMMA InsertAtFacts ==
    ASSUME NEW S, NEW s \in Seq(S), NEW n \in 1 .. Len(s), NEW e \in S
    PROVE  /\ InsertAt(s, n, e) \in Seq(S)
           /\ Len(InsertAt(s, n, e)) = Len(s) + 1
           /\ \A j \in 1 .. Len(s) + 1 :
                 InsertAt(s, n, e)[j] =
                     IF j < n THEN s[j] ELSE IF j = n THEN e ELSE s[j - 1]
<1> DEFINE front == SubSeq(s, 1, n - 1)
           back == SubSeq(s, n, Len(s))
<1>1. /\ front \in Seq(S)
      /\ Len(front) = n - 1
      /\ \A j \in 1 .. n - 1 : front[j] = s[j]
  <2>1. \A j \in 1 .. n - 1 : s[j] \in S
    BY LenProperties, ElementOfSeq
  <2> QED
    BY <2>1, LenProperties, SubSeqProperties, 1 \in Int, n - 1 \in Int
<1>2. /\ back \in Seq(S)
      /\ Len(back) = Len(s) - n + 1
      /\ \A j \in 1 .. Len(s) - n + 1 : back[j] = s[n + j - 1]
  <2>1. \A j \in n .. Len(s) : s[j] \in S
    BY LenProperties, ElementOfSeq
  <2> QED
    BY <2>1, LenProperties, SubSeqProperties
<1>3. /\ <<e>> \in Seq(S)
      /\ Len(<<e>>) = 1
      /\ <<e>>[1] = e
  OBVIOUS
<1> DEFINE first == front \o <<e>>
<1> HIDE DEF front, back
<1>4. /\ first \in Seq(S)
      /\ Len(first) = n
      /\ \A j \in 1 .. n : first[j] = IF j < n THEN s[j] ELSE e
  BY <1>1, <1>3, ConcatProperties
<1> HIDE DEF first
<1>5. /\ first \o back \in Seq(S)
      /\ Len(first \o back) = Len(first) + Len(back)
      /\ \A j \in 1 .. Len(first) + Len(back) :
            (first \o back)[j] = IF j <= Len(first) THEN first[j] ELSE back[j - Len(first)]
  <2>1. first \in Seq(S) /\ back \in Seq(S)
    BY <1>2, <1>4
  <2> QED
    BY ONLY <2>1, ConcatProperties
<1>6. Len(first) + Len(back) = Len(s) + 1
  BY <1>2, <1>4, LenProperties
<1>7. ASSUME NEW j \in 1 .. Len(s) + 1
      PROVE  (first \o back)[j] = IF j < n THEN s[j] ELSE IF j = n THEN e ELSE s[j - 1]
  <2>1. CASE j <= n
    BY <2>1, <1>4, <1>5, <1>6
  <2>2. CASE j > n
    <3>1. j - n \in 1 .. Len(s) - n + 1
      BY <2>2, LenProperties
    <3>2. back[j - n] = s[j - 1]
      BY <3>1, <1>2
    <3> QED
      BY <2>2, <3>2, <1>4, <1>5, <1>6
  <2>3. j <= n \/ j > n
    BY LenProperties
  <2> QED
    BY <2>1, <2>2, <2>3, Zenon
<1> QED
  BY <1>5, <1>6, <1>7 DEF InsertAt, first, front, back

-----------------------------------------------------------------------------
(***************************************************************************)
(* Types of the operators.                                                 *)
(***************************************************************************)
\* Merging or removing values of a field yields a value of the field.
LEMMA FieldOperationTypes ==
    ASSUME NEW f \in Fields, NEW current \in FieldValue,
           NEW new \in FieldValue, new # Nil
    PROVE  /\ MergeValues(f, current, new) \in FieldValue
           /\ RemoveValues(f, current, new) \in FieldValue
  BY DEF FieldValue, MergeValues, RemoveValues, Held

LEMMA AccumulateType ==
    ASSUME NEW values \in ValueMap, NEW data \in ValueMap, NEW operation
    PROVE  AccumulateValues(values, data, operation) \in ValueMap
<1>1. ASSUME NEW f \in Fields
      PROVE  (IF f \notin query.fieldsTested \/ data[f] = Nil THEN values[f]
              ELSE IF operation = ADD THEN MergeValues(f, values[f], data[f])
              ELSE RemoveValues(f, values[f], data[f])) \in FieldValue
  <2>1. values[f] \in FieldValue /\ data[f] \in FieldValue
    BY DEF ValueMap
  <2>2. data[f] # Nil => /\ MergeValues(f, values[f], data[f]) \in FieldValue
                         /\ RemoveValues(f, values[f], data[f]) \in FieldValue
    BY <2>1, FieldOperationTypes
  <2> QED
    BY <2>1, <2>2
<1> QED
  BY <1>1 DEF AccumulateValues, ValueMap

LEMMA EmptyMapType == EmptyMap \in ValueMap
  BY DEF EmptyMap, ValueMap, FieldValue

LEMMA RestoredType ==
    ASSUME NEW block \in Block
    PROVE  ValuesToRestore(block) \in ValueMap
<1>1. ASSUME NEW f \in Fields
      PROVE  (LET removed == FetchFieldValue(f) \cap Held(block.data[f])
                  missing == removed \ Held(targetValues[f])
              IN  IF missing = {} THEN Nil ELSE missing) \in FieldValue
  <2>1. FetchFieldValue(f) \subseteq Strings
    BY DEF FetchFieldValue, Survivors, SurvivorsOf
  <2> QED
    BY <2>1 DEF FieldValue
<1> QED
  BY <1>1 DEF ValuesToRestore, ValueMap

LEMMA InitialResultsType ==
    ASSUME NEW q \in QueryType
    PROVE  InitialResults(q) \in Seq(BlockResult)
<1>1. q.blocks \in Seq(Block)
  BY DEF QueryType
<1>2. /\ Len(q.blocks) \in Nat
      /\ DOMAIN q.blocks = 1 .. Len(q.blocks)
      /\ \A k \in 1 .. Len(q.blocks) : q.blocks[k] \in Block
  BY <1>1, LenProperties, ElementOfSeq
<1>3. ASSUME NEW block, NEW scopes
      PROVE  RuledOut(block, scopes) \in Decision
  BY DEF RuledOut, Decision
<1>4. InitialResults(q) \in [1 .. Len(q.blocks) -> BlockResult]
  BY <1>2, <1>3 DEF InitialResults, BlockResult
<1> QED
  BY <1>2, <1>4, SeqDef

-----------------------------------------------------------------------------
(***************************************************************************)
(* Type correctness.                                                       *)
(***************************************************************************)
LEMMA InitTypeOK == Init => TypeOK
<1> SUFFICES ASSUME NEW q \in Queries, Begins(q)
             PROVE  TypeOK
  BY DEF Init
<1>1. q \in QueryType
  BY QueriesAssumption
<1>2. q.initialValues \in ValueMap
  BY <1>1 DEF QueryType
<1>3. InitialResults(q) \in Seq(BlockResult)
  BY <1>1, InitialResultsType
<1> QED
  BY <1>1, <1>2, <1>3 DEF Begins, TypeOK

\* What a step finds at the loop index.
LEMMA CurrentType ==
    ASSUME TypeOK, i <= Len(blockResults)
    PROVE  /\ i \in 1 .. Len(blockResults)
           /\ Current \in BlockResult
           /\ Current.sourceBlock \in Block
           /\ Current.sourceBlock.data \in ValueMap
<1>1. i \in 1 .. Len(blockResults)
  BY LenProperties DEF TypeOK
<1>2. Current \in BlockResult
  BY <1>1, ElementOfSeq DEF TypeOK, Current
<1> QED
  BY <1>1, <1>2 DEF BlockResult, Block

LEMMA DecideType ==
    ASSUME TypeOK, NEW global \in Decision, NEW target \in Decision, Decide(global, target)
    PROVE  TypeOK'
<1> USE DEF TypeOK
<1>1. /\ i \in 1 .. Len(blockResults)
      /\ Current \in BlockResult
      /\ Current.sourceBlock.data \in ValueMap
  BY CurrentType DEF Decide, Tests
<1>2. blockResults' \in Seq(BlockResult)
  <2> DEFINE decided == [Current EXCEPT !.targetOperation = target,
                                        !.globalOperation = global]
  <2>1. decided \in BlockResult
    BY <1>1 DEF BlockResult
  <2>2. blockResults' = [blockResults EXCEPT ![i] = decided]
    BY DEF Decide, Current
  <2> QED
    BY <1>1, <2>1, <2>2, ExceptSeq
<1>3. targetValues' \in ValueMap /\ globalValues' \in ValueMap
  BY <1>1, AccumulateType DEF Decide
<1> QED
  BY <1>2, <1>3 DEF Decide, Tests

LEMMA AddToGlobalOnlyType ==
    ASSUME TypeOK, AddToGlobalOnly
    PROVE  TypeOK'
<1> USE DEF TypeOK
<1>1. /\ i \in 1 .. Len(blockResults)
      /\ Current \in BlockResult
      /\ Current.sourceBlock.data \in ValueMap
  BY CurrentType DEF AddToGlobalOnly, Tests
<1>2. blockResults' \in Seq(BlockResult)
  <2> DEFINE decided == [Current EXCEPT !.globalOperation = ADD]
  <2>1. decided \in BlockResult
    BY <1>1 DEF BlockResult, Decision
  <2>2. blockResults' = [blockResults EXCEPT ![i] = decided]
    BY DEF AddToGlobalOnly, Current
  <2> QED
    BY <1>1, <2>1, <2>2, ExceptSeq
<1>3. globalValues' \in ValueMap
  BY <1>1, AccumulateType DEF AddToGlobalOnly
<1> QED
  BY <1>2, <1>3 DEF AddToGlobalOnly, Tests

\* The list that RestoreForSibling leaves: the synthesized block before the removal.
LEMMA RestoredList ==
    ASSUME TypeOK, RestoreForSibling
    PROVE  /\ i \in 1 .. Len(blockResults)
           /\ blockResults' \in Seq(BlockResult)
           /\ Len(blockResults') = Len(blockResults) + 1
           /\ \A j \in 1 .. Len(blockResults) + 1 :
                 blockResults'[j] = IF j < i THEN blockResults[j]
                                    ELSE IF j = i THEN Synthesized(Current.sourceBlock)
                                    ELSE IF j = i + 1 THEN RemovalInContainer
                                    ELSE blockResults[j - 1]
<1> DEFINE removal == RemovalInContainer
           synthesized == Synthesized(Current.sourceBlock)
           decided == [blockResults EXCEPT ![i] = removal]
<1>1. /\ i \in 1 .. Len(blockResults)
      /\ Current \in BlockResult
      /\ Current.sourceBlock \in Block
  BY CurrentType DEF RestoreForSibling, Tests
<1>3. removal \in BlockResult
  BY <1>1 DEF RemovalInContainer, BlockResult, Decision
<1>4. synthesized \in BlockResult
  <2> DEFINE restored == [operation |-> ADD, condition |-> {},
                          data |-> ValuesToRestore(Current.sourceBlock)]
  <2>1. restored \in Block
    BY <1>1, RestoredType DEF Block, Condition
  <2>2. synthesized = [source |-> 0, sourceBlock |-> restored,
                       targetOperation |-> ADD, globalOperation |-> OUT_OF_SCOPE]
    BY DEF Synthesized
  <2> HIDE DEF restored, synthesized
  <2> QED
    BY <2>1, <2>2 DEF BlockResult, Decision
<1> HIDE DEF removal, synthesized
<1>5. /\ decided \in Seq(BlockResult)
      /\ Len(decided) = Len(blockResults)
      /\ \A j \in 1 .. Len(blockResults) :
            decided[j] = IF j = i THEN removal ELSE blockResults[j]
  BY <1>1, <1>3, ExceptSeq DEF TypeOK
<1>6. blockResults' = InsertAt(decided, i, synthesized)
  BY DEF RestoreForSibling, WithRestoration, decided, removal, synthesized
<1> HIDE DEF decided
<1>7. /\ blockResults' \in Seq(BlockResult)
      /\ Len(blockResults') = Len(blockResults) + 1
      /\ \A j \in 1 .. Len(blockResults) + 1 :
            blockResults'[j] = IF j < i THEN decided[j]
                               ELSE IF j = i THEN synthesized ELSE decided[j - 1]
  <2>1. i \in 1 .. Len(decided) /\ decided \in Seq(BlockResult)
    BY <1>1, <1>5
  <2>2. /\ InsertAt(decided, i, synthesized) \in Seq(BlockResult)
        /\ Len(InsertAt(decided, i, synthesized)) = Len(decided) + 1
        /\ \A j \in 1 .. Len(decided) + 1 :
              InsertAt(decided, i, synthesized)[j] =
                  IF j < i THEN decided[j] ELSE IF j = i THEN synthesized ELSE decided[j - 1]
    BY <2>1, <1>4, InsertAtFacts
  <2> QED
    BY <2>2, <1>5, <1>6
<1>8. ASSUME NEW j \in 1 .. Len(blockResults) + 1
      PROVE  blockResults'[j] = IF j < i THEN blockResults[j]
                                ELSE IF j = i THEN synthesized
                                ELSE IF j = i + 1 THEN removal
                                ELSE blockResults[j - 1]
  <2>1. Len(blockResults) \in Nat
    BY LenProperties DEF TypeOK
  <2>2. CASE j < i
    <3>1. j \in 1 .. Len(blockResults) /\ j # i
      BY <2>1, <2>2, <1>1
    <3> QED
      BY <3>1, <2>2, <1>5, <1>7
  <2>3. CASE j = i
    BY <2>1, <2>3, <1>1, <1>7
  <2>4. CASE j > i
    <3>1. j - 1 \in 1 .. Len(blockResults) /\ (j - 1 = i <=> j = i + 1) /\ ~(j < i) /\ j # i
      BY <2>1, <2>4, <1>1
    <3> QED
      BY <3>1, <1>5, <1>7
  <2>5. j < i \/ j = i \/ j > i
    BY <2>1, <1>1
  <2> QED
    BY <2>2, <2>3, <2>4, <2>5, Zenon
<1> QED
  BY <1>1, <1>7, <1>8 DEF removal, synthesized

LEMMA RestoreForSiblingType ==
    ASSUME TypeOK, RestoreForSibling
    PROVE  TypeOK'
<1>1. /\ Current.sourceBlock.data \in ValueMap
      /\ ValuesToRestore(Current.sourceBlock) \in ValueMap
      /\ blockResults' \in Seq(BlockResult)
  BY CurrentType, RestoredType, RestoredList DEF RestoreForSibling, Tests
<1>2. targetValues' = AccumulateValues(targetValues, ValuesToRestore(Current.sourceBlock), ADD)
  BY DEF RestoreForSibling
<1>3. targetValues' \in ValueMap
  BY <1>1, <1>2, AccumulateType DEF TypeOK
<1>4. globalValues' \in ValueMap
  BY <1>1, AccumulateType DEF TypeOK, RestoreForSibling
<1> QED
  BY <1>1, <1>3, <1>4 DEF TypeOK, RestoreForSibling, Tests

LEMMA StepTypeOK == TypeOK /\ [Next]_vars => TypeOK'
<1> SUFFICES ASSUME TypeOK, [Next]_vars
             PROVE  TypeOK'
  OBVIOUS
<1>1. CASE SkipDecided \/ PassOver
  BY <1>1 DEF SkipDecided, PassOver, Tests, TypeOK
<1>2. CASE AddToGlobalOnly
  BY <1>2, AddToGlobalOnlyType
<1>3. CASE AddToBoth \/ RemoveFromLocalScope \/ LeaveToInheritedScope \/ RemovedAbove
  BY <1>3, DecideType
     DEF AddToBoth, RemoveFromLocalScope, LeaveToInheritedScope, RemovedAbove, Decision
<1>4. CASE RestoreForSibling
  BY <1>4, RestoreForSiblingType
<1>5. CASE RestoreRaisesError \/ Finish
  BY <1>5 DEF RestoreRaisesError, Finish, Tests, TypeOK
<1>6. CASE UNCHANGED vars
  BY <1>6 DEF vars, TypeOK
<1> QED
  BY <1>1, <1>2, <1>3, <1>4, <1>5, <1>6 DEF Next

\* Every step of evaluate() keeps its values within their types, a field holding nil or
\* strings of the script only, and its list a list of decisions.
THEOREM TypeCorrect == Spec => []TypeOK
  BY InitTypeOK, StepTypeOK, PTL DEF Spec

-----------------------------------------------------------------------------
(***************************************************************************)
(* Why the walk may start over: it never leaves a block behind.            *)
(***************************************************************************)
\* Everything before the loop index was passed over rightly, and the loop ends behind the
\* last entry.
WalkInv ==
    /\ status \in {"running", "done"} => PassedOverUpTo(i)
    /\ status = "done" => i > Len(blockResults)

LEMMA NothingBeforeFirst ==
    ASSUME blockResults \in Seq(BlockResult)
    PROVE  PassedOverUpTo(1)
  BY LenProperties DEF PassedOverUpTo

\* What the test says of a block depends on the accumulated values only.
LEMMA TestsStand ==
    ASSUME UNCHANGED <<query, blockResults, targetValues, globalValues>>, PassedOverUpTo(i')
    PROVE  PassedOverUpTo(i)'
  BY DEF PassedOverUpTo, TestBlock, TestAddBlock, TestRemoveBlock, InGlobalScope, InTargetScope,
         CompatibleWithGlobal, CompatibleTargetScopes, MatchesLocalScope

LEMMA WalkInvStep == TypeOK /\ WalkInv /\ [Next]_vars => WalkInv'
<1> SUFFICES ASSUME TypeOK, WalkInv, [Next]_vars
             PROVE  WalkInv'
  OBVIOUS
<1>1. TypeOK'
  BY StepTypeOK
<1>2. CASE SkipDecided \/ PassOver
  <2>1. /\ i \in Nat
        /\ i' = i + 1
        /\ status = "running"
        /\ UNCHANGED <<query, blockResults, targetValues, globalValues, status>>
    BY <1>2 DEF SkipDecided, PassOver, Tests, TypeOK
  <2>2. blockResults[i].globalOperation # UNKNOWN
          \/ TestBlock(blockResults[i].sourceBlock) = <<UNKNOWN, UNKNOWN>>
    BY <1>2 DEF SkipDecided, PassOver, Tests, Current
  <2>3. PassedOverUpTo(i + 1)
    <3>1. DOMAIN blockResults \subseteq Nat
      BY LenProperties DEF TypeOK
    <3>2. ASSUME NEW k \in DOMAIN blockResults, k < i + 1,
                 blockResults[k].globalOperation = UNKNOWN
          PROVE  TestBlock(blockResults[k].sourceBlock) = <<UNKNOWN, UNKNOWN>>
      <4>1. k < i \/ k = i
        BY <2>1, <3>1, <3>2
      <4>2. CASE k = i
        BY <4>2, <2>2, <3>2
      <4>3. CASE k < i
        BY <4>3, <2>1, <3>2 DEF WalkInv, PassedOverUpTo
      <4> QED
        BY <4>1, <4>2, <4>3
    <3> QED
      BY <3>2 DEF PassedOverUpTo
  <2>4. PassedOverUpTo(i)'
    BY <2>1, <2>3, TestsStand
  <2> QED
    BY <2>1, <2>4 DEF WalkInv
<1>3. CASE \/ AddToGlobalOnly \/ AddToBoth \/ RemoveFromLocalScope
           \/ LeaveToInheritedScope \/ RemovedAbove \/ RestoreForSibling
  <2>1. i' = 1 /\ status' = "running"
    BY <1>3 DEF AddToGlobalOnly, AddToBoth, RemoveFromLocalScope, LeaveToInheritedScope,
                RemovedAbove, RestoreForSibling, Decide, Tests
  <2>2. PassedOverUpTo(1)'
    BY <1>1, LenProperties DEF PassedOverUpTo, TypeOK
  <2> QED
    BY <2>1, <2>2 DEF WalkInv, PassedOverUpTo
<1>4. CASE RestoreRaisesError
  BY <1>4 DEF RestoreRaisesError, WalkInv
<1>5. CASE Finish
  <2>1. PassedOverUpTo(i') /\ i' > Len(blockResults')
    BY <1>5 DEF Finish, WalkInv
  <2> QED
    BY <1>5, <2>1, TestsStand DEF Finish, WalkInv
<1>6. CASE UNCHANGED vars
  <2>1. status' \in {"running", "done"} => PassedOverUpTo(i')
    BY <1>6 DEF vars, WalkInv
  <2> QED
    BY <1>6, <2>1, TestsStand DEF vars, WalkInv
<1> QED
  BY <1>2, <1>3, <1>4, <1>5, <1>6 DEF Next

LEMMA WalkInvSaturated == TypeOK /\ WalkInv => Saturated
<1> SUFFICES ASSUME TypeOK, WalkInv, status = "done"
             PROVE  PassedOverUpTo(Len(blockResults) + 1)
  BY DEF Saturated
<1>1. \A k \in DOMAIN blockResults : k < i
  BY LenProperties DEF TypeOK, WalkInv
<1> QED
  BY <1>1 DEF WalkInv, PassedOverUpTo

\* When evaluate() returns, every block it passed over would still be passed over: going
\* back to the first block after each decision is enough (query.lua:268-273).
THEOREM EvaluationSaturated == Spec => []Saturated
<1>1. Init => WalkInv
  <2> SUFFICES ASSUME Init
               PROVE  WalkInv
    OBVIOUS
  <2>1. TypeOK
    BY InitTypeOK
  <2>2. i = 1 /\ status = "running"
    BY DEF Init, Begins
  <2> QED
    BY <2>1, <2>2, NothingBeforeFirst DEF WalkInv, TypeOK
<1> QED
  BY <1>1, InitTypeOK, StepTypeOK, WalkInvStep, WalkInvSaturated, PTL DEF Spec

-----------------------------------------------------------------------------
(***************************************************************************)
(* Synthesized blocks.                                                     *)
(***************************************************************************)
\* What RestorationPrecedesRemoval says of the entry at k.
PrecedesRemoval(results, k) ==
    /\ k + 1 \in DOMAIN results
    /\ results[k].targetOperation = ADD
    /\ results[k].globalOperation = OUT_OF_SCOPE
    /\ results[k + 1].sourceBlock.operation = REMOVE
    /\ results[k + 1].globalOperation = REMOVE
    /\ results[k + 1].targetOperation = OUT_OF_SCOPE
    /\ \A f \in Fields :
          Held(results[k].sourceBlock.data[f]) \subseteq Held(results[k + 1].sourceBlock.data[f])

LEMMA ByEntry ==
    RestorationPrecedesRemoval <=>
        \A k \in DOMAIN blockResults : blockResults[k].source = 0 => PrecedesRemoval(blockResults, k)
  BY DEF RestorationPrecedesRemoval, PrecedesRemoval

\* The restored values are among those the removal names.
LEMMA RestoresRemovedOnly ==
    ASSUME NEW block, NEW f \in Fields
    PROVE  Held(ValuesToRestore(block)[f]) \subseteq Held(block.data[f])
  BY DEF ValuesToRestore, Held

\* Deciding an undecided entry leaves the synthesized ones and their removals alone.
LEMMA DecidingKeepsOrder ==
    ASSUME TypeOK, RestorationPrecedesRemoval, i \in 1 .. Len(blockResults),
           blockResults[i].globalOperation = UNKNOWN,
           NEW decided, decided.source = blockResults[i].source,
           blockResults' = [blockResults EXCEPT ![i] = decided]
    PROVE  RestorationPrecedesRemoval'
<1>1. /\ DOMAIN blockResults' = DOMAIN blockResults
      /\ \A k \in DOMAIN blockResults : k # i => blockResults'[k] = blockResults[k]
      /\ blockResults'[i] = decided
  BY LenProperties DEF TypeOK
<1>2. ASSUME NEW k \in DOMAIN blockResults', blockResults'[k].source = 0
      PROVE  PrecedesRemoval(blockResults', k)
  <2>1. blockResults[k].source = 0
    BY <1>1, <1>2
  <2>2. PrecedesRemoval(blockResults, k)
    BY <1>1, <1>2, <2>1, ByEntry
  <2>3. k # i /\ k + 1 # i
    BY <2>2 DEF PrecedesRemoval, OUT_OF_SCOPE, UNKNOWN, REMOVE
  <2> QED
    BY <1>1, <2>2, <2>3 DEF PrecedesRemoval
<1> QED
  BY <1>2 DEF RestorationPrecedesRemoval, PrecedesRemoval

LEMMA RestoringKeepsOrder ==
    ASSUME TypeOK, RestorationPrecedesRemoval, RestoreForSibling
    PROVE  RestorationPrecedesRemoval'
<1> DEFINE removal == RemovalInContainer
           synthesized == Synthesized(Current.sourceBlock)
           n == Len(blockResults)
<1>1. /\ i \in 1 .. n
      /\ blockResults' \in Seq(BlockResult)
      /\ Len(blockResults') = n + 1
      /\ \A j \in 1 .. n + 1 :
            blockResults'[j] = IF j < i THEN blockResults[j]
                               ELSE IF j = i THEN synthesized
                               ELSE IF j = i + 1 THEN removal
                               ELSE blockResults[j - 1]
  BY RestoredList
<1>2. /\ n \in Nat
      /\ DOMAIN blockResults = 1 .. n
      /\ DOMAIN blockResults' = 1 .. n + 1
  BY <1>1, LenProperties DEF TypeOK
<1>3. /\ Current.globalOperation = UNKNOWN
      /\ Current = blockResults[i]
      /\ Current \in BlockResult
  BY CurrentType DEF RestoreForSibling, Tests, Current
<1>4. Current.sourceBlock.operation = REMOVE
  <2>1. TestBlock(Current.sourceBlock) = <<REMOVE, ADD>>
    BY DEF RestoreForSibling, Tests
  <2>2. Current.sourceBlock.operation # ADD
    BY <2>1 DEF TestBlock, TestAddBlock, ADD, REMOVE, UNKNOWN
  <2> QED
    BY <2>2, <1>3 DEF BlockResult, Block
<1>5. Current.source # 0
  <2>1. Current.source = 0 => PrecedesRemoval(blockResults, i)
    BY <1>1, <1>2, <1>3, ByEntry
  <2> QED
    BY <2>1, <1>3 DEF PrecedesRemoval, OUT_OF_SCOPE, UNKNOWN
<1>6. /\ synthesized.source = 0
      /\ synthesized.targetOperation = ADD
      /\ synthesized.globalOperation = OUT_OF_SCOPE
      /\ synthesized.sourceBlock.data = ValuesToRestore(Current.sourceBlock)
  BY DEF Synthesized
<1>7. /\ removal.source # 0
      /\ removal.sourceBlock = Current.sourceBlock
      /\ removal.globalOperation = REMOVE
      /\ removal.targetOperation = OUT_OF_SCOPE
  BY <1>3, <1>5 DEF RemovalInContainer, BlockResult
<1> HIDE DEF removal, synthesized
<1>8. ASSUME NEW k \in 1 .. n + 1, blockResults'[k].source = 0
      PROVE  PrecedesRemoval(blockResults', k)
  <2>1. CASE k < i
    <3>1. k \in 1 .. n /\ blockResults[k].source = 0
      BY <2>1, <1>1, <1>2, <1>8
    <3>2. PrecedesRemoval(blockResults, k)
      BY <3>1, <1>2, ByEntry
    <3>3. k + 1 < i
      <4>1. k + 1 # i
        BY <3>2, <1>3 DEF PrecedesRemoval, REMOVE, UNKNOWN
      <4> QED
        BY <4>1, <2>1, <1>1
    <3>4. /\ blockResults'[k] = blockResults[k]
          /\ blockResults'[k + 1] = blockResults[k + 1]
          /\ k + 1 \in 1 .. n + 1
      BY <2>1, <3>3, <1>1, <1>2
    <3> QED
      BY <3>2, <3>4, <1>2 DEF PrecedesRemoval
  <2>2. CASE k = i
    <3>1. /\ blockResults'[k] = synthesized
          /\ blockResults'[k + 1] = removal
          /\ k + 1 \in 1 .. n + 1
      BY <2>2, <1>1, <1>2
    <3> QED
      BY <3>1, <1>2, <1>4, <1>6, <1>7, RestoresRemovedOnly DEF PrecedesRemoval
  <2>3. CASE k = i + 1
    BY <2>3, <1>1, <1>2, <1>7, <1>8
  <2>4. CASE k > i + 1
    <3>1. k - 1 \in 1 .. n /\ blockResults[k - 1].source = 0
      BY <2>4, <1>1, <1>2, <1>8
    <3>2. PrecedesRemoval(blockResults, k - 1)
      BY <3>1, <1>2, ByEntry
    <3>3. k \in 1 .. n /\ k + 1 \in 1 .. n + 1
      BY <3>1, <3>2, <1>2 DEF PrecedesRemoval
    <3>4. /\ blockResults'[k] = blockResults[k - 1]
          /\ blockResults'[k + 1] = blockResults[k]
      BY <2>4, <3>3, <1>1, <1>2
    <3>5. (k - 1) + 1 = k
      BY <1>2
    <3> QED
      BY <3>2, <3>3, <3>4, <3>5, <1>2 DEF PrecedesRemoval
  <2> QED
    BY <2>1, <2>2, <2>3, <2>4, <1>1, <1>2
<1> QED
  BY <1>2, <1>8 DEF RestorationPrecedesRemoval, PrecedesRemoval

LEMMA OrderStep ==
    TypeOK /\ RestorationPrecedesRemoval /\ [Next]_vars => RestorationPrecedesRemoval'
<1> SUFFICES ASSUME TypeOK, RestorationPrecedesRemoval, [Next]_vars
             PROVE  RestorationPrecedesRemoval'
  OBVIOUS
<1>1. CASE AddToGlobalOnly
  <2>1. /\ i \in 1 .. Len(blockResults)
        /\ blockResults[i] \in BlockResult
        /\ blockResults[i].globalOperation = UNKNOWN
    BY <1>1, CurrentType DEF AddToGlobalOnly, Tests, Current
  <2>2. blockResults' =
            [blockResults EXCEPT ![i] = [blockResults[i] EXCEPT !.globalOperation = ADD]]
    BY <1>1 DEF AddToGlobalOnly
  <2>3. [blockResults[i] EXCEPT !.globalOperation = ADD].source = blockResults[i].source
    BY <2>1 DEF BlockResult
  <2> QED
    BY <2>1, <2>2, <2>3, DecidingKeepsOrder
<1>2. ASSUME NEW global, NEW target, Decide(global, target)
      PROVE  RestorationPrecedesRemoval'
  <2> DEFINE decided == [blockResults[i] EXCEPT !.targetOperation = target,
                                                !.globalOperation = global]
  <2>1. /\ i \in 1 .. Len(blockResults)
        /\ blockResults[i] \in BlockResult
        /\ blockResults[i].globalOperation = UNKNOWN
    BY <1>2, CurrentType DEF Decide, Tests, Current
  <2>2. blockResults' = [blockResults EXCEPT ![i] = decided]
    BY <1>2 DEF Decide
  <2>3. decided.source = blockResults[i].source
    BY <2>1 DEF BlockResult
  <2> HIDE DEF decided
  <2> QED
    BY <2>1, <2>2, <2>3, DecidingKeepsOrder
<1>3. CASE RestoreForSibling
  BY <1>3, RestoringKeepsOrder
<1>4. CASE blockResults' = blockResults
  BY <1>4 DEF RestorationPrecedesRemoval
<1> QED
  BY <1>1, <1>2, <1>3, <1>4
     DEF Next, vars, SkipDecided, PassOver, AddToBoth, RemoveFromLocalScope,
         LeaveToInheritedScope, RemovedAbove, RestoreRaisesError, Finish

\* The values a sibling's removal takes from the container are added back to the target by
\* a block of their own, right before that removal: decisions made later, and blocks
\* inserted later, come neither between them nor undo them (query.lua:214-254).
THEOREM RestorationOrdered == Spec => []RestorationPrecedesRemoval
<1>1. Init => RestorationPrecedesRemoval
  <2> SUFFICES ASSUME NEW q \in Queries, Begins(q), NEW k \in DOMAIN blockResults
               PROVE  blockResults[k].source # 0
    BY DEF Init, RestorationPrecedesRemoval
  <2>1. q.blocks \in Seq(Block)
    BY QueriesAssumption DEF QueryType
  <2>2. DOMAIN q.blocks = 1 .. Len(q.blocks)
    BY <2>1, LenProperties
  <2>3. k \in DOMAIN q.blocks /\ blockResults[k].source = k
    BY DEF Begins, InitialResults
  <2> QED
    BY <2>2, <2>3
<1> QED
  BY <1>1, InitTypeOK, StepTypeOK, OrderStep, PTL DEF Spec

-----------------------------------------------------------------------------
(***************************************************************************)
(* Decisions are final.                                                    *)
(***************************************************************************)
\* What is decided about the target before the rest: an ADD block that was ruled out.
OpenEntry(r) ==
    r.globalOperation = UNKNOWN =>
        \/ r.targetOperation = UNKNOWN
        \/ /\ r.sourceBlock.operation = ADD
           /\ ~DoesTestScopeValues(r.sourceBlock.condition, query.targetScopes)

DecisionInv ==
    /\ \A j, k \in DOMAIN blockResults :
          /\ blockResults[j].source = blockResults[k].source
          /\ blockResults[j].source # 0
          => j = k
    /\ \A k \in DOMAIN blockResults : OpenEntry(blockResults[k])

\* What DecisionsStand says of an entry and the one that succeeds it.
Stands(old, new) ==
    /\ old.globalOperation # UNKNOWN =>
          /\ new.globalOperation = old.globalOperation
          /\ new.targetOperation = old.targetOperation
    /\ old.targetOperation # UNKNOWN => new.targetOperation = old.targetOperation

StandsStep ==
    \A j \in DOMAIN blockResults, k \in DOMAIN blockResults' :
        blockResults[j].source # 0 /\ blockResults'[k].source = blockResults[j].source =>
            Stands(blockResults[j], blockResults'[k])

\* A test decides about the target only where nothing was decided: a block that was ruled
\* out for the target matches none of its scopes later either.
LEMMA TargetOpen ==
    ASSUME DecisionInv, i \in DOMAIN blockResults, NEW global, NEW target, target # UNKNOWN,
           Tests(<<global, target>>)
    PROVE  Current.targetOperation = UNKNOWN
<1>1. OpenEntry(Current) /\ Current.globalOperation = UNKNOWN
  BY DEF DecisionInv, Tests, Current
<1> SUFFICES ASSUME Current.sourceBlock.operation = ADD
             PROVE  DoesTestScopeValues(Current.sourceBlock.condition, query.targetScopes)
  BY <1>1 DEF OpenEntry
<1>2. TestAddBlock(Current.sourceBlock) = <<global, target>>
  BY DEF Tests, TestBlock
<1>3. InTargetScope(Current.sourceBlock)
  BY <1>2 DEF TestAddBlock
<1> QED
  BY <1>3 DEF InTargetScope, MatchingScopes, DoesTestScopeValues

\* One entry is decided, the others stay.
LEMMA DecidingStands ==
    ASSUME TypeOK, DecisionInv, i \in 1 .. Len(blockResults), UNCHANGED query,
           Current.globalOperation = UNKNOWN,
           NEW decided, decided.source = Current.source, decided.globalOperation # UNKNOWN,
           \/ Current.targetOperation = UNKNOWN
           \/ decided.targetOperation = Current.targetOperation,
           blockResults' = [blockResults EXCEPT ![i] = decided]
    PROVE  DecisionInv' /\ StandsStep
<1>1. /\ DOMAIN blockResults' = DOMAIN blockResults
      /\ i \in DOMAIN blockResults
      /\ \A k \in DOMAIN blockResults : k # i => blockResults'[k] = blockResults[k]
      /\ blockResults'[i] = decided
      /\ Current = blockResults[i]
  BY LenProperties DEF TypeOK, Current
<1>2. \A k \in DOMAIN blockResults : blockResults'[k].source = blockResults[k].source
  BY <1>1
<1>3. ASSUME NEW k \in DOMAIN blockResults'
      PROVE  OpenEntry(blockResults[k])'
  <2>1. CASE k = i
    BY <1>1, <2>1 DEF OpenEntry
  <2>2. CASE k # i
    <3>1. OpenEntry(blockResults[k])
      BY <1>1, <1>3 DEF DecisionInv
    <3> QED
      BY <1>1, <2>2, <3>1 DEF OpenEntry
  <2> QED
    BY <2>1, <2>2
<1>4. DecisionInv'
  BY <1>1, <1>2, <1>3 DEF DecisionInv
<1>5. ASSUME NEW j \in DOMAIN blockResults
      PROVE  Stands(blockResults[j], blockResults'[j])
  BY <1>1, <1>5 DEF Stands
<1>6. StandsStep
  BY <1>1, <1>2, <1>5 DEF StandsStep, DecisionInv
<1> QED
  BY <1>4, <1>6

\* Where an entry was before a block was inserted at i.
Origin(k) == IF k < i THEN k ELSE k - 1

LEMMA RestoringStands ==
    ASSUME TypeOK, DecisionInv, RestoreForSibling
    PROVE  DecisionInv' /\ StandsStep
<1> DEFINE n == Len(blockResults)
<1>1. /\ i \in 1 .. n
      /\ blockResults' \in Seq(BlockResult)
      /\ Len(blockResults') = n + 1
      /\ \A j \in 1 .. n + 1 :
            blockResults'[j] = IF j < i THEN blockResults[j]
                               ELSE IF j = i THEN Synthesized(Current.sourceBlock)
                               ELSE IF j = i + 1 THEN RemovalInContainer
                               ELSE blockResults[j - 1]
  BY RestoredList
<1>2. /\ n \in Nat
      /\ DOMAIN blockResults = 1 .. n
      /\ DOMAIN blockResults' = 1 .. n + 1
      /\ UNCHANGED query
  BY <1>1, LenProperties DEF TypeOK, RestoreForSibling
<1>3. /\ Current.globalOperation = UNKNOWN
      /\ Current.targetOperation = UNKNOWN
      /\ Current = blockResults[i]
      /\ Current \in BlockResult
  BY <1>1, <1>2, CurrentType, TargetOpen, ADD # UNKNOWN
     DEF RestoreForSibling, Tests, Current, ADD, UNKNOWN
<1>4. /\ RemovalInContainer.source = Current.source
      /\ RemovalInContainer.globalOperation = REMOVE
      /\ Synthesized(Current.sourceBlock).source = 0
      /\ Synthesized(Current.sourceBlock).globalOperation = OUT_OF_SCOPE
  BY <1>3 DEF RemovalInContainer, Synthesized, BlockResult
<1>5. ASSUME NEW k \in 1 .. n + 1, k # i
      PROVE  /\ Origin(k) \in 1 .. n
             /\ blockResults'[k].source = blockResults[Origin(k)].source
             /\ k # i + 1 => blockResults'[k] = blockResults[Origin(k)]
             /\ k = i + 1 => Origin(k) = i
  <2>1. CASE k < i
    BY <2>1, <1>1, <1>2, <1>5 DEF Origin
  <2>2. CASE k = i + 1
    <3>1. blockResults'[k] = RemovalInContainer /\ Origin(k) = i
      BY <2>2, <1>1, <1>2, <1>5 DEF Origin
    <3> QED
      BY <3>1, <2>2, <1>1, <1>3, <1>4
  <2>3. CASE k > i + 1
    <3>1. /\ blockResults'[k] = blockResults[k - 1]
          /\ Origin(k) = k - 1
          /\ k - 1 \in 1 .. n
      BY <2>3, <1>1, <1>2, <1>5 DEF Origin
    <3> QED
      BY <3>1, <2>3, <1>1, <1>2
  <2> QED
    BY <2>1, <2>2, <2>3, <1>1, <1>2, <1>5
<1>6. ASSUME NEW j \in 1 .. n + 1, NEW k \in 1 .. n + 1,
             blockResults'[j].source = blockResults'[k].source, blockResults'[j].source # 0
      PROVE  j = k
  <2>1. j # i /\ k # i
    BY <1>1, <1>4, <1>6
  <2>2. Origin(j) = Origin(k)
    <3>1. /\ Origin(j) \in DOMAIN blockResults
          /\ Origin(k) \in DOMAIN blockResults
          /\ blockResults[Origin(j)].source = blockResults[Origin(k)].source
          /\ blockResults[Origin(j)].source # 0
      BY <2>1, <1>2, <1>5, <1>6
    <3> QED
      BY <3>1 DEF DecisionInv
  <2> QED
    BY <2>1, <2>2, <1>1, <1>2 DEF Origin
<1>7. ASSUME NEW k \in 1 .. n + 1
      PROVE  OpenEntry(blockResults[k])'
  <2>1. CASE k = i \/ k = i + 1
    <3>1. blockResults'[k].globalOperation # UNKNOWN
      BY <2>1, <1>1, <1>2, <1>4 DEF OUT_OF_SCOPE, REMOVE, UNKNOWN
    <3> QED
      BY <3>1 DEF OpenEntry
  <2>2. CASE k # i /\ k # i + 1
    <3>1. /\ blockResults'[k] = blockResults[Origin(k)]
          /\ OpenEntry(blockResults[Origin(k)])
      BY <2>2, <1>2, <1>5 DEF DecisionInv
    <3> QED
      BY <3>1, <1>2 DEF OpenEntry
  <2> QED
    BY <2>1, <2>2
<1>8. DecisionInv'
  BY <1>2, <1>6, <1>7 DEF DecisionInv
<1>9. ASSUME NEW j \in 1 .. n, NEW k \in 1 .. n + 1,
             blockResults[j].source # 0, blockResults'[k].source = blockResults[j].source
      PROVE  Stands(blockResults[j], blockResults'[k])
  <2>1. k # i
    BY <1>1, <1>4, <1>9
  <2>2. j = Origin(k)
    <3>1. /\ Origin(k) \in DOMAIN blockResults
          /\ j \in DOMAIN blockResults
          /\ blockResults[Origin(k)].source = blockResults[j].source
      BY <2>1, <1>2, <1>5, <1>9
    <3> QED
      BY <3>1, <1>9 DEF DecisionInv
  <2>3. CASE k = i + 1
    <3>1. j = i
      BY <2>1, <2>2, <2>3, <1>5
    <3> QED
      BY <3>1, <1>3 DEF Stands
  <2>4. CASE k # i + 1
    BY <2>1, <2>2, <2>4, <1>5 DEF Stands
  <2> QED
    BY <2>3, <2>4
<1>10. StandsStep
  BY <1>2, <1>9 DEF StandsStep
<1> QED
  BY <1>8, <1>10

LEMMA DecisionStep ==
    TypeOK /\ DecisionInv /\ [Next]_vars => DecisionInv' /\ (StandsStep \/ UNCHANGED vars)
<1> SUFFICES ASSUME TypeOK, DecisionInv, [Next]_vars
             PROVE  DecisionInv' /\ (StandsStep \/ UNCHANGED vars)
  OBVIOUS
<1>1. CASE AddToGlobalOnly
  <2> DEFINE decided == [Current EXCEPT !.globalOperation = ADD]
  <2>1. /\ i \in 1 .. Len(blockResults)
        /\ Current \in BlockResult
        /\ Current.globalOperation = UNKNOWN
        /\ UNCHANGED query
    BY <1>1, CurrentType DEF AddToGlobalOnly, Tests
  <2>2. blockResults' = [blockResults EXCEPT ![i] = decided]
    BY <1>1 DEF AddToGlobalOnly, Current
  <2>3. /\ decided.source = Current.source
        /\ decided.globalOperation # UNKNOWN
        /\ decided.targetOperation = Current.targetOperation
    BY <2>1 DEF BlockResult, ADD, UNKNOWN
  <2> HIDE DEF decided
  <2>4. DecisionInv' /\ StandsStep
    BY <2>1, <2>2, <2>3, DecidingStands
  <2> QED
    BY <2>4
<1>2. ASSUME NEW global, NEW target, Decide(global, target),
             global # UNKNOWN, target # UNKNOWN
      PROVE  DecisionInv' /\ StandsStep
  <2> DEFINE decided == [Current EXCEPT !.targetOperation = target, !.globalOperation = global]
  <2>1. /\ i \in 1 .. Len(blockResults)
        /\ Current \in BlockResult
        /\ Current.globalOperation = UNKNOWN
        /\ UNCHANGED query
    BY <1>2, CurrentType DEF Decide, Tests
  <2>2. Current.targetOperation = UNKNOWN
    <3>1. i \in DOMAIN blockResults
      BY <2>1, LenProperties DEF TypeOK
    <3> QED
      BY <3>1, <1>2, TargetOpen DEF Decide
  <2>3. blockResults' = [blockResults EXCEPT ![i] = decided]
    BY <1>2 DEF Decide, Current
  <2>4. decided.source = Current.source /\ decided.globalOperation # UNKNOWN
    BY <1>2, <2>1 DEF BlockResult
  <2> HIDE DEF decided
  <2> QED
    BY <2>1, <2>2, <2>3, <2>4, DecidingStands
<1>3. CASE AddToBoth \/ RemoveFromLocalScope \/ LeaveToInheritedScope \/ RemovedAbove
  BY <1>2, <1>3 DEF AddToBoth, RemoveFromLocalScope, LeaveToInheritedScope, RemovedAbove,
                    ADD, REMOVE, OUT_OF_SCOPE, UNKNOWN
<1>4. CASE RestoreForSibling
  BY <1>4, RestoringStands
<1>5. CASE UNCHANGED <<query, blockResults>>
  BY <1>5 DEF DecisionInv, OpenEntry, StandsStep, Stands
<1> QED
  BY <1>1, <1>3, <1>4, <1>5
     DEF Next, vars, SkipDecided, PassOver, RestoreRaisesError, Finish

LEMMA InitDecisionInv == Init => DecisionInv
<1> SUFFICES ASSUME NEW q \in Queries, Begins(q)
             PROVE  DecisionInv
  BY DEF Init
<1>1. /\ DOMAIN blockResults = DOMAIN q.blocks
      /\ \A k \in DOMAIN blockResults :
            blockResults[k] = [source |-> k,
                               sourceBlock |-> q.blocks[k],
                               targetOperation |-> RuledOut(q.blocks[k], q.targetScopes),
                               globalOperation |-> RuledOut(q.blocks[k], q.globalScopes)]
  BY DEF Begins, InitialResults
<1>2. query = q
  BY DEF Begins
<1>3. ASSUME NEW k \in DOMAIN blockResults
      PROVE  blockResults[k].source = k /\ OpenEntry(blockResults[k])
  <2> DEFINE forTarget == RuledOut(q.blocks[k], q.targetScopes)
             forGlobal == RuledOut(q.blocks[k], q.globalScopes)
  <2>0. blockResults[k] = [source |-> k, sourceBlock |-> q.blocks[k],
                           targetOperation |-> forTarget, globalOperation |-> forGlobal]
    BY <1>1
  <2>1. /\ blockResults[k].source = k
        /\ blockResults[k].sourceBlock = q.blocks[k]
        /\ blockResults[k].targetOperation = forTarget
    <3> HIDE DEF forTarget, forGlobal
    <3> QED
      BY <2>0
  <2>2. \/ RuledOut(q.blocks[k], q.targetScopes) = UNKNOWN
        \/ /\ q.blocks[k].operation = ADD
           /\ ~DoesTestScopeValues(q.blocks[k].condition, q.targetScopes)
    BY DEF RuledOut
  <2> QED
    BY <1>2, <2>1, <2>2 DEF OpenEntry
<1> QED
  BY <1>3 DEF DecisionInv

\* The decision on a block of the script is final, for the global scope and for the target,
\* whatever is decided or inserted afterwards: the values that were accumulated need never
\* be taken back (query.lua:137-140, 256-266).
THEOREM DecisionsFinal == Spec => DecisionsStand
<1>1. TypeOK /\ DecisionInv /\ [Next]_vars => [StandsStep]_vars
  BY DecisionStep
<1>2. Spec => [](TypeOK /\ DecisionInv)
  BY InitTypeOK, StepTypeOK, InitDecisionInv, DecisionStep, PTL DEF Spec
<1>3. [StandsStep]_vars =>
          [query' = query =>
            \A j \in DOMAIN blockResults, k \in DOMAIN blockResults' :
              blockResults[j].source # 0 /\ blockResults'[k].source = blockResults[j].source =>
                  /\ blockResults[j].globalOperation # UNKNOWN =>
                        /\ blockResults'[k].globalOperation = blockResults[j].globalOperation
                        /\ blockResults'[k].targetOperation = blockResults[j].targetOperation
                  /\ blockResults[j].targetOperation # UNKNOWN =>
                        blockResults'[k].targetOperation = blockResults[j].targetOperation]_vars
  BY DEF StandsStep, Stands
<1> QED
  BY <1>1, <1>2, <1>3, PTL DEF Spec, DecisionsStand
-----------------------------------------------------------------------------
(***************************************************************************)
(* What a step does to the list of results.                                *)
(***************************************************************************)
\* Every entry stays the block it was.
SameBlocks ==
    /\ DOMAIN blockResults' = DOMAIN blockResults
    /\ \A k \in DOMAIN blockResults :
          /\ blockResults'[k].source = blockResults[k].source
          /\ blockResults'[k].sourceBlock = blockResults[k].sourceBlock

\* The entry at i is decided, the others stay.
DecidesEntry(global) ==
    /\ i \in DOMAIN blockResults
    /\ blockResults[i].globalOperation = UNKNOWN
    /\ global # UNKNOWN
    /\ blockResults'[i].globalOperation = global
    /\ \A k \in DOMAIN blockResults : k # i => blockResults'[k] = blockResults[k]

LEMMA DecideIsOneEntry ==
    ASSUME TypeOK, NEW global \in Decision, NEW target \in Decision, global # UNKNOWN,
           \/ Decide(global, target)
           \/ AddToGlobalOnly /\ global = ADD
    PROVE  SameBlocks /\ DecidesEntry(global)
<1>1. /\ i \in 1 .. Len(blockResults)
      /\ Current \in BlockResult
      /\ Current.globalOperation = UNKNOWN
      /\ DOMAIN blockResults = 1 .. Len(blockResults)
  BY CurrentType, LenProperties DEF Decide, AddToGlobalOnly, Tests, TypeOK
<1>2. PICK decided :
          /\ blockResults' = [blockResults EXCEPT ![i] = decided]
          /\ decided.source = Current.source
          /\ decided.sourceBlock = Current.sourceBlock
          /\ decided.globalOperation = global
  <2>1. CASE Decide(global, target)
    <3> DEFINE d == [Current EXCEPT !.targetOperation = target, !.globalOperation = global]
    <3>1. /\ d.source = Current.source
          /\ d.sourceBlock = Current.sourceBlock
          /\ d.globalOperation = global
      BY <1>1 DEF BlockResult
    <3>2. blockResults' = [blockResults EXCEPT ![i] = d]
      BY <2>1 DEF Decide, Current
    <3> HIDE DEF d
    <3> QED
      BY <3>1, <3>2
  <2>2. CASE AddToGlobalOnly /\ global = ADD
    <3> DEFINE d == [Current EXCEPT !.globalOperation = ADD]
    <3>1. /\ d.source = Current.source
          /\ d.sourceBlock = Current.sourceBlock
          /\ d.globalOperation = global
      BY <1>1, <2>2 DEF BlockResult
    <3>2. blockResults' = [blockResults EXCEPT ![i] = d]
      BY <2>2 DEF AddToGlobalOnly, Current
    <3> HIDE DEF d
    <3> QED
      BY <3>1, <3>2
  <2> QED
    BY <2>1, <2>2
<1>3. /\ DOMAIN blockResults' = DOMAIN blockResults
      /\ blockResults'[i] = decided
      /\ \A k \in DOMAIN blockResults : k # i => blockResults'[k] = blockResults[k]
  BY <1>1, <1>2
<1> QED
  BY <1>1, <1>2, <1>3 DEF SameBlocks, DecidesEntry, Current

\* A step decides an entry, inserts a synthesized block, or leaves the list alone.
LEMMA ListStep ==
    ASSUME TypeOK, [Next]_vars
    PROVE  /\ UNCHANGED query
           /\ \/ SameBlocks /\ \E global \in Decision : DecidesEntry(global)
              \/ RestoreForSibling
              \/ UNCHANGED blockResults
<1>1. CASE AddToGlobalOnly
  BY <1>1, DecideIsOneEntry, ADD # UNKNOWN DEF AddToGlobalOnly, Decision, ADD, UNKNOWN
<1>2. ASSUME NEW global \in {ADD, REMOVE, OUT_OF_SCOPE}, NEW target \in {ADD, REMOVE, OUT_OF_SCOPE},
             Decide(global, target)
      PROVE  UNCHANGED query /\ SameBlocks /\ \E g \in Decision : DecidesEntry(g)
  BY <1>2, DecideIsOneEntry DEF Decide, Decision, ADD, REMOVE, OUT_OF_SCOPE, UNKNOWN
<1>3. CASE AddToBoth \/ RemoveFromLocalScope \/ LeaveToInheritedScope \/ RemovedAbove
  BY <1>2, <1>3 DEF AddToBoth, RemoveFromLocalScope, LeaveToInheritedScope, RemovedAbove
<1>4. CASE RestoreForSibling
  BY <1>4 DEF RestoreForSibling
<1>5. CASE UNCHANGED <<query, blockResults>>
  BY <1>5
<1> QED
  BY <1>1, <1>3, <1>4, <1>5
     DEF Next, vars, SkipDecided, PassOver, RestoreRaisesError, Finish

\* The entry at k of the list with a synthesized block at i is that block, or the one that was at Origin(k).
LEMMA RestoredOrigins ==
    ASSUME TypeOK, RestorationPrecedesRemoval, RestoreForSibling
    PROVE  /\ UNCHANGED query
           /\ Len(blockResults) \in Nat
           /\ i \in 1 .. Len(blockResults)
           /\ DOMAIN blockResults = 1 .. Len(blockResults)
           /\ Len(blockResults') = Len(blockResults) + 1
           /\ DOMAIN blockResults' = 1 .. Len(blockResults) + 1
           /\ blockResults[i].source # 0
           /\ blockResults[i].sourceBlock.operation = REMOVE
           /\ blockResults[i].globalOperation = UNKNOWN
           /\ blockResults'[i] = Synthesized(blockResults[i].sourceBlock)
           /\ blockResults'[i].source = 0
           /\ blockResults'[i].globalOperation = OUT_OF_SCOPE
           /\ blockResults'[i + 1].globalOperation = REMOVE
           /\ \A k \in 1 .. Len(blockResults) + 1 : k # i =>
                 /\ Origin(k) \in 1 .. Len(blockResults)
                 /\ blockResults'[k].source = blockResults[Origin(k)].source
                 /\ blockResults'[k].sourceBlock = blockResults[Origin(k)].sourceBlock
                 /\ k # i + 1 => blockResults'[k] = blockResults[Origin(k)]
<1> DEFINE n == Len(blockResults)
<1>1. /\ i \in 1 .. n
      /\ blockResults' \in Seq(BlockResult)
      /\ Len(blockResults') = n + 1
      /\ \A j \in 1 .. n + 1 :
            blockResults'[j] = IF j < i THEN blockResults[j]
                               ELSE IF j = i THEN Synthesized(Current.sourceBlock)
                               ELSE IF j = i + 1 THEN RemovalInContainer
                               ELSE blockResults[j - 1]
  BY RestoredList
<1>2. /\ n \in Nat
      /\ DOMAIN blockResults = 1 .. n
      /\ DOMAIN blockResults' = 1 .. n + 1
      /\ UNCHANGED query
  BY <1>1, LenProperties DEF TypeOK, RestoreForSibling
<1>3. /\ Current.globalOperation = UNKNOWN
      /\ Current = blockResults[i]
      /\ Current \in BlockResult
  BY CurrentType DEF RestoreForSibling, Tests, Current
<1>4. Current.sourceBlock.operation = REMOVE
  <2>1. TestBlock(Current.sourceBlock) = <<REMOVE, ADD>>
    BY DEF RestoreForSibling, Tests
  <2>2. Current.sourceBlock.operation # ADD
    BY <2>1 DEF TestBlock, TestAddBlock, ADD, REMOVE, UNKNOWN
  <2> QED
    BY <2>2, <1>3 DEF BlockResult, Block
<1>5. Current.source # 0
  <2>1. Current.source = 0 => PrecedesRemoval(blockResults, i)
    BY <1>1, <1>2, <1>3, ByEntry
  <2> QED
    BY <2>1, <1>3 DEF PrecedesRemoval, OUT_OF_SCOPE, UNKNOWN
<1>6. /\ blockResults'[i] = Synthesized(Current.sourceBlock)
      /\ blockResults'[i + 1] = RemovalInContainer
  BY <1>1, <1>2
<1>7. /\ Synthesized(Current.sourceBlock).source = 0
      /\ Synthesized(Current.sourceBlock).globalOperation = OUT_OF_SCOPE
  BY DEF Synthesized
<1>8. /\ RemovalInContainer.source = Current.source
      /\ RemovalInContainer.sourceBlock = Current.sourceBlock
      /\ RemovalInContainer.globalOperation = REMOVE
  BY <1>3 DEF RemovalInContainer, BlockResult
<1>9. ASSUME NEW k \in 1 .. n + 1, k # i
      PROVE  /\ Origin(k) \in 1 .. n
             /\ blockResults'[k].source = blockResults[Origin(k)].source
             /\ blockResults'[k].sourceBlock = blockResults[Origin(k)].sourceBlock
             /\ k # i + 1 => blockResults'[k] = blockResults[Origin(k)]
  <2>1. CASE k < i
    BY <2>1, <1>1, <1>2, <1>9 DEF Origin
  <2>2. CASE k = i + 1
    <3>1. blockResults'[k] = RemovalInContainer /\ Origin(k) = i
      BY <2>2, <1>1, <1>2, <1>9 DEF Origin
    <3> QED
      BY <3>1, <2>2, <1>1, <1>3, <1>8
  <2>3. CASE k > i + 1
    <3>1. /\ blockResults'[k] = blockResults[k - 1]
          /\ Origin(k) = k - 1
          /\ k - 1 \in 1 .. n
      BY <2>3, <1>1, <1>2, <1>9 DEF Origin
    <3> QED
      BY <3>1
  <2> QED
    BY <2>1, <2>2, <2>3, <1>1, <1>2, <1>9
<1> QED
  BY <1>1, <1>2, <1>3, <1>4, <1>5, <1>6, <1>7, <1>8, <1>9

-----------------------------------------------------------------------------
(***************************************************************************)
(* The script's blocks in the list.                                        *)
(***************************************************************************)
LEMMA ScriptOrderStep ==
    TypeOK /\ RestorationPrecedesRemoval /\ ScriptBlocksInOrder /\ [Next]_vars
        => ScriptBlocksInOrder'
<1> SUFFICES ASSUME TypeOK, RestorationPrecedesRemoval, ScriptBlocksInOrder, [Next]_vars
             PROVE  ScriptBlocksInOrder'
  OBVIOUS
<1>1. CASE RestoreForSibling
  <2> DEFINE n == Len(blockResults)
  <2>1. /\ UNCHANGED query
        /\ n \in Nat
        /\ i \in 1 .. n
        /\ DOMAIN blockResults = 1 .. n
        /\ DOMAIN blockResults' = 1 .. n + 1
        /\ blockResults'[i].source = 0
        /\ \A k \in 1 .. n + 1 : k # i =>
              /\ Origin(k) \in 1 .. n
              /\ blockResults'[k].source = blockResults[Origin(k)].source
              /\ blockResults'[k].sourceBlock = blockResults[Origin(k)].sourceBlock
    BY <1>1, RestoredOrigins
  <2> HIDE DEF n
  <2>2. ASSUME NEW k \in 1 .. n + 1, blockResults'[k].source # 0
        PROVE  /\ blockResults'[k].source \in DOMAIN query.blocks
               /\ blockResults'[k].sourceBlock = query.blocks[blockResults'[k].source]
    BY <2>1, <2>2 DEF ScriptBlocksInOrder
  <2>3. ASSUME NEW j \in 1 .. n + 1, NEW k \in 1 .. n + 1, j < k,
               blockResults'[j].source # 0, blockResults'[k].source # 0
        PROVE  blockResults'[j].source < blockResults'[k].source
    <3>1. j # i /\ k # i
      BY <2>1, <2>3
    <3>2. Origin(j) < Origin(k)
      BY <2>1, <2>3, <3>1 DEF Origin
    <3> QED
      BY <2>1, <2>3, <3>1, <3>2 DEF ScriptBlocksInOrder
  <2>4. ASSUME NEW s \in DOMAIN query.blocks
        PROVE  \E k \in 1 .. n + 1 : blockResults'[k].source = s
    <3>1. PICK k \in 1 .. n : blockResults[k].source = s
      BY <2>1, <2>4 DEF ScriptBlocksInOrder
    <3> DEFINE moved == IF k < i THEN k ELSE k + 1
    <3>2. moved \in 1 .. n + 1 /\ moved # i /\ Origin(moved) = k
      BY <2>1 DEF Origin
    <3> HIDE DEF moved
    <3> QED
      BY <2>1, <3>1, <3>2
  <2> QED
    BY <2>1, <2>2, <2>3, <2>4 DEF ScriptBlocksInOrder
<1>2. CASE SameBlocks /\ UNCHANGED query
  <2>1. /\ DOMAIN blockResults' = DOMAIN blockResults
        /\ \A k \in DOMAIN blockResults :
              /\ blockResults'[k].source = blockResults[k].source
              /\ blockResults'[k].sourceBlock = blockResults[k].sourceBlock
        /\ query' = query
    BY <1>2 DEF SameBlocks
  <2> QED
    BY <2>1 DEF ScriptBlocksInOrder
<1>3. CASE UNCHANGED <<blockResults, query>>
  BY <1>3 DEF ScriptBlocksInOrder
<1> QED
  BY <1>1, <1>2, <1>3, ListStep

LEMMA InitScriptOrder == Init => ScriptBlocksInOrder
<1> SUFFICES ASSUME NEW q \in Queries, Begins(q)
             PROVE  ScriptBlocksInOrder
  BY DEF Init
<1>1. /\ query = q
      /\ DOMAIN blockResults = DOMAIN q.blocks
  BY DEF Begins, InitialResults
<1>2. ASSUME NEW k \in DOMAIN blockResults
      PROVE  blockResults[k].source = k /\ blockResults[k].sourceBlock = q.blocks[k]
  BY <1>1 DEF Begins, InitialResults
<1> QED
  BY <1>1, <1>2 DEF ScriptBlocksInOrder

-----------------------------------------------------------------------------
(***************************************************************************)
(* Values are restored once.                                               *)
(***************************************************************************)
\* What adds to the global scope is an ADD block of the script.
AddsAreAdds ==
    \A k \in DOMAIN blockResults :
        blockResults[k].globalOperation = ADD =>
            blockResults[k].source # 0 /\ blockResults[k].sourceBlock.operation = ADD

OnceInv == RestorationPrecedesRemoval /\ AddsAreAdds /\ RestoredOnce

\* The string v is added by a block of the script below the entry at k.
LEMMA AddedBelowMember ==
    ASSUME NEW f \in Fields, NEW v, NEW k
    PROVE  v \in AddedBelow(k, f) <=>
               \E m \in k + 1 .. Len(blockResults) :
                   /\ blockResults[m].source # 0
                   /\ blockResults[m].sourceBlock.operation = ADD
                   /\ v \in Held(blockResults[m].sourceBlock.data[f])
  BY DEF AddedBelow

\* A value found in the global scope was added below the last removal that names it.
LEMMA FoundIsAddedLater ==
    ASSUME TypeOK, AddsAreAdds, NEW f \in Fields, NEW v \in FetchFieldValue(f)
    PROVE  \E m \in DOMAIN blockResults :
              /\ blockResults[m].globalOperation = ADD
              /\ blockResults[m].source # 0
              /\ blockResults[m].sourceBlock.operation = ADD
              /\ v \in Held(blockResults[m].sourceBlock.data[f])
              /\ \A k \in DOMAIN blockResults :
                    k > m /\ blockResults[k].globalOperation = REMOVE =>
                        v \notin Held(blockResults[k].sourceBlock.data[f])
<1> DEFINE ops == [k \in DOMAIN blockResults |->
                      [operation |-> blockResults[k].globalOperation,
                       data |-> IF blockResults[k].globalOperation \in {ADD, REMOVE}
                                THEN blockResults[k].sourceBlock.data ELSE EmptyMap]]
<1>1. v \in Survivors(ops, f)
  BY DEF FetchFieldValue
<1>2. /\ DOMAIN ops = DOMAIN blockResults
      /\ \A k \in DOMAIN blockResults :
            /\ ops[k].operation = blockResults[k].globalOperation
            /\ blockResults[k].globalOperation \in {ADD, REMOVE} =>
                  ops[k].data = blockResults[k].sourceBlock.data
  OBVIOUS
<1> HIDE DEF ops
<1>3. PICK m \in DOMAIN ops :
          /\ ops[m].operation = ADD
          /\ v \in Held(ops[m].data[f])
          /\ \A k \in DOMAIN ops : k > m =>
                IF ops[k].operation = ADD
                THEN f \in StringFields => ops[k].data[f] = Nil
                ELSE v \notin Held(ops[k].data[f])
  BY <1>1 DEF Survivors, SurvivorsOf
<1>4. /\ m \in DOMAIN blockResults
      /\ blockResults[m].globalOperation = ADD
      /\ v \in Held(blockResults[m].sourceBlock.data[f])
  BY <1>2, <1>3
<1>5. ASSUME NEW k \in DOMAIN blockResults, k > m, blockResults[k].globalOperation = REMOVE
      PROVE  v \notin Held(blockResults[k].sourceBlock.data[f])
  BY <1>2, <1>3, <1>5 DEF ADD, REMOVE
<1> QED
  BY <1>4, <1>5 DEF AddsAreAdds

LEMMA RestoringOnce ==
    ASSUME TypeOK, OnceInv, RestoreForSibling
    PROVE  RestoredOnce' /\ AddsAreAdds'
<1> DEFINE n == Len(blockResults)
           restored == ValuesToRestore(blockResults[i].sourceBlock)
<1> USE DEF OnceInv
<1>1. /\ n \in Nat
      /\ i \in 1 .. n
      /\ DOMAIN blockResults = 1 .. n
      /\ Len(blockResults') = n + 1
      /\ DOMAIN blockResults' = 1 .. n + 1
      /\ blockResults[i].source # 0
      /\ blockResults[i].sourceBlock.operation = REMOVE
      /\ blockResults'[i] = Synthesized(blockResults[i].sourceBlock)
      /\ blockResults'[i].source = 0
      /\ blockResults'[i].globalOperation = OUT_OF_SCOPE
      /\ blockResults'[i + 1].globalOperation = REMOVE
      /\ \A k \in 1 .. n + 1 : k # i =>
            /\ Origin(k) \in 1 .. n
            /\ blockResults'[k].source = blockResults[Origin(k)].source
            /\ blockResults'[k].sourceBlock = blockResults[Origin(k)].sourceBlock
            /\ k # i + 1 => blockResults'[k] = blockResults[Origin(k)]
  BY RestoredOrigins
<1>2. blockResults'[i].sourceBlock.data = restored
  BY <1>1 DEF Synthesized
<1>3. ASSUME NEW f \in Fields, NEW v \in Held(restored[f])
      PROVE  v \in FetchFieldValue(f)
  BY <1>3 DEF ValuesToRestore, Held
<1> HIDE DEF n, restored
<1>4. AddsAreAdds'
  <2> SUFFICES ASSUME NEW k \in 1 .. n + 1, blockResults'[k].globalOperation = ADD
               PROVE  blockResults'[k].source # 0 /\ blockResults'[k].sourceBlock.operation = ADD
    BY <1>1 DEF AddsAreAdds
  <2>1. k # i /\ k # i + 1
    BY <1>1 DEF ADD, REMOVE, OUT_OF_SCOPE
  <2> QED
    BY <1>1, <2>1 DEF AddsAreAdds
\* Where an entry m is afterwards.
<1> DEFINE Moved(m) == IF m < i THEN m ELSE m + 1
<1>5. ASSUME NEW m \in 1 .. n
      PROVE  /\ Moved(m) \in 1 .. n + 1
             /\ blockResults'[Moved(m)].source = blockResults[m].source
             /\ blockResults'[Moved(m)].sourceBlock = blockResults[m].sourceBlock
  <2>1. Moved(m) \in 1 .. n + 1 /\ Moved(m) # i /\ Origin(Moved(m)) = m
    BY <1>1 DEF Origin
  <2> HIDE DEF Moved
  <2> QED
    BY <1>1, <2>1
<1>6. ASSUME NEW f \in Fields, NEW v, NEW j \in 1 .. n + 1, NEW m \in 1 .. n,
             Moved(m) > j, blockResults[m].source # 0,
             blockResults[m].sourceBlock.operation = ADD,
             v \in Held(blockResults[m].sourceBlock.data[f])
      PROVE  v \in AddedBelow(j, f)'
  <2>1. /\ Moved(m) \in 1 .. n + 1
        /\ blockResults'[Moved(m)].source # 0
        /\ blockResults'[Moved(m)].sourceBlock.operation = ADD
        /\ v \in Held(blockResults'[Moved(m)].sourceBlock.data[f])
    BY <1>5, <1>6
  <2>2. Moved(m) \in j + 1 .. Len(blockResults')
    BY <2>1, <1>1, <1>6
  <2> HIDE DEF Moved
  <2> QED
    BY <2>1, <2>2 DEF AddedBelow
<1>7. ASSUME NEW j \in 1 .. n + 1, NEW k \in 1 .. n + 1, NEW f \in Fields, j < k,
             blockResults'[j].source = 0, blockResults'[k].source = 0,
             NEW v \in Held(blockResults'[j].sourceBlock.data[f]),
             v \in Held(blockResults'[k].sourceBlock.data[f])
      PROVE  v \in AddedBelow(j, f)'
  <2>1. CASE j # i /\ k # i
    <3>1. /\ Origin(j) \in 1 .. n
          /\ Origin(k) \in 1 .. n
          /\ Origin(j) < Origin(k)
          /\ blockResults[Origin(j)].source = 0
          /\ blockResults[Origin(k)].source = 0
          /\ v \in Held(blockResults[Origin(j)].sourceBlock.data[f])
          /\ v \in Held(blockResults[Origin(k)].sourceBlock.data[f])
      BY <2>1, <1>1, <1>7 DEF Origin
    <3>2. v \in AddedBelow(Origin(j), f)
      BY <3>1, <1>1 DEF RestoredOnce
    <3>3. PICK m \in Origin(j) + 1 .. Len(blockResults) :
              /\ blockResults[m].source # 0
              /\ blockResults[m].sourceBlock.operation = ADD
              /\ v \in Held(blockResults[m].sourceBlock.data[f])
      BY <3>2, AddedBelowMember
    <3>4. m \in 1 .. n /\ Moved(m) > j
      BY <3>1, <2>1, <1>1 DEF Origin, n
    <3> QED
      BY <3>3, <3>4, <1>6
  <2>2. ASSUME j = i \/ k = i
        PROVE  v \in FetchFieldValue(f)
    BY <2>2, <1>2, <1>3, <1>7
  <2>3. CASE k = i
    <3>1. j \in 1 .. n /\ Origin(j) = j /\ blockResults'[j] = blockResults[j]
      BY <2>3, <1>1, <1>7 DEF Origin
    <3>2. PrecedesRemoval(blockResults, j)
      BY <3>1, <1>1, <1>7, ByEntry
    <3>3. /\ j + 1 \in 1 .. n
          /\ blockResults[j + 1].globalOperation = REMOVE
          /\ v \in Held(blockResults[j + 1].sourceBlock.data[f])
      BY <3>1, <3>2, <1>1, <1>7 DEF PrecedesRemoval
    <3>4. PICK m \in 1 .. n :
              /\ blockResults[m].globalOperation = ADD
              /\ blockResults[m].source # 0
              /\ blockResults[m].sourceBlock.operation = ADD
              /\ v \in Held(blockResults[m].sourceBlock.data[f])
              /\ \A l \in 1 .. n : l > m /\ blockResults[l].globalOperation = REMOVE =>
                    v \notin Held(blockResults[l].sourceBlock.data[f])
      BY <2>2, <2>3, <1>1, FoundIsAddedLater
    <3>5. ~(j + 1 > m) /\ m # j + 1
      BY <3>3, <3>4 DEF ADD, REMOVE
    <3>6. Moved(m) > j
      BY <3>5, <1>1
    <3> HIDE DEF Moved
    <3> QED
      BY <3>4, <3>6, <1>6
  <2>4. CASE j = i
    <3>1. k # i + 1
      BY <2>4, <1>1, <1>7 DEF Origin
    <3>2. /\ k - 1 \in 1 .. n
          /\ Origin(k) = k - 1
          /\ blockResults'[k] = blockResults[k - 1]
      BY <2>4, <3>1, <1>1, <1>7 DEF Origin
    <3>3. PrecedesRemoval(blockResults, k - 1)
      BY <3>2, <1>1, <1>7, ByEntry
    <3>4. /\ k \in 1 .. n
          /\ blockResults[k].globalOperation = REMOVE
          /\ v \in Held(blockResults[k].sourceBlock.data[f])
      <4>1. (k - 1) + 1 = k
        BY <1>7, <1>1
      <4>2. v \in Held(blockResults[k - 1].sourceBlock.data[f])
        BY <3>2, <1>7
      <4>3. /\ k \in DOMAIN blockResults
            /\ blockResults[k].globalOperation = REMOVE
            /\ Held(blockResults[k - 1].sourceBlock.data[f])
                  \subseteq Held(blockResults[k].sourceBlock.data[f])
        BY <3>3, <4>1, <1>7 DEF PrecedesRemoval
      <4> QED
        BY <4>2, <4>3, <1>1
    <3>5. PICK m \in 1 .. n :
              /\ blockResults[m].globalOperation = ADD
              /\ blockResults[m].source # 0
              /\ blockResults[m].sourceBlock.operation = ADD
              /\ v \in Held(blockResults[m].sourceBlock.data[f])
              /\ \A l \in 1 .. n : l > m /\ blockResults[l].globalOperation = REMOVE =>
                    v \notin Held(blockResults[l].sourceBlock.data[f])
      BY <2>2, <2>4, <1>1, FoundIsAddedLater
    <3>6. ~(k > m)
      BY <3>4, <3>5
    <3>7. Moved(m) > j
      BY <3>6, <2>4, <1>1, <1>7
    <3> HIDE DEF Moved
    <3> QED
      BY <3>5, <3>7, <1>6
  <2> QED
    BY <2>1, <2>3, <2>4
<1>8. RestoredOnce'
  BY <1>1, <1>7 DEF RestoredOnce
<1> QED
  BY <1>4, <1>8

\* Only the test of an ADD block decides to add to the global scope.
LEMMA DecidedAddIsAdd ==
    ASSUME TypeOK, [Next]_vars, NEW global, DecidesEntry(global), global = ADD,
           blockResults[i].source # 0
    PROVE  blockResults[i].sourceBlock.operation = ADD
<1>1. Current = blockResults[i] /\ Current.globalOperation = UNKNOWN
  BY DEF DecidesEntry, Current
<1>2. blockResults' # blockResults
  BY DEF DecidesEntry, ADD, UNKNOWN
<1>3. blockResults'[i].globalOperation = ADD
  BY DEF DecidesEntry
<1>4. CASE \E target : Tests(<<ADD, target>>)
  <2>1. PICK target : TestBlock(Current.sourceBlock) = <<ADD, target>>
    BY <1>4 DEF Tests
  <2> QED
    BY <2>1, <1>1 DEF TestBlock, TestRemoveBlock, ADD, REMOVE, OUT_OF_SCOPE, UNKNOWN
<1>5. ASSUME NEW g, NEW target, g # ADD
      PROVE  ~Decide(g, target)
  <2> SUFFICES ASSUME Decide(g, target)
               PROVE  FALSE
    OBVIOUS
  <2>1. /\ Current \in BlockResult
        /\ i \in 1 .. Len(blockResults)
    BY CurrentType DEF Decide, Tests
  <2> DEFINE d == [Current EXCEPT !.targetOperation = target, !.globalOperation = g]
  <2>2. d.globalOperation = g
    BY <2>1 DEF BlockResult
  <2>3. blockResults' = [blockResults EXCEPT ![i] = d]
    BY DEF Decide, Current
  <2> HIDE DEF d
  <2>4. blockResults'[i] = d
    BY <2>1, <2>3, LenProperties DEF TypeOK
  <2> QED
    BY <2>2, <2>4, <1>3, <1>5
<1>6. ~RestoreForSibling
  <2> SUFFICES ASSUME RestoreForSibling
               PROVE  FALSE
    OBVIOUS
  <2>1. blockResults'[i] = Synthesized(Current.sourceBlock)
    BY RestoredList, LenProperties DEF TypeOK
  <2> QED
    BY <2>1, <1>3 DEF Synthesized, ADD, OUT_OF_SCOPE
<1>7. ADD # REMOVE /\ ADD # OUT_OF_SCOPE
  BY DEF ADD, REMOVE, OUT_OF_SCOPE
<1> QED
  BY <1>2, <1>4, <1>5, <1>6, <1>7
     DEF Next, vars, SkipDecided, PassOver, AddToGlobalOnly, AddToBoth, RemoveFromLocalScope,
         LeaveToInheritedScope, RemovedAbove, RestoreRaisesError, Finish, Decide

LEMMA OnceStep == TypeOK /\ OnceInv /\ [Next]_vars => OnceInv'
<1> SUFFICES ASSUME TypeOK, OnceInv, [Next]_vars
             PROVE  OnceInv'
  OBVIOUS
<1>1. RestorationPrecedesRemoval'
  BY OrderStep DEF OnceInv
<1>2. CASE RestoreForSibling
  BY <1>1, <1>2, RestoringOnce DEF OnceInv
<1>3. ASSUME SameBlocks, NEW global \in Decision, DecidesEntry(global)
      PROVE  RestoredOnce' /\ AddsAreAdds'
  <2>1. /\ DOMAIN blockResults' = DOMAIN blockResults
        /\ \A k \in DOMAIN blockResults :
              /\ blockResults'[k].source = blockResults[k].source
              /\ blockResults'[k].sourceBlock = blockResults[k].sourceBlock
    BY <1>3 DEF SameBlocks
  <2>2. /\ Len(blockResults') = Len(blockResults)
        /\ DOMAIN blockResults = 1 .. Len(blockResults)
        /\ Len(blockResults) \in Nat
    BY <2>1, StepTypeOK, LenProperties DEF TypeOK
  <2>3. ASSUME NEW j \in DOMAIN blockResults, NEW f \in Fields
        PROVE  AddedBelow(j, f)' = AddedBelow(j, f)
    BY <2>1, <2>2, <2>3 DEF AddedBelow
  <2>4. RestoredOnce'
    BY <2>1, <2>3 DEF OnceInv, RestoredOnce
  <2>5. ASSUME NEW k \in DOMAIN blockResults, blockResults'[k].globalOperation = ADD
        PROVE  blockResults[k].source # 0 /\ blockResults[k].sourceBlock.operation = ADD
    <3>1. CASE k # i
      BY <3>1, <2>5, <1>3 DEF DecidesEntry, OnceInv, AddsAreAdds
    <3>2. CASE k = i
      <4>1. i \in DOMAIN blockResults /\ blockResults[i].globalOperation = UNKNOWN
        BY <1>3 DEF DecidesEntry
      <4>2. blockResults[i].source # 0
        BY <4>1, ByEntry DEF OnceInv, PrecedesRemoval, UNKNOWN, OUT_OF_SCOPE
      <4>3. global = ADD
        BY <3>2, <2>5, <1>3 DEF DecidesEntry
      <4>4. blockResults[i].sourceBlock.operation = ADD
        BY <4>2, <4>3, <1>3, DecidedAddIsAdd
      <4> QED
        BY <3>2, <4>2, <4>4
    <3> QED
      BY <3>1, <3>2
  <2>6. AddsAreAdds'
    BY <2>1, <2>5 DEF AddsAreAdds
  <2> QED
    BY <2>4, <2>6
<1>4. ASSUME UNCHANGED blockResults
      PROVE  RestoredOnce' /\ AddsAreAdds'
  <2>1. \A j, f : AddedBelow(j, f)' = AddedBelow(j, f)
    BY <1>4 DEF AddedBelow
  <2>2. RestoredOnce'
    BY <1>4, <2>1 DEF OnceInv, RestoredOnce
  <2>3. AddsAreAdds'
    BY <1>4 DEF OnceInv, AddsAreAdds
  <2> QED
    BY <2>2, <2>3
<1>5. CASE SameBlocks /\ \E global \in Decision : DecidesEntry(global)
  BY <1>1, <1>3, <1>5 DEF OnceInv
<1>6. CASE UNCHANGED blockResults
  BY <1>1, <1>4, <1>6 DEF OnceInv
<1> QED
  BY <1>2, <1>5, <1>6, ListStep

LEMMA InitOnce == Init => OnceInv
<1> SUFFICES ASSUME NEW q \in Queries, Begins(q)
             PROVE  OnceInv
  BY DEF Init
<1>1. /\ DOMAIN blockResults = DOMAIN q.blocks
      /\ q.blocks \in Seq(Block)
  BY QueriesAssumption DEF Begins, InitialResults, QueryType
<1>2. ASSUME NEW k \in DOMAIN blockResults
      PROVE  /\ blockResults[k].source # 0
             /\ blockResults[k].globalOperation # ADD
  <2> DEFINE forTarget == RuledOut(q.blocks[k], q.targetScopes)
             forGlobal == RuledOut(q.blocks[k], q.globalScopes)
  <2>1. blockResults[k] = [source |-> k, sourceBlock |-> q.blocks[k],
                           targetOperation |-> forTarget, globalOperation |-> forGlobal]
    BY <1>1 DEF Begins, InitialResults
  <2>2. k # 0
    BY <1>1, LenProperties
  <2>3. forGlobal # ADD
    BY DEF RuledOut, ADD, OUT_OF_SCOPE, UNKNOWN
  <2> HIDE DEF forTarget, forGlobal
  <2> QED
    BY <2>1, <2>2, <2>3
<1> QED
  BY <1>2 DEF OnceInv, RestorationPrecedesRemoval, AddsAreAdds, RestoredOnce

-----------------------------------------------------------------------------
(***************************************************************************)
(* Scripts that only add, under conditions on scopes.                      *)
(***************************************************************************)
\* A condition on scope fields is met by the same scopes whatever the values are.
LEMMA ScopesDecide ==
    ASSUME NEW condition, FieldsTested(condition) \subseteq ScopeFields,
           NEW v, NEW w, NEW scopes
    PROVE  MatchingScopes(condition, v, scopes, NIL_MATCHES_NONE)
               = MatchingScopes(condition, w, scopes, NIL_MATCHES_NONE)
<1>1. ASSUME NEW clause \in condition, NEW literal \in clause, NEW scope
      PROVE  MatchLiteral(literal, v, scope, NIL_MATCHES_NONE)
                 = MatchLiteral(literal, w, scope, NIL_MATCHES_NONE)
  <2>1. literal.field \in ScopeFields
    BY DEF FieldsTested
  <2>2. TestValue(literal.field, v, scope) = TestValue(literal.field, w, scope)
    BY <2>1 DEF TestValue
  <2> QED
    BY <2>2 DEF MatchLiteral
<1>2. ASSUME NEW scope
      PROVE  MatchesValues(condition, v, scope, NIL_MATCHES_NONE)
                 <=> MatchesValues(condition, w, scope, NIL_MATCHES_NONE)
  BY <1>1 DEF MatchesValues
<1> QED
  BY <1>2 DEF MatchingScopes

\* What is known of an entry while such a script is evaluated.
AddsEntry(r) ==
    /\ r.source # 0
    /\ r.targetOperation # REMOVE
    /\ r.globalOperation # REMOVE
    /\ r.globalOperation = ADD => (r.targetOperation = ADD <=> Applicable(r.sourceBlock))
    /\ r.globalOperation # ADD => r.targetOperation # ADD
    /\ r.globalOperation = OUT_OF_SCOPE => ~Applicable(r.sourceBlock)

AddsInv ==
    AddsOnly /\ TestsOnlyScopeFields =>
        \A k \in DOMAIN blockResults : AddsEntry(blockResults[k])

\* The block of an entry is one of the script.
LEMMA EntryOfScript ==
    ASSUME ScriptBlocksInOrder, AddsInv, AddsOnly, TestsOnlyScopeFields,
           NEW k \in DOMAIN blockResults
    PROVE  /\ AddsEntry(blockResults[k])
           /\ blockResults[k].sourceBlock.operation = ADD
           /\ FieldsTested(blockResults[k].sourceBlock.condition) \subseteq ScopeFields
  BY DEF ScriptBlocksInOrder, AddsInv, AddsEntry, AddsOnly, TestsOnlyScopeFields

\* The tests find what applies, however many values have been accumulated.
LEMMA TestsFindApplicable ==
    ASSUME NEW block, FieldsTested(block.condition) \subseteq ScopeFields
    PROVE  Applicable(block) <=> InGlobalScope(block) /\ InTargetScope(block)
<1>1. ASSUME NEW v, NEW scopes
      PROVE  MatchingScopes(block.condition, query.initialValues, scopes, NIL_MATCHES_NONE)
                 = MatchingScopes(block.condition, v, scopes, NIL_MATCHES_NONE)
  BY ScopesDecide
<1> QED
  BY <1>1 DEF Applicable, InGlobalScope, InTargetScope

LEMMA AddsStep ==
    TypeOK /\ ScriptBlocksInOrder /\ AddsInv /\ [Next]_vars => AddsInv'
<1> SUFFICES ASSUME TypeOK, ScriptBlocksInOrder, AddsInv, [Next]_vars,
                    AddsOnly', TestsOnlyScopeFields',
                    NEW k \in DOMAIN blockResults'
             PROVE  AddsEntry(blockResults[k])'
  BY DEF AddsInv
<1>1. UNCHANGED query
  BY ListStep
<1>2. AddsOnly /\ TestsOnlyScopeFields
  BY <1>1 DEF AddsOnly, TestsOnlyScopeFields
<1>3. \A block : Applicable(block)' <=> Applicable(block)
  BY <1>1 DEF Applicable
<1>4. CASE UNCHANGED blockResults
  BY <1>2, <1>3, <1>4, EntryOfScript DEF AddsEntry
<1>5. ASSUME NEW global, NEW target, Tests(<<global, target>>)
      PROVE  /\ i \in 1 .. Len(blockResults)
             /\ DOMAIN blockResults = 1 .. Len(blockResults)
             /\ Current = blockResults[i]
             /\ Current \in BlockResult
             /\ Current.globalOperation = UNKNOWN
             /\ <<global, target>> = TestAddBlock(Current.sourceBlock)
             /\ Applicable(Current.sourceBlock)
                   <=> InGlobalScope(Current.sourceBlock) /\ InTargetScope(Current.sourceBlock)
  <2>1. /\ i \in 1 .. Len(blockResults)
        /\ Current \in BlockResult
        /\ DOMAIN blockResults = 1 .. Len(blockResults)
        /\ Current = blockResults[i]
    BY <1>5, CurrentType, LenProperties DEF Tests, Current, TypeOK
  <2>2. /\ Current.sourceBlock.operation = ADD
        /\ FieldsTested(Current.sourceBlock.condition) \subseteq ScopeFields
    BY <2>1, <1>2, EntryOfScript
  <2> QED
    BY <1>5, <2>1, <2>2, TestsFindApplicable DEF Tests, TestBlock
<1>6. ASSUME NEW global, NEW target, Tests(<<global, target>>)
      PROVE  <<global, target>> \in {<<UNKNOWN, UNKNOWN>>, <<ADD, ADD>>, <<ADD, UNKNOWN>>}
  BY <1>5, <1>6 DEF TestAddBlock
<1>7. CASE AddToGlobalOnly
  <2>1. /\ i \in DOMAIN blockResults
        /\ Current = blockResults[i]
        /\ Current.globalOperation = UNKNOWN
        /\ Current \in BlockResult
        /\ ~Applicable(Current.sourceBlock)
    BY <1>7, <1>5 DEF AddToGlobalOnly, TestAddBlock, ADD, UNKNOWN
  <2>2. AddsEntry(Current)
    BY <2>1, <1>2, EntryOfScript
  <2> DEFINE d == [Current EXCEPT !.globalOperation = ADD]
  <2>3. /\ d.source = Current.source
        /\ d.sourceBlock = Current.sourceBlock
        /\ d.targetOperation = Current.targetOperation
        /\ d.globalOperation = ADD
    BY <2>1 DEF BlockResult
  <2>4. blockResults' = [blockResults EXCEPT ![i] = d]
    BY <1>7 DEF AddToGlobalOnly, Current
  <2> HIDE DEF d
  <2>5. AddsEntry(d)
    BY <2>1, <2>2, <2>3 DEF AddsEntry, ADD, REMOVE, OUT_OF_SCOPE, UNKNOWN
  <2>6. k \in DOMAIN blockResults
    BY <2>4
  <2>7. CASE k = i
    BY <2>1, <2>4, <2>5, <2>7, <1>3 DEF AddsEntry
  <2>8. CASE k # i
    <3>1. blockResults'[k] = blockResults[k] /\ AddsEntry(blockResults[k])
      BY <2>4, <2>6, <2>8, <1>2, EntryOfScript
    <3> QED
      BY <3>1, <1>3 DEF AddsEntry
  <2> QED
    BY <2>7, <2>8
<1>8. CASE AddToBoth
  <2>1. /\ i \in DOMAIN blockResults
        /\ Current = blockResults[i]
        /\ Current.globalOperation = UNKNOWN
        /\ Current \in BlockResult
        /\ Applicable(Current.sourceBlock)
    BY <1>8, <1>5 DEF AddToBoth, Decide, TestAddBlock, ADD, UNKNOWN
  <2>2. AddsEntry(Current)
    BY <2>1, <1>2, EntryOfScript
  <2> DEFINE d == [Current EXCEPT !.targetOperation = ADD, !.globalOperation = ADD]
  <2>3. /\ d.source = Current.source
        /\ d.sourceBlock = Current.sourceBlock
        /\ d.targetOperation = ADD
        /\ d.globalOperation = ADD
    BY <2>1 DEF BlockResult
  <2>4. blockResults' = [blockResults EXCEPT ![i] = d]
    BY <1>8 DEF AddToBoth, Decide, Current
  <2> HIDE DEF d
  <2>5. AddsEntry(d)
    BY <2>1, <2>2, <2>3 DEF AddsEntry, ADD, REMOVE, OUT_OF_SCOPE, UNKNOWN
  <2>6. k \in DOMAIN blockResults
    BY <2>4
  <2>7. CASE k = i
    BY <2>1, <2>4, <2>5, <2>7, <1>3 DEF AddsEntry
  <2>8. CASE k # i
    <3>1. blockResults'[k] = blockResults[k] /\ AddsEntry(blockResults[k])
      BY <2>4, <2>6, <2>8, <1>2, EntryOfScript
    <3> QED
      BY <3>1, <1>3 DEF AddsEntry
  <2> QED
    BY <2>7, <2>8
<1>9. /\ ~RemoveFromLocalScope /\ ~LeaveToInheritedScope
      /\ ~RemovedAbove /\ ~RestoreForSibling
  BY <1>6 DEF RemoveFromLocalScope, LeaveToInheritedScope, RemovedAbove, RestoreForSibling,
              Decide, ADD, REMOVE, OUT_OF_SCOPE, UNKNOWN
<1> QED
  BY <1>4, <1>7, <1>8, <1>9
     DEF Next, vars, SkipDecided, PassOver, RestoreRaisesError, Finish

LEMMA InitAdds == Init => AddsInv
<1> SUFFICES ASSUME NEW q \in Queries, Begins(q), AddsOnly,
                    NEW k \in DOMAIN blockResults
             PROVE  AddsEntry(blockResults[k])
  BY DEF Init, AddsInv
<1>1. /\ query = q
      /\ DOMAIN blockResults = DOMAIN q.blocks
      /\ q.blocks \in Seq(Block)
  BY QueriesAssumption DEF Begins, InitialResults, QueryType
<1> DEFINE forTarget == RuledOut(q.blocks[k], q.targetScopes)
           forGlobal == RuledOut(q.blocks[k], q.globalScopes)
<1>2. blockResults[k] = [source |-> k, sourceBlock |-> q.blocks[k],
                         targetOperation |-> forTarget, globalOperation |-> forGlobal]
  BY <1>1 DEF Begins, InitialResults
<1>3. k # 0
  BY <1>1, LenProperties
<1>4. /\ forTarget \in {OUT_OF_SCOPE, UNKNOWN}
      /\ forGlobal \in {OUT_OF_SCOPE, UNKNOWN}
  BY DEF RuledOut
<1>5. forGlobal = OUT_OF_SCOPE => ~Applicable(q.blocks[k])
  <2> SUFFICES ASSUME forGlobal = OUT_OF_SCOPE
               PROVE  ~Applicable(q.blocks[k])
    OBVIOUS
  <2>1. ~DoesTestScopeValues(q.blocks[k].condition, q.globalScopes)
    BY DEF RuledOut, OUT_OF_SCOPE, UNKNOWN
  <2>2. MatchingScopes(q.blocks[k].condition, q.initialValues, q.globalScopes, NIL_MATCHES_NONE) = {}
    BY <2>1 DEF MatchingScopes, DoesTestScopeValues
  <2> QED
    BY <2>2, <1>1 DEF Applicable
<1> HIDE DEF forTarget, forGlobal
<1> QED
  BY <1>2, <1>3, <1>4, <1>5 DEF AddsEntry, ADD, REMOVE, OUT_OF_SCOPE, UNKNOWN

LEMMA AddsResult ==
    TypeOK /\ ScriptBlocksInOrder /\ AddsInv /\ Saturated => AddsOnlyResult
<1> SUFFICES ASSUME TypeOK, ScriptBlocksInOrder, AddsInv, Saturated,
                    status = "done", AddsOnly, TestsOnlyScopeFields,
                    NEW k \in DOMAIN blockResults
             PROVE  /\ blockResults[k].source # 0
                    /\ blockResults[k].targetOperation # REMOVE
                    /\ blockResults[k].targetOperation = ADD
                          <=> Applicable(blockResults[k].sourceBlock)
  BY DEF AddsOnlyResult
<1> DEFINE r == blockResults[k]
<1>1. /\ AddsEntry(r)
      /\ r.sourceBlock.operation = ADD
      /\ FieldsTested(r.sourceBlock.condition) \subseteq ScopeFields
  BY EntryOfScript
<1>2. r.globalOperation \in Decision
  <2>1. r \in BlockResult
    BY ElementOfSeq, LenProperties DEF TypeOK
  <2> QED
    BY <2>1 DEF BlockResult
<1>3. ASSUME r.globalOperation = UNKNOWN
      PROVE  ~Applicable(r.sourceBlock)
  <2>1. k < Len(blockResults) + 1
    BY LenProperties DEF TypeOK
  <2>2. TestBlock(r.sourceBlock) = <<UNKNOWN, UNKNOWN>>
    BY <1>3, <2>1 DEF Saturated, PassedOverUpTo
  <2>3. ~InGlobalScope(r.sourceBlock)
    BY <1>1, <2>2 DEF TestBlock, TestAddBlock, ADD, UNKNOWN
  <2> QED
    BY <1>1, <2>3, TestsFindApplicable
<1> HIDE DEF r
<1>4. /\ r.source # 0
      /\ r.targetOperation # REMOVE
      /\ r.targetOperation = ADD <=> Applicable(r.sourceBlock)
  BY <1>1, <1>2, <1>3 DEF AddsEntry, Decision, ADD, REMOVE, OUT_OF_SCOPE, UNKNOWN
<1> QED
  BY <1>4 DEF r

\* The list evaluate() returns is the script's, for every script and state: its blocks in
\* their order, what it adds wherever it applies, and values that removals took from a
\* container added back once (query.lua:124-126, 165-277).
THEOREM ResultWritten == Spec => []ResultAsWritten
<1> DEFINE Inv == TypeOK /\ WalkInv /\ ScriptBlocksInOrder /\ OnceInv /\ AddsInv
<1>1. Init => Inv
  <2> SUFFICES ASSUME Init
               PROVE  Inv
    OBVIOUS
  <2>1. TypeOK
    BY InitTypeOK
  <2>2. i = 1 /\ status = "running"
    BY DEF Init, Begins
  <2>3. WalkInv
    BY <2>1, <2>2, NothingBeforeFirst DEF WalkInv, TypeOK
  <2> QED
    BY <2>1, <2>3, InitScriptOrder, InitOnce, InitAdds
<1>2. Inv /\ [Next]_vars => Inv'
  <2> SUFFICES ASSUME Inv, [Next]_vars
               PROVE  Inv'
    OBVIOUS
  <2>1. TypeOK /\ WalkInv /\ ScriptBlocksInOrder /\ RestorationPrecedesRemoval /\ OnceInv /\ AddsInv
    BY DEF OnceInv
  <2>2. TypeOK' /\ WalkInv'
    BY <2>1, StepTypeOK, WalkInvStep
  <2>3. ScriptBlocksInOrder' /\ AddsInv'
    BY <2>1, ScriptOrderStep, AddsStep
  <2>4. OnceInv'
    BY <2>1, OnceStep
  <2> QED
    BY <2>2, <2>3, <2>4
<1>3. Inv => ResultAsWritten
  BY WalkInvSaturated, AddsResult DEF ResultAsWritten, OnceInv
<1> QED
  BY <1>1, <1>2, <1>3, PTL DEF Spec

-----------------------------------------------------------------------------
(***************************************************************************)
(* Starting over gets further.                                             *)
(***************************************************************************)
\* Each step decides a block that was undecided, or goes on to the next entry.
Progress ==
    \/ Undecided' \subseteq Undecided /\ Undecided' # Undecided
    \/ Undecided' = Undecided /\ i' = i + 1 /\ i' <= Len(blockResults') + 1

LEMMA DecidingProgresses ==
    ASSUME DecisionInv, RestorationPrecedesRemoval, SameBlocks,
           NEW global, DecidesEntry(global)
    PROVE  Progress
<1> DEFINE x == blockResults[i].source
<1>1. i \in DOMAIN blockResults /\ x \in Undecided
  BY DEF DecidesEntry, Undecided
<1>2. x # 0
  BY <1>1, ByEntry DEF DecidesEntry, PrecedesRemoval, UNKNOWN, OUT_OF_SCOPE
<1>3. ASSUME NEW k \in DOMAIN blockResults', blockResults'[k].globalOperation = UNKNOWN
      PROVE  /\ blockResults'[k].source \in Undecided
             /\ blockResults'[k].source # x
  <2>1. k # i /\ k \in DOMAIN blockResults /\ blockResults'[k] = blockResults[k]
    BY <1>3 DEF DecidesEntry, SameBlocks
  <2> QED
    BY <1>1, <1>2, <1>3, <2>1 DEF Undecided, DecisionInv
<1>4. Undecided' \subseteq Undecided /\ x \notin Undecided'
  BY <1>3 DEF Undecided
<1> QED
  BY <1>1, <1>4 DEF Progress

LEMMA RestoringProgresses ==
    ASSUME TypeOK, DecisionInv, RestorationPrecedesRemoval, RestoreForSibling
    PROVE  Progress
<1> DEFINE x == blockResults[i].source
<1> USE RestoredOrigins
<1>1. x \in Undecided /\ x # 0
  BY DEF Undecided
<1>2. ASSUME NEW k \in DOMAIN blockResults', blockResults'[k].globalOperation = UNKNOWN
      PROVE  /\ blockResults'[k].source \in Undecided
             /\ blockResults'[k].source # x
  <2>1. /\ k \in 1 .. Len(blockResults) + 1
        /\ k # i
        /\ k # i + 1
    BY <1>2 DEF UNKNOWN, OUT_OF_SCOPE, REMOVE
  <2>2. /\ Origin(k) \in DOMAIN blockResults
        /\ Origin(k) # i
        /\ blockResults'[k] = blockResults[Origin(k)]
    BY <2>1 DEF Origin
  <2> QED
    BY <1>1, <1>2, <2>2 DEF Undecided, DecisionInv
<1>3. Undecided' \subseteq Undecided /\ x \notin Undecided'
  BY <1>2 DEF Undecided
<1> QED
  BY <1>1, <1>3 DEF Progress

LEMMA ProgressStep ==
    TypeOK /\ DecisionInv /\ RestorationPrecedesRemoval /\ [Next]_vars =>
        [status' = "running" /\ query' = query => Progress]_vars
<1> SUFFICES ASSUME TypeOK, DecisionInv, RestorationPrecedesRemoval, Next, status' = "running"
             PROVE  Progress
  BY DEF vars
<1>1. CASE SkipDecided \/ PassOver
  <2>1. i \in Nat /\ Len(blockResults) \in Nat /\ i <= Len(blockResults)
    BY <1>1, LenProperties DEF TypeOK, SkipDecided, PassOver, Tests
  <2>2. i' = i + 1 /\ blockResults' = blockResults
    BY <1>1 DEF SkipDecided, PassOver
  <2> QED
    BY <2>1, <2>2 DEF Progress, Undecided
<1>2. CASE AddToGlobalOnly
  BY <1>2, DecideIsOneEntry, DecidingProgresses DEF AddToGlobalOnly, Decision, ADD, UNKNOWN
<1>3. ASSUME NEW global \in {ADD, REMOVE, OUT_OF_SCOPE}, NEW target \in {ADD, REMOVE, OUT_OF_SCOPE},
             Decide(global, target)
      PROVE  Progress
  BY <1>3, DecideIsOneEntry, DecidingProgresses DEF Decide, Decision, ADD, REMOVE, OUT_OF_SCOPE, UNKNOWN
<1>4. CASE AddToBoth \/ RemoveFromLocalScope \/ LeaveToInheritedScope \/ RemovedAbove
  BY <1>3, <1>4 DEF AddToBoth, RemoveFromLocalScope, LeaveToInheritedScope, RemovedAbove
<1>5. CASE RestoreForSibling
  BY <1>5, RestoringProgresses
<1>6. ~RestoreRaisesError /\ ~Finish
  BY DEF RestoreRaisesError, Finish
<1> QED
  BY <1>1, <1>2, <1>4, <1>5, <1>6 DEF Next

\* Starting over after every decision cannot go on for ever: no decision is taken back, and
\* each step decides a block of the script or goes on to the next entry, for every script
\* and state (query.lua:124-126, 137-140, 256-266).
THEOREM WalkProceeds == Spec => WalkProgresses
<1>1. Spec => [](TypeOK /\ DecisionInv /\ RestorationPrecedesRemoval)
  BY InitTypeOK, StepTypeOK, InitDecisionInv, DecisionStep, RestorationOrdered, PTL DEF Spec
<1>2. [status' = "running" /\ query' = query => Progress]_vars =>
          [status' = "running" /\ query' = query =>
            \/ Undecided' \subseteq Undecided /\ Undecided' # Undecided
            \/ Undecided' = Undecided /\ i' = i + 1 /\ i' <= Len(blockResults') + 1]_vars
  BY DEF Progress
<1>3. Spec => EveryStepProgresses
  BY <1>1, <1>2, ProgressStep, PTL DEF Spec, EveryStepProgresses
<1> QED
  BY <1>3, DecisionsFinal DEF WalkProgresses
=============================================================================
