--------------------------- MODULE TestRun_proofs ---------------------------
(***************************************************************************)
(* Proofs about Store, and about TestRun: the configuration stays sound    *)
(* and snapshots frozen for any number of calls, and tests neither see nor *)
(* change the configuration of the project script, however many there are  *)
(* and wherever they fail.                                                 *)
(***************************************************************************)
EXTENDS TestRun, SequenceTheorems, TLAPS


-----------------------------------------------------------------------------
(***************************************************************************)
(* The store has its type.                                                 *)
(***************************************************************************)
\* There is always a condition to merge with, also after a rollback; and a snapshot names
\* blocks that exist.
StoreInv ==
    /\ TypeOK
    /\ conditions # <<>>
    /\ \A n \in DOMAIN snapshots :
          /\ snapshots[n].conditions # <<>>
          /\ snapshots[n].blocks \in Seq(1 .. Len(heap))

\* Arithmetic, on its own for the provers.
LEMMA OneLess == \A n \in Nat : n > 1 => n - 1 # 0
  OBVIOUS

LEMMA InLongerRange ==
    \A m, n, k \in Nat : k \in 0 .. m /\ m <= n => k \in 0 .. n
  OBVIOUS

LEMMA FrontType ==
    ASSUME NEW S, NEW s \in Seq(S), Len(s) > 1
    PROVE  Front(s) \in Seq(S) /\ Front(s) # <<>>
<1>1. \A j \in 1 .. Len(s) - 1 : s[j] \in S
  BY LenProperties, ElementOfSeq
<1>2. /\ SubSeq(s, 1, Len(s) - 1) \in Seq(S)
      /\ Len(SubSeq(s, 1, Len(s) - 1)) = Len(s) - 1
  BY <1>1, LenProperties, SubSeqProperties, 1 \in Int, Len(s) - 1 \in Int
<1>3. Len(s) - 1 # 0
  <2>1. Len(s) \in Nat
    BY LenProperties
  <2> QED
    BY <2>1, OneLess
<1>4. SubSeq(s, 1, Len(s) - 1) # <<>>
  BY <1>2, <1>3, EmptySeq, Len(<<>>) = 0
<1> QED
  BY <1>2, <1>4 DEF Front

\* Receiving a value keeps the data of a block well-typed.
LEMMA ReceiveType ==
    ASSUME NEW data \in ValueMap, NEW f \in Fields, NEW values \in SUBSET Strings
    PROVE  Receive(data, f, values) \in ValueMap
  BY DEF Receive, MergeValues, Held, ValueMap, FieldValue

LEMMA TopType == StoreInv => Top \in Condition
  BY LenProperties, ElementOfSeq, EmptySeq DEF StoreInv, TypeOK, Top, Last

LEMMA NewBlockType ==
    ASSUME StoreInv, NEW operation \in {ADD, REMOVE}, NEW f \in Fields,
           NEW values \in SUBSET Strings
    PROVE  [NewBlock(operation) EXCEPT !.data = Receive(@, f, values)] \in Block
<1>1. EmptyMap \in ValueMap
  BY DEF EmptyMap, ValueMap, FieldValue
<1>2. Receive(EmptyMap, f, values) \in ValueMap
  BY <1>1, ReceiveType
<1> QED
  BY <1>2, TopType DEF NewBlock, Block

\* Sequences of block numbers stay so when more blocks are made.
LEMMA MoreBlocks ==
    ASSUME NEW m \in Nat, NEW n \in Nat, m <= n, NEW s \in Seq(1 .. m)
    PROVE  s \in Seq(1 .. n)
  BY SeqMonotonic, 1 .. m \subseteq 1 .. n

\* What addValue() and removeValue() do to the block tables: one block is given further
\* values, or a block of a new number is made.
LEMMA StoreValueFacts ==
    ASSUME StoreInv, NEW operation \in {ADD, REMOVE}, NEW f \in Fields,
           NEW values \in SUBSET Strings, StoreValue(operation, f, values)
    PROVE  /\ heap' \in Seq(Block)
           /\ Len(heap') \in {Len(heap), Len(heap) + 1}
           /\ \A id \in 1 .. Len(heap) : id # currentBlock => heap'[id] = heap[id]
           /\ \/ UNCHANGED <<blocks, currentBlock>>
              \/ /\ blocks' = Append(blocks, Len(heap) + 1)
                 /\ currentBlock' = Len(heap) + 1
                 /\ Len(heap') = Len(heap) + 1
                 /\ \A id \in 1 .. Len(heap) : heap'[id] = heap[id]
<1> USE DEF TypeOK
<1>1. heap \in Seq(Block) /\ Len(heap) \in Nat /\ DOMAIN heap = 1 .. Len(heap)
  BY LenProperties DEF StoreInv
<1>2. CASE Continues(operation)
  <2>1. currentBlock \in 1 .. Len(heap)
    BY <1>1, <1>2 DEF Continues, StoreInv
  <2>2. heap[currentBlock] \in Block
    BY <1>1, <2>1, ElementOfSeq
  <2>3. [heap[currentBlock] EXCEPT !.data = Receive(@, f, values)] \in Block
    BY <2>2, ReceiveType DEF Block
  <2>4. heap' = [heap EXCEPT ![currentBlock] =
                    [heap[currentBlock] EXCEPT !.data = Receive(@, f, values)]]
    BY <1>2 DEF StoreValue
  <2>5. heap' \in Seq(Block) /\ Len(heap') = Len(heap)
    BY <1>1, <2>1, <2>3, <2>4, ExceptSeq
  <2> QED
    BY <1>1, <1>2, <2>4, <2>5 DEF StoreValue
<1>3. CASE ~Continues(operation)
  <2> DEFINE b == [NewBlock(operation) EXCEPT !.data = Receive(@, f, values)]
  <2>1. b \in Block
    BY NewBlockType
  <2>2. heap' = Append(heap, b) /\ blocks' = Append(blocks, NewIndex) /\ currentBlock' = NewIndex
    BY <1>3 DEF StoreValue
  <2> HIDE DEF b
  <2>3. /\ heap' \in Seq(Block)
        /\ Len(heap') = Len(heap) + 1
        /\ \A id \in 1 .. Len(heap) : heap'[id] = heap[id]
    BY <1>1, <2>1, <2>2, AppendProperties
  <2> QED
    BY <2>2, <2>3 DEF NewIndex
<1> QED
  BY <1>2, <1>3

LEMMA StoreValueInv ==
    ASSUME StoreInv, NEW operation \in {ADD, REMOVE}, NEW f \in Fields,
           NEW values \in SUBSET Strings, StoreValue(operation, f, values)
    PROVE  StoreInv'
<1>1. /\ heap' \in Seq(Block)
      /\ Len(heap') \in {Len(heap), Len(heap) + 1}
      /\ \/ UNCHANGED <<blocks, currentBlock>>
         \/ /\ blocks' = Append(blocks, Len(heap) + 1)
            /\ currentBlock' = Len(heap) + 1
            /\ Len(heap') = Len(heap) + 1
  BY StoreValueFacts
<1>2. /\ Len(heap) \in Nat /\ Len(heap') \in Nat
      /\ DOMAIN heap = 1 .. Len(heap) /\ DOMAIN heap' = 1 .. Len(heap')
      /\ Len(heap) <= Len(heap')
  BY <1>1, LenProperties DEF StoreInv, TypeOK
<1>3. blocks \in Seq(1 .. Len(heap'))
  BY <1>1, <1>2, MoreBlocks DEF StoreInv, TypeOK
<1>4. blocks' \in Seq(1 .. Len(heap'))
  <2>1. CASE UNCHANGED <<blocks, currentBlock>>
    BY <1>3, <2>1
  <2>2. CASE blocks' = Append(blocks, Len(heap) + 1) /\ Len(heap') = Len(heap) + 1
    <3>1. Len(heap) + 1 \in 1 .. Len(heap')
      BY <1>2, <2>2
    <3> QED
      BY <1>3, <2>2, <3>1, AppendProperties
  <2> QED
    BY <1>1, <2>1, <2>2
<1>5. log' \in Seq(Block)
  <2>1. [NewBlock(operation) EXCEPT !.data = Receive(@, f, values)] \in Block
    BY NewBlockType
  <2> QED
    BY <2>1, AppendProperties DEF StoreValue, StoreInv, TypeOK
<1>6. \A n \in DOMAIN snapshots : snapshots[n].blocks \in Seq(1 .. Len(heap'))
  BY <1>2, MoreBlocks DEF StoreInv
<1>7. UNCHANGED <<conditions, snapshots>>
  BY DEF StoreValue
<1>8. currentBlock' \in 0 .. Len(heap')
  <2>1. currentBlock \in 0 .. Len(heap)
    BY DEF StoreInv, TypeOK
  <2>2. \/ currentBlock' = currentBlock
        \/ currentBlock' = Len(heap) + 1 /\ Len(heap') = Len(heap) + 1
    BY <1>1
  <2>3. CASE currentBlock' = currentBlock
    BY <1>2, <2>1, <2>3, InLongerRange
  <2>4. CASE currentBlock' = Len(heap) + 1 /\ Len(heap') = Len(heap) + 1
    BY <1>2, <2>4
  <2> QED
    BY <2>2, <2>3, <2>4
<1> QED
  BY <1>1, <1>2, <1>4, <1>5, <1>6, <1>7, <1>8 DEF StoreInv, TypeOK

LEMMA CallInv ==
    ASSUME StoreInv, ScriptNext
    PROVE  StoreInv'
<1>1. ASSUME NEW clauses \in Clauses, PushCondition(clauses)
      PROVE  StoreInv'
  <2>1. MergeConditions(Top, clauses) \in Condition
    BY TopType, StoreAssumption DEF MergeConditions, Condition
  <2>2. conditions' \in Seq(Condition) /\ conditions' # <<>>
    BY <1>1, <2>1, AppendProperties DEF PushCondition, StoreInv, TypeOK
  <2> QED
    BY <1>1, <2>2 DEF PushCondition, StoreInv, TypeOK
<1>2. CASE PopCondition
  <2>1. conditions' \in Seq(Condition) /\ conditions' # <<>>
    BY <1>2, FrontType DEF PopCondition, StoreInv, TypeOK
  <2> QED
    BY <1>2, <2>1 DEF PopCondition, StoreInv, TypeOK
<1>3. ASSUME NEW given \in Given,
             AddValue(given[1], given[2]) \/ RemoveValue(given[1], given[2])
      PROVE  StoreInv'
  <2>1. given[1] \in Fields /\ given[2] \in SUBSET Strings
    BY StoreAssumption
  <2> QED
    BY <1>3, <2>1, StoreValueInv DEF AddValue, RemoveValue
<1> QED
  BY <1>1, <1>2, <1>3 DEF ScriptNext

LEMMA InitInv == StoreInit => StoreInv
  BY EmptySeq DEF StoreInit, StoreInv, TypeOK, EMPTY_CONDITION, Condition

\* What a snapshot keeps is well-typed and can be restored.
LEMMA TakeSnapshotType ==
    ASSUME StoreInv
    PROVE  /\ TakeSnapshot \in SnapshotType
           /\ TakeSnapshot.conditions # <<>>
           /\ TakeSnapshot.blocks \in Seq(1 .. Len(heap))
<1>1. DOMAIN heap = 1 .. Len(heap)
  BY LenProperties DEF StoreInv, TypeOK
<1>2. blocks \in Seq(Nat)
  BY <1>1, SeqMonotonic, 1 .. Len(heap) \subseteq Nat DEF StoreInv, TypeOK
<1> QED
  BY <1>1, <1>2 DEF TakeSnapshot, SnapshotType, StoreInv, TypeOK

LEMMA SnapshotInv ==
    ASSUME StoreInv, Snapshot
    PROVE  StoreInv'
<1>1. MergeConditions(Top, EMPTY_CONDITION) \in Condition
  BY TopType DEF MergeConditions, EMPTY_CONDITION
<1>2. conditions' \in Seq(Condition) /\ conditions' # <<>>
  BY <1>1, AppendProperties DEF Snapshot, StoreInv, TypeOK
<1>3. /\ snapshots' \in Seq(SnapshotType)
      /\ Len(snapshots') = Len(snapshots) + 1
      /\ \A n \in 1 .. Len(snapshots) : snapshots'[n] = snapshots[n]
      /\ snapshots'[Len(snapshots) + 1] = TakeSnapshot
  BY TakeSnapshotType, AppendProperties DEF Snapshot, StoreInv, TypeOK
<1>4. UNCHANGED <<heap, blocks, log>> /\ currentBlock' = 0
  BY DEF Snapshot
<1>5. ASSUME NEW n \in DOMAIN snapshots'
      PROVE  /\ snapshots'[n].conditions # <<>>
             /\ snapshots'[n].blocks \in Seq(1 .. Len(heap))
  <2>1. n \in 1 .. Len(snapshots) + 1 /\ DOMAIN snapshots = 1 .. Len(snapshots)
    BY <1>3, LenProperties DEF StoreInv, TypeOK
  <2>2. CASE n \in 1 .. Len(snapshots)
    BY <1>3, <2>1, <2>2 DEF StoreInv
  <2>3. CASE n = Len(snapshots) + 1
    BY <1>3, <2>3, TakeSnapshotType
  <2> QED
    BY <2>1, <2>2, <2>3, LenProperties DEF StoreInv, TypeOK
<1>6. currentBlock' \in 0 .. Len(heap')
  BY <1>4, LenProperties DEF StoreInv, TypeOK
<1> QED
  BY <1>2, <1>3, <1>4, <1>5, <1>6 DEF StoreInv, TypeOK

LEMMA RollbackInv ==
    ASSUME StoreInv, NEW n \in DOMAIN snapshots, Rollback(snapshots[n])
    PROVE  StoreInv'
<1>1. snapshots[n] \in SnapshotType
  BY LenProperties, ElementOfSeq DEF StoreInv, TypeOK
<1>2. DOMAIN heap = 1 .. Len(heap)
  BY LenProperties DEF StoreInv, TypeOK
<1> QED
  BY <1>1, <1>2 DEF Rollback, StoreInv, TypeOK, SnapshotType

LEMMA StoreStep == StoreInv /\ [StoreNext]_vars => StoreInv'
<1> SUFFICES ASSUME StoreInv, [StoreNext]_vars
             PROVE  StoreInv'
  OBVIOUS
<1>1. CASE ScriptNext
  BY <1>1, CallInv
<1>2. CASE Snapshot
  BY <1>2, SnapshotInv
<1>3. CASE \E n \in DOMAIN snapshots : Rollback(snapshots[n])
  BY <1>3, RollbackInv
<1>4. CASE UNCHANGED vars
  BY <1>4 DEF vars, StoreInv, TypeOK
<1> QED
  BY <1>1, <1>2, <1>3, <1>4 DEF StoreNext

\* The store has its type whatever scripts call, and wherever snapshots and rollbacks are
\* made: the current block and the blocks of the list exist, and there is a condition to
\* merge with.
THEOREM StoreTypeCorrect == StoreSpec => []TypeOK
<1>1. StoreInv => TypeOK
  BY DEF StoreInv
<1> QED
  BY <1>1, InitInv, StoreStep, PTL DEF StoreSpec

-----------------------------------------------------------------------------
(***************************************************************************)
(* Snapshots do not change.                                                *)
(***************************************************************************)
\* No snapshot holds the block that further values would go to.
SnapshotsKept ==
    \A n \in DOMAIN snapshots : currentBlock \notin ToSet(snapshots[n].blocks)

FrozenStep ==
    \A n \in DOMAIN snapshots : \A id \in ToSet(snapshots[n].blocks) : heap'[id] = heap[id]

LEMMA SnapshotNumbers ==
    ASSUME StoreInv, NEW n \in DOMAIN snapshots
    PROVE  ToSet(snapshots[n].blocks) \subseteq 1 .. Len(heap)
<1>1. snapshots[n].blocks \in Seq(1 .. Len(heap))
  BY DEF StoreInv
<1> QED
  BY <1>1, LenProperties, ElementOfSeq DEF ToSet

LEMMA CallFrozen ==
    ASSUME StoreInv, SnapshotsKept, ScriptNext
    PROVE  SnapshotsKept' /\ FrozenStep /\ UNCHANGED snapshots
<1>0. Len(heap) \in Nat
  BY LenProperties DEF StoreInv, TypeOK
<1>1. ASSUME NEW clauses \in Clauses, PushCondition(clauses)
      PROVE  SnapshotsKept' /\ FrozenStep /\ UNCHANGED snapshots
  BY <1>0, <1>1, SnapshotNumbers DEF PushCondition, SnapshotsKept, FrozenStep
<1>2. CASE PopCondition
  BY <1>0, <1>2, SnapshotNumbers DEF PopCondition, SnapshotsKept, FrozenStep
<1>3. ASSUME NEW given \in Given,
             AddValue(given[1], given[2]) \/ RemoveValue(given[1], given[2])
      PROVE  SnapshotsKept' /\ FrozenStep /\ UNCHANGED snapshots
  <2>1. given[1] \in Fields /\ given[2] \in SUBSET Strings
    BY StoreAssumption
  <2>2. PICK operation \in {ADD, REMOVE} : StoreValue(operation, given[1], given[2])
    BY <1>3 DEF AddValue, RemoveValue
  <2>3. UNCHANGED snapshots
    BY <2>2 DEF StoreValue
  <2>4. /\ \A id \in 1 .. Len(heap) : id # currentBlock => heap'[id] = heap[id]
        /\ currentBlock' \in {currentBlock, Len(heap) + 1}
    BY <2>1, <2>2, StoreValueFacts
  <2>5. FrozenStep
    BY <2>4, SnapshotNumbers DEF SnapshotsKept, FrozenStep
  <2>6. ASSUME NEW n \in DOMAIN snapshots
        PROVE  currentBlock' \notin ToSet(snapshots[n].blocks)
    <3>1. Len(heap) + 1 \notin ToSet(snapshots[n].blocks)
      BY <1>0, SnapshotNumbers
    <3> QED
      BY <2>4, <3>1 DEF SnapshotsKept
  <2> QED
    BY <2>3, <2>5, <2>6 DEF SnapshotsKept
<1> QED
  BY <1>1, <1>2, <1>3 DEF ScriptNext

LEMMA SnapshotFrozen ==
    ASSUME StoreInv, SnapshotsKept, Snapshot
    PROVE  SnapshotsKept' /\ FrozenStep
<1>1. StoreInv' /\ Len(heap') \in Nat
  BY SnapshotInv, LenProperties DEF StoreInv, TypeOK
<1>2. ASSUME NEW n \in DOMAIN snapshots'
      PROVE  0 \notin ToSet(snapshots'[n].blocks)
  <2>1. snapshots'[n].blocks \in Seq(1 .. Len(heap'))
    BY <1>1 DEF StoreInv
  <2> QED
    BY <1>1, <2>1, LenProperties, ElementOfSeq DEF ToSet
<1> QED
  BY <1>2 DEF Snapshot, SnapshotsKept, FrozenStep

LEMMA FrozenStoreStep ==
    StoreInv /\ SnapshotsKept /\ [StoreNext]_vars => SnapshotsKept' /\ (FrozenStep \/ UNCHANGED vars)
<1> SUFFICES ASSUME StoreInv, SnapshotsKept, [StoreNext]_vars
             PROVE  SnapshotsKept' /\ (FrozenStep \/ UNCHANGED vars)
  OBVIOUS
<1>1. CASE ScriptNext
  BY <1>1, CallFrozen
<1>2. CASE Snapshot
  BY <1>2, SnapshotFrozen
<1>3. CASE \E n \in DOMAIN snapshots : Rollback(snapshots[n])
  BY <1>3 DEF Rollback, SnapshotsKept, FrozenStep
<1>4. CASE UNCHANGED vars
  BY <1>4 DEF vars, SnapshotsKept
<1> QED
  BY <1>1, <1>2, <1>3, <1>4 DEF StoreNext

\* No block that a snapshot holds is given further values, in whatever order snapshots
\* and rollbacks are made between the calls of scripts.
THEOREM SnapshotsStayFrozen == StoreSpec => SnapshotsFrozen
<1>1. StoreInit => SnapshotsKept
  BY DEF StoreInit, SnapshotsKept
<1>2. StoreInv /\ SnapshotsKept /\ [StoreNext]_vars => [FrozenStep]_vars
  BY FrozenStoreStep
<1>3. StoreSpec => [](StoreInv /\ SnapshotsKept)
  BY <1>1, InitInv, StoreStep, FrozenStoreStep, PTL DEF StoreSpec
<1>4. [FrozenStep]_vars <=>
          [\A n \in DOMAIN snapshots : \A id \in ToSet(snapshots[n].blocks) :
              heap'[id] = heap[id]]_vars
  BY DEF FrozenStep
<1> QED
  BY <1>2, <1>3, <1>4, PTL DEF StoreSpec, SnapshotsFrozen

-----------------------------------------------------------------------------
(***************************************************************************)
(* What the hooks rely on, besides StoreInv and SnapshotsKept: the snapshot*)
(* for testing has no blocks, and during a test the snapshot of the hooks  *)
(* is what the script left.                                                *)
(***************************************************************************)
PhaseInv ==
    /\ phase \in {"startup", "script", "between", "test"}
    /\ phase = "startup" => snapshots = <<>> /\ blocks = <<>>
    /\ phase # "startup" => 1 \in DOMAIN snapshots /\ snapshots[1].blocks = <<>>
    /\ scriptResult = [conditions |-> scriptResult.conditions, blocks |-> scriptResult.blocks]
    /\ phase = "between" => Configuration = scriptResult
    /\ phase = "test" =>
          /\ 2 \in DOMAIN snapshots
          /\ snapshots[2].conditions = scriptResult.conditions
          /\ Blocks(snapshots[2].blocks) = scriptResult.blocks
    /\ madeBefore \in 0 .. Len(heap)
    /\ TestsIsolated

RunInv == StoreInv /\ SnapshotsKept /\ PhaseInv

LEMMA RunInitInv == RunInit => RunInv
<1> SUFFICES ASSUME RunInit
             PROVE  RunInv
  OBVIOUS
<1>1. StoreInv
  BY InitInv DEF RunInit
<1>2. madeBefore \in 0 .. Len(heap)
  BY EmptySeq, Len(<<>>) = 0 DEF RunInit, StoreInit
<1> QED
  BY <1>1, <1>2 DEF RunInit, StoreInit, RunInv, PhaseInv, SnapshotsKept,
                         TestsIsolated, Configuration

\* A call of a script or a test is one of Store's.
LEMMA CallIsScriptStep == Call => ScriptNext
  BY DEF Call, ScriptNext

\* Blocks that are not given further values look the same afterwards.
LEMMA SameBlocks ==
    ASSUME StoreInv, FrozenStep, UNCHANGED snapshots, NEW n \in DOMAIN snapshots
    PROVE  Blocks(snapshots[n].blocks)' = Blocks(snapshots[n].blocks)
  BY DEF FrozenStep, Blocks, ToSet

\* A call makes blocks that are new, and destroys none.
LEMMA CallBlocks ==
    ASSUME StoreInv, ScriptNext
    PROVE  /\ Len(heap) \in Nat /\ Len(heap') \in Nat
           /\ Len(heap) <= Len(heap')
           /\ blocks' \in {blocks, Append(blocks, Len(heap) + 1)}
<1>1. Len(heap) \in Nat
  BY LenProperties DEF StoreInv, TypeOK
<1>2. CASE UNCHANGED <<heap, blocks>>
  BY <1>1, <1>2
<1>3. ASSUME NEW given \in Given,
             AddValue(given[1], given[2]) \/ RemoveValue(given[1], given[2])
      PROVE  /\ Len(heap') \in {Len(heap), Len(heap) + 1}
             /\ blocks' \in {blocks, Append(blocks, Len(heap) + 1)}
  <2>1. given[1] \in Fields /\ given[2] \in SUBSET Strings
    BY StoreAssumption
  <2>2. PICK operation \in {ADD, REMOVE} : StoreValue(operation, given[1], given[2])
    BY <1>3 DEF AddValue, RemoveValue
  <2> QED
    BY <2>1, <2>2, StoreValueFacts
<1>4. \/ UNCHANGED <<heap, blocks>>
      \/ \E given \in Given : AddValue(given[1], given[2]) \/ RemoveValue(given[1], given[2])
  BY DEF ScriptNext, PushCondition, PopCondition
<1> QED
  BY <1>1, <1>2, <1>3, <1>4

\* In a test, a call adds blocks of the test only.
LEMMA CallIsolated ==
    ASSUME StoreInv, PhaseInv, phase = "test", phase' = "test", ScriptNext, UNCHANGED madeBefore
    PROVE  TestsIsolated'
<1>1. \A n \in DOMAIN blocks : blocks[n] > madeBefore
  BY DEF PhaseInv, TestsIsolated
<1>2. /\ blocks \in Seq(DOMAIN heap)
      /\ madeBefore \in 0 .. Len(heap)
      /\ Len(heap) \in Nat
      /\ blocks' \in {blocks, Append(blocks, Len(heap) + 1)}
  BY CallBlocks DEF PhaseInv, StoreInv, TypeOK
<1>3. CASE blocks' = blocks
  BY <1>1, <1>3 DEF TestsIsolated
<1>4. CASE blocks' = Append(blocks, Len(heap) + 1)
  <2>1. blocks \in Seq(Nat)
    BY <1>2, SeqMonotonic, DOMAIN heap \subseteq Nat, LenProperties DEF StoreInv, TypeOK
  <2>2. /\ DOMAIN blocks = 1 .. Len(blocks)
        /\ DOMAIN blocks' = 1 .. Len(blocks) + 1
        /\ Len(blocks) \in Nat
        /\ \A n \in 1 .. Len(blocks) : blocks'[n] = blocks[n]
        /\ blocks'[Len(blocks) + 1] = Len(heap) + 1
    BY <1>2, <1>4, <2>1, AppendProperties, LenProperties
  <2> QED
    BY <1>1, <1>2, <2>2 DEF TestsIsolated
<1> QED
  BY <1>2, <1>3, <1>4

-----------------------------------------------------------------------------
(***************************************************************************)
(* Each step of a run keeps RunInv.                                        *)
(***************************************************************************)
LEMMA StartupInv ==
    ASSUME RunInv, SnapshotStateForTesting
    PROVE  RunInv' /\ FrozenStep
<1>1. StoreInv' /\ SnapshotsKept' /\ FrozenStep
  BY SnapshotInv, SnapshotFrozen DEF RunInv, SnapshotStateForTesting
<1>2. snapshots' = <<TakeSnapshot>> /\ TakeSnapshot.blocks = <<>>
  BY DEF RunInv, PhaseInv, SnapshotStateForTesting, Snapshot, TakeSnapshot
<1>3. PhaseInv'
  BY <1>2 DEF RunInv, PhaseInv, SnapshotStateForTesting, Snapshot, TestsIsolated
<1> QED
  BY <1>1, <1>3 DEF RunInv

LEMMA ScriptCallInv ==
    ASSUME RunInv, ScriptCall
    PROVE  RunInv' /\ FrozenStep
<1>1. StoreInv' /\ SnapshotsKept' /\ FrozenStep /\ UNCHANGED snapshots
  BY CallIsScriptStep, CallInv, CallFrozen DEF RunInv, ScriptCall
<1>2. madeBefore' \in 0 .. Len(heap')
  BY CallIsScriptStep, CallBlocks DEF RunInv, PhaseInv, ScriptCall
<1>3. PhaseInv'
  BY <1>1, <1>2 DEF RunInv, PhaseInv, ScriptCall, TestsIsolated
<1> QED
  BY <1>1, <1>3 DEF RunInv

LEMMA FinishScriptInv ==
    ASSUME RunInv, FinishScript
    PROVE  RunInv' /\ FrozenStep
<1>1. UNCHANGED vars
  BY DEF FinishScript
<1>2. StoreInv' /\ SnapshotsKept' /\ FrozenStep
  BY <1>1 DEF RunInv, vars, StoreInv, TypeOK, SnapshotsKept, FrozenStep
<1>3. Configuration' = scriptResult'
  BY <1>1 DEF FinishScript, Configuration, Blocks, vars
<1>4. PhaseInv'
  BY <1>1, <1>3 DEF RunInv, PhaseInv, FinishScript, Configuration, TestsIsolated, vars
<1> QED
  BY <1>2, <1>4 DEF RunInv

LEMMA BeforeTestInv ==
    ASSUME RunInv, BeforeTest
    PROVE  RunInv' /\ FrozenStep
<1>1. /\ phase = "between"
      /\ 1 \in DOMAIN snapshots
      /\ snapshots[1].blocks = <<>>
      /\ Configuration = scriptResult
  BY DEF RunInv, PhaseInv, BeforeTest
<1>2. /\ snapshots[1] \in SnapshotType
      /\ snapshots[1].conditions # <<>>
  BY <1>1, LenProperties, ElementOfSeq DEF RunInv, StoreInv, TypeOK
<1>3. /\ TakeSnapshot \in SnapshotType
      /\ TakeSnapshot.conditions # <<>>
      /\ TakeSnapshot.blocks \in Seq(1 .. Len(heap))
  BY TakeSnapshotType DEF RunInv
<1>4. /\ UNCHANGED heap
      /\ currentBlock' = 0
      /\ conditions' = snapshots[1].conditions
      /\ blocks' = <<>>
      /\ log' = snapshots[1].log
      /\ snapshots' = <<snapshots[1], TakeSnapshot>>
  BY <1>1 DEF BeforeTest, NoCurrentBlock, RestoreTestState, TestStateSnapshot
<1>5. StoreInv'
  <2>1. snapshots' \in Seq(SnapshotType)
    BY <1>2, <1>3, <1>4
  <2>2. conditions' \in Seq(Condition) /\ conditions' # <<>> /\ log' \in Seq(Block)
    BY <1>2, <1>4 DEF SnapshotType
  <2>3. blocks' \in Seq(DOMAIN heap') /\ <<>> \in Seq(1 .. Len(heap))
    BY <1>4
  <2>4. heap' \in Seq(Block) /\ currentBlock' \in 0 .. Len(heap')
    BY <1>4, LenProperties DEF RunInv, StoreInv, TypeOK
  <2>5. ASSUME NEW n \in DOMAIN snapshots'
        PROVE  /\ snapshots'[n].conditions # <<>>
               /\ snapshots'[n].blocks \in Seq(1 .. Len(heap'))
    <3>1. snapshots'[n] \in {snapshots[1], TakeSnapshot}
      BY <1>4
    <3> QED
      BY <1>1, <1>2, <1>3, <1>4, <2>3, <3>1
  <2> QED
    BY <2>1, <2>2, <2>3, <2>4, <2>5 DEF StoreInv, TypeOK
<1>6. SnapshotsKept'
  <2>1. ASSUME NEW n \in DOMAIN snapshots'
        PROVE  0 \notin ToSet(snapshots'[n].blocks)
    <3>1. snapshots'[n].blocks \in Seq(1 .. Len(heap'))
      BY <1>5 DEF StoreInv
    <3>2. Len(heap') \in Nat
      BY <1>5, LenProperties DEF StoreInv, TypeOK
    <3> QED
      BY <3>1, <3>2, LenProperties, ElementOfSeq DEF ToSet
  <2> QED
    BY <1>4, <2>1 DEF SnapshotsKept
<1>7. PhaseInv'
  <2>1. 2 \in DOMAIN snapshots' /\ snapshots'[2] = TakeSnapshot
    BY <1>4
  <2>2. Blocks(snapshots[2].blocks)' = Blocks(blocks)
    BY <1>4, <2>1 DEF Blocks, TakeSnapshot
  <2>3. /\ snapshots'[2].conditions = scriptResult.conditions
        /\ Blocks(snapshots[2].blocks)' = scriptResult.blocks
    BY <1>1, <2>1, <2>2 DEF Configuration, TakeSnapshot
  <2>4. madeBefore' = Len(heap) /\ Len(heap) \in Nat
    BY LenProperties DEF BeforeTest, RunInv, StoreInv, TypeOK
  <2>5. TestsIsolated'
    BY <1>4 DEF TestsIsolated
  <2> QED
    BY <1>1, <1>4, <2>1, <2>3, <2>4, <2>5 DEF RunInv, PhaseInv, BeforeTest
<1> QED
  BY <1>4, <1>5, <1>6, <1>7 DEF RunInv, FrozenStep

LEMMA TestCallInv ==
    ASSUME RunInv, TestCall
    PROVE  RunInv' /\ FrozenStep
<1>1. StoreInv' /\ SnapshotsKept' /\ FrozenStep /\ UNCHANGED snapshots
  BY CallIsScriptStep, CallInv, CallFrozen DEF RunInv, TestCall
<1>2. madeBefore' \in 0 .. Len(heap')
  BY CallIsScriptStep, CallBlocks DEF RunInv, PhaseInv, TestCall
<1>3. TestsIsolated'
  BY CallIsScriptStep, CallIsolated DEF RunInv, TestCall
<1>4. Blocks(snapshots[2].blocks)' = scriptResult.blocks
  BY <1>1, SameBlocks DEF RunInv, PhaseInv, TestCall
<1>5. PhaseInv'
  BY <1>1, <1>2, <1>3, <1>4 DEF RunInv, PhaseInv, TestCall
<1> QED
  BY <1>1, <1>5 DEF RunInv

LEMMA AfterTestInv ==
    ASSUME RunInv, AfterTest
    PROVE  RunInv' /\ FrozenStep
<1>1. 2 \in DOMAIN snapshots /\ Rollback(snapshots[2])
  BY DEF RunInv, PhaseInv, AfterTest, HookSnapshot
<1>2. StoreInv'
  BY <1>1, RollbackInv DEF RunInv
<1>3. SnapshotsKept' /\ FrozenStep
  BY <1>1 DEF RunInv, Rollback, SnapshotsKept, FrozenStep
<1>4. Configuration' = scriptResult'
  BY <1>1 DEF RunInv, PhaseInv, AfterTest, Rollback, Configuration, Blocks
<1>5. PhaseInv'
  BY <1>1, <1>4 DEF RunInv, PhaseInv, AfterTest, Rollback, TestsIsolated
<1> QED
  BY <1>2, <1>3, <1>5 DEF RunInv

LEMMA RunStep == RunInv /\ [RunNext]_runVars => RunInv' /\ (FrozenStep \/ UNCHANGED vars)
<1> SUFFICES ASSUME RunInv, [RunNext]_runVars
             PROVE  RunInv' /\ (FrozenStep \/ UNCHANGED vars)
  OBVIOUS
<1>1. CASE UNCHANGED runVars
  BY <1>1 DEF runVars, vars, RunInv, StoreInv, TypeOK, SnapshotsKept, PhaseInv, TestsIsolated,
              Configuration, Blocks
<1> QED
  BY <1>1, StartupInv, ScriptCallInv, FinishScriptInv, BeforeTestInv, TestCallInv, AfterTestInv
     DEF RunNext

LEMMA RunInvariant == RunSpec => []RunInv
  BY RunInitInv, RunStep, PTL DEF RunSpec

-----------------------------------------------------------------------------
\* A test sees neither the script's blocks nor those of an earlier test, whatever the
\* script and the tests call: it starts from no blocks, and makes its own.
THEOREM IsolatedTests == RunSpec => []TestsIsolated
<1>1. RunInv => TestsIsolated
  BY DEF RunInv, PhaseInv
<1> QED
  BY <1>1, RunInvariant, PTL

\* After every test, failed ones too, the configuration is what the project script left:
\* the conditions, the list of blocks and the values in them.
THEOREM ScriptKept == RunSpec => []ScriptUnchangedByTests
<1>1. RunInv => ScriptUnchangedByTests
  BY DEF RunInv, PhaseInv, ScriptUnchangedByTests
<1> QED
  BY <1>1, RunInvariant, PTL

\* Neither the hooks nor the tests give further values to a block that a snapshot holds.
THEOREM RunSnapshotsFrozen == RunSpec => SnapshotsFrozen
<1>1. RunInv /\ [RunNext]_runVars => [FrozenStep]_vars
  BY RunStep
<1>2. [FrozenStep]_vars <=>
          [\A n \in DOMAIN snapshots : \A id \in ToSet(snapshots[n].blocks) :
              heap'[id] = heap[id]]_vars
  BY DEF FrozenStep
<1> QED
  BY <1>1, <1>2, RunInvariant, PTL DEF RunSpec, SnapshotsFrozen

-----------------------------------------------------------------------------
(***************************************************************************)
(* The blocks mean what the calls mean.                                    *)
(***************************************************************************)
\* What an operation makes of the values that those before it have left.
After(b, held, f, values) ==
    IF b.condition \notin held THEN values
    ELSE IF b.operation = ADD
    THEN (IF f \in StringFields /\ b.data[f] # Nil THEN {} ELSE values) \cup Held(b.data[f])
    ELSE values \ Held(b.data[f])

\* One more operation at the end changes what the others mean in that way.
LEMMA AppendedMeaning ==
    \A ops \in Seq(Block), b \in Block, f \in Fields : \A held :
        Meaning(Append(ops, b), held, f) = After(b, held, f, Meaning(ops, held, f))
<1> SUFFICES ASSUME NEW ops \in Seq(Block), NEW b \in Block, NEW f \in Fields, NEW held
             PROVE  Meaning(Append(ops, b), held, f) = After(b, held, f, Meaning(ops, held, f))
  OBVIOUS
<1> DEFINE more == Append(ops, b)
<1> SUFFICES Meaning(more, held, f) = After(b, held, f, Meaning(ops, held, f))
  OBVIOUS
<1>1. /\ Len(ops) \in Nat
      /\ DOMAIN ops = 1 .. Len(ops)
      /\ DOMAIN more = 1 .. Len(ops) + 1
      /\ \A k \in 1 .. Len(ops) : more[k] = ops[k]
      /\ more[Len(ops) + 1] = b
  BY AppendProperties, LenProperties
<1> HIDE DEF more
<1> DEFINE n == Len(ops) + 1
<1>2. n = Len(ops) + 1 /\ n \notin DOMAIN ops /\ \A k \in DOMAIN ops : n > k /\ ~(k > n)
  BY <1>1
<1>3. more[n] = b /\ \A k \in DOMAIN ops : more[k] = ops[k]
  BY <1>1
<1>4. Applied(more, held) = IF b.condition \in held THEN Applied(ops, held) \cup {n} ELSE Applied(ops, held)
  BY <1>1 DEF Applied
<1>5. Applied(ops, held) \subseteq DOMAIN ops
  BY DEF Applied
<1>6. ~(n > n)
  BY <1>1
<1> HIDE DEF n
<1>7. CASE b.condition \notin held
  BY <1>3, <1>4, <1>5, <1>7 DEF Meaning, SurvivorsOf, After
<1>8. CASE b.condition \in held /\ b.operation = ADD
  <2>1. Held(b.data[f]) \subseteq Strings
    BY DEF Held, Block, ValueMap, FieldValue
  <2>2. ASSUME NEW v \in Strings
        PROVE  v \in Meaning(more, held, f) <=> v \in After(b, held, f, Meaning(ops, held, f))
    BY <1>2, <1>3, <1>4, <1>5, <1>6, <1>8 DEF Meaning, SurvivorsOf, After
  <2>3. Meaning(more, held, f) \subseteq Strings /\ After(b, held, f, Meaning(ops, held, f)) \subseteq Strings
    BY <2>1 DEF Meaning, SurvivorsOf, After
  <2> QED
    BY <2>2, <2>3
<1>9. CASE b.condition \in held /\ b.operation # ADD
  <2>1. ASSUME NEW v \in Strings
        PROVE  v \in Meaning(more, held, f) <=> v \in After(b, held, f, Meaning(ops, held, f))
    BY <1>2, <1>3, <1>4, <1>5, <1>6, <1>9 DEF Meaning, SurvivorsOf, After
  <2>2. Meaning(more, held, f) \subseteq Strings /\ After(b, held, f, Meaning(ops, held, f)) \subseteq Strings
    BY <1>9 DEF Meaning, SurvivorsOf, After
  <2> QED
    BY <2>1, <2>2
<1> QED
  BY <1>7, <1>8, <1>9

\* A block of one call.
CallBlock(operation, f, values) == [NewBlock(operation) EXCEPT !.data = Receive(@, f, values)]

LEMMA CallBlockFacts ==
    ASSUME NEW operation, NEW f \in Fields, NEW values \in SUBSET Strings
    PROVE  LET b == CallBlock(operation, f, values)
           IN  /\ b.operation = operation
               /\ b.condition = Top
               /\ b.data[f] = values
               /\ \A g \in Fields \ {f} : b.data[g] = Nil
<1>1. EmptyMap = [g \in Fields |-> Nil]
  BY DEF EmptyMap
<1>2. MergeValues(f, Nil, values) = values
  BY DEF MergeValues, Held
<1> QED
  BY <1>1, <1>2 DEF CallBlock, NewBlock, Receive

\* The block d is c after the call that b is a block of.
Merged(b, c, d, f0, values) ==
    /\ c \in Block /\ f0 \in Fields /\ values \in SUBSET Strings
    /\ b.operation = c.operation /\ b.condition = c.condition
    /\ b.data[f0] = values
    /\ \A g \in Fields \ {f0} : b.data[g] = Nil
    /\ d = [c EXCEPT !.data = Receive(@, f0, values)]

\* A call that goes to a block of its own operation and condition means there what it means
\* after it.
LEMMA MergedMeaning ==
    ASSUME NEW b, NEW c, NEW d, NEW f0, NEW values, Merged(b, c, d, f0, values),
           NEW f \in Fields, ~(f \in StringFields /\ f = f0 /\ c.operation = REMOVE),
           NEW held, NEW before
    PROVE  After(d, held, f, before) = After(b, held, f, After(c, held, f, before))
<1>0. /\ c \in Block /\ f0 \in Fields /\ values \in SUBSET Strings
      /\ b.operation = c.operation /\ b.condition = c.condition
      /\ b.data[f0] = values
      /\ \A g \in Fields \ {f0} : b.data[g] = Nil
      /\ d = [c EXCEPT !.data = Receive(@, f0, values)]
  BY DEF Merged
<1>1. /\ d.operation = c.operation /\ d.condition = c.condition
      /\ d.data[f0] = MergeValues(f0, c.data[f0], values)
      /\ \A g \in Fields \ {f0} : d.data[g] = c.data[g]
  BY <1>0 DEF Receive, Block, ValueMap
<1>2. values # Nil /\ c.operation \in {ADD, REMOVE} /\ ADD # REMOVE
  BY <1>0, FieldsAssumption DEF Block, ADD, REMOVE
<1>3. Held(values) = values /\ Held(Nil) = {}
  BY <1>0, <1>2 DEF Held
<1>4. CASE c.condition \notin held
  BY <1>0, <1>1, <1>4 DEF After
<1>5. CASE c.condition \in held /\ f # f0
  <2>1. b.data[f] = Nil /\ d.data[f] = c.data[f]
    BY <1>0, <1>1, <1>5
  <2> QED
    BY <1>0, <1>1, <1>2, <1>3, <1>5, <2>1 DEF After
<1>6. CASE c.condition \in held /\ f = f0 /\ f \in StringFields
  <2>1. d.data[f] = values /\ c.operation = ADD
    BY <1>0, <1>1, <1>2, <1>6 DEF MergeValues
  <2> QED
    BY <1>0, <1>1, <1>2, <1>3, <1>6, <2>1 DEF After
<1>7. CASE c.condition \in held /\ f = f0 /\ f \notin StringFields
  <2>1. d.data[f] = Held(c.data[f]) \cup values
    BY <1>0, <1>1, <1>7 DEF MergeValues
  <2>2. Held(c.data[f]) \in SUBSET Strings
    BY <1>0 DEF Held, Block, ValueMap, FieldValue
  <2>3. Held(d.data[f]) = Held(c.data[f]) \cup values
    BY <1>0, <2>1, <2>2, FieldsAssumption DEF Held
  <2> QED
    BY <1>0, <1>1, <1>2, <1>3, <1>7, <2>3 DEF After
<1> QED
  BY <1>4, <1>5, <1>6, <1>7

\* The values left by the blocks of a list are those left by the calls, whichever conditions
\* hold; string fields that something was removed from are left out, as the store does not
\* support that.
MeansSame(ids, ops) ==
    \A f \in Fields, held \in SUBSET Condition :
        ~(f \in StringFields /\ Removes(ops, f)) => Meaning(Blocks(ids), held, f) = Meaning(ops, held, f)

\* The block in use is the last of the list and nowhere else in it, and was made under the
\* condition that is in force.
CurrentInv ==
    currentBlock # 0 =>
        /\ blocks # <<>>
        /\ blocks[Len(blocks)] = currentBlock
        /\ \A n \in 1 .. Len(blocks) - 1 : blocks[n] # currentBlock
        /\ heap[currentBlock].condition = Top

\* What the blocks of the list are.
BlocksListed ==
    /\ Blocks(blocks) \in Seq(Block)
    /\ Len(Blocks(blocks)) = Len(blocks) /\ Len(blocks) \in Nat
    /\ \A n \in 1 .. Len(blocks) :
          Blocks(blocks)[n] = heap[blocks[n]] /\ blocks[n] \in 1 .. Len(heap)

LEMMA ListedBlocks == TypeOK => BlocksListed
<1> SUFFICES ASSUME TypeOK
             PROVE  BlocksListed
  OBVIOUS
<1>1. /\ Len(blocks) \in Nat /\ DOMAIN blocks = 1 .. Len(blocks)
      /\ DOMAIN heap = 1 .. Len(heap)
      /\ \A n \in 1 .. Len(blocks) : blocks[n] \in 1 .. Len(heap)
  BY LenProperties, ElementOfSeq DEF TypeOK
<1>2. \A k \in 1 .. Len(heap) : heap[k] \in Block
  BY ElementOfSeq DEF TypeOK
<1>3. Blocks(blocks) = [n \in 1 .. Len(blocks) |-> heap[blocks[n]]]
  BY <1>1 DEF Blocks
<1>4. Blocks(blocks) \in Seq(Block) /\ Len(Blocks(blocks)) = Len(blocks)
  BY <1>1, <1>2, <1>3, IsASeq, LenProperties
<1> QED
  BY <1>1, <1>3, <1>4 DEF BlocksListed

LEMMA ListedBlocksNext == (TypeOK => BlocksListed)'
  BY ListedBlocks, PTL

\* What was removed before still is.
LEMMA RemovesStays ==
    ASSUME NEW ops \in Seq(Block), NEW b \in Block, NEW more, more = Append(ops, b), NEW f \in Fields
    PROVE  /\ Removes(ops, f) => Removes(more, f)
           /\ b.operation = REMOVE /\ b.data[f] # Nil => Removes(more, f)
<1>1. /\ Len(ops) \in Nat
      /\ DOMAIN ops = 1 .. Len(ops)
      /\ DOMAIN more = 1 .. Len(ops) + 1
      /\ \A k \in 1 .. Len(ops) : more[k] = ops[k]
      /\ more[Len(ops) + 1] = b
  BY AppendProperties, LenProperties
<1> QED
  BY <1>1 DEF Removes

LEMMA LastPlace ==
    \A m \in Nat : m # 0 =>
        m \in 1 .. m /\ m - 1 \in Nat /\ (m - 1) + 1 = m /\ \A k \in 1 .. m : k # m => k \in 1 .. m - 1
  OBVIOUS

\* A list is all but its last item, and that.
LEMMA AllButLast ==
    ASSUME NEW s \in Seq(Block), NEW t \in Seq(Block), s # <<>>, Len(t) = Len(s),
           \A k \in 1 .. Len(s) - 1 : t[k] = s[k]
    PROVE  \E before \in Seq(Block) :
              s = Append(before, s[Len(s)]) /\ t = Append(before, t[Len(s)])
<1> DEFINE before == [k \in 1 .. Len(s) - 1 |-> s[k]]
<1>1. Len(s) \in Nat /\ Len(s) # 0 /\ s = [k \in 1 .. Len(s) |-> s[k]] /\ t = [k \in 1 .. Len(s) |-> t[k]]
  BY LenProperties, EmptySeq
<1>2. /\ Len(s) - 1 \in Nat /\ (Len(s) - 1) + 1 = Len(s)
      /\ \A k \in 1 .. Len(s) : k # Len(s) => k \in 1 .. Len(s) - 1
      /\ \A k \in 1 .. Len(s) - 1 : k \in 1 .. Len(s)
  BY <1>1
<1>3. \A k \in 1 .. Len(s) - 1 : s[k] \in Block
  BY <1>2, ElementOfSeq
<1>4. before \in Seq(Block) /\ Len(before) = Len(s) - 1 /\ \A k \in 1 .. Len(s) - 1 : before[k] = s[k]
  BY <1>2, <1>3, IsASeq, LenProperties
<1> HIDE DEF before
<1>5. ASSUME NEW u \in Seq(Block), Len(u) = Len(s), \A k \in 1 .. Len(s) - 1 : u[k] = s[k]
      PROVE  u = Append(before, u[Len(s)])
  <2>1. u[Len(s)] \in Block
    BY <1>1, <1>5, ElementOfSeq
  <2>2. /\ Append(before, u[Len(s)]) \in Seq(Block)
        /\ Len(Append(before, u[Len(s)])) = Len(s)
        /\ \A k \in 1 .. Len(s) - 1 : Append(before, u[Len(s)])[k] = before[k]
        /\ Append(before, u[Len(s)])[Len(s)] = u[Len(s)]
    BY <1>2, <1>4, <2>1, AppendProperties
  <2>3. \A k \in 1 .. Len(u) : u[k] = Append(before, u[Len(s)])[k]
    BY <1>2, <1>4, <1>5, <2>2
  <2> QED
    BY <1>5, <2>2, <2>3, SeqEqual
<1>6. s = Append(before, s[Len(s)]) /\ t = Append(before, t[Len(s)])
  BY <1>5
<1> QED
  BY <1>4, <1>6

LEMMA StoreValueMeans ==
    ASSUME StoreInv, CurrentInv, MeansSame(blocks, log),
           NEW operation \in {ADD, REMOVE}, NEW f0 \in Fields, NEW values \in SUBSET Strings,
           StoreValue(operation, f0, values)
    PROVE  CurrentInv' /\ MeansSame(blocks, log)'
<1> DEFINE b == CallBlock(operation, f0, values)
           old == Blocks(blocks)
           new == Blocks(blocks)'
<1>1. b \in Block
  BY NewBlockType DEF CallBlock
<1>2. /\ b.operation = operation /\ b.condition = Top
      /\ b.data[f0] = values
      /\ \A g \in Fields \ {f0} : b.data[g] = Nil
  BY CallBlockFacts
<1>3. /\ log \in Seq(Block) /\ log' = Append(log, b)
      /\ UNCHANGED conditions
  BY DEF StoreValue, CallBlock, StoreInv, TypeOK
<1>4. heap \in Seq(Block) /\ Len(heap) \in Nat /\ DOMAIN heap = 1 .. Len(heap) /\ blocks \in Seq(1 .. Len(heap))
  BY LenProperties DEF StoreInv, TypeOK
<1>5. heap' \in Seq(Block) /\ DOMAIN heap' = 1 .. Len(heap') /\ blocks' \in Seq(1 .. Len(heap'))
  BY StoreValueInv, LenProperties DEF StoreInv, TypeOK
<1>7. /\ old \in Seq(Block) /\ Len(old) = Len(blocks) /\ Len(blocks) \in Nat
      /\ \A n \in 1 .. Len(blocks) : old[n] = heap[blocks[n]] /\ blocks[n] \in 1 .. Len(heap)
  BY ListedBlocks DEF StoreInv, BlocksListed
<1>8. /\ new \in Seq(Block) /\ Len(new) = Len(blocks')
      /\ \A n \in 1 .. Len(blocks') : new[n] = heap'[blocks'[n]]
  BY ListedBlocksNext, StoreValueInv DEF StoreInv, BlocksListed
<1>9. Top' = Top
  BY <1>3 DEF Top
<1>10. ASSUME CurrentInv',
               \A f \in Fields, held \in SUBSET Condition :
                   ~(f \in StringFields /\ Removes(log', f))
                   => Meaning(new, held, f) = After(b, held, f, Meaning(old, held, f))
       PROVE  CurrentInv' /\ MeansSame(blocks, log)'
  <2>1. ASSUME NEW f \in Fields, NEW held \in SUBSET Condition, ~(f \in StringFields /\ Removes(log', f)),
               Meaning(new, held, f) = After(b, held, f, Meaning(old, held, f))
        PROVE  Meaning(new, held, f) = Meaning(log', held, f)
    <3>1. ~(f \in StringFields /\ Removes(log, f))
      BY <1>1, <1>3, <2>1, RemovesStays
    <3>2. Meaning(old, held, f) = Meaning(log, held, f)
      BY <3>1 DEF MeansSame
    <3>3. Meaning(log', held, f) = After(b, held, f, Meaning(log, held, f))
      BY <1>1, <1>3, AppendedMeaning
    <3> QED
      BY <2>1, <3>2, <3>3, Zenon
  <2> QED
    BY <1>10, <2>1 DEF MeansSame
<1> HIDE DEF b, old, new
<1>11. CASE Continues(operation)
  <2> DEFINE c == heap[currentBlock]
             d == [c EXCEPT !.data = Receive(@, f0, values)]
             m == Len(blocks)
  <2>1. /\ currentBlock # 0 /\ c.operation = operation
        /\ heap' = [heap EXCEPT ![currentBlock].data = Receive(@, f0, values)]
        /\ UNCHANGED <<blocks, currentBlock>>
    BY <1>11 DEF StoreValue, Continues
  <2>2. /\ blocks # <<>> /\ blocks[m] = currentBlock /\ c.condition = Top
        /\ \A n \in 1 .. m - 1 : blocks[n] # currentBlock
    BY <2>1 DEF CurrentInv
  <2>3. m \in 1 .. m /\ m - 1 \in Nat /\ \A n \in 1 .. m - 1 : n \in 1 .. m
    BY <1>4, <1>7, <2>2, EmptySeq
  <2>4. currentBlock \in 1 .. Len(heap)
    BY <1>7, <2>2, <2>3
  <2>5. c \in Block
    BY <1>4, <2>4, ElementOfSeq
  <2>6. heap'[currentBlock] = d /\ \A id \in 1 .. Len(heap) : id # currentBlock => heap'[id] = heap[id]
    BY <1>4, <2>1, <2>4
  <2>8. d.condition = Top /\ d \in Block
    BY <2>2, <2>5, ReceiveType DEF Block
  <2>0. /\ c = heap[currentBlock] /\ d = [c EXCEPT !.data = Receive(@, f0, values)]
        /\ m = Len(blocks) /\ blocks' = blocks
    BY <2>1
  <2> HIDE DEF c, d, m
  <2>7. old[m] = c /\ new[m] = d /\ \A n \in 1 .. m - 1 : new[n] = old[n]
    <3>1. \A n \in 1 .. m : old[n] = heap[blocks[n]] /\ blocks[n] \in 1 .. Len(heap)
      BY <1>7, <2>0
    <3>2. \A n \in 1 .. m : new[n] = heap'[blocks[n]]
      BY <1>8, <2>0
    <3> QED
      BY <2>0, <2>2, <2>3, <2>6, <3>1, <3>2
  <2>9. CurrentInv'
    BY <1>9, <2>1, <2>2, <2>6, <2>8 DEF CurrentInv
  <2>10. ASSUME NEW f \in Fields, NEW held \in SUBSET Condition, ~(f \in StringFields /\ Removes(log', f))
         PROVE  Meaning(new, held, f) = After(b, held, f, Meaning(old, held, f))
    <3>1. old # <<>> /\ Len(old) = m /\ Len(new) = m
      BY <1>7, <1>8, <2>0, <2>2, EmptySeq
    <3>2. PICK before \in Seq(Block) : old = Append(before, c) /\ new = Append(before, d)
      <4>1. \E before \in Seq(Block) : old = Append(before, old[Len(old)]) /\ new = Append(before, new[Len(old)])
        BY <1>7, <1>8, <2>7, <3>1, AllButLast, Zenon
      <4> QED
        BY <2>7, <3>1, <4>1
    <3>3. /\ Meaning(old, held, f) = After(c, held, f, Meaning(before, held, f))
          /\ Meaning(new, held, f) = After(d, held, f, Meaning(before, held, f))
      BY <2>5, <2>8, <3>2, AppendedMeaning
    <3>4. ~(f \in StringFields /\ f = f0 /\ c.operation = REMOVE)
      <4>1. values # Nil
        BY FieldsAssumption
      <4> QED
        BY <1>1, <1>2, <1>3, <2>1, <2>10, <4>1, RemovesStays
    <3>6. After(d, held, f, Meaning(before, held, f))
             = After(b, held, f, After(c, held, f, Meaning(before, held, f)))
      <4>1. Merged(b, c, d, f0, values)
        BY <1>2, <2>0, <2>1, <2>2, <2>5 DEF Merged
      <4> QED
        BY <3>4, <4>1, MergedMeaning
    <3> QED
      BY <3>3, <3>6
  <2> QED
    BY <1>10, <2>9, <2>10
<1>12. CASE ~Continues(operation)
  <2> DEFINE m == Len(blocks)
             id == Len(heap) + 1
  <2>1. heap' = Append(heap, b) /\ blocks' = Append(blocks, id) /\ currentBlock' = id
    BY <1>12 DEF StoreValue, NewIndex, b, CallBlock
  <2>2. Len(heap') = id /\ heap'[id] = b /\ \A k \in 1 .. Len(heap) : heap'[k] = heap[k]
    BY <1>1, <1>4, <2>1, AppendProperties
  <2>3. blocks \in Seq(Nat) /\ id \in Nat
    BY <1>4, SeqMonotonic, 1 .. Len(heap) \subseteq Nat
  <2>4. Len(blocks') = m + 1 /\ blocks'[m + 1] = id /\ \A n \in 1 .. m : blocks'[n] = blocks[n]
    BY <2>1, <2>3, AppendProperties
  <2>5. /\ m \in Nat /\ m + 1 \in 1 .. m + 1 /\ (m + 1) - 1 = m
        /\ \A n \in 1 .. m : n \in 1 .. m + 1
        /\ \A n \in 1 .. m + 1 : n \in 1 .. m \/ n = m + 1
    BY <1>7
  <2>6. CurrentInv'
    <3>1. blocks' # <<>>
      BY <2>4, <2>5, EmptySeq, <1>5
    <3>2. \A n \in 1 .. m : blocks'[n] # id
      BY <1>4, <1>7, <2>4
    <3>3. heap'[currentBlock'].condition = Top'
      BY <1>2, <1>9, <2>1, <2>2
    <3> QED
      BY <2>1, <2>4, <2>5, <3>1, <3>2, <3>3 DEF CurrentInv
  <2>7. new = Append(old, b)
    <3>1. /\ Append(old, b) \in Seq(Block) /\ Len(Append(old, b)) = m + 1
          /\ Append(old, b)[m + 1] = b /\ \A n \in 1 .. m : Append(old, b)[n] = old[n]
      BY <1>1, <1>7, AppendProperties
    <3>2. new[m + 1] = b
      BY <1>8, <2>2, <2>4, <2>5
    <3>3. ASSUME NEW n \in 1 .. m
          PROVE  new[n] = old[n]
      BY <1>7, <1>8, <2>2, <2>4, <2>5
    <3>4. \A n \in 1 .. Len(new) : new[n] = Append(old, b)[n]
      BY <1>8, <2>4, <2>5, <3>1, <3>2, <3>3
    <3> QED
      BY <1>8, <2>4, <3>1, <3>4, SeqEqual
  <2> QED
    BY <1>1, <1>7, <1>10, <2>6, <2>7, AppendedMeaning
<1> QED
  BY <1>11, <1>12

-----------------------------------------------------------------------------
\* What the snapshots hold means what the calls before them meant.
SnapshotsMean ==
    \A n \in DOMAIN snapshots : MeansSame(snapshots[n].blocks, snapshots[n].log)

\* After a test the block in use may be one of that test: the hook before the next one leaves
\* it.
MeaningInv ==
    /\ MeansSame(blocks, log)
    /\ SnapshotsMean
    /\ phase \in {"startup", "script", "test"} => CurrentInv

LEMMA CallMeans ==
    ASSUME StoreInv, CurrentInv, MeansSame(blocks, log), Call
    PROVE  CurrentInv' /\ MeansSame(blocks, log)'
<1>1. ASSUME UNCHANGED <<heap, blocks, log>>, currentBlock' = 0
      PROVE  CurrentInv' /\ MeansSame(blocks, log)'
  BY <1>1 DEF CurrentInv, MeansSame, Meaning, Blocks, Removes
<1>2. CASE \E clauses \in Clauses : PushCondition(clauses)
  BY <1>1, <1>2 DEF PushCondition
<1>3. CASE PopCondition
  BY <1>1, <1>3 DEF PopCondition
<1>4. ASSUME NEW given \in Given,
             AddValue(given[1], given[2]) \/ RemoveValue(given[1], given[2])
      PROVE  CurrentInv' /\ MeansSame(blocks, log)'
  <2>1. given[1] \in Fields /\ given[2] \in SUBSET Strings
    BY StoreAssumption
  <2>2. PICK operation \in {ADD, REMOVE} : StoreValue(operation, given[1], given[2])
    BY <1>4 DEF AddValue, RemoveValue
  <2> QED
    BY <2>1, <2>2, StoreValueMeans
<1> QED
  BY <1>2, <1>3, <1>4 DEF Call

\* Blocks that a snapshot holds keep their meaning.
LEMMA SnapshotsStillMean ==
    ASSUME StoreInv, FrozenStep, UNCHANGED snapshots, SnapshotsMean
    PROVE  SnapshotsMean'
<1>1. ASSUME NEW n \in DOMAIN snapshots
      PROVE  MeansSame(snapshots[n].blocks, snapshots[n].log)'
  BY SameBlocks DEF MeansSame, SnapshotsMean
<1> QED
  BY <1>1 DEF SnapshotsMean

LEMMA MeaningInit == RunInit => MeaningInv
<1> SUFFICES ASSUME RunInit
             PROVE  MeaningInv
  OBVIOUS
<1>1. Blocks(<<>>) = <<>>
  BY DEF Blocks
<1> QED
  BY <1>1 DEF RunInit, StoreInit, MeaningInv, SnapshotsMean, MeansSame, CurrentInv

LEMMA MeaningStep == RunInv /\ MeaningInv /\ [RunNext]_runVars => MeaningInv'
<1> SUFFICES ASSUME RunInv, MeaningInv, [RunNext]_runVars
             PROVE  MeaningInv'
  OBVIOUS
<1>1. CASE UNCHANGED runVars
  BY <1>1 DEF runVars, vars, MeaningInv, SnapshotsMean, CurrentInv, MeansSame, Meaning, Blocks,
              Removes, Top
<1>2. CASE SnapshotStateForTesting
  <2>1. /\ snapshots' = <<TakeSnapshot>> /\ UNCHANGED <<heap, blocks, log>>
        /\ currentBlock' = 0
    BY <1>2 DEF RunInv, PhaseInv, SnapshotStateForTesting, Snapshot
  <2>2. MeansSame(blocks, log)' /\ CurrentInv'
    BY <2>1 DEF MeaningInv, CurrentInv, MeansSame, Meaning, Blocks, Removes
  <2>3. SnapshotsMean'
    BY <2>1, <2>2 DEF SnapshotsMean, TakeSnapshot, MeansSame, Blocks
  <2> QED
    BY <2>2, <2>3 DEF MeaningInv
<1>3. CASE ScriptCall
  <2>1. CurrentInv' /\ MeansSame(blocks, log)'
    BY <1>3, CallMeans DEF RunInv, MeaningInv, ScriptCall
  <2>2. FrozenStep /\ UNCHANGED snapshots
    BY <1>3, CallIsScriptStep, CallInv, CallFrozen DEF RunInv, ScriptCall
  <2> QED
    BY <2>1, <2>2, SnapshotsStillMean DEF RunInv, MeaningInv
<1>4. CASE FinishScript
  BY <1>4 DEF FinishScript, vars, MeaningInv, SnapshotsMean, MeansSame, Meaning, Blocks, Removes
<1>5. CASE BeforeTest
  <2>1. /\ snapshots' = <<snapshots[1], TakeSnapshot>> /\ UNCHANGED heap
        /\ blocks' = snapshots[1].blocks /\ log' = snapshots[1].log
        /\ 1 \in DOMAIN snapshots /\ currentBlock' = 0
    BY <1>5 DEF RunInv, PhaseInv, BeforeTest, NoCurrentBlock, RestoreTestState, TestStateSnapshot
  <2>2. MeansSame(blocks, log)' /\ MeansSame(snapshots[1].blocks, snapshots[1].log)
    BY <2>1 DEF MeaningInv, SnapshotsMean, MeansSame, Meaning, Blocks, Removes
  <2>3. SnapshotsMean'
    <3>1. ASSUME NEW n \in DOMAIN snapshots'
          PROVE  snapshots'[n] \in {snapshots[1], TakeSnapshot}
      BY <2>1
    <3> QED
      BY <2>1, <2>2, <3>1 DEF SnapshotsMean, MeaningInv, TakeSnapshot, MeansSame, Blocks
  <2> QED
    BY <2>1, <2>2, <2>3 DEF MeaningInv, CurrentInv
<1>6. CASE TestCall
  <2>1. CurrentInv' /\ MeansSame(blocks, log)'
    BY <1>6, CallMeans DEF RunInv, MeaningInv, TestCall
  <2>2. FrozenStep /\ UNCHANGED snapshots
    BY <1>6, CallIsScriptStep, CallInv, CallFrozen DEF RunInv, TestCall
  <2> QED
    BY <2>1, <2>2, SnapshotsStillMean DEF RunInv, MeaningInv
<1>7. CASE AfterTest
  <2>1. /\ 2 \in DOMAIN snapshots /\ UNCHANGED <<heap, snapshots>> /\ phase' = "between"
        /\ blocks' = snapshots[2].blocks /\ log' = snapshots[2].log
    BY <1>7 DEF RunInv, PhaseInv, AfterTest, HookSnapshot, Rollback
  <2>2. MeansSame(blocks, log)' /\ SnapshotsMean'
    BY <2>1 DEF MeaningInv, SnapshotsMean, MeansSame, Meaning, Blocks, Removes
  <2> QED
    BY <2>1, <2>2 DEF MeaningInv
<1> QED
  BY <1>1, <1>2, <1>3, <1>4, <1>5, <1>6, <1>7 DEF RunNext

\* Collecting the calls of scripts and tests into blocks changes nothing, whatever they call
\* and in whatever order: every value that the calls leave one by one the blocks leave, and
\* no other, whichever conditions come to hold.
THEOREM BlocksMean == RunSpec => []BlocksMeanCalls
<1>1. RunInv /\ MeaningInv => BlocksMeanCalls
  <2> SUFFICES ASSUME RunInv, MeaningInv
               PROVE  BlocksMeanCalls
    OBVIOUS
  <2>1. Blocks(blocks) \in Seq(Block) /\ log \in Seq(Block)
    BY ListedBlocks DEF RunInv, StoreInv, TypeOK, BlocksListed
  <2>2. \A ops \in Seq(Block) : \A n \in DOMAIN ops : ops[n] \in Block
    BY LenProperties, ElementOfSeq
  <2>3. ConditionsOf(Blocks(blocks)) \cup ConditionsOf(log) \subseteq Condition
    BY <2>1, <2>2 DEF ConditionsOf, Block
  <2> QED
    BY <2>3 DEF BlocksMeanCalls, SameMeaning, MeaningInv, MeansSame
<1> QED
  BY <1>1, RunInvariant, MeaningInit, MeaningStep, PTL DEF RunSpec
=============================================================================
