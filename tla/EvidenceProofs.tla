--------------------------- MODULE EvidenceProofs ---------------------------
(***************************************************************************)
(* What is charged to a run and shown of it, for every value of the        *)
(* constants: of the files, the trace, the frames, the grading, the prompt *)
(* and the memory an invariant that every step of their own keeps.  Their  *)
(* operators walk through sets and sequences, so each comes with what one  *)
(* element more does to it.                                                *)
(***************************************************************************)
EXTENDS MCRecords, FiniteSetTheorems, SequenceTheorems, TLAPS

-----------------------------------------------------------------------------
(* The parts side by side: a part at rest stays as it was, so each part's    *)
(* own invariant is the records'.                                            *)

LEMMA PartsRest ==
  ASSUME [RecordsNext]_recordsVars
  PROVE  /\ [WorkspaceFilesNext]_WorkspaceFilesVars /\ [TraceNext]_TraceVars
         /\ [SseNext]_SseVars /\ [GradingNext]_GradingVars
         /\ [ContextNext]_ContextVars /\ [MemoryNext]_MemoryVars
<1>1. CASE UNCHANGED recordsVars
  BY <1>1 DEF recordsVars
<1>2. CASE RecordsNext
  <2>1. OthersRest
    BY <1>2 DEF RecordsNext, PathsMove, LogMoves, EventsMove, DriversMove,
       CheckpointsMove, SnapshotMoves, ReplayMoves, FilesMove, TraceMoves, ContextMoves, MemoryMoves,
       RegistryMoves, AccessMoves, FramesMove, GradingMoves
  <2>2. /\ part = "files" => WorkspaceFilesNext
        /\ part = "trace" => TraceNext
        /\ part = "frames" => SseNext
        /\ part = "grading" => GradingNext
        /\ part = "context" => ContextNext
        /\ part = "memory" => MemoryNext
    BY <1>2 DEF RecordsNext, PathsMove, LogMoves, EventsMove, DriversMove,
       CheckpointsMove, SnapshotMoves, ReplayMoves, FilesMove, TraceMoves, ContextMoves, MemoryMoves,
       RegistryMoves, AccessMoves, FramesMove, GradingMoves
  <2> QED BY <2>1, <2>2 DEF OthersRest, Rests
<1> QED BY <1>1, <1>2

\* Of some numbers there is a least one.
LEMMA LeastOf ==
  ASSUME NEW some \in SUBSET Nat, some # {}
  PROVE  \E i \in some : \A j \in some : i <= j
<1>1. \E i \in some : \A j \in some : ~(<<j, i>> \in OpToRel(<, Nat))
  BY NatLessThanWellFounded, WFMin
<1>2. PICK i \in some : \A j \in some : ~(<<j, i>> \in OpToRel(<, Nat))
  BY <1>1
<1>3. ASSUME NEW j \in some
      PROVE  i <= j
  <2>1. i \in Nat /\ j \in Nat
    BY <1>2
  <2>2. ~(j < i)
    BY <1>2, <2>1 DEF OpToRel
  <2> QED BY <2>1, <2>2
<1> QED BY <1>3

\* What holds of the empty set, and of a set whenever it holds of it without the
\* element picked from it, holds of every subset of a finite set.
LEMMA PickedOneByOne ==
  ASSUME NEW S, IsFiniteSet(S), NEW good, NEW pick, {} \in good,
         \A s \in SUBSET S : s # {} => pick[s] \in s /\ (s \ {pick[s]} \in good => s \in good)
  PROVE  S \in good
<1> DEFINE bad == {s \in SUBSET S : s \notin good}
           sizes == {Cardinality(s) : s \in bad}
<1>1. \A s \in SUBSET S : IsFiniteSet(s) /\ Cardinality(s) \in Nat
  BY FS_Subset, FS_CardinalityType
<1>2. ASSUME bad # {} PROVE FALSE
  <2>1. sizes \in SUBSET Nat /\ sizes # {}
    BY <1>1, <1>2
  <2>2. PICK n \in sizes : \A m \in sizes : n <= m
    BY <2>1, LeastOf
  <2>3. PICK s \in bad : Cardinality(s) = n
    BY <2>2
  <2>4. s \in SUBSET S /\ s # {} /\ s \notin good
    BY <2>3
  <2>5. pick[s] \in s /\ s \ {pick[s]} \in bad
    BY <2>4
  <2>6. Cardinality(s \ {pick[s]}) = Cardinality(s) - 1
    BY <2>4, <2>5, <1>1, FS_RemoveElement
  <2>7. Cardinality(s \ {pick[s]}) \in sizes
    BY <2>5
  <2>8. n <= Cardinality(s \ {pick[s]})
    BY <2>2, <2>7
  <2>9. Cardinality(s) \in Nat
    BY <2>4, <1>1
  <2> HIDE DEF bad, sizes
  <2> QED BY <2>3, <2>6, <2>8, <2>9
<1> QED BY <1>2

-----------------------------------------------------------------------------
(* Storage: the files' bytes one by one.                                      *)

\* The bytes of some files: to sum up their sizes is to count them.
SizeIn(size, f) == IF size[f] # Missing THEN size[f] ELSE 0
BytesOf(size, those) == {b \in those \X (1..MaxFileSize) : b[2] <= SizeIn(size, b[1])}

Sizes == [WorkspaceFile -> Missing..MaxFileSize]

\* What BytesIn comes to when the files have those sizes.
SumOver(size, those) ==
  MapThenFoldSet(+, 0, LAMBDA f : SizeIn(size, f), LAMBDA S : CHOOSE f \in S : TRUE, those)

LEMMA SizeIsNat ==
  ASSUME NEW size \in Sizes, NEW f \in WorkspaceFile
  PROVE  SizeIn(size, f) \in 0..MaxFileSize
BY WorkspaceFilesAssumption DEF Sizes, SizeIn, Missing

LEMMA BytesAreFinite ==
  ASSUME NEW size, NEW those \in SUBSET WorkspaceFile
  PROVE  /\ IsFiniteSet(BytesOf(size, those)) /\ Cardinality(BytesOf(size, those)) \in Nat
<1>1. IsFiniteSet(those)
  BY WorkspaceFilesAssumption, FS_Subset
<1>2. IsFiniteSet(1..MaxFileSize)
  BY WorkspaceFilesAssumption, FS_Interval
<1>3. IsFiniteSet(those \X (1..MaxFileSize))
  BY <1>1, <1>2, FS_Product
<1>4. BytesOf(size, those) \subseteq those \X (1..MaxFileSize)
  BY DEF BytesOf
<1> QED BY <1>3, <1>4, FS_Subset, FS_CardinalityType

\* Of two groups that share no file, the bytes are those of both.
LEMMA BytesOfBoth ==
  ASSUME NEW size, NEW some \in SUBSET WorkspaceFile, NEW others \in SUBSET WorkspaceFile, some \cap others = {}
  PROVE  Cardinality(BytesOf(size, some \cup others)) = Cardinality(BytesOf(size, some)) + Cardinality(BytesOf(size, others))
<1>1. BytesOf(size, some \cup others) = BytesOf(size, some) \cup BytesOf(size, others)
  BY DEF BytesOf
<1>2. BytesOf(size, some) \cap BytesOf(size, others) = {}
  BY DEF BytesOf
<1>3. /\ IsFiniteSet(BytesOf(size, some)) /\ IsFiniteSet(BytesOf(size, others))
      /\ Cardinality(BytesOf(size, some)) \in Nat /\ Cardinality(BytesOf(size, others)) \in Nat
  BY BytesAreFinite
<1>4. Cardinality(BytesOf(size, some) \cap BytesOf(size, others)) = 0
  BY <1>2, FS_EmptySet
<1>5. Cardinality(BytesOf(size, some) \cup BytesOf(size, others)) =
        Cardinality(BytesOf(size, some)) + Cardinality(BytesOf(size, others)) - Cardinality(BytesOf(size, some) \cap BytesOf(size, others))
  BY <1>3, FS_Union
<1>6. Cardinality(BytesOf(size, some \cup others)) =
        Cardinality(BytesOf(size, some)) + Cardinality(BytesOf(size, others)) - Cardinality(BytesOf(size, some) \cap BytesOf(size, others))
  BY <1>1, <1>5
<1> QED BY <1>3, <1>4, <1>6

LEMMA BytesOfOne ==
  ASSUME NEW size \in Sizes, NEW f \in WorkspaceFile
  PROVE  Cardinality(BytesOf(size, {f})) = SizeIn(size, f)
<1>1. SizeIn(size, f) \in 0..MaxFileSize
  BY SizeIsNat
<1> DEFINE pair == [n \in 1..SizeIn(size, f) |-> <<f, n>>]
<1>2. pair \in Bijection(1..SizeIn(size, f), BytesOf(size, {f}))
  <2>1. \A n \in 1..SizeIn(size, f) : pair[n] \in BytesOf(size, {f})
    BY <1>1, WorkspaceFilesAssumption DEF BytesOf
  <2>2. \A m, n \in 1..SizeIn(size, f) : pair[m] = pair[n] => m = n
    OBVIOUS
  <2>3. ASSUME NEW b \in BytesOf(size, {f}) PROVE \E n \in 1..SizeIn(size, f) : pair[n] = b
    <3>1. b = <<f, b[2]>> /\ b[2] \in 1..SizeIn(size, f)
      BY <2>3, <1>1, WorkspaceFilesAssumption DEF BytesOf
    <3> QED BY <3>1
  <2>4. pair \in [1..SizeIn(size, f) -> BytesOf(size, {f})]
    BY <2>1
  <2> HIDE DEF pair
  <2>5. pair \in Injection(1..SizeIn(size, f), BytesOf(size, {f}))
    BY <2>2, <2>4 DEF Injection, IsInjective
  <2>6. pair \in Surjection(1..SizeIn(size, f), BytesOf(size, {f}))
    BY <2>3, <2>4 DEF Surjection
  <2> QED BY <2>5, <2>6 DEF Bijection
<1>3. ExistsBijection(1..SizeIn(size, f), BytesOf(size, {f}))
  BY <1>2 DEF ExistsBijection
<1>4. SizeIn(size, f) \in Nat
  BY <1>1, WorkspaceFilesAssumption
<1> QED BY <1>3, <1>4, FS_CountingElements

\* freedBytes and the sum of all sizes, which go through the files one by one,
\* come to the number of their bytes.
LEMMA SumOfSizes ==
  ASSUME NEW size \in Sizes, NEW those \in SUBSET WorkspaceFile
  PROVE  SumOver(size, those) = Cardinality(BytesOf(size, those))
<1> DEFINE first(s) == CHOOSE f \in s : TRUE
           sums(it) == [s \in SUBSET those |-> IF s = {} THEN 0 ELSE SizeIn(size, first(s)) + it[s \ {first(s)}]]
           sum == CHOOSE it : it = sums(it)
           count == [s \in SUBSET those |-> Cardinality(BytesOf(size, s))]
           pick == [s \in SUBSET those |-> first(s)]
<1>1. SumOver(size, those) = sum[those]
  BY DEF SumOver, MapThenFoldSet
<1>2. \A s \in SUBSET those : s # {} => first(s) \in s
  OBVIOUS
<1>3. ASSUME NEW s \in SUBSET those, s # {}
      PROVE  count[s] = SizeIn(size, first(s)) + count[s \ {first(s)}]
  <2> HIDE DEF first
  <2>1. first(s) \in s /\ first(s) \in WorkspaceFile
    BY <1>2, <1>3
  <2>2. s = {first(s)} \cup (s \ {first(s)}) /\ {first(s)} \cap (s \ {first(s)}) = {}
    BY <2>1
  <2>3. Cardinality(BytesOf(size, {first(s)} \cup (s \ {first(s)}))) =
          Cardinality(BytesOf(size, {first(s)})) + Cardinality(BytesOf(size, s \ {first(s)}))
    BY <2>1, <2>2, BytesOfBoth
  <2>4. Cardinality(BytesOf(size, {first(s)})) = SizeIn(size, first(s))
    BY <2>1, BytesOfOne
  <2> QED BY <2>2, <2>3, <2>4
<1>4. count[{}] = 0
  <2>1. BytesOf(size, {}) = {}
    BY DEF BytesOf
  <2> QED BY <2>1, FS_EmptySet
<1> HIDE DEF first, count
<1>5. count = sums(count)
  <2>1. count = [s \in SUBSET those |-> count[s]]
    BY DEF count
  <2>2. \A s \in SUBSET those : count[s] = sums(count)[s]
    BY <1>3, <1>4
  <2> QED BY <2>1, <2>2
<1>6. sum = sums(sum)
  BY <1>5
<1> HIDE DEF sum
<1>7. sum[those] = count[those]
  <2> DEFINE good == {s \in SUBSET those : sum[s] = count[s]}
  <2>1. IsFiniteSet(those)
    BY WorkspaceFilesAssumption, FS_Subset
  <2>2. {} \in good
    BY <1>4, <1>6
  <2>3. ASSUME NEW s \in SUBSET those, s # {}
        PROVE  pick[s] \in s /\ (s \ {pick[s]} \in good => s \in good)
    <3>1. pick[s] = first(s) /\ first(s) \in s
      BY <1>2, <2>3
    <3>2. sum[s] = SizeIn(size, first(s)) + sum[s \ {first(s)}]
      BY <1>6, <2>3
    <3> QED BY <3>1, <3>2, <1>3, <2>3
  <2>4. \A s \in SUBSET those : s # {} => pick[s] \in s /\ (s \ {pick[s]} \in good => s \in good)
    BY <2>3
  <2> HIDE DEF good, pick
  <2>5. those \in good
    BY <2>1, <2>2, <2>4, PickedOneByOne
  <2> QED BY <2>5 DEF good
<1> QED BY <1>1, <1>7 DEF count

LEMMA BytesInIsASum ==
  ASSUME NEW those
  PROVE  BytesIn(those) = SumOver(fileSize, those)
BY DEF BytesIn, SumOver, SizeOf, Exists, SizeIn

LEMMA UsedIsASum ==
  /\ Used = SumOver(fileSize, WorkspaceFile)
  /\ Used' = SumOver(fileSize', WorkspaceFile)
<1>1. Used = SumOver(fileSize, WorkspaceFile)
  BY BytesInIsASum DEF Used
<1>2. Used' = SumOver(fileSize', WorkspaceFile)
  BY Zenon DEF Used, BytesIn, SumOver, SizeOf, Exists, SizeIn, MapThenFoldSet
<1> QED BY <1>1, <1>2

LEMMA SumIsNat ==
  ASSUME NEW size \in Sizes, NEW those \in SUBSET WorkspaceFile
  PROVE  SumOver(size, those) \in Nat
BY SumOfSizes, BytesAreFinite

\* Where only some files change, only their share of the sum does.
LEMMA SumOfTheRest ==
  ASSUME NEW size \in Sizes, NEW after \in Sizes, NEW those \in SUBSET WorkspaceFile,
         \A g \in WorkspaceFile \ those : after[g] = size[g]
  PROVE  SumOver(after, WorkspaceFile) =
           SumOver(size, WorkspaceFile) - SumOver(size, those) + SumOver(after, those)
<1> DEFINE rest == WorkspaceFile \ those
<1>1. BytesOf(after, rest) = BytesOf(size, rest)
  BY DEF BytesOf, SizeIn
<1>2. rest \in SUBSET WorkspaceFile /\ WorkspaceFile = those \cup rest /\ those \cap rest = {}
  OBVIOUS
<1> HIDE DEF rest
<1>3. /\ Cardinality(BytesOf(size, those \cup rest)) =
           Cardinality(BytesOf(size, those)) + Cardinality(BytesOf(size, rest))
      /\ Cardinality(BytesOf(after, those \cup rest)) =
           Cardinality(BytesOf(after, those)) + Cardinality(BytesOf(after, rest))
  BY <1>2, BytesOfBoth
<1>4. /\ SumOver(size, WorkspaceFile) = SumOver(size, those) + SumOver(size, rest)
      /\ SumOver(after, WorkspaceFile) = SumOver(after, those) + SumOver(after, rest)
      /\ SumOver(after, rest) = SumOver(size, rest)
  BY <1>1, <1>2, <1>3, SumOfSizes
<1>5. /\ SumOver(size, those) \in Nat /\ SumOver(size, rest) \in Nat /\ SumOver(after, those) \in Nat
      /\ SumOver(size, WorkspaceFile) \in Nat /\ SumOver(after, WorkspaceFile) \in Nat
  BY <1>2, SumIsNat
<1> QED BY <1>4, <1>5

LEMMA SumOfOne ==
  ASSUME NEW size \in Sizes, NEW f \in WorkspaceFile
  PROVE  SumOver(size, {f}) = SizeIn(size, f)
BY SumOfSizes, BytesOfOne

\* Where the files are gone, nothing of them is left.
LEMMA SumOfNone ==
  ASSUME NEW size \in Sizes, NEW those \in SUBSET WorkspaceFile, \A f \in those : size[f] = Missing
  PROVE  SumOver(size, those) = 0
<1>1. BytesOf(size, those) = {}
  BY DEF BytesOf, SizeIn
<1> QED BY <1>1, SumOfSizes, FS_EmptySet

\* Of what is charged and owed, a call changes as much as it changes of the files
\* or more, and it adds at most one file's size to them.
IsCharged(size, after, persisted) ==
  /\ after \in Sizes /\ persisted \in Int
  /\ SumOver(after, WorkspaceFile) <= SumOver(size, WorkspaceFile) + persisted
  /\ SumOver(after, WorkspaceFile) <= SumOver(size, WorkspaceFile) + MaxFileSize

LEMMA OneFileCharged ==
  ASSUME NEW size \in Sizes, NEW f \in WorkspaceFile, NEW bytes \in 0..MaxFileSize, NEW persisted \in Int,
         bytes - SizeIn(size, f) <= persisted
  PROVE  IsCharged(size, [size EXCEPT ![f] = bytes], persisted)
<1> DEFINE after == [size EXCEPT ![f] = bytes]
<1>1. after \in Sizes
  BY WorkspaceFilesAssumption DEF Sizes, Missing
<1>2. \A g \in WorkspaceFile \ {f} : after[g] = size[g]
  BY DEF Sizes
<1>3. after[f] = bytes
  BY DEF Sizes
<1>4. SizeIn(after, f) = bytes
  BY <1>3, WorkspaceFilesAssumption DEF SizeIn, Missing
<1> HIDE DEF after
<1>5. SumOver(after, WorkspaceFile) =
        SumOver(size, WorkspaceFile) - SumOver(size, {f}) + SumOver(after, {f})
  BY <1>1, <1>2, SumOfTheRest
<1>6. SumOver(size, {f}) = SizeIn(size, f) /\ SumOver(after, {f}) = bytes
  BY <1>1, <1>4, SumOfOne
<1>7. SumOver(size, WorkspaceFile) \in Nat /\ SizeIn(size, f) \in 0..MaxFileSize /\ MaxFileSize \in Nat
  BY SumIsNat, SizeIsNat, WorkspaceFilesAssumption
<1>8. IsCharged(size, after, persisted)
  BY <1>1, <1>5, <1>6, <1>7 DEF IsCharged
<1> QED BY <1>8 DEF after

-----------------------------------------------------------------------------
StorageInv ==
  /\ WorkspaceFilesTypeOK
  /\ ~overBudget => ~OverBudget(storageSaved)
  /\ ~Saved => owed = 0 /\ batchLeft = BatchActions
  /\ StorageIsCharged

LEMMA StorageStarts == WorkspaceFilesInit => StorageInv
<1> SUFFICES ASSUME WorkspaceFilesInit PROVE StorageInv
  OBVIOUS
<1>0. {MaxFileSize, StorageLimit, BatchActions, MaxFileDeaths} \subseteq Nat
  BY WorkspaceFilesAssumption
<1>a. {overBudget, seesAll} \subseteq BOOLEAN
  BY Zenon DEF WorkspaceFilesInit
<1>b. fileSize \in [WorkspaceFile -> Missing..MaxFileSize]
  BY <1>0 DEF WorkspaceFilesInit, Missing
<1>1. WorkspaceFilesTypeOK
  BY <1>0, <1>a, <1>b DEF WorkspaceFilesInit, WorkspaceFilesTypeOK
<1>2. fileSize \in Sizes /\ \A f \in WorkspaceFile : fileSize[f] = Missing
  BY <1>1 DEF WorkspaceFilesTypeOK, Sizes, WorkspaceFilesInit
<1>3. Used = 0
  BY <1>2, SumOfNone, BytesInIsASum DEF Used
<1>4. ~OverBudget(0)
  BY WorkspaceFilesAssumption DEF OverBudget
<1> QED BY <1>1, <1>3, <1>4, WorkspaceFilesAssumption
     DEF WorkspaceFilesInit, StorageInv, StorageIsCharged, Saved, OverBudget

LEMMA CallIsCharged ==
  ASSUME StorageInv, NEW those, NEW persisted, ToolCall(those, persisted),
         IsCharged(fileSize, those, persisted)
  PROVE  StorageInv'
<1>1. /\ batchLeft \in 1..BatchActions /\ batchLeft' = batchLeft - 1 /\ owed' = owed + persisted
      /\ owed \in Int /\ storageBytes \in Nat /\ storageSaved \in Nat /\ persisted \in Int
      /\ MaxFileSize \in Nat /\ BatchActions \in Nat /\ StorageLimit \in Nat
  BY WorkspaceFilesAssumption DEF ToolCall, StorageInv, WorkspaceFilesTypeOK, IsCharged
<1>2. UNCHANGED LoopVars /\ Saved /\ Saved'
  BY DEF ToolCall, LoopVars, Saved
<1>3. WorkspaceFilesTypeOK'
  BY <1>1, <1>2 DEF StorageInv, WorkspaceFilesTypeOK, LoopVars, ToolCall, IsCharged, Sizes
<1>4. /\ Used = SumOver(fileSize, WorkspaceFile) /\ Used' = SumOver(fileSize', WorkspaceFile)
  BY UsedIsASum
<1>5. Used' <= Used + persisted /\ Used' <= Used + MaxFileSize /\ Used \in Nat /\ Used' \in Nat
  <2>1. fileSize \in Sizes /\ fileSize' \in Sizes
    BY <1>3 DEF StorageInv, WorkspaceFilesTypeOK, Sizes
  <2>2. fileSize' = those
    BY DEF ToolCall
  <2> QED BY <1>4, <2>1, <2>2, SumIsNat DEF IsCharged
<1>6. StorageIsCharged'
  <2> SUFFICES ASSUME seesAll' PROVE StorageIsCharged!2'
    BY DEF StorageIsCharged
  <2> DEFINE limit == IF StorageLimit = 0 THEN 1 ELSE StorageLimit
  <2>1. Used <= storageBytes + owed /\ Used < limit + (BatchActions - batchLeft) * MaxFileSize
    <3>1. (IF Saved THEN 0 ELSE BatchActions * MaxFileSize) = 0
      BY <1>2
    <3>2. seesAll /\ StorageIsCharged
      BY <1>2 DEF StorageInv, LoopVars
    <3>3. /\ Used <= storageBytes + owed
          /\ Used < limit + (BatchActions - batchLeft) * MaxFileSize + 0
      BY <3>1, <3>2 DEF StorageIsCharged
    <3>4. limit + (BatchActions - batchLeft) * MaxFileSize + 0 = limit + (BatchActions - batchLeft) * MaxFileSize
      BY <1>1
    <3> QED BY <3>3, <3>4
  <2>2. (BatchActions - batchLeft') * MaxFileSize = (BatchActions - batchLeft) * MaxFileSize + MaxFileSize
    BY <1>1
  <2>3. (BatchActions - batchLeft) * MaxFileSize \in Nat
    BY <1>1
  <2>4. limit \in Nat
    BY <1>1
  <2> HIDE DEF limit
  <2>5. Used' < limit + (BatchActions - batchLeft') * MaxFileSize
    BY <1>1, <1>5, <2>1, <2>2, <2>3, <2>4
  <2>6. Used' <= storageBytes' + owed'
    BY <1>1, <1>2, <1>5, <2>1 DEF LoopVars
  <2>7. (IF Saved THEN 0 ELSE BatchActions * MaxFileSize)' = 0
    BY <1>2
  <2>8. limit + (BatchActions - batchLeft') * MaxFileSize + 0 = limit + (BatchActions - batchLeft') * MaxFileSize
    BY <1>1, <2>4
  <2> QED BY <2>5, <2>6, <2>7, <2>8 DEF limit
<1> QED BY <1>2, <1>3, <1>6 DEF StorageInv, LoopVars, OverBudget

LEMMA SizesAreSizes ==
  ASSUME WorkspaceFilesTypeOK
  PROVE  fileSize \in Sizes
BY DEF WorkspaceFilesTypeOK, Sizes

\* A call of a tool leaves the files, the batch and what it reports as IsCharged asks.
LEMMA WritesAreCharged ==
  ASSUME StorageInv, NEW f \in WorkspaceFile, WriteFile(f) \/ EditFile(f)
  PROVE  StorageInv'
<1>1. fileSize \in Sizes /\ SizeIn(fileSize, f) = SizeOf(f) /\ SizeOf(f) \in 0..MaxFileSize /\ MaxFileSize \in Nat
  BY SizesAreSizes, SizeIsNat, WorkspaceFilesAssumption DEF StorageInv, SizeIn, SizeOf, Exists
<1>2. CASE WriteFile(f)
  <2>1. PICK mode \in {"overwrite", "append", "create"}, bytes \in 0..MaxFileSize :
          /\ (IF mode = "append" THEN SizeOf(f) + bytes ELSE bytes) <= MaxFileSize
          /\ ToolCall([fileSize EXCEPT ![f] = IF mode = "append" THEN SizeOf(f) + bytes ELSE bytes],
                      Persisted(f, mode, bytes))
    BY <1>2 DEF WriteFile
  <2>2. CASE mode = "append"
    <3>1. SizeOf(f) + bytes \in 0..MaxFileSize /\ bytes \in Int /\ SizeOf(f) + bytes - SizeOf(f) <= bytes
      BY <1>1, <2>1, <2>2
    <3>2. ToolCall([fileSize EXCEPT ![f] = SizeOf(f) + bytes], bytes)
      BY <2>1, <2>2 DEF Persisted
    <3>3. IsCharged(fileSize, [fileSize EXCEPT ![f] = SizeOf(f) + bytes], bytes)
      BY <1>1, <3>1, OneFileCharged
    <3> QED BY <3>2, <3>3, CallIsCharged
  <2>3. CASE mode # "append"
    <3>1. bytes - SizeOf(f) \in Int
      BY <1>1
    <3>2. ToolCall([fileSize EXCEPT ![f] = bytes], bytes - SizeOf(f))
      BY <2>1, <2>3 DEF Persisted
    <3>3. IsCharged(fileSize, [fileSize EXCEPT ![f] = bytes], bytes - SizeOf(f))
      BY <1>1, <3>1, OneFileCharged
    <3> QED BY <3>2, <3>3, CallIsCharged
  <2> QED BY <2>2, <2>3
<1>3. CASE EditFile(f)
  <2>1. PICK bytes \in 0..MaxFileSize : ToolCall([fileSize EXCEPT ![f] = bytes], bytes - fileSize[f])
    BY <1>3 DEF EditFile
  <2>2. fileSize[f] = SizeOf(f)
    BY <1>3 DEF EditFile, SizeOf
  <2>3. bytes - SizeOf(f) \in Int
    BY <1>1
  <2>4. IsCharged(fileSize, [fileSize EXCEPT ![f] = bytes], bytes - SizeOf(f))
    BY <1>1, <2>3, OneFileCharged
  <2> QED BY <2>1, <2>2, <2>4, CallIsCharged
<1> QED BY <1>2, <1>3

\* A moved file takes the place of another: what that one took is free.
LEMMA MovesAreCharged ==
  ASSUME StorageInv, NEW f \in WorkspaceFile, NEW g \in WorkspaceFile, MoveFile(f, g)
  PROVE  StorageInv'
<1> DEFINE moved == [fileSize EXCEPT ![f] = Missing, ![g] = fileSize[f]]
<1>1. fileSize \in Sizes /\ MaxFileSize \in Nat
  BY SizesAreSizes, WorkspaceFilesAssumption DEF StorageInv
<1>2. f # g /\ ToolCall(moved, 0) /\ fileSize[f] # Missing
  BY DEF MoveFile, Exists
<1>3. moved \in Sizes
  BY <1>1 DEF Sizes, Missing
<1>4. moved[f] = Missing /\ moved[g] = fileSize[f] /\ \A h \in WorkspaceFile \ {f, g} : moved[h] = fileSize[h]
  BY <1>1, <1>2 DEF Sizes
<1> HIDE DEF moved
<1> DEFINE both == {f, g}
<1>5. SumOver(moved, WorkspaceFile) = SumOver(fileSize, WorkspaceFile) - SumOver(fileSize, both) + SumOver(moved, both)
  BY <1>1, <1>3, <1>4, SumOfTheRest
<1>6. /\ SumOver(fileSize, both) = SizeIn(fileSize, f) + SizeIn(fileSize, g)
      /\ SumOver(moved, both) = SizeIn(moved, f) + SizeIn(moved, g)
  <2>1. both = {f} \cup {g} /\ {f} \cap {g} = {}
    BY <1>2
  <2> HIDE DEF both
  <2>2. \A size \in Sizes : SumOver(size, both) = SizeIn(size, f) + SizeIn(size, g)
    <3> TAKE size \in Sizes
    <3>1. Cardinality(BytesOf(size, {f} \cup {g})) = Cardinality(BytesOf(size, {f})) + Cardinality(BytesOf(size, {g}))
      BY <2>1, BytesOfBoth, ZenonT(60)
    <3>2. SumOver(size, {f} \cup {g}) = SumOver(size, {f}) + SumOver(size, {g})
      BY <3>1, SumOfSizes
    <3> QED BY <2>1, <3>2, SumOfOne
  <2> QED BY <2>2, <1>1, <1>3
<1>7. SizeIn(moved, f) = 0 /\ SizeIn(moved, g) = SizeIn(fileSize, f)
  BY <1>2, <1>4 DEF SizeIn
<1>8. SizeIn(fileSize, f) \in Nat /\ SizeIn(fileSize, g) \in Nat /\ SumOver(fileSize, WorkspaceFile) \in Nat
  <2>1. SizeIn(fileSize, f) \in 0..MaxFileSize /\ SizeIn(fileSize, g) \in 0..MaxFileSize
    BY <1>1, SizeIsNat
  <2> QED BY <1>1, <2>1, SumIsNat
<1>9. IsCharged(fileSize, moved, 0)
  BY <1>1, <1>3, <1>5, <1>6, <1>7, <1>8 DEF IsCharged
<1> QED BY <1>2, <1>9, CallIsCharged

\* What is deleted is refunded to the byte.
LEMMA DeletesAreRefunded ==
  ASSUME StorageInv, NEW those \in SUBSET WorkspaceFile, DeletePath(those)
  PROVE  StorageInv'
<1> DEFINE left == [f \in WorkspaceFile |-> IF f \in those THEN Missing ELSE fileSize[f]]
<1>1. fileSize \in Sizes /\ MaxFileSize \in Nat
  BY SizesAreSizes, WorkspaceFilesAssumption DEF StorageInv
<1>2. left \in Sizes
  BY <1>1 DEF Sizes, Missing
<1>3. ToolCall(left, -FreedBytes(those))
  BY DEF DeletePath
<1>4. \A g \in WorkspaceFile \ those : left[g] = fileSize[g]
  OBVIOUS
<1>5. \A f \in those : left[f] = Missing
  OBVIOUS
<1> HIDE DEF left
<1>6. SumOver(left, WorkspaceFile) = SumOver(fileSize, WorkspaceFile) - SumOver(fileSize, those) + SumOver(left, those)
  BY <1>1, <1>2, <1>4, SumOfTheRest
<1>7. SumOver(left, those) = 0
  BY <1>2, <1>5, SumOfNone
<1>8. FreedBytes(those) = SumOver(fileSize, those)
  BY BytesInIsASum DEF FreedBytes
<1>9. SumOver(fileSize, those) \in Nat /\ SumOver(fileSize, WorkspaceFile) \in Nat
  BY <1>1, SumIsNat
<1>10. IsCharged(fileSize, left, -FreedBytes(those))
  BY <1>1, <1>2, <1>6, <1>7, <1>8, <1>9 DEF IsCharged
<1> QED BY <1>3, <1>10, CallIsCharged

\* What is left of a batch's room is some of it.
LEMMA BatchCosts ==
  ASSUME NEW actions \in Nat, NEW left \in 0..actions, NEW each \in Nat
  PROVE  (actions - left) * each \in Nat /\ (actions - left) * each <= actions * each
<1>1. actions * each = (actions - left) * each + left * each
  OBVIOUS
<1>2. (actions - left) * each \in Nat /\ left * each \in Nat
  OBVIOUS
<1> QED BY <1>1, <1>2

\* The batch is charged, then saved and held against the budget: only between the
\* two may the files take a batch more than the budget allows.
LEMMA ChargesAreSaved ==
  ASSUME StorageInv, RecordBatch \/ PersistUsage
  PROVE  StorageInv'
<1> DEFINE limit == IF StorageLimit = 0 THEN 1 ELSE StorageLimit
           batch == BatchActions * MaxFileSize
<1>1. /\ batchLeft \in 0..BatchActions /\ owed \in Int /\ storageBytes \in Nat /\ storageSaved \in Nat
      /\ MaxFileSize \in Nat /\ BatchActions \in Nat /\ StorageLimit \in Nat /\ fileSize \in Sizes
      /\ overBudget \in BOOLEAN /\ seesAll \in BOOLEAN
  BY WorkspaceFilesAssumption, SizesAreSizes DEF StorageInv, WorkspaceFilesTypeOK
<1>2. limit \in Nat /\ batch \in Nat /\ Used \in Nat
  BY <1>1, UsedIsASum, SumIsNat
<1>3. fileSize' = fileSize /\ Used' = Used /\ seesAll' = seesAll /\ fileDeaths' = fileDeaths
  <2>1. fileSize' = fileSize /\ seesAll' = seesAll /\ fileDeaths' = fileDeaths
    BY DEF RecordBatch, PersistUsage
  <2> QED BY <2>1, UsedIsASum
<1>4. (BatchActions - BatchActions) * MaxFileSize = 0
  BY <1>1
<1>5. CASE RecordBatch
  <2>1. /\ Saved /\ storageBytes' = Charged /\ owed' = 0 /\ batchLeft' = BatchActions
        /\ storageSaved' = storageSaved /\ overBudget' = overBudget
    BY <1>5 DEF RecordBatch
  <2>2. Charged \in Nat /\ storageBytes + owed <= Charged
    BY <1>1 DEF Charged
  <2>3. WorkspaceFilesTypeOK'
    BY <1>1, <1>3, <2>1, <2>2 DEF StorageInv, WorkspaceFilesTypeOK
  <2>4. ~overBudget /\ ~OverBudget(storageSaved) /\ storageSaved = storageBytes
    BY <2>1 DEF StorageInv, Saved
  <2>5. ASSUME seesAll'
        PROVE  /\ Used <= Charged + 0
               /\ Used < limit + 0 + (IF Saved' THEN 0 ELSE batch)
    <3>1. seesAll /\ StorageIsCharged
      BY <1>3, <2>5 DEF StorageInv
    <3>2. Used <= storageBytes + owed /\ Used < limit + (BatchActions - batchLeft) * MaxFileSize + 0
      BY <2>1, <3>1 DEF StorageIsCharged
    <3>3. Used <= Charged
      BY <1>1, <1>2, <2>2, <3>2
    <3>4. CASE Saved'
      <4>1. Charged = storageSaved
        BY <2>1, <3>4 DEF Saved
      <4>2. storageSaved < limit
        BY <1>1, <2>4 DEF OverBudget
      <4> QED BY <1>1, <1>2, <2>2, <3>3, <3>4, <4>1, <4>2
    <3>5. CASE ~Saved'
      <4>1. (BatchActions - batchLeft) * MaxFileSize <= batch
        BY <1>1, BatchCosts
      <4>2. (BatchActions - batchLeft) * MaxFileSize \in Nat
        BY <1>1, BatchCosts
      <4> HIDE DEF limit, batch
      <4>3. Used < limit + 0 + batch
        BY <1>2, <3>2, <4>1, <4>2
      <4> QED BY <1>1, <1>2, <2>2, <3>3, <3>5, <4>3
    <3> QED BY <3>4, <3>5
  <2>6. StorageIsCharged'
    BY <1>3, <1>4, <2>1, <2>5 DEF StorageIsCharged
  <2> QED BY <1>3, <2>1, <2>3, <2>4, <2>6 DEF StorageInv, OverBudget
<1>6. CASE PersistUsage
  <2>1. /\ storageSaved # storageBytes /\ storageSaved' = storageBytes /\ overBudget' = OverBudget(storageBytes)
        /\ owed' = owed /\ batchLeft' = batchLeft /\ storageBytes' = storageBytes
    BY <1>6 DEF PersistUsage
  <2>2. ~Saved /\ owed = 0 /\ batchLeft = BatchActions
    BY <2>1 DEF StorageInv, Saved
  <2>3. overBudget' \in BOOLEAN
    BY <2>1 DEF OverBudget
  <2>4. WorkspaceFilesTypeOK'
    BY <1>1, <1>3, <2>1, <2>3 DEF StorageInv, WorkspaceFilesTypeOK
  <2>5. ~overBudget' <=> storageBytes < limit
    <3>1. ~OverBudget(storageBytes) <=> storageBytes < limit
      BY <1>1 DEF OverBudget
    <3>2. overBudget' = OverBudget(storageBytes)
      BY <2>1
    <3> HIDE DEF limit
    <3> QED BY <3>1, <3>2
  <2>6. ASSUME seesAll'
        PROVE  /\ Used <= storageBytes + 0
               /\ Used < limit + 0 + (IF Saved' THEN 0 ELSE batch)
    <3>1. seesAll /\ StorageIsCharged
      BY <1>3, <2>6 DEF StorageInv
    <3>2. Used <= storageBytes + 0 /\ Used < limit + 0 + batch
      BY <1>4, <2>2, <3>1 DEF StorageIsCharged
    <3>3. CASE Saved'
      <4>1. storageBytes < limit
        BY <2>5, <3>3 DEF Saved
      <4> QED BY <1>1, <1>2, <3>2, <3>3, <4>1
    <3> QED BY <3>2, <3>3
  <2>7. StorageIsCharged'
    BY <1>3, <1>4, <2>1, <2>2, <2>6 DEF StorageIsCharged
  <2>8. ~overBudget' => ~OverBudget(storageSaved)'
    BY <2>1 DEF OverBudget
  <2> QED BY <2>1, <2>2, <2>4, <2>7, <2>8 DEF StorageInv
<1> QED BY <1>5, <1>6

LEMMA StorageSteps ==
  ASSUME StorageInv, [WorkspaceFilesNext]_WorkspaceFilesVars
  PROVE  StorageInv'
<1>1. ASSUME NEW f \in WorkspaceFile, WriteFile(f) \/ EditFile(f) \/ DeletePath({f})
      PROVE  StorageInv'
  BY <1>1, WritesAreCharged, DeletesAreRefunded
<1>2. ASSUME NEW f \in WorkspaceFile, NEW g \in WorkspaceFile, MoveFile(f, g) PROVE StorageInv'
  BY <1>2, MovesAreCharged
<1>3. CASE DeletePath(InDirectory)
  BY <1>3, WorkspaceFilesAssumption, DeletesAreRefunded
<1>4. CASE RecordBatch \/ PersistUsage
  BY <1>4, ChargesAreSaved
<1>5. ASSUME NEW f \in WorkspaceFile, CommandWrites(f) PROVE StorageInv'
  <2>1. PICK bytes \in 1..MaxFileSize : fileSize' = [fileSize EXCEPT ![f] = bytes]
    BY <1>5 DEF CommandWrites
  <2>2. /\ batchLeft > 0 /\ Saved /\ batchLeft' = batchLeft - 1 /\ seesAll' = FALSE
        /\ UNCHANGED <<owed, storageBytes, storageSaved, overBudget, fileDeaths>>
    BY <1>5 DEF CommandWrites
  <2>3. fileSize' \in [WorkspaceFile -> Missing..MaxFileSize] /\ batchLeft' \in 0..BatchActions
    BY <2>1, <2>2, WorkspaceFilesAssumption DEF StorageInv, WorkspaceFilesTypeOK, Missing
  <2>4. WorkspaceFilesTypeOK'
    BY <2>2, <2>3 DEF StorageInv, WorkspaceFilesTypeOK
  <2>5. StorageIsCharged' /\ Saved'
    BY <2>2 DEF StorageIsCharged, Saved
  <2> QED BY <2>2, <2>4, <2>5 DEF StorageInv, OverBudget
<1>6. CASE DieWithFiles
  <2>1. /\ ~overBudget /\ fileDeaths < MaxFileDeaths /\ fileDeaths' = fileDeaths + 1
        /\ storageBytes' = storageSaved /\ owed' = 0 /\ batchLeft' = BatchActions
        /\ seesAll' = FALSE /\ UNCHANGED <<fileSize, storageSaved, overBudget>>
    BY <1>6 DEF DieWithFiles
  <2>a. {overBudget, seesAll}' \subseteq BOOLEAN
    BY <2>1 DEF StorageInv, WorkspaceFilesTypeOK
  <2>b. fileDeaths' \in 0..MaxFileDeaths /\ BatchActions \in Nat
    BY <2>1, WorkspaceFilesAssumption DEF StorageInv, WorkspaceFilesTypeOK
  <2>2. WorkspaceFilesTypeOK'
    BY <2>1, <2>a, <2>b DEF StorageInv, WorkspaceFilesTypeOK
  <2>3. StorageIsCharged' /\ Saved'
    BY <2>1 DEF StorageIsCharged, Saved
  <2> QED BY <2>1, <2>2, <2>3 DEF StorageInv, OverBudget
<1>7. CASE UNCHANGED WorkspaceFilesVars
  <2>1. Used' = Used
    BY <1>7, UsedIsASum DEF WorkspaceFilesVars
  <2>2. WorkspaceFilesTypeOK' /\ (Saved' <=> Saved)
    BY <1>7 DEF WorkspaceFilesVars, StorageInv, WorkspaceFilesTypeOK, Saved
  <2>3. (IF Saved THEN 0 ELSE BatchActions * MaxFileSize)' = (IF Saved THEN 0 ELSE BatchActions * MaxFileSize)
    BY <2>2
  <2>4. UNCHANGED <<owed, batchLeft, storageBytes, storageSaved, overBudget, seesAll>>
    BY <1>7 DEF WorkspaceFilesVars
  <2>5. StorageIsCharged'
    BY <2>1, <2>3, <2>4 DEF StorageInv, StorageIsCharged
  <2> QED BY <2>2, <2>4, <2>5 DEF StorageInv, OverBudget
<1> QED BY <1>1, <1>2, <1>3, <1>4, <1>5, <1>6, <1>7 DEF WorkspaceFilesNext

\* The budget of a run's storage (runtime.ts recordStorageUsage): what is written
\* on the row is what the files take, whatever the calls of a batch wrote, moved or
\* deleted, and the files outgrow the budget only while a batch is open.
THEOREM StorageStays == RecordsSpec => []StorageHolds
<1>1. RecordsInit => StorageInv
  BY StorageStarts DEF RecordsInit
<1>2. StorageInv /\ [RecordsNext]_recordsVars => StorageInv'
  BY PartsRest, StorageSteps
<1>3. StorageInv => StorageHolds
  BY DEF StorageInv, StorageHolds, Of
<1> QED BY <1>1, <1>2, <1>3, PTL DEF RecordsSpec

-----------------------------------------------------------------------------
(* Grading.  What the checks found stands as long as the agent does not edit,  *)
(* and it edits only while it works; the row of a run that ended, and so what  *)
(* was read of it, stays.                                                      *)

\* A sequence with one element more.
LEMMA OneMore ==
  ASSUME NEW S, NEW s \in Seq(S), NEW e \in S
  PROVE  /\ Append(s, e) \in Seq(S) /\ Append(s, e) # << >>
         /\ Len(s) \in Nat /\ DOMAIN s = 1..Len(s)
         /\ Len(Append(s, e)) = Len(s) + 1 /\ DOMAIN Append(s, e) = 1..(Len(s) + 1)
         /\ Append(s, e)[Len(s) + 1] = e
         /\ \A i \in 1..Len(s) : Append(s, e)[i] = s[i]
<1>1. Append(s, e) \in Seq(S) /\ Len(Append(s, e)) = Len(s) + 1
  BY AppendProperties
<1> QED BY <1>1, AppendProperties, LenProperties

WorkRow == [row : {"CREATED", "EXECUTING", "VERIFYING", "RECOVERING", "WAITING"} \cup TerminalRows,
            at : {"none", "working", "checking", "recorded", "completing", "failing"},
            checks : Seq(BOOLEAN), edited : BOOLEAN, reworks : 0..MaxReworks + 1, sessions : 0..MaxSessions]
BenchRow == [at : {"created", "started", "finished", "resulted", "exported", "graded"},
             finished : BOOLEAN, result : BOOLEAN, proof : {"none", "passed", "failed"},
             expects : {"required", "optional", "forbidden"}, success : BOOLEAN]

GradingTypes ==
  /\ graded \in [permitted : BOOLEAN, enabled : BOOLEAN]
  /\ files \in [passes : SUBSET (1..Commands), asExpected : BOOLEAN, edits : 0..MaxEdits]
  /\ work \in WorkRow /\ Len(work.checks) <= Commands
  /\ evidence \in Seq(BOOLEAN)
  /\ bench \in BenchRow

\* What a check said is so, and a verdict is of all of them.
ChecksTellTheFiles ==
  /\ work.at \in {"checking", "recorded"} =>
       Verifies /\ \A i \in DOMAIN work.checks : work.checks[i] => i \in files.passes
  /\ work.at = "recorded" => Checked(work.checks)
  /\ work.at \in {"working", "checking", "recorded"} => work.reworks \in 0..MaxReworks

IsProven ==
  evidence # << >> /\ evidence[Len(evidence)] /\ ~work.edited /\ files.passes = 1..Commands

EndsAreProven ==
  /\ work.at = "completing" /\ Verifies => IsProven
  /\ work.row = "COMPLETED" /\ Verifies => IsProven
  /\ work.row \in TerminalRows => work.at = "none"
  /\ bench.at = "created" => work.row = "CREATED" /\ work.at = "none"
  /\ evidence # << >> => Verifies

ReadsStand ==
  /\ bench.at \in {"resulted", "exported", "graded"} /\ bench.result => work.row = "COMPLETED"
  /\ bench.at \in {"exported", "graded"} /\ bench.result =>
       (bench.proof = "passed" <=> evidence # << >> /\ evidence[Len(evidence)])
  /\ bench.success => /\ bench.at = "graded" /\ bench.result /\ files.asExpected
                      /\ bench.expects = "required" => bench.proof = "passed"
                      /\ bench.expects = "forbidden" => bench.proof # "passed"

GradingInv == GradingTypes /\ ChecksTellTheFiles /\ EndsAreProven /\ ReadsStand

LEMMA GradingStarts == GradingInit => GradingInv
<1> SUFFICES ASSUME GradingInit PROVE GradingInv
  OBVIOUS
<1>0. {Commands, MaxEdits, MaxReworks, MaxSessions} \subseteq Nat /\ << >> \in Seq(BOOLEAN) /\ Len(<< >>) = 0
  BY GradingAssumption, EmptySeq
<1>1. GradingTypes
  BY <1>0 DEF GradingInit, GradingTypes, WorkRow, BenchRow
<1>2. ChecksTellTheFiles /\ EndsAreProven /\ ReadsStand
  BY DEF GradingInit, ChecksTellTheFiles, EndsAreProven, ReadsStand, TerminalRows
<1> QED BY <1>1, <1>2 DEF GradingInv

LEMMA GradingIsGood ==
  ASSUME GradingInv
  PROVE  CompletedIsProven /\ SuccessIsEarned
BY DEF GradingInv, EndsAreProven, ReadsStand, IsProven, CompletedIsProven, SuccessIsEarned, Last, TerminalRows

\* A verdict that passed is of every command.
LEMMA PassedIsAll ==
  ASSUME NEW checks \in Seq(BOOLEAN), Checked(checks), Passed(checks)
  PROVE  Len(checks) = Commands /\ \A i \in DOMAIN checks : checks[i]
<1>1. DOMAIN checks = 1..Len(checks) /\ \A i \in DOMAIN checks : checks[i] \in BOOLEAN
  BY LenProperties, ElementOfSeq
<1>2. \A i \in DOMAIN checks : checks[i] # FALSE
  BY DEF Passed, ToSet
<1> QED BY <1>1, <1>2 DEF Checked, Passed

LEMMA SessionSteps ==
  ASSUME GradingInv,
         StartSession \/ AgentFinishes \/ RecordVerdict \/ EndSession \/ SessionDies
  PROVE  GradingInv'
<1>0. /\ {Commands, MaxEdits, MaxReworks, MaxSessions} \subseteq Nat /\ << >> \in Seq(BOOLEAN) /\ Len(<< >>) = 0
      /\ DOMAIN << >> = {}
  BY GradingAssumption, EmptySeq
<1>1. UNCHANGED <<graded, files, evidence, bench>> /\ (Verifies' <=> Verifies)
  BY DEF StartSession, AgentFinishes, RecordVerdict, EndSession, SessionDies, Verifies
<1>2. CASE StartSession
  <2>1. /\ work.row \notin TerminalRows /\ (bench.at = "started" \/ work.row # "CREATED") /\ work.sessions < MaxSessions
        /\ work' = [work EXCEPT !.row = "EXECUTING", !.at = "working", !.checks = << >>,
                           !.reworks = 0, !.sessions = @ + 1]
    BY <1>2 DEF StartSession
  <2>a. work \in WorkRow /\ work.sessions + 1 \in 0..MaxSessions /\ 0 \in 0..MaxReworks + 1
    BY <1>0, <2>1 DEF GradingInv, GradingTypes, WorkRow
  <2>2. /\ work' \in WorkRow /\ work'.checks = << >> /\ work'.row = "EXECUTING" /\ work'.at = "working"
        /\ work'.reworks = 0
    BY <1>0, <2>1, <2>a DEF WorkRow
  <2>3. GradingTypes' /\ ChecksTellTheFiles'
    BY <1>0, <1>1, <2>2 DEF GradingInv, GradingTypes, ChecksTellTheFiles
  <2>4. EndsAreProven' /\ ReadsStand'
    BY <1>1, <2>1, <2>2 DEF GradingInv, EndsAreProven, ReadsStand, TerminalRows
  <2> QED BY <2>3, <2>4 DEF GradingInv
<1>3. CASE AgentFinishes
  <2>1. work.at = "working" /\ work.row \notin TerminalRows /\ bench.at # "created"
    BY <1>3 DEF AgentFinishes, GradingInv, EndsAreProven
  <2>2. CASE Verifies
    <3>1. work' = [work EXCEPT !.row = "VERIFYING", !.at = "checking", !.checks = << >>]
      BY <1>3, <2>2 DEF AgentFinishes
    <3>2. work' \in WorkRow /\ work'.checks = << >> /\ work'.row = "VERIFYING" /\ work'.at = "checking" /\ work'.reworks = work.reworks
      BY <1>0, <3>1 DEF GradingInv, GradingTypes, WorkRow
    <3>5. work.reworks \in 0..MaxReworks
      BY <2>1 DEF GradingInv, ChecksTellTheFiles
    <3>6. GradingTypes'
      BY <1>0, <1>1, <3>2 DEF GradingInv, GradingTypes
    <3>3. GradingTypes' /\ ChecksTellTheFiles'
      <4>1. work'.checks = << >> /\ Len(work'.checks) = 0 /\ DOMAIN work'.checks = {} /\ work'.at = "checking"
        BY <3>2
      <4>2. Verifies'
        BY <1>1, <2>2 DEF Verifies
      <4> QED BY <1>0, <1>1, <2>2, <3>2, <3>5, <3>6, <4>1, <4>2 DEF GradingInv, GradingTypes, ChecksTellTheFiles
    <3>4. EndsAreProven' /\ ReadsStand'
      BY <1>1, <2>1, <3>2 DEF GradingInv, EndsAreProven, ReadsStand, TerminalRows
    <3> QED BY <3>3, <3>4 DEF GradingInv
  <2>3. CASE ~Verifies
    <3>1. work' = [work EXCEPT !.at = "completing"]
      BY <1>3, <2>3 DEF AgentFinishes
    <3>2. work' \in WorkRow /\ work'.checks = work.checks /\ work'.row = work.row /\ work'.at = "completing" /\ work'.reworks = work.reworks
      BY <1>0, <3>1 DEF GradingInv, GradingTypes, WorkRow
    <3>3. GradingTypes' /\ ChecksTellTheFiles'
      BY <1>0, <1>1, <3>2 DEF GradingInv, GradingTypes, ChecksTellTheFiles
    <3>4. EndsAreProven' /\ ReadsStand'
      BY <1>1, <2>1, <2>3, <3>2 DEF GradingInv, EndsAreProven, ReadsStand, TerminalRows
    <3> QED BY <3>3, <3>4 DEF GradingInv
  <2> QED BY <2>2, <2>3
<1>4. CASE RecordVerdict
  <2>1. work.at = "checking" /\ Checked(work.checks) /\ work' = [work EXCEPT !.at = "recorded"]
    BY <1>4 DEF RecordVerdict
  <2>2. work' \in WorkRow /\ work'.checks = work.checks /\ work'.row = work.row /\ work'.at = "recorded" /\ work'.reworks = work.reworks
    BY <2>1 DEF GradingInv, GradingTypes, WorkRow
  <2>3. GradingTypes'
    BY <1>1, <2>2 DEF GradingInv, GradingTypes
  <2>4. ChecksTellTheFiles'
    BY <1>1, <2>1, <2>2 DEF GradingInv, ChecksTellTheFiles, Checked, Unpermitted
  <2>5. EndsAreProven' /\ ReadsStand'
    BY <1>1, <2>1, <2>2 DEF GradingInv, EndsAreProven, ReadsStand, TerminalRows
  <2> QED BY <2>3, <2>4, <2>5 DEF GradingInv
<1>5. CASE EndSession
  <2>1. PICK row \in TerminalRows : /\ work' = [work EXCEPT !.row = row, !.at = "none"]
                                    /\ row = "COMPLETED" => work.at = "completing"
                                    /\ work.at # "none"
    BY <1>5 DEF EndSession, TerminalRows
  <2>2. work' \in WorkRow /\ work'.checks = work.checks /\ work'.row = row /\ work'.at = "none" /\ work'.edited = work.edited
    BY <2>1 DEF GradingInv, GradingTypes, WorkRow
  <2>3. GradingTypes' /\ ChecksTellTheFiles'
    BY <1>1, <2>2 DEF GradingInv, GradingTypes, ChecksTellTheFiles
  <2>4. work.row \notin TerminalRows /\ bench.at # "created"
    BY <2>1 DEF GradingInv, EndsAreProven
  <2>5. EndsAreProven' /\ ReadsStand'
    BY <1>1, <2>1, <2>2, <2>4 DEF GradingInv, EndsAreProven, ReadsStand, IsProven, TerminalRows
  <2> QED BY <2>3, <2>5 DEF GradingInv
<1>6. CASE SessionDies
  <2>1. work' = [work EXCEPT !.at = "none"] /\ work.at # "none"
    BY <1>6 DEF SessionDies
  <2>2. work' \in WorkRow /\ work'.checks = work.checks /\ work'.row = work.row /\ work'.at = "none" /\ work'.edited = work.edited
    BY <2>1 DEF GradingInv, GradingTypes, WorkRow
  <2>3. GradingTypes' /\ ChecksTellTheFiles'
    BY <1>1, <2>2 DEF GradingInv, GradingTypes, ChecksTellTheFiles
  <2>5. EndsAreProven' /\ ReadsStand'
    BY <1>1, <2>1, <2>2 DEF GradingInv, EndsAreProven, ReadsStand, IsProven, TerminalRows
  <2> QED BY <2>3, <2>5 DEF GradingInv
<1> QED BY <1>2, <1>3, <1>4, <1>5, <1>6

LEMMA ChecksStep ==
  ASSUME GradingInv, EditWorkspace \/ RunCommand \/ EmitVerdict
  PROVE  GradingInv'
<1>0. {Commands, MaxEdits, MaxReworks, MaxSessions} \subseteq Nat
  BY GradingAssumption
<1>1. UNCHANGED <<graded, bench>> /\ (Verifies' <=> Verifies)
  BY DEF EditWorkspace, RunCommand, EmitVerdict, Verifies
<1>2. CASE EditWorkspace
  <2>1. work.at = "working" /\ work' = [work EXCEPT !.edited = TRUE] /\ evidence' = evidence
    BY <1>2 DEF EditWorkspace
  <2>2. work' \in WorkRow /\ work'.checks = work.checks /\ work'.row = work.row /\ work'.at = "working" /\ work'.reworks = work.reworks
    BY <2>1 DEF GradingInv, GradingTypes, WorkRow
  <2>3. files' \in [passes : SUBSET (1..Commands), asExpected : BOOLEAN, edits : 0..MaxEdits]
    BY <1>0, <1>2 DEF EditWorkspace, GradingInv, GradingTypes
  <2>4. GradingTypes' /\ ChecksTellTheFiles'
    BY <1>1, <2>1, <2>2, <2>3 DEF GradingInv, GradingTypes, ChecksTellTheFiles
  <2>5. work.row \notin TerminalRows /\ bench.at # "created"
    BY <2>1 DEF GradingInv, EndsAreProven
  <2>6. EndsAreProven' /\ ReadsStand'
    BY <1>1, <2>1, <2>2, <2>5 DEF GradingInv, EndsAreProven, ReadsStand, TerminalRows
  <2> QED BY <2>4, <2>6 DEF GradingInv
<1>3. CASE RunCommand
  <2>0. PICK said \in BOOLEAN : /\ work' = [work EXCEPT !.checks = Append(@, said)]
                                /\ said => Len(work.checks) + 1 \in files.passes
    BY <1>3 DEF RunCommand
  <2>1. work.at = "checking" /\ ~Checked(work.checks) /\ files' = files /\ evidence' = evidence
    BY <1>3 DEF RunCommand
  <2>2. work.checks \in Seq(BOOLEAN) /\ Len(work.checks) \in Nat /\ Len(work.checks) < Commands
    <3>1. work.checks \in Seq(BOOLEAN) /\ Len(work.checks) <= Commands /\ Len(work.checks) # Commands
      BY <2>1 DEF GradingInv, GradingTypes, WorkRow, Checked
    <3>2. Len(work.checks) \in Nat /\ Commands \in Nat
      BY <1>0, <3>1, LenProperties
    <3> QED BY <3>1, <3>2
  <2>3. PICK after \in Seq(BOOLEAN) :
          /\ after = Append(work.checks, said) /\ Len(after) = Len(work.checks) + 1
          /\ DOMAIN after = 1..Len(after) /\ after[Len(after)] = said
          /\ \A i \in 1..Len(work.checks) : after[i] = work.checks[i]
    <3>1. PICK checks \in Seq(BOOLEAN) : checks = work.checks
      BY <2>2
    <3>2. PICK after \in Seq(BOOLEAN) : after = Append(checks, said)
      BY OneMore
    <3>3. /\ Len(after) = Len(checks) + 1 /\ DOMAIN after = 1..(Len(checks) + 1)
          /\ after[Len(checks) + 1] = said /\ \A i \in 1..Len(checks) : after[i] = checks[i]
      BY <3>2, OneMore
    <3> QED BY <3>1, <3>2, <3>3
  <2>4. work' \in WorkRow /\ work'.checks = after /\ work'.row = work.row /\ work'.at = "checking" /\ work'.reworks = work.reworks /\ work'.edited = work.edited
    BY <2>0, <2>1, <2>3 DEF GradingInv, GradingTypes, WorkRow
  <2>5. GradingTypes'
    BY <1>0, <1>1, <2>1, <2>2, <2>3, <2>4 DEF GradingInv, GradingTypes
  <2>6. ChecksTellTheFiles'
    <3>1. \A i \in DOMAIN work.checks : work.checks[i] => i \in files.passes
      BY <2>1 DEF GradingInv, ChecksTellTheFiles
    <3>2. DOMAIN work.checks = 1..Len(work.checks)
      BY <2>2, LenProperties
    <3>3. \A i \in DOMAIN after : after[i] => i \in files.passes
      BY <2>0, <2>2, <2>3, <3>1, <3>2
    <3> QED BY <1>1, <2>1, <2>4, <3>3 DEF GradingInv, ChecksTellTheFiles
  <2>7. EndsAreProven' /\ ReadsStand'
    BY <1>1, <2>1, <2>4 DEF GradingInv, EndsAreProven, ReadsStand, IsProven, TerminalRows
  <2> QED BY <2>5, <2>6, <2>7 DEF GradingInv
<1>4. CASE EmitVerdict
  <2>1. work.at = "recorded" /\ files' = files /\ evidence' = Append(evidence, Passed(work.checks))
    BY <1>4 DEF EmitVerdict
  <2>2. PICK verdict \in BOOLEAN : verdict = Passed(work.checks)
    BY DEF Passed
  <2>3. PICK after \in Seq(BOOLEAN) : /\ after = Append(evidence, verdict) /\ after # << >>
                                      /\ after[Len(after)] = verdict
    <3>1. evidence \in Seq(BOOLEAN)
      BY DEF GradingInv, GradingTypes
    <3>2. PICK after \in Seq(BOOLEAN) : after = Append(evidence, verdict)
      BY <3>1, OneMore
    <3>3. after # << >> /\ Len(after) = Len(evidence) + 1 /\ after[Len(evidence) + 1] = verdict
      BY <3>1, <3>2, OneMore
    <3> QED BY <3>2, <3>3
  <2>4. evidence' = after
    BY <2>1, <2>2, <2>3
  <2>5. work.row \notin TerminalRows /\ bench.at # "created" /\ Verifies
    BY <2>1 DEF GradingInv, EndsAreProven, ChecksTellTheFiles
  <2>6. PICK row \in {work.row, "RECOVERING", "WAITING"}, spot \in {"completing", "working", "none", "failing"},
             reworks \in 0..MaxReworks + 1 :
          /\ work' = [work EXCEPT !.edited = FALSE, !.row = row, !.at = spot, !.reworks = reworks]
          /\ verdict \/ spot # "completing"
          /\ spot = "working" => reworks \in 0..MaxReworks
    <3>1. work.reworks \in 0..MaxReworks /\ work \in WorkRow
      BY <2>1 DEF GradingInv, GradingTypes, ChecksTellTheFiles
    <3>2. CASE verdict
      <4>1. work' = [work EXCEPT !.edited = FALSE, !.at = "completing"]
        BY <1>4, <2>2, <3>2 DEF EmitVerdict
      <4>2. work' = [work EXCEPT !.edited = FALSE, !.row = work.row, !.at = "completing", !.reworks = work.reworks]
        BY <3>1, <4>1 DEF WorkRow
      <4>3. PICK r0, n0 : r0 = work.row /\ n0 = work.reworks
        OBVIOUS
      <4>4. n0 \in 0..MaxReworks + 1 /\ n0 \in 0..MaxReworks
        BY <1>0, <3>1, <4>3
      <4>5. r0 \in {work.row, "RECOVERING", "WAITING"} /\ "completing" \in {"completing", "working", "none", "failing"}
            /\ work' = [work EXCEPT !.edited = FALSE, !.row = r0, !.at = "completing", !.reworks = n0]
        BY <4>2, <4>3, Zenon
      <4> QED BY <3>2, <4>4, <4>5, Zenon
    <3>3. CASE ~verdict
      <4> DEFINE recovering == [[work EXCEPT !.edited = FALSE] EXCEPT !.row = "RECOVERING", !.reworks = @ + 1]
      <4>1. \/ work.reworks < MaxReworks /\ work' = [recovering EXCEPT !.at = "working"]
            \/ work.reworks < MaxReworks /\ work' = [recovering EXCEPT !.at = "none", !.row = "WAITING"]
            \/ work' = [recovering EXCEPT !.at = "failing"]
        BY <1>4, <2>2, <3>3 DEF EmitVerdict
      <4>2. work.reworks + 1 \in 0..MaxReworks + 1
        BY <1>0, <3>1
      <4>3. CASE work.reworks < MaxReworks /\ work' = [recovering EXCEPT !.at = "working"]
        <5>1. work.reworks + 1 \in 0..MaxReworks
          BY <1>0, <3>1, <4>3
        <5>2. work' = [work EXCEPT !.edited = FALSE, !.row = "RECOVERING", !.at = "working", !.reworks = work.reworks + 1]
          BY <3>1, <4>3 DEF WorkRow
        <5> QED BY <4>2, <5>1, <5>2
      <4>4. CASE work' = [recovering EXCEPT !.at = "none", !.row = "WAITING"]
        <5>1. work' = [work EXCEPT !.edited = FALSE, !.row = "WAITING", !.at = "none", !.reworks = work.reworks + 1]
          BY <3>1, <4>4 DEF WorkRow
        <5> QED BY <4>2, <5>1
      <4>5. CASE work' = [recovering EXCEPT !.at = "failing"]
        <5>1. work' = [work EXCEPT !.edited = FALSE, !.row = "RECOVERING", !.at = "failing", !.reworks = work.reworks + 1]
          BY <3>1, <4>5 DEF WorkRow
        <5> QED BY <4>2, <5>1
      <4> QED BY <4>1, <4>3, <4>4, <4>5
    <3> QED BY <3>2, <3>3
  <2>7. work' \in WorkRow /\ work'.checks = work.checks /\ work'.row = row /\ work'.at = spot /\ work'.edited = FALSE /\ work'.reworks = reworks
    BY <2>6 DEF GradingInv, GradingTypes, WorkRow
  <2>8. GradingTypes' /\ ChecksTellTheFiles'
    <3>1. graded' = graded /\ bench' = bench /\ files' = files /\ evidence' \in Seq(BOOLEAN)
      BY <1>1, <2>1, <2>3, <2>4
    <3>2. GradingTypes'
      BY <1>0, <2>7, <3>1 DEF GradingInv, GradingTypes
    <3>3. work'.at \notin {"checking", "recorded"}
      BY <2>6, <2>7
    <3>4. work'.at = "working" => work'.reworks \in 0..MaxReworks
      BY <2>6, <2>7
    <3> QED BY <3>2, <3>3, <3>4 DEF ChecksTellTheFiles
  <2>9. verdict => files.passes = 1..Commands
    <3> SUFFICES ASSUME verdict PROVE files.passes = 1..Commands
      OBVIOUS
    <3>1. work.checks \in Seq(BOOLEAN) /\ files.passes \subseteq 1..Commands /\ Checked(work.checks) /\ Passed(work.checks)
      BY <2>1, <2>2 DEF GradingInv, GradingTypes, WorkRow, ChecksTellTheFiles
    <3>2. Len(work.checks) = Commands /\ \A i \in DOMAIN work.checks : work.checks[i]
      BY <3>1, PassedIsAll
    <3>3. DOMAIN work.checks = 1..Commands
      BY <3>1, <3>2, LenProperties
    <3> QED BY <2>1, <3>1, <3>2, <3>3 DEF GradingInv, ChecksTellTheFiles
  <2>10. row \notin TerminalRows
    BY <2>5 DEF TerminalRows
  <2>11. EndsAreProven'
    BY <1>1, <2>1, <2>3, <2>4, <2>5, <2>6, <2>7, <2>9, <2>10 DEF GradingInv, EndsAreProven, IsProven, TerminalRows
  <2>12. ReadsStand'
    BY <1>1, <2>1, <2>5, <2>10 DEF GradingInv, ReadsStand, TerminalRows
  <2> QED BY <2>8, <2>11, <2>12 DEF GradingInv
<1> QED BY <1>2, <1>3, <1>4

\* The bench reads the row, then the evidence; neither moves once the run is
\* completed, nor do the files that the case is graded on.
LEMMA BenchSteps ==
  ASSUME GradingInv, SetupWorkspace \/ WaitForRun \/ ReadResult \/ ReadEvidence \/ Grade
  PROVE  GradingInv'
<1>1. UNCHANGED <<graded, work, evidence>> /\ (Verifies' <=> Verifies)
  BY DEF SetupWorkspace, WaitForRun, ReadResult, ReadEvidence, Grade, Verifies
<1>2. \A checks : Checked(checks)' <=> Checked(checks)
  BY <1>1 DEF Checked, Unpermitted
<1>3. CASE SetupWorkspace
  <2>1. bench.at = "created" /\ bench' = [bench EXCEPT !.at = "started"]
    BY <1>3 DEF SetupWorkspace
  <2>2. PICK passes \in {{}, 1..Commands} : files' = [files EXCEPT !.passes = passes]
    BY <1>3 DEF SetupWorkspace
  <2>3. GradingTypes'
    BY <1>1, <2>1, <2>2 DEF GradingInv, GradingTypes, BenchRow
  <2>4. work.row = "CREATED" /\ work.at = "none"
    BY <2>1 DEF GradingInv, EndsAreProven
  <2>5. bench'.at = "started" /\ bench'.success = bench.success
    BY <2>1 DEF GradingInv, GradingTypes, BenchRow
  <2> QED BY <1>1, <2>1, <2>3, <2>4, <2>5
       DEF GradingInv, ChecksTellTheFiles, EndsAreProven, ReadsStand, TerminalRows
<1>4. CASE ~SetupWorkspace
  <2>0. files' = files
    BY <1>4 DEF WaitForRun, ReadResult, ReadEvidence, Grade
  <2>1. bench' \in BenchRow /\ bench.at # "created" /\ bench'.at # "created" /\ ReadsStand'
    <3>0. bench \in BenchRow /\ evidence \in Seq(BOOLEAN)
      BY DEF GradingInv, GradingTypes
    <3>1. CASE WaitForRun
      <4>1. bench.at = "started" /\ bench' = [bench EXCEPT !.at = "finished", !.finished = work.row = "COMPLETED"]
        BY <3>1 DEF WaitForRun
      <4>2. bench' \in BenchRow /\ bench'.at = "finished" /\ bench'.success = bench.success
        BY <3>0, <4>1 DEF BenchRow
      <4> QED BY <4>1, <4>2 DEF GradingInv, ReadsStand
    <3>2. CASE ReadResult
      <4>1. bench.at = "finished" /\ bench' = [bench EXCEPT !.at = "resulted", !.result = work.row = "COMPLETED"]
        BY <3>2 DEF ReadResult
      <4>2. bench' \in BenchRow /\ bench'.at = "resulted" /\ bench'.success = bench.success
        BY <3>0, <4>1 DEF BenchRow
      <4>3. bench'.result <=> work.row = "COMPLETED"
        BY <3>0, <4>1 DEF BenchRow
      <4> QED BY <1>1, <4>1, <4>2, <4>3 DEF GradingInv, ReadsStand
    <3>3. CASE ReadEvidence
      <4> DEFINE proof == IF evidence = << >> THEN "none" ELSE IF Last(evidence) THEN "passed" ELSE "failed"
      <4>1. bench.at = "resulted" /\ bench' = [bench EXCEPT !.at = "exported", !.proof = proof]
        BY <3>3 DEF ReadEvidence
      <4>2. /\ proof \in {"none", "passed", "failed"}
            /\ proof = "passed" <=> evidence # << >> /\ evidence[Len(evidence)]
        BY DEF Last
      <4> HIDE DEF proof
      <4>3. /\ bench' \in BenchRow /\ bench'.at = "exported" /\ bench'.success = bench.success
            /\ bench'.result = bench.result /\ bench'.proof = proof
        BY <3>0, <4>1, <4>2 DEF BenchRow
      <4> QED BY <1>1, <4>1, <4>2, <4>3 DEF GradingInv, ReadsStand
    <3>4. CASE Grade
      <4>1. PICK expects \in {"required", "optional", "forbidden"} :
              bench' = [bench EXCEPT !.at = "graded", !.expects = expects,
                              !.success = bench.result /\ FALSE \notin Expectations(expects)]
        BY <3>4 DEF Grade
      <4>2. PICK success \in BOOLEAN : success <=> bench.result /\ FALSE \notin Expectations(expects)
        OBVIOUS
      <4>3. bench' = [bench EXCEPT !.at = "graded", !.expects = expects, !.success = success]
        BY <4>1, <4>2, <3>0 DEF BenchRow
      <4>4. /\ bench' \in BenchRow /\ bench'.at = "graded" /\ bench'.success = success
            /\ bench'.result = bench.result /\ bench'.proof = bench.proof /\ bench'.expects = expects
        BY <3>0, <4>3 DEF BenchRow
      <4>5. bench.at = "exported"
        BY <3>4 DEF Grade
      <4>6. success => /\ bench.result /\ files.asExpected
                       /\ expects = "required" => bench.proof = "passed"
                       /\ expects = "forbidden" => bench.proof # "passed"
        <5> SUFFICES ASSUME success PROVE /\ bench.result /\ files.asExpected
                                          /\ expects = "required" => bench.proof = "passed"
                                          /\ expects = "forbidden" => bench.proof # "passed"
          OBVIOUS
        <5>1. bench.result /\ FALSE \notin Expectations(expects)
          BY <4>2
        <5>2. files.asExpected \in BOOLEAN
          BY DEF GradingInv, GradingTypes
        <5>3. files.asExpected # FALSE
          BY <5>1 DEF Expectations
        <5>4. expects = "required" => (bench.proof = "passed") # FALSE
          BY <5>1 DEF Expectations
        <5>5. expects = "forbidden" => (bench.proof # "passed") # FALSE
          BY <5>1 DEF Expectations
        <5> QED BY <5>1, <5>2, <5>3, <5>4, <5>5
      <4> QED BY <1>1, <2>0, <4>4, <4>5, <4>6 DEF GradingInv, ReadsStand
    <3> QED BY <1>4, <3>1, <3>2, <3>3, <3>4
  <2>2. GradingTypes'
    BY <1>1, <2>0, <2>1 DEF GradingInv, GradingTypes
  <2>3. ChecksTellTheFiles'
    BY <1>1, <1>2, <2>0 DEF GradingInv, ChecksTellTheFiles
  <2>4. EndsAreProven'
    BY <1>1, <2>0, <2>1 DEF GradingInv, EndsAreProven, IsProven
  <2> QED BY <2>1, <2>2, <2>3, <2>4 DEF GradingInv
<1> QED BY <1>3, <1>4

LEMMA GradingSteps ==
  ASSUME GradingInv, [GradingNext]_GradingVars
  PROVE  GradingInv'
<1>1. CASE UNCHANGED GradingVars
  <2>1. UNCHANGED <<graded, files, work, evidence, bench>>
    BY <1>1 DEF GradingVars
  <2>2. (Verifies' <=> Verifies) /\ \A checks : Checked(checks)' <=> Checked(checks)
    BY <2>1 DEF Verifies, Checked, Unpermitted
  <2> QED BY <2>1, <2>2 DEF GradingInv, GradingTypes, ChecksTellTheFiles, EndsAreProven, ReadsStand, IsProven
<1> QED BY <1>1, SessionSteps, ChecksStep, BenchSteps DEF GradingNext

-----------------------------------------------------------------------------
(* A fold along a sequence (FoldLeft), step by step.                           *)

\* Of some numbers up to a bound there is a greatest one.
LEMMA GreatestOf ==
  ASSUME NEW n \in Nat, NEW s \in SUBSET (1..n), s # {}
  PROVE  Max(s) \in s /\ \A i \in s : i <= Max(s)
<1> DEFINE depth == {n - i : i \in s}
<1>1. depth \in SUBSET Nat /\ depth # {}
  <2>1. \A i \in s : i \in 1..n /\ n - i \in Nat
    OBVIOUS
  <2> QED BY <2>1
<1>2. PICK d \in depth : \A e \in depth : d <= e
  BY <1>1, LeastOf
<1>3. PICK i \in s : d = n - i
  BY <1>2
<1>4. ASSUME NEW j \in s PROVE i >= j
  <2>1. n - j \in depth /\ i \in 1..n /\ j \in 1..n
    BY <1>3, <1>4
  <2>2. d <= n - j /\ d = n - i
    BY <1>2, <1>3, <2>1
  <2> HIDE DEF depth
  <2> QED BY <2>1, <2>2
<1>5. \E x \in s : \A y \in s : x >= y
  BY <1>4
<1>6. Max(s) \in s /\ \A y \in s : Max(s) >= y
  BY <1>5 DEF Max
<1> QED BY <1>6

\* The numbers up to i, without the greatest of them.
LEMMA UpToOneLess ==
  ASSUME NEW i \in Nat \ {0}
  PROVE  Max(1..i) = i /\ (1..i) \ {i} = 1..(i - 1)
<1>1. i \in Nat /\ i \in 1..i /\ 1..i \in SUBSET (1..i) /\ 1..i # {}
  OBVIOUS
<1>2. PICK all : all = 1..i
  OBVIOUS
<1>3. all \in SUBSET (1..i) /\ all # {}
  BY <1>1, <1>2
<1>4. Max(all) \in all /\ \A j \in all : j <= Max(all)
  BY <1>1, <1>3, GreatestOf
<1>5. PICK m : m = Max(all)
  OBVIOUS
<1>6. m \in 1..i /\ i <= m
  BY <1>1, <1>2, <1>4, <1>5
<1>7. m = i
  BY <1>1, <1>6
<1>8. (1..i) \ {i} = 1..(i - 1)
  OBVIOUS
<1> QED BY <1>2, <1>5, <1>7, <1>8

\* h and f go through the numbers up to n, from the least to the greatest, and take
\* a step at each: f over the numbers, h over all their sets.
GoesThrough(h, f, n, origin, step) ==
  /\ \A s \in SUBSET (1..n) : h[s] = IF s = {} THEN origin ELSE step[<<h[s \ {Max(s)}], Max(s)>>]
  /\ f[0] = origin /\ f[n] = h[1..n]
  /\ \A i \in 1..n : f[i] = step[<<f[i - 1], i>>]

\* Whatever the steps, there are such functions.
LEMMA StepByStep ==
  ASSUME NEW Acc, NEW n \in Nat, NEW origin \in Acc, NEW step \in [Acc \X (1..n) -> Acc]
  PROVE  \E h \in [SUBSET (1..n) -> Acc], f \in [0..n -> Acc] : GoesThrough(h, f, n, origin, step)
<1> DEFINE next(h, s) == IF s = {} THEN origin ELSE step[<<h[s \ {Max(s)}], Max(s)>>]
           UpTo(h, m) == \A s \in SUBSET (1..n) : Cardinality(s) <= m => h[s] = next(h, s)
           short == {m \in 0..n : ~\E h \in [SUBSET (1..n) -> Acc] : UpTo(h, m)}
<1>1. \A s \in SUBSET (1..n) : /\ IsFiniteSet(s) /\ Cardinality(s) \in 0..n
                               /\ Cardinality(s) = 0 <=> s = {}
  <2>1. IsFiniteSet(1..n) /\ Cardinality(1..n) = n
    BY FS_Interval
  <2>2. ASSUME NEW s \in SUBSET (1..n)
        PROVE  IsFiniteSet(s) /\ Cardinality(s) \in 0..n /\ (Cardinality(s) = 0 <=> s = {})
    <3>1. IsFiniteSet(s) /\ Cardinality(s) <= Cardinality(1..n)
      BY <2>1, FS_Subset, Zenon
    <3>2. Cardinality(s) \in Nat /\ (Cardinality(s) = 0 <=> s = {})
      BY <3>1, FS_CardinalityType, FS_EmptySet
    <3> QED BY <2>1, <3>1, <3>2
  <2> QED BY <2>2
<1>2. \A s \in SUBSET (1..n) : s # {} => /\ Max(s) \in s /\ Max(s) \in 1..n /\ s \ {Max(s)} \in SUBSET (1..n)
                                         /\ Cardinality(s \ {Max(s)}) = Cardinality(s) - 1
  <2> SUFFICES ASSUME NEW s \in SUBSET (1..n), s # {}
               PROVE  /\ Max(s) \in s /\ Max(s) \in 1..n /\ s \ {Max(s)} \in SUBSET (1..n)
                      /\ Cardinality(s \ {Max(s)}) = Cardinality(s) - 1
    OBVIOUS
  <2>1. Max(s) \in s
    BY GreatestOf
  <2>2. Cardinality(s \ {Max(s)}) = Cardinality(s) - 1
    BY <1>1, <2>1, FS_RemoveElement
  <2> QED BY <2>1, <2>2
<1>3. short = {}
  <2> SUFFICES ASSUME short # {} PROVE FALSE
    OBVIOUS
  <2>1. short \in SUBSET Nat
    OBVIOUS
  <2>2. PICK m \in short : \A k \in short : m <= k
    BY <2>1, LeastOf
  <2>3. m \in 0..n /\ ~\E h \in [SUBSET (1..n) -> Acc] : UpTo(h, m)
    BY <2>2
  <2>4. CASE m = 0
    <3> DEFINE h == [s \in SUBSET (1..n) |-> origin]
    <3>1. h \in [SUBSET (1..n) -> Acc]
      OBVIOUS
    <3>2. ASSUME NEW s \in SUBSET (1..n), Cardinality(s) <= m PROVE h[s] = next(h, s)
      <4>1. s = {}
        BY <1>1, <2>4, <3>2
      <4> QED BY <4>1
    <3> HIDE DEF h
    <3> QED BY <2>3, <3>1, <3>2
  <2>5. CASE m # 0
    <3>1. m - 1 \in 0..n /\ ~(m <= m - 1)
      BY <2>3, <2>5
    <3>2. m - 1 \notin short
      BY <2>2, <3>1
    <3>3. PICK g \in [SUBSET (1..n) -> Acc] : UpTo(g, m - 1)
      BY <3>1, <3>2
    <3> DEFINE h == [s \in SUBSET (1..n) |-> next(g, s)]
    <3>4. h \in [SUBSET (1..n) -> Acc]
      <4>1. ASSUME NEW s \in SUBSET (1..n) PROVE next(g, s) \in Acc
        BY <1>2
      <4> QED BY <4>1
    <3>5. ASSUME NEW s \in SUBSET (1..n), Cardinality(s) <= m PROVE h[s] = next(h, s)
      <4>1. CASE s = {}
        BY <4>1
      <4>2. CASE s # {}
        <5>1. s \ {Max(s)} \in SUBSET (1..n) /\ Cardinality(s \ {Max(s)}) = Cardinality(s) - 1 /\ Cardinality(s) \in 0..n
          BY <1>1, <1>2, <4>2
        <5>2. Cardinality(s \ {Max(s)}) <= m - 1
          BY <2>3, <3>5, <5>1
        <5>3. g[s \ {Max(s)}] = next(g, s \ {Max(s)})
          BY <3>3, <5>1, <5>2
        <5>4. h[s \ {Max(s)}] = g[s \ {Max(s)}] /\ h[s] = next(g, s)
          BY <5>1, <5>3
        <5> QED BY <4>2, <5>4
      <4> QED BY <4>1, <4>2
    <3> HIDE DEF h, next
    <3> QED BY <2>3, <3>4, <3>5
  <2> QED BY <2>4, <2>5
<1>4. PICK h \in [SUBSET (1..n) -> Acc] : UpTo(h, n)
  <2>1. n \in 0..n
    OBVIOUS
  <2> QED BY <1>3, <2>1
<1>5. \A s \in SUBSET (1..n) : h[s] = next(h, s)
  BY <1>1, <1>4
<1> DEFINE f == [i \in 0..n |-> h[1..i]]
<1>6. f \in [0..n -> Acc]
  <2>1. ASSUME NEW i \in 0..n PROVE h[1..i] \in Acc
    <3>1. 1..i \in SUBSET (1..n)
      OBVIOUS
    <3> QED BY <3>1
  <2> QED BY <2>1
<1>7. f[0] = origin /\ f[n] = h[1..n]
  <2>1. 1..0 = {} /\ 0 \in 0..n /\ n \in 0..n
    OBVIOUS
  <2> QED BY <1>5, <2>1
<1>8. ASSUME NEW i \in 1..n PROVE f[i] = step[<<f[i - 1], i>>]
  <2>1. 1..i \in SUBSET (1..n) /\ 1..i # {} /\ i \in Nat \ {0} /\ i \in 0..n /\ i - 1 \in 0..n
    OBVIOUS
  <2>2. h[1..i] = step[<<h[(1..i) \ {Max(1..i)}], Max(1..i)>>]
    BY <1>5, <2>1
  <2>3. h[1..i] = step[<<h[1..(i - 1)], i>>]
    BY <2>1, <2>2, UpToOneLess
  <2> QED BY <2>1, <2>3
<1> HIDE DEF f
<1>9. GoesThrough(h, f, n, origin, step)
  BY <1>5, <1>7, <1>8 DEF GoesThrough
<1> QED BY <1>6, <1>9

\* Two ways to go through them that take the same steps arrive at the same.
LEMMA OneWayThrough ==
  ASSUME NEW n \in Nat, NEW one, NEW other, one[{}] = other[{}],
         \A s \in SUBSET (1..n) : s # {} /\ one[s \ {Max(s)}] = other[s \ {Max(s)}] => one[s] = other[s]
  PROVE  one[1..n] = other[1..n]
<1> DEFINE good == {s \in SUBSET (1..n) : one[s] = other[s]}
           pick == [s \in SUBSET (1..n) |-> Max(s)]
<1>1. IsFiniteSet(1..n)
  BY FS_Interval
<1>2. {} \in good
  OBVIOUS
<1>3. \A s \in SUBSET (1..n) : s # {} => pick[s] \in s /\ (s \ {pick[s]} \in good => s \in good)
  BY GreatestOf
<1> HIDE DEF good, pick
<1>4. 1..n \in good
  BY <1>1, <1>2, <1>3, PickedOneByOne, ZenonT(60)
<1> QED BY <1>4 DEF good
-----------------------------------------------------------------------------
(* buildTrace: the nodes that a fold over the events makes.                    *)

TraceNode == [kind : ThingKind, key : {<< >>} \cup (ThingKind \X Nat), status : Status]

LEMMA KeysOfEvents ==
  ASSUME NEW e \in TraceEvent
  PROVE  /\ NodeOf(e) \in TraceNode /\ NodeOf(e).key = KeyForEvent(e)
         /\ NodeOf(e).kind = e.kind /\ NodeOf(e).status = e.status
         /\ e.key # 0 => KeyForEvent(e) = <<e.kind, e.key>> /\ KeyForEvent(e) # << >>
         /\ e.key = 0 => KeyForEvent(e) = << >>
<1>1. e.kind \in ThingKind /\ e.key \in Nat /\ e.status \in Status
  BY TraceAssumption DEF TraceEvent
<1>2. <<e.kind, e.key>> # << >>
  OBVIOUS
<1>3. KeyForEvent(e) \in {<< >>} \cup (ThingKind \X Nat)
  BY <1>1 DEF KeyForEvent
<1> QED BY <1>1, <1>2, <1>3 DEF NodeOf, KeyForEvent, TraceNode

\* An event is a node of its own, or takes the place of the one it claims.
LEMMA EventIsTraced ==
  ASSUME NEW nodes \in Seq(TraceNode), NEW e \in TraceEvent
  PROVE  FoldEvent(nodes, e) \in Seq(TraceNode)
<1> DEFINE same == {i \in DOMAIN nodes : KeyForEvent(e) # <<>> /\ nodes[i].key = KeyForEvent(e)}
           put == [i \in DOMAIN nodes |-> IF i \in same THEN NodeOf(e) ELSE nodes[i]]
<1>1. NodeOf(e) \in TraceNode
  BY KeysOfEvents
<1>2. Append(nodes, NodeOf(e)) \in Seq(TraceNode)
  BY <1>1, OneMore
<1>3. put \in Seq(TraceNode)
  <2>1. Len(nodes) \in Nat /\ DOMAIN nodes = 1..Len(nodes) /\ \A i \in 1..Len(nodes) : nodes[i] \in TraceNode
    BY LenProperties, ElementOfSeq
  <2>2. put \in [1..Len(nodes) -> TraceNode]
    BY <1>1, <2>1
  <2> HIDE DEF put
  <2> QED BY <2>1, <2>2, SeqDef
<1>4. FoldEvent(nodes, e) = IF same = {} THEN Append(nodes, NodeOf(e)) ELSE put
  BY DEF FoldEvent
<1> QED BY <1>2, <1>3, <1>4

LEMMA TraceIsFolded ==
  ASSUME NEW s \in Seq(TraceEvent)
  PROVE  \E f \in [0..Len(s) -> Seq(TraceNode)] :
           /\ f[0] = << >> /\ f[Len(s)] = FoldLeft(FoldEvent, << >>, s)
           /\ \A i \in 1..Len(s) : f[i] = FoldEvent(f[i - 1], s[i])
<1>1. PICK n \in Nat : n = Len(s)
  BY LenProperties
<1>2. DOMAIN s = 1..n /\ \A i \in 1..n : s[i] \in TraceEvent
  BY <1>1, LenProperties, ElementOfSeq
<1> DEFINE step == [p \in Seq(TraceNode) \X (1..n) |-> FoldEvent(p[1], s[p[2]])]
           steps(it) == [t \in SUBSET (1..n) |-> IF t = {} THEN << >> ELSE FoldEvent(it[t \ {Max(t)}], s[Max(t)])]
           fold == CHOOSE it : it = steps(it)
<1>3. step \in [Seq(TraceNode) \X (1..n) -> Seq(TraceNode)]
  BY <1>2, EventIsTraced
<1>4. << >> \in Seq(TraceNode)
  OBVIOUS
<1>5. FoldLeft(FoldEvent, << >>, s) = fold[1..n]
  BY <1>2, Zenon DEF FoldLeft, MapThenFoldSet
<1>6. \A nodes \in Seq(TraceNode), i \in 1..n : step[<<nodes, i>>] = FoldEvent(nodes, s[i])
  OBVIOUS
<1> HIDE DEF step
<1>a. PICK h \in [SUBSET (1..n) -> Seq(TraceNode)], f \in [0..n -> Seq(TraceNode)] :
         GoesThrough(h, f, n, << >>, step)
  BY <1>3, <1>4, StepByStep
<1>7. /\ \A t \in SUBSET (1..n) : h[t] = IF t = {} THEN << >> ELSE step[<<h[t \ {Max(t)}], Max(t)>>]
      /\ f[0] = << >> /\ f[n] = h[1..n]
      /\ \A i \in 1..n : f[i] = step[<<f[i - 1], i>>]
  BY <1>a DEF GoesThrough
<1>8. h = steps(h)
  <2>1. ASSUME NEW t \in SUBSET (1..n), t # {}
        PROVE  h[t] = FoldEvent(h[t \ {Max(t)}], s[Max(t)])
    <3>1. Max(t) \in 1..n /\ t \ {Max(t)} \in SUBSET (1..n)
      BY <2>1, GreatestOf
    <3>2. h[t] = step[<<h[t \ {Max(t)}], Max(t)>>] /\ h[t \ {Max(t)}] \in Seq(TraceNode)
      BY <1>7, <2>1, <3>1
    <3> QED BY <1>6, <3>1, <3>2
  <2>2. \A t \in SUBSET (1..n) : h[t] = steps(h)[t]
    BY <1>7, <2>1
  <2>3. h = [t \in SUBSET (1..n) |-> h[t]]
    OBVIOUS
  <2> QED BY <2>2, <2>3
<1>9. fold = steps(fold)
  BY <1>8
<1> HIDE DEF fold
<1>10. fold[1..n] = h[1..n]
  <2>1. fold[{}] = h[{}]
    BY <1>8, <1>9
  <2>2. \A t \in SUBSET (1..n) : t # {} /\ fold[t \ {Max(t)}] = h[t \ {Max(t)}] => fold[t] = h[t]
    <3>1. \A t \in SUBSET (1..n) : t # {} => /\ fold[t] = FoldEvent(fold[t \ {Max(t)}], s[Max(t)])
                                             /\ h[t] = FoldEvent(h[t \ {Max(t)}], s[Max(t)])
      BY <1>8, <1>9
    <3> QED BY <3>1
  <2> QED BY <2>1, <2>2, OneWayThrough
<1>11. \A i \in 1..n : f[i] = FoldEvent(f[i - 1], s[i])
  <2>1. \A i \in 1..n : i - 1 \in 0..n /\ f[i - 1] \in Seq(TraceNode)
    OBVIOUS
  <2> QED BY <1>6, <1>7, <2>1
<1> QED BY <1>1, <1>5, <1>7, <1>10, <1>11

\* Nodes of a log: each is of an event of its own, the last to claim it, no two are
\* of the same thing, and everything that an event names has one.
LastClaims(last, nodes, s, m) ==
  /\ last \in [DOMAIN nodes -> 1..m]
  /\ \A i, j \in DOMAIN nodes : last[i] = last[j] => i = j
  /\ \A i \in DOMAIN nodes : nodes[i] = NodeOf(s[last[i]])

AreOf(nodes, s, m) ==
  /\ nodes \in Seq(TraceNode)
  /\ \E last : LastClaims(last, nodes, s, m)
  /\ \A i, j \in DOMAIN nodes : nodes[i].key # << >> /\ nodes[i].key = nodes[j].key => i = j
  /\ \A k \in 1..m : s[k].key # 0 => \E i \in DOMAIN nodes : nodes[i].key = <<s[k].kind, s[k].key>>

LEMMA OneEventMore ==
  ASSUME NEW s \in Seq(TraceEvent), NEW m \in Nat, m + 1 <= Len(s), NEW nodes, AreOf(nodes, s, m)
  PROVE  AreOf(FoldEvent(nodes, s[m + 1]), s, m + 1)
<1>1. PICK e : e = s[m + 1]
  OBVIOUS
<1>2. /\ e \in TraceEvent /\ Len(s) \in Nat /\ DOMAIN s = 1..Len(s)
      /\ \A k \in 1..m + 1 : s[k] \in TraceEvent
  <2>1. Len(s) \in Nat /\ DOMAIN s = 1..Len(s)
    BY LenProperties
  <2>2. \A k \in 1..m + 1 : k \in 1..Len(s)
    BY <2>1
  <2>3. \A k \in 1..Len(s) : s[k] \in TraceEvent
    BY <2>1, ElementOfSeq
  <2>4. m + 1 \in 1..m + 1
    OBVIOUS
  <2> QED BY <1>1, <2>1, <2>2, <2>3, <2>4
<1>3. PICK n \in Nat : n = Len(nodes) /\ DOMAIN nodes = 1..n
  BY LenProperties DEF AreOf
<1>4. PICK last \in [DOMAIN nodes -> 1..m] : /\ \A i, j \in DOMAIN nodes : last[i] = last[j] => i = j
                                             /\ \A i \in DOMAIN nodes : nodes[i] = NodeOf(s[last[i]])
  BY DEF AreOf, LastClaims
<1>5. /\ nodes \in Seq(TraceNode) /\ \A i \in 1..n : nodes[i] \in TraceNode
      /\ \A i, j \in DOMAIN nodes : nodes[i].key # << >> /\ nodes[i].key = nodes[j].key => i = j
      /\ \A k \in 1..m : s[k].key # 0 => \E i \in DOMAIN nodes : nodes[i].key = <<s[k].kind, s[k].key>>
  <2>1. nodes \in Seq(TraceNode)
    BY DEF AreOf
  <2>2. \A i \in 1..n : nodes[i] \in TraceNode
    BY <1>3, <2>1, ElementOfSeq
  <2> QED BY <2>1, <2>2 DEF AreOf
<1> DEFINE same == {i \in DOMAIN nodes : KeyForEvent(e) # <<>> /\ nodes[i].key = KeyForEvent(e)}
           put == [i \in DOMAIN nodes |-> IF i \in same THEN NodeOf(e) ELSE nodes[i]]
           new == FoldEvent(nodes, e)
<1>6. new \in Seq(TraceNode)
  BY <1>2, <1>5, EventIsTraced
<1>7. /\ NodeOf(e) \in TraceNode /\ NodeOf(e).key = KeyForEvent(e)
      /\ e.key # 0 => KeyForEvent(e) = <<e.kind, e.key>> /\ KeyForEvent(e) # << >>
  BY <1>2, KeysOfEvents
<1>8. \A k \in 1..m + 1 : k \in 1..m \/ (k = m + 1 /\ s[k] = e)
  BY <1>1
<1>9. CASE same = {}
  <2>1. new = Append(nodes, NodeOf(e))
    BY <1>9 DEF FoldEvent
  <2>2. /\ DOMAIN new = 1..n + 1 /\ new[n + 1] = NodeOf(e)
        /\ \A i \in 1..n : new[i] = nodes[i]
    BY <1>3, <1>5, <1>7, <2>1, OneMore
  <2> DEFINE after == [i \in 1..n + 1 |-> IF i = n + 1 THEN m + 1 ELSE last[i]]
  <2> HIDE DEF new, same
  <2>3. after \in [1..n + 1 -> 1..m + 1]
    BY <1>3, <1>4
  <2>4. \A i, j \in 1..n + 1 : after[i] = after[j] => i = j
    <3>1. \A i \in 1..n : after[i] = last[i] /\ last[i] \in 1..m /\ last[i] # m + 1
      BY <1>3, <1>4
    <3>2. after[n + 1] = m + 1
      OBVIOUS
    <3>3. \A i \in 1..n + 1 : i \in 1..n \/ i = n + 1
      OBVIOUS
    <3> HIDE DEF after
    <3> QED BY <1>3, <1>4, <3>1, <3>2, <3>3
  <2>5. \A i \in 1..n + 1 : new[i] = NodeOf(s[after[i]])
    <3>1. ASSUME NEW i \in 1..n PROVE new[i] = NodeOf(s[after[i]])
      <4>1. after[i] = last[i]
        OBVIOUS
      <4> QED BY <1>3, <1>4, <2>2, <4>1
    <3>2. new[n + 1] = NodeOf(s[after[n + 1]])
      BY <1>1, <2>2
    <3>3. \A i \in 1..n + 1 : i \in 1..n \/ i = n + 1
      OBVIOUS
    <3> HIDE DEF after
    <3> QED BY <3>1, <3>2, <3>3
  <2>6. \A i, j \in 1..n + 1 : new[i].key # << >> /\ new[i].key = new[j].key => i = j
    <3>1. \A i \in 1..n : KeyForEvent(e) # << >> => nodes[i].key # KeyForEvent(e)
      BY <1>3, <1>9 DEF same
    <3>2. \A i \in 1..n + 1 : i \in 1..n \/ i = n + 1
      OBVIOUS
    <3>3. \A i, j \in 1..n : new[i].key # << >> /\ new[i].key = new[j].key => i = j
      BY <1>3, <1>5, <2>2, SMTT(30)
    <3>4. \A i \in 1..n : new[n + 1].key # << >> => new[i].key # new[n + 1].key
      BY <1>7, <2>2, <3>1
    <3> QED BY <3>2, <3>3, <3>4
  <2>7. ASSUME NEW k \in 1..m + 1, s[k].key # 0
        PROVE  \E i \in 1..n + 1 : new[i].key = <<s[k].kind, s[k].key>>
    <3>1. CASE k \in 1..m
      <4>1. PICK i \in 1..n : nodes[i].key = <<s[k].kind, s[k].key>>
        BY <1>3, <1>5, <2>7, <3>1
      <4>2. i \in 1..n + 1 /\ new[i] = nodes[i]
        BY <2>2
      <4> QED BY <4>1, <4>2
    <3>2. CASE s[k] = e
      <4>1. n + 1 \in 1..n + 1
        OBVIOUS
      <4> QED BY <1>7, <2>2, <2>7, <3>2, <4>1
    <3> QED BY <1>8, <3>1, <3>2
  <2> HIDE DEF after
  <2>a. LastClaims(after, new, s, m + 1)
    BY <2>2, <2>3, <2>4, <2>5 DEF LastClaims
  <2>b. \A k \in 1..m + 1 : s[k].key # 0 => \E i \in 1..n + 1 : new[i].key = <<s[k].kind, s[k].key>>
    BY <2>7
  <2>8. AreOf(new, s, m + 1)
    BY <1>6, <2>2, <2>6, <2>a, <2>b DEF AreOf
  <2> QED BY <1>1, <2>8 DEF new
<1>10. CASE same # {}
  <2>1. new = put
    BY <1>10 DEF FoldEvent
  <2>2. PICK c \in 1..n : c \in same
    BY <1>3, <1>10
  <2>3. /\ DOMAIN new = 1..n /\ new[c] = NodeOf(e) /\ nodes[c].key = KeyForEvent(e) /\ KeyForEvent(e) # << >>
        /\ \A i \in 1..n : i # c => new[i] = nodes[i]
    <3>1. \A i \in same : i = c
      BY <1>5, <2>2
    <3> QED BY <1>3, <2>1, <2>2, <3>1
  <2> DEFINE after == [last EXCEPT ![c] = m + 1]
  <2> HIDE DEF new, same, put
  <2>4. /\ after \in [1..n -> 1..m + 1] /\ after[c] = m + 1
        /\ \A i \in 1..n : i # c => after[i] = last[i] /\ last[i] \in 1..m /\ last[i] # m + 1
    <3>1. last \in [1..n -> 1..m]
      BY <1>3, <1>4
    <3>2. \A x \in 1..m : x \in 1..m + 1 /\ x # m + 1
      OBVIOUS
    <3>3. \A i \in 1..n : last[i] \in 1..m + 1 /\ last[i] # m + 1
      BY <3>1, <3>2
    <3>4. m + 1 \in 1..m + 1
      OBVIOUS
    <3> QED BY <2>2, <3>1, <3>3, <3>4
  <2> HIDE DEF after
  <2>5. \A i, j \in 1..n : after[i] = after[j] => i = j
    BY <1>3, <1>4, <2>4, ZenonT(60)
  <2>6. \A i \in 1..n : new[i] = NodeOf(s[after[i]])
    BY <1>1, <1>3, <1>4, <2>3, <2>4
  <2>7. \A i \in 1..n : new[i].key = nodes[i].key
    BY <1>7, <2>3
  <2>8. \A i, j \in 1..n : new[i].key # << >> /\ new[i].key = new[j].key => i = j
    BY <1>3, <1>5, <2>7, ZenonT(60)
  <2>9. ASSUME NEW k \in 1..m + 1, s[k].key # 0
        PROVE  \E i \in 1..n : new[i].key = <<s[k].kind, s[k].key>>
    <3>1. CASE k \in 1..m
      BY <1>3, <1>5, <2>7, <2>9, <3>1
    <3>2. CASE s[k] = e
      BY <1>7, <2>3, <2>9, <3>2
    <3> QED BY <1>8, <3>1, <3>2
  <2>a. LastClaims(after, new, s, m + 1)
    BY <2>3, <2>4, <2>5, <2>6 DEF LastClaims
  <2>b. \A k \in 1..m + 1 : s[k].key # 0 => \E i \in 1..n : new[i].key = <<s[k].kind, s[k].key>>
    BY <2>9
  <2>10. AreOf(new, s, m + 1)
    BY <1>6, <2>3, <2>8, <2>a, <2>b DEF AreOf
  <2> QED BY <1>1, <2>10 DEF new
<1> QED BY <1>9, <1>10

LEMMA NodesAreOfTheLog ==
  ASSUME NEW s \in Seq(TraceEvent)
  PROVE  AreOf(FoldLeft(FoldEvent, << >>, s), s, Len(s))
<1>1. PICK n \in Nat : n = Len(s)
  BY LenProperties
<1>2. PICK f \in [0..n -> Seq(TraceNode)] :
         /\ f[0] = << >> /\ f[n] = FoldLeft(FoldEvent, << >>, s)
         /\ \A i \in 1..n : f[i] = FoldEvent(f[i - 1], s[i])
  BY <1>1, TraceIsFolded
<1> DEFINE wrong == {m \in 0..n : ~AreOf(f[m], s, m)}
<1>3. wrong = {}
  <2> SUFFICES ASSUME wrong # {} PROVE FALSE
    OBVIOUS
  <2>1. wrong \in SUBSET Nat
    OBVIOUS
  <2>2. PICK m \in wrong : \A k \in wrong : m <= k
    BY <2>1, LeastOf
  <2>3. m \in 0..n /\ ~AreOf(f[m], s, m)
    BY <2>2
  <2>4. CASE m = 0
    <3>1. f[m] = << >> /\ DOMAIN << >> = {} /\ 1..m = {} /\ << >> \in Seq(TraceNode)
      BY <1>2, <2>4
    <3>2. LastClaims([i \in {} |-> 1], << >>, s, m)
      BY <3>1 DEF LastClaims
    <3>3. AreOf(<< >>, s, m)
      BY <3>1, <3>2 DEF AreOf
    <3> QED BY <2>3, <3>1, <3>3
  <2>5. CASE m # 0
    <3>1. PICK k \in 0..n : k = m - 1
      BY <2>3, <2>5
    <3>2. m = k + 1 /\ k \in Nat /\ m \in 1..n /\ k + 1 <= Len(s) /\ ~(m <= k)
      BY <1>1, <2>3, <2>5, <3>1
    <3>3. AreOf(f[k], s, k)
      BY <2>2, <3>2
    <3>4. AreOf(FoldEvent(f[k], s[k + 1]), s, k + 1)
      BY <3>2, <3>3, OneEventMore
    <3>5. f[m] = FoldEvent(f[k], s[k + 1])
      BY <1>2, <3>1, <3>2
    <3> QED BY <2>3, <3>2, <3>4, <3>5
  <2> QED BY <2>4, <2>5
<1>4. n \in 0..n
  OBVIOUS
<1>5. AreOf(f[n], s, n)
  BY <1>3, <1>4
<1> QED BY <1>1, <1>2, <1>5

\* A finite set is listed without repetition.
Lists(q, c, S) ==
  /\ q \in [1..c -> S] /\ q \in Seq(S) /\ Len(q) = c
  /\ \A i, j \in 1..c : q[i] = q[j] => i = j
  /\ \A x \in S : \E i \in 1..c : q[i] = x

LEMMA ListedOnce ==
  ASSUME NEW S, IsFiniteSet(S)
  PROVE  \E c \in Nat : Lists(SetToSeq(S), c, S)
<1>1. PICK c \in Nat : c = Cardinality(S) /\ ExistsBijection(1..c, S)
  BY FS_CardinalityType
<1>2. \E f \in [1..c -> S] : IsInjective(f)
  BY <1>1 DEF ExistsBijection, Bijection, Injection
<1>3. PICK q : q = SetToSeq(S)
  OBVIOUS
<1>4. q \in [1..c -> S] /\ IsInjective(q)
  BY <1>1, <1>2, <1>3 DEF SetToSeq
<1>5. IsFiniteSet(1..c) /\ Cardinality(1..c) = c
  BY FS_Interval
<1>6. q \in Injection(1..c, S)
  BY <1>4 DEF Injection
<1>7. q \in Surjection(1..c, S)
  BY <1>1, <1>5, <1>6, FS_Injection
<1>8. q \in Seq(S) /\ Len(q) = c
  BY <1>4, SeqDef
<1>9. \A i, j \in 1..c : q[i] = q[j] => i = j
  BY <1>4 DEF IsInjective
<1> QED BY <1>3, <1>4, <1>7, <1>8, <1>9 DEF Surjection, Lists

RecordNode(r) == [kind |-> r.kind, key |-> <<r.kind, r.key>>, status |-> r.status]
OneRecordEach(records) == \A r, t \in records : r.kind = t.kind /\ r.key = t.key => r = t

\* The nodes of a log, then the records it does not claim, each once.
IsTrace(nodes, claimed, records) ==
  /\ nodes \in Seq(TraceNode) /\ Len(claimed) <= Len(nodes)
  /\ \A i \in 1..Len(claimed) : nodes[i] = claimed[i]
  /\ \A i \in 1..Len(nodes) : i > Len(claimed) =>
       \E r \in records : nodes[i] = RecordNode(r) /\ \A j \in 1..Len(claimed) : claimed[j].key # RecordNode(r).key
  /\ \A i, j \in 1..Len(nodes) : nodes[i].key # << >> /\ nodes[i].key = nodes[j].key => i = j
  /\ \A r \in records : \E i \in 1..Len(nodes) : nodes[i].key = RecordNode(r).key

LEMMA RecordsAreNodes ==
  ASSUME NEW s \in Seq(TraceEvent), NEW claimed, NEW m, AreOf(claimed, s, m),
         NEW records \in SUBSET TraceEvent, IsFiniteSet(records), OneRecordEach(records)
  PROVE  IsTrace(AppendMissing(claimed, records), claimed, records)
<1> DEFINE missing == {n \in {[kind |-> r.kind, key |-> <<r.kind, r.key>>, status |-> r.status] : r \in records} :
                         \A i \in DOMAIN claimed : claimed[i].key # n.key}
           nodes == AppendMissing(claimed, records)
<1>1. nodes = claimed \o SetToSeq(missing)
  BY DEF AppendMissing
<1>2. \A r \in records : /\ RecordNode(r) \in TraceNode /\ RecordNode(r).key = <<r.kind, r.key>>
                         /\ RecordNode(r).key # << >>
  BY TraceAssumption DEF RecordNode, TraceNode, TraceEvent
<1>3. /\ \A n \in missing : \E r \in records : n = RecordNode(r)
      /\ \A n \in missing : \A i \in DOMAIN claimed : claimed[i].key # n.key
      /\ \A r \in records : RecordNode(r) \in missing \/ \E i \in DOMAIN claimed : claimed[i].key = RecordNode(r).key
  BY DEF RecordNode
<1>4. IsFiniteSet(missing)
  <2> DEFINE all == {RecordNode(r) : r \in records}
             node == [r \in records |-> RecordNode(r)]
  <2>1. node \in Surjection(records, all)
    BY DEF Surjection
  <2> HIDE DEF node
  <2>2. IsFiniteSet(all)
    BY <2>1, FS_Surjection
  <2>3. missing \in SUBSET all
    BY <1>3
  <2> HIDE DEF all, missing
  <2> QED BY <2>2, <2>3, FS_Subset
<1>5. \A n, o \in missing : n.key = o.key => n = o
  <2> SUFFICES ASSUME NEW n \in missing, NEW o \in missing, n.key = o.key PROVE n = o
    OBVIOUS
  <2>1. PICK r \in records, t \in records : n = RecordNode(r) /\ o = RecordNode(t)
    BY <1>3
  <2>2. <<r.kind, r.key>> = <<t.kind, t.key>>
    BY <1>2, <2>1
  <2>3. r = t
    BY <2>2 DEF OneRecordEach
  <2> QED BY <2>1, <2>3
<1> HIDE DEF missing
<1>a. PICK rest : rest = SetToSeq(missing)
  OBVIOUS
<1>b. PICK c \in Nat : Lists(rest, c, missing)
  BY <1>4, <1>a, ListedOnce
<1>6. /\ rest \in [1..c -> missing] /\ rest \in Seq(missing) /\ Len(rest) = c
      /\ \A i, j \in 1..c : rest[i] = rest[j] => i = j
      /\ \A x \in missing : \E i \in 1..c : rest[i] = x
  BY <1>b DEF Lists
<1>7. missing \subseteq TraceNode
  BY <1>2, <1>3
<1>8. PICK l \in Nat : l = Len(claimed) /\ claimed \in Seq(TraceNode) /\ DOMAIN claimed = 1..l
  BY LenProperties DEF AreOf
<1>9. rest \in Seq(TraceNode)
  <2>1. rest \in [1..c -> TraceNode]
    BY <1>6, <1>7
  <2> QED BY <2>1, SeqDef
<1>10. /\ nodes \in Seq(TraceNode) /\ Len(nodes) = l + c
       /\ \A i \in 1..l : nodes[i] = claimed[i]
       /\ \A i \in 1..c : nodes[l + i] = rest[i]
  <2>1. PICK both : both = claimed \o rest
    OBVIOUS
  <2>a. /\ both \in Seq(TraceNode) /\ Len(both) = Len(claimed) + Len(rest)
        /\ \A i \in 1..Len(claimed) + Len(rest) : both[i] = IF i <= Len(claimed) THEN claimed[i] ELSE rest[i - Len(claimed)]
    BY <1>8, <1>9, <2>1, ConcatProperties
  <2>2. /\ both \in Seq(TraceNode) /\ Len(both) = l + c
        /\ \A i \in 1..l + c : both[i] = IF i <= l THEN claimed[i] ELSE rest[i - l]
    BY <1>6, <1>8, <2>a
  <2>3. \A i \in 1..l : i \in 1..l + c /\ i <= l
    OBVIOUS
  <2>4. \A i \in 1..c : l + i \in 1..l + c /\ ~(l + i <= l) /\ l + i - l = i
    OBVIOUS
  <2>5. nodes = both
    BY <1>1, <1>a, <2>1
  <2> HIDE DEF nodes
  <2> QED BY <2>2, <2>3, <2>4, <2>5
<1> HIDE DEF nodes
<1>11. \A i \in 1..l + c : i \in 1..l \/ \E k \in 1..c : i = l + k
  <2>1. \A i \in 1..l + c : i \in 1..l \/ (i - l \in 1..c /\ i = l + (i - l))
    OBVIOUS
  <2> QED BY <2>1
<1>12. \A k \in 1..c : /\ rest[k] \in missing /\ rest[k].key # << >>
                       /\ \A i \in 1..l : claimed[i].key # rest[k].key
  <2>1. \A k \in 1..c : rest[k] \in missing
    BY <1>6
  <2>2. \A n \in missing : n.key # << >>
    BY <1>2, <1>3
  <2> QED BY <1>3, <1>8, <2>1, <2>2
<1>13. ASSUME NEW i \in 1..Len(nodes), i > l
       PROVE  \E r \in records : nodes[i] = RecordNode(r) /\ \A j \in 1..l : claimed[j].key # RecordNode(r).key
  <2>1. PICK k \in 1..c : i = l + k
    BY <1>10, <1>11, <1>13
  <2>2. nodes[i] = rest[k] /\ rest[k] \in missing
    BY <1>10, <1>12, <2>1
  <2>3. PICK r \in records : rest[k] = RecordNode(r)
    BY <1>3, <2>2
  <2> QED BY <1>12, <2>2, <2>3
<1>14. ASSUME NEW i \in 1..Len(nodes), NEW j \in 1..Len(nodes), nodes[i].key # << >>, nodes[i].key = nodes[j].key
       PROVE  i = j
  <2>0. \A a, b \in 1..l : claimed[a].key # << >> /\ claimed[a].key = claimed[b].key => a = b
    BY <1>8 DEF AreOf
  <2>1. CASE i \in 1..l /\ j \in 1..l
    BY <1>10, <1>14, <2>0, <2>1
  <2>2. ASSUME NEW k \in 1..c, NEW h \in 1..l PROVE nodes[h].key # nodes[l + k].key
    BY <1>10, <1>12
  <2>3. ASSUME NEW k \in 1..c, NEW h \in 1..c, i = l + k, j = l + h PROVE i = j
    <3>1. rest[k].key = rest[h].key /\ rest[k] \in missing /\ rest[h] \in missing
      BY <1>10, <1>12, <1>14, <2>3
    <3>2. k = h
      BY <1>5, <1>6, <3>1
    <3> QED BY <2>3, <3>2
  <2>4. (i \in 1..l \/ \E k \in 1..c : i = l + k) /\ (j \in 1..l \/ \E k \in 1..c : j = l + k)
    BY <1>10, <1>11
  <2> QED BY <1>14, <2>1, <2>2, <2>3, <2>4
<1>15. ASSUME NEW r \in records PROVE \E i \in 1..Len(nodes) : nodes[i].key = RecordNode(r).key
  <2>1. CASE RecordNode(r) \in missing
    <3>1. PICK k \in 1..c : rest[k] = RecordNode(r)
      BY <1>6, <2>1
    <3>2. l + k \in 1..Len(nodes) /\ nodes[l + k] = rest[k]
      BY <1>10
    <3> QED BY <3>1, <3>2
  <2>2. CASE \E i \in DOMAIN claimed : claimed[i].key = RecordNode(r).key
    <3>1. PICK i \in 1..l : claimed[i].key = RecordNode(r).key
      BY <1>8, <2>2
    <3>2. i \in 1..Len(nodes) /\ nodes[i] = claimed[i]
      BY <1>10
    <3> QED BY <3>1, <3>2
  <2> QED BY <1>3, <2>1, <2>2
<1>16. l <= Len(nodes)
  BY <1>10
<1>17. IsTrace(nodes, claimed, records)
  BY <1>8, <1>10, <1>13, <1>14, <1>15, <1>16 DEF IsTrace
<1> QED BY <1>17 DEF nodes

-----------------------------------------------------------------------------
(* The trace: what is recorded of a call was told by an event before, so the   *)
(* calls that a trace shows ended are ones whose events the dashboard counts.   *)

Claimed(log, key) == key # 0 /\ \E i \in DOMAIN log : log[i].kind = "tool" /\ log[i].key = key

LogIsTold(log) ==
  /\ log \in Seq(TraceEvent) /\ Len(log) <= MaxEvents
  /\ \A i \in DOMAIN log : log[i].kind = "tool" => log[i].status \in {"running", "succeeded", "failed", "denied"}

RecordsAreTold(records, log) ==
  /\ records \in SUBSET TraceEvent /\ IsFiniteSet(records) /\ OneRecordEach(records)
  /\ \A r \in records : r.kind = "tool" => Claimed(log, r.key)

LoopRow == [pc : {"idle", "step", "request", "execute", "outcome", "step end", "step done",
                  "recovery", "recovering", "recovered", "checkpoint"},
            action : 0..MaxEvents, outcome : {"none", "succeeded", "failed", "denied", "awaiting"}, again : BOOLEAN]

LoopIsTold(loop, tries, log) ==
  /\ loop \in LoopRow /\ tries \in Nat /\ tries <= Len(log)
  /\ loop.pc = "recovering" => tries < Len(log)
  /\ loop.pc = "outcome" => loop.outcome # "none"
  /\ loop.pc # "idle" => MaxEvents # 0
  /\ \/ loop.pc \in {"execute", "outcome", "recovery", "recovering", "recovered"}
     \/ loop.pc = "step end" /\ loop.outcome # "none"
     => Claimed(log, loop.action)

TraceInv ==
  /\ LogIsTold(traceLog) /\ RecordsAreTold(traceRecords, traceLog) /\ LoopIsTold(at, attempts, traceLog)
  /\ counted \in 0..MaxEvents /\ traceDeaths \in 0..MaxTraceDeaths

LEMMA TraceStarts == TraceInit => TraceInv
<1> SUFFICES ASSUME TraceInit PROVE TraceInv
  OBVIOUS
<1>1. /\ traceLog = << >> /\ traceRecords = {} /\ at = Idle /\ counted = 0 /\ attempts = 0 /\ traceDeaths = 0
      /\ {MaxEvents, MaxTraceDeaths} \subseteq Nat
  BY TraceAssumption DEF TraceInit
<1>2. LogIsTold(<< >>)
  BY <1>1 DEF LogIsTold
<1>3. RecordsAreTold({}, << >>)
  BY FS_EmptySet DEF RecordsAreTold, OneRecordEach
<1>4. LoopIsTold(Idle, 0, << >>)
  BY <1>1 DEF LoopIsTold, Idle, LoopRow
<1> QED BY <1>1, <1>2, <1>3, <1>4 DEF TraceInv

\* An event more: what was told still is.
LEMMA EmittingTells ==
  ASSUME TraceInv, NEW kind \in ThingKind, NEW key \in 0..MaxEvents, NEW ending \in Status,
         kind = "tool" => ending \in {"running", "succeeded", "failed", "denied"},
         Emit(kind, key, ending)
  PROVE  /\ LogIsTold(traceLog') /\ Len(traceLog) \in Nat /\ Len(traceLog') = Len(traceLog) + 1
         /\ Len(traceLog) < MaxEvents /\ MaxEvents \in Nat
         /\ \A k : Claimed(traceLog, k) => Claimed(traceLog', k)
         /\ kind = "tool" /\ key # 0 => Claimed(traceLog', key)
         /\ \A records : RecordsAreTold(records, traceLog) => RecordsAreTold(records, traceLog')
<1>1. PICK e : e = About(kind, key, ending)
  OBVIOUS
<1>2. e \in TraceEvent /\ e.kind = kind /\ e.key = key /\ e.status = ending
  BY <1>1 DEF About, TraceEvent
<1>3. Len(traceLog) < MaxEvents /\ traceLog' = Append(traceLog, e) /\ MaxEvents \in Nat
  BY <1>1, TraceAssumption DEF Emit
<1>4. LogIsTold(traceLog) /\ traceLog \in Seq(TraceEvent)
  BY DEF TraceInv, LogIsTold
<1>5. PICK n \in Nat : n = Len(traceLog) /\ DOMAIN traceLog = 1..n
  BY <1>4, LenProperties
<1>6. /\ traceLog' \in Seq(TraceEvent) /\ Len(traceLog') = n + 1 /\ DOMAIN traceLog' = 1..n + 1
      /\ traceLog'[n + 1] = e /\ \A i \in 1..n : traceLog'[i] = traceLog[i]
  BY <1>2, <1>3, <1>4, <1>5, OneMore
<1>7. (\A i \in 1..n + 1 : i \in 1..n \/ i = n + 1) /\ (\A i \in 1..n : i \in 1..n + 1) /\ n + 1 \in 1..n + 1
  OBVIOUS
<1>8. \A k : Claimed(traceLog, k) => Claimed(traceLog', k)
  BY <1>5, <1>6, <1>7 DEF Claimed
<1>9. kind = "tool" /\ key # 0 => Claimed(traceLog', key)
  BY <1>2, <1>6, <1>7 DEF Claimed
<1>10. LogIsTold(traceLog')
  <2>1. \A i \in 1..n : traceLog[i].kind = "tool" => traceLog[i].status \in {"running", "succeeded", "failed", "denied"}
    BY <1>4, <1>5 DEF LogIsTold
  <2>2. \A i \in 1..n + 1 : traceLog'[i].kind = "tool" => traceLog'[i].status \in {"running", "succeeded", "failed", "denied"}
    BY <1>2, <1>6, <1>7, <2>1
  <2> QED BY <1>3, <1>5, <1>6, <2>2 DEF LogIsTold
<1>11. \A records : RecordsAreTold(records, traceLog) => RecordsAreTold(records, traceLog')
  BY <1>8 DEF RecordsAreTold
<1> QED BY <1>3, <1>5, <1>6, <1>8, <1>9, <1>10, <1>11

\* A record is saved over the one of its thing.
LEMMA SavingTells ==
  ASSUME NEW log, RecordsAreTold(traceRecords, log), NEW kind \in ThingKind, NEW key \in 0..MaxEvents, NEW ending \in Status,
         kind = "tool" => Claimed(log, key), SaveRecord(kind, key, ending)
  PROVE  RecordsAreTold(traceRecords', log)
<1> DEFINE others == {r \in traceRecords : <<r.kind, r.key>> # <<kind, key>>}
<1>1. PICK e : e = About(kind, key, ending)
  OBVIOUS
<1>2. e \in TraceEvent /\ e.kind = kind /\ e.key = key
  BY <1>1 DEF About, TraceEvent
<1>3. traceRecords' = others \cup {e}
  BY <1>1 DEF SaveRecord
<1>4. traceRecords \in SUBSET TraceEvent /\ IsFiniteSet(traceRecords) /\ OneRecordEach(traceRecords)
  BY DEF RecordsAreTold
<1>5. IsFiniteSet(traceRecords')
  <2>1. others \in SUBSET traceRecords
    OBVIOUS
  <2> HIDE DEF others
  <2> QED BY <1>3, <1>4, <2>1, FS_Subset, FS_AddElement
<1>6. OneRecordEach(traceRecords')
  <2>1. \A r \in others : r \in traceRecords /\ ~(r.kind = kind /\ r.key = key)
    OBVIOUS
  <2> HIDE DEF others
  <2> QED BY <1>2, <1>3, <1>4, <2>1 DEF OneRecordEach
<1>7. \A r \in traceRecords' : r.kind = "tool" => Claimed(log, r.key)
  <2>1. \A r \in traceRecords : r.kind = "tool" => Claimed(log, r.key)
    BY DEF RecordsAreTold
  <2> QED BY <1>2, <1>3, <2>1
<1>8. traceRecords' \in SUBSET TraceEvent
  BY <1>2, <1>3, <1>4
<1> QED BY <1>5, <1>6, <1>7, <1>8 DEF RecordsAreTold

LEMMA TraceSteps ==
  ASSUME TraceInv, TraceNext
  PROVE  TraceInv'
<1>0. /\ LogIsTold(traceLog) /\ RecordsAreTold(traceRecords, traceLog) /\ LoopIsTold(at, attempts, traceLog)
      /\ counted \in 0..MaxEvents /\ traceDeaths \in 0..MaxTraceDeaths
      /\ MaxEvents \in Nat /\ MaxTraceDeaths \in Nat /\ Len(traceLog) \in Nat /\ Len(traceLog) <= MaxEvents
      /\ at \in LoopRow /\ attempts \in Nat /\ attempts <= Len(traceLog)
  BY TraceAssumption, LenProperties DEF TraceInv, LogIsTold, LoopIsTold
<1>a. /\ {"step", "tool", "recovery", "checkpoint", "approval"} = ThingKind
      /\ {"running", "succeeded", "failed", "denied", "created", "pending", "granted"} = Status
  BY DEF ThingKind, Status
\* The loop goes on, after an event or without one.
<1>c. /\ 0 \in 0..MaxEvents /\ (MaxEvents # 0 => 1 \in 0..MaxEvents)
      /\ Len(traceLog) < MaxEvents => 1 \in 0..MaxEvents /\ MaxEvents # 0
  <2>1. MaxEvents \in Nat /\ Len(traceLog) \in Nat
    BY <1>0
  <2> QED BY <2>1
<1>d. attempts <= Len(traceLog) + 1 /\ attempts < Len(traceLog) + 1
  <2>1. attempts \in Nat /\ Len(traceLog) \in Nat /\ attempts <= Len(traceLog)
    BY <1>0
  <2> QED BY <2>1
<1>b. /\ at' \in LoopRow /\ attempts' = attempts
      /\ LogIsTold(traceLog') /\ (Len(traceLog') = Len(traceLog) + 1 \/ traceLog' = traceLog)
      /\ at'.pc = "recovering" => Len(traceLog') = Len(traceLog) + 1
      /\ at'.pc = "outcome" => at'.outcome # "none"
      /\ at'.pc # "idle" => MaxEvents # 0
      /\ \/ at'.pc \in {"execute", "outcome", "recovery", "recovering", "recovered"}
         \/ at'.pc = "step end" /\ at'.outcome # "none"
         => Claimed(traceLog', at'.action)
      => LoopIsTold(at', attempts', traceLog')
  <2> SUFFICES ASSUME /\ at' \in LoopRow /\ attempts' = attempts
                      /\ LogIsTold(traceLog') /\ (Len(traceLog') = Len(traceLog) + 1 \/ traceLog' = traceLog)
                      /\ at'.pc = "recovering" => Len(traceLog') = Len(traceLog) + 1
                      /\ at'.pc = "outcome" => at'.outcome # "none"
                      /\ at'.pc # "idle" => MaxEvents # 0
                      /\ \/ at'.pc \in {"execute", "outcome", "recovery", "recovering", "recovered"}
                         \/ at'.pc = "step end" /\ at'.outcome # "none"
                         => Claimed(traceLog', at'.action)
               PROVE  LoopIsTold(at', attempts', traceLog')
    OBVIOUS
  <2>1. attempts <= Len(traceLog') /\ (at'.pc = "recovering" => attempts < Len(traceLog'))
    <3>1. attempts \in Nat /\ Len(traceLog) \in Nat /\ attempts <= Len(traceLog)
      BY <1>0 DEF LoopRow
    <3>2. CASE Len(traceLog') = Len(traceLog) + 1
      BY <1>d, <3>2
    <3>3. CASE traceLog' = traceLog /\ Len(traceLog') # Len(traceLog) + 1
      BY <3>1, <3>3
    <3> QED BY <3>2, <3>3
  <2> QED BY <1>0, <2>1 DEF LoopIsTold
<1>1. CASE BeginStep
  <2>1. /\ at.pc = "idle" /\ Emit("step", 1, "running") /\ at' = [Idle EXCEPT !.pc = "step"]
        /\ UNCHANGED <<traceRecords, counted, attempts, traceDeaths>>
    BY <1>1 DEF BeginStep
  <2>2. 1 \in 0..MaxEvents /\ MaxEvents # 0
    BY <1>c, <2>1 DEF Emit
  <2>3. /\ LogIsTold(traceLog') /\ Len(traceLog') = Len(traceLog) + 1 /\ RecordsAreTold(traceRecords', traceLog')
    BY <1>0, <1>a, <2>1, <2>2, EmittingTells
  <2>4. at' \in LoopRow /\ at'.pc = "step"
    BY <1>0, <1>c, <2>1 DEF Idle, LoopRow
  <2>5. LoopIsTold(at', attempts', traceLog')
    BY <1>0, <1>b, <2>1, <2>2, <2>3, <2>4
  <2> QED BY <1>0, <2>1, <2>3, <2>5 DEF TraceInv
<1>2. CASE SaveStep
  <2>1. /\ at.pc = "step" /\ SaveRecord("step", 1, "running") /\ at' = [at EXCEPT !.pc = "request", !.outcome = "none"]
        /\ UNCHANGED <<traceLog, counted, attempts, traceDeaths>>
    BY <1>2 DEF SaveStep, GoTo
  <2>2. 1 \in 0..MaxEvents /\ MaxEvents # 0
    BY <1>0, <2>1 DEF LoopIsTold
  <2>3. RecordsAreTold(traceRecords', traceLog)
    BY <1>0, <1>a, <2>1, <2>2, SavingTells
  <2>4. at' \in LoopRow /\ at'.pc = "request"
    BY <1>0, <2>1 DEF LoopRow
  <2>5. LoopIsTold(at', attempts', traceLog')
    BY <1>0, <1>b, <2>1, <2>2, <2>4
  <2> QED BY <1>0, <2>1, <2>3, <2>5 DEF TraceInv
<1>3. CASE RequestAction
  <2>1. at.pc = "request" /\ MaxEvents # 0 /\ UNCHANGED <<traceRecords, attempts, traceDeaths>>
    BY <1>0, <1>3 DEF RequestAction, LoopIsTold
  <2>2. CASE /\ counted < MaxEvents /\ Emit("tool", counted + 1, "running") /\ counted' = counted + 1
             /\ at' = [Idle EXCEPT !.pc = "execute", !.action = counted + 1]
    <3>1. counted + 1 \in 0..MaxEvents /\ counted + 1 # 0
      BY <1>0, <2>2
    <3>2. /\ LogIsTold(traceLog') /\ Len(traceLog') = Len(traceLog) + 1 /\ RecordsAreTold(traceRecords', traceLog')
          /\ Claimed(traceLog', counted + 1)
      BY <1>0, <1>a, <2>1, <2>2, <3>1, EmittingTells
    <3>3. at' \in LoopRow /\ at'.pc = "execute" /\ at'.action = counted + 1
      BY <1>0, <2>2, <3>1 DEF Idle, LoopRow
    <3>4. LoopIsTold(at', attempts', traceLog')
      BY <1>0, <1>b, <2>1, <3>2, <3>3
    <3> QED BY <1>0, <2>1, <2>2, <3>1, <3>2, <3>4 DEF TraceInv
  <2>3. CASE Emit("tool", 0, "running") /\ GoTo("step end", "none") /\ UNCHANGED counted
    <3>1. 0 \in 0..MaxEvents
      BY <1>0
    <3>2. /\ LogIsTold(traceLog') /\ Len(traceLog') = Len(traceLog) + 1 /\ RecordsAreTold(traceRecords', traceLog')
      BY <1>0, <1>a, <2>1, <2>3, <3>1, EmittingTells
    <3>3. at' \in LoopRow /\ at'.pc = "step end" /\ at'.outcome = "none"
      BY <1>0, <2>3 DEF GoTo, LoopRow
    <3>4. LoopIsTold(at', attempts', traceLog')
      BY <1>0, <1>b, <2>1, <3>2, <3>3
    <3> QED BY <1>0, <2>1, <2>3, <3>2, <3>4 DEF TraceInv
  <2> QED BY <1>3, <2>2, <2>3 DEF RequestAction
<1>4. CASE EndAction
  <2>1. at.pc = "execute" /\ MaxEvents # 0 /\ UNCHANGED <<traceLog, attempts, traceDeaths>> /\ Claimed(traceLog, at.action)
    BY <1>0, <1>4 DEF EndAction, LoopIsTold
  <2>2. ASSUME NEW outcome \in {"succeeded", "failed", "denied", "awaiting"}, GoTo("outcome", outcome)
        PROVE  LoopIsTold(at', attempts', traceLog')
    <3>1. at' \in LoopRow /\ at'.pc = "outcome" /\ at'.outcome = outcome /\ at'.action = at.action
      BY <1>0, <2>2 DEF GoTo, LoopRow
    <3> QED BY <1>0, <1>b, <2>1, <2>2, <3>1
  <2>3. ASSUME NEW outcome \in {"succeeded", "failed"},
               SaveRecord("tool", at.action, outcome), GoTo("outcome", outcome), UNCHANGED counted
        PROVE  TraceInv'
    <3>1. RecordsAreTold(traceRecords', traceLog)
      <4>1. at.action \in 0..MaxEvents
        BY <1>0 DEF LoopRow
      <4> QED BY <1>0, <1>a, <2>1, <2>3, <4>1, SavingTells
    <3>2. LoopIsTold(at', attempts', traceLog')
      BY <2>2, <2>3
    <3> QED BY <1>0, <2>1, <2>3, <3>1, <3>2 DEF TraceInv
  <2>4. CASE GoTo("outcome", "denied") /\ UNCHANGED <<traceRecords, counted>>
    <3>1. LoopIsTold(at', attempts', traceLog')
      BY <2>2, <2>4
    <3> QED BY <1>0, <2>1, <2>4, <3>1 DEF TraceInv
  <2>5. CASE /\ counted < MaxEvents /\ counted' = counted + 1
             /\ SaveRecord("approval", counted + 1, "pending") /\ GoTo("outcome", "awaiting")
    <3>1. counted + 1 \in 0..MaxEvents
      BY <1>0, <2>5
    <3>2. RecordsAreTold(traceRecords', traceLog)
      BY <1>0, <1>a, <2>5, <3>1, SavingTells
    <3>3. LoopIsTold(at', attempts', traceLog')
      BY <2>2, <2>5
    <3> QED BY <1>0, <2>1, <2>5, <3>1, <3>2, <3>3 DEF TraceInv
  <2> QED BY <1>4, <2>3, <2>4, <2>5 DEF EndAction
<1>5. CASE EmitOutcome
  <2>1. /\ at.pc = "outcome" /\ MaxEvents # 0 /\ UNCHANGED <<traceRecords, counted, attempts, traceDeaths>>
        /\ at.outcome # "none" /\ Claimed(traceLog, at.action)
    BY <1>0, <1>5 DEF EmitOutcome, LoopIsTold
  <2>2. at.action \in 0..MaxEvents /\ at.outcome \in {"succeeded", "failed", "denied", "awaiting"} /\ 0 \in 0..MaxEvents
    <3>1. at \in LoopRow /\ at.outcome # "none"
      BY <1>0, <2>1
    <3> QED BY <1>c, <3>1 DEF LoopRow
  <2>3. /\ LogIsTold(traceLog') /\ Len(traceLog') = Len(traceLog) + 1 /\ RecordsAreTold(traceRecords', traceLog')
        /\ Claimed(traceLog', at.action)
    <3>1. CASE at.outcome = "awaiting"
      <4>1. Emit("approval", 0, "running")
        BY <1>5, <3>1 DEF EmitOutcome
      <4> QED BY <1>0, <1>a, <2>1, <2>2, <4>1, EmittingTells
    <3>2. CASE at.outcome # "awaiting"
      <4>1. Emit("tool", at.action, at.outcome) /\ at.outcome \in {"succeeded", "failed", "denied"}
        BY <1>5, <2>2, <3>2 DEF EmitOutcome
      <4> QED BY <1>0, <1>a, <2>1, <2>2, <4>1, EmittingTells
    <3> QED BY <3>1, <3>2
  <2>4. /\ at' \in LoopRow /\ at'.pc \in {"step end", "recovery", "idle"} /\ at'.action = at.action
    BY <1>0, <1>5 DEF EmitOutcome, GoTo, LoopRow
  <2>5. LoopIsTold(at', attempts', traceLog')
    BY <1>0, <1>b, <2>1, <2>3, <2>4
  <2> QED BY <1>0, <2>1, <2>3, <2>5 DEF TraceInv
<1>6. CASE EndStep
  <2>1. /\ at.pc = "step end" /\ MaxEvents # 0 /\ UNCHANGED <<traceLog, counted, attempts, traceDeaths>>
        /\ at.outcome # "none" => Claimed(traceLog, at.action)
    BY <1>0, <1>6 DEF EndStep, LoopIsTold
  <2>2. PICK ending \in Status : SaveRecord("step", 1, ending)
    <3>1. CASE at.outcome \in {"none", "succeeded"}
      <4>1. SaveRecord("step", 1, "succeeded")
        BY <1>6, <3>1 DEF EndStep
      <4> QED BY <1>a, <4>1
    <3>2. CASE at.outcome = "awaiting"
      <4>1. SaveRecord("step", 1, "running")
        BY <1>6, <3>2 DEF EndStep
      <4> QED BY <1>a, <4>1
    <3>3. CASE at.outcome \notin {"none", "succeeded", "awaiting"}
      <4>1. SaveRecord("step", 1, "failed")
        BY <1>6, <3>3 DEF EndStep
      <4> QED BY <1>a, <4>1
    <3> QED BY <3>1, <3>2, <3>3
  <2>3. RecordsAreTold(traceRecords', traceLog)
    <3>1. 1 \in 0..MaxEvents
      BY <1>c, <2>1
    <3> QED BY <1>0, <1>a, <2>1, <2>2, <3>1, SavingTells
  <2>4. /\ at' \in LoopRow /\ at'.pc \in {"step done", "recovery", "idle"} /\ at'.action = at.action
        /\ at'.pc = "recovery" => at.outcome = "failed"
    <3>1. CASE at.outcome \in {"none", "succeeded"}
      BY <1>0, <1>6, <3>1 DEF EndStep, GoTo, LoopRow
    <3>2. CASE at.outcome = "failed"
      BY <1>0, <1>6, <3>2 DEF EndStep, GoTo, LoopRow
    <3>3. CASE at.outcome \notin {"none", "succeeded", "failed"}
      BY <1>0, <1>6, <3>3 DEF EndStep, GoTo, LoopRow
    <3> QED BY <3>1, <3>2, <3>3
  <2>5. LoopIsTold(at', attempts', traceLog')
    BY <1>0, <1>b, <2>1, <2>4
  <2> QED BY <1>0, <2>1, <2>3, <2>5 DEF TraceInv
<1>7. CASE CompleteStep
  <2>1. /\ at.pc = "step done" /\ Emit("step", 1, "succeeded") /\ GoTo("idle", "none")
        /\ UNCHANGED <<traceRecords, counted, attempts, traceDeaths>>
    BY <1>7 DEF CompleteStep
  <2>2. 1 \in 0..MaxEvents /\ MaxEvents # 0
    BY <1>c, <2>1 DEF Emit
  <2>3. /\ LogIsTold(traceLog') /\ Len(traceLog') = Len(traceLog) + 1 /\ RecordsAreTold(traceRecords', traceLog')
    BY <1>0, <1>a, <2>1, <2>2, EmittingTells
  <2>4. at' \in LoopRow /\ at'.pc = "idle"
    BY <1>0, <2>1 DEF GoTo, LoopRow
  <2>5. LoopIsTold(at', attempts', traceLog')
    BY <1>0, <1>b, <2>1, <2>3, <2>4
  <2> QED BY <1>0, <2>1, <2>3, <2>5 DEF TraceInv
<1>8. CASE BeginRecovery
  <2>1. /\ at.pc = "recovery" /\ Emit("recovery", attempts + 1, "running") /\ GoTo("recovering", "none")
        /\ UNCHANGED <<traceRecords, counted, attempts, traceDeaths>> /\ Claimed(traceLog, at.action)
    BY <1>0, <1>8 DEF BeginRecovery, LoopIsTold
  <2>2. attempts + 1 \in 0..MaxEvents /\ MaxEvents # 0
    BY <1>0, <2>1 DEF Emit
  <2>3. /\ LogIsTold(traceLog') /\ Len(traceLog') = Len(traceLog) + 1 /\ RecordsAreTold(traceRecords', traceLog')
        /\ Claimed(traceLog', at.action)
    BY <1>0, <1>a, <2>1, <2>2, EmittingTells
  <2>4. at' \in LoopRow /\ at'.pc = "recovering" /\ at'.action = at.action
    BY <1>0, <2>1 DEF GoTo, LoopRow
  <2>5. LoopIsTold(at', attempts', traceLog')
    BY <1>0, <1>b, <2>1, <2>2, <2>3, <2>4
  <2> QED BY <1>0, <2>1, <2>3, <2>5 DEF TraceInv
<1>9. CASE SaveRecovery
  <2>1. /\ at.pc = "recovering" /\ attempts' = attempts + 1 /\ GoTo("recovered", "none")
        /\ UNCHANGED <<traceLog, counted, traceDeaths>> /\ Claimed(traceLog, at.action)
        /\ attempts < Len(traceLog) /\ MaxEvents # 0
    BY <1>0, <1>9 DEF SaveRecovery, LoopIsTold
  <2>2. PICK outcome \in {"succeeded", "failed"} : SaveRecord("recovery", attempts + 1, outcome)
    BY <1>9 DEF SaveRecovery
  <2>3. attempts + 1 \in 0..MaxEvents /\ attempts + 1 \in Nat /\ attempts + 1 <= Len(traceLog)
    BY <1>0, <2>1
  <2>4. RecordsAreTold(traceRecords', traceLog)
    BY <1>0, <1>a, <2>2, <2>3, SavingTells
  <2>5. at' \in LoopRow /\ at'.pc = "recovered" /\ at'.action = at.action
    BY <1>0, <2>1 DEF GoTo, LoopRow
  <2>6. LoopIsTold(at', attempts + 1, traceLog)
    BY <2>1, <2>3, <2>5 DEF LoopIsTold
  <2> QED BY <1>0, <2>1, <2>4, <2>6 DEF TraceInv
<1>10. CASE EndRecovery
  <2>1. /\ at.pc = "recovered" /\ Emit("recovery", attempts, "succeeded")
        /\ at' \in {[at EXCEPT !.pc = "idle"], [at EXCEPT !.pc = "execute", !.again = TRUE]}
        /\ UNCHANGED <<traceRecords, counted, attempts, traceDeaths>> /\ Claimed(traceLog, at.action)
    BY <1>0, <1>10 DEF EndRecovery, LoopIsTold
  <2>2. attempts \in 0..MaxEvents /\ MaxEvents # 0
    BY <1>0, <2>1 DEF Emit
  <2>3. /\ LogIsTold(traceLog') /\ Len(traceLog') = Len(traceLog) + 1 /\ RecordsAreTold(traceRecords', traceLog')
        /\ Claimed(traceLog', at.action)
    BY <1>0, <1>a, <2>1, <2>2, EmittingTells
  <2>4. at' \in LoopRow /\ at'.pc \in {"idle", "execute"} /\ at'.action = at.action
    BY <1>0, <2>1 DEF LoopRow
  <2>5. LoopIsTold(at', attempts', traceLog')
    BY <1>0, <1>b, <2>1, <2>2, <2>3, <2>4
  <2> QED BY <1>0, <2>1, <2>3, <2>5 DEF TraceInv
<1>11. CASE SaveCheckpoint
  <2>1. /\ counted < MaxEvents /\ counted' = counted + 1 /\ SaveRecord("checkpoint", counted + 1, "created")
        /\ at' = [Idle EXCEPT !.pc = "checkpoint", !.action = counted + 1]
        /\ UNCHANGED <<traceLog, attempts, traceDeaths>>
    BY <1>11 DEF SaveCheckpoint
  <2>2. counted + 1 \in 0..MaxEvents /\ MaxEvents # 0
    BY <1>0, <2>1
  <2>3. RecordsAreTold(traceRecords', traceLog)
    BY <1>0, <1>a, <2>1, <2>2, SavingTells
  <2>4. at' \in LoopRow /\ at'.pc = "checkpoint"
    BY <2>1, <2>2 DEF Idle, LoopRow
  <2>5. LoopIsTold(at', attempts', traceLog')
    BY <1>0, <1>b, <2>1, <2>2, <2>4
  <2> QED BY <1>0, <2>1, <2>2, <2>3, <2>5 DEF TraceInv
<1>12. CASE EmitCheckpoint
  <2>1. UNCHANGED <<traceRecords, counted, attempts, traceDeaths>>
    BY <1>12 DEF EmitCheckpoint
  <2>2. PICK key \in 0..MaxEvents : Emit("checkpoint", key, "created")
    <3>1. at.action \in 0..MaxEvents
      BY <1>0 DEF LoopRow
    <3>2. \A r \in traceRecords : r.key \in 0..MaxEvents
      BY <1>0 DEF RecordsAreTold, TraceEvent
    <3> QED BY <1>12, <3>1, <3>2 DEF EmitCheckpoint
  <2>3. /\ LogIsTold(traceLog') /\ Len(traceLog') = Len(traceLog) + 1 /\ RecordsAreTold(traceRecords', traceLog')
    BY <1>0, <1>a, <2>1, <2>2, EmittingTells
  <2>4. at' \in LoopRow /\ at'.pc = "idle"
    <3>1. (at' = at /\ at.pc = "idle") \/ GoTo("idle", "none")
      BY <1>12 DEF EmitCheckpoint
    <3> QED BY <1>0, <3>1 DEF GoTo, LoopRow
  <2>5. LoopIsTold(at', attempts', traceLog')
    BY <1>0, <1>b, <2>1, <2>3, <2>4
  <2> QED BY <1>0, <2>1, <2>3, <2>5 DEF TraceInv
<1>13. CASE GrantApproval
  <2>1. UNCHANGED <<at, counted, attempts, traceDeaths>>
    BY <1>13 DEF GrantApproval
  <2>2. PICK r \in traceRecords : SaveRecord("approval", r.key, "granted") /\ Emit("approval", r.key, "granted")
    BY <1>13 DEF GrantApproval
  <2>3. r.key \in 0..MaxEvents
    BY <1>0 DEF RecordsAreTold, TraceEvent
  <2>4. /\ LogIsTold(traceLog') /\ Len(traceLog') = Len(traceLog) + 1 /\ RecordsAreTold(traceRecords, traceLog')
        /\ \A k : Claimed(traceLog, k) => Claimed(traceLog', k)
    BY <1>0, <1>a, <2>2, <2>3, EmittingTells
  <2>5. RecordsAreTold(traceRecords', traceLog')
    BY <1>a, <2>2, <2>3, <2>4, SavingTells
  <2>6. LoopIsTold(at, attempts, traceLog')
    <3>1. attempts <= Len(traceLog') /\ (attempts < Len(traceLog) => attempts < Len(traceLog'))
      BY <1>0, <2>4
    <3> QED BY <1>0, <2>4, <3>1 DEF LoopIsTold
  <2> QED BY <1>0, <2>1, <2>4, <2>5, <2>6 DEF TraceInv
<1>14. CASE DieTraced
  <2>1. /\ traceDeaths < MaxTraceDeaths /\ traceDeaths' = traceDeaths + 1
        /\ at' = Idle /\ attempts' = 0 /\ UNCHANGED <<traceLog, traceRecords, counted>>
    BY <1>14 DEF DieTraced
  <2>2. LoopIsTold(Idle, 0, traceLog)
    <3>1. Idle \in LoopRow /\ Idle.pc = "idle"
      BY <1>c DEF Idle, LoopRow
    <3>2. 0 <= Len(traceLog) /\ 0 \in Nat
      BY <1>0
    <3> QED BY <3>1, <3>2 DEF LoopIsTold
  <2>3. traceDeaths' \in 0..MaxTraceDeaths
    BY <1>0, <2>1
  <2> QED BY <1>0, <2>1, <2>2, <2>3 DEF TraceInv
<1> QED BY <1>1, <1>2, <1>3, <1>4, <1>5, <1>6, <1>7, <1>8, <1>9, <1>10, <1>11, <1>12, <1>13, <1>14 DEF TraceNext

NodesFor(nodes, e) == {i \in DOMAIN nodes : nodes[i].key = <<e.kind, e.key>>}

\* Whatever a trace is built from, each thing is one node of it.
LEMMA ThingsAreOneNode ==
  ASSUME NEW s \in Seq(TraceEvent), NEW claimed, AreOf(claimed, s, Len(s)), NEW records \in SUBSET TraceEvent,
         NEW nodes, IsTrace(nodes, claimed, records),
         NEW e, e \in records \/ (\E i \in 1..Len(s) : e = s[i]), e.key # 0
  PROVE  Cardinality(NodesFor(nodes, e)) = 1
<1>1. PICK n \in Nat, l \in Nat, m \in Nat : /\ n = Len(nodes) /\ l = Len(claimed) /\ m = Len(s)
                                             /\ DOMAIN nodes = 1..n /\ DOMAIN claimed = 1..l
  BY LenProperties DEF IsTrace, AreOf
<1>2. /\ l <= n /\ \A i \in 1..l : nodes[i] = claimed[i]
      /\ \A i, j \in 1..n : nodes[i].key # << >> /\ nodes[i].key = nodes[j].key => i = j
      /\ \A r \in records : \E i \in 1..n : nodes[i].key = RecordNode(r).key
      /\ \A k \in 1..m : s[k].key # 0 => \E i \in 1..l : claimed[i].key = <<s[k].kind, s[k].key>>
  BY <1>1 DEF IsTrace, AreOf
<1>3. \E i \in 1..n : nodes[i].key = <<e.kind, e.key>>
  <2>1. CASE e \in records
    BY <1>2, <2>1 DEF RecordNode
  <2>2. CASE \E k \in 1..m : e = s[k]
    <3>1. PICK i \in 1..l : claimed[i].key = <<e.kind, e.key>>
      BY <1>2, <2>2
    <3>2. i \in 1..n
      BY <1>2
    <3> QED BY <1>2, <3>1, <3>2
  <2> QED BY <1>1, <2>1, <2>2
<1>4. PICK i \in 1..n : nodes[i].key = <<e.kind, e.key>>
  BY <1>3
<1>5. <<e.kind, e.key>> # << >>
  OBVIOUS
<1>6. NodesFor(nodes, e) = {i}
  BY <1>1, <1>2, <1>4, <1>5, ZenonT(60) DEF NodesFor
<1> QED BY <1>6, FS_Singleton

\* A call that a trace shows ended has an event that the dashboard counts.
LEMMA EndedCallsAreCounted ==
  ASSUME TraceInv, NEW claimed, AreOf(claimed, traceLog, Len(traceLog)), NEW nodes, IsTrace(nodes, claimed, traceRecords)
  PROVE  LET stats == EventStats(Len(traceLog)) IN
         stats.toolCalls + stats.toolFailures + stats.denials >=
           Cardinality({i \in NodesOf(nodes, "tool") : Tone(nodes[i]) # "neutral"})
<1>1. PICK n \in Nat, l \in Nat, m \in Nat : /\ n = Len(nodes) /\ l = Len(claimed) /\ m = Len(traceLog)
                                             /\ DOMAIN nodes = 1..n /\ DOMAIN claimed = 1..l /\ DOMAIN traceLog = 1..m
                                             /\ traceLog \in Seq(TraceEvent)
  BY LenProperties DEF IsTrace, AreOf, TraceInv, LogIsTold
<1>2. PICK last \in [1..l -> 1..m] : /\ \A i, j \in 1..l : last[i] = last[j] => i = j
                                     /\ \A i \in 1..l : claimed[i] = NodeOf(traceLog[last[i]])
  BY <1>1 DEF AreOf, LastClaims
<1> DEFINE ended == {i \in NodesOf(nodes, "tool") : Tone(nodes[i]) # "neutral"}
           done == Events(m, "tool", {"succeeded"})
           broken == Events(m, "tool", {"failed"})
           refused == Events(m, "tool", {"denied"})
           told == done \cup broken \cup refused
           where == [i \in ended |-> last[i]]
<1>3. IsFiniteSet(done) /\ IsFiniteSet(broken) /\ IsFiniteSet(refused)
  <2>1. IsFiniteSet(1..m)
    BY FS_Interval
  <2>2. done \in SUBSET (1..m) /\ broken \in SUBSET (1..m) /\ refused \in SUBSET (1..m)
    BY DEF Events
  <2> HIDE DEF done, broken, refused
  <2> QED BY <2>1, <2>2, FS_Subset
<1>4. \A i \in 1..m : /\ traceLog[i] \in TraceEvent
                      /\ traceLog[i].kind = "tool" => traceLog[i].status \in {"running", "succeeded", "failed", "denied"}
  <2>1. \A i \in 1..m : traceLog[i] \in TraceEvent
    BY <1>1, ElementOfSeq
  <2> QED BY <1>1, <2>1 DEF TraceInv, LogIsTold
<1>5. ASSUME NEW i \in ended PROVE i \in 1..l /\ last[i] \in told
  <2>1. i \in 1..n /\ nodes[i].kind = "tool" /\ Tone(nodes[i]) # "neutral"
    BY <1>1, <1>5 DEF NodesOf
  <2>2. ASSUME i > l PROVE FALSE
    <3>1. PICK r \in traceRecords : nodes[i] = RecordNode(r) /\ \A j \in 1..l : claimed[j].key # RecordNode(r).key
      BY <1>1, <2>1, <2>2 DEF IsTrace
    <3>2. r.kind = "tool"
      BY <2>1, <3>1 DEF RecordNode
    <3>3. PICK k \in 1..m : r.key # 0 /\ traceLog[k].kind = "tool" /\ traceLog[k].key = r.key
      BY <1>1, <3>2 DEF TraceInv, RecordsAreTold, Claimed
    <3>4. PICK j \in 1..l : claimed[j].key = <<"tool", r.key>>
      BY <1>1, <3>3 DEF AreOf
    <3> QED BY <3>1, <3>2, <3>4 DEF RecordNode
  <2>3. i \in 1..l
    BY <2>1, <2>2
  <2>4. nodes[i] = NodeOf(traceLog[last[i]]) /\ last[i] \in 1..m
    BY <1>1, <1>2, <2>3 DEF IsTrace
  <2>5. PICK k \in 1..m : k = last[i] /\ nodes[i].kind = traceLog[k].kind /\ nodes[i].status = traceLog[k].status
    <3>1. NodeOf(traceLog[last[i]]).kind = traceLog[last[i]].kind /\ NodeOf(traceLog[last[i]]).status = traceLog[last[i]].status
      BY <1>4, <2>4, KeysOfEvents
    <3> QED BY <2>4, <3>1
  <2>6. traceLog[k].kind = "tool" /\ traceLog[k].status \in {"succeeded", "failed", "denied"}
    <3>1. traceLog[k].kind = "tool"
      BY <2>1, <2>5
    <3>2. traceLog[k].status \in {"running", "succeeded", "failed", "denied"}
      BY <1>4, <3>1
    <3>3. nodes[i].status # "running"
      BY <2>1 DEF Tone
    <3> QED BY <2>5, <3>1, <3>2, <3>3
  <2> QED BY <2>3, <2>5, <2>6 DEF Events
<1>6. where \in Injection(ended, told)
  <2>1. where \in [ended -> told]
    BY <1>5
  <2>2. \A i, j \in ended : where[i] = where[j] => i = j
    BY <1>2, <1>5
  <2> HIDE DEF where, ended, told
  <2>3. DOMAIN where = ended
    BY <2>1
  <2> QED BY <2>1, <2>2, <2>3 DEF Injection, IsInjective
<1>7. /\ IsFiniteSet(told) /\ Cardinality(done) \in Nat /\ Cardinality(broken) \in Nat /\ Cardinality(refused) \in Nat
      /\ Cardinality(told) <= Cardinality(done) + Cardinality(broken) + Cardinality(refused)
  <2> HIDE DEF done, broken, refused
  <2>1. /\ IsFiniteSet(done \cup broken) /\ Cardinality(done) \in Nat /\ Cardinality(broken) \in Nat /\ Cardinality(refused) \in Nat
        /\ Cardinality(done \cap broken) \in Nat
        /\ Cardinality(done \cup broken) = Cardinality(done) + Cardinality(broken) - Cardinality(done \cap broken)
    BY <1>3, FS_Union, FS_Intersection, FS_CardinalityType
  <2>2. PICK two : two = done \cup broken
    OBVIOUS
  <2>3. /\ IsFiniteSet(two \cup refused) /\ Cardinality(two \cap refused) \in Nat /\ Cardinality(two) \in Nat
        /\ Cardinality(two \cup refused) = Cardinality(two) + Cardinality(refused) - Cardinality(two \cap refused)
    BY <1>3, <2>1, <2>2, FS_Union, FS_Intersection, FS_CardinalityType
  <2> QED BY <2>1, <2>2, <2>3
<1>8. Cardinality(ended) <= Cardinality(told) /\ Cardinality(ended) \in Nat /\ Cardinality(told) \in Nat
  <2> HIDE DEF where, ended, told
  <2>1. IsFiniteSet(ended) /\ Cardinality(ended) <= Cardinality(told)
    BY <1>6, <1>7, FS_Injection
  <2> QED BY <1>7, <2>1, FS_CardinalityType
<1>9. Cardinality(ended) <= Cardinality(done) + Cardinality(broken) + Cardinality(refused)
  <2> HIDE DEF ended, told, done, broken, refused
  <2> QED BY <1>7, <1>8
<1>10. /\ EventStats(m).toolCalls = Cardinality(done) /\ EventStats(m).toolFailures = Cardinality(broken)
       /\ EventStats(m).denials = Cardinality(refused)
  BY DEF EventStats
<1> HIDE DEF ended, done, broken, refused
<1>11. Cardinality(done) + Cardinality(broken) + Cardinality(refused) >= Cardinality(ended)
  BY <1>7, <1>8, <1>9
<1> QED BY <1>1, <1>10, <1>11 DEF ended

LEMMA TraceIsGood ==
  ASSUME TraceInv
  PROVE  OneNodePerThing
<1>1. PICK m \in Nat : m = Len(traceLog) /\ DOMAIN traceLog = 1..m /\ traceLog \in Seq(TraceEvent)
  BY LenProperties DEF TraceInv, LogIsTold
<1>2. ASSUME NEW n \in 0..m
      PROVE  \E s, claimed : /\ s \in Seq(TraceEvent) /\ Len(s) = n /\ (\A i \in 1..n : s[i] = traceLog[i])
                             /\ (n = m => s = traceLog)
                             /\ AreOf(claimed, s, Len(s)) /\ IsTrace(Trace(n), claimed, traceRecords)
  <2>1. PICK s : s = SubSeq(traceLog, 1, n)
    OBVIOUS
  <2>2. \A i \in 1..n : i \in 1..m /\ traceLog[i] \in TraceEvent
    <3>1. \A i \in 1..n : i \in 1..m
      BY <1>1
    <3> QED BY <1>1, <3>1, ElementOfSeq
  <2>3. s \in Seq(TraceEvent) /\ Len(s) = (IF 1 <= n THEN n - 1 + 1 ELSE 0) /\ \A i \in 1..(n - 1 + 1) : s[i] = traceLog[1 + i - 1]
    BY <2>1, <2>2, SubSeqProperties
  <2>4. s \in Seq(TraceEvent) /\ Len(s) = n /\ \A i \in 1..n : s[i] = traceLog[i]
    BY <2>3
  <2>5. n = m => s = traceLog
    BY <1>1, <2>4, SeqEqual
  <2>6. PICK claimed : claimed = FoldLeft(FoldEvent, << >>, s)
    OBVIOUS
  <2>7. AreOf(claimed, s, Len(s))
    BY <2>4, <2>6, NodesAreOfTheLog
  <2>8. Trace(n) = AppendMissing(claimed, traceRecords)
    BY <2>1, <2>6 DEF Trace
  <2>9. /\ traceRecords \in SUBSET TraceEvent /\ IsFiniteSet(traceRecords) /\ OneRecordEach(traceRecords)
    BY DEF TraceInv, RecordsAreTold
  <2>10. IsTrace(Trace(n), claimed, traceRecords)
    BY <2>4, <2>7, <2>8, <2>9, RecordsAreNodes
  <2> QED BY <2>4, <2>5, <2>7, <2>10
<1>3. ASSUME NEW n \in 0..m, NEW e \in {traceLog[i] : i \in 1..n} \union traceRecords, e.key # 0
      PROVE  Cardinality({i \in DOMAIN Trace(n) : Trace(n)[i].key = <<e.kind, e.key>>}) = 1
  <2>1. PICK s, claimed : /\ s \in Seq(TraceEvent) /\ Len(s) = n /\ (\A i \in 1..n : s[i] = traceLog[i])
                          /\ AreOf(claimed, s, Len(s)) /\ IsTrace(Trace(n), claimed, traceRecords)
    BY <1>2
  <2>2. traceRecords \in SUBSET TraceEvent
    BY DEF TraceInv, RecordsAreTold
  <2>3. e \in traceRecords \/ \E i \in 1..Len(s) : e = s[i]
    BY <1>3, <2>1
  <2>4. PICK nodes : nodes = Trace(n)
    OBVIOUS
  <2>5. IsTrace(nodes, claimed, traceRecords)
    BY <2>1, <2>4
  <2>6. Cardinality(NodesFor(nodes, e)) = 1
    BY <1>3, <2>1, <2>2, <2>3, <2>5, ThingsAreOneNode, ZenonT(60)
  <2> QED BY <2>4, <2>6 DEF NodesFor
<1>4. LET stats == EventStats(m) IN
        stats.toolCalls + stats.toolFailures + stats.denials >=
          Cardinality({i \in NodesOf(Trace(m), "tool") : Tone(Trace(m)[i]) # "neutral"})
  <2>1. m \in 0..m
    OBVIOUS
  <2>2. PICK claimed : AreOf(claimed, traceLog, Len(traceLog)) /\ IsTrace(Trace(m), claimed, traceRecords)
    BY <1>2, <2>1
  <2> QED BY <1>1, <2>2, EndedCallsAreCounted
<1>5. ASSUME NEW n \in 0..m, NEW thing \in {<<e.kind, e.key>> : e \in {traceLog[i] : i \in 1..n} \union traceRecords}, thing[2] # 0
      PROVE  Cardinality({i \in DOMAIN Trace(n) : Trace(n)[i].key = thing}) = 1
  <2>1. PICK e \in {traceLog[i] : i \in 1..n} \union traceRecords : thing = <<e.kind, e.key>>
    BY <1>5
  <2> QED BY <1>3, <1>5, <2>1
<1> QED BY <1>1, <1>4, <1>5 DEF OneNodePerThing

-----------------------------------------------------------------------------
(* The frames: what parseSseChunk makes of a text, piece by piece.              *)

\* Two functions that start alike and take the same steps end alike.
LEMMA SameSteps ==
  ASSUME NEW n \in Nat, NEW f, NEW g, f[0] = g[0],
         \A i \in 1..n : f[i - 1] = g[i - 1] => f[i] = g[i]
  PROVE  f[n] = g[n]
<1> DEFINE differ == {i \in 0..n : f[i] # g[i]}
<1>1. ASSUME differ # {} PROVE FALSE
  <2>1. differ \in SUBSET Nat
    OBVIOUS
  <2>2. PICK i \in differ : \A j \in differ : i <= j
    BY <1>1, <2>1, LeastOf
  <2>3. i \in 0..n /\ f[i] # g[i] /\ i # 0
    BY <2>2
  <2>4. i \in 1..n /\ i - 1 \in 0..n /\ ~(i <= i - 1)
    BY <2>3
  <2>5. f[i - 1] = g[i - 1]
    BY <2>2, <2>4
  <2> QED BY <2>3, <2>4, <2>5
<1>2. n \in 0..n
  OBVIOUS
<1> QED BY <1>1, <1>2

Piece == {"newline", "data", "rest", "id", "event", "comment"} \X Int
SseMessage == [event : Int, data : Seq(Piece)]
Parser == [messages : Seq(SseMessage), current : [event : Int, data : Seq(Piece)], line : Seq(Piece), block : Seq(Piece)]

Parsed(text) == FoldLeft(ParsePiece, ParseStart, text)

LEMMA PiecesParse ==
  ASSUME NEW p \in Parser, NEW piece \in Piece
  PROVE  ParsePiece(p, piece) \in Parser
<1>1. Append(p.block, piece) \in Seq(Piece) /\ Append(p.line, piece) \in Seq(Piece)
  BY OneMore DEF Parser
<1>2. << >> \in Seq(Piece) /\ << >> \in Seq(SseMessage) /\ Unnamed \in Int
  BY DEF Unnamed
<1>3. NoBlock \in [event : Int, data : Seq(Piece)] /\ ParseStart \in Parser
  BY <1>2 DEF NoBlock, ParseStart, Parser
<1>4. Flush(p) \in Parser
  <2>1. p.current \in SseMessage /\ p.messages \in Seq(SseMessage)
    BY DEF Parser, SseMessage
  <2>2. Append(p.messages, p.current) \in Seq(SseMessage)
    BY <2>1, OneMore
  <2>3. PICK ms \in Seq(SseMessage) : Flush(p) = [ParseStart EXCEPT !.messages = ms]
    BY <2>1, <2>2 DEF Flush
  <2> QED BY <1>3, <2>3 DEF Parser
<1> DEFINE read == [p EXCEPT !.block = Append(@, piece)]
<1>5. /\ read \in Parser /\ read.line = p.line /\ read.current = p.current
  BY <1>1 DEF Parser
<1>6. ASSUME p.line # << >> PROVE EndLine(read) \in Parser
  <2>1. p.line[1] \in Piece
    <3>1. p.line \in Seq(Piece) /\ Len(p.line) \in Nat /\ Len(p.line) # 0
      BY <1>6, LenProperties, EmptySeq DEF Parser
    <3>2. 1 \in 1..Len(p.line)
      BY <3>1
    <3> QED BY <3>1, <3>2, ElementOfSeq
  <2>2. p.line[1][2] \in Int
    BY <2>1 DEF Piece
  <2>3. p.current.data \o p.line \in Seq(Piece)
    BY ConcatProperties DEF Parser
  <2> HIDE DEF read
  <2>4. CASE read.line[1][1] = "data"
    <3>1. EndLine(read) = [read EXCEPT !.current.data = @ \o p.line, !.line = << >>]
      BY <1>5, <2>4 DEF EndLine
    <3> QED BY <1>2, <1>5, <2>3, <3>1, ZenonT(60) DEF Parser
  <2>5. CASE read.line[1][1] = "event"
    <3>1. EndLine(read) = [read EXCEPT !.current.event = p.line[1][2], !.line = << >>]
      BY <1>5, <2>5 DEF EndLine
    <3> QED BY <1>2, <1>5, <2>2, <3>1 DEF Parser
  <2>6. CASE read.line[1][1] \notin {"data", "event"}
    <3>1. EndLine(read) = [read EXCEPT !.line = << >>]
      BY <2>6 DEF EndLine
    <3> QED BY <1>2, <1>5, <3>1 DEF Parser
  <2> QED BY <2>4, <2>5, <2>6
<1>7. [read EXCEPT !.line = Append(@, piece)] \in Parser
  BY <1>1, <1>5 DEF Parser
<1>8. ParsePiece(p, piece) = IF piece # NewLine THEN [read EXCEPT !.line = Append(@, piece)]
                             ELSE IF p.line = << >> THEN Flush(p) ELSE EndLine(read)
  BY DEF ParsePiece
<1> HIDE DEF read
<1> QED BY <1>4, <1>6, <1>7, <1>8

LEMMA TextIsFolded ==
  ASSUME NEW s \in Seq(Piece)
  PROVE  \E f \in [0..Len(s) -> Parser] :
           /\ f[0] = ParseStart /\ f[Len(s)] = Parsed(s)
           /\ \A i \in 1..Len(s) : f[i] = ParsePiece(f[i - 1], s[i])
<1>1. PICK n \in Nat : n = Len(s)
  BY LenProperties
<1>2. DOMAIN s = 1..n /\ \A i \in 1..n : s[i] \in Piece
  BY <1>1, LenProperties, ElementOfSeq
<1> DEFINE step == [p \in Parser \X (1..n) |-> ParsePiece(p[1], s[p[2]])]
           steps(it) == [t \in SUBSET (1..n) |-> IF t = {} THEN ParseStart ELSE ParsePiece(it[t \ {Max(t)}], s[Max(t)])]
           fold == CHOOSE it : it = steps(it)
<1>3. step \in [Parser \X (1..n) -> Parser]
  BY <1>2, PiecesParse
<1>4. ParseStart \in Parser
  <2>1. << >> \in Seq(Piece) /\ << >> \in Seq(SseMessage) /\ Unnamed \in Int
    BY DEF Unnamed
  <2> QED BY <2>1 DEF NoBlock, ParseStart, Parser
<1>5. Parsed(s) = fold[1..n]
  BY <1>2, Zenon DEF Parsed, FoldLeft, MapThenFoldSet
<1>6. \A p \in Parser, i \in 1..n : step[<<p, i>>] = ParsePiece(p, s[i])
  OBVIOUS
<1> HIDE DEF step
<1>a. PICK h \in [SUBSET (1..n) -> Parser], f \in [0..n -> Parser] : GoesThrough(h, f, n, ParseStart, step)
  BY <1>3, <1>4, StepByStep
<1>7. /\ \A t \in SUBSET (1..n) : h[t] = IF t = {} THEN ParseStart ELSE step[<<h[t \ {Max(t)}], Max(t)>>]
      /\ f[0] = ParseStart /\ f[n] = h[1..n]
      /\ \A i \in 1..n : f[i] = step[<<f[i - 1], i>>]
  BY <1>a DEF GoesThrough
<1>8. h = steps(h)
  <2>1. ASSUME NEW t \in SUBSET (1..n), t # {}
        PROVE  h[t] = ParsePiece(h[t \ {Max(t)}], s[Max(t)])
    <3>1. Max(t) \in 1..n /\ t \ {Max(t)} \in SUBSET (1..n)
      BY <2>1, GreatestOf
    <3>2. h[t] = step[<<h[t \ {Max(t)}], Max(t)>>] /\ h[t \ {Max(t)}] \in Parser
      BY <1>7, <2>1, <3>1
    <3> QED BY <1>6, <3>1, <3>2
  <2>2. \A t \in SUBSET (1..n) : h[t] = steps(h)[t]
    BY <1>7, <2>1
  <2>3. h = [t \in SUBSET (1..n) |-> h[t]]
    OBVIOUS
  <2> QED BY <2>2, <2>3
<1>9. fold = steps(fold)
  BY <1>8
<1> HIDE DEF fold
<1>10. fold[1..n] = h[1..n]
  <2>1. fold[{}] = h[{}]
    BY <1>8, <1>9
  <2>2. \A t \in SUBSET (1..n) : t # {} /\ fold[t \ {Max(t)}] = h[t \ {Max(t)}] => fold[t] = h[t]
    <3>1. \A t \in SUBSET (1..n) : t # {} => /\ fold[t] = ParsePiece(fold[t \ {Max(t)}], s[Max(t)])
                                             /\ h[t] = ParsePiece(h[t \ {Max(t)}], s[Max(t)])
      BY <1>8, <1>9
    <3> QED BY <3>1
  <2> QED BY <2>1, <2>2, OneWayThrough
<1>11. \A i \in 1..n : f[i] = ParsePiece(f[i - 1], s[i])
  <2>1. \A i \in 1..n : i - 1 \in 0..n /\ f[i - 1] \in Parser
    OBVIOUS
  <2> QED BY <1>6, <1>7, <2>1
<1> QED BY <1>1, <1>5, <1>7, <1>10, <1>11

\* A text that is longer by a piece is parsed by one more step.
LEMMA ParsedOneMore ==
  /\ Parsed(<< >>) = ParseStart
  /\ \A s \in Seq(Piece) : Parsed(s) \in Parser
  /\ \A s \in Seq(Piece), x \in Piece : Parsed(Append(s, x)) = ParsePiece(Parsed(s), x)
<1>1. Parsed(<< >>) = ParseStart
  <2>1. << >> \in Seq(Piece) /\ Len(<< >>) = 0
    OBVIOUS
  <2> QED BY <2>1, TextIsFolded
<1>2. ASSUME NEW s \in Seq(Piece) PROVE Parsed(s) \in Parser
  <2>1. PICK f \in [0..Len(s) -> Parser] : f[Len(s)] = Parsed(s)
    BY TextIsFolded
  <2>2. Len(s) \in 0..Len(s)
    BY LenProperties
  <2> QED BY <2>1, <2>2
<1>3. ASSUME NEW s \in Seq(Piece), NEW x \in Piece PROVE Parsed(Append(s, x)) = ParsePiece(Parsed(s), x)
  <2>1. PICK n \in Nat : n = Len(s)
    BY LenProperties
  <2>2. PICK t : t = Append(s, x)
    OBVIOUS
  <2>3. t \in Seq(Piece) /\ Len(t) = n + 1 /\ t[n + 1] = x /\ \A i \in 1..n : t[i] = s[i]
    BY <2>1, <2>2, OneMore
  <2>4. PICK f \in [0..n -> Parser] :
          /\ f[0] = ParseStart /\ f[n] = Parsed(s) /\ \A i \in 1..n : f[i] = ParsePiece(f[i - 1], s[i])
    BY <2>1, TextIsFolded
  <2>a. PICK g \in [0..Len(t) -> Parser] :
          /\ g[0] = ParseStart /\ g[Len(t)] = Parsed(t) /\ \A i \in 1..Len(t) : g[i] = ParsePiece(g[i - 1], t[i])
    BY <2>3, TextIsFolded
  <2>5. /\ g[0] = ParseStart /\ g[n + 1] = Parsed(t) /\ \A i \in 1..n + 1 : g[i] = ParsePiece(g[i - 1], t[i])
    BY <2>3, <2>a
  <2>6. \A i \in 1..n : f[i - 1] = g[i - 1] => f[i] = g[i]
    <3>1. \A i \in 1..n : i \in 1..n + 1
      OBVIOUS
    <3> QED BY <2>3, <2>4, <2>5, <3>1
  <2>7. f[n] = g[n]
    <3>1. f[0] = g[0]
      BY <2>4, <2>5
    <3> QED BY <2>6, <3>1, SameSteps
  <2>8. n + 1 \in 1..n + 1 /\ n + 1 - 1 = n
    OBVIOUS
  <2> QED BY <2>2, <2>3, <2>4, <2>5, <2>7, <2>8
<1> QED BY <1>1, <1>2, <1>3

\* What holds of the empty sequence, and of one that is longer by an element
\* whenever it holds without it, holds of every sequence.
LEMMA OneLonger ==
  ASSUME NEW S, NEW good, << >> \in good,
         \A s \in Seq(S), x \in S : s \in good => Append(s, x) \in good
  PROVE  \A s \in Seq(S) : s \in good
<1> DEFINE bad == {s \in Seq(S) : s \notin good}
           lengths == {Len(s) : s \in bad}
<1>1. ASSUME bad # {} PROVE FALSE
  <2>1. lengths \in SUBSET Nat /\ lengths # {}
    BY <1>1, LenProperties
  <2>2. PICK n \in lengths : \A m \in lengths : n <= m
    BY <2>1, LeastOf
  <2>3. PICK s \in bad : Len(s) = n
    BY <2>2
  <2>4. s \in Seq(S) /\ s \notin good /\ n \in Nat
    BY <2>1, <2>3
  <2>5. n # 0
    BY <2>3, <2>4, EmptySeq
  <2>6. \A i \in 1..n : s[i] \in S
    BY <2>3, <2>4, ElementOfSeq
  <2>7. PICK k \in Nat : n = k + 1
    <3>1. n - 1 \in Nat /\ n = (n - 1) + 1
      BY <2>4, <2>5
    <3> QED BY <3>1
  <2>8. PICK t : t = SubSeq(s, 1, k)
    OBVIOUS
  <2>9. t \in Seq(S) /\ Len(t) = k /\ \A i \in 1..k : t[i] = s[i]
    <3>1. \A i \in 1..k : s[i] \in S
      BY <2>6, <2>7
    <3>2. t \in Seq(S) /\ Len(t) = (IF 1 <= k THEN k - 1 + 1 ELSE 0) /\ \A i \in 1..(k - 1 + 1) : t[i] = s[1 + i - 1]
      BY <2>8, <3>1, SubSeqProperties
    <3> QED BY <3>2
  <2>10. t \in good
    <3>1. k \notin lengths
      BY <2>1, <2>2, <2>7
    <3> QED BY <2>9, <3>1
  <2>11. Append(t, s[n]) \in good
    BY <2>6, <2>7, <2>9, <2>10
  <2>12. Append(t, s[n]) = s
    <3>1. PICK x \in S : x = s[n]
      BY <2>6, <2>7
    <3>2. PICK u : u = Append(t, x)
      OBVIOUS
    <3>3. u \in Seq(S) /\ Len(u) = k + 1 /\ u[k + 1] = x /\ \A i \in 1..k : u[i] = t[i]
      BY <2>9, <3>2, OneMore
    <3>4. \A i \in 1..Len(u) : u[i] = s[i]
      <4>1. \A i \in 1..Len(u) : i \in 1..k \/ i = k + 1
        BY <3>3
      <4> QED BY <2>7, <2>9, <3>1, <3>3, <4>1
    <3> QED BY <2>3, <2>4, <2>7, <3>1, <3>2, <3>3, <3>4, SeqEqual
  <2> QED BY <2>4, <2>11, <2>12
<1> QED BY <1>1

LEMMA AppendedLater ==
  ASSUME NEW S, NEW s \in Seq(S), NEW t \in Seq(S), NEW x \in S
  PROVE  s \o Append(t, x) = Append(s \o t, x)
<1>1. PICK n \in Nat, m \in Nat : n = Len(s) /\ m = Len(t)
  BY LenProperties
<1>2. PICK a, b, c : a = Append(t, x) /\ b = s \o t /\ c = s \o a
  OBVIOUS
<1>3. /\ a \in Seq(S) /\ Len(a) = m + 1 /\ a[m + 1] = x /\ \A i \in 1..m : a[i] = t[i]
  BY <1>1, <1>2, OneMore
<1>4. /\ b \in Seq(S) /\ Len(b) = Len(s) + Len(t)
      /\ \A i \in 1..Len(s) + Len(t) : b[i] = IF i <= Len(s) THEN s[i] ELSE t[i - Len(s)]
  BY <1>2, ConcatProperties
<1>5. /\ c \in Seq(S) /\ Len(c) = Len(s) + Len(a)
      /\ \A i \in 1..Len(s) + Len(a) : c[i] = IF i <= Len(s) THEN s[i] ELSE a[i - Len(s)]
  BY <1>2, <1>3, ConcatProperties
<1>6. PICK d : d = Append(b, x)
  OBVIOUS
<1>7. /\ d \in Seq(S) /\ Len(d) = n + m + 1 /\ d[n + m + 1] = x /\ \A i \in 1..n + m : d[i] = b[i]
  BY <1>1, <1>4, <1>6, OneMore
<1>8. Len(c) = n + m + 1
  BY <1>1, <1>3, <1>5
<1>9. ASSUME NEW i \in 1..n + m + 1 PROVE c[i] = d[i]
  <2>1. c[i] = IF i <= n THEN s[i] ELSE a[i - n]
    BY <1>1, <1>3, <1>5
  <2>2. CASE i = n + m + 1
    <3>1. ~(i <= n) /\ i - n = m + 1
      BY <2>2
    <3> QED BY <1>3, <1>7, <2>1, <2>2, <3>1
  <2>3. CASE i # n + m + 1
    <3>1. i \in 1..n + m /\ (~(i <= n) => i - n \in 1..m)
      BY <2>3
    <3>2. d[i] = IF i <= n THEN s[i] ELSE t[i - n]
      BY <1>1, <1>4, <1>7, <3>1
    <3> QED BY <1>3, <2>1, <3>1, <3>2
  <2> QED BY <2>2, <2>3
<1>10. c = d
  BY <1>5, <1>7, <1>8, <1>9, SeqEqual
<1> QED BY <1>2, <1>6, <1>10

\* A parser by its parts, and what a piece does to them.
ParserOf(m, c, l, b) == [messages |-> m, current |-> c, line |-> l, block |-> b]
LineEnded(c, l) ==
  IF l[1][1] = "data" THEN [c EXCEPT !.data = @ \o l]
  ELSE IF l[1][1] = "event" THEN [c EXCEPT !.event = l[1][2]] ELSE c

LEMMA ParserParts ==
  ASSUME NEW m, NEW c, NEW l, NEW b
  PROVE  /\ ParserOf(m, c, l, b).messages = m /\ ParserOf(m, c, l, b).current = c
         /\ ParserOf(m, c, l, b).line = l /\ ParserOf(m, c, l, b).block = b
BY DEF ParserOf

LEMMA PieceByParts ==
  ASSUME NEW m, NEW c, NEW l, NEW b, NEW x
  PROVE  ParsePiece(ParserOf(m, c, l, b), x) =
           IF x # NewLine THEN ParserOf(m, c, Append(l, x), Append(b, x))
           ELSE IF l = << >> THEN ParserOf(IF c.data = << >> THEN m ELSE Append(m, c), NoBlock, << >>, << >>)
           ELSE ParserOf(m, LineEnded(c, l), << >>, Append(b, x))
<1>1. PICK lx, bx, ended : lx = Append(l, x) /\ bx = Append(b, x) /\ ended = LineEnded(c, l)
  OBVIOUS
<1>2. PICK p, read : p = ParserOf(m, c, l, b) /\ read = ParserOf(m, c, l, bx)
  OBVIOUS
<1>3. p.line = l /\ p.messages = m /\ p.current = c /\ p.block = b /\ read.line = l /\ read.current = c
  BY <1>2, ParserParts
<1>4. [p EXCEPT !.block = bx] = read
  BY <1>2 DEF ParserOf
<1>5. CASE x # NewLine
  <2>1. [read EXCEPT !.line = lx] = ParserOf(m, c, lx, bx)
    BY <1>2 DEF ParserOf
  <2>2. ParsePiece(p, x) = [read EXCEPT !.line = Append(read.line, x)]
    BY <1>1, <1>3, <1>4, <1>5, Zenon DEF ParsePiece
  <2> QED BY <1>1, <1>2, <1>3, <1>5, <2>1, <2>2, Zenon
<1>6. CASE x = NewLine /\ l = << >>
  <2>1. ParseStart = ParserOf(<< >>, NoBlock, << >>, << >>)
    BY DEF ParseStart, ParserOf
  <2>2. PICK e : e = (IF c.data = << >> THEN m ELSE Append(m, c))
    OBVIOUS
  <2>3. [ParseStart EXCEPT !.messages = e] = ParserOf(e, NoBlock, << >>, << >>)
    BY <2>1 DEF ParserOf
  <2>4. Flush(p) = [ParseStart EXCEPT !.messages = e]
    BY <1>3, <2>2, Zenon DEF Flush
  <2>5. ParsePiece(p, x) = Flush(p)
    BY <1>3, <1>6, Zenon DEF ParsePiece
  <2> QED BY <1>2, <1>6, <2>2, <2>3, <2>4, <2>5, Zenon
<1>7. CASE x = NewLine /\ l # << >>
  <2>1. ParsePiece(p, x) = EndLine(read)
    BY <1>1, <1>3, <1>4, <1>7, Zenon DEF ParsePiece
  <2>2. [[read EXCEPT !.current = ended] EXCEPT !.line = << >>] = ParserOf(m, ended, << >>, bx)
    <3>1. [read EXCEPT !.current = ended] = ParserOf(m, ended, l, bx)
      BY <1>2 DEF ParserOf
    <3>2. [ParserOf(m, ended, l, bx) EXCEPT !.line = << >>] = ParserOf(m, ended, << >>, bx)
      BY DEF ParserOf
    <3> QED BY <3>1, <3>2
  <2>3. EndLine(read) = ParserOf(m, ended, << >>, bx)
    <3>1. CASE l[1][1] = "data"
      <4>1. EndLine(read) = [read EXCEPT !.current.data = @ \o read.line, !.line = << >>]
        BY <1>3, <3>1 DEF EndLine
      <4>2. ended = [read.current EXCEPT !.data = @ \o read.line]
        BY <1>1, <1>3, <3>1, Zenon DEF LineEnded
      <4> QED BY <2>2, <4>1, <4>2
    <3>2. CASE l[1][1] = "event"
      <4>1. EndLine(read) = [read EXCEPT !.current.event = read.line[1][2], !.line = << >>]
        BY <1>3, <3>2 DEF EndLine
      <4>2. ended = [read.current EXCEPT !.event = read.line[1][2]]
        BY <1>1, <1>3, <3>2 DEF LineEnded
      <4> QED BY <2>2, <4>1, <4>2
    <3>3. CASE l[1][1] \notin {"data", "event"}
      <4>1. EndLine(read) = [read EXCEPT !.line = << >>]
        BY <1>3, <3>3 DEF EndLine
      <4>2. ended = c
        BY <1>1, <3>3 DEF LineEnded
      <4>3. [read EXCEPT !.line = << >>] = ParserOf(m, c, << >>, bx)
        BY <1>2 DEF ParserOf
      <4> QED BY <4>1, <4>2, <4>3
    <3> QED BY <3>1, <3>2, <3>3
  <2> QED BY <1>1, <1>2, <1>7, <2>1, <2>3, Zenon
<1> QED BY <1>5, <1>6, <1>7

LEMMA ParserFields ==
  ASSUME NEW p \in Parser
  PROVE  /\ p.messages \in Seq(SseMessage) /\ p.line \in Seq(Piece) /\ p.block \in Seq(Piece)
         /\ p.current \in SseMessage
         /\ p = ParserOf(p.messages, p.current, p.line, p.block)
BY DEF Parser, SseMessage, ParserOf

\* A parser that has given some messages before goes on as one that has not.
Later(ms, p) == ParserOf(ms \o p.messages, p.current, p.line, p.block)
Anew(p) == ParserOf(<< >>, p.current, p.line, p.block)

LEMMA ParsesLater ==
  ASSUME NEW p \in Parser, NEW ms \in Seq(SseMessage), NEW x \in Piece
  PROVE  ParsePiece(Later(ms, p), x) = Later(ms, ParsePiece(p, x))
<1>1. PICK m, c, l, b : /\ m \in Seq(SseMessage) /\ c \in SseMessage
                        /\ p = ParserOf(m, c, l, b)
  BY ParserFields
<1>2. PICK mm, lx, bx, ended : mm = ms \o m /\ lx = Append(l, x) /\ bx = Append(b, x) /\ ended = LineEnded(c, l)
  OBVIOUS
<1>3. Later(ms, p) = ParserOf(mm, c, l, b)
  BY <1>1, <1>2, ParserParts DEF Later
<1>4. ASSUME NEW m2, NEW c2, NEW l2, NEW b2, ParsePiece(p, x) = ParserOf(m2, c2, l2, b2)
      PROVE  Later(ms, ParsePiece(p, x)) = ParserOf(ms \o m2, c2, l2, b2)
  BY <1>4, ParserParts DEF Later
<1>5. CASE x # NewLine
  <2>1. ParsePiece(p, x) = ParserOf(m, c, lx, bx) /\ ParsePiece(ParserOf(mm, c, l, b), x) = ParserOf(mm, c, lx, bx)
    BY <1>1, <1>2, <1>5, PieceByParts
  <2> QED BY <1>2, <1>3, <1>4, <2>1
<1>6. CASE x = NewLine /\ l = << >>
  <2>1. PICK m1, m2 : /\ m1 = (IF c.data = << >> THEN m ELSE Append(m, c))
                      /\ m2 = (IF c.data = << >> THEN mm ELSE Append(mm, c))
    OBVIOUS
  <2>2. ms \o Append(m, c) = Append(ms \o m, c)
    BY <1>1, AppendedLater
  <2>3. m2 = ms \o m1
    BY <1>2, <2>1, <2>2
  <2>4. ParsePiece(p, x) = ParserOf(m1, NoBlock, << >>, << >>)
    BY <1>1, <1>6, <2>1, PieceByParts
  <2>5. ParsePiece(ParserOf(mm, c, l, b), x) = ParserOf(m2, NoBlock, << >>, << >>)
    BY <1>6, <2>1, PieceByParts
  <2> QED BY <1>3, <1>4, <2>3, <2>4, <2>5
<1>7. CASE x = NewLine /\ l # << >>
  <2>1. /\ ParsePiece(p, x) = ParserOf(m, ended, << >>, bx)
        /\ ParsePiece(ParserOf(mm, c, l, b), x) = ParserOf(mm, ended, << >>, bx)
    BY <1>1, <1>2, <1>7, PieceByParts
  <2> QED BY <1>2, <1>3, <1>4, <2>1
<1> QED BY <1>5, <1>6, <1>7

\* The block that is kept for the next chunk stands for all that was read.
LEMMA BlockStandsForAll ==
  ASSUME NEW t \in Seq(Piece)
  PROVE  Parsed(Parsed(t).block) = Anew(Parsed(t))
<1> DEFINE good == {s \in Seq(Piece) : Parsed(Parsed(s).block) = Anew(Parsed(s))}
<1>1. << >> \in good
  <2>1. Parsed(<< >>) = ParseStart /\ << >> \in Seq(Piece)
    BY ParsedOneMore
  <2>2. ParseStart = ParserOf(<< >>, NoBlock, << >>, << >>)
    BY DEF ParseStart, ParserOf
  <2>3. ParseStart.block = << >> /\ Anew(ParseStart) = ParseStart
    BY <2>2, ParserParts DEF Anew
  <2> QED BY <2>1, <2>3
<1>2. ASSUME NEW s \in Seq(Piece), NEW x \in Piece, s \in good PROVE Append(s, x) \in good
  <2>1. Append(s, x) \in Seq(Piece)
    BY OneMore
  <2>2. PICK p \in Parser : p = Parsed(s)
    BY ParsedOneMore
  <2>3. PICK m, c, l, b : p = ParserOf(m, c, l, b) /\ b \in Seq(Piece) /\ p.block = b
    BY <2>2, ParserFields
  <2>4. Parsed(b) = ParserOf(<< >>, c, l, b)
    <3>1. Parsed(b) = Anew(p)
      BY <1>2, <2>2, <2>3
    <3>2. Anew(p) = ParserOf(<< >>, c, l, b)
      BY <2>3, ParserParts DEF Anew
    <3> QED BY <3>1, <3>2
  <2>5. Parsed(Append(s, x)) = ParsePiece(p, x) /\ Parsed(Append(b, x)) = ParsePiece(ParserOf(<< >>, c, l, b), x)
    BY <2>2, <2>3, <2>4, ParsedOneMore
  <2>6. PICK lx, bx, ended : lx = Append(l, x) /\ bx = Append(b, x) /\ ended = LineEnded(c, l)
    OBVIOUS
  <2>7. Parsed(ParsePiece(p, x).block) = Anew(ParsePiece(p, x))
    <3>1. CASE x # NewLine
      <4>1. ParsePiece(p, x) = ParserOf(m, c, lx, bx) /\ Parsed(bx) = ParserOf(<< >>, c, lx, bx)
        BY <2>3, <2>5, <2>6, <3>1, PieceByParts
      <4> QED BY <4>1, ParserParts DEF Anew
    <3>2. CASE x = NewLine /\ l = << >>
      <4>1. PICK m1 : m1 = (IF c.data = << >> THEN m ELSE Append(m, c))
        OBVIOUS
      <4>2. ParsePiece(p, x) = ParserOf(m1, NoBlock, << >>, << >>)
        BY <2>3, <3>2, <4>1, PieceByParts
      <4>3. Parsed(<< >>) = ParseStart /\ ParseStart = ParserOf(<< >>, NoBlock, << >>, << >>)
        BY ParsedOneMore DEF ParseStart, ParserOf
      <4> QED BY <4>2, <4>3, ParserParts DEF Anew
    <3>3. CASE x = NewLine /\ l # << >>
      <4>1. ParsePiece(p, x) = ParserOf(m, ended, << >>, bx) /\ Parsed(bx) = ParserOf(<< >>, ended, << >>, bx)
        BY <2>3, <2>5, <2>6, <3>3, PieceByParts
      <4> QED BY <4>1, ParserParts DEF Anew
    <3> QED BY <3>1, <3>2, <3>3
  <2> QED BY <2>1, <2>5, <2>7
<1>3. \A s \in Seq(Piece), x \in Piece : s \in good => Append(s, x) \in good
  BY <1>2
<1> HIDE DEF good
<1>4. t \in good
  BY <1>1, <1>3, OneLonger
<1> QED BY <1>4 DEF good

\* A chunk that is parsed after the kept block gives what the whole text gives.
LEMMA ChunkAfterBlock ==
  ASSUME NEW t \in Seq(Piece), NEW chunk \in Seq(Piece)
  PROVE  Parsed(t \o chunk) = Later(Parsed(t).messages, Parsed(Parsed(t).block \o chunk))
<1>1. PICK p \in Parser : p = Parsed(t)
  BY ParsedOneMore
<1>2. PICK m, b : m = p.messages /\ b = p.block /\ m \in Seq(SseMessage) /\ b \in Seq(Piece)
  BY <1>1, ParserFields
<1> DEFINE good == {c \in Seq(Piece) : Parsed(t \o c) = Later(m, Parsed(b \o c))}
<1>3. << >> \in good
  <2>1. t \o << >> = t /\ b \o << >> = b /\ m \o << >> = m /\ << >> \in Seq(Piece)
    BY <1>2, ConcatEmptySeq
  <2>2. Parsed(b) = Anew(p)
    BY <1>1, <1>2, BlockStandsForAll
  <2>3. Later(m, Anew(p)) = p
    <3>1. PICK c, l : c = p.current /\ l = p.line /\ p = ParserOf(m, c, l, b)
      BY <1>2, ParserFields
    <3>2. PICK a : a = Anew(p) /\ a = ParserOf(<< >>, c, l, b)
      BY <1>2, <3>1 DEF Anew
    <3>3. Later(m, a) = ParserOf(m \o << >>, c, l, b)
      <4>1. a.messages = << >> /\ a.current = c /\ a.line = l /\ a.block = b
        BY <3>2, ParserParts
      <4> QED BY <4>1, Zenon DEF Later
    <3> QED BY <2>1, <3>1, <3>2, <3>3
  <2> QED BY <1>1, <2>1, <2>2, <2>3
<1>4. ASSUME NEW c \in Seq(Piece), NEW x \in Piece, c \in good PROVE Append(c, x) \in good
  <2>1. Append(c, x) \in Seq(Piece) /\ t \o c \in Seq(Piece) /\ b \o c \in Seq(Piece)
    BY <1>2, OneMore, ConcatProperties
  <2>2. t \o Append(c, x) = Append(t \o c, x)
    BY AppendedLater
  <2>3. b \o Append(c, x) = Append(b \o c, x)
    <3>1. b \in Seq(Piece)
      BY <1>2
    <3> QED BY <3>1, AppendedLater
  <2>4. PICK q \in Parser : q = Parsed(b \o c)
    BY <2>1, ParsedOneMore
  <2>5. Parsed(Append(t \o c, x)) = ParsePiece(Later(m, q), x)
    BY <1>4, <2>1, <2>4, ParsedOneMore
  <2>6. Parsed(Append(b \o c, x)) = ParsePiece(q, x)
    BY <2>1, <2>4, ParsedOneMore
  <2>7. ParsePiece(Later(m, q), x) = Later(m, ParsePiece(q, x))
    BY <1>2, <2>4, ParsesLater
  <2> QED BY <2>1, <2>2, <2>3, <2>5, <2>6, <2>7
<1>5. \A c \in Seq(Piece), x \in Piece : c \in good => Append(c, x) \in good
  BY <1>4
<1> HIDE DEF good
<1>6. chunk \in good
  BY <1>3, <1>5, OneLonger
<1> QED BY <1>1, <1>2, <1>6 DEF good

\* What followRun hands on of a sequence of messages, message by message.
LEMMA HandedOnIsInt ==
  ASSUME NEW given \in Seq(Int), NEW m \in SseMessage
  PROVE  HandOn(given, m) \in Seq(Int)
<1>1. m.event \in Int
  BY DEF SseMessage
<1>2. Append(given, m.event) \in Seq(Int)
  BY <1>1, OneMore
<1> QED BY <1>2 DEF HandOn

LEMMA MessagesAreFolded ==
  ASSUME NEW s \in Seq(SseMessage)
  PROVE  \E f \in [0..Len(s) -> Seq(Int)] :
           /\ f[0] = << >> /\ f[Len(s)] = Readable(s)
           /\ \A i \in 1..Len(s) : f[i] = HandOn(f[i - 1], s[i])
<1>1. PICK n \in Nat : n = Len(s)
  BY LenProperties
<1>2. DOMAIN s = 1..n /\ \A i \in 1..n : s[i] \in SseMessage
  BY <1>1, LenProperties, ElementOfSeq
<1> DEFINE step == [p \in Seq(Int) \X (1..n) |-> HandOn(p[1], s[p[2]])]
           steps(it) == [t \in SUBSET (1..n) |-> IF t = {} THEN << >> ELSE HandOn(it[t \ {Max(t)}], s[Max(t)])]
           fold == CHOOSE it : it = steps(it)
<1>3. step \in [Seq(Int) \X (1..n) -> Seq(Int)]
  BY <1>2, HandedOnIsInt
<1>4. << >> \in Seq(Int)
  OBVIOUS
<1>5. Readable(s) = fold[1..n]
  BY <1>2, Zenon DEF Readable, FoldLeft, MapThenFoldSet
<1>6. \A p \in Seq(Int), i \in 1..n : step[<<p, i>>] = HandOn(p, s[i])
  OBVIOUS
<1> HIDE DEF step
<1>a. PICK h \in [SUBSET (1..n) -> Seq(Int)], f \in [0..n -> Seq(Int)] : GoesThrough(h, f, n, << >>, step)
  BY <1>3, <1>4, StepByStep
<1>7. /\ \A t \in SUBSET (1..n) : h[t] = IF t = {} THEN << >> ELSE step[<<h[t \ {Max(t)}], Max(t)>>]
      /\ f[0] = << >> /\ f[n] = h[1..n]
      /\ \A i \in 1..n : f[i] = step[<<f[i - 1], i>>]
  BY <1>a DEF GoesThrough
<1>8. h = steps(h)
  <2>1. ASSUME NEW t \in SUBSET (1..n), t # {}
        PROVE  h[t] = HandOn(h[t \ {Max(t)}], s[Max(t)])
    <3>1. Max(t) \in 1..n /\ t \ {Max(t)} \in SUBSET (1..n)
      BY <2>1, GreatestOf
    <3>2. h[t] = step[<<h[t \ {Max(t)}], Max(t)>>] /\ h[t \ {Max(t)}] \in Seq(Int)
      BY <1>7, <2>1, <3>1
    <3> QED BY <1>6, <3>1, <3>2
  <2>2. \A t \in SUBSET (1..n) : h[t] = steps(h)[t]
    BY <1>7, <2>1
  <2>3. h = [t \in SUBSET (1..n) |-> h[t]]
    OBVIOUS
  <2> QED BY <2>2, <2>3
<1>9. fold = steps(fold)
  BY <1>8
<1> HIDE DEF fold
<1>10. fold[1..n] = h[1..n]
  <2>1. fold[{}] = h[{}]
    BY <1>8, <1>9
  <2>2. \A t \in SUBSET (1..n) : t # {} /\ fold[t \ {Max(t)}] = h[t \ {Max(t)}] => fold[t] = h[t]
    <3>1. \A t \in SUBSET (1..n) : t # {} => /\ fold[t] = HandOn(fold[t \ {Max(t)}], s[Max(t)])
                                             /\ h[t] = HandOn(h[t \ {Max(t)}], s[Max(t)])
      BY <1>8, <1>9
    <3> QED BY <3>1
  <2> QED BY <2>1, <2>2, OneWayThrough
<1>11. \A i \in 1..n : f[i] = HandOn(f[i - 1], s[i])
  <2>1. \A i \in 1..n : i - 1 \in 0..n /\ f[i - 1] \in Seq(Int)
    OBVIOUS
  <2> QED BY <1>6, <1>7, <2>1
<1> QED BY <1>1, <1>5, <1>7, <1>10, <1>11

LEMMA ReadableOneMore ==
  /\ Readable(<< >>) = << >>
  /\ \A s \in Seq(SseMessage) : Readable(s) \in Seq(Int)
  /\ \A s \in Seq(SseMessage), x \in SseMessage : Readable(Append(s, x)) = HandOn(Readable(s), x)
<1>1. Readable(<< >>) = << >>
  <2>1. << >> \in Seq(SseMessage) /\ Len(<< >>) = 0
    OBVIOUS
  <2> QED BY <2>1, MessagesAreFolded
<1>2. ASSUME NEW s \in Seq(SseMessage) PROVE Readable(s) \in Seq(Int)
  <2>1. PICK f \in [0..Len(s) -> Seq(Int)] : f[Len(s)] = Readable(s)
    BY MessagesAreFolded
  <2>2. Len(s) \in 0..Len(s)
    BY LenProperties
  <2> QED BY <2>1, <2>2
<1>3. ASSUME NEW s \in Seq(SseMessage), NEW x \in SseMessage PROVE Readable(Append(s, x)) = HandOn(Readable(s), x)
  <2>1. PICK n \in Nat : n = Len(s)
    BY LenProperties
  <2>2. PICK t : t = Append(s, x)
    OBVIOUS
  <2>3. t \in Seq(SseMessage) /\ Len(t) = n + 1 /\ t[n + 1] = x /\ \A i \in 1..n : t[i] = s[i]
    BY <2>1, <2>2, OneMore
  <2>4. PICK f \in [0..n -> Seq(Int)] :
          /\ f[0] = << >> /\ f[n] = Readable(s) /\ \A i \in 1..n : f[i] = HandOn(f[i - 1], s[i])
    BY <2>1, MessagesAreFolded
  <2>a. PICK g \in [0..Len(t) -> Seq(Int)] :
          /\ g[0] = << >> /\ g[Len(t)] = Readable(t) /\ \A i \in 1..Len(t) : g[i] = HandOn(g[i - 1], t[i])
    BY <2>3, MessagesAreFolded
  <2>5. /\ g[0] = << >> /\ g[n + 1] = Readable(t) /\ \A i \in 1..n + 1 : g[i] = HandOn(g[i - 1], t[i])
    BY <2>3, <2>a
  <2>6. \A i \in 1..n : f[i - 1] = g[i - 1] => f[i] = g[i]
    <3>1. \A i \in 1..n : i \in 1..n + 1
      OBVIOUS
    <3> QED BY <2>3, <2>4, <2>5, <3>1
  <2>7. f[n] = g[n]
    <3>1. f[0] = g[0]
      BY <2>4, <2>5
    <3> QED BY <2>6, <3>1, SameSteps
  <2>8. n + 1 \in 1..n + 1 /\ n + 1 - 1 = n
    OBVIOUS
  <2> QED BY <2>2, <2>3, <2>4, <2>5, <2>7, <2>8
<1> QED BY <1>1, <1>2, <1>3

\* What is handed on of messages that come in two lots.
LEMMA HandedInTwoLots ==
  ASSUME NEW first \in Seq(SseMessage), NEW second \in Seq(SseMessage)
  PROVE  Readable(first \o second) = Readable(first) \o Readable(second)
<1> DEFINE good == {s \in Seq(SseMessage) : Readable(first \o s) = Readable(first) \o Readable(s)}
<1>1. << >> \in good
  <2>1. PICK r \in Seq(Int) : r = Readable(first)
    BY ReadableOneMore
  <2>2. first \o << >> = first /\ r \o << >> = r /\ << >> \in Seq(SseMessage)
    BY ConcatEmptySeq
  <2> QED BY <2>1, <2>2, ReadableOneMore
<1>2. ASSUME NEW s \in Seq(SseMessage), NEW m \in SseMessage, s \in good PROVE Append(s, m) \in good
  <2>1. Append(s, m) \in Seq(SseMessage) /\ first \o s \in Seq(SseMessage)
    BY OneMore, ConcatProperties
  <2>2. first \o Append(s, m) = Append(first \o s, m)
    BY AppendedLater
  <2>3. PICK a \in Seq(Int), b \in Seq(Int) : a = Readable(first) /\ b = Readable(s)
    BY ReadableOneMore
  <2>4. Readable(first \o s) = a \o b
    BY <1>2, <2>3
  <2>5. Readable(Append(first \o s, m)) = HandOn(a \o b, m) /\ Readable(Append(s, m)) = HandOn(b, m)
    BY <2>1, <2>3, <2>4, ReadableOneMore
  <2>6. m.event \in Int
    BY DEF SseMessage
  <2>7. a \o Append(b, m.event) = Append(a \o b, m.event)
    BY <2>6, AppendedLater
  <2>8. HandOn(a \o b, m) = a \o HandOn(b, m)
    BY <2>7 DEF HandOn
  <2> QED BY <2>1, <2>2, <2>3, <2>5, <2>8
<1>3. \A s \in Seq(SseMessage), m \in SseMessage : s \in good => Append(s, m) \in good
  BY <1>2
<1> HIDE DEF good
<1>4. second \in good
  BY <1>1, <1>3, OneLonger
<1> QED BY <1>4 DEF good

LEMMA EndInTwoLots ==
  ASSUME NEW first \in Seq(SseMessage), NEW second \in Seq(SseMessage)
  PROVE  TellsEnd(first \o second) <=> TellsEnd(first) \/ TellsEnd(second)
<1>1. PICK n \in Nat, m \in Nat : n = Len(first) /\ m = Len(second)
  BY LenProperties
<1>2. PICK both : both = first \o second
  OBVIOUS
<1>3. DOMAIN first = 1..n /\ DOMAIN second = 1..m
  BY <1>1, LenProperties
<1>4. /\ both \in Seq(SseMessage) /\ Len(both) = Len(first) + Len(second)
      /\ \A i \in 1..Len(first) + Len(second) : both[i] = IF i <= Len(first) THEN first[i] ELSE second[i - Len(first)]
  BY <1>2, ConcatProperties
<1>5. DOMAIN both = 1..n + m
  BY <1>1, <1>4, LenProperties
<1>6. \A i \in 1..n + m : both[i] = IF i <= n THEN first[i] ELSE second[i - n]
  BY <1>1, <1>4
<1>7. ASSUME NEW i \in 1..n PROVE i \in 1..n + m /\ both[i] = first[i]
  BY <1>6
<1>8. ASSUME NEW i \in 1..m PROVE i + n \in 1..n + m /\ both[i + n] = second[i]
  <2>1. i + n \in 1..n + m /\ ~(i + n <= n) /\ i + n - n = i
    OBVIOUS
  <2> QED BY <1>6, <2>1
<1>9. ASSUME NEW i \in 1..n + m PROVE (i \in 1..n /\ both[i] = first[i]) \/ (i - n \in 1..m /\ both[i] = second[i - n])
  BY <1>6
<1>10. ASSUME TellsEnd(both) PROVE TellsEnd(first) \/ TellsEnd(second)
  <2>1. PICK i \in 1..n + m : both[i].event = 0
    BY <1>5, <1>10 DEF TellsEnd
  <2> QED BY <1>3, <1>9, <2>1 DEF TellsEnd
<1>11. ASSUME TellsEnd(first) PROVE TellsEnd(both)
  BY <1>3, <1>5, <1>7, <1>11 DEF TellsEnd
<1>12. ASSUME TellsEnd(second) PROVE TellsEnd(both)
  BY <1>3, <1>5, <1>8, <1>12 DEF TellsEnd
<1> QED BY <1>2, <1>10, <1>11, <1>12

LEMMA EndOneMore ==
  ASSUME NEW ms \in Seq(SseMessage), NEW m \in SseMessage
  PROVE  TellsEnd(Append(ms, m)) <=> TellsEnd(ms) \/ m.event = 0
<1>1. PICK n \in Nat : n = Len(ms)
  BY LenProperties
<1>2. PICK u : u = Append(ms, m)
  OBVIOUS
<1>3. DOMAIN ms = 1..n /\ DOMAIN u = 1..n + 1 /\ u[n + 1] = m /\ \A i \in 1..n : u[i] = ms[i]
  BY <1>1, <1>2, OneMore
<1>4. \A i \in 1..n + 1 : i \in 1..n \/ i = n + 1
  OBVIOUS
<1>5. n + 1 \in 1..n + 1 /\ \A i \in 1..n : i \in 1..n + 1
  OBVIOUS
<1> QED BY <1>2, <1>3, <1>4, <1>5 DEF TellsEnd

\* How many events of a text came with all of their data.
Whole(t) == Cardinality({i \in DOMAIN t : t[i][1] = "rest" /\ t[i][2] > 0})

LEMMA WholeOneMore ==
  ASSUME NEW t \in Seq(Piece), NEW x \in Piece
  PROVE  /\ Whole(t) \in Nat /\ Whole(<< >>) = 0
         /\ Whole(Append(t, x)) = IF x[1] = "rest" /\ x[2] > 0 THEN Whole(t) + 1 ELSE Whole(t)
<1>1. PICK n \in Nat : n = Len(t)
  BY LenProperties
<1>2. PICK u : u = Append(t, x)
  OBVIOUS
<1>3. DOMAIN t = 1..n /\ DOMAIN u = 1..n + 1 /\ u[n + 1] = x /\ \A i \in 1..n : u[i] = t[i]
  BY <1>1, <1>2, OneMore
<1>4. PICK was, is : /\ was = {i \in 1..n : t[i][1] = "rest" /\ t[i][2] > 0}
                     /\ is = {i \in 1..n + 1 : u[i][1] = "rest" /\ u[i][2] > 0}
  OBVIOUS
<1>5. Whole(t) = Cardinality(was) /\ Whole(u) = Cardinality(is)
  BY <1>3, <1>4 DEF Whole
<1>6. IsFiniteSet(was) /\ Cardinality(was) \in Nat
  <2>1. IsFiniteSet(1..n) /\ was \in SUBSET (1..n)
    BY <1>4, FS_Interval
  <2> QED BY <2>1, FS_Subset, FS_CardinalityType
<1>7. Whole(<< >>) = 0
  <2>1. {i \in DOMAIN << >> : << >>[i][1] = "rest" /\ << >>[i][2] > 0} = {}
    OBVIOUS
  <2> QED BY <2>1, FS_EmptySet, Zenon DEF Whole
<1>8. \A i \in 1..n + 1 : i \in 1..n \/ i = n + 1
  OBVIOUS
<1>9. n + 1 \in 1..n + 1 /\ n + 1 \notin 1..n /\ \A i \in 1..n : i \in 1..n + 1
  OBVIOUS
<1>10. CASE x[1] = "rest" /\ x[2] > 0
  <2>1. is = was \cup {n + 1} /\ n + 1 \notin was
    BY <1>3, <1>4, <1>8, <1>9, <1>10
  <2>2. Cardinality(is) = Cardinality(was) + 1
    BY <1>6, <2>1, FS_AddElement
  <2> QED BY <1>2, <1>5, <1>6, <1>7, <1>10, <2>2
<1>11. CASE ~(x[1] = "rest" /\ x[2] > 0)
  <2>1. is = was
    BY <1>3, <1>4, <1>8, <1>9, <1>11
  <2> QED BY <1>2, <1>5, <1>6, <1>7, <1>11, <2>1
<1> QED BY <1>10, <1>11

\* Two and three pieces more.
LEMMA TwoPieces ==
  ASSUME NEW a \in Piece, NEW b \in Piece
  PROVE  <<a>> \in Seq(Piece) /\ << >> \in Seq(Piece) /\ <<a>> = Append(<< >>, a) /\ <<a, b>> = Append(<<a>>, b)
OBVIOUS

LEMMA PairMore ==
  ASSUME NEW t \in Seq(Piece), NEW a \in Piece, NEW b \in Piece
  PROVE  t \o <<a, b>> = Append(Append(t, a), b)
<1>1. <<a>> \in Seq(Piece) /\ << >> \in Seq(Piece) /\ <<a>> = Append(<< >>, a) /\ <<a, b>> = Append(<<a>>, b)
  BY TwoPieces
<1>2. t \o <<a>> = Append(t, a)
  BY <1>1, AppendedLater, ConcatEmptySeq
<1> QED BY <1>1, <1>2, AppendedLater

LEMMA TripleMore ==
  ASSUME NEW t \in Seq(Piece), NEW a \in Piece, NEW b \in Piece, NEW c \in Piece
  PROVE  t \o <<a, b, c>> = Append(Append(Append(t, a), b), c)
<1>1. <<a, b>> \in Seq(Piece) /\ <<a, b, c>> \in Seq(Piece)
  OBVIOUS
<1>2. PICK u : u = Append(<<a, b>>, c)
  OBVIOUS
<1>3. Len(<<a, b>>) = 2 /\ <<a, b>>[1] = a /\ <<a, b>>[2] = b
  OBVIOUS
<1>4. u \in Seq(Piece) /\ Len(u) = 3 /\ u[3] = c /\ u[1] = a /\ u[2] = b
  BY <1>1, <1>2, <1>3, OneMore
<1>5. Len(<<a, b, c>>) = 3 /\ <<a, b, c>>[1] = a /\ <<a, b, c>>[2] = b /\ <<a, b, c>>[3] = c
  OBVIOUS
<1>6. \A i \in 1..3 : i = 1 \/ i = 2 \/ i = 3
  OBVIOUS
<1>7. <<a, b, c>> = u
  BY <1>1, <1>4, <1>5, <1>6, SeqEqual
<1> QED BY <1>1, <1>2, <1>7, AppendedLater, PairMore

\* What the text of a frame is made of, and what its lines make of a block.
MessageOf(n, data) == [event |-> n, data |-> data]

LEMMA PiecesOfFrames ==
  ASSUME NEW n \in Int
  PROVE  /\ NewLine \in Piece /\ <<"id", n>> \in Piece /\ <<"event", n>> \in Piece /\ <<"data", n>> \in Piece
         /\ <<"rest", n>> \in Piece /\ <<"comment", n>> \in Piece
         /\ <<"id", n>> # NewLine /\ <<"event", n>> # NewLine /\ <<"data", n>> # NewLine
         /\ <<"rest", n>> # NewLine /\ <<"comment", n>> # NewLine
         /\ NewLine[1] # "rest"
BY DEF NewLine, Piece

LEMMA LinesOfFrames ==
  ASSUME NEW n \in Int
  PROVE  /\ NoBlock \in SseMessage /\ NoBlock.data = << >>
         /\ \A d \in Seq(Piece) : MessageOf(n, d) \in SseMessage /\ MessageOf(n, d).data = d /\ MessageOf(n, d).event = n
         /\ << <<"data", n>> >> \in Seq(Piece) /\ << <<"data", n>> >> # << >>
         /\ Data(n) \in Seq(Piece) /\ Data(n) # << >> /\ << <<"data", n>> >> # Data(n)
         /\ Append(<< <<"data", n>> >>, <<"rest", n>>) = Data(n)
         /\ LineEnded(NoBlock, << <<"id", n>> >>) = NoBlock
         /\ LineEnded(NoBlock, << <<"comment", n>> >>) = NoBlock
         /\ LineEnded(NoBlock, << <<"event", n>> >>) = MessageOf(n, << >>)
         /\ LineEnded(MessageOf(n, << >>), << <<"data", n>> >>) = MessageOf(n, << <<"data", n>> >>)
         /\ LineEnded(MessageOf(n, << >>), Data(n)) = MessageOf(n, Data(n))
<1>1. NoBlock \in SseMessage /\ NoBlock.data = << >>
  BY DEF NoBlock, SseMessage, Unnamed
<1>2. ASSUME NEW d \in Seq(Piece)
      PROVE  MessageOf(n, d) \in SseMessage /\ MessageOf(n, d).data = d /\ MessageOf(n, d).event = n
  BY DEF MessageOf, SseMessage
<1>3. PICK x \in Piece, y \in Piece : x = <<"data", n>> /\ y = <<"rest", n>> /\ x[1] = "data"
  BY PiecesOfFrames
<1>4. /\ <<x>> \in Seq(Piece) /\ <<x>> # << >> /\ Len(<<x>>) = 1 /\ <<x>>[1] = x
      /\ <<x, y>> \in Seq(Piece) /\ <<x, y>> # << >> /\ Len(<<x, y>>) = 2 /\ <<x, y>>[1] = x
  OBVIOUS
<1>5. Data(n) = <<x, y>>
  BY <1>3 DEF Data
<1>6. Append(<<x>>, y) = <<x, y>> /\ <<x>> # <<x, y>>
  <2>1. Append(<<x>>, y) = <<x, y>>
    BY TwoPieces
  <2> QED BY <1>4, <2>1
<1>7. /\ LineEnded(NoBlock, << <<"id", n>> >>) = NoBlock
      /\ LineEnded(NoBlock, << <<"comment", n>> >>) = NoBlock
  <2>1. << <<"id", n>> >>[1][1] = "id" /\ << <<"comment", n>> >>[1][1] = "comment"
    OBVIOUS
  <2> QED BY <2>1 DEF LineEnded
<1>8. LineEnded(NoBlock, << <<"event", n>> >>) = MessageOf(n, << >>)
  <2>1. << <<"event", n>> >>[1][1] = "event" /\ << <<"event", n>> >>[1][2] = n
    OBVIOUS
  <2>2. LineEnded(NoBlock, << <<"event", n>> >>) = [NoBlock EXCEPT !.event = n]
    BY <2>1 DEF LineEnded
  <2>3. [NoBlock EXCEPT !.event = n] = MessageOf(n, << >>)
    BY DEF NoBlock, MessageOf
  <2> QED BY <2>2, <2>3
<1>9. ASSUME NEW d \in Seq(Piece), d[1][1] = "data" PROVE LineEnded(MessageOf(n, << >>), d) = MessageOf(n, d)
  <2>1. LineEnded(MessageOf(n, << >>), d) = [MessageOf(n, << >>) EXCEPT !.data = << >> \o d]
    BY <1>9 DEF LineEnded, MessageOf
  <2>2. << >> \o d = d
    BY ConcatEmptySeq
  <2>3. [MessageOf(n, << >>) EXCEPT !.data = d] = MessageOf(n, d)
    BY DEF MessageOf
  <2> QED BY <2>1, <2>2, <2>3
<1>10. LineEnded(MessageOf(n, << >>), <<x>>) = MessageOf(n, <<x>>) /\ LineEnded(MessageOf(n, << >>), <<x, y>>) = MessageOf(n, <<x, y>>)
  BY <1>3, <1>4, <1>9
<1> QED BY <1>1, <1>2, <1>3, <1>4, <1>5, <1>6, <1>7, <1>8, <1>10

\* A text after which the parser has given some messages, and has a block and a line open.
Leaves(t, m, c, l) == \E b : Parsed(t) = ParserOf(m, c, l, b)

LEMMA PieceLeaves ==
  ASSUME NEW t \in Seq(Piece), NEW m, NEW c, NEW l, Leaves(t, m, c, l), NEW x \in Piece
  PROVE  /\ Append(t, x) \in Seq(Piece)
         /\ x # NewLine => Leaves(Append(t, x), m, c, Append(l, x))
         /\ x = NewLine /\ l = << >> => Leaves(Append(t, x), IF c.data = << >> THEN m ELSE Append(m, c), NoBlock, << >>)
         /\ x = NewLine /\ l # << >> => Leaves(Append(t, x), m, LineEnded(c, l), << >>)
<1>1. PICK b : Parsed(t) = ParserOf(m, c, l, b)
  BY DEF Leaves
<1>2. Append(t, x) \in Seq(Piece) /\ Parsed(Append(t, x)) = ParsePiece(ParserOf(m, c, l, b), x)
  BY <1>1, OneMore, ParsedOneMore
<1>3. CASE x # NewLine
  <2>1. Parsed(Append(t, x)) = ParserOf(m, c, Append(l, x), Append(b, x))
    BY <1>2, <1>3, PieceByParts
  <2> QED BY <1>2, <1>3, <2>1 DEF Leaves
<1>4. CASE x = NewLine /\ l = << >>
  <2>1. Parsed(Append(t, x)) = ParserOf(IF c.data = << >> THEN m ELSE Append(m, c), NoBlock, << >>, << >>)
    BY <1>2, <1>4, PieceByParts
  <2> QED BY <1>2, <1>4, <2>1 DEF Leaves
<1>5. CASE x = NewLine /\ l # << >>
  <2>1. Parsed(Append(t, x)) = ParserOf(m, LineEnded(c, l), << >>, Append(b, x))
    BY <1>2, <1>5, PieceByParts
  <2> QED BY <1>2, <1>5, <2>1 DEF Leaves
<1> QED BY <1>3, <1>4, <1>5

\* The text as it is parsed when the body ends: as if an empty line came.
EndedText(t) == Append(Append(t, NewLine), NewLine)
LastBlock(c, l) == IF l = << >> THEN c ELSE LineEnded(c, l)

LEMMA EndLeaves ==
  ASSUME NEW t \in Seq(Piece), NEW m, NEW c, NEW l, Leaves(t, m, c, l)
  PROVE  /\ EndedText(t) \in Seq(Piece)
         /\ Parsed(EndedText(t)).messages = IF LastBlock(c, l).data = << >> THEN m ELSE Append(m, LastBlock(c, l))
<1>1. NewLine \in Piece /\ NoBlock.data = << >>
  BY DEF NewLine, Piece, NoBlock
<1>2. PICK u : u = Append(t, NewLine)
  OBVIOUS
<1>3. u \in Seq(Piece) /\ Append(u, NewLine) \in Seq(Piece) /\ EndedText(t) = Append(u, NewLine)
  BY <1>1, <1>2, OneMore DEF EndedText
<1>4. ASSUME NEW v, NEW k, Leaves(v, k, NoBlock, << >>)
      PROVE  Parsed(v).messages = k
  BY <1>4, ParserParts DEF Leaves
<1>5. CASE l = << >>
  <2>1. PICK k : k = (IF c.data = << >> THEN m ELSE Append(m, c))
    OBVIOUS
  <2>2. Leaves(u, k, NoBlock, << >>)
    BY <1>1, <1>2, <1>5, <2>1, PieceLeaves
  <2>3. Leaves(Append(u, NewLine), k, NoBlock, << >>)
    BY <1>1, <1>3, <2>2, PieceLeaves
  <2> QED BY <1>3, <1>4, <1>5, <2>1, <2>3 DEF LastBlock
<1>6. CASE l # << >>
  <2>1. PICK f : f = LineEnded(c, l)
    OBVIOUS
  <2>2. Leaves(u, m, f, << >>)
    BY <1>1, <1>2, <1>6, <2>1, PieceLeaves
  <2>3. PICK k : k = (IF f.data = << >> THEN m ELSE Append(m, f))
    OBVIOUS
  <2>4. Leaves(Append(u, NewLine), k, NoBlock, << >>)
    BY <1>1, <1>3, <2>2, <2>3, PieceLeaves
  <2> QED BY <1>3, <1>4, <1>6, <2>1, <2>3, <2>4 DEF LastBlock
<1> QED BY <1>5, <1>6

\* Sequences that begin alike have the same beginnings.
LEMMA SameBeginning ==
  ASSUME NEW S, NEW s \in Seq(S), NEW t \in Seq(S), NEW n \in Nat, n <= Len(s), n <= Len(t),
         \A i \in 1..n : s[i] = t[i], NEW k \in 0..n
  PROVE  SubSeq(s, 1, k) = SubSeq(t, 1, k)
<1>1. PICK a, b : a = SubSeq(s, 1, k) /\ b = SubSeq(t, 1, k)
  OBVIOUS
<1>2. PICK x \in Nat, y \in Nat : x = Len(s) /\ y = Len(t)
  BY LenProperties
<1>3. k \in Nat /\ (\A i \in 1..k : i \in 1..n /\ i \in 1..x /\ i \in 1..y) /\ (IF 1 <= k THEN k - 1 + 1 ELSE 0) = k
  BY <1>2
<1>4. \A i \in 1..k : s[i] \in S /\ t[i] \in S /\ 1 + i - 1 = i
  BY <1>2, <1>3, ElementOfSeq
<1>5. a \in Seq(S) /\ Len(a) = k /\ \A i \in 1..k : a[i] = s[i]
  <2>1. a \in Seq(S) /\ Len(a) = (IF 1 <= k THEN k - 1 + 1 ELSE 0) /\ \A i \in 1..(k - 1 + 1) : a[i] = s[1 + i - 1]
    BY <1>1, <1>3, <1>4, SubSeqProperties
  <2> QED BY <1>3, <1>4, <2>1
<1>6. b \in Seq(S) /\ Len(b) = k /\ \A i \in 1..k : b[i] = t[i]
  <2>1. b \in Seq(S) /\ Len(b) = (IF 1 <= k THEN k - 1 + 1 ELSE 0) /\ \A i \in 1..(k - 1 + 1) : b[i] = t[1 + i - 1]
    BY <1>1, <1>3, <1>4, SubSeqProperties
  <2> QED BY <1>3, <1>4, <2>1
<1>7. \A i \in 1..k : a[i] = b[i]
  BY <1>3, <1>5, <1>6
<1> QED BY <1>1, <1>5, <1>6, <1>7, SeqEqual

\* The first events, in order.
FirstEvents(r) == [i \in 1..r |-> i]

LEMMA OneEventFurther ==
  ASSUME NEW r \in Nat
  PROVE  FirstEvents(r) \in Seq(Int) /\ Len(FirstEvents(r)) = r /\ Append(FirstEvents(r), r + 1) = FirstEvents(r + 1)
<1>1. ASSUME NEW k \in Nat PROVE FirstEvents(k) \in Seq(Int) /\ Len(FirstEvents(k)) = k /\ \A i \in 1..k : FirstEvents(k)[i] = i
  <2>1. FirstEvents(k) \in [1..k -> Int] /\ DOMAIN FirstEvents(k) = 1..k
    BY DEF FirstEvents
  <2>2. FirstEvents(k) \in Seq(Int)
    BY <2>1, SeqDef
  <2>3. Len(FirstEvents(k)) = k
    BY <2>1, <2>2, LenProperties
  <2> QED BY <2>2, <2>3 DEF FirstEvents
<1>2. PICK s \in Seq(Int), t \in Seq(Int) : s = FirstEvents(r) /\ t = FirstEvents(r + 1)
  BY <1>1
<1>3. PICK u : u = Append(s, r + 1)
  OBVIOUS
<1>4. Len(s) = r /\ Len(t) = r + 1 /\ (\A i \in 1..r : s[i] = i) /\ \A i \in 1..r + 1 : t[i] = i
  BY <1>1, <1>2
<1>5. u \in Seq(Int) /\ Len(u) = r + 1 /\ u[r + 1] = r + 1 /\ \A i \in 1..r : u[i] = s[i]
  BY <1>3, <1>4, OneMore
<1>6. \A i \in 1..r + 1 : i \in 1..r \/ i = r + 1
  OBVIOUS
<1>7. \A i \in 1..r + 1 : u[i] = t[i]
  BY <1>4, <1>5, <1>6
<1>8. u = t
  BY <1>4, <1>5, <1>7, SeqEqual
<1> QED BY <1>1, <1>2, <1>3, <1>8

\* A text that a reader may have come to: what is handed on of it, now or when the
\* body ends here, is the events whose data it holds, and it tells of the end only
\* if the server has ended and all of its events are in it.
Fine(t, e, open) ==
  /\ \E r \in 0..e : /\ Readable(Parsed(t).messages) = FirstEvents(r)
                     /\ TellsEnd(Parsed(t).messages) => ~open /\ r = e
  /\ Whole(t) \in 0..e
  /\ Readable(Parsed(EndedText(t)).messages) = FirstEvents(Whole(t))
  /\ TellsEnd(Parsed(EndedText(t)).messages) => ~open /\ Whole(t) = e

\* How a block that is open is told of when the body ends.
Told(f, w, m, r, e, open) ==
  \/ f.data = << >> /\ w = r
  \/ f = MessageOf(r + 1, Data(r + 1)) /\ w = r + 1 /\ r + 1 <= e /\ ~TellsEnd(m)
  \/ f = MessageOf(r + 1, << <<"data", r + 1>> >>) /\ w = r /\ ~TellsEnd(m)
  \/ f.event = 0 /\ w = r /\ ~open /\ r = e

LEMMA LeavesFine ==
  ASSUME NEW t \in Seq(Piece), NEW m \in Seq(SseMessage), NEW c, NEW l, Leaves(t, m, c, l),
         NEW f \in SseMessage, f = LastBlock(c, l), NEW e \in Nat, NEW r \in 0..e, NEW open \in BOOLEAN,
         Readable(m) = FirstEvents(r), TellsEnd(m) => ~open /\ r = e, Told(f, Whole(t), m, r, e, open)
  PROVE  Fine(t, e, open)
<1>1. Parsed(t).messages = m
  BY ParserParts DEF Leaves
<1>2. PICK q : q = Parsed(EndedText(t)).messages /\ q = IF f.data = << >> THEN m ELSE Append(m, f)
  <2>1. Parsed(EndedText(t)).messages = IF f.data = << >> THEN m ELSE Append(m, f)
    BY EndLeaves
  <2> QED BY <2>1
<1>3. Readable(Append(m, f)) = HandOn(FirstEvents(r), f) /\ (TellsEnd(Append(m, f)) <=> TellsEnd(m) \/ f.event = 0)
  BY ReadableOneMore, EndOneMore
<1>4. r \in Nat /\ r + 1 \in Int /\ r <= e
  OBVIOUS
<1>5. Whole(t) \in 0..e /\ Readable(q) = FirstEvents(Whole(t)) /\ (TellsEnd(q) => ~open /\ Whole(t) = e)
  <2>1. CASE f.data = << >> /\ Whole(t) = r
    BY <1>2, <2>1
  <2>2. CASE f = MessageOf(r + 1, Data(r + 1)) /\ Whole(t) = r + 1 /\ r + 1 <= e /\ ~TellsEnd(m)
    <3>1. f.event = r + 1 /\ f.data = Data(r + 1) /\ f.data # << >>
      <4>1. PICK n \in Int : n = r + 1 /\ f = MessageOf(n, Data(n))
        BY <1>4, <2>2
      <4>2. Data(n) \in Seq(Piece) /\ Data(n) # << >>
        BY LinesOfFrames
      <4> QED BY <4>1, <4>2 DEF MessageOf
    <3>2. r + 1 > 0 /\ r + 1 # 0 /\ r + 1 \in 0..e
      BY <1>4, <2>2
    <3>3. HandOn(FirstEvents(r), f) = Append(FirstEvents(r), r + 1)
      BY <3>1, <3>2 DEF HandOn
    <3> QED BY <1>2, <1>3, <1>4, <2>2, <3>1, <3>2, <3>3, OneEventFurther
  <2>3. CASE f = MessageOf(r + 1, << <<"data", r + 1>> >>) /\ Whole(t) = r /\ ~TellsEnd(m)
    <3>1. f.event = r + 1 /\ f.data = << <<"data", r + 1>> >> /\ f.data # << >> /\ f.data # Data(r + 1)
      <4>1. PICK n, d : n \in Int /\ n = r + 1 /\ d = << <<"data", n>> >> /\ f = MessageOf(n, d)
        BY <1>4, <2>3
      <4>2. d # << >> /\ d # Data(n)
        BY <4>1, LinesOfFrames
      <4> QED BY <4>1, <4>2 DEF MessageOf
    <3>2. HandOn(FirstEvents(r), f) = FirstEvents(r) /\ r + 1 # 0
      BY <1>4, <3>1 DEF HandOn
    <3> QED BY <1>2, <1>3, <2>3, <3>1, <3>2
  <2>4. CASE f.event = 0 /\ Whole(t) = r /\ ~open /\ r = e
    <3>1. HandOn(FirstEvents(r), f) = FirstEvents(r)
      BY <2>4 DEF HandOn
    <3> QED BY <1>2, <1>3, <2>4, <3>1
  <2> QED BY <2>1, <2>2, <2>3, <2>4 DEF Told
<1> QED BY <1>1, <1>2, <1>5 DEF Fine

\* Wherever the text is cut, a reader may have come to there.
FineAll(t, e, open) == \A i \in 0..Len(t) : Fine(SubSeq(t, 1, i), e, open)

LEMMA FineOneMore ==
  ASSUME NEW t \in Seq(Piece), NEW x \in Piece, NEW e, NEW open, FineAll(t, e, open), Fine(Append(t, x), e, open)
  PROVE  Append(t, x) \in Seq(Piece) /\ FineAll(Append(t, x), e, open)
<1>1. PICK n \in Nat : n = Len(t)
  BY LenProperties
<1>2. PICK u : u = Append(t, x)
  OBVIOUS
<1>3. u \in Seq(Piece) /\ Len(u) = n + 1 /\ \A i \in 1..n : u[i] = t[i]
  BY <1>1, <1>2, OneMore
<1>4. ASSUME NEW i \in 0..n PROVE SubSeq(u, 1, i) = SubSeq(t, 1, i)
  BY <1>1, <1>3, <1>4, SameBeginning
<1>5. SubSeq(u, 1, n + 1) = u
  BY <1>3, SubSeqFull
<1>6. \A i \in 0..n + 1 : i \in 0..n \/ i = n + 1
  OBVIOUS
<1> QED BY <1>1, <1>2, <1>3, <1>4, <1>5, <1>6 DEF FineAll

\* A text that is being written, piece by piece.
InFrame(t, m, c, l, e, open, w) ==
  t \in Seq(Piece) /\ FineAll(t, e, open) /\ Leaves(t, m, c, l) /\ Whole(t) = w

LEMMA FramePiece ==
  ASSUME NEW t, NEW m, NEW c, NEW l, NEW e \in Nat, NEW open \in BOOLEAN, NEW w,
         InFrame(t, m, c, l, e, open, w), NEW x \in Piece,
         NEW m2 \in Seq(SseMessage), NEW c2, NEW l2,
         \/ x # NewLine /\ m2 = m /\ c2 = c /\ l2 = Append(l, x)
         \/ x = NewLine /\ l # << >> /\ m2 = m /\ c2 = LineEnded(c, l) /\ l2 = << >>
         \/ x = NewLine /\ l = << >> /\ m2 = (IF c.data = << >> THEN m ELSE Append(m, c)) /\ c2 = NoBlock /\ l2 = << >>,
         NEW f \in SseMessage, f = LastBlock(c2, l2), NEW r \in 0..e,
         Readable(m2) = FirstEvents(r), TellsEnd(m2) => ~open /\ r = e,
         NEW w2, w2 = (IF x[1] = "rest" /\ x[2] > 0 THEN w + 1 ELSE w), Told(f, w2, m2, r, e, open)
  PROVE  InFrame(Append(t, x), m2, c2, l2, e, open, w2)
<1>1. t \in Seq(Piece) /\ FineAll(t, e, open) /\ Leaves(t, m, c, l) /\ Whole(t) = w
  BY DEF InFrame
<1>2. PICK u : u = Append(t, x)
  OBVIOUS
<1>3. u \in Seq(Piece) /\ Leaves(u, m2, c2, l2)
  <2>1. Append(t, x) \in Seq(Piece)
    BY <1>1, OneMore
  <2>2. CASE x # NewLine /\ m2 = m /\ c2 = c /\ l2 = Append(l, x)
    BY <1>1, <1>2, <2>1, <2>2, PieceLeaves
  <2>3. CASE x = NewLine /\ l # << >> /\ m2 = m /\ c2 = LineEnded(c, l) /\ l2 = << >>
    BY <1>1, <1>2, <2>1, <2>3, PieceLeaves
  <2>4. CASE x = NewLine /\ l = << >> /\ m2 = (IF c.data = << >> THEN m ELSE Append(m, c)) /\ c2 = NoBlock /\ l2 = << >>
    BY <1>1, <1>2, <2>1, <2>4, PieceLeaves
  <2> QED BY <2>2, <2>3, <2>4
<1>4. Whole(u) = w2
  BY <1>1, <1>2, WholeOneMore
<1>5. Fine(u, e, open)
  BY <1>3, <1>4, LeavesFine
<1>6. FineAll(u, e, open)
  BY <1>1, <1>2, <1>5, FineOneMore
<1> QED BY <1>2, <1>3, <1>4, <1>6 DEF InFrame

LEMMA LineEnds ==
  ASSUME NEW t, NEW m \in Seq(SseMessage), NEW c, NEW l, NEW e \in Nat, NEW open \in BOOLEAN, NEW w,
         InFrame(t, m, c, l, e, open, w), l # << >>, NEW r \in 0..e,
         Readable(m) = FirstEvents(r), TellsEnd(m) => ~open /\ r = e,
         LineEnded(c, l) \in SseMessage, Told(LineEnded(c, l), w, m, r, e, open)
  PROVE  InFrame(Append(t, NewLine), m, LineEnded(c, l), << >>, e, open, w)
<1>1. t \in Seq(Piece) /\ FineAll(t, e, open) /\ Leaves(t, m, c, l) /\ Whole(t) = w
  BY DEF InFrame
<1>2. NewLine \in Piece /\ NewLine[1] # "rest"
  BY DEF NewLine, Piece
<1>3. PICK f \in SseMessage : f = LineEnded(c, l)
  OBVIOUS
<1>a. PICK u : u = Append(t, NewLine)
  OBVIOUS
<1>4. u \in Seq(Piece) /\ Leaves(u, m, f, << >>)
  BY <1>1, <1>2, <1>3, <1>a, PieceLeaves, OneMore
<1>5. Whole(u) = w
  BY <1>1, <1>2, <1>a, WholeOneMore
<1>6. Fine(u, e, open)
  <2>1. f = LastBlock(f, << >>)
    BY DEF LastBlock
  <2> QED BY <1>3, <1>4, <1>5, <2>1, LeavesFine
<1>7. FineAll(u, e, open)
  BY <1>1, <1>2, <1>a, <1>6, FineOneMore
<1> QED BY <1>3, <1>a, <1>4, <1>5, <1>7 DEF InFrame

\* A piece of a line that goes on.
LEMMA PieceComes ==
  ASSUME NEW t, NEW m \in Seq(SseMessage), NEW c, NEW l, NEW e \in Nat, NEW open \in BOOLEAN, NEW w,
         InFrame(t, m, c, l, e, open, w), NEW x \in Piece, x # NewLine, NEW l2, l2 = Append(l, x),
         NEW f \in SseMessage, f = LastBlock(c, l2), NEW r \in 0..e,
         Readable(m) = FirstEvents(r), TellsEnd(m) => ~open /\ r = e,
         NEW w2, w2 = (IF x[1] = "rest" /\ x[2] > 0 THEN w + 1 ELSE w), Told(f, w2, m, r, e, open),
         NEW u, u = Append(t, x)
  PROVE  InFrame(u, m, c, l2, e, open, w2)
BY FramePiece

\* A line that ends in the middle of a block.
LEMMA LineCloses ==
  ASSUME NEW t, NEW m \in Seq(SseMessage), NEW c, NEW l, NEW e \in Nat, NEW open \in BOOLEAN, NEW w,
         InFrame(t, m, c, l, e, open, w), l # << >>, NEW r \in 0..e,
         Readable(m) = FirstEvents(r), TellsEnd(m) => ~open /\ r = e,
         NEW f \in SseMessage, f = LineEnded(c, l), Told(f, w, m, r, e, open),
         NEW u, u = Append(t, NewLine)
  PROVE  InFrame(u, m, f, << >>, e, open, w)
BY LineEnds

\* A text is longer by a frame.
LEMMA FrameIsAppended ==
  ASSUME NEW t \in Seq(Piece), NEW n \in Int
  PROVE  /\ t \o EventFrame(n) = EndedText(Append(Append(Append(Append(Append(Append(t, <<"id", n>>), NewLine), <<"event", n>>), NewLine), <<"data", n>>), <<"rest", n>>))
         /\ t \o EndFrame = EndedText(Append(Append(Append(Append(t, <<"event", 0>>), NewLine), <<"data", 0>>), <<"rest", 0>>))
         /\ t \o KeepAlive = EndedText(Append(t, <<"comment", 0>>))
<1>1. PICK nl \in Piece, ip \in Piece, ep \in Piece, dp \in Piece, rp \in Piece :
        nl = NewLine /\ ip = <<"id", n>> /\ ep = <<"event", n>> /\ dp = <<"data", n>> /\ rp = <<"rest", n>>
  BY PiecesOfFrames
<1>2. PICK e0 \in Piece, d0 \in Piece, r0 \in Piece, c0 \in Piece :
        e0 = <<"event", 0>> /\ d0 = <<"data", 0>> /\ r0 = <<"rest", 0>> /\ c0 = <<"comment", 0>>
  <2>1. <<"event", 0>> \in Piece /\ <<"data", 0>> \in Piece /\ <<"rest", 0>> \in Piece /\ <<"comment", 0>> \in Piece
    BY DEF Piece
  <2> QED BY <2>1
<1>3. ASSUME NEW s \in Seq(Piece), NEW a \in Piece, NEW b \in Piece
      PROVE  <<a, b>> \in Seq(Piece) /\ s \o <<a, b>> = Append(Append(s, a), b) /\ Append(Append(s, a), b) \in Seq(Piece)
  BY OneMore, PairMore
<1>4. ASSUME NEW s \in Seq(Piece)
      PROVE  t \o (s \o <<nl, nl>>) = EndedText(t \o s) /\ t \o s \in Seq(Piece)
  <2>1. t \o s \in Seq(Piece) /\ <<nl, nl>> \in Seq(Piece)
    BY <1>3, ConcatProperties
  <2>2. t \o (s \o <<nl, nl>>) = (t \o s) \o <<nl, nl>>
    BY <2>1, ConcatAssociative
  <2>3. PICK u \in Seq(Piece) : u = t \o s
    BY <2>1
  <2>4. u \o <<nl, nl>> = Append(Append(u, nl), nl)
    BY <1>3, ZenonT(60)
  <2> QED BY <1>1, <2>2, <2>3, <2>4 DEF EndedText
<1>5. ASSUME NEW s \in Seq(Piece), NEW a \in Piece, NEW b \in Piece
      PROVE  s \o <<a, b>> \in Seq(Piece) /\ t \o (s \o <<a, b>>) = Append(Append(t \o s, a), b)
  <2>1. t \o s \in Seq(Piece) /\ s \o <<a, b>> \in Seq(Piece) /\ <<a, b>> \in Seq(Piece)
    BY <1>3, ConcatProperties
  <2>2. t \o (s \o <<a, b>>) = (t \o s) \o <<a, b>>
    BY <2>1, ConcatAssociative
  <2>3. PICK u \in Seq(Piece) : u = t \o s
    BY <2>1
  <2>4. u \o <<a, b>> = Append(Append(u, a), b)
    BY <1>3
  <2> QED BY <2>1, <2>2, <2>3, <2>4
<1>6. t \o EventFrame(n) = EndedText(Append(Append(Append(Append(Append(Append(t, ip), nl), ep), nl), dp), rp))
  <2>1. PICK s1, s2, s3 : s1 = <<ip, nl>> /\ s2 = s1 \o <<ep, nl>> /\ s3 = s2 \o <<dp, rp>>
    OBVIOUS
  <2>2. EventFrame(n) = s3 \o <<nl, nl>>
    BY <1>1, <2>1 DEF EventFrame, Data
  <2>3. s1 \in Seq(Piece) /\ t \o s1 = Append(Append(t, ip), nl)
    BY <1>3, <2>1
  <2>4. s2 \in Seq(Piece) /\ t \o s2 = Append(Append(t \o s1, ep), nl)
    BY <1>5, <2>1, <2>3
  <2>5. s3 \in Seq(Piece) /\ t \o s3 = Append(Append(t \o s2, dp), rp)
    BY <1>5, <2>1, <2>4
  <2>6. t \o (s3 \o <<nl, nl>>) = EndedText(t \o s3)
    BY <1>4, <2>5
  <2> QED BY <2>2, <2>3, <2>4, <2>5, <2>6
<1>7. t \o EndFrame = EndedText(Append(Append(Append(Append(t, e0), nl), d0), r0))
  <2>1. PICK s1, s2 : s1 = <<e0, nl>> /\ s2 = s1 \o <<d0, r0>>
    OBVIOUS
  <2>2. EndFrame = s2 \o <<nl, nl>>
    BY <1>1, <1>2, <2>1 DEF EndFrame, Data
  <2>3. s1 \in Seq(Piece) /\ t \o s1 = Append(Append(t, e0), nl)
    BY <1>3, <2>1
  <2>4. s2 \in Seq(Piece) /\ t \o s2 = Append(Append(t \o s1, d0), r0)
    BY <1>5, <2>1, <2>3
  <2>5. t \o (s2 \o <<nl, nl>>) = EndedText(t \o s2)
    BY <1>4, <2>4
  <2> QED BY <2>2, <2>3, <2>4, <2>5
<1>8. t \o KeepAlive = EndedText(Append(t, c0))
  <2>1. t \o <<c0, nl, nl>> = Append(Append(Append(t, c0), nl), nl)
    BY TripleMore
  <2>2. KeepAlive = <<c0, nl, nl>>
    BY <1>1, <1>2 DEF KeepAlive
  <2> QED BY <1>1, <2>1, <2>2 DEF EndedText
<1> QED BY <1>1, <1>2, <1>6, <1>7, <1>8

LEMMA OtherFramesAreAppended ==
  ASSUME NEW t \in Seq(Piece)
  PROVE  /\ t \o EndFrame = EndedText(Append(Append(Append(Append(t, <<"event", 0>>), NewLine), <<"data", 0>>), <<"rest", 0>>))
         /\ t \o KeepAlive = EndedText(Append(t, <<"comment", 0>>))
<1>1. PICK n \in Int : n = 0
  OBVIOUS
<1> QED BY <1>1, FrameIsAppended

\* The pieces and the lines of a frame, one by one.
FrameParts(n, ip, ep, dp, rp, cp) ==
  /\ ip = <<"id", n>> /\ ep = <<"event", n>> /\ dp = <<"data", n>> /\ rp = <<"rest", n>> /\ cp = <<"comment", n>>
  /\ ip # NewLine /\ ep # NewLine /\ dp # NewLine /\ rp # NewLine /\ cp # NewLine
  /\ ip[1] # "rest" /\ ep[1] # "rest" /\ dp[1] # "rest" /\ cp[1] # "rest" /\ rp[1] = "rest" /\ rp[2] = n
  /\ Append(<< >>, ip) = <<ip>> /\ Append(<< >>, ep) = <<ep>> /\ Append(<< >>, dp) = <<dp>> /\ Append(<< >>, cp) = <<cp>>
  /\ <<ip>> # << >> /\ <<ep>> # << >> /\ <<dp>> # << >> /\ <<cp>> # << >>
  /\ LineEnded(NoBlock, <<ip>>) = NoBlock /\ LineEnded(NoBlock, <<cp>>) = NoBlock
  /\ LineEnded(NoBlock, <<ep>>) = MessageOf(n, << >>)
  /\ LineEnded(MessageOf(n, << >>), <<dp>>) = MessageOf(n, <<dp>>)
  /\ Append(<<dp>>, rp) = Data(n) /\ Data(n) # << >>
  /\ LineEnded(MessageOf(n, << >>), Data(n)) = MessageOf(n, Data(n))
  /\ MessageOf(n, << >>) \in SseMessage /\ MessageOf(n, <<dp>>) \in SseMessage /\ MessageOf(n, Data(n)) \in SseMessage

LEMMA FramesHaveParts ==
  ASSUME NEW n \in Int
  PROVE  \E ip \in Piece, ep \in Piece, dp \in Piece, rp \in Piece, cp \in Piece : FrameParts(n, ip, ep, dp, rp, cp)
<1>1. PICK ip \in Piece, ep \in Piece, dp \in Piece, rp \in Piece, cp \in Piece :
        ip = <<"id", n>> /\ ep = <<"event", n>> /\ dp = <<"data", n>> /\ rp = <<"rest", n>> /\ cp = <<"comment", n>>
  BY PiecesOfFrames
<1>2. ip # NewLine /\ ep # NewLine /\ dp # NewLine /\ rp # NewLine /\ cp # NewLine
  BY <1>1, PiecesOfFrames
<1>3. ip[1] # "rest" /\ ep[1] # "rest" /\ dp[1] # "rest" /\ cp[1] # "rest" /\ rp[1] = "rest" /\ rp[2] = n
  BY <1>1
<1>4. Append(<< >>, ip) = <<ip>> /\ Append(<< >>, ep) = <<ep>> /\ Append(<< >>, dp) = <<dp>> /\ Append(<< >>, cp) = <<cp>>
  BY TwoPieces
<1>5. <<ip>> # << >> /\ <<ep>> # << >> /\ <<dp>> # << >> /\ <<cp>> # << >>
  OBVIOUS
<1>6. LineEnded(NoBlock, <<ip>>) = NoBlock /\ LineEnded(NoBlock, <<cp>>) = NoBlock /\ LineEnded(NoBlock, <<ep>>) = MessageOf(n, << >>)
  BY <1>1, LinesOfFrames
<1>7. /\ LineEnded(MessageOf(n, << >>), <<dp>>) = MessageOf(n, <<dp>>)
      /\ Append(<<dp>>, rp) = Data(n) /\ Data(n) # << >> /\ Data(n) \in Seq(Piece)
      /\ LineEnded(MessageOf(n, << >>), Data(n)) = MessageOf(n, Data(n))
  BY <1>1, LinesOfFrames
<1>8. MessageOf(n, << >>) \in SseMessage /\ MessageOf(n, <<dp>>) \in SseMessage /\ MessageOf(n, Data(n)) \in SseMessage
  <2>1. << >> \in Seq(Piece) /\ <<dp>> \in Seq(Piece)
    OBVIOUS
  <2> QED BY <1>7, <2>1, LinesOfFrames
<1>9. FrameParts(n, ip, ep, dp, rp, cp)
  BY <1>1, <1>2, <1>3, <1>4, <1>5, <1>6, <1>7, <1>8, Zenon DEF FrameParts
<1> QED BY <1>9

LEMMA NoBlockIsEmpty == NoBlock \in SseMessage /\ NoBlock.data = << >> /\ NewLine \in Piece /\ NewLine[1] # "rest"
BY DEF NoBlock, SseMessage, Unnamed, NewLine, Piece

\* Between two frames of an open stream.
Between(t, e) ==
  \E m \in Seq(SseMessage) : /\ Leaves(t, m, NoBlock, << >>) /\ Readable(m) = FirstEvents(e)
                             /\ ~TellsEnd(m) /\ Whole(t) = e

LEMMA FineStays ==
  ASSUME NEW t, NEW e \in Nat, FineAll(t, e, TRUE)
  PROVE  FineAll(t, e + 1, TRUE) /\ FineAll(t, e, FALSE)
<1>1. ASSUME NEW s, Fine(s, e, TRUE) PROVE Fine(s, e + 1, TRUE) /\ Fine(s, e, FALSE)
  <2>1. \A r \in 0..e : r \in 0..e + 1
    OBVIOUS
  <2> QED BY <1>1, <2>1 DEF Fine
<1> QED BY <1>1 DEF FineAll

\* A comment leaves the reader where it is.
LEMMA KeepAliveIsFine ==
  ASSUME NEW t \in Seq(Piece), NEW e \in Nat, FineAll(t, e, TRUE), Between(t, e)
  PROVE  t \o KeepAlive \in Seq(Piece) /\ FineAll(t \o KeepAlive, e, TRUE) /\ Between(t \o KeepAlive, e)
<1>1. PICK m \in Seq(SseMessage) : /\ Leaves(t, m, NoBlock, << >>) /\ Readable(m) = FirstEvents(e)
                                   /\ ~TellsEnd(m) /\ Whole(t) = e
  BY DEF Between
<1>2. PICK x \in Piece : /\ x = <<"comment", 0>> /\ x # NewLine /\ x[1] # "rest" /\ Append(<< >>, x) = <<x>>
                         /\ <<x>> # << >> /\ LineEnded(NoBlock, <<x>>) = NoBlock
  <2>1. PICK n \in Int : n = 0
    OBVIOUS
  <2>2. PICK ip \in Piece, ep \in Piece, dp \in Piece, rp \in Piece, cp \in Piece : FrameParts(n, ip, ep, dp, rp, cp)
    BY FramesHaveParts
  <2> QED BY <2>1, <2>2 DEF FrameParts
<1>3. PICK nl, l : nl \in Piece /\ nl = NewLine /\ nl[1] # "rest" /\ l = Append(<< >>, x) /\ l # << >> /\ LineEnded(NoBlock, l) = NoBlock
  BY <1>2, NoBlockIsEmpty
<1>4. NoBlock \in SseMessage /\ NoBlock.data = << >> /\ e \in 0..e
  BY NoBlockIsEmpty
<1>5. Told(NoBlock, e, m, e, e, TRUE)
  BY <1>4 DEF Told
<1>6. LastBlock(NoBlock, l) = NoBlock /\ LastBlock(NoBlock, << >>) = NoBlock
  BY <1>3 DEF LastBlock
<1>7. InFrame(t, m, NoBlock, << >>, e, TRUE, e)
  BY <1>1 DEF InFrame
<1>8. PICK t1, t2, t3 : t1 = Append(t, x) /\ t2 = Append(t1, nl) /\ t3 = Append(t2, nl)
  OBVIOUS
<1>9. InFrame(t1, m, NoBlock, l, e, TRUE, e)
  BY <1>1, <1>2, <1>3, <1>4, <1>5, <1>6, <1>7, <1>8, FramePiece
<1>10. InFrame(t2, m, NoBlock, << >>, e, TRUE, e)
  BY <1>1, <1>2, <1>3, <1>4, <1>5, <1>6, <1>8, <1>9, FramePiece
<1>11. InFrame(t3, m, NoBlock, << >>, e, TRUE, e)
  BY <1>1, <1>2, <1>3, <1>4, <1>5, <1>6, <1>8, <1>10, FramePiece
<1>12. t3 = t \o KeepAlive
  BY <1>2, <1>3, <1>8, OtherFramesAreAppended DEF EndedText
<1> QED BY <1>1, <1>11, <1>12 DEF InFrame, Between

\* The frame of the next event: a reader that is cut short in it has the event when
\* all of its data is there.
LEMMA EventFrameIsFine ==
  ASSUME NEW t \in Seq(Piece), NEW e \in Nat, NEW n \in Nat, n = e + 1, FineAll(t, e, TRUE), Between(t, e)
  PROVE  t \o EventFrame(n) \in Seq(Piece) /\ FineAll(t \o EventFrame(n), n, TRUE) /\ Between(t \o EventFrame(n), n)
<1>1. PICK m \in Seq(SseMessage) : /\ Leaves(t, m, NoBlock, << >>) /\ Readable(m) = FirstEvents(e)
                                   /\ ~TellsEnd(m) /\ Whole(t) = e
  BY DEF Between
<1>2. PICK ip \in Piece, ep \in Piece, dp \in Piece, rp \in Piece, cp \in Piece : FrameParts(n, ip, ep, dp, rp, cp)
  <2>1. n \in Int
    OBVIOUS
  <2> QED BY <2>1, FramesHaveParts
<1>3. PICK nl \in Piece : nl = NewLine /\ nl[1] # "rest" /\ NoBlock \in SseMessage /\ NoBlock.data = << >>
  BY NoBlockIsEmpty
<1>4. PICK none \in SseMessage, some \in SseMessage, all \in SseMessage :
        none = MessageOf(n, << >>) /\ some = MessageOf(n, <<dp>>) /\ all = MessageOf(n, Data(n))
  BY <1>2 DEF FrameParts
<1>5. PICK li, le, ld, lr : li = <<ip>> /\ le = <<ep>> /\ ld = <<dp>> /\ lr = Data(n)
  OBVIOUS
<1>6. /\ li # << >> /\ le # << >> /\ ld # << >> /\ lr # << >>
      /\ ip # NewLine /\ ep # NewLine /\ dp # NewLine /\ rp # NewLine
      /\ ip[1] # "rest" /\ ep[1] # "rest" /\ dp[1] # "rest" /\ rp[1] = "rest" /\ rp[2] = n
      /\ li = Append(<< >>, ip) /\ le = Append(<< >>, ep) /\ ld = Append(<< >>, dp) /\ lr = Append(ld, rp)
  BY <1>2, <1>5 DEF FrameParts
<1>7. /\ LastBlock(NoBlock, << >>) = NoBlock /\ LineEnded(NoBlock, li) = NoBlock /\ LastBlock(NoBlock, li) = NoBlock
      /\ LineEnded(NoBlock, le) = none /\ LastBlock(NoBlock, le) = none /\ LastBlock(none, << >>) = none
      /\ LastBlock(none, ld) = some /\ LineEnded(none, lr) = all /\ LastBlock(none, lr) = all /\ LastBlock(all, << >>) = all
  BY <1>2, <1>4, <1>5, <1>6 DEF FrameParts, LastBlock
<1>8. none.data = << >> /\ all.data # << >> /\ all.data = Data(n) /\ all.event = n
  BY <1>4, <1>5, <1>6 DEF MessageOf
<1>9. e \in 0..n /\ n \in 0..n /\ n > 0 /\ n # 0 /\ n \in Nat
  OBVIOUS
<1>10. /\ Told(NoBlock, e, m, e, n, TRUE) /\ Told(none, e, m, e, n, TRUE)
       /\ Told(some, e, m, e, n, TRUE) /\ Told(all, n, m, e, n, TRUE)
  <2>1. Told(NoBlock, e, m, e, n, TRUE) /\ Told(none, e, m, e, n, TRUE)
    BY <1>3, <1>8 DEF Told
  <2>2. Told(some, e, m, e, n, TRUE)
    BY <1>1, <1>2, <1>4 DEF Told, FrameParts
  <2>3. Told(all, n, m, e, n, TRUE)
    BY <1>1, <1>4, <1>9 DEF Told
  <2> QED BY <2>1, <2>2, <2>3
<1>11. PICK more \in Seq(SseMessage) : more = Append(m, all) /\ Readable(more) = FirstEvents(n) /\ ~TellsEnd(more)
  <2>1. Append(m, all) \in Seq(SseMessage)
    BY OneMore
  <2>2. Readable(Append(m, all)) = HandOn(FirstEvents(e), all)
    BY <1>1, ReadableOneMore
  <2>3. HandOn(FirstEvents(e), all) = Append(FirstEvents(e), n)
    BY <1>8, <1>9 DEF HandOn
  <2>4. Append(FirstEvents(e), n) = FirstEvents(n)
    BY OneEventFurther
  <2>5. ~TellsEnd(Append(m, all))
    BY <1>1, <1>8, <1>9, EndOneMore
  <2> QED BY <2>1, <2>2, <2>3, <2>4, <2>5
<1>12. Told(NoBlock, n, more, n, n, TRUE)
  BY <1>3 DEF Told
<1>13. InFrame(t, m, NoBlock, << >>, n, TRUE, e)
  BY <1>1, FineStays DEF InFrame
<1>14. PICK t1, t2, t3, t4 : t1 = Append(t, ip) /\ t2 = Append(t1, nl) /\ t3 = Append(t2, ep) /\ t4 = Append(t3, nl)
  OBVIOUS
<1>15. PICK t5, t6, t7, t8 : t5 = Append(t4, dp) /\ t6 = Append(t5, rp) /\ t7 = Append(t6, nl) /\ t8 = Append(t7, nl)
  OBVIOUS
<1>16. InFrame(t1, m, NoBlock, li, n, TRUE, e)
  <2>1. t1 = Append(t, ip) /\ ip # NewLine /\ li = Append(<< >>, ip)
    BY <1>6, <1>14
  <2>2. NoBlock = LastBlock(NoBlock, li) /\ Told(NoBlock, e, m, e, n, TRUE)
    BY <1>7, <1>10
  <2>3. e = (IF ip[1] = "rest" /\ ip[2] > 0 THEN e + 1 ELSE e)
    BY <1>6
  <2> QED BY <1>1, <1>3, <1>9, <1>13, <2>1, <2>2, <2>3, PieceComes
<1>17. InFrame(t2, m, NoBlock, << >>, n, TRUE, e)
  <2>1. t2 = Append(t1, NewLine) /\ li # << >>
    BY <1>3, <1>6, <1>14
  <2>2. NoBlock = LineEnded(NoBlock, li) /\ Told(NoBlock, e, m, e, n, TRUE)
    BY <1>7, <1>10
  <2> QED BY <1>1, <1>3, <1>9, <1>16, <2>1, <2>2, LineCloses
<1>18. InFrame(t3, m, NoBlock, le, n, TRUE, e)
  <2>1. t3 = Append(t2, ep) /\ ep # NewLine /\ le = Append(<< >>, ep)
    BY <1>6, <1>14
  <2>2. none = LastBlock(NoBlock, le) /\ Told(none, e, m, e, n, TRUE)
    BY <1>7, <1>10
  <2>3. e = (IF ep[1] = "rest" /\ ep[2] > 0 THEN e + 1 ELSE e)
    BY <1>6
  <2> QED BY <1>1, <1>3, <1>9, <1>17, <2>1, <2>2, <2>3, PieceComes
<1>19. InFrame(t4, m, none, << >>, n, TRUE, e)
  <2>1. t4 = Append(t3, NewLine) /\ le # << >>
    BY <1>3, <1>6, <1>14
  <2>2. none = LineEnded(NoBlock, le) /\ Told(none, e, m, e, n, TRUE)
    BY <1>7, <1>10
  <2> QED BY <1>1, <1>3, <1>9, <1>18, <2>1, <2>2, LineCloses
<1>20. InFrame(t5, m, none, ld, n, TRUE, e)
  <2>1. t5 = Append(t4, dp) /\ dp # NewLine /\ ld = Append(<< >>, dp)
    BY <1>6, <1>15
  <2>2. some = LastBlock(none, ld) /\ Told(some, e, m, e, n, TRUE)
    BY <1>7, <1>10
  <2>3. e = (IF dp[1] = "rest" /\ dp[2] > 0 THEN e + 1 ELSE e)
    BY <1>6
  <2> QED BY <1>1, <1>3, <1>9, <1>19, <2>1, <2>2, <2>3, PieceComes
<1>21. InFrame(t6, m, none, lr, n, TRUE, n)
  <2>1. t6 = Append(t5, rp) /\ rp # NewLine /\ lr = Append(ld, rp)
    BY <1>6, <1>15
  <2>2. all = LastBlock(none, lr) /\ Told(all, n, m, e, n, TRUE)
    BY <1>7, <1>10
  <2>3. n = (IF rp[1] = "rest" /\ rp[2] > 0 THEN e + 1 ELSE e)
    BY <1>6, <1>9
  <2> QED BY <1>1, <1>3, <1>9, <1>20, <2>1, <2>2, <2>3, PieceComes
<1>22. InFrame(t7, m, all, << >>, n, TRUE, n)
  <2>1. t7 = Append(t6, NewLine) /\ lr # << >>
    BY <1>3, <1>6, <1>15
  <2>2. all = LineEnded(none, lr) /\ Told(all, n, m, e, n, TRUE)
    BY <1>7, <1>10
  <2> QED BY <1>1, <1>3, <1>9, <1>21, <2>1, <2>2, LineCloses
<1>23. InFrame(t8, more, NoBlock, << >>, n, TRUE, n)
  <2>1. t8 = Append(t7, nl) /\ nl = NewLine /\ ~(nl[1] = "rest" /\ nl[2] > 0)
    BY <1>3, <1>15
  <2>2. more = (IF all.data = << >> THEN m ELSE Append(m, all)) /\ NoBlock \in SseMessage /\ NoBlock = LastBlock(NoBlock, << >>)
    BY <1>3, <1>7, <1>8, <1>11
  <2> QED BY <1>9, <1>11, <1>12, <1>22, <2>1, <2>2, FramePiece
<1>24. t8 = t \o EventFrame(n)
  <2>1. ip = <<"id", n>> /\ ep = <<"event", n>> /\ dp = <<"data", n>> /\ rp = <<"rest", n>>
    BY <1>2 DEF FrameParts
  <2>2. t \o EventFrame(n) = EndedText(t6)
    <3>1. t \o EventFrame(n) = EndedText(Append(Append(Append(Append(Append(Append(t, ip), nl), ep), nl), dp), rp))
      <4>1. n \in Int
        OBVIOUS
      <4> QED BY <1>3, <2>1, <4>1, FrameIsAppended, Zenon
    <3> QED BY <1>14, <1>15, <3>1, Zenon
  <2> QED BY <1>3, <1>15, <2>2 DEF EndedText
<1> QED BY <1>11, <1>23, <1>24 DEF InFrame, Between

\* The last frame: whoever has read its data knows that it has all the events.
LEMMA EndFrameIsFine ==
  ASSUME NEW t \in Seq(Piece), NEW e \in Nat, FineAll(t, e, TRUE), Between(t, e)
  PROVE  t \o EndFrame \in Seq(Piece) /\ FineAll(t \o EndFrame, e, FALSE)
<1>1. PICK m \in Seq(SseMessage) : /\ Leaves(t, m, NoBlock, << >>) /\ Readable(m) = FirstEvents(e)
                                   /\ ~TellsEnd(m) /\ Whole(t) = e
  BY DEF Between
<1>2. PICK n \in Int : n = 0
  OBVIOUS
<1>a. PICK ip \in Piece, ep \in Piece, dp \in Piece, rp \in Piece, cp \in Piece : FrameParts(n, ip, ep, dp, rp, cp)
  BY FramesHaveParts
<1>3. PICK nl \in Piece : nl = NewLine /\ nl[1] # "rest" /\ NoBlock \in SseMessage /\ NoBlock.data = << >>
  BY NoBlockIsEmpty
<1>4. PICK none \in SseMessage, some \in SseMessage, all \in SseMessage :
        none = MessageOf(n, << >>) /\ some = MessageOf(n, <<dp>>) /\ all = MessageOf(n, Data(n))
  BY <1>a DEF FrameParts
<1>5. PICK le, ld, lr : le = <<ep>> /\ ld = <<dp>> /\ lr = Data(n)
  OBVIOUS
<1>6. /\ le # << >> /\ ld # << >> /\ lr # << >>
      /\ ep # NewLine /\ dp # NewLine /\ rp # NewLine
      /\ ep[1] # "rest" /\ dp[1] # "rest" /\ ~(rp[2] > 0)
      /\ le = Append(<< >>, ep) /\ ld = Append(<< >>, dp) /\ lr = Append(ld, rp)
  BY <1>2, <1>a, <1>5 DEF FrameParts
<1>7. /\ LastBlock(NoBlock, << >>) = NoBlock
      /\ LineEnded(NoBlock, le) = none /\ LastBlock(NoBlock, le) = none /\ LastBlock(none, << >>) = none
      /\ LastBlock(none, ld) = some /\ LineEnded(none, lr) = all /\ LastBlock(none, lr) = all /\ LastBlock(all, << >>) = all
  BY <1>a, <1>4, <1>5, <1>6 DEF FrameParts, LastBlock
<1>8. none.data = << >> /\ some.event = 0 /\ all.data # << >> /\ all.event = 0
  BY <1>2, <1>4, <1>5, <1>6 DEF MessageOf
<1>9. e \in 0..e
  OBVIOUS
<1>10. /\ Told(NoBlock, e, m, e, e, FALSE) /\ Told(none, e, m, e, e, FALSE)
       /\ Told(some, e, m, e, e, FALSE) /\ Told(all, e, m, e, e, FALSE)
  BY <1>3, <1>8 DEF Told
<1>11. PICK more \in Seq(SseMessage) : more = Append(m, all) /\ Readable(more) = FirstEvents(e)
  <2>1. Append(m, all) \in Seq(SseMessage)
    BY OneMore
  <2>2. Readable(Append(m, all)) = HandOn(FirstEvents(e), all)
    BY <1>1, ReadableOneMore
  <2>3. HandOn(FirstEvents(e), all) = FirstEvents(e)
    BY <1>8 DEF HandOn
  <2> QED BY <2>1, <2>2, <2>3
<1>12. Told(NoBlock, e, more, e, e, FALSE)
  BY <1>3 DEF Told
<1>13. InFrame(t, m, NoBlock, << >>, e, FALSE, e)
  BY <1>1, FineStays DEF InFrame
<1>14. PICK t3, t4 : t3 = Append(t, ep) /\ t4 = Append(t3, nl)
  OBVIOUS
<1>15. PICK t5, t6, t7, t8 : t5 = Append(t4, dp) /\ t6 = Append(t5, rp) /\ t7 = Append(t6, nl) /\ t8 = Append(t7, nl)
  OBVIOUS
<1>18. InFrame(t3, m, NoBlock, le, e, FALSE, e)
  <2>1. t3 = Append(t, ep) /\ ep # NewLine /\ le = Append(<< >>, ep)
    BY <1>6, <1>14
  <2>2. none = LastBlock(NoBlock, le) /\ Told(none, e, m, e, e, FALSE)
    BY <1>7, <1>10
  <2>3. e = (IF ep[1] = "rest" /\ ep[2] > 0 THEN e + 1 ELSE e)
    BY <1>6
  <2> QED BY <1>1, <1>3, <1>9, <1>13, <2>1, <2>2, <2>3, PieceComes
<1>19. InFrame(t4, m, none, << >>, e, FALSE, e)
  <2>1. t4 = Append(t3, NewLine) /\ le # << >>
    BY <1>3, <1>6, <1>14
  <2>2. none = LineEnded(NoBlock, le) /\ Told(none, e, m, e, e, FALSE)
    BY <1>7, <1>10
  <2> QED BY <1>1, <1>3, <1>9, <1>18, <2>1, <2>2, LineCloses
<1>20. InFrame(t5, m, none, ld, e, FALSE, e)
  <2>1. t5 = Append(t4, dp) /\ dp # NewLine /\ ld = Append(<< >>, dp)
    BY <1>6, <1>15
  <2>2. some = LastBlock(none, ld) /\ Told(some, e, m, e, e, FALSE)
    BY <1>7, <1>10
  <2>3. e = (IF dp[1] = "rest" /\ dp[2] > 0 THEN e + 1 ELSE e)
    BY <1>6
  <2> QED BY <1>1, <1>3, <1>9, <1>19, <2>1, <2>2, <2>3, PieceComes
<1>21. InFrame(t6, m, none, lr, e, FALSE, e)
  <2>1. t6 = Append(t5, rp) /\ rp # NewLine /\ lr = Append(ld, rp)
    BY <1>6, <1>15
  <2>2. all = LastBlock(none, lr) /\ Told(all, e, m, e, e, FALSE)
    BY <1>7, <1>10
  <2>3. e = (IF rp[1] = "rest" /\ rp[2] > 0 THEN e + 1 ELSE e)
    BY <1>6
  <2> QED BY <1>1, <1>3, <1>9, <1>20, <2>1, <2>2, <2>3, PieceComes
<1>22. InFrame(t7, m, all, << >>, e, FALSE, e)
  <2>1. t7 = Append(t6, NewLine) /\ lr # << >>
    BY <1>3, <1>6, <1>15
  <2>2. all = LineEnded(none, lr) /\ Told(all, e, m, e, e, FALSE)
    BY <1>7, <1>10
  <2> QED BY <1>1, <1>3, <1>9, <1>21, <2>1, <2>2, LineCloses
<1>23. InFrame(t8, more, NoBlock, << >>, e, FALSE, e)
  <2>1. t8 = Append(t7, nl) /\ nl = NewLine /\ ~(nl[1] = "rest" /\ nl[2] > 0)
    BY <1>3, <1>15
  <2>2. more = (IF all.data = << >> THEN m ELSE Append(m, all)) /\ NoBlock \in SseMessage /\ NoBlock = LastBlock(NoBlock, << >>)
    BY <1>3, <1>7, <1>8, <1>11
  <2> QED BY <1>9, <1>11, <1>12, <1>22, <2>1, <2>2, FramePiece
<1>24. t8 = t \o EndFrame
  <2>1. ep = <<"event", 0>> /\ dp = <<"data", 0>> /\ rp = <<"rest", 0>>
    BY <1>2, <1>a DEF FrameParts
  <2>2. t \o EndFrame = EndedText(t6)
    <3>1. t \o EndFrame = EndedText(Append(Append(Append(Append(t, ep), nl), dp), rp))
      BY <1>3, <2>1, OtherFramesAreAppended, Zenon
    <3> QED BY <1>14, <1>15, <3>1, Zenon
  <2> QED BY <1>3, <1>15, <2>2 DEF EndedText
<1> QED BY <1>23, <1>24 DEF InFrame

\* The connection: wherever the text is cut a reader may have come to there; what is
\* parsed and kept is what the text that came gives; what is handed on is what can be
\* read of what is parsed.
SoFar(w) == SubSeq(w.text, 1, w.came)

SseInv ==
  /\ wire \in [text : Seq(Piece), came : Nat, events : Nat, frames : 0..MaxFrames, open : BOOLEAN]
  /\ wire.came <= Len(wire.text) /\ wire.events <= wire.frames
  /\ FineAll(wire.text, wire.events, wire.open)
  /\ wire.open => Between(wire.text, wire.events)
  /\ browser \in [buffer : Seq(Piece), parsed : Seq(SseMessage), handed : Seq(Int), ended : BOOLEAN,
                  at : {"reading", "done", "failed"}]
  /\ browser.handed = Readable(browser.parsed) /\ (browser.ended <=> TellsEnd(browser.parsed))
  /\ browser.at # "done" => browser.parsed = Parsed(SoFar(wire)).messages
  /\ browser.at = "reading" => browser.buffer = Parsed(SoFar(wire)).block
  /\ browser.at = "done" => browser.parsed = Parsed(EndedText(SoFar(wire))).messages

LEMMA SseStarts == SseInit => SseInv
<1> SUFFICES ASSUME SseInit PROVE SseInv
  OBVIOUS
<1>1. /\ wire = [text |-> << >>, came |-> 0, events |-> 0, frames |-> 0, open |-> TRUE]
      /\ browser = [buffer |-> << >>, parsed |-> << >>, handed |-> << >>, ended |-> FALSE, at |-> "reading"]
  BY DEF SseInit
<1>a. << >> \in Seq(SseMessage) /\ << >> \in Seq(Piece) /\ << >> \in Seq(Int)
  OBVIOUS
<1>2. PICK no, nt : no = << >> /\ nt = << >> /\ no \in Seq(SseMessage) /\ nt \in Seq(Piece) /\ << >> \in Seq(Int)
  BY <1>a
<1>3. Parsed(nt) = ParserOf(no, NoBlock, << >>, nt)
  BY <1>2, ParsedOneMore DEF ParseStart, ParserOf
<1>4. Parsed(nt).messages = no /\ Parsed(nt).block = nt /\ Leaves(nt, no, NoBlock, << >>)
  BY <1>3, ParserParts DEF Leaves
<1>5. Readable(no) = << >> /\ ~TellsEnd(no)
  BY <1>2, ReadableOneMore DEF TellsEnd
<1>6. FirstEvents(0) = << >>
  BY DEF FirstEvents
<1>7. Whole(nt) = 0
  <2>1. NewLine \in Piece
    BY NoBlockIsEmpty
  <2> QED BY <1>2, <2>1, WholeOneMore
<1>8. SubSeq(nt, 1, 0) = nt /\ Len(nt) = 0
  BY <1>2, SubSeqEmpty
<1>9. Fine(nt, 0, TRUE)
  <2>1. NoBlock \in SseMessage /\ NoBlock = LastBlock(NoBlock, << >>) /\ 0 \in 0..0 /\ 0 \in Nat
    BY NoBlockIsEmpty DEF LastBlock
  <2>2. Told(NoBlock, Whole(nt), no, 0, 0, TRUE)
    BY <1>7, NoBlockIsEmpty DEF Told
  <2> QED BY <1>2, <1>4, <1>5, <1>6, <2>1, <2>2, LeavesFine
<1>10. FineAll(nt, 0, TRUE)
  <2>1. \A i \in 0..Len(nt) : SubSeq(nt, 1, i) = nt
    BY <1>8
  <2> QED BY <1>9, <2>1 DEF FineAll
<1>11. Between(nt, 0)
  BY <1>2, <1>4, <1>5, <1>6, <1>7 DEF Between
<1>12. SoFar(wire) = nt
  BY <1>1, <1>2, <1>8 DEF SoFar
<1>13. 0 \in 0..MaxFrames
  BY SseFramesAssumption
<1>14. wire \in [text : Seq(Piece), came : Nat, events : Nat, frames : 0..MaxFrames, open : BOOLEAN]
  BY <1>1, <1>2, <1>13
<1>15. browser \in [buffer : Seq(Piece), parsed : Seq(SseMessage), handed : Seq(Int), ended : BOOLEAN,
                    at : {"reading", "done", "failed"}]
  BY <1>1, <1>2
<1>16. /\ wire.came <= Len(wire.text) /\ wire.events <= wire.frames
       /\ FineAll(wire.text, wire.events, wire.open) /\ Between(wire.text, wire.events)
  <2>1. wire.came = 0 /\ wire.text = nt /\ wire.events = 0 /\ wire.frames = 0 /\ wire.open = TRUE
    BY <1>1, <1>2
  <2>2. 0 <= 0
    OBVIOUS
  <2> QED BY <1>8, <1>10, <1>11, <2>1, <2>2, Zenon
<1>17. /\ browser.handed = Readable(browser.parsed) /\ (browser.ended <=> TellsEnd(browser.parsed))
       /\ browser.at = "reading" /\ browser.parsed = no /\ browser.buffer = nt
  <2>1. browser.handed = << >> /\ browser.parsed = no /\ browser.ended = FALSE /\ browser.at = "reading" /\ browser.buffer = nt
    BY <1>1, <1>2
  <2> QED BY <1>5, <2>1, Zenon
<1> QED BY <1>4, <1>12, <1>14, <1>15, <1>16, <1>17 DEF SseInv

\* What has come does not change when more is written.
LEMMA SoFarStays ==
  ASSUME NEW s \in Seq(Piece), NEW more \in Seq(Piece), NEW n \in Nat, n <= Len(s)
  PROVE  SubSeq(s \o more, 1, n) = SubSeq(s, 1, n) /\ n <= Len(s \o more)
<1>1. PICK k \in Nat, l \in Nat : k = Len(s) /\ l = Len(more)
  BY LenProperties
<1>2. PICK u : u = s \o more
  OBVIOUS
<1>3. u \in Seq(Piece) /\ Len(u) = k + l
  BY <1>1, <1>2, ConcatProperties
<1>4. \A i \in 1..n : u[i] = s[i]
  <2>1. \A i \in 1..k + l : u[i] = IF i <= k THEN s[i] ELSE more[i - k]
    BY <1>1, <1>2, ConcatProperties
  <2>2. \A i \in 1..n : i \in 1..k + l /\ i <= k
    BY <1>1
  <2> QED BY <2>1, <2>2
<1>5. n <= Len(u) /\ n \in 0..n
  BY <1>1, <1>3
<1>6. SubSeq(u, 1, n) = SubSeq(s, 1, n)
  BY <1>3, <1>4, <1>5, SameBeginning
<1> QED BY <1>2, <1>5, <1>6

LEMMA FramesArePieces ==
  ASSUME NEW n \in Int
  PROVE  EventFrame(n) \in Seq(Piece) /\ EndFrame \in Seq(Piece) /\ KeepAlive \in Seq(Piece)
<1>1. PICK nl \in Piece, ip \in Piece, ep \in Piece, dp \in Piece, rp \in Piece :
        nl = NewLine /\ ip = <<"id", n>> /\ ep = <<"event", n>> /\ dp = <<"data", n>> /\ rp = <<"rest", n>>
  BY PiecesOfFrames
<1>2. PICK e0 \in Piece, d0 \in Piece, r0 \in Piece, c0 \in Piece :
        e0 = <<"event", 0>> /\ d0 = <<"data", 0>> /\ r0 = <<"rest", 0>> /\ c0 = <<"comment", 0>>
  <2>1. <<"event", 0>> \in Piece /\ <<"data", 0>> \in Piece /\ <<"rest", 0>> \in Piece /\ <<"comment", 0>> \in Piece
    BY DEF Piece
  <2> QED BY <2>1
<1>3. /\ <<ip, nl>> \in Seq(Piece) /\ <<ep, nl>> \in Seq(Piece) /\ <<dp, rp>> \in Seq(Piece) /\ <<nl, nl>> \in Seq(Piece)
      /\ <<e0, nl>> \in Seq(Piece) /\ <<d0, r0>> \in Seq(Piece)
  OBVIOUS
<1>4. EventFrame(n) \in Seq(Piece)
  <2>1. PICK s \in Seq(Piece) : s = <<ip, nl>> \o <<ep, nl>>
    BY <1>3, ConcatProperties
  <2>2. PICK u \in Seq(Piece) : u = s \o <<dp, rp>>
    BY <1>3, ConcatProperties
  <2>3. u \o <<nl, nl>> \in Seq(Piece)
    BY <1>3, ConcatProperties
  <2> QED BY <1>1, <2>1, <2>2, <2>3 DEF EventFrame, Data
<1>5. EndFrame \in Seq(Piece)
  <2>1. PICK s \in Seq(Piece) : s = <<e0, nl>> \o <<d0, r0>>
    BY <1>3, ConcatProperties
  <2>2. s \o <<nl, nl>> \in Seq(Piece)
    BY <1>3, ConcatProperties
  <2> QED BY <1>1, <1>2, <2>1, <2>2 DEF EndFrame, Data
<1>6. KeepAlive \in Seq(Piece)
  <2>1. <<c0, nl, nl>> \in Seq(Piece)
    OBVIOUS
  <2> QED BY <1>1, <1>2, <2>1 DEF KeepAlive
<1> QED BY <1>4, <1>5, <1>6

\* What a chunk does to what is parsed, kept and handed on.
LEMMA ChunkIsHanded ==
  ASSUME SseInv, NEW chunk \in Seq(Piece), browser.at = "reading"
  PROVE  LET now == Parsed(SoFar(wire) \o chunk)
             result == ParseSseChunk(browser.buffer \o chunk)
             after == Hand(browser, result.messages)
         IN /\ SoFar(wire) \in Seq(Piece)
            /\ after.parsed = now.messages /\ result.rest = now.block
            /\ after.parsed \in Seq(SseMessage) /\ result.rest \in Seq(Piece)
            /\ after.handed = Readable(after.parsed) /\ (after.ended <=> TellsEnd(after.parsed))
            /\ after \in [buffer : Seq(Piece), parsed : Seq(SseMessage), handed : Seq(Int), ended : BOOLEAN,
                          at : {"reading", "done", "failed"}]
            /\ after.at = "reading"
<1>1. PICK t : t = SoFar(wire)
  OBVIOUS
<1>2. t \in Seq(Piece)
  <2>1. PICK s \in Seq(Piece), n \in Nat, k \in Nat : s = wire.text /\ n = wire.came /\ k = Len(s) /\ n <= k
    BY LenProperties DEF SseInv
  <2>2. \A i \in 1..n : i \in 1..k
    BY <2>1
  <2>3. SubSeq(s, 1, n) \in Seq(Piece)
    BY <2>1, <2>2, ElementOfSeq, SubSeqProperties
  <2> QED BY <1>1, <2>1, <2>3 DEF SoFar
<1>3. PICK b \in Seq(Piece), old \in Seq(SseMessage) :
        b = browser.buffer /\ old = browser.parsed /\ b = Parsed(t).block /\ old = Parsed(t).messages
  BY <1>1 DEF SseInv
<1>4. b \o chunk \in Seq(Piece)
  BY ConcatProperties
<1>5. PICK q \in Parser : q = Parsed(b \o chunk)
  BY <1>4, ParsedOneMore
<1>6. PICK ms \in Seq(SseMessage), rest \in Seq(Piece) : ms = q.messages /\ rest = q.block
  BY ParserFields
<1>7. ParseSseChunk(b \o chunk) = [messages |-> ms, rest |-> rest]
  BY <1>5, <1>6 DEF ParseSseChunk, Parsed
<1>8. PICK now : now = Parsed(t \o chunk) /\ now = Later(old, q)
  BY <1>2, <1>3, <1>5, ChunkAfterBlock
<1>9. now.messages = old \o ms /\ now.block = rest
  <2>1. PICK both, c, l : both = old \o q.messages /\ c = q.current /\ l = q.line
    OBVIOUS
  <2>2. now = ParserOf(both, c, l, rest)
    BY <1>6, <1>8, <2>1, Zenon DEF Later
  <2>3. now.messages = both /\ now.block = rest
    BY <2>2, ParserParts
  <2> QED BY <1>6, <2>1, <2>3
<1>10. old \o ms \in Seq(SseMessage)
  BY ConcatProperties
<1>11. PICK after : after = Hand(browser, ms)
  OBVIOUS
<1>12. browser \in [buffer : Seq(Piece), parsed : Seq(SseMessage), handed : Seq(Int), ended : BOOLEAN,
                    at : {"reading", "done", "failed"}]
  BY DEF SseInv
<1>13. /\ after.parsed = old \o ms /\ after.handed = browser.handed \o Readable(ms)
       /\ after.ended = (browser.ended \/ TellsEnd(ms)) /\ after.at = "reading" /\ after.buffer = b
  BY <1>3, <1>11, <1>12 DEF Hand
<1>14. after.handed = Readable(old \o ms) /\ after.handed \in Seq(Int)
  <2>1. browser.handed = Readable(old)
    BY <1>3 DEF SseInv
  <2>2. Readable(old \o ms) = Readable(old) \o Readable(ms)
    BY HandedInTwoLots
  <2>3. Readable(old \o ms) \in Seq(Int)
    BY <1>10, ReadableOneMore
  <2> QED BY <1>13, <2>1, <2>2, <2>3
<1>15. after.ended \in BOOLEAN /\ (after.ended <=> TellsEnd(old \o ms))
  <2>1. browser.ended <=> TellsEnd(old)
    BY <1>3 DEF SseInv
  <2>2. TellsEnd(old \o ms) <=> TellsEnd(old) \/ TellsEnd(ms)
    BY EndInTwoLots
  <2>3. after.ended \in BOOLEAN
    BY <1>13
  <2> QED BY <1>13, <2>1, <2>2, <2>3
<1>16. after \in [buffer : Seq(Piece), parsed : Seq(SseMessage), handed : Seq(Int), ended : BOOLEAN,
                  at : {"reading", "done", "failed"}]
  <2>1. after = [browser EXCEPT !.parsed = old \o ms, !.handed = after.handed, !.ended = after.ended]
    BY <1>3, <1>11, <1>12, <1>13 DEF Hand
  <2> QED BY <1>10, <1>12, <1>14, <1>15, <2>1
<1>17. ParseSseChunk(browser.buffer \o chunk).messages = ms /\ ParseSseChunk(browser.buffer \o chunk).rest = rest
  BY <1>3, <1>7
<1> QED BY <1>1, <1>2, <1>8, <1>9, <1>10, <1>11, <1>13, <1>14, <1>15, <1>16, <1>17

LEMMA WritingIsFine ==
  ASSUME SseInv, WriteFrame
  PROVE  SseInv'
<1>1. PICK t \in Seq(Piece), e \in Nat, n \in Nat, f \in 0..MaxFrames :
        t = wire.text /\ e = wire.events /\ n = wire.came /\ f = wire.frames
  BY DEF SseInv
<1>2. /\ n <= Len(t) /\ e <= f /\ wire.open = TRUE /\ f < MaxFrames /\ FineAll(t, e, TRUE) /\ Between(t, e)
      /\ browser' = browser
      /\ wire \in [text : Seq(Piece), came : Nat, events : Nat, frames : 0..MaxFrames, open : BOOLEAN]
  <2>1. wire.open \in BOOLEAN /\ wire.open
    BY DEF SseInv, WriteFrame
  <2> QED BY <1>1, <2>1 DEF SseInv, WriteFrame
<1>3. PICK m : m = e + 1
  OBVIOUS
<1>4. m \in Nat /\ m \in Int /\ e \in Int /\ f + 1 \in 0..MaxFrames
  BY <1>2, <1>3, SseFramesAssumption
<1>5. ASSUME NEW more \in Seq(Piece), NEW e2 \in Nat, NEW f2 \in 0..MaxFrames, NEW o2 \in BOOLEAN,
             wire' = [wire EXCEPT !.text = t \o more, !.events = e2, !.frames = f2, !.open = o2],
             e2 <= f2, FineAll(t \o more, e2, o2), o2 => Between(t \o more, e2)
      PROVE  SseInv'
  <2>1. PICK u \in Seq(Piece) : u = t \o more
    BY ConcatProperties
  <2>2. wire'.text = u /\ wire'.came = n /\ wire'.events = e2 /\ wire'.frames = f2 /\ wire'.open = o2
    BY <1>1, <1>2, <1>5, <2>1
  <2>3. wire' \in [text : Seq(Piece), came : Nat, events : Nat, frames : 0..MaxFrames, open : BOOLEAN]
    BY <1>1, <1>2, <1>5, <2>1
  <2>4. SubSeq(u, 1, n) = SubSeq(t, 1, n) /\ n <= Len(u)
    BY <1>2, <2>1, SoFarStays
  <2>5. SoFar(wire)' = SoFar(wire)
    BY <1>1, <2>2, <2>4 DEF SoFar
  <2>6. FineAll(u, e2, o2) /\ (o2 => Between(u, e2))
    BY <1>5, <2>1
  <2>7. /\ browser \in [buffer : Seq(Piece), parsed : Seq(SseMessage), handed : Seq(Int), ended : BOOLEAN,
                        at : {"reading", "done", "failed"}]
        /\ browser.handed = Readable(browser.parsed) /\ (browser.ended <=> TellsEnd(browser.parsed))
        /\ browser.at # "done" => browser.parsed = Parsed(SoFar(wire)).messages
        /\ browser.at = "reading" => browser.buffer = Parsed(SoFar(wire)).block
        /\ browser.at = "done" => browser.parsed = Parsed(EndedText(SoFar(wire))).messages
    BY DEF SseInv
  <2>8. /\ wire'.came <= Len(wire'.text) /\ wire'.events <= wire'.frames
        /\ FineAll(wire'.text, wire'.events, wire'.open) /\ (wire'.open => Between(wire'.text, wire'.events))
    BY <1>5, <2>2, <2>4, <2>6
  <2>9. SoFar(wire') = SoFar(wire)
    BY <2>5
  <2> QED BY <1>2, <2>3, <2>7, <2>8, <2>9 DEF SseInv
<1>6. CASE wire' = [wire EXCEPT !.text = @ \o EventFrame(wire.events + 1), !.events = @ + 1, !.frames = @ + 1]
  <2>1. PICK more \in Seq(Piece) : more = EventFrame(m)
    BY <1>4, FramesArePieces
  <2>2. FineAll(t \o more, m, TRUE) /\ Between(t \o more, m)
    BY <1>2, <1>3, <1>4, <2>1, EventFrameIsFine
  <2>3. wire' = [wire EXCEPT !.text = t \o more, !.events = m, !.frames = f + 1, !.open = TRUE]
    BY <1>1, <1>2, <1>3, <1>6, <2>1
  <2>4. m <= f + 1
    BY <1>2, <1>3
  <2> QED BY <1>4, <1>5, <2>2, <2>3, <2>4
<1>7. CASE wire' = [wire EXCEPT !.text = @ \o KeepAlive, !.frames = @ + 1]
  <2>1. PICK more \in Seq(Piece) : more = KeepAlive
    BY <1>4, FramesArePieces
  <2>2. FineAll(t \o more, e, TRUE) /\ Between(t \o more, e)
    BY <1>2, <2>1, KeepAliveIsFine
  <2>3. wire' = [wire EXCEPT !.text = t \o more, !.events = e, !.frames = f + 1, !.open = TRUE]
    BY <1>1, <1>2, <1>7, <2>1
  <2>4. e <= f + 1
    BY <1>2
  <2> QED BY <1>4, <1>5, <2>2, <2>3, <2>4
<1>8. CASE wire' = [wire EXCEPT !.text = @ \o EndFrame, !.open = FALSE]
  <2>1. PICK more \in Seq(Piece) : more = EndFrame
    BY <1>4, FramesArePieces
  <2>2. FineAll(t \o more, e, FALSE)
    BY <1>2, <2>1, EndFrameIsFine
  <2>3. wire' = [wire EXCEPT !.text = t \o more, !.events = e, !.frames = f, !.open = FALSE]
    BY <1>1, <1>2, <1>8, <2>1
  <2> QED BY <1>2, <1>5, <2>2, <2>3
<1> QED BY <1>6, <1>7, <1>8 DEF WriteFrame

LEMMA ReadingIsFine ==
  ASSUME SseInv, ReadChunk
  PROVE  SseInv'
<1>1. PICK t \in Seq(Piece), c \in Nat : t = wire.text /\ c = wire.came
  BY DEF SseInv
<1>2. PICK n \in (c + 1)..Len(t) :
        LET result == ParseSseChunk(browser.buffer \o SubSeq(t, c + 1, n))
        IN /\ wire' = [wire EXCEPT !.came = n]
           /\ browser' = [Hand(browser, result.messages) EXCEPT !.buffer = result.rest]
  BY <1>1 DEF ReadChunk
<1>3. PICK k \in Nat : k = Len(t)
  BY LenProperties
<1>4. c + 1 \in Int /\ n \in Int /\ n \in Nat /\ c <= n /\ n <= k /\ c <= k
  BY <1>2, <1>3
<1>5. PICK chunk \in Seq(Piece) : chunk = SubSeq(t, c + 1, n)
  <2>1. \A i \in (c + 1)..n : t[i] \in Piece
    <3>1. \A i \in (c + 1)..n : i \in 1..k
      BY <1>4
    <3> QED BY <1>3, <3>1, ElementOfSeq
  <2> QED BY <1>4, <2>1, SubSeqProperties
<1>6. SoFar(wire) \o chunk = SubSeq(t, 1, n)
  <2>1. 1 \in 1..Len(t) + 1 /\ c \in 1 - 1..Len(t) /\ n \in c..Len(t)
    BY <1>3, <1>4
  <2>2. SubSeq(t, 1, c) \o SubSeq(t, c + 1, n) = SubSeq(t, 1, n)
    BY <2>1, ConcatAdjacentSubSeq
  <2> QED BY <1>1, <1>5, <2>2 DEF SoFar
<1>7. PICK result, after : result = ParseSseChunk(browser.buffer \o chunk) /\ after = Hand(browser, result.messages)
  OBVIOUS
<1>8. browser' = [after EXCEPT !.buffer = result.rest] /\ wire' = [wire EXCEPT !.came = n] /\ browser.at = "reading"
  BY <1>1, <1>2, <1>5, <1>7 DEF ReadChunk
<1>9. /\ after.parsed = Parsed(SubSeq(t, 1, n)).messages /\ result.rest = Parsed(SubSeq(t, 1, n)).block
      /\ result.rest \in Seq(Piece)
      /\ after.handed = Readable(after.parsed) /\ (after.ended <=> TellsEnd(after.parsed))
      /\ after \in [buffer : Seq(Piece), parsed : Seq(SseMessage), handed : Seq(Int), ended : BOOLEAN,
                    at : {"reading", "done", "failed"}]
      /\ after.at = "reading"
  BY <1>6, <1>7, <1>8, ChunkIsHanded
<1>10. /\ wire \in [text : Seq(Piece), came : Nat, events : Nat, frames : 0..MaxFrames, open : BOOLEAN]
       /\ wire.events <= wire.frames
       /\ FineAll(wire.text, wire.events, wire.open) /\ (wire.open => Between(wire.text, wire.events))
  BY DEF SseInv
<1>11. /\ wire' \in [text : Seq(Piece), came : Nat, events : Nat, frames : 0..MaxFrames, open : BOOLEAN]
       /\ wire'.text = t /\ wire'.came = n /\ wire'.events = wire.events /\ wire'.frames = wire.frames /\ wire'.open = wire.open
  BY <1>1, <1>4, <1>8, <1>10
<1>12. SoFar(wire') = SubSeq(t, 1, n)
  BY <1>11 DEF SoFar
<1>13. /\ browser' \in [buffer : Seq(Piece), parsed : Seq(SseMessage), handed : Seq(Int), ended : BOOLEAN,
                        at : {"reading", "done", "failed"}]
       /\ browser'.parsed = after.parsed /\ browser'.handed = after.handed /\ browser'.ended = after.ended
       /\ browser'.at = "reading" /\ browser'.buffer = result.rest
  BY <1>8, <1>9
<1>14. /\ browser'.handed = Readable(browser'.parsed) /\ (browser'.ended <=> TellsEnd(browser'.parsed))
       /\ browser'.parsed = Parsed(SoFar(wire')).messages /\ browser'.buffer = Parsed(SoFar(wire')).block
  <2>1. /\ browser'.parsed = Parsed(SoFar(wire')).messages /\ browser'.buffer = Parsed(SoFar(wire')).block
        /\ browser'.handed = Readable(browser'.parsed)
    BY <1>9, <1>12, <1>13
  <2>2. browser'.ended <=> TellsEnd(browser'.parsed)
    BY <1>9, <1>13, Zenon
  <2> QED BY <2>1, <2>2
<1>15. wire'.came <= Len(wire'.text) /\ wire'.events <= wire'.frames
  BY <1>3, <1>4, <1>10, <1>11
<1>16. FineAll(wire'.text, wire'.events, wire'.open) /\ (wire'.open => Between(wire'.text, wire'.events))
  BY <1>1, <1>10, <1>11
<1> QED BY <1>11, <1>13, <1>14, <1>15, <1>16 DEF SseInv

LEMMA EndingIsFine ==
  ASSUME SseInv, BodyEnds
  PROVE  SseInv'
<1>a. PICK nl \in Piece : nl = NewLine
  BY NoBlockIsEmpty
<1>b. <<nl, nl>> \in Seq(Piece)
  OBVIOUS
<1>1. PICK chunk \in Seq(Piece) : nl = NewLine /\ chunk = <<nl, nl>>
  BY <1>a, <1>b
<1>2. PICK result, after : result = ParseSseChunk(browser.buffer \o chunk) /\ after = Hand(browser, result.messages)
  OBVIOUS
<1>3. browser' = [after EXCEPT !.at = "done"] /\ wire' = wire /\ browser.at = "reading"
  BY <1>1, <1>2 DEF BodyEnds
<1>4. /\ SoFar(wire) \in Seq(Piece) /\ after.parsed = Parsed(SoFar(wire) \o chunk).messages
      /\ after.handed = Readable(after.parsed) /\ (after.ended <=> TellsEnd(after.parsed))
      /\ after \in [buffer : Seq(Piece), parsed : Seq(SseMessage), handed : Seq(Int), ended : BOOLEAN,
                    at : {"reading", "done", "failed"}]
  BY <1>2, <1>3, ChunkIsHanded
<1>5. SoFar(wire) \o chunk = EndedText(SoFar(wire))
  BY <1>1, <1>4, PairMore DEF EndedText
<1>6. /\ browser' \in [buffer : Seq(Piece), parsed : Seq(SseMessage), handed : Seq(Int), ended : BOOLEAN,
                       at : {"reading", "done", "failed"}]
      /\ browser'.parsed = after.parsed /\ browser'.handed = after.handed /\ browser'.ended = after.ended
      /\ browser'.at = "done"
  BY <1>3, <1>4
<1>7. /\ browser'.handed = Readable(browser'.parsed) /\ (browser'.ended <=> TellsEnd(browser'.parsed))
      /\ browser'.parsed = Parsed(EndedText(SoFar(wire))).messages
  BY <1>4, <1>5, <1>6, Zenon
<1>8. /\ wire \in [text : Seq(Piece), came : Nat, events : Nat, frames : 0..MaxFrames, open : BOOLEAN]
      /\ wire.came <= Len(wire.text) /\ wire.events <= wire.frames
      /\ FineAll(wire.text, wire.events, wire.open) /\ (wire.open => Between(wire.text, wire.events))
  BY DEF SseInv
<1> QED BY <1>3, <1>6, <1>7, <1>8 DEF SseInv

LEMMA SseSteps ==
  ASSUME SseInv, [SseNext]_SseVars
  PROVE  SseInv'
<1>1. CASE WriteFrame
  BY <1>1, WritingIsFine
<1>2. CASE ReadChunk
  BY <1>2, ReadingIsFine
<1>3. CASE BodyEnds
  BY <1>3, EndingIsFine
<1>4. CASE ReadFails
  <2>1. browser' = [browser EXCEPT !.at = "failed"] /\ wire' = wire /\ browser.at = "reading"
    BY <1>4 DEF ReadFails
  <2>2. /\ browser \in [buffer : Seq(Piece), parsed : Seq(SseMessage), handed : Seq(Int), ended : BOOLEAN,
                        at : {"reading", "done", "failed"}]
        /\ browser.handed = Readable(browser.parsed) /\ (browser.ended <=> TellsEnd(browser.parsed))
        /\ browser.parsed = Parsed(SoFar(wire)).messages
    BY <2>1 DEF SseInv
  <2>3. /\ browser' \in [buffer : Seq(Piece), parsed : Seq(SseMessage), handed : Seq(Int), ended : BOOLEAN,
                         at : {"reading", "done", "failed"}]
        /\ browser'.parsed = browser.parsed /\ browser'.handed = browser.handed /\ browser'.ended = browser.ended
        /\ browser'.at = "failed"
    BY <2>1, <2>2
  <2> QED BY <2>1, <2>2, <2>3 DEF SseInv
<1>5. CASE UNCHANGED SseVars
  <2>1. wire' = wire /\ browser' = browser
    BY <1>5 DEF SseVars
  <2> QED BY <2>1 DEF SseInv
<1> QED BY <1>1, <1>2, <1>3, <1>4, <1>5 DEF SseNext

LEMMA SseIsGood ==
  ASSUME SseInv
  PROVE  ChunksDoNotMatter /\ HandedIsWhatCame
<1>1. SoFar(wire) = Came
  BY DEF SoFar, Came
<1>2. ChunksDoNotMatter
  BY <1>1 DEF ChunksDoNotMatter, SseInv, ParseSseChunk, Parsed
<1>3. Fine(Came, wire.events, wire.open)
  <2>1. wire.came \in 0..Len(wire.text)
    BY LenProperties DEF SseInv
  <2> QED BY <1>1, <2>1 DEF SseInv, FineAll, SoFar
<1>4. PICK e \in Nat : e = wire.events
  BY DEF SseInv
<1>5. \A r \in Nat : FirstEvents(r) = [i \in 1..Len(FirstEvents(r)) |-> i] /\ Len(FirstEvents(r)) = r
  BY OneEventFurther DEF FirstEvents
<1>6. Whole(Came) = Cardinality({i \in DOMAIN Came : Came[i][1] = "rest" /\ Came[i][2] > 0})
  BY DEF Whole
<1>7. browser.handed = Readable(browser.parsed) /\ (browser.ended <=> TellsEnd(browser.parsed))
  BY DEF SseInv
<1>8. CASE browser.at # "done"
  <2>1. browser.parsed = Parsed(Came).messages
    BY <1>1, <1>8 DEF SseInv
  <2>2. PICK r \in 0..e : /\ Readable(Parsed(Came).messages) = FirstEvents(r)
                          /\ TellsEnd(Parsed(Came).messages) => ~wire.open /\ r = e
    BY <1>3, <1>4 DEF Fine
  <2>3. r \in Nat
    OBVIOUS
  <2>4. browser.handed = FirstEvents(r) /\ (browser.ended => r = e)
    BY <1>7, <2>1, <2>2
  <2> QED BY <1>2, <1>4, <1>5, <1>8, <2>3, <2>4 DEF HandedIsWhatCame
<1>9. CASE browser.at = "done"
  <2>1. browser.parsed = Parsed(EndedText(Came)).messages
    BY <1>1, <1>9 DEF SseInv
  <2>2. PICK r \in Nat : r = Whole(Came)
    BY <1>3, <1>4 DEF Fine
  <2>3. browser.handed = FirstEvents(r) /\ (browser.ended => r = e)
    BY <1>3, <1>4, <1>7, <2>1, <2>2 DEF Fine
  <2> QED BY <1>2, <1>4, <1>5, <1>6, <2>2, <2>3 DEF HandedIsWhatCame
<1> QED BY <1>8, <1>9

LEMMA TraceRests ==
  ASSUME TraceInv, [TraceNext]_TraceVars
  PROVE  TraceInv'
<1>1. CASE UNCHANGED TraceVars
  BY <1>1 DEF TraceInv, TraceVars
<1> QED BY <1>1, TraceSteps

\* What a reader is shown of a run (trace.ts, sse.ts and stream.ts, verifier.ts and
\* the graders of the bench): a trace with one node for each thing that happened, the
\* events that were sent, whole and in order, wherever the text of the stream was
\* cut, and an end that was verified or graded as it is told.
THEOREM ShownIsWhatWas == RecordsSpec => []TraceHolds
<1> DEFINE Inv == TraceInv /\ SseInv /\ GradingInv
<1>1. RecordsInit => Inv
  BY TraceStarts, SseStarts, GradingStarts DEF RecordsInit
<1>2. Inv /\ [RecordsNext]_recordsVars => Inv'
  BY PartsRest, TraceRests, SseSteps, GradingSteps
<1>3. Inv => TraceHolds
  BY TraceIsGood, SseIsGood, GradingIsGood DEF TraceHolds, Of
<1> QED BY <1>1, <1>2, <1>3, PTL DEF RecordsSpec

-----------------------------------------------------------------------------
(* Ranks: how many stand before an element tells its place.                   *)

\* The first n numbers are n, from 1 on or from 0 on.
LEMMA SoManyNumbers ==
  ASSUME NEW n \in Nat
  PROVE  /\ IsFiniteSet(1..n) /\ Cardinality(1..n) = n
         /\ IsFiniteSet(0..n - 1) /\ Cardinality(0..n - 1) = n
<1>1. IsFiniteSet(1..n) /\ Cardinality(1..n) = n
  <2>1. IsFiniteSet(1..n) /\ Cardinality(1..n) = IF 1 > n THEN 0 ELSE n - 1 + 1
    BY FS_Interval
  <2>2. (IF 1 > n THEN 0 ELSE n - 1 + 1) = n
    OBVIOUS
  <2> QED BY <2>1, <2>2
<1>2. PICK last \in Int : last = n - 1
  OBVIOUS
<1>3. IsFiniteSet(0..last) /\ Cardinality(0..last) = n
  <2>1. IsFiniteSet(0..last) /\ Cardinality(0..last) = IF 0 > last THEN 0 ELSE last - 0 + 1
    BY FS_Interval
  <2>2. (IF 0 > last THEN 0 ELSE last - 0 + 1) = n
    BY <1>2
  <2> QED BY <2>1, <2>2
<1> QED BY <1>1, <1>2, <1>3

\* How many stand before an element; and that each has a rank of its own, from 0 on.
RankIn(some, rel, i) == Cardinality({j \in some : <<j, i>> \in rel})
Ranked(some, rel) ==
  /\ Cardinality(some) \in Nat
  /\ \A i \in some : RankIn(some, rel, i) \in 0..Cardinality(some) - 1
  /\ \A i, k \in some : <<i, k>> \in rel => RankIn(some, rel, i) < RankIn(some, rel, k)
  /\ \A i, k \in some : RankIn(some, rel, i) = RankIn(some, rel, k) => i = k
  /\ \A n \in 0..Cardinality(some) - 1 : \E i \in some : RankIn(some, rel, i) = n

\* In a strict order of a finite set the elements have such ranks.
LEMMA RanksAreTaken ==
  ASSUME NEW some, IsFiniteSet(some), NEW rel,
         \A i \in some : <<i, i>> \notin rel,
         \A i, j, k \in some : <<i, j>> \in rel /\ <<j, k>> \in rel => <<i, k>> \in rel,
         \A i, j \in some : i # j => <<i, j>> \in rel \/ <<j, i>> \in rel
  PROVE  Ranked(some, rel)
<1> DEFINE before(i) == {j \in some : <<j, i>> \in rel}
           rank(i) == Cardinality(before(i))
           size == Cardinality(some)
           ranks == [i \in some |-> rank(i)]
<1>1. size \in Nat
  BY FS_CardinalityType
<1>2. ASSUME NEW i \in some PROVE IsFiniteSet(before(i)) /\ rank(i) \in 0..size - 1 /\ rank(i) \in Nat
  <2>1. before(i) \in SUBSET some /\ i \notin before(i)
    OBVIOUS
  <2> HIDE DEF before
  <2>2. IsFiniteSet(before(i)) /\ rank(i) \in Nat /\ rank(i) <= size /\ rank(i) # size
    BY <2>1, FS_Subset, FS_CardinalityType
  <2> QED BY <1>1, <2>2
<1>3. ASSUME NEW i \in some, NEW k \in some, <<i, k>> \in rel PROVE rank(i) < rank(k)
  <2>1. before(i) \subseteq before(k) /\ i \in before(k) /\ i \notin before(i)
    BY <1>3
  <2>2. IsFiniteSet(before(k)) /\ rank(i) \in Nat /\ rank(k) \in Nat
    BY <1>2
  <2> HIDE DEF before
  <2>3. rank(i) <= rank(k) /\ rank(i) # rank(k)
    BY <2>1, <2>2, FS_Subset
  <2> QED BY <2>2, <2>3
<1>4. ASSUME NEW i \in some, NEW k \in some, rank(i) = rank(k) PROVE i = k
  <2>1. rank(i) \in Nat
    BY <1>2
  <2> HIDE DEF rank
  <2>2. ~(rank(i) < rank(k)) /\ ~(rank(k) < rank(i))
    BY <1>4, <2>1
  <2>3. <<i, k>> \notin rel /\ <<k, i>> \notin rel
    BY <1>3, <2>2
  <2> QED BY <2>3
<1>5. \A n \in 0..size - 1 : \E i \in some : rank(i) = n
  <2> HIDE DEF rank, size
  <2>1. ranks \in Injection(some, 0..size - 1)
    BY <1>2, <1>4 DEF Injection, IsInjective
  <2>2. IsFiniteSet(0..size - 1) /\ Cardinality(0..size - 1) = size
    BY <1>1, SoManyNumbers DEF size
  <2>3. ranks \in Surjection(some, 0..size - 1)
    <3> HIDE DEF ranks
    <3>1. Cardinality(some) = Cardinality(0..size - 1)
      BY <2>2 DEF size
    <3> QED BY <2>1, <2>2, <3>1, FS_Injection
  <2> QED BY <2>3 DEF Surjection
<1> QED BY <1>1, <1>2, <1>3, <1>4, <1>5 DEF Ranked, RankIn

\* The places of a set, counted from its least one.
LEMMA PlacesAreCounted ==
  ASSUME NEW some \in SUBSET Nat, IsFiniteSet(some)
  PROVE  /\ \A i \in some : Cardinality({j \in some : j <= i}) \in 1..Cardinality(some)
         /\ \A i, k \in some : Cardinality({j \in some : j <= i}) = Cardinality({j \in some : j <= k}) => i = k
         /\ \A n \in 1..Cardinality(some) : \E i \in some : Cardinality({j \in some : j <= i}) = n
<1> DEFINE before(i) == {j \in some : j <= i}
           rank(i) == Cardinality(before(i))
           size == Cardinality(some)
           ranks == [i \in some |-> rank(i)]
<1>1. size \in Nat
  BY FS_CardinalityType
<1>2. ASSUME NEW i \in some PROVE IsFiniteSet(before(i)) /\ rank(i) \in 1..size /\ rank(i) \in Nat
  <2>1. before(i) \in SUBSET some /\ i \in before(i)
    OBVIOUS
  <2> HIDE DEF before
  <2>2. IsFiniteSet(before(i)) /\ rank(i) \in Nat /\ rank(i) <= size
    BY <2>1, FS_Subset, FS_CardinalityType
  <2>3. rank(i) # 0
    BY <2>1, <2>2, FS_EmptySet
  <2> QED BY <1>1, <2>2, <2>3
<1>3. ASSUME NEW i \in some, NEW k \in some, i < k PROVE rank(i) # rank(k)
  <2>0. i \in Nat /\ k \in Nat /\ \A j \in some : j \in Nat
    OBVIOUS
  <2>1. before(i) \subseteq before(k) /\ k \in before(k) /\ k \notin before(i)
    <3>1. \A j \in some : j <= i => j <= k
      BY <1>3, <2>0
    <3>2. k <= k /\ ~(k <= i)
      BY <1>3, <2>0
    <3> QED BY <3>1, <3>2
  <2>2. IsFiniteSet(before(k)) /\ rank(i) \in Nat /\ rank(k) \in Nat
    BY <1>2
  <2> HIDE DEF before
  <2> QED BY <2>1, <2>2, FS_Subset
<1>4. ASSUME NEW i \in some, NEW k \in some, rank(i) = rank(k) PROVE i = k
  <2> HIDE DEF rank
  <2>1. ~(i < k) /\ ~(k < i)
    BY <1>3, <1>4
  <2> QED BY <2>1
<1>5. \A n \in 1..size : \E i \in some : rank(i) = n
  <2> HIDE DEF rank, size
  <2>1. ranks \in Injection(some, 1..size)
    BY <1>2, <1>4 DEF Injection, IsInjective
  <2>2. IsFiniteSet(1..size) /\ Cardinality(1..size) = size
    BY <1>1, FS_Interval
  <2>3. ranks \in Surjection(some, 1..size)
    <3> HIDE DEF ranks
    <3>1. Cardinality(some) = Cardinality(1..size)
      BY <2>2 DEF size
    <3> QED BY <2>1, <2>2, <3>1, FS_Injection
  <2> QED BY <2>3 DEF Surjection
<1> QED BY <1>2, <1>4, <1>5

\* A way through some places of a list that takes each once and in their order.
InTurn(list, places, placeOf) ==
  /\ placeOf \in [1..Cardinality(places) -> places]
  /\ \A n \in 1..Cardinality(places) : ElementsAt(list, places)[n] = list[placeOf[n]]
  /\ \A i \in places : \E n \in 1..Cardinality(places) : placeOf[n] = i
  /\ \A m, n \in 1..Cardinality(places) : m < n => placeOf[m] < placeOf[n]

\* The elements at some places of a list are those.
LEMMA ElementsInOrder ==
  ASSUME NEW S, NEW list \in Seq(S), NEW places \in SUBSET (1..Len(list))
  PROVE  /\ IsFiniteSet(places) /\ Cardinality(places) \in Nat /\ Cardinality(places) <= Len(list)
         /\ ElementsAt(list, places) \in Seq(S) /\ Len(ElementsAt(list, places)) = Cardinality(places)
         /\ \E placeOf : InTurn(list, places, placeOf)
<1> DEFINE upTo(i) == {j \in places : j <= i}
           size == Cardinality(places)
           nth(n) == CHOOSE i \in places : Cardinality(upTo(i)) = n
           placeOf == [n \in 1..size |-> nth(n)]
           all == ElementsAt(list, places)
<1>1. Len(list) \in Nat /\ \A i \in places : i \in 1..Len(list) /\ i \in Nat /\ list[i] \in S
  BY LenProperties, ElementOfSeq
<1>2. places \in SUBSET Nat /\ IsFiniteSet(places) /\ size \in Nat /\ size <= Len(list)
  <2>1. IsFiniteSet(1..Len(list)) /\ Cardinality(1..Len(list)) = Len(list)
    BY <1>1, SoManyNumbers
  <2>2. places \in SUBSET Nat
    BY <1>1
  <2> QED BY <2>1, <2>2, FS_Subset, FS_CardinalityType
<1>3. \A n \in 1..size : \E i \in places : Cardinality(upTo(i)) = n
  BY <1>2, PlacesAreCounted
<1>4. \A i \in places : Cardinality(upTo(i)) \in 1..size
  BY <1>2, PlacesAreCounted
<1>5. \A i, k \in places : Cardinality(upTo(i)) = Cardinality(upTo(k)) => i = k
  BY <1>2, PlacesAreCounted
<1>6. \A i, k \in places : i <= k => Cardinality(upTo(i)) <= Cardinality(upTo(k))
  <2> SUFFICES ASSUME NEW i \in places, NEW k \in places, i <= k
               PROVE  Cardinality(upTo(i)) <= Cardinality(upTo(k))
    OBVIOUS
  <2>1. upTo(i) \subseteq upTo(k) /\ upTo(k) \subseteq places
    <3>1. i \in Nat /\ k \in Nat /\ \A j \in places : j \in Nat
      BY <1>1
    <3>2. \A j \in places : j <= i => j <= k
      BY <3>1
    <3> QED BY <3>2
  <2> HIDE DEF upTo
  <2> QED BY <1>2, <2>1, FS_Subset
<1> HIDE DEF upTo
<1>7. ASSUME NEW n \in 1..size PROVE nth(n) \in places /\ Cardinality(upTo(nth(n))) = n
  <2>1. \E i \in places : Cardinality(upTo(i)) = n
    BY <1>3
  <2> QED BY <2>1
<1> HIDE DEF nth
<1>8. placeOf \in [1..size -> places] /\ \A n \in 1..size : placeOf[n] = nth(n)
  BY <1>7
<1>9. all = [n \in 1..size |-> list[nth(n)]]
  BY DEF ElementsAt, nth, upTo
<1> HIDE DEF placeOf, all
<1>10. all \in Seq(S) /\ Len(all) = size /\ \A n \in 1..size : all[n] = list[placeOf[n]]
  <2>1. all \in [1..size -> S] /\ \A n \in 1..size : all[n] = list[placeOf[n]]
    BY <1>1, <1>7, <1>8, <1>9
  <2>2. all \in Seq(S)
    BY <1>2, <2>1, SeqDef
  <2>3. Len(all) \in Nat /\ 1..Len(all) = 1..size
    BY <2>1, <2>2, LenProperties
  <2>4. \A m, n \in Nat : 1..m = 1..n => m = n
    OBVIOUS
  <2> QED BY <1>2, <2>1, <2>2, <2>3, <2>4
<1>11. ASSUME NEW i \in places PROVE \E n \in 1..size : placeOf[n] = i
  <2>1. PICK n \in 1..size : n = Cardinality(upTo(i))
    BY <1>4
  <2>2. nth(n) = i
    BY <1>5, <1>7, <2>1
  <2> QED BY <1>8, <2>2
<1>12. ASSUME NEW m \in 1..size, NEW n \in 1..size, m < n PROVE placeOf[m] < placeOf[n]
  <2>1. placeOf[m] \in places /\ placeOf[n] \in places /\ Cardinality(upTo(placeOf[m])) = m /\ Cardinality(upTo(placeOf[n])) = n
    BY <1>7, <1>8
  <2>2. placeOf[m] \in Nat /\ placeOf[n] \in Nat /\ m \in Nat /\ n \in Nat
    <3>1. placeOf[m] \in Nat /\ placeOf[n] \in Nat
      BY <1>1, <2>1
    <3>2. m \in 1..size /\ n \in 1..size
      OBVIOUS
    <3> HIDE DEF size
    <3> QED BY <1>2, <3>1, <3>2
  <2>3. ~(placeOf[n] <= placeOf[m])
    <3>1. ~(n <= m)
      BY <1>12, <2>2
    <3> QED BY <1>6, <2>1, <3>1
  <2> QED BY <2>2, <2>3
<1> HIDE DEF size
<1>13. /\ \A n \in 1..size : all[n] = list[placeOf[n]]
       /\ \A i \in places : \E n \in 1..size : placeOf[n] = i
       /\ \A m, n \in 1..size : m < n => placeOf[m] < placeOf[n]
  BY <1>10, <1>11, <1>12
<1>14. InTurn(list, places, placeOf)
  BY <1>8, <1>13 DEF InTurn, size, all
<1> QED BY <1>2, <1>10, <1>14 DEF size, all

-----------------------------------------------------------------------------
(* What a prompt is made of.  Observations are numbered as they come, in what  *)
(* the run has and in what its checkpoint keeps; the prompt shows or tells of  *)
(* the places of that list, each once.                                         *)

LEMMA TokensAreNumbers ==
  ASSUME NEW list \in Seq(Observation)
  PROVE  Tokens(list) \in Nat
<1>1. PICK n \in Nat : n = Len(list)
  BY LenProperties
<1>2. DOMAIN list = 1..n /\ \A i \in 1..n : list[i] \in Observation
  BY <1>1, LenProperties, ElementOfSeq
<1>a. \A i \in 1..n : list[i].tokens \in Nat
  BY <1>2 DEF Observation
<1> DEFINE step == [p \in Nat \X (1..n) |-> p[1] + list[p[2]].tokens]
           steps(it) == [t \in SUBSET (1..n) |-> IF t = {} THEN 0 ELSE it[t \ {Max(t)}] + list[Max(t)].tokens]
           fold == CHOOSE it : it = steps(it)
<1>3. step \in [Nat \X (1..n) -> Nat]
  <2>1. \A p \in Nat \X (1..n) : p[1] + list[p[2]].tokens \in Nat
    BY <1>a
  <2> QED BY <2>1
<1>5. Tokens(list) = fold[1..n]
  BY <1>2, Zenon DEF Tokens, FoldLeft, MapThenFoldSet
<1>6. \A p \in Nat, i \in 1..n : step[<<p, i>>] = p + list[i].tokens
  OBVIOUS
<1> HIDE DEF step
<1>b. PICK h \in [SUBSET (1..n) -> Nat], f \in [0..n -> Nat] : GoesThrough(h, f, n, 0, step)
  BY <1>3, StepByStep
<1>7. \A t \in SUBSET (1..n) : h[t] = IF t = {} THEN 0 ELSE step[<<h[t \ {Max(t)}], Max(t)>>]
  BY <1>b DEF GoesThrough
<1>8. h = steps(h)
  <2>1. ASSUME NEW t \in SUBSET (1..n), t # {}
        PROVE  h[t] = h[t \ {Max(t)}] + list[Max(t)].tokens
    <3>1. Max(t) \in 1..n /\ t \ {Max(t)} \in SUBSET (1..n)
      BY <2>1, GreatestOf
    <3>2. h[t] = step[<<h[t \ {Max(t)}], Max(t)>>] /\ h[t \ {Max(t)}] \in Nat
      BY <1>7, <2>1, <3>1
    <3> QED BY <1>6, <3>1, <3>2
  <2>2. \A t \in SUBSET (1..n) : h[t] = steps(h)[t]
    BY <1>7, <2>1
  <2>3. h = [t \in SUBSET (1..n) |-> h[t]]
    OBVIOUS
  <2> QED BY <2>2, <2>3
<1>9. fold = steps(fold)
  BY <1>8
<1> HIDE DEF fold
<1>10. fold[1..n] = h[1..n]
  <2>1. fold[{}] = h[{}]
    BY <1>8, <1>9
  <2>2. \A t \in SUBSET (1..n) : t # {} /\ fold[t \ {Max(t)}] = h[t \ {Max(t)}] => fold[t] = h[t]
    <3>1. \A t \in SUBSET (1..n) : t # {} => /\ fold[t] = fold[t \ {Max(t)}] + list[Max(t)].tokens
                                             /\ h[t] = h[t \ {Max(t)}] + list[Max(t)].tokens
      BY <1>8, <1>9
    <3> QED BY <3>1
  <2> QED BY <2>1, <2>2, OneWayThrough
<1> QED BY <1>5, <1>10

\* Where a list is split: the recent ones are those behind the older ones.
LEMMA OlderThenRecent ==
  ASSUME NEW list \in Seq(Observation)
  PROVE  \E n \in Nat, b \in Nat :
           /\ n = Len(list) /\ b <= n /\ DOMAIN list = 1..n /\ DOMAIN Older(list) = 1..b
           /\ b = 0 \/ b = n - KeepRecent
           /\ Recent(list) \in Seq(Observation) /\ Len(Recent(list)) = n - b
           /\ \A k \in 1..n - b : Recent(list)[k] = list[b + k]
<1>1. PICK n \in Nat : n = Len(list)
  BY LenProperties
<1>2. KeepRecent \in Nat
  BY ContextAssumption
<1>3. PICK b \in Nat : b = IF n <= KeepRecent THEN 0 ELSE n - KeepRecent
  <2>1. (IF n <= KeepRecent THEN 0 ELSE n - KeepRecent) \in Nat
    BY <1>2
  <2> QED BY <2>1
<1>4. b <= n /\ (b = 0 \/ b = n - KeepRecent)
  BY <1>2, <1>3
<1>5. DOMAIN list = 1..n /\ \A i \in 1..n : list[i] \in Observation
  BY <1>1, LenProperties, ElementOfSeq
<1>6. Recent(list) = SubSeq(list, b + 1, n)
  <2>1. (IF n <= KeepRecent THEN 1 ELSE n - KeepRecent + 1) = b + 1
    BY <1>2, <1>3
  <2> QED BY <1>1, <2>1 DEF Recent
<1>7. /\ Recent(list) \in Seq(Observation) /\ Len(Recent(list)) = n - b
      /\ \A k \in 1..n - b : Recent(list)[k] = list[b + k]
  <2>1. PICK from \in Int : from = b + 1
    OBVIOUS
  <2>2. \A i \in from..n : list[i] \in Observation
    BY <1>5, <2>1
  <2>3. /\ SubSeq(list, from, n) \in Seq(Observation)
        /\ Len(SubSeq(list, from, n)) = IF from <= n THEN n - from + 1 ELSE 0
        /\ \A k \in 1..n - from + 1 : SubSeq(list, from, n)[k] = list[from + k - 1]
    BY <2>2, SubSeqProperties
  <2>4. (IF from <= n THEN n - from + 1 ELSE 0) = n - b
    BY <1>4, <2>1
  <2>5. \A k \in 1..n - b : k \in 1..n - from + 1 /\ from + k - 1 = b + k
    BY <2>1
  <2> QED BY <1>6, <2>1, <2>3, <2>4, <2>5
<1>8. DOMAIN Older(list) = 1..b
  <2>1. PICK last \in Int : last = n - Len(Recent(list))
    BY <1>7
  <2>2. last = b
    BY <1>7, <2>1
  <2>3. Older(list) = SubSeq(list, 1, b)
    BY <1>1, <2>1, <2>2 DEF Older
  <2>4. \A i \in 1..b : list[i] \in Observation
    BY <1>4, <1>5
  <2>5. SubSeq(list, 1, b) \in Seq(Observation) /\ Len(SubSeq(list, 1, b)) = IF 1 <= b THEN b - 1 + 1 ELSE 0
    BY <2>4, SubSeqProperties
  <2>6. (IF 1 <= b THEN b - 1 + 1 ELSE 0) = b
    OBVIOUS
  <2> QED BY <2>3, <2>5, <2>6, LenProperties
<1> QED BY <1>1, <1>4, <1>5, <1>7, <1>8

Numbered(list, next) ==
  /\ list \in Seq(Observation)
  /\ \A i \in DOMAIN list : list[i].id < next /\ \A j \in DOMAIN list : i < j => list[i].id < list[j].id

\* What the split keeps and drops of a list.
SplitsFine(list, shown, dropped) ==
  /\ shown \in Seq(Observation) /\ dropped \in Seq(Observation)
  /\ Len(shown) + Len(dropped) = Len(list)
  /\ Ids(shown) \cup Ids(dropped) = Ids(list)
  /\ \A i, j \in DOMAIN shown : i < j => shown[i].id < shown[j].id
  /\ \A i \in DOMAIN list : MustKeep(list[i]) \/ i > Len(list) - KeepRecent => list[i].id \in Ids(shown)

LEMMA SplitLosesNothing ==
  ASSUME NEW list, NEW next \in Nat, Numbered(list, next)
  PROVE  SplitsFine(list, KeptOf(list), DroppedOf(list))
<1>0. list \in Seq(Observation)
  BY DEF Numbered
<1>1. PICK n \in Nat, b \in Nat :
        /\ n = Len(list) /\ b <= n /\ DOMAIN list = 1..n /\ DOMAIN Older(list) = 1..b
        /\ b = 0 \/ b = n - KeepRecent
        /\ Recent(list) \in Seq(Observation) /\ Len(Recent(list)) = n - b
        /\ \A i \in 1..n - b : Recent(list)[i] = list[b + i]
  BY <1>0, OlderThenRecent
<1> DEFINE keeps == {i \in 1..b : MustKeep(list[i])}
           drops == {i \in 1..b : ~MustKeep(list[i])}
<1>2. KeptOf(list) = ElementsAt(list, keeps) \o Recent(list) /\ DroppedOf(list) = ElementsAt(list, drops)
  BY <1>1, Zenon DEF KeptOf, DroppedOf
<1>3. /\ keeps \in SUBSET (1..Len(list)) /\ drops \in SUBSET (1..Len(list))
      /\ keeps \cup drops = 1..b /\ keeps \cap drops = {}
      /\ \A i \in 1..b : MustKeep(list[i]) => i \in keeps
  BY <1>1
<1> HIDE DEF keeps, drops
<1>4. PICK k, a : k = Cardinality(keeps) /\ a = ElementsAt(list, keeps)
  OBVIOUS
<1>5. PICK m, d : m = Cardinality(drops) /\ d = ElementsAt(list, drops)
  OBVIOUS
<1>6. /\ IsFiniteSet(keeps) /\ k \in Nat /\ a \in Seq(Observation) /\ Len(a) = k
      /\ \E old : InTurn(list, keeps, old)
  BY <1>0, <1>3, <1>4, ElementsInOrder
<1>7. /\ IsFiniteSet(drops) /\ m \in Nat /\ d \in Seq(Observation) /\ Len(d) = m
      /\ \E told : InTurn(list, drops, told)
  BY <1>0, <1>3, <1>5, ElementsInOrder
<1>8. k + m = b
  <2>0. PICK both, none : both = keeps \cup drops /\ none = keeps \cap drops
    OBVIOUS
  <2>1. Cardinality(both) = k + m - Cardinality(none)
    BY <1>4, <1>5, <1>6, <1>7, <2>0, FS_Union
  <2>2. Cardinality(1..b) = b /\ Cardinality({}) = 0
    BY SoManyNumbers, FS_EmptySet
  <2>3. both = 1..b /\ none = {}
    BY <1>3, <2>0
  <2>4. b = k + m - 0
    BY <2>1, <2>2, <2>3
  <2>5. k \in Nat /\ m \in Nat
    BY <1>6, <1>7
  <2> QED BY <2>4, <2>5
<1>a. PICK old, told : InTurn(list, keeps, old) /\ InTurn(list, drops, told)
  BY <1>6, <1>7
<1>9. /\ old \in [1..k -> keeps] /\ \A i \in 1..k : a[i] = list[old[i]]
      /\ \A i \in keeps : \E j \in 1..k : old[j] = i
      /\ \A i, j \in 1..k : i < j => old[i] < old[j]
  BY <1>4, <1>a DEF InTurn
<1>10. /\ told \in [1..m -> drops] /\ \A i \in 1..m : d[i] = list[told[i]]
       /\ \A i \in drops : \E j \in 1..m : told[j] = i
  BY <1>5, <1>a DEF InTurn
<1>11. PICK s : s = a \o Recent(list)
  OBVIOUS
<1>12. s \in Seq(Observation) /\ Len(s) = k + (n - b) /\ DOMAIN s = 1..k + (n - b)
  <2>0. a \in Seq(Observation) /\ Recent(list) \in Seq(Observation) /\ Len(a) = k /\ Len(Recent(list)) = n - b
    BY <1>1, <1>6
  <2>1. s \in Seq(Observation) /\ Len(s) = k + (n - b)
    BY <1>11, <2>0, ConcatProperties
  <2> QED BY <2>1, LenProperties
<1>13. \A i \in 1..k + (n - b) : s[i] = IF i <= k THEN a[i] ELSE Recent(list)[i - k]
  <2>0. a \in Seq(Observation) /\ Recent(list) \in Seq(Observation) /\ Len(a) = k /\ Len(Recent(list)) = n - b
    BY <1>1, <1>6
  <2> QED BY <1>11, <2>0, ConcatProperties
<1> DEFINE place(i) == IF i <= k THEN old[i] ELSE b + (i - k)
<1>14. \A i \in keeps : i \in 1..b
  BY <1>3
<1>15. \A i \in 1..k + (n - b) : s[i] = list[place(i)] /\ place(i) \in 1..n
  <2> SUFFICES ASSUME NEW i \in 1..k + (n - b) PROVE s[i] = list[place(i)] /\ place(i) \in 1..n
    OBVIOUS
  <2>1. CASE i <= k
    <3>1. i \in 1..k
      BY <1>6, <2>1
    <3>2. s[i] = list[old[i]] /\ old[i] \in 1..b
      BY <1>9, <1>13, <1>14, <2>1, <3>1
    <3> QED BY <1>1, <2>1, <3>2
  <2>2. CASE ~(i <= k)
    <3>1. i - k \in 1..n - b
      BY <1>1, <1>6, <2>2
    <3>2. s[i] = list[b + (i - k)]
      BY <1>1, <1>13, <2>2, <3>1
    <3> QED BY <1>1, <2>2, <3>1, <3>2
  <2> QED BY <2>1, <2>2
<1>16. \A i, j \in 1..k + (n - b) : i < j => place(i) < place(j)
  <2> SUFFICES ASSUME NEW i \in 1..k + (n - b), NEW j \in 1..k + (n - b), i < j PROVE place(i) < place(j)
    OBVIOUS
  <2>1. CASE j <= k
    <3>1. i \in 1..k /\ j \in 1..k /\ i <= k
      BY <1>1, <1>6, <2>1
    <3> QED BY <1>9, <2>1, <3>1
  <2>2. CASE ~(j <= k) /\ i <= k
    <3>1. i \in 1..k
      BY <1>6, <2>2
    <3>2. old[i] \in 1..b
      BY <1>9, <1>14, <3>1
    <3> QED BY <1>1, <1>6, <2>2, <3>2
  <2>3. CASE ~(i <= k)
    <3>1. ~(j <= k)
      BY <1>1, <1>6, <2>3
    <3> QED BY <1>1, <1>6, <2>3, <3>1
  <2> QED BY <2>1, <2>2, <2>3
<1>17. \A i \in keeps : \E j \in 1..k + (n - b) : place(j) = i
  <2> SUFFICES ASSUME NEW i \in keeps PROVE \E j \in 1..k + (n - b) : place(j) = i
    OBVIOUS
  <2>1. PICK j \in 1..k : old[j] = i
    BY <1>9
  <2>2. j \in 1..k + (n - b) /\ j <= k
    BY <1>1, <1>6
  <2> QED BY <2>1, <2>2
<1>18. \A i \in b + 1..n : \E j \in 1..k + (n - b) : place(j) = i
  <2> SUFFICES ASSUME NEW i \in b + 1..n PROVE \E j \in 1..k + (n - b) : place(j) = i
    OBVIOUS
  <2>0. k \in Nat
    BY <1>6
  <2>1. PICK j : j = k + (i - b)
    OBVIOUS
  <2>2. j \in 1..k + (n - b) /\ ~(j <= k) /\ b + (j - k) = i
    BY <2>0, <2>1
  <2> QED BY <2>2
<1> HIDE DEF place
<1>19. \A i, j \in DOMAIN s : i < j => s[i].id < s[j].id
  <2>1. \A i, j \in 1..n : i < j => list[i].id < list[j].id
    BY <1>1 DEF Numbered
  <2> QED BY <1>12, <1>15, <1>16, <2>1
<1>20. DOMAIN d = 1..m
  BY <1>7, LenProperties
<1>21. \A i \in keeps \cup (b + 1..n) : list[i].id \in Ids(s)
  <2> SUFFICES ASSUME NEW i \in keeps \cup (b + 1..n) PROVE list[i].id \in Ids(s)
    OBVIOUS
  <2>1. PICK j \in 1..k + (n - b) : place(j) = i
    BY <1>17, <1>18
  <2>2. s[j].id = list[i].id
    BY <1>15, <2>1
  <2> QED BY <1>12, <2>2 DEF Ids
<1>22. \A i \in drops : list[i].id \in Ids(d)
  <2> SUFFICES ASSUME NEW i \in drops PROVE list[i].id \in Ids(d)
    OBVIOUS
  <2>1. PICK j \in 1..m : told[j] = i
    BY <1>10
  <2>2. d[j].id = list[i].id
    BY <1>10, <2>1
  <2> QED BY <1>20, <2>2 DEF Ids
<1>23. Ids(s) \cup Ids(d) = Ids(list)
  <2>1. \A i \in 1..n : i \in keeps \cup (b + 1..n) \/ i \in drops
    <3>1. \A i \in 1..n : i \in 1..b \/ i \in b + 1..n
      BY <1>1
    <3> QED BY <1>3, <3>1
  <2>2. Ids(list) \subseteq Ids(s) \cup Ids(d)
    <3> SUFFICES ASSUME NEW x \in Ids(list) PROVE x \in Ids(s) \cup Ids(d)
      OBVIOUS
    <3>1. PICK i \in 1..n : x = list[i].id
      BY <1>1 DEF Ids
    <3> QED BY <1>21, <1>22, <2>1, <3>1
  <2>3. Ids(s) \subseteq Ids(list)
    <3> SUFFICES ASSUME NEW x \in Ids(s) PROVE x \in Ids(list)
      OBVIOUS
    <3>1. PICK i \in 1..k + (n - b) : x = s[i].id
      BY <1>12 DEF Ids
    <3> QED BY <1>1, <1>15, <3>1 DEF Ids
  <2>4. Ids(d) \subseteq Ids(list)
    <3> SUFFICES ASSUME NEW x \in Ids(d) PROVE x \in Ids(list)
      OBVIOUS
    <3>1. PICK i \in 1..m : x = d[i].id
      BY <1>20 DEF Ids
    <3>2. told[i] \in 1..n /\ d[i] = list[told[i]]
      BY <1>1, <1>3, <1>10
    <3> QED BY <1>1, <3>1, <3>2 DEF Ids
  <2> QED BY <2>2, <2>3, <2>4
<1>24. Len(s) + Len(d) = Len(list)
  <2>0. k \in Nat /\ m \in Nat
    BY <1>6, <1>7
  <2>1. k + (n - b) + m = n
    BY <1>8, <2>0
  <2>2. Len(s) = k + (n - b) /\ Len(d) = m /\ Len(list) = n
    BY <1>1, <1>7, <1>12
  <2> QED BY <2>1, <2>2
<1>25. \A i \in DOMAIN list : MustKeep(list[i]) \/ i > Len(list) - KeepRecent => list[i].id \in Ids(s)
  <2> SUFFICES ASSUME NEW i \in 1..n, MustKeep(list[i]) \/ i > n - KeepRecent PROVE list[i].id \in Ids(s)
    BY <1>1
  <2>1. CASE i <= b
    <3>1. i \in 1..b /\ (b = 0 \/ b = n - KeepRecent) /\ KeepRecent \in Nat
      BY <1>1, <2>1, ContextAssumption
    <3>2. ~(i > n - KeepRecent)
      BY <3>1
    <3> QED BY <1>3, <1>21, <3>1, <3>2
  <2>2. CASE ~(i <= b)
    <3>1. i \in b + 1..n
      BY <2>2
    <3> QED BY <1>21, <3>1
  <2> QED BY <2>1, <2>2
<1>26. KeptOf(list) = s /\ DroppedOf(list) = d
  BY <1>2, <1>4, <1>5, <1>11
<1> HIDE DEF keeps, drops
<1> QED BY <1>7, <1>12, <1>19, <1>23, <1>24, <1>25, <1>26 DEF SplitsFine

LEMMA IdsAreNumbers ==
  ASSUME NEW list \in Seq(Observation)
  PROVE  \A i \in DOMAIN list : list[i].id \in Int
<1>1. \A i \in DOMAIN list : list[i] \in Observation
  BY LenProperties, ElementOfSeq
<1>2. MaxObservations \in Nat
  BY ContextAssumption
<1> QED BY <1>1, <1>2 DEF Observation

ContextInv ==
  /\ ContextTypeOK
  /\ Numbered(observations, nextObservation) /\ Numbered(checkpointed, nextObservation)

LEMMA ContextStarts == ContextInit => ContextInv
<1> SUFFICES ASSUME ContextInit PROVE ContextInv
  OBVIOUS
<1>1. << >> \in Seq(Observation) /\ DOMAIN << >> = {} /\ MaxObservations \in Nat
  BY ContextAssumption
<1>2. 1 \in 1..(MaxObservations + 1)
  BY <1>1
<1> QED BY <1>1, <1>2 DEF ContextInit, ContextInv, ContextTypeOK, Numbered

LEMMA ContextSteps ==
  ASSUME ContextInv, ContextNext
  PROVE  ContextInv'
<1>0. MaxObservations \in Nat /\ nextObservation \in 1..(MaxObservations + 1)
  BY ContextAssumption DEF ContextInv, ContextTypeOK
<1>1. CASE Observe
  <2>1. PICK o \in [id : {nextObservation}, source : ObservationSource, tokens : {1, 3}] :
          observations' = Append(observations, o)
    BY <1>1 DEF Observe
  <2>2. /\ nextObservation <= MaxObservations /\ nextObservation' = nextObservation + 1
        /\ base' = base /\ checkpointed' = checkpointed
    BY <1>1 DEF Observe
  <2>3. o \in Observation /\ o.id = nextObservation
    BY <1>0, <2>2 DEF Observation
  <2>4. nextObservation' \in 1..(MaxObservations + 1)
    BY <1>0, <2>2
  <2>5. \A list : Numbered(list, nextObservation) => Numbered(list, nextObservation + 1)
    <3> SUFFICES ASSUME NEW list, Numbered(list, nextObservation) PROVE Numbered(list, nextObservation + 1)
      OBVIOUS
    <3>1. \A i \in DOMAIN list : list[i].id \in Int /\ list[i].id < nextObservation
      BY IdsAreNumbers DEF Numbered
    <3>2. \A i \in DOMAIN list : list[i].id < nextObservation + 1
      BY <1>0, <3>1
    <3> QED BY <3>2 DEF Numbered
  <2>6. Numbered(observations', nextObservation + 1)
    <3>1. PICK n \in Nat : n = Len(observations) /\ DOMAIN observations = 1..n /\ observations \in Seq(Observation)
      BY LenProperties DEF ContextInv, Numbered
    <3>2. PICK more : more = Append(observations, o)
      OBVIOUS
    <3>3. /\ more \in Seq(Observation) /\ DOMAIN more = 1..n + 1 /\ more[n + 1] = o
          /\ \A i \in 1..n : more[i] = observations[i]
      BY <2>3, <3>1, <3>2, OneMore
    <3>4. \A i \in 1..n : observations[i].id \in Int /\ observations[i].id < nextObservation
      BY <3>1, IdsAreNumbers DEF ContextInv, Numbered
    <3>5. \A i \in 1..n + 1 : i \in 1..n \/ i = n + 1
      OBVIOUS
    <3>6. \A i \in 1..n + 1 : more[i].id < nextObservation + 1
      BY <1>0, <2>3, <3>3, <3>4, <3>5
    <3>7. \A i, j \in 1..n + 1 : i < j => more[i].id < more[j].id
      <4> SUFFICES ASSUME NEW i \in 1..n + 1, NEW j \in 1..n + 1, i < j PROVE more[i].id < more[j].id
        OBVIOUS
      <4>1. i \in 1..n
        OBVIOUS
      <4>2. CASE j \in 1..n
        <5>1. observations[i].id < observations[j].id
          BY <3>1, <4>1, <4>2 DEF ContextInv, Numbered
        <5> QED BY <3>3, <4>1, <4>2, <5>1
      <4>3. CASE j = n + 1
        BY <2>3, <3>3, <3>4, <4>1, <4>3
      <4> QED BY <4>2, <4>3, <3>5
    <3>8. more = observations'
      BY <2>1, <3>2
    <3> HIDE DEF ContextInv
    <3> QED BY <3>3, <3>6, <3>7, <3>8 DEF Numbered
  <2> QED BY <2>2, <2>4, <2>5, <2>6 DEF ContextInv, ContextTypeOK, Numbered
<1>2. CASE KeepObservations
  BY <1>2 DEF KeepObservations, ContextInv, ContextTypeOK
<1>3. CASE RestoreObservations
  BY <1>3 DEF RestoreObservations, ContextInv, ContextTypeOK
<1> QED BY <1>1, <1>2, <1>3 DEF ContextNext

\* Trimmed messages are the same ones.
LEMMA TrimmedAreTheSame ==
  ASSUME NEW list \in Seq(Observation)
  PROVE  /\ Len(Trimmed(list)) = Len(list) /\ Ids(Trimmed(list)) = Ids(list) /\ DOMAIN Trimmed(list) = DOMAIN list
         /\ \A i \in DOMAIN list : Trimmed(list)[i].id = list[i].id
<1>1. PICK n \in Nat : n = Len(list) /\ DOMAIN list = 1..n
  BY LenProperties
<1>2. PICK less : less = Trimmed(list)
  OBVIOUS
<1>3. \A i \in 1..n : list[i] \in Observation
  BY <1>1, ElementOfSeq
<1>4. DOMAIN less = 1..n /\ \A i \in 1..n : less[i] = [list[i] EXCEPT !.tokens = 1]
  BY <1>1, <1>2 DEF Trimmed
<1>5. \A i \in 1..n : less[i] \in Observation /\ less[i].id = list[i].id
  BY <1>3, <1>4 DEF Observation
<1>6. less \in [1..n -> Observation]
  BY <1>1, <1>2, <1>4, <1>5 DEF Trimmed
<1>7. less \in Seq(Observation)
  BY <1>6, SeqDef
<1>8. Len(less) = n
  <2>1. Len(less) \in Nat /\ 1..Len(less) = 1..n
    BY <1>4, <1>7, LenProperties
  <2>2. \A i, j \in Nat : 1..i = 1..j => i = j
    OBVIOUS
  <2> QED BY <2>1, <2>2
<1>9. Ids(less) = Ids(list)
  BY <1>1, <1>4, <1>5 DEF Ids
<1> QED BY <1>1, <1>2, <1>4, <1>5, <1>8, <1>9

LEMMA PromptIsWhole ==
  ASSUME ContextInv
  PROVE  ContextLosesNothing
<1>1. PICK list : list = observations
  OBVIOUS
<1>2. nextObservation \in Nat /\ Numbered(list, nextObservation) /\ list \in Seq(Observation)
  BY <1>1, ContextAssumption DEF ContextInv, ContextTypeOK, Numbered
<1>3. PICK shown, told : shown = KeptOf(list) /\ told = DroppedOf(list)
  OBVIOUS
<1>4. SplitsFine(list, shown, told)
  BY <1>2, <1>3, SplitLosesNothing
<1>5. \A i, j \in DOMAIN list : i < j => list[i].id < list[j].id
  BY <1>2 DEF Numbered
<1>6. Ids(<< >>) = {} /\ Len(<< >>) = 0 /\ Len(list) \in Nat /\ Len(shown) \in Nat /\ Len(told) \in Nat
  BY <1>2, <1>4, LenProperties DEF SplitsFine, Ids
<1> DEFINE TellsAll(built) ==
       /\ Ids(built.shown) \cup Ids(built.summary) = Ids(list)
       /\ Len(built.shown) + Len(built.summary) = Len(list)
       /\ \A i, j \in DOMAIN built.shown : i < j => built.shown[i].id < built.shown[j].id
       /\ \A i \in DOMAIN list :
            list[i].source \in {"verification", "recovery"} \/ i > Len(list) - KeepRecent =>
              list[i].id \in Ids(built.shown)
<1>7. Plain.shown = list /\ Plain.summary = << >> /\ Plain.tokens = base + Tokens(list)
  BY <1>1 DEF Plain
<1>8. Compressed.shown = shown /\ Compressed.summary = told
  BY <1>1, <1>3 DEF Compressed
<1>9. HardTrimmed.shown = Trimmed(shown) /\ HardTrimmed.summary = told /\ HardTrimmed.told = Cut(told)
  BY <1>1, <1>3 DEF HardTrimmed
<1>10. TellsAll(Plain)
  <2>1. \A i \in DOMAIN list : list[i].id \in Ids(list)
    BY DEF Ids
  <2> QED BY <1>5, <1>6, <1>7, <2>1
<1>11. TellsAll(Compressed)
  BY <1>4, <1>8 DEF SplitsFine, MustKeep
<1>12. TellsAll(HardTrimmed)
  <2>1. shown \in Seq(Observation)
    BY <1>4 DEF SplitsFine
  <2>2. PICK less : less = Trimmed(shown)
    OBVIOUS
  <2>3. /\ Len(less) = Len(shown) /\ Ids(less) = Ids(shown) /\ DOMAIN less = DOMAIN shown
        /\ \A i \in DOMAIN shown : less[i].id = shown[i].id
    BY <2>1, <2>2, TrimmedAreTheSame
  <2>4. HardTrimmed.shown = less
    BY <1>9, <2>2
  <2> QED BY <1>4, <1>9, <2>3, <2>4 DEF SplitsFine, MustKeep
<1>13. Plain.tokens \in Int /\ CompressAt \in Int
  <2>1. Tokens(list) \in Nat
    BY <1>2, TokensAreNumbers
  <2>2. base \in Nat /\ CompressAt \in Nat
    BY ContextAssumption DEF ContextInv, ContextTypeOK
  <2> QED BY <1>7, <2>1, <2>2
<1>14. /\ Build = Plain \/ Build = Compressed \/ Build = HardTrimmed
       /\ Build # Plain => ~(Plain.tokens <= CompressAt)
       /\ Build = Plain \/ Build = Compressed \/ ~(Compressed.tokens <= MaxInputTokens)
  BY DEF Build
<1>15. Build.summary # << >> => Plain.tokens > CompressAt
  BY <1>7, <1>13, <1>14
<1>16. ASSUME Build.told # Build.summary
       PROVE  /\ Compressed.tokens > MaxInputTokens
              /\ Len(Build.summary) > SummaryLines /\ Len(Build.told) = SummaryLines
              /\ \A i \in DOMAIN Build.told : Build.told[i] = Build.summary[i]
  <2>1. Plain.told = Plain.summary /\ Compressed.told = Compressed.summary
    BY DEF Plain, Compressed
  <2>2. Build = HardTrimmed /\ ~(Compressed.tokens <= MaxInputTokens)
    BY <1>14, <1>16, <2>1
  <2>3. Compressed.tokens \in Int /\ MaxInputTokens \in Int /\ SummaryLines \in Nat
    <3>1. Compressed.tokens = base + Tokens(shown) + Len(told)
      BY <1>1, <1>3 DEF Compressed
    <3>2. Tokens(shown) \in Int
      BY <1>4, TokensAreNumbers DEF SplitsFine
    <3> QED BY <1>6, <3>1, <3>2, ContextAssumption DEF ContextInv, ContextTypeOK
  <2>4. Build.told = Cut(told) /\ Build.summary = told /\ Cut(told) # told
    BY <1>9, <1>16, <2>2
  <2>5. Len(told) > SummaryLines /\ Cut(told) = SubSeq(told, 1, SummaryLines)
    BY <1>6, <2>3, <2>4 DEF Cut
  <2>6. told \in Seq(Observation)
    BY <1>4 DEF SplitsFine
  <2>7. /\ Len(SubSeq(told, 1, SummaryLines)) = SummaryLines
        /\ \A i \in DOMAIN SubSeq(told, 1, SummaryLines) : SubSeq(told, 1, SummaryLines)[i] = told[i]
    BY <1>6, <2>3, <2>5, <2>6
  <2> QED BY <2>2, <2>3, <2>4, <2>5, <2>7
<1> QED BY <1>1, <1>10, <1>11, <1>12, <1>14, <1>15, <1>16 DEF ContextLosesNothing

-----------------------------------------------------------------------------
(* What is recalled.  An answer is the first of those that would do, by rank,  *)
(* so it leaves one out only where it has as many as were asked for; and then  *)
(* the broader scopes are asked for none.                                      *)

LEMMA MemoryStarts == MemoryInit => MemoryTypeOK
<1> SUFFICES ASSUME MemoryInit PROVE MemoryTypeOK
  OBVIOUS
<1>1. << >> \in Seq(Entry) /\ Len(<< >>) = 0 /\ 0 <= MaxEntries
  BY MemoryAssumption
<1>2. NoEntry \in Entry
  BY DEF NoEntry, Entry, MemoryScope, Words
<1> QED BY <1>1, <1>2 DEF MemoryInit, MemoryTypeOK

\* Entries that go leave the others as they were.
LEMMA OthersStay ==
  ASSUME MemoryTypeOK, NEW gone
  PROVE  Without(gone) \in Seq(Entry) /\ Len(Without(gone)) <= MaxEntries
<1>1. memory \in Seq(Entry) /\ Len(memory) <= MaxEntries /\ MaxEntries \in Nat /\ Len(memory) \in Nat
      /\ DOMAIN memory = 1..Len(memory)
  BY MemoryAssumption, LenProperties DEF MemoryTypeOK
<1>2. PICK left : left = DOMAIN memory \ gone
  OBVIOUS
<1>3. left \in SUBSET (1..Len(memory))
  BY <1>1, <1>2
<1>4. /\ Cardinality(left) \in Nat /\ Cardinality(left) <= Len(memory)
      /\ ElementsAt(memory, left) \in Seq(Entry) /\ Len(ElementsAt(memory, left)) = Cardinality(left)
  BY <1>1, <1>3, ElementsInOrder
<1> QED BY <1>1, <1>2, <1>4 DEF Without

LEMMA MemorySteps ==
  ASSUME MemoryTypeOK, MemoryNext
  PROVE  MemoryTypeOK'
<1>0. /\ memory \in Seq(Entry) /\ Len(memory) <= MaxEntries /\ MaxEntries \in Nat /\ Len(memory) \in Nat
      /\ DOMAIN memory = 1..Len(memory) /\ remembering \in [Rememberer -> Entry]
      /\ memoryDriver \in {"embedded", "postgres"}
  BY MemoryAssumption, LenProperties DEF MemoryTypeOK
<1>a. NoEntry \in Entry
  BY DEF NoEntry, Entry, MemoryScope, Words
<1>1. ASSUME NEW r \in Rememberer, BeginRemember(r) PROVE MemoryTypeOK'
  <2>1. PICK entry \in [scope : MemoryScopes, words : MemoryWords, life : MemoryLives] :
          remembering' = [remembering EXCEPT ![r] =
            IF \E i \in SearchMemory(entry.scope, FALSE, RecentWindow) : memory[i].words = entry.words
            THEN NoEntry ELSE entry]
    BY <1>1 DEF BeginRemember
  <2>2. entry \in Entry
    BY MemoryAssumption DEF Entry
  <2>3. PICK e \in Entry : remembering' = [remembering EXCEPT ![r] = e]
    BY <1>a, <2>1, <2>2
  <2> QED BY <1>0, <1>1, <2>3 DEF BeginRemember, MemoryTypeOK
<1>2. ASSUME NEW r \in Rememberer, WriteMemory(r) PROVE MemoryTypeOK'
  <2>1. PICK e \in Entry : e = remembering[r]
    BY <1>0
  <2>2. /\ memory' = Append(memory, e) /\ Len(memory) < MaxEntries
        /\ remembering' = [remembering EXCEPT ![r] = NoEntry] /\ memoryDriver' = memoryDriver
    BY <1>2, <2>1 DEF WriteMemory
  <2>3. memory' \in Seq(Entry) /\ Len(memory') = Len(memory) + 1
    BY <1>0, <2>2, OneMore
  <2> QED BY <1>0, <1>a, <2>2, <2>3 DEF MemoryTypeOK
<1>3. ASSUME NEW i \in DOMAIN memory, OutliveEntry(i) PROVE MemoryTypeOK'
  <2>1. PICK e : e = [memory[i] EXCEPT !.life = "over"]
    OBVIOUS
  <2>2. memory[i] \in Entry
    BY <1>0, ElementOfSeq
  <2>3. e \in Entry
    BY <2>1, <2>2 DEF Entry
  <2>4. memory' = [memory EXCEPT ![i] = e] /\ UNCHANGED <<memoryDriver, remembering>>
    BY <1>3, <2>1 DEF OutliveEntry
  <2>5. memory' \in Seq(Entry) /\ Len(memory') = Len(memory)
    BY <1>0, <2>3, <2>4, ExceptSeq
  <2> QED BY <1>0, <2>4, <2>5 DEF MemoryTypeOK
<1>4. ASSUME NEW gone, memory' = Without(gone), UNCHANGED <<memoryDriver, remembering>> PROVE MemoryTypeOK'
  BY <1>0, <1>4, OthersStay DEF MemoryTypeOK
<1>5. ASSUME NEW i \in DOMAIN memory, ForgetMemory(i) PROVE MemoryTypeOK'
  BY <1>4, <1>5, Zenon DEF ForgetMemory
<1>6. ASSUME NEW scope, ClearScope(scope) PROVE MemoryTypeOK'
  BY <1>4, <1>6, Zenon DEF ClearScope
<1>7. CASE PruneMemory
  BY <1>4, <1>7, Zenon DEF PruneMemory
<1> QED BY <1>1, <1>2, <1>3, <1>5, <1>6, <1>7, MemoryNext DEF MemoryNext

\* A search answers with no more than it was asked for, and with fewer only when
\* there are no others.
LEMMA SearchTakesTheFirst ==
  ASSUME MemoryTypeOK, NEW query, NEW text \in BOOLEAN, NEW limit \in Nat
  PROVE  /\ SearchMemory(query, text, limit) \subseteq Candidates(query, text)
         /\ IsFiniteSet(SearchMemory(query, text, limit)) /\ Cardinality(SearchMemory(query, text, limit)) \in Nat
         /\ Cardinality(SearchMemory(query, text, limit)) <= limit
         /\ \/ Candidates(query, text) \subseteq SearchMemory(query, text, limit)
            \/ Cardinality(SearchMemory(query, text, limit)) = limit
<1>1. Len(memory) \in Nat /\ DOMAIN memory = 1..Len(memory)
  BY LenProperties DEF MemoryTypeOK
<1>2. PICK some : some = Candidates(query, text)
  OBVIOUS
<1>3. IsFiniteSet(some) /\ some \subseteq Nat
  <2>1. some \subseteq 1..Len(memory)
    BY <1>1, <1>2 DEF Candidates
  <2>2. IsFiniteSet(1..Len(memory)) /\ 1..Len(memory) \subseteq Nat
    BY <1>1, SoManyNumbers
  <2> QED BY <2>1, <2>2, FS_Subset
<1> DEFINE rel == {p \in some \X some : ComesFirst(p[1], p[2], text)}
           rank(i) == RankIn(some, rel, i)
           taken == SearchMemory(query, text, limit)
<1>4. \A i, j \in some : <<i, j>> \in rel <=> ComesFirst(i, j, text)
  OBVIOUS
<1> HIDE DEF rel
<1>5. \A i : WordRank(i) \in {0, 1, 2}
  BY DEF WordRank
<1>6. /\ \A i \in some : ~ComesFirst(i, i, text)
      /\ \A i, j, k \in some : ComesFirst(i, j, text) /\ ComesFirst(j, k, text) => ComesFirst(i, k, text)
      /\ \A i, j \in some : i # j => ComesFirst(i, j, text) \/ ComesFirst(j, i, text)
  <2>1. PICK words : words = [i \in some |-> WordRank(i)]
    OBVIOUS
  <2>2. \A i \in some : words[i] \in {0, 1, 2} /\ i \in Nat
    BY <1>3, <1>5, <2>1
  <2>3. \A i, j \in some : ComesFirst(i, j, text) <=>
          IF text /\ memoryDriver = "embedded" /\ words[i] # words[j] THEN words[i] > words[j] ELSE i > j
    BY <2>1 DEF ComesFirst
  <2> QED BY <2>2, <2>3
<1>7. /\ Cardinality(some) \in Nat
      /\ \A i \in some : rank(i) \in 0..Cardinality(some) - 1
      /\ \A i, k \in some : rank(i) = rank(k) => i = k
      /\ \A n \in 0..Cardinality(some) - 1 : \E i \in some : rank(i) = n
  <2>1. /\ \A i \in some : <<i, i>> \notin rel
        /\ \A i, j, k \in some : <<i, j>> \in rel /\ <<j, k>> \in rel => <<i, k>> \in rel
        /\ \A i, j \in some : i # j => <<i, j>> \in rel \/ <<j, i>> \in rel
    <3> HIDE DEF ComesFirst
    <3> QED BY <1>4, <1>6
  <2>2. IsFiniteSet(some)
    BY <1>3
  <2>3. Ranked(some, rel)
    BY <2>1, <2>2, RanksAreTaken
  <2> QED BY <2>3 DEF Ranked
<1>8. taken = {i \in some : rank(i) < limit}
  <2>1. \A i \in some : {j \in some : ComesFirst(j, i, text)} = {j \in some : <<j, i>> \in rel}
    BY <1>4
  <2>2. taken = {i \in some : Cardinality({j \in some : ComesFirst(j, i, text)}) < limit}
    BY <1>2 DEF SearchMemory
  <2>3. \A i \in some : Cardinality({j \in some : ComesFirst(j, i, text)}) = rank(i)
    BY <2>1 DEF RankIn
  <2> HIDE DEF rank, taken
  <2> QED BY <2>2, <2>3
<1> HIDE DEF rank, taken
<1> DEFINE place == [i \in taken |-> rank(i)]
<1>9. IsFiniteSet(taken) /\ Cardinality(taken) \in Nat /\ taken \subseteq some
  BY <1>3, <1>8, FS_Subset, FS_CardinalityType
<1>10. place \in Injection(taken, 0..limit - 1)
  <2>1. \A i \in taken : rank(i) \in 0..limit - 1
    BY <1>7, <1>8
  <2>2. \A i, k \in taken : rank(i) = rank(k) => i = k
    BY <1>7, <1>8
  <2> QED BY <2>1, <2>2 DEF Injection, IsInjective
<1>11. IsFiniteSet(0..limit - 1) /\ Cardinality(0..limit - 1) = limit
  BY SoManyNumbers
<1>12. Cardinality(taken) <= limit
  <2> HIDE DEF place
  <2> QED BY <1>10, <1>11, FS_Injection
<1>13. ASSUME ~(some \subseteq taken) PROVE Cardinality(taken) = limit
  <2>1. PICK c \in some : c \notin taken
    BY <1>13
  <2>2. rank(c) \in 0..Cardinality(some) - 1 /\ ~(rank(c) < limit)
    BY <1>7, <1>8, <2>1
  <2>3. \A n \in 0..limit - 1 : n \in 0..Cardinality(some) - 1 /\ n < limit
    BY <1>7, <2>2
  <2>4. \A n \in 0..limit - 1 : \E i \in taken : rank(i) = n
    BY <1>7, <1>8, <2>3
  <2>5. place \in Surjection(taken, 0..limit - 1)
    <3>1. place \in [taken -> 0..limit - 1]
      BY <1>10 DEF Injection
    <3>2. \A n \in 0..limit - 1 : \E i \in taken : place[i] = n
      BY <2>4
    <3> HIDE DEF place
    <3> QED BY <3>1, <3>2 DEF Surjection
  <2> HIDE DEF place
  <2> QED BY <1>10, <1>11, <2>5, FS_Injection
<1> QED BY <1>2, <1>9, <1>12, <1>13 DEF taken

\* recallScoped, scope by scope.
Asks(found, scope) == found \cup SearchMemory(scope, TRUE, RecallLimit - Cardinality(found))

LEMMA RecalledInTurn ==
  ASSUME MemoryTypeOK
  PROVE  Recalled = Asks(Asks(Asks({}, "run"), "project"), "organization")
<1> DEFINE All == SUBSET (DOMAIN memory)
           step == [p \in All \X (1..3) |-> Asks(p[1], ScopeChain[p[2]])]
           steps(it) == [t \in SUBSET (1..3) |-> IF t = {} THEN {} ELSE Asks(it[t \ {Max(t)}], ScopeChain[Max(t)])]
           fold == CHOOSE it : it = steps(it)
<1>1. DOMAIN ScopeChain = 1..3 /\ ScopeChain[1] = "run" /\ ScopeChain[2] = "project" /\ ScopeChain[3] = "organization"
  BY DEF ScopeChain
<1>2. \A some \in All : \A scope : Asks(some, scope) \in All
  <2>1. \A scope, limit : SearchMemory(scope, TRUE, limit) \subseteq DOMAIN memory
    BY DEF SearchMemory, Candidates
  <2> QED BY <2>1 DEF Asks
<1>3. step \in [All \X (1..3) -> All]
  <2>1. \A p \in All \X (1..3) : Asks(p[1], ScopeChain[p[2]]) \in All
    BY <1>2
  <2> HIDE DEF All
  <2> QED BY <2>1
<1>4. {} \in All
  OBVIOUS
<1>5. Recalled = fold[1..3]
  BY <1>1, Zenon DEF Recalled, FoldLeft, MapThenFoldSet, Asks
<1>6. \A p \in All, i \in 1..3 : step[<<p, i>>] = Asks(p, ScopeChain[i])
  OBVIOUS
<1> HIDE DEF step, All
<1>a. PICK h \in [SUBSET (1..3) -> All], f \in [0..3 -> All] : GoesThrough(h, f, 3, {}, step)
  BY <1>3, <1>4, StepByStep
<1>7. /\ \A t \in SUBSET (1..3) : h[t] = IF t = {} THEN {} ELSE step[<<h[t \ {Max(t)}], Max(t)>>]
      /\ f[0] = {} /\ f[3] = h[1..3]
      /\ \A i \in 1..3 : f[i] = step[<<f[i - 1], i>>]
  BY <1>a DEF GoesThrough
<1>8. h = steps(h)
  <2>1. ASSUME NEW t \in SUBSET (1..3), t # {}
        PROVE  h[t] = Asks(h[t \ {Max(t)}], ScopeChain[Max(t)])
    <3>1. Max(t) \in 1..3 /\ t \ {Max(t)} \in SUBSET (1..3)
      BY <2>1, GreatestOf
    <3>2. h[t] = step[<<h[t \ {Max(t)}], Max(t)>>] /\ h[t \ {Max(t)}] \in All
      BY <1>7, <2>1, <3>1
    <3> QED BY <1>6, <3>1, <3>2
  <2>2. \A t \in SUBSET (1..3) : h[t] = steps(h)[t]
    BY <1>7, <2>1
  <2>3. h = [t \in SUBSET (1..3) |-> h[t]]
    OBVIOUS
  <2> QED BY <2>2, <2>3
<1>9. fold = steps(fold)
  BY <1>8
<1> HIDE DEF fold
<1>10. fold[1..3] = h[1..3]
  <2>1. fold[{}] = h[{}]
    BY <1>8, <1>9
  <2>2. \A t \in SUBSET (1..3) : t # {} /\ fold[t \ {Max(t)}] = h[t \ {Max(t)}] => fold[t] = h[t]
    <3>1. \A t \in SUBSET (1..3) : t # {} => /\ fold[t] = Asks(fold[t \ {Max(t)}], ScopeChain[Max(t)])
                                             /\ h[t] = Asks(h[t \ {Max(t)}], ScopeChain[Max(t)])
      BY <1>8, <1>9
    <3> QED BY <3>1
  <2> QED BY <2>1, <2>2, OneWayThrough
<1>11. f[1] = Asks(f[0], "run") /\ f[2] = Asks(f[1], "project") /\ f[3] = Asks(f[2], "organization")
  <2>1. 1 \in 1..3 /\ 2 \in 1..3 /\ 3 \in 1..3 /\ 1 - 1 = 0 /\ 2 - 1 = 1 /\ 3 - 1 = 2
    OBVIOUS
  <2>2. f[0] \in All /\ f[1] \in All /\ f[2] \in All
    OBVIOUS
  <2>3. f[1] = step[<<f[0], 1>>] /\ f[2] = step[<<f[1], 2>>] /\ f[3] = step[<<f[2], 3>>]
    BY <1>7, <2>1
  <2>4. /\ step[<<f[0], 1>>] = Asks(f[0], ScopeChain[1])
        /\ step[<<f[1], 2>>] = Asks(f[1], ScopeChain[2])
        /\ step[<<f[2], 3>>] = Asks(f[2], ScopeChain[3])
    BY <1>6, <2>1, <2>2
  <2> QED BY <1>1, <2>3, <2>4
<1> QED BY <1>5, <1>7, <1>10, <1>11

\* What a scope adds: within the limit, and nothing once it is reached.
LEMMA AskingAdds ==
  ASSUME MemoryTypeOK, NEW found, IsFiniteSet(found), Cardinality(found) <= RecallLimit, NEW scope
  PROVE  /\ IsFiniteSet(Asks(found, scope)) /\ Cardinality(Asks(found, scope)) \in Nat
         /\ Cardinality(Asks(found, scope)) <= RecallLimit
         /\ found \subseteq Asks(found, scope) /\ Asks(found, scope) \subseteq found \cup Candidates(scope, TRUE)
         /\ Cardinality(found) = RecallLimit => Asks(found, scope) = found
<1>1. RecallLimit \in Nat /\ Cardinality(found) \in Nat
  BY MemoryAssumption, FS_CardinalityType
<1>2. PICK limit \in Nat : limit = RecallLimit - Cardinality(found)
  BY <1>1
<1>3. PICK more : more = SearchMemory(scope, TRUE, limit)
  OBVIOUS
<1>4. more \subseteq Candidates(scope, TRUE) /\ IsFiniteSet(more) /\ Cardinality(more) \in Nat /\ Cardinality(more) <= limit
  BY <1>3, SearchTakesTheFirst
<1>5. Asks(found, scope) = found \cup more
  BY <1>2, <1>3 DEF Asks
<1>6. /\ IsFiniteSet(found \cup more) /\ Cardinality(found \cup more) \in Nat
      /\ Cardinality(found \cup more) <= Cardinality(found) + Cardinality(more)
  <2>1. /\ IsFiniteSet(found \cup more) /\ IsFiniteSet(found \cap more)
        /\ Cardinality(found \cup more) = Cardinality(found) + Cardinality(more) - Cardinality(found \cap more)
    BY <1>4, FS_Union, FS_Intersection
  <2>2. Cardinality(found \cap more) \in Nat /\ Cardinality(found \cup more) \in Nat
    BY <2>1, FS_CardinalityType
  <2> QED BY <1>1, <1>4, <2>1, <2>2
<1>7. Cardinality(found \cup more) <= RecallLimit
  BY <1>1, <1>2, <1>4, <1>6
<1>8. Cardinality(found) = RecallLimit => more = {}
  <2>1. Cardinality(found) = RecallLimit => Cardinality(more) = 0
    BY <1>1, <1>2, <1>4
  <2> QED BY <1>4, <2>1, FS_EmptySet
<1> QED BY <1>4, <1>5, <1>6, <1>7, <1>8

LEMMA RecallIsGood ==
  ASSUME MemoryTypeOK
  PROVE  RecallIsSound
<1>1. RecallLimit \in Nat
  BY MemoryAssumption
<1>2. IsFiniteSet({}) /\ Cardinality({}) = 0
  BY FS_EmptySet
<1>3. PICK own, near, all : own = Asks({}, "run") /\ near = Asks(own, "project") /\ all = Asks(near, "organization")
  OBVIOUS
<1>4. Recalled = all
  BY <1>3, RecalledInTurn
<1>5. /\ IsFiniteSet(own) /\ Cardinality(own) \in Nat /\ Cardinality(own) <= RecallLimit
      /\ own \subseteq Candidates("run", TRUE)
  <2>1. /\ IsFiniteSet(own) /\ Cardinality(own) \in Nat /\ Cardinality(own) <= RecallLimit
        /\ own \subseteq {} \cup Candidates("run", TRUE)
    <3>1. Cardinality({}) <= RecallLimit
      BY <1>1, <1>2
    <3> QED BY <1>2, <1>3, <3>1, AskingAdds
  <2> QED BY <2>1
<1>6. /\ IsFiniteSet(near) /\ Cardinality(near) \in Nat /\ Cardinality(near) <= RecallLimit
      /\ own \subseteq near /\ near \subseteq own \cup Candidates("project", TRUE)
      /\ Cardinality(own) = RecallLimit => near = own
  BY <1>3, <1>5, AskingAdds
<1>7. /\ Cardinality(all) <= RecallLimit
      /\ near \subseteq all /\ all \subseteq near \cup Candidates("organization", TRUE)
      /\ Cardinality(near) = RecallLimit => all = near
  BY <1>3, <1>6, AskingAdds
<1>8. Candidates("run", TRUE) \subseteq own \/ Cardinality(own) = RecallLimit
  <2>1. own = SearchMemory("run", TRUE, RecallLimit)
    <3>1. RecallLimit - Cardinality({}) = RecallLimit
      BY <1>1, <1>2
    <3> QED BY <1>3, <3>1 DEF Asks
  <2> QED BY <1>1, <2>1, SearchTakesTheFirst
<1>9. \A i \in all : Live(i) /\ memory[i].scope # "another tenant"
  <2>1. \A query \in {"run", "project", "organization"} : \A i \in Candidates(query, TRUE) :
          Live(i) /\ memory[i].scope # "another tenant"
    BY DEF Candidates, ScopeMatches, MemoryScope
  <2>2. \A i \in all : i \in Candidates("run", TRUE) \/ i \in Candidates("project", TRUE) \/ i \in Candidates("organization", TRUE)
    BY <1>5, <1>6, <1>7
  <2> QED BY <2>1, <2>2
<1>10. (\E i \in all : memory[i].scope # "run") => Candidates("run", TRUE) \subseteq all
  <2>1. CASE Candidates("run", TRUE) \subseteq own
    BY <1>6, <1>7, <2>1
  <2>2. CASE Cardinality(own) = RecallLimit
    <3>1. all = own
      BY <1>6, <1>7, <2>2
    <3>2. \A i \in Candidates("run", TRUE) : memory[i].scope = "run"
      BY DEF Candidates, ScopeMatches
    <3> QED BY <1>5, <3>1, <3>2
  <2> QED BY <1>8, <2>1, <2>2
<1> QED BY <1>4, <1>7, <1>9, <1>10 DEF RecallIsSound

\* What a model is shown is the run's own (context manager.ts build, memory manager.ts
\* recallScoped): every observation is shown or summarised once and in order, the latest
\* and those of verification and recovery in their own words, and the summary is cut
\* only when it is longer than a trimmed message and the prompt too long with it; of memories no more than the limit,
\* live and of this tenant, and none of a broader scope while one of the run's is left
\* out: for any number of observations, entries and callers, and any limits.
THEOREM PromptStays == RecordsSpec => []PromptIsTheRunsOwn
<1> DEFINE Inv == ContextInv /\ MemoryTypeOK
<1>1. RecordsInit => Inv
  BY ContextStarts, MemoryStarts DEF RecordsInit
<1>2. Inv /\ [RecordsNext]_recordsVars => Inv'
  <2> SUFFICES ASSUME Inv, [RecordsNext]_recordsVars PROVE Inv'
    OBVIOUS
  <2>1. (ContextNext \/ UNCHANGED ContextVars) /\ (MemoryNext \/ UNCHANGED MemoryVars)
    BY PartsRest
  <2>2. ASSUME UNCHANGED ContextVars PROVE ContextInv'
    <3>1. /\ base' = base /\ observations' = observations /\ checkpointed' = checkpointed
          /\ nextObservation' = nextObservation
      BY <2>2 DEF ContextVars
    <3> QED BY <3>1 DEF ContextInv, ContextTypeOK, Numbered
  <2>3. ASSUME UNCHANGED MemoryVars PROVE MemoryTypeOK'
    <3>1. memoryDriver' = memoryDriver /\ memory' = memory /\ remembering' = remembering
      BY <2>3 DEF MemoryVars
    <3> QED BY <3>1 DEF MemoryTypeOK
  <2>4. ContextInv'
    BY <2>1, <2>2, ContextSteps
  <2>5. MemoryTypeOK'
    BY <2>1, <2>3, MemorySteps
  <2> QED BY <2>4, <2>5
<1>3. Inv => PromptIsTheRunsOwn
  BY PromptIsWhole, RecallIsGood DEF PromptIsTheRunsOwn, Of
<1> HIDE DEF Inv
<1> QED BY <1>1, <1>2, <1>3, PTL DEF RecordsSpec
=============================================================================
