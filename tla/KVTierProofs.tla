---------------------------- MODULE KVTierProofs ----------------------------
(* The safety of the KV tier, for any number of keys, slots, configurations,*)
(* crashes and failed saves.                                               *)
EXTENDS KVTier, FiniteSetTheorems, TLAPS

USE SlotsAssumption, BoundsAssumption, FaultsAssumption

-----------------------------------------------------------------------------
(* The inductive invariant.                                                *)

(* A process that is down has an empty table and an empty free list.       *)
DownIsEmpty == ~up => slotOf = Nowhere /\ freeList = NoneFree

(* A key without a slot has the reference count of a new block.            *)
AbsentIsPending == \A k \in Keys : ~Live(k) => refCnt[k] = Pending

(* What is true of a snapshot `ix` when `reused` holds the slots handed    *)
(* out since its table was read: each slot it names, unless handed out     *)
(* again, holds the data of the one key it names it for; a block whose     *)
(* store is under way is not among them.                                   *)
SoundBlocks(ix, reused) ==
  /\ \A k \in Keys :
       ix.blocks[k] \in Slots \ (reused \cup suspect)
         => content[ix.blocks[k]] = <<ix.fingerprint, k>>
  /\ \A j, k \in Keys :
       ix.blocks[j] \in Slots \ suspect /\ ix.blocks[j] = ix.blocks[k] => j = k
  /\ \A j, k \in Keys :
       /\ ix.blocks[j] \in Slots \ (reused \cup suspect)
       /\ slotOf[k] = ix.blocks[j]
       => refCnt[k] # Pending

SoundFree(ix) == \A s \in Slots \ suspect : ix.freeList[s] <= 1

SoundIndex == SoundFree(index) /\ SoundBlocks(index, reusedIndex)

SoundPayload ==
  /\ saver \in {"free", "blocks", "replace"} => payload.fingerprint = cfg
  /\ saver \in {"blocks", "replace"} => SoundFree(payload)
  /\ saver = "replace" => SoundBlocks(payload, reusedPayload)
  /\ ~up => saver = "off"

IInv ==
  /\ TypeOK
  /\ DownIsEmpty
  /\ AbsentIsPending
  /\ OwnersContained
  /\ HitsContained
  /\ SoundIndex
  /\ SoundPayload

(* IndexCurrent becomes inductive with the same promise about the payload  *)
(* that is about to be renamed over the index.                             *)
PayloadCurrent ==
  saver = "replace" /\ ~dirty
    => \A k \in Keys :
         payload.blocks[k] # NoSlot => Ready(k) /\ slotOf[k] = payload.blocks[k]
-----------------------------------------------------------------------------
(* Type correctness.                                                       *)

LEMMA SlotFacts ==
  /\ NumSlots \in Nat
  /\ Slots \subseteq Nat
  /\ NoSlot \notin Slots
  /\ \A s : s \in Slots <=> s \in Nat /\ s < NumSlots
BY DEF Slots, NoSlot

(* A set of keys is finite, so counting it gives a number.                 *)
LEMMA CountedKeys ==
  ASSUME NEW S \in SUBSET Keys
  PROVE  Cardinality(S) \in Nat
BY KeysAssumption, FS_Subset, FS_CardinalityType

LEMMA EmptyTypes ==
  /\ NoIndex \in IndexType
  /\ Nowhere \in [Keys -> Slots \cup {NoSlot}]
  /\ AllPending \in [Keys -> Pending .. MaxRef]
  /\ NoneFree \in [Slots -> Nat]
BY DEF NoIndex, IndexType, Nowhere, AllPending, NoneFree, Pending

LEMMA TypeInit == Init => TypeOK
<1> SUFFICES ASSUME Init PROVE TypeOK
  OBVIOUS
<1>1. /\ slotOf \in [Keys -> Slots \cup {NoSlot}]
      /\ refCnt \in [Keys -> Pending .. MaxRef]
      /\ freeList \in [Slots -> Nat]
      /\ payload \in IndexType /\ index \in IndexType
  BY EmptyTypes DEF Init
<1>2. content \in [Slots -> (Configs \X Keys) \cup {Blank, Torn}]
  BY DEF Init
<1>3. numAllocated \in 0 .. NumSlots /\ crashes \in 0 .. MaxCrashes
      /\ saveFailures \in 0 .. MaxSaveFailures
  BY DEF Init
<1>4. up \in BOOLEAN /\ dirty \in BOOLEAN /\ unsaved \in BOOLEAN /\ cfg \in Configs
  BY DEF Init
<1>5. saver \in SaverSteps /\ numEvictable \in Int /\ numWritePending \in Int
  BY DEF Init, SaverSteps
<1>6. /\ reusedPayload \subseteq Slots /\ reusedIndex \subseteq Slots
      /\ suspect \subseteq Slots /\ leaked \subseteq Slots
  BY DEF Init
<1> QED BY <1>1, <1>2, <1>3, <1>4, <1>5, <1>6 DEF TypeOK

LEMMA TypeScheduler ==
  ASSUME TypeOK, NEW k \in Keys,
         \/ StoreFresh(k) \/ StoreReused(k) \/ StoreEvicting(k)
         \/ TransferStarts(k) \/ StoreDone(k) \/ StoreFailed(k)
         \/ LoadStarts(k) \/ LoadEnds(k)
  PROVE  TypeOK'
<1> USE SlotFacts DEF TypeOK, Pending, Live, Ready, table, pool, process, saving, faults, history
<1>1. CASE StoreFresh(k)
  BY <1>1 DEF StoreFresh, HasFresh, Insert, HandOut
<1>2. CASE StoreReused(k)
  BY <1>2 DEF StoreReused, Insert, HandOut
<1>3. CASE StoreEvicting(k)
  <2>1. PICK v \in Keys : Unpinned(v) /\ Insert(k, slotOf[v], {v}) /\ HandOut(slotOf[v])
    BY <1>3 DEF StoreEvicting, MayEvict
  <2>2. slotOf[v] \in Slots
    BY <2>1 DEF Unpinned
  <2>3. /\ slotOf' \in [Keys -> Slots \cup {NoSlot}]
        /\ refCnt' \in [Keys -> Pending .. MaxRef]
    BY <2>1, <2>2 DEF Insert
  <2>4. reusedPayload' \subseteq Slots /\ reusedIndex' \subseteq Slots
    BY <2>1, <2>2 DEF HandOut
  <2>5. numEvictable' \in Int /\ numWritePending' \in Int
    BY <1>3 DEF StoreEvicting
  <2>6. dirty' \in BOOLEAN
    BY <2>1 DEF Insert
  <2>7. UNCHANGED <<up, cfg, numAllocated, freeList, saver, payload, index, content,
                    crashes, saveFailures, unsaved, suspect, leaked>>
    BY <1>3, <2>1 DEF StoreEvicting, HandOut
  <2> QED BY <2>3, <2>4, <2>5, <2>6, <2>7
<1>4. CASE TransferStarts(k)
  BY <1>4 DEF TransferStarts
<1>5. CASE StoreDone(k)
  BY <1>5 DEF StoreDone
<1>6. CASE StoreFailed(k)
  BY <1>6 DEF StoreFailed, Remove
<1>7. CASE LoadStarts(k)
  BY <1>7 DEF LoadStarts
<1>8. CASE LoadEnds(k)
  BY <1>8 DEF LoadEnds
<1> QED BY <1>1, <1>2, <1>3, <1>4, <1>5, <1>6, <1>7, <1>8

LEMMA TypeSaver ==
  ASSUME TypeOK, SaverNext \/ SaverFails \/ Crash
  PROVE  TypeOK'
<1> USE SlotFacts, EmptyTypes
    DEF TypeOK, IndexType, SaverSteps, SaverIs, table, pool, process, saving, faults, history
<1>1. CASE SaverWakes
  BY <1>1 DEF SaverWakes
<1>2. CASE SaverReadsCounter
  BY <1>2 DEF SaverReadsCounter
<1>3. CASE SaverReadsFree
  BY <1>3 DEF SaverReadsFree
<1>4. CASE SaverReadsBlocks
  BY <1>4 DEF SaverReadsBlocks, SnapshotEntries
<1>5. CASE SaverReplaces
  BY <1>5 DEF SaverReplaces
<1>6. CASE SaverFails
  BY <1>6 DEF SaverFails
<1>7. CASE Crash
  <2>1. /\ slotOf' \in [Keys -> Slots \cup {NoSlot}]
        /\ refCnt' \in [Keys -> Pending .. MaxRef]
        /\ freeList' \in [Slots -> Nat]
        /\ payload' \in IndexType
    BY ONLY <1>7, EmptyTypes DEF Crash
  <2>2. numAllocated' \in 0 .. NumSlots /\ crashes' \in 0 .. MaxCrashes
    BY <1>7 DEF Crash
  <2>3. up' \in BOOLEAN /\ dirty' \in BOOLEAN /\ unsaved' \in BOOLEAN /\ leaked' \subseteq Slots
    BY <1>7 DEF Crash
  <2>4. /\ saver' \in SaverSteps /\ reusedPayload' \subseteq Slots
        /\ numEvictable' \in Int /\ numWritePending' \in Int
    BY <1>7 DEF Crash
  <2>5. UNCHANGED <<cfg, index, content, saveFailures, reusedIndex, suspect>>
    BY <1>7 DEF Crash
  <2> QED BY <2>1, <2>2, <2>3, <2>4, <2>5
<1> QED BY <1>1, <1>2, <1>3, <1>4, <1>5, <1>6, <1>7 DEF SaverNext

LEMMA TypeStart ==
  ASSUME TypeOK, NEW c \in Configs,
         StartCold(c) \/ StartWarm(c) \/ StartUnreadable(c) \/ StartHalfRestored(c)
  PROVE  TypeOK'
<1> USE SlotFacts DEF TypeOK, IndexType, SaverSteps, Launch, Pending, table, pool, faults
<1>1. Cardinality(Indexed) \in Int
  BY CountedKeys DEF Indexed
<1>2. Misnamed \subseteq Slots /\ NamedSlots \subseteq Slots /\ Unindexed \subseteq Slots
  BY DEF Misnamed, NamedSlots, Indexed, Unindexed
<1>3. CASE StartCold(c)
  BY <1>3 DEF StartCold
<1>4. CASE StartWarm(c)
  BY <1>1, <1>2, <1>4 DEF StartWarm, Restore, RestoredFree, RestoreEntries
<1>5. CASE StartUnreadable(c)
  BY <1>5 DEF StartUnreadable
<1>6. CASE StartHalfRestored(c)
  <2>1. freeList' \in [Slots -> Nat]
    BY <1>6 DEF StartHalfRestored, RestoredFree
  <2>2. slotOf' \in [Keys -> Slots \cup {NoSlot}] /\ refCnt' \in [Keys -> Pending .. MaxRef]
    BY <1>6 DEF StartHalfRestored, RestoreEntries
  <2> QED BY <1>2, <1>6, <2>1, <2>2 DEF StartHalfRestored
<1> QED BY <1>3, <1>4, <1>5, <1>6

LEMMA TypeStep == TypeOK /\ [Next]_vars => TypeOK'
<1> SUFFICES ASSUME TypeOK, [Next]_vars PROVE TypeOK'
  OBVIOUS
<1>1. CASE SchedulerNext
  BY <1>1, TypeScheduler DEF SchedulerNext
<1>2. CASE SaverNext \/ SaverFails \/ Crash
  BY <1>2, TypeSaver
<1>3. CASE StartNext
  BY <1>3, TypeStart DEF StartNext
<1>4. CASE UNCHANGED vars
  BY <1>4 DEF TypeOK, vars, table, pool, process, saving, faults, history
<1> QED BY <1>1, <1>2, <1>3, <1>4 DEF Next

(* Every variable keeps its type and every counter its bound.              *)
THEOREM TypeCorrect == Spec => []TypeOK
BY TypeInit, TypeStep, PTL DEF Spec

-----------------------------------------------------------------------------
(* The scheduler's steps preserve the invariant.                           *)

(* Handing a slot to a new block, whatever slot it is, spoils no hit and   *)
(* no snapshot: the slot counts as reused from now on.                     *)
LEMMA HandOutKeeps ==
  ASSUME IInv, up, NEW k \in Keys, NEW s \in Slots, NEW E \in SUBSET Keys,
         Insert(k, s, E), HandOut(s)
  PROVE  /\ DownIsEmpty' /\ AbsentIsPending' /\ HitsContained'
         /\ SoundIndex' /\ SoundPayload'
<1> USE SlotFacts DEF IInv, TypeOK, Insert, HandOut, process, saving, faults
<1>1. UNCHANGED <<up, cfg, saver, payload, index, content, suspect>>
  OBVIOUS
<1>2. DownIsEmpty'
  BY DEF DownIsEmpty
<1>3. AbsentIsPending'
  BY DEF AbsentIsPending, Live
<1>4. HitsContained'
  BY DEF HitsContained, Ready, Live
<1>5. \A j \in Keys : slotOf'[j] \in Slots => slotOf'[j] = s \/ (slotOf'[j] = slotOf[j] /\ refCnt'[j] = refCnt[j])
  BY DEF Pending
<1>6. SoundIndex'
  BY <1>1, <1>5 DEF SoundIndex, SoundFree, SoundBlocks
<1>7. SoundPayload'
  BY <1>1, <1>5 DEF SoundPayload, SoundFree, SoundBlocks
<1> QED BY <1>2, <1>3, <1>4, <1>6, <1>7

LEMMA StoreFreshKeeps ==
  ASSUME IInv, NEW k \in Keys, StoreFresh(k)
  PROVE  IInv'
<1>1. TypeOK'
  BY TypeScheduler DEF IInv
<1>2. numAllocated \in Slots
  BY SlotFacts DEF StoreFresh, HasFresh, IInv, TypeOK
<1>3. /\ DownIsEmpty' /\ AbsentIsPending' /\ HitsContained'
      /\ SoundIndex' /\ SoundPayload'
  BY <1>2, HandOutKeeps DEF StoreFresh
<1>4. OwnersContained'
  BY <1>2, SlotFacts DEF StoreFresh, HasFresh, Insert, HandOut, IInv, TypeOK, OwnersContained
<1> QED BY <1>1, <1>3, <1>4 DEF IInv

LEMMA StoreReusedKeeps ==
  ASSUME IInv, NEW k \in Keys, StoreReused(k)
  PROVE  IInv'
<1>1. TypeOK'
  BY TypeScheduler DEF IInv
<1>2. PICK s \in Slots : /\ freeList[s] > 0
                         /\ Insert(k, s, {}) /\ HandOut(s)
                         /\ freeList' = [freeList EXCEPT ![s] = @ - 1]
  BY DEF StoreReused
<1>3. /\ DownIsEmpty' /\ AbsentIsPending' /\ HitsContained'
      /\ SoundIndex' /\ SoundPayload'
  BY <1>2, HandOutKeeps DEF StoreReused
<1>4. OwnersContained'
  BY <1>2, SlotFacts DEF StoreReused, Insert, HandOut, IInv, TypeOK, OwnersContained
<1> QED BY <1>1, <1>3, <1>4 DEF IInv

LEMMA StoreEvictingKeeps ==
  ASSUME IInv, NEW k \in Keys, StoreEvicting(k)
  PROVE  IInv'
<1>1. TypeOK'
  BY TypeScheduler DEF IInv
<1>2. PICK v \in Keys : Unpinned(v) /\ Insert(k, slotOf[v], {v}) /\ HandOut(slotOf[v])
  BY DEF StoreEvicting, MayEvict
<1>3. slotOf[v] \in Slots
  BY <1>2 DEF Unpinned, Live, IInv, TypeOK
<1>4. /\ DownIsEmpty' /\ AbsentIsPending' /\ HitsContained'
      /\ SoundIndex' /\ SoundPayload'
  BY <1>2, <1>3, HandOutKeeps DEF StoreEvicting
<1>5. OwnersContained'
  BY <1>2, <1>3, SlotFacts
     DEF StoreEvicting, Insert, HandOut, Unpinned, Live, IInv, TypeOK, OwnersContained
<1> QED BY <1>1, <1>4, <1>5 DEF IInv

(* A transfer writes only into the slot of a block that is not ready: no   *)
(* other block has the slot, and no snapshot names it.                     *)
LEMMA WriteKeeps ==
  ASSUME IInv, NEW k \in Keys, Live(k), refCnt[k] = Pending,
         NEW d, content' = [content EXCEPT ![slotOf[k]] = d],
         UNCHANGED <<slotOf, index, payload, saver, up, cfg, history>>,
         refCnt' = refCnt \/ (refCnt' = [refCnt EXCEPT ![k] = 0] /\ d = <<cfg, k>>)
  PROVE  AbsentIsPending' /\ HitsContained' /\ SoundIndex' /\ SoundPayload'
<1> USE SlotFacts DEF IInv, TypeOK, history
<1>1. slotOf[k] \in Slots /\ \A j \in Keys : slotOf[j] = slotOf[k] /\ slotOf[k] \notin suspect => j = k
  BY DEF Live, OwnersContained
<1>2. AbsentIsPending'
  BY DEF AbsentIsPending, Live
<1>3. HitsContained'
  BY <1>1 DEF HitsContained, Ready, Live
<1>4. SoundIndex'
  BY <1>1 DEF SoundIndex, SoundFree, SoundBlocks, Pending
<1>5. SoundPayload'
  BY <1>1 DEF SoundPayload, SoundFree, SoundBlocks, Pending
<1> QED BY <1>2, <1>3, <1>4, <1>5

LEMMA TransferKeeps ==
  ASSUME IInv, NEW k \in Keys, TransferStarts(k) \/ StoreDone(k)
  PROVE  IInv'
<1> USE DEF table, pool, process, saving, faults
<1>1. TypeOK'
  BY TypeScheduler DEF IInv
<1>2. AbsentIsPending' /\ HitsContained' /\ SoundIndex' /\ SoundPayload'
  <2>1. CASE TransferStarts(k)
    BY <2>1, WriteKeeps DEF TransferStarts
  <2>2. CASE StoreDone(k)
    BY <2>2, WriteKeeps DEF StoreDone
  <2> QED BY <2>1, <2>2
<1>3. UNCHANGED <<slotOf, freeList, numAllocated, suspect, up>>
  BY DEF TransferStarts, StoreDone, history
<1>4. OwnersContained' /\ DownIsEmpty'
  BY <1>3 DEF IInv, OwnersContained, DownIsEmpty
<1> QED BY <1>1, <1>2, <1>4 DEF IInv

LEMMA StoreFailedKeeps ==
  ASSUME IInv, NEW k \in Keys, StoreFailed(k)
  PROVE  IInv'
<1> USE SlotFacts DEF StoreFailed, Remove, process, saving, faults, history
<1>1. TypeOK'
  BY TypeScheduler DEF IInv
<1>2. slotOf[k] \in Slots
  BY DEF Live, IInv, TypeOK
<1>3. OwnersContained'
  BY <1>2 DEF OwnersContained, IInv, TypeOK
<1>4. HitsContained'
  BY DEF HitsContained, Ready, Live, IInv, TypeOK
<1>5. AbsentIsPending' /\ DownIsEmpty'
  BY DEF AbsentIsPending, DownIsEmpty, Live, IInv, TypeOK
<1>6. \A j \in Keys : slotOf'[j] \in Slots => slotOf'[j] = slotOf[j] /\ refCnt'[j] = refCnt[j]
  BY DEF IInv, TypeOK
<1>7. SoundIndex'
  BY <1>6 DEF SoundIndex, SoundFree, SoundBlocks, IInv, TypeOK
<1>8. SoundPayload'
  BY <1>6 DEF SoundPayload, SoundFree, SoundBlocks, IInv, TypeOK
<1> QED BY <1>1, <1>3, <1>4, <1>5, <1>7, <1>8 DEF IInv

LEMMA LoadKeeps ==
  ASSUME IInv, NEW k \in Keys, LoadStarts(k) \/ LoadEnds(k)
  PROVE  IInv'
<1>1. TypeOK'
  BY TypeScheduler DEF IInv
<1>2. UNCHANGED <<slotOf, freeList, numAllocated, up, cfg, saver, payload, index, content, history>>
  BY DEF LoadStarts, LoadEnds, process, saving, faults
<1>3. \A j \in Keys : (refCnt'[j] = Pending) <=> (refCnt[j] = Pending)
  BY DEF LoadStarts, LoadEnds, Ready, Pending, IInv, TypeOK
<1>4. DownIsEmpty' /\ OwnersContained'
  BY <1>2 DEF DownIsEmpty, OwnersContained, IInv, history
<1>5. AbsentIsPending' /\ HitsContained'
  BY <1>2, <1>3 DEF AbsentIsPending, HitsContained, Ready, Live, IInv, history
<1>6. SoundIndex' /\ SoundPayload'
  BY <1>2, <1>3 DEF SoundIndex, SoundPayload, SoundFree, SoundBlocks, IInv, history
<1> QED BY <1>1, <1>4, <1>5, <1>6 DEF IInv

-----------------------------------------------------------------------------
(* The saver's steps, a crash and a restart preserve the invariant.        *)

(* The table is copied in one locked step: it names ready blocks only.     *)
LEMMA ReadsBlocksSound ==
  ASSUME IInv, SaverReadsBlocks
  PROVE  SoundBlocks(payload, reusedPayload)'
<1> USE SlotFacts
    DEF SaverReadsBlocks, SaverIs, SnapshotEntries, IInv, TypeOK, Ready, Live,
        table, pool, process, faults
<1>1. /\ \A k \in Keys : payload'.blocks[k] = IF Ready(k) THEN slotOf[k] ELSE NoSlot
      /\ payload'.fingerprint = cfg
  BY DEF IndexType, SoundPayload
<1>2. \A k \in Keys : payload'.blocks[k] \in Slots => Ready(k) /\ payload'.blocks[k] = slotOf[k]
  BY <1>1
<1>3. UNCHANGED <<slotOf, refCnt, content, suspect>>
  OBVIOUS
<1> QED BY <1>1, <1>2, <1>3 DEF SoundBlocks, HitsContained, OwnersContained

LEMMA SaverKeeps ==
  ASSUME IInv, SaverNext \/ SaverFails
  PROVE  IInv'
<1> DEFINE Steady == UNCHANGED <<up, cfg, slotOf, refCnt, numAllocated, freeList,
                                content, suspect>>
<1>1. TypeOK'
  BY TypeSaver DEF IInv
<1>2. Steady
  BY DEF SaverNext, SaverWakes, SaverReadsCounter, SaverReadsFree, SaverReadsBlocks,
         SaverReplaces, SaverFails, table, pool, process, history
<1>3. DownIsEmpty' /\ AbsentIsPending' /\ OwnersContained' /\ HitsContained'
  BY <1>2 DEF DownIsEmpty, AbsentIsPending, OwnersContained, HitsContained, Ready, Live, IInv
<1>4. SoundIndex' /\ SoundPayload'
  <2> USE <1>2 DEF IInv, SaverIs, history, SoundIndex, SoundPayload, SoundFree, SoundBlocks
  <2>1. CASE SaverWakes
    BY <2>1 DEF SaverWakes
  <2>2. CASE SaverReadsCounter
    BY <2>2 DEF SaverReadsCounter, TypeOK, IndexType
  <2>3. CASE SaverReadsFree
    BY <2>3 DEF SaverReadsFree, TypeOK, IndexType, OwnersContained
  <2>4. CASE SaverReadsBlocks
    <3>1. SoundBlocks(payload, reusedPayload)'
      BY <2>4, ReadsBlocksSound
    <3>2. SoundPayload'
      BY <2>4, <3>1 DEF SaverReadsBlocks, TypeOK, IndexType
    <3>3. UNCHANGED <<index, reusedIndex>>
      BY <2>4 DEF SaverReadsBlocks
    <3> QED BY <3>2, <3>3
  <2>5. CASE SaverReplaces
    BY <2>5 DEF SaverReplaces
  <2>6. CASE SaverFails
    BY <2>6 DEF SaverFails, SaverSteps
  <2> QED BY <2>1, <2>2, <2>3, <2>4, <2>5, <2>6 DEF SaverNext, SaverFails
<1> QED BY <1>1, <1>3, <1>4 DEF IInv

LEMMA CrashKeeps ==
  ASSUME IInv, Crash
  PROVE  IInv'
<1> USE SlotFacts DEF Crash, Nowhere, NoneFree, AllPending
<1>1. TypeOK'
  BY TypeSaver DEF IInv
<1>2. \A k \in Keys : slotOf'[k] = NoSlot /\ refCnt'[k] = Pending
  OBVIOUS
<1>3. DownIsEmpty' /\ AbsentIsPending' /\ HitsContained'
  BY <1>2 DEF DownIsEmpty, AbsentIsPending, HitsContained, Ready, Live
<1>4. OwnersContained'
  BY <1>2 DEF OwnersContained
<1>5. SoundIndex' /\ SoundPayload'
  BY <1>2 DEF SoundIndex, SoundPayload, SoundFree, SoundBlocks, IInv
<1> QED BY <1>1, <1>3, <1>4, <1>5 DEF IInv

(* A restart that leaves the table alone.                                  *)
LEMMA ColdKeeps ==
  ASSUME IInv, NEW c \in Configs, StartCold(c) \/ StartUnreadable(c)
  PROVE  IInv'
<1> USE SlotFacts DEF StartCold, StartUnreadable, Launch, table, pool, faults
<1>1. TypeOK'
  BY TypeStart DEF IInv
<1>2. /\ UNCHANGED <<slotOf, refCnt, numAllocated, freeList, payload, index, content, history>>
      /\ slotOf = Nowhere /\ saver' \in {"off", "wait"} /\ up'
  BY DEF IInv, DownIsEmpty, history
<1>3. DownIsEmpty' /\ AbsentIsPending' /\ HitsContained'
  BY <1>2 DEF DownIsEmpty, AbsentIsPending, HitsContained, Ready, Live, Nowhere, IInv
<1>4. OwnersContained'
  BY <1>2 DEF OwnersContained, IInv, history
<1>5. SoundIndex'
  BY <1>2 DEF SoundIndex, SoundFree, SoundBlocks, IInv, history
<1>6. SoundPayload'
  BY <1>2 DEF SoundPayload
<1> QED BY <1>1, <1>3, <1>4, <1>5, <1>6 DEF IInv

(* A restored table names only what the index got right, outside Misnamed. *)
LEMMA WarmKeeps ==
  ASSUME IInv, NEW c \in Configs, StartWarm(c)
  PROVE  IInv'
<1> USE SlotFacts DEF StartWarm, Restore, RestoredFree, RestoreEntries, Launch, Matches
<1>1. TypeOK'
  BY TypeStart DEF IInv
<1>2. /\ UNCHANGED <<payload, index, content, reusedPayload, reusedIndex>>
      /\ saver' = "wait" /\ up' /\ index.fingerprint = cfg'
  OBVIOUS
<1>3. \A k \in Keys : /\ slotOf'[k] = index.blocks[k]
                      /\ index.blocks[k] \in Slots \cup {NoSlot}
                      /\ refCnt'[k] = IF index.blocks[k] = NoSlot THEN Pending ELSE 0
  BY DEF Indexed, IInv, TypeOK, IndexType
<1>4. \A s \in Slots \ suspect' :
        /\ s \notin suspect
        /\ s \in NamedSlots => s \notin reusedIndex /\ s < index.numAllocated
        /\ index.freeList[s] > 0 => s < index.numAllocated
        /\ freeList'[s] = IF s \in NamedSlots THEN 0 ELSE index.freeList[s]
        /\ index.freeList[s] \in Nat
  BY DEF Misnamed, IInv, TypeOK, IndexType
<1>5. \A k \in Keys : index.blocks[k] \in Slots => index.blocks[k] \in NamedSlots
  BY DEF NamedSlots, Indexed
<1>6. DownIsEmpty' /\ AbsentIsPending' /\ SoundPayload'
  BY <1>2, <1>3 DEF DownIsEmpty, AbsentIsPending, SoundPayload, Live, Pending
<1>7. HitsContained'
  BY <1>2, <1>3, <1>4, <1>5 DEF HitsContained, Ready, Live, IInv, SoundIndex, SoundBlocks
<1>8. SoundIndex'
  <2>1. \A s \in Slots \ suspect' : index.freeList[s] <= 1
    BY <1>4 DEF IInv, SoundIndex, SoundFree
  <2>2. SoundFree(index)'
    BY <1>2, <2>1 DEF SoundFree
  <2>3. \A k \in Keys :
          index.blocks[k] \in Slots \ (reusedIndex \cup suspect')
            => content[index.blocks[k]] = <<index.fingerprint, k>>
    BY <1>4 DEF IInv, SoundIndex, SoundBlocks
  <2>4. \A j, k \in Keys :
          index.blocks[j] \in Slots \ suspect' /\ index.blocks[j] = index.blocks[k] => j = k
    BY <1>4 DEF IInv, SoundIndex, SoundBlocks
  <2>5. \A j, k \in Keys :
          index.blocks[j] \in Slots /\ slotOf'[k] = index.blocks[j] => refCnt'[k] # Pending
    BY <1>3 DEF Pending
  <2>6. SoundBlocks(index, reusedIndex)'
    BY <1>2, <2>3, <2>4, <2>5 DEF SoundBlocks
  <2> QED BY <2>2, <2>6 DEF SoundIndex
<1>9. OwnersContained'
  <2> SUFFICES ASSUME NEW s \in Slots \ suspect'
               PROVE  LET owners == {k \in Keys : slotOf'[k] = s}
                      IN /\ \A j, k \in owners : j = k
                         /\ owners # {} => freeList'[s] = 0
                         /\ freeList'[s] <= 1
                         /\ (owners # {} \/ freeList'[s] > 0) => s < numAllocated'
    BY DEF OwnersContained
  <2>1. \A j, k \in Keys : slotOf'[j] = s /\ slotOf'[k] = s => j = k
    BY <1>3, <1>4 DEF IInv, SoundIndex, SoundBlocks
  <2>2. \A k \in Keys : slotOf'[k] = s => s \in NamedSlots
    BY <1>3, <1>5
  <2>3. freeList'[s] <= 1
    BY <1>4 DEF IInv, SoundIndex, SoundFree
  <2> QED BY <1>4, <2>1, <2>2, <2>3
<1> QED BY <1>1, <1>6, <1>7, <1>8, <1>9 DEF IInv

(* A half-restored table, and the free list with it, share no slot with    *)
(* what is outside `suspect`.                                              *)
LEMMA HalfKeeps ==
  ASSUME IInv, NEW c \in Configs, StartHalfRestored(c)
  PROVE  IInv'
<1> USE SlotFacts DEF StartHalfRestored, Launch, Matches, pool
<1>1. TypeOK'
  BY TypeStart DEF IInv
<1>2. PICK E \in SUBSET Indexed : RestoreEntries(E)
  <2>1. Indexed \in SUBSET Indexed
    OBVIOUS
  <2> QED BY <2>1
<1>3. \A k \in Keys : slotOf'[k] \in Slots => slotOf'[k] \in suspect' /\ refCnt'[k] = 0
  BY <1>2 DEF RestoreEntries, NamedSlots, Indexed
<1>4. \A k \in Keys : slotOf'[k] = NoSlot => refCnt'[k] = Pending
  BY <1>2 DEF RestoreEntries, Indexed
<1>5. DownIsEmpty' /\ AbsentIsPending' /\ SoundPayload'
  BY <1>4 DEF DownIsEmpty, AbsentIsPending, SoundPayload, Live
<1>6. HitsContained'
  BY <1>1, <1>3 DEF HitsContained, Ready, Live, TypeOK
<1>7. OwnersContained'
  <2>1. \A s \in Slots \ suspect' : freeList'[s] = 0
    BY <1>1 DEF TypeOK
  <2> QED BY <1>3, <2>1 DEF OwnersContained
<1>8. SoundIndex'
  BY <1>3 DEF SoundIndex, SoundFree, SoundBlocks, IInv, Pending
<1> QED BY <1>1, <1>5, <1>6, <1>7, <1>8 DEF IInv

LEMMA IInvInit == Init => IInv
<1> SUFFICES ASSUME Init PROVE IInv
  OBVIOUS
<1> USE SlotFacts DEF Init, Nowhere, NoneFree, AllPending, NoIndex
<1>1. TypeOK
  BY TypeInit
<1>2. DownIsEmpty /\ AbsentIsPending /\ SoundPayload
  BY DEF DownIsEmpty, AbsentIsPending, SoundPayload, Live
<1>3. OwnersContained /\ HitsContained
  BY DEF OwnersContained, HitsContained, Ready, Live
<1>4. SoundIndex
  BY DEF SoundIndex, SoundFree, SoundBlocks
<1> QED BY <1>1, <1>2, <1>3, <1>4 DEF IInv

LEMMA IInvStep == IInv /\ [Next]_vars => IInv'
<1> SUFFICES ASSUME IInv, [Next]_vars PROVE IInv'
  OBVIOUS
<1>1. CASE SchedulerNext
  BY <1>1, StoreFreshKeeps, StoreReusedKeeps, StoreEvictingKeeps, TransferKeeps,
     StoreFailedKeeps, LoadKeeps DEF SchedulerNext
<1>2. CASE SaverNext \/ SaverFails
  BY <1>2, SaverKeeps
<1>3. CASE Crash
  BY <1>3, CrashKeeps
<1>4. CASE StartNext
  BY <1>4, ColdKeeps, WarmKeeps, HalfKeeps DEF StartNext
<1>5. CASE UNCHANGED vars
  <2>1. TypeOK'
    BY <1>5, TypeStep DEF IInv
  <2>2. UNCHANGED <<up, cfg, slotOf, refCnt, numAllocated, freeList, saver, payload,
                    index, content, reusedPayload, reusedIndex, suspect>>
    BY <1>5 DEF vars, table, pool, process, saving, history
  <2>3. DownIsEmpty' /\ AbsentIsPending' /\ OwnersContained' /\ HitsContained'
    BY <2>2 DEF IInv, DownIsEmpty, AbsentIsPending, OwnersContained, HitsContained, Ready, Live
  <2>4. SoundIndex' /\ SoundPayload'
    BY <2>2 DEF IInv, SoundIndex, SoundPayload, SoundFree, SoundBlocks
  <2> QED BY <2>1, <2>3, <2>4 DEF IInv
<1> QED BY <1>1, <1>2, <1>3, <1>4, <1>5 DEF Next

THEOREM InvariantHolds == Spec => []IInv
BY IInvInit, IInvStep, PTL DEF Spec

-----------------------------------------------------------------------------
(* What follows from it.                                                   *)

(* No slot has two owners, or an owner and a place on the free list, or is *)
(* in use beyond the allocator's counter, unless a restored index was      *)
(* wrong about it.                                                         *)
THEOREM OwnersAreContained == Spec => []OwnersContained
BY InvariantHolds, PTL DEF IInv

(* A lookup never returns another block's data, or another configuration's *)
(* or a half-written slot, unless a restored index was wrong about it.     *)
THEOREM HitsAreContained == Spec => []HitsContained
BY InvariantHolds, PTL DEF IInv

(* A block that a load has pinned is neither moved nor overwritten: only a *)
(* block that is not ready is written, and it shares its slot with nobody. *)
LEMMA PinnedStep ==
  ASSUME IInv, [Next]_vars, NEW k \in Keys,
         Ready(k), refCnt[k] > 0, slotOf[k] \notin suspect, up'
  PROVE  slotOf'[k] = slotOf[k] /\ content'[slotOf[k]] = content[slotOf[k]]
<1> USE SlotFacts DEF IInv, TypeOK, Ready, Live
<1>1. up
  BY DEF DownIsEmpty, Nowhere
<1>2. \A j \in Keys : slotOf[j] = slotOf[k] => j = k
  BY DEF OwnersContained
<1>3. CASE SchedulerNext
  <2> SUFFICES ASSUME NEW j \in Keys,
               \/ StoreFresh(j) \/ StoreReused(j) \/ StoreEvicting(j)
               \/ TransferStarts(j) \/ StoreDone(j) \/ StoreFailed(j)
               \/ LoadStarts(j) \/ LoadEnds(j)
               PROVE  slotOf'[k] = slotOf[k] /\ content'[slotOf[k]] = content[slotOf[k]]
    BY <1>3 DEF SchedulerNext
  <2>1. CASE StoreFresh(j) \/ StoreReused(j)
    BY <2>1 DEF StoreFresh, StoreReused, Insert, HandOut
  <2>2. CASE StoreEvicting(j)
    BY <2>2 DEF StoreEvicting, MayEvict, Unpinned, Insert, HandOut
  <2>3. CASE TransferStarts(j) \/ StoreDone(j)
    BY <2>3, <1>2 DEF TransferStarts, StoreDone, table
  <2>4. CASE StoreFailed(j)
    BY <2>4 DEF StoreFailed, Remove
  <2>5. CASE LoadStarts(j) \/ LoadEnds(j)
    BY <2>5 DEF LoadStarts, LoadEnds
  <2> QED BY <2>1, <2>2, <2>3, <2>4, <2>5
<1>4. CASE SaverNext \/ SaverFails
  BY <1>4 DEF SaverNext, SaverWakes, SaverReadsCounter, SaverReadsFree, SaverReadsBlocks,
              SaverReplaces, SaverFails, table
<1>5. CASE Crash
  BY <1>5 DEF Crash
<1>6. CASE StartNext
  BY <1>1, <1>6 DEF StartNext, StartCold, StartWarm, StartUnreadable, StartHalfRestored, Launch
<1>7. CASE UNCHANGED vars
  BY <1>7 DEF vars, table
<1> QED BY <1>3, <1>4, <1>5, <1>6, <1>7 DEF Next

THEOREM PinnedAreUndisturbed == Spec => PinnedUndisturbed
<1>1. IInv /\ [Next]_vars => [PinnedKept]_vars
  BY PinnedStep DEF PinnedKept
<1> QED BY <1>1, InvariantHolds, PTL DEF Spec, PinnedUndisturbed

-----------------------------------------------------------------------------
(* The dirty flag.                                                         *)

CInv == IInv /\ IndexCurrent /\ PayloadCurrent

LEMMA CurrentInit == Init => IndexCurrent /\ PayloadCurrent
BY DEF Init, IndexCurrent, PayloadCurrent

(* Whatever takes an entry out of the table, or moves it, sets the flag.   *)
LEMMA CurrentScheduler ==
  ASSUME CInv, SchedulerNext
  PROVE  IndexCurrent' /\ PayloadCurrent'
<1> PICK k \in Keys :
      \/ StoreFresh(k) \/ StoreReused(k) \/ StoreEvicting(k) \/ StoreFailed(k)
      \/ TransferStarts(k) \/ StoreDone(k) \/ LoadStarts(k) \/ LoadEnds(k)
  BY DEF SchedulerNext
<1>1. CASE StoreFresh(k) \/ StoreReused(k) \/ StoreEvicting(k) \/ StoreFailed(k)
  <2>1. dirty'
    BY <1>1 DEF StoreFresh, StoreReused, StoreEvicting, StoreFailed, Insert, Remove
  <2> QED BY <2>1 DEF IndexCurrent, PayloadCurrent
<1>2. CASE TransferStarts(k) \/ StoreDone(k) \/ LoadStarts(k) \/ LoadEnds(k)
  <2>1. UNCHANGED <<slotOf, dirty, saver, unsaved, payload, index, cfg>>
    BY <1>2 DEF TransferStarts, StoreDone, LoadStarts, LoadEnds, table, process, saving, faults
  <2>2. \A j \in Keys : Ready(j) => Ready(j)'
    BY <1>2, <2>1 DEF TransferStarts, StoreDone, LoadStarts, LoadEnds, table, Ready, Live,
                      Pending, CInv, IInv, TypeOK
  <2> QED BY <2>1, <2>2 DEF CInv, IndexCurrent, PayloadCurrent, Matches, Indexed
<1> QED BY <1>1, <1>2

LEMMA CurrentSaver ==
  ASSUME CInv, SaverNext \/ SaverFails
  PROVE  IndexCurrent' /\ PayloadCurrent'
<1>1. UNCHANGED <<slotOf, refCnt, cfg>>
  BY DEF SaverNext, SaverWakes, SaverReadsCounter, SaverReadsFree, SaverReadsBlocks,
         SaverReplaces, SaverFails, table, process
<1> USE <1>1 DEF CInv, IndexCurrent, PayloadCurrent, Ready, Live, SaverIs
<1>2. CASE SaverWakes \/ SaverReadsCounter \/ SaverReadsFree
  BY <1>2 DEF SaverWakes, SaverReadsCounter, SaverReadsFree
<1>3. CASE SaverReadsBlocks
  BY <1>3 DEF SaverReadsBlocks, SnapshotEntries, IInv, TypeOK, IndexType
<1>4. CASE SaverReplaces
  BY <1>4 DEF SaverReplaces, Indexed
<1>5. CASE SaverFails
  BY <1>5 DEF SaverFails, IInv, TypeOK
<1> QED BY <1>2, <1>3, <1>4, <1>5 DEF SaverNext

LEMMA CurrentRestart ==
  ASSUME CInv, Crash \/ StartNext
  PROVE  IndexCurrent' /\ PayloadCurrent'
<1> USE DEF IndexCurrent, PayloadCurrent
<1>1. CASE Crash
  BY <1>1 DEF Crash
<1>2. CASE StartNext
  <2> PICK c \in Configs :
        StartCold(c) \/ StartWarm(c) \/ StartUnreadable(c) \/ StartHalfRestored(c)
    BY <1>2 DEF StartNext
  <2>1. CASE StartCold(c)
    BY <2>1 DEF StartCold, Launch, Matches
  <2>2. CASE StartWarm(c)
    BY <2>2 DEF StartWarm, Launch, Restore, RestoredFree, RestoreEntries, Indexed, Ready, Live, Pending,
                CInv, IInv, TypeOK, IndexType
  <2>3. CASE StartUnreadable(c) \/ StartHalfRestored(c)
    BY <2>3 DEF StartUnreadable, StartHalfRestored, Launch
  <2> QED BY <2>1, <2>2, <2>3
<1> QED BY <1>1, <1>2

LEMMA CurrentStep == CInv /\ [Next]_vars => CInv'
<1> SUFFICES ASSUME CInv, [Next]_vars PROVE CInv'
  OBVIOUS
<1>1. IInv'
  BY IInvStep DEF CInv
<1>2. CASE UNCHANGED vars
  BY <1>1, <1>2 DEF CInv, IndexCurrent, PayloadCurrent, Ready, Live, Matches, Indexed,
                    vars, table, process, saving, faults
<1> QED BY <1>1, <1>2, CurrentScheduler, CurrentSaver, CurrentRestart DEF CInv, Next

(* While the flag is clear and the last save did not fail, the index names *)
(* only blocks the table still has, where it still has them.               *)
THEOREM IndexIsCurrent == Spec => []IndexCurrent
<1>1. Init => CInv
  BY IInvInit, CurrentInit DEF CInv
<1>2. CInv => IndexCurrent
  BY DEF CInv
<1> QED BY <1>1, <1>2, CurrentStep, PTL DEF Spec

-----------------------------------------------------------------------------
(* No slot is lost in use.                                                 *)

AInv == IInv /\ SlotsAccounted /\ (~up => numAllocated = 0)

Accounted(s) == (\E k \in Keys : slotOf[k] = s) \/ freeList[s] > 0

LEMMA AccountedScheduler ==
  ASSUME AInv, SchedulerNext
  PROVE  SlotsAccounted'
<1> USE SlotFacts DEF AInv, IInv, TypeOK, process, table, pool, history
<1> SUFFICES ASSUME NEW s \in Slots, s \notin suspect', s \notin leaked', s < numAllocated'
             PROVE  Accounted(s)'
  BY DEF SlotsAccounted, Accounted
<1> PICK k \in Keys :
      \/ StoreFresh(k) \/ StoreReused(k) \/ StoreEvicting(k) \/ StoreFailed(k)
      \/ TransferStarts(k) \/ StoreDone(k) \/ LoadStarts(k) \/ LoadEnds(k)
  BY DEF SchedulerNext
<1>1. suspect' = suspect /\ leaked' = leaked
  BY DEF StoreFresh, StoreReused, StoreEvicting, StoreFailed, HandOut,
         TransferStarts, StoreDone, LoadStarts, LoadEnds
<1>2. s < numAllocated => Accounted(s)
  BY <1>1 DEF SlotsAccounted, Accounted
<1>3. CASE StoreFresh(k)
  <2>1. /\ ~Live(k) /\ freeList' = freeList /\ numAllocated' = numAllocated + 1
        /\ slotOf' = [j \in Keys |-> IF j = k THEN numAllocated
                                     ELSE IF j \in {} THEN NoSlot ELSE slotOf[j]]
    BY <1>3 DEF StoreFresh, Insert
  <2>2. CASE s = numAllocated
    BY <2>1, <2>2 DEF Accounted
  <2>3. CASE s # numAllocated
    <3>1. s < numAllocated
      BY <2>1, <2>3
    <3> QED BY <1>2, <2>1, <3>1 DEF Accounted, Live
  <2> QED BY <2>2, <2>3
<1>4. CASE StoreReused(k)
  <2>1. PICK t \in Slots :
          /\ freeList[t] > 0
          /\ slotOf' = [j \in Keys |-> IF j = k THEN t
                                       ELSE IF j \in {} THEN NoSlot ELSE slotOf[j]]
          /\ freeList' = [freeList EXCEPT ![t] = @ - 1]
    BY <1>4 DEF StoreReused, Insert
  <2>2. ~Live(k) /\ numAllocated' = numAllocated
    BY <1>4 DEF StoreReused
  <2> QED BY <1>2, <2>1, <2>2 DEF Accounted, Live
<1>5. CASE StoreEvicting(k)
  <2>1. PICK v \in Keys :
          slotOf' = [j \in Keys |-> IF j = k THEN slotOf[v]
                                   ELSE IF j \in {v} THEN NoSlot ELSE slotOf[j]]
    BY <1>5 DEF StoreEvicting, Insert
  <2>2. ~Live(k) /\ UNCHANGED <<numAllocated, freeList>>
    BY <1>5 DEF StoreEvicting
  <2>3. \A j \in Keys : slotOf[j] = s => \E i \in Keys : slotOf'[i] = s
    BY <2>1, <2>2 DEF Live
  <2> QED BY <1>2, <2>2, <2>3 DEF Accounted
<1>6. CASE StoreFailed(k)
  <2>1. /\ slotOf[k] \in Slots /\ numAllocated' = numAllocated
        /\ slotOf' = [slotOf EXCEPT ![k] = NoSlot]
        /\ freeList' = [freeList EXCEPT ![slotOf[k]] = @ + 1]
    BY <1>6 DEF StoreFailed, Remove, Live
  <2> QED BY <1>2, <2>1 DEF Accounted
<1>7. CASE TransferStarts(k) \/ StoreDone(k) \/ LoadStarts(k) \/ LoadEnds(k)
  <2>1. UNCHANGED <<slotOf, numAllocated, freeList>>
    BY <1>7 DEF TransferStarts, StoreDone, LoadStarts, LoadEnds
  <2> QED BY <1>2, <2>1 DEF Accounted
<1> QED BY <1>3, <1>4, <1>5, <1>6, <1>7

(* A process that starts from an index reaches every slot below its counter *)
(* but those the index says nothing of.                                    *)
LEMMA AccountedStart ==
  ASSUME AInv, NEW c \in Configs,
         StartCold(c) \/ StartWarm(c) \/ StartUnreadable(c) \/ StartHalfRestored(c)
  PROVE  SlotsAccounted'
<1> USE SlotFacts DEF AInv, IInv, TypeOK
<1>1. CASE StartWarm(c)
  <2> SUFFICES ASSUME NEW s \in Slots, s \notin leaked', s < numAllocated'
               PROVE  Accounted(s)'
    BY DEF SlotsAccounted, Accounted
  <2>1. /\ leaked' = Unindexed /\ numAllocated' = index.numAllocated
        /\ freeList' = RestoredFree
        /\ slotOf' = [k \in Keys |-> IF k \in Indexed THEN index.blocks[k] ELSE NoSlot]
    BY <1>1 DEF StartWarm, Launch, Restore, RestoreEntries
  <2>2. CASE s \in NamedSlots
    BY <2>1, <2>2 DEF NamedSlots, Indexed, Accounted
  <2>3. CASE s \notin NamedSlots
    <3>1. index.freeList[s] # 0 /\ index.freeList[s] \in Nat
      BY <2>1, <2>3 DEF Unindexed, IndexType
    <3> QED BY <2>1, <2>3, <3>1 DEF RestoredFree, Accounted
  <2> QED BY <2>2, <2>3
<1>2. CASE StartCold(c) \/ StartUnreadable(c) \/ StartHalfRestored(c)
  <2>1. numAllocated' = 0
    BY <1>2 DEF StartCold, StartUnreadable, StartHalfRestored, Launch, pool
  <2> QED BY <2>1 DEF SlotsAccounted
<1> QED BY <1>1, <1>2

LEMMA AccountedStep == AInv /\ [Next]_vars => AInv'
<1> SUFFICES ASSUME AInv, [Next]_vars PROVE AInv'
  OBVIOUS
<1>1. IInv'
  BY IInvStep DEF AInv
<1>2. CASE SchedulerNext
  <2> PICK k \in Keys :
        \/ StoreFresh(k) \/ StoreReused(k) \/ StoreEvicting(k) \/ StoreFailed(k)
        \/ TransferStarts(k) \/ StoreDone(k) \/ LoadStarts(k) \/ LoadEnds(k)
    BY <1>2 DEF SchedulerNext
  <2>1. up
    BY DEF StoreFresh, StoreReused, StoreEvicting, StoreFailed, TransferStarts, StoreDone,
           LoadStarts, LoadEnds
  <2>2. CASE StoreFresh(k) \/ StoreReused(k) \/ StoreEvicting(k)
    <3>1. up' = up
      BY <2>2 DEF StoreFresh, StoreReused, StoreEvicting, HandOut, process
    <3> QED BY <1>1, <1>2, <2>1, <3>1, AccountedScheduler DEF AInv
  <2>3. CASE StoreFailed(k) \/ TransferStarts(k) \/ StoreDone(k) \/ LoadStarts(k) \/ LoadEnds(k)
    <3>1. up' = up
      BY <2>3 DEF StoreFailed, TransferStarts, StoreDone, LoadStarts, LoadEnds, process
    <3> QED BY <1>1, <1>2, <2>1, <3>1, AccountedScheduler DEF AInv
  <2> QED BY <2>2, <2>3
<1>3. CASE SaverNext \/ SaverFails \/ UNCHANGED vars
  <2>1. UNCHANGED <<up, leaked, suspect, slotOf, numAllocated, freeList>>
    BY <1>3 DEF SaverNext, SaverWakes, SaverReadsCounter, SaverReadsFree, SaverReadsBlocks,
                SaverReplaces, SaverFails, vars, table, pool, process, history
  <2> QED BY <1>1, <2>1 DEF AInv, SlotsAccounted
<1>4. CASE Crash
  <2>1. numAllocated' = 0
    BY <1>4 DEF Crash
  <2> QED BY <1>1, <2>1, SlotFacts DEF AInv, SlotsAccounted
<1>5. CASE StartNext
  <2>1. up'
    BY <1>5 DEF StartNext, StartCold, StartWarm, StartUnreadable, StartHalfRestored, Launch
  <2>2. SlotsAccounted'
    BY <1>5, AccountedStart DEF StartNext
  <2> QED BY <1>1, <2>1, <2>2 DEF AInv
<1> QED BY <1>2, <1>3, <1>4, <1>5 DEF Next

(* A slot that was handed out has an owner or is free, unless the index the *)
(* process started from said nothing of it.                                *)
THEOREM SlotsAreAccounted == Spec => []SlotsAccounted
<1>1. Init => AInv
  BY IInvInit, SlotFacts DEF Init, AInv, SlotsAccounted
<1>2. AInv => SlotsAccounted
  BY DEF AInv
<1> QED BY <1>1, <1>2, AccountedStep, PTL DEF Spec

-----------------------------------------------------------------------------
(* The tier implements the abstract cache.                                 *)

LEMMA HitFacts ==
  ASSUME TypeOK
  PROVE  /\ Hits \subseteq Keys
         /\ \A k \in Hits : slotOf[k] \in Slots /\ refCnt[k] \in Nat
BY SlotFacts DEF TypeOK, Hits, Ready, Live, Pending

(* What is served, and how often it is being read, depends on the table    *)
(* and on the suspect slots alone; what is kept on the slot file alone.    *)
LEMMA SameTableSameHits ==
  ASSUME UNCHANGED <<slotOf, refCnt, suspect>>
  PROVE  UNCHANGED <<Hits, Readers>>
BY DEF Hits, Readers, Ready, Live

LEMMA SameContentSameKept ==
  ASSUME UNCHANGED content
  PROVE  UNCHANGED Kept
BY DEF Kept

(* A new block is not served yet; the block it evicts no longer is.        *)
LEMMA HandOutHides ==
  ASSUME TypeOK, NEW k \in Keys, NEW s \in Slots, NEW E \in SUBSET Keys,
         ~Live(k), Insert(k, s, E), HandOut(s)
  PROVE  /\ Hits' = Hits \ E
         /\ Readers' = [j \in Keys |-> IF j \in E THEN 0 ELSE Readers[j]]
<1> USE SlotFacts DEF TypeOK, Insert, HandOut, Hits, Ready, Live, Pending
<1>1. Hits' = Hits \ E
  OBVIOUS
<1>2. \A j \in Hits' : refCnt'[j] = refCnt[j]
  OBVIOUS
<1>3. Readers' = [j \in Keys |-> IF j \in E THEN 0 ELSE Readers[j]]
  BY ONLY <1>1, <1>2 DEF Readers
<1> QED BY <1>1, <1>3

LEMMA StoresRefine ==
  ASSUME IInv, NEW k \in Keys, StoreFresh(k) \/ StoreReused(k)
  PROVE  UNCHANGED Cache!vars
<1>1. PICK s \in Slots : Insert(k, s, {}) /\ HandOut(s) /\ ~Live(k)
  BY SlotFacts DEF StoreFresh, StoreReused, HasFresh, IInv, TypeOK
<1>2. Hits' = Hits \ {}
  BY <1>1, HandOutHides DEF IInv
<1>5. UNCHANGED <<up, cfg, Kept>>
  BY <1>1, SameContentSameKept DEF HandOut, process
<1>3. Readers' = [j \in Keys |-> Readers[j]]
  BY <1>1, HandOutHides DEF IInv
<1>4. Readers' = Readers
  BY ONLY <1>3 DEF Readers
<1> QED BY <1>2, <1>4, <1>5 DEF Cache!vars

LEMMA EvictingRefines ==
  ASSUME IInv, NEW k \in Keys, StoreEvicting(k)
  PROVE  Cache!Next
<1>1. PICK v \in Keys : Unpinned(v) /\ Insert(k, slotOf[v], {v}) /\ HandOut(slotOf[v])
  BY DEF StoreEvicting, MayEvict
<1>2. slotOf[v] \in Slots /\ refCnt[v] = 0 /\ ~Live(k) /\ up
  BY <1>1 DEF StoreEvicting, Unpinned, Live, IInv, TypeOK
<1>3. TypeOK /\ {v} \in SUBSET Keys
  BY DEF IInv
<1>4. Hits' = Hits \ {v}
  BY <1>1, <1>2, <1>3, HandOutHides
<1>5. Readers' = [j \in Keys |-> IF j \in {v} THEN 0 ELSE Readers[j]]
  BY <1>1, <1>2, <1>3, HandOutHides
<1>6. UNCHANGED <<up, cfg, Kept>>
  BY <1>1, SameContentSameKept DEF HandOut, process
<1>7. Readers[v] = 0
  BY <1>2 DEF Readers
<1>8. Readers' = Readers
  BY ONLY <1>5, <1>7 DEF Readers
<1>9. Cache!Forget(v)
  BY <1>2, <1>4, <1>6, <1>7, <1>8 DEF Cache!Forget
<1> QED BY <1>9 DEF Cache!Next

(* The slot a transfer begins to write serves nobody: its owner is not     *)
(* ready, and it has no other owner.                                       *)
LEMMA TransferRefines ==
  ASSUME IInv, NEW k \in Keys, TransferStarts(k)
  PROVE  Cache!Next \/ UNCHANGED Cache!vars
<1> DEFINE d == content[slotOf[k]]
<1>1. slotOf[k] \in Slots /\ content \in [Slots -> (Configs \X Keys) \cup {Blank, Torn}]
  BY DEF TransferStarts, Live, IInv, TypeOK
<1>2. up /\ UNCHANGED <<up, cfg>>
  BY DEF TransferStarts, process
<1>3. UNCHANGED <<Hits, Readers>>
  BY SameTableSameHits DEF TransferStarts, table, history
<1>4. content' = [content EXCEPT ![slotOf[k]] = Torn]
  BY DEF TransferStarts
<1>5. Kept' = Kept \/ Kept' = Kept \ {d}
  BY <1>1, <1>4 DEF Kept
<1>6. CASE Kept' = Kept
  BY <1>2, <1>3, <1>6 DEF Cache!vars
<1>7. CASE Kept' # Kept
  <2>1. d \in Kept
    BY <1>5, <1>7
  <2>2. \A s \in Slots : content[s] = d => s = slotOf[k]
    <3> SUFFICES ASSUME NEW s \in Slots, content[s] = d, s # slotOf[k] PROVE FALSE
      OBVIOUS
    <3>1. content'[s] = d
      BY <1>1, <1>4
    <3>2. d \in Kept'
      BY <2>1, <3>1 DEF Kept
    <3> QED BY <1>5, <1>7, <3>2
  <2>3. ~Cache!Served(d)
    <3> SUFFICES ASSUME d[1] = cfg, d[2] \in Hits PROVE FALSE
      BY DEF Cache!Served
    <3>1. d = <<d[1], d[2]>>
      BY <1>1, <2>1 DEF Kept
    <3>2. PICK j \in Keys : j = d[2] /\ Ready(j) /\ slotOf[j] \notin suspect
      BY DEF Hits
    <3>3. slotOf[j] \in Slots /\ content[slotOf[j]] = d
      BY <3>1, <3>2 DEF IInv, HitsContained, TypeOK, Ready, Live
    <3>4. slotOf[j] = slotOf[k]
      BY <2>2, <3>3
    <3>5. j = k
      BY <1>1, <3>2, <3>4 DEF IInv, OwnersContained
    <3> QED BY <3>2, <3>5 DEF TransferStarts, Ready
  <2>4. Cache!Overwrite(d)
    BY <1>2, <1>3, <1>5, <1>7, <2>3 DEF Cache!Overwrite
  <2> QED BY <2>1, <2>4 DEF Cache!Next
<1> QED BY <1>6, <1>7

LEMMA DoneRefines ==
  ASSUME IInv, NEW k \in Keys, StoreDone(k)
  PROVE  Cache!Next
<1> USE SlotFacts
<1>1. slotOf[k] \in Slots /\ content[slotOf[k]] = Torn /\ refCnt[k] = Pending /\ up
  BY DEF StoreDone, Live, IInv, TypeOK
<1>2. /\ content' = [content EXCEPT ![slotOf[k]] = <<cfg, k>>]
      /\ refCnt' = [refCnt EXCEPT ![k] = 0]
      /\ UNCHANGED <<up, cfg, slotOf, suspect>>
  BY DEF StoreDone, process, history
<1>3. Kept' = Kept \cup {<<cfg, k>>}
  <2>1. <<cfg, k>> # Torn /\ <<cfg, k>> # Blank
    BY ContentAssumption DEF IInv, TypeOK
  <2>2. content \in [Slots -> (Configs \X Keys) \cup {Blank, Torn}]
    BY DEF IInv, TypeOK
  <2> QED BY <1>1, <1>2, <2>1, <2>2 DEF Kept
<1>4. \A j \in Keys : /\ j # k => refCnt'[j] = refCnt[j]
                      /\ refCnt'[k] = 0
  BY <1>2 DEF IInv, TypeOK
<1>6. k \notin Hits
  BY <1>1 DEF Hits, Ready
<1>5. Hits' = Hits \/ Hits' = Hits \cup {k}
  <2>1. \A j \in Keys : j # k => (j \in Hits' <=> j \in Hits)
    BY <1>2, <1>4 DEF Hits, Ready, Live
  <2>2. Hits \subseteq Keys /\ Hits' \subseteq Keys
    BY DEF Hits
  <2> QED BY <1>6, <2>1, <2>2
<1>7. Readers' = Readers
  BY <1>4, <1>5, <1>6 DEF Readers
<1>8. Cache!Store(k)
  BY <1>1, <1>2, <1>3, <1>5, <1>7 DEF Cache!Store
<1> QED BY <1>8 DEF Cache!Next

LEMMA FailedRefines ==
  ASSUME IInv, NEW k \in Keys, StoreFailed(k)
  PROVE  UNCHANGED Cache!vars
<1>1. /\ refCnt[k] = Pending
      /\ slotOf' = [slotOf EXCEPT ![k] = NoSlot]
      /\ refCnt' = [refCnt EXCEPT ![k] = Pending]
      /\ UNCHANGED <<up, cfg, content, suspect>>
  BY DEF StoreFailed, Remove, process, history
<1>2. Hits' = Hits /\ \A j \in Hits : refCnt'[j] = refCnt[j]
  BY <1>1 DEF Hits, Ready, Live, IInv, TypeOK
<1>3. Readers' = Readers
  BY ONLY <1>2 DEF Readers
<1> QED BY <1>1, <1>2, <1>3, SameContentSameKept DEF Cache!vars

LEMMA LoadsRefine ==
  ASSUME IInv, NEW k \in Keys, LoadStarts(k) \/ LoadEnds(k)
  PROVE  Cache!Next \/ UNCHANGED Cache!vars
<1>1. up /\ UNCHANGED <<up, cfg, slotOf, content, suspect>>
  BY DEF LoadStarts, LoadEnds, process, history
<1>2. refCnt \in [Keys -> Pending .. MaxRef] /\ Ready(k)
  BY DEF LoadStarts, LoadEnds, IInv, TypeOK
<1>3. \A j \in Keys : /\ j # k => refCnt'[j] = refCnt[j]
                      /\ refCnt'[k] # Pending
  BY <1>2 DEF LoadStarts, LoadEnds, Ready, Pending
<1>4. Hits' = Hits
  BY <1>1, <1>2, <1>3 DEF Hits, Ready, Live
<1>5. CASE k \notin Hits
  <2>1. Readers' = Readers
    BY <1>3, <1>4, <1>5 DEF Readers
  <2> QED BY <1>1, <1>4, <2>1, SameContentSameKept DEF Cache!vars
<1>6. CASE k \in Hits /\ LoadStarts(k)
  <2>1. refCnt'[k] = refCnt[k] + 1
    BY <1>2, <1>6 DEF LoadStarts
  <2>2. Readers' = [Readers EXCEPT ![k] = @ + 1]
    BY <1>3, <1>4, <1>6, <2>1 DEF Readers
  <2>3. Cache!Read(k)
    BY <1>1, <1>4, <1>6, <2>2, SameContentSameKept DEF Cache!Read
  <2> QED BY <2>3 DEF Cache!Next
<1>7. CASE k \in Hits /\ LoadEnds(k)
  <2>1. refCnt'[k] = refCnt[k] - 1 /\ refCnt[k] > 0
    BY <1>2, <1>7 DEF LoadEnds
  <2>2. Readers' = [Readers EXCEPT ![k] = @ - 1] /\ Readers[k] > 0
    BY <1>3, <1>4, <1>7, <2>1 DEF Readers
  <2>3. Cache!Release(k)
    BY <1>1, <1>4, <2>2, SameContentSameKept DEF Cache!Release
  <2> QED BY <2>3 DEF Cache!Next
<1> QED BY <1>5, <1>6, <1>7

LEMMA CrashRefines ==
  ASSUME Crash
  PROVE  Cache!Next
<1>1. Hits' = {}
  BY SlotFacts DEF Crash, Hits, Ready, Live, Nowhere
<1>2. Readers' = Cache!NoReaders
  BY <1>1 DEF Readers, Cache!NoReaders
<1>3. up /\ up' = FALSE /\ UNCHANGED <<cfg, content>>
  BY DEF Crash
<1>4. Cache!Die
  BY <1>1, <1>2, <1>3, SameContentSameKept DEF Cache!Die
<1> QED BY <1>4 DEF Cache!Next

(* What a start brings back outside the suspect slots is still there.      *)
LEMMA StartRefines ==
  ASSUME IInv, IInv', NEW c \in Configs,
         StartCold(c) \/ StartWarm(c) \/ StartUnreadable(c) \/ StartHalfRestored(c)
  PROVE  Cache!Next
<1> USE SlotFacts
<1>1. ~up /\ up' = TRUE /\ cfg' = c /\ UNCHANGED content
  BY DEF StartCold, StartWarm, StartUnreadable, StartHalfRestored, Launch
<1>2. Hits = {}
  BY <1>1 DEF IInv, DownIsEmpty, Hits, Ready, Live, Nowhere
<1>3. \A k \in Keys : refCnt'[k] = Pending \/ refCnt'[k] = 0
  <2>1. \A k \in Keys : refCnt[k] = Pending
    BY <1>1 DEF IInv, DownIsEmpty, AbsentIsPending, Live, Nowhere
  <2> QED BY <2>1 DEF StartCold, StartWarm, StartUnreadable, StartHalfRestored, Restore,
                      RestoreEntries, table
<1>4. Readers' = Readers
  <2>1. \A k \in Hits' : k \in Keys /\ refCnt'[k] # Pending
    BY DEF Hits, Ready
  <2>2. Readers' = [k \in Keys |-> 0] /\ Readers = [k \in Keys |-> 0]
    BY <1>2, <1>3, <2>1 DEF Readers
  <2> QED BY <2>2
<1>5. Hits' \in SUBSET {k \in Keys : <<c, k>> \in Kept}
  <2> SUFFICES ASSUME NEW k \in Hits'
               PROVE  k \in Keys /\ <<c, k>> \in Kept
    OBVIOUS
  <2>1. k \in Keys /\ Ready(k)' /\ slotOf'[k] \notin suspect'
    BY DEF Hits
  <2>2. content'[slotOf'[k]] = <<c, k>> /\ slotOf'[k] \in Slots
    BY <1>1, <2>1 DEF IInv, HitsContained, TypeOK, Ready, Live
  <2>3. <<c, k>> # Torn /\ <<c, k>> # Blank
    BY <2>1, ContentAssumption
  <2> QED BY <1>1, <2>1, <2>2, <2>3 DEF Kept
<1>6. Cache!Start(c)
  BY <1>1, <1>4, <1>5, SameContentSameKept DEF Cache!Start
<1> QED BY <1>6 DEF Cache!Next

LEMMA CacheInit == Init => Cache!Init
<1> SUFFICES ASSUME Init PROVE Cache!Init
  OBVIOUS
<1>1. Hits = {}
  BY SlotFacts DEF Init, Hits, Ready, Live, Nowhere
<1>2. Readers = Cache!NoReaders
  BY <1>1 DEF Readers, Cache!NoReaders
<1>3. Kept = {}
  BY DEF Init, Kept
<1> QED BY <1>1, <1>2, <1>3 DEF Init, Cache!Init

LEMMA CacheStep ==
  ASSUME IInv, IInv', [Next]_vars
  PROVE  Cache!Next \/ UNCHANGED Cache!vars
<1>1. CASE SchedulerNext
  BY <1>1, StoresRefine, EvictingRefines, TransferRefines, DoneRefines, FailedRefines,
     LoadsRefine DEF SchedulerNext
<1>2. CASE SaverNext \/ SaverFails \/ UNCHANGED vars
  <2>1. UNCHANGED <<up, cfg, slotOf, refCnt, content, suspect>>
    BY <1>2 DEF SaverNext, SaverWakes, SaverReadsCounter, SaverReadsFree, SaverReadsBlocks,
                SaverReplaces, SaverFails, vars, table, process, history
  <2> QED BY <2>1, SameTableSameHits, SameContentSameKept DEF Cache!vars
<1>3. CASE Crash
  BY <1>3, CrashRefines
<1>4. CASE StartNext
  BY <1>4, StartRefines DEF StartNext
<1> QED BY <1>1, <1>2, <1>3, <1>4 DEF Next

(* For any number of keys, slots and configurations the tier implements    *)
(* the cache that outlives its process.                                    *)
THEOREM TierIsACache == Spec => IsACache
<1>1. IInv /\ IInv' /\ [Next]_vars => [Cache!Next]_Cache!vars
  BY CacheStep
<1> QED BY <1>1, CacheInit, InvariantHolds, PTL DEF Spec, IsACache, Cache!Spec

-----------------------------------------------------------------------------
(* The counters.                                                           *)

Evictable == {k \in Keys : Unpinned(k)}
Writing   == {k \in Keys : Live(k) /\ ~Ready(k)}

(* A new process finds the counters at zero.                               *)
DownIsZero == ~up => numEvictable = 0 /\ numWritePending = 0

NInv == IInv /\ CountersExact /\ DownIsZero

LEMMA OneMore ==
  ASSUME NEW S \in SUBSET Keys, NEW k \in Keys \ S
  PROVE  /\ Cardinality(S \cup {k}) = Cardinality(S) + 1
         /\ Cardinality((S \cup {k}) \ {k}) = Cardinality(S)
<1>1. IsFiniteSet(S)
  BY KeysAssumption, FS_Subset
<1>2. (S \cup {k}) \ {k} = S
  OBVIOUS
<1> QED BY <1>1, <1>2, FS_AddElement

LEMMA OneLess ==
  ASSUME NEW S \in SUBSET Keys, NEW k \in S
  PROVE  Cardinality(S \ {k}) = Cardinality(S) - 1
<1>1. IsFiniteSet(S)
  BY KeysAssumption, FS_Subset
<1> QED BY <1>1, FS_RemoveElement

(* Every operation of the manager moves at most one key into or out of     *)
(* either set, and counts it.                                              *)
LEMMA CountedScheduler ==
  ASSUME IInv, NEW k \in Keys,
         \/ StoreFresh(k) \/ StoreReused(k) \/ StoreEvicting(k)
         \/ TransferStarts(k) \/ StoreDone(k) \/ StoreFailed(k)
         \/ LoadStarts(k) \/ LoadEnds(k)
  PROVE  /\ Cardinality(Evictable') - Cardinality(Evictable) = numEvictable' - numEvictable
         /\ Cardinality(Writing') - Cardinality(Writing) = numWritePending' - numWritePending
<1> DEFINE E == Evictable
           W == Writing
<1>0. /\ E \in SUBSET Keys /\ W \in SUBSET Keys
      /\ Cardinality(E) \in Nat /\ Cardinality(W) \in Nat
      /\ numEvictable \in Int /\ numWritePending \in Int
      /\ slotOf \in [Keys -> Slots \cup {NoSlot}] /\ refCnt \in [Keys -> Pending .. MaxRef]
      /\ Pending \in Int /\ Pending # 0
  BY CountedKeys DEF IInv, TypeOK, Evictable, Writing, Pending
<1> USE SlotFacts DEF Evictable, Writing, Live, Ready, Unpinned
<1>a. ASSUME NEW s \in Slots, ~Live(k), Insert(k, s, {})
      PROVE  Evictable' = E /\ k \notin W /\ Writing' = W \cup {k}
  <2>1. Evictable' = E
    BY <1>0, <1>a DEF Insert
  <2>2. k \notin W
    BY <1>a
  <2>3. Writing' = W \cup {k}
    BY <1>0, <1>a DEF Insert
  <2> QED BY <2>1, <2>2, <2>3
<1>1. CASE StoreFresh(k)
  <2>1. numAllocated \in Slots
    BY <1>1 DEF StoreFresh, HasFresh, IInv, TypeOK
  <2>2. Evictable' = E /\ k \notin W /\ Writing' = W \cup {k}
    BY <1>1, <1>a, <2>1 DEF StoreFresh
  <2>3. numEvictable' = numEvictable /\ numWritePending' = numWritePending + 1
    BY <1>1 DEF StoreFresh
  <2> HIDE DEF Evictable, Writing
  <2> QED BY <1>0, <2>2, <2>3, OneMore
<1>2. CASE StoreReused(k)
  <2>1. PICK s \in Slots : Insert(k, s, {})
    BY <1>2 DEF StoreReused
  <2>2. Evictable' = E /\ k \notin W /\ Writing' = W \cup {k}
    BY <1>2, <1>a, <2>1 DEF StoreReused
  <2>3. numEvictable' = numEvictable /\ numWritePending' = numWritePending + 1
    BY <1>2 DEF StoreReused
  <2> HIDE DEF Evictable, Writing
  <2> QED BY <1>0, <2>2, <2>3, OneMore
<1>3. CASE StoreEvicting(k)
  <2>1. PICK v \in Keys : Unpinned(v) /\ Insert(k, slotOf[v], {v})
    BY <1>3 DEF StoreEvicting, MayEvict
  <2>2. v \in E /\ k # v /\ slotOf[v] # NoSlot /\ k \notin E /\ k \notin W
    BY <1>3, <2>1 DEF StoreEvicting
  <2>3. Evictable' = E \ {v}
    BY <1>0, <2>1, <2>2 DEF Insert
  <2>4. Writing' = W \cup {k}
    BY <1>0, <2>1, <2>2 DEF Insert
  <2>5. numEvictable' = numEvictable - 1 /\ numWritePending' = numWritePending + 1
    BY <1>3 DEF StoreEvicting
  <2>6. Cardinality(E \ {v}) = Cardinality(E) - 1
    BY <1>0, <2>2, OneLess
  <2>7. Cardinality(W \cup {k}) = Cardinality(W) + 1
    BY <1>0, <2>2, OneMore
  <2> HIDE DEF Evictable, Writing
  <2> QED BY <1>0, <2>3, <2>4, <2>5, <2>6, <2>7
<1>4. CASE TransferStarts(k)
  <2>1. UNCHANGED <<slotOf, refCnt, numEvictable, numWritePending>>
    BY <1>4 DEF TransferStarts, table, pool
  <2> QED BY <1>0, <2>1
<1>5. CASE StoreDone(k)
  <2>1. /\ slotOf' = slotOf /\ refCnt' = [refCnt EXCEPT ![k] = 0]
        /\ Live(k) /\ refCnt[k] = Pending
        /\ numEvictable' = numEvictable + 1 /\ numWritePending' = numWritePending - 1
    BY <1>5 DEF StoreDone
  <2>2. k \in Keys \ E /\ k \in W
    BY <1>0, <2>1
  <2>3. Evictable' = E \cup {k}
    BY <1>0, <2>1
  <2>4. Writing' = W \ {k}
    BY <1>0, <2>1
  <2>5. Cardinality(E \cup {k}) = Cardinality(E) + 1 /\ Cardinality(W \ {k}) = Cardinality(W) - 1
    BY <1>0, <2>2, OneMore, OneLess
  <2> QED BY <1>0, <2>1, <2>3, <2>4, <2>5
<1>6. CASE StoreFailed(k)
  <2>1. /\ slotOf' = [slotOf EXCEPT ![k] = NoSlot] /\ refCnt' = [refCnt EXCEPT ![k] = Pending]
        /\ Live(k) /\ refCnt[k] = Pending
        /\ numEvictable' = numEvictable /\ numWritePending' = numWritePending - 1
    BY <1>6 DEF StoreFailed, Remove
  <2>2. k \in W
    BY <1>0, <2>1
  <2>3. Evictable' = E
    BY <1>0, <2>1
  <2>4. Writing' = W \ {k}
    BY <1>0, <2>1
  <2>5. Cardinality(W \ {k}) = Cardinality(W) - 1
    BY <1>0, <2>2, OneLess
  <2> HIDE DEF Evictable, Writing
  <2> QED BY <1>0, <2>1, <2>3, <2>4, <2>5
<1>7. CASE LoadStarts(k)
  <2>1. /\ slotOf' = slotOf /\ refCnt' = [refCnt EXCEPT ![k] = refCnt[k] + 1]
        /\ Live(k) /\ refCnt[k] # Pending
        /\ numEvictable' = IF refCnt[k] = 0 THEN numEvictable - 1 ELSE numEvictable
        /\ numWritePending' = numWritePending
    BY <1>7 DEF LoadStarts
  <2>2. refCnt[k] \in Nat /\ refCnt[k] + 1 # Pending /\ refCnt[k] + 1 # 0
    BY <1>0, <2>1 DEF Pending
  <2>3. Writing' = W
    BY <1>0, <2>1, <2>2
  <2>4. CASE refCnt[k] = 0
    <3>1. k \in E
      BY <2>1, <2>4
    <3>2. Evictable' = E \ {k}
      BY <1>0, <2>1, <2>2
    <3>3. Cardinality(E \ {k}) = Cardinality(E) - 1
      BY <1>0, <3>1, OneLess
    <3> HIDE DEF Evictable, Writing
    <3> QED BY <1>0, <2>1, <2>3, <2>4, <3>2, <3>3
  <2>5. CASE refCnt[k] # 0
    <3>1. Evictable' = E
      BY <1>0, <2>1, <2>2, <2>5
    <3> HIDE DEF Evictable, Writing
    <3> QED BY <1>0, <2>1, <2>3, <2>5, <3>1
  <2> QED BY <2>4, <2>5
<1>8. CASE LoadEnds(k)
  <2>1. /\ slotOf' = slotOf /\ refCnt' = [refCnt EXCEPT ![k] = refCnt[k] - 1]
        /\ Live(k) /\ refCnt[k] # Pending /\ refCnt[k] > 0
        /\ numEvictable' = IF refCnt[k] = 1 THEN numEvictable + 1 ELSE numEvictable
        /\ numWritePending' = numWritePending
    BY <1>8 DEF LoadEnds
  <2>2. refCnt[k] \in Nat /\ refCnt[k] - 1 # Pending
    BY <1>0, <2>1 DEF Pending
  <2>3. Writing' = W
    BY <1>0, <2>1, <2>2
  <2>4. CASE refCnt[k] = 1
    <3>1. k \in Keys \ E
      BY <2>1, <2>4
    <3>2. Evictable' = E \cup {k}
      BY <1>0, <2>1, <2>2, <2>4
    <3>3. Cardinality(E \cup {k}) = Cardinality(E) + 1
      BY <1>0, <3>1, OneMore
    <3> QED BY <1>0, <2>1, <2>3, <2>4, <3>2, <3>3
  <2>5. CASE refCnt[k] # 1
    <3>1. Evictable' = E
      BY <1>0, <2>1, <2>2, <2>5
    <3> QED BY <1>0, <2>1, <2>3, <2>5, <3>1
  <2> QED BY <2>4, <2>5
<1> QED BY <1>1, <1>2, <1>3, <1>4, <1>5, <1>6, <1>7, <1>8

(* A start counts what it restored; a table that nobody may trust any more *)
(* is left without a saver.                                                *)
LEMMA CountedStart ==
  ASSUME NInv, NEW c \in Configs,
         StartCold(c) \/ StartWarm(c) \/ StartUnreadable(c) \/ StartHalfRestored(c)
  PROVE  CountersExact' /\ DownIsZero'
<1>1. ~up /\ up'
  BY DEF StartCold, StartWarm, StartUnreadable, StartHalfRestored, Launch
<1>2. DownIsZero'
  BY <1>1 DEF DownIsZero
<1>3. CASE StartCold(c)
  <2>1. /\ slotOf' = Nowhere /\ numEvictable' = 0 /\ numWritePending' = 0
    BY <1>1, <1>3 DEF StartCold, table, pool, NInv, DownIsZero, IInv, DownIsEmpty
  <2>2. Evictable' = {} /\ Writing' = {}
    BY <2>1 DEF Evictable, Writing, Unpinned, Live, Nowhere
  <2> QED BY <1>2, <2>1, <2>2, FS_EmptySet DEF CountersExact, Evictable, Writing
<1>4. CASE StartWarm(c)
  <2>1. /\ slotOf' = [k \in Keys |-> IF k \in Indexed THEN index.blocks[k] ELSE NoSlot]
        /\ refCnt' = [k \in Keys |-> IF k \in Indexed THEN 0 ELSE Pending]
        /\ numEvictable' = Cardinality(Indexed) /\ numWritePending' = 0
    BY <1>4 DEF StartWarm, Restore, RestoreEntries
  <2>2. Evictable' = Indexed
    BY <2>1 DEF Evictable, Unpinned, Live, Indexed
  <2>3. Writing' = {}
    BY <2>1 DEF Writing, Live, Ready, Pending
  <2> QED BY <1>2, <2>1, <2>2, <2>3, FS_EmptySet DEF CountersExact, Evictable, Writing
<1>5. CASE StartUnreadable(c) \/ StartHalfRestored(c)
  <2>1. saver' = "off"
    BY <1>5 DEF StartUnreadable, StartHalfRestored, Launch
  <2> QED BY <1>2, <2>1 DEF CountersExact
<1> QED BY <1>3, <1>4, <1>5

LEMMA CountedStep == NInv /\ [Next]_vars => NInv'
<1> SUFFICES ASSUME NInv, [Next]_vars PROVE CountersExact' /\ DownIsZero'
  BY IInvStep DEF NInv
<1>1. ASSUME SchedulerNext PROVE CountersExact' /\ DownIsZero'
  <2>1. PICK k \in Keys :
          \/ StoreFresh(k) \/ StoreReused(k) \/ StoreEvicting(k)
          \/ TransferStarts(k) \/ StoreDone(k) \/ StoreFailed(k)
          \/ LoadStarts(k) \/ LoadEnds(k)
    BY <1>1 DEF SchedulerNext
  <2>2. up' = up /\ up /\ saver' = saver
    BY <2>1 DEF StoreFresh, StoreReused, StoreEvicting, TransferStarts, StoreDone, StoreFailed,
       LoadStarts, LoadEnds, HandOut, process, saving
  <2>3. /\ Cardinality(Evictable') - Cardinality(Evictable) = numEvictable' - numEvictable
        /\ Cardinality(Writing') - Cardinality(Writing) = numWritePending' - numWritePending
    BY <2>1, CountedScheduler DEF NInv
  <2>4. /\ Cardinality(Evictable) \in Nat /\ Cardinality(Writing) \in Nat
        /\ numEvictable \in Int /\ numWritePending \in Int
    BY CountedKeys DEF Evictable, Writing, NInv, IInv, TypeOK
  <2>5. /\ Cardinality(Evictable') \in Nat /\ Cardinality(Writing') \in Nat
        /\ numEvictable' \in Int /\ numWritePending' \in Int
    BY CountedKeys, TypeStep DEF Evictable, Writing, NInv, IInv, TypeOK
  <2>6. saver # "off" => numEvictable = Cardinality(Evictable) /\ numWritePending = Cardinality(Writing)
    BY DEF NInv, CountersExact, Evictable, Writing
  <2>7. saver # "off" => /\ numEvictable' = Cardinality(Evictable')
                        /\ numWritePending' = Cardinality(Writing')
    BY <2>3, <2>4, <2>5, <2>6
  <2>8. CountersExact'
    BY <2>2, <2>7 DEF CountersExact, Evictable, Writing
  <2> QED BY <2>2, <2>8 DEF DownIsZero
<1>2. ASSUME SaverNext \/ SaverFails \/ UNCHANGED vars PROVE CountersExact' /\ DownIsZero'
  <2>1. UNCHANGED <<up, slotOf, refCnt, numEvictable, numWritePending>>
    BY <1>2 DEF SaverNext, SaverWakes, SaverReadsCounter, SaverReadsFree, SaverReadsBlocks,
       SaverReplaces, SaverFails, vars, process, table, pool
  <2>2. saver' # "off" => saver # "off"
    BY <1>2 DEF SaverNext, SaverWakes, SaverReadsCounter, SaverReadsFree, SaverReadsBlocks,
       SaverReplaces, SaverFails, SaverIs, vars, saving
  <2> QED BY <2>1, <2>2 DEF NInv, CountersExact, DownIsZero, Unpinned, Live, Ready
<1>3. ASSUME Crash PROVE CountersExact' /\ DownIsZero'
  BY <1>3 DEF Crash, CountersExact, DownIsZero
<1>4. ASSUME StartNext PROVE CountersExact' /\ DownIsZero'
  BY <1>4, CountedStart DEF StartNext
<1> QED BY <1>1, <1>2, <1>3, <1>4 DEF Next

(* While the tier saves, the two counters that the manager decides by, and *)
(* that a restore has to derive, count what they say.                      *)
THEOREM CountersAreExact == Spec => []CountersExact
<1>1. Init => NInv
  BY IInvInit DEF Init, NInv, CountersExact, DownIsZero
<1>2. NInv => CountersExact
  BY DEF NInv
<1> QED BY <1>1, <1>2, CountedStep, PTL DEF Spec

-----------------------------------------------------------------------------
(* What is promised without exception, where nothing is suspect.           *)

LEMMA NothingSuspect == IInv /\ suspect = {} => LiveSlotsNotReissued
<1> SUFFICES ASSUME IInv, suspect = {}, NEW j \in Keys, NEW k \in Keys, Live(j), slotOf[j] = slotOf[k]
             PROVE  j = k
  BY DEF LiveSlotsNotReissued
<1>1. slotOf[j] \in Slots
  BY DEF IInv, TypeOK, Live
<1> QED BY <1>1 DEF IInv, OwnersContained

(* The first process finds no index, and leaves nothing suspect.           *)
FirstLife == suspect = {} /\ (~up => index = NoIndex)

LEMMA FirstLifeStep ==
  ASSUME MaxCrashes = 0, IInv, FirstLife, [Next]_vars
  PROVE  FirstLife'
<1> USE DEF FirstLife
<1>1. CASE SchedulerNext
  <2> SUFFICES ASSUME NEW k \in Keys,
               \/ StoreFresh(k) \/ StoreReused(k) \/ StoreEvicting(k)
               \/ TransferStarts(k) \/ StoreDone(k) \/ StoreFailed(k)
               \/ LoadStarts(k) \/ LoadEnds(k)
               PROVE  FirstLife'
    BY <1>1 DEF SchedulerNext
  <2>1. UNCHANGED <<suspect, up, index>>
    BY DEF StoreFresh, StoreReused, StoreEvicting, HandOut, TransferStarts, StoreDone, StoreFailed,
           LoadStarts, LoadEnds, process, saving, history
  <2> QED BY <2>1
<1>2. CASE SaverNext \/ SaverFails
  <2>1. up /\ up' = up /\ suspect' = suspect
    BY <1>2 DEF SaverNext, SaverWakes, SaverReadsCounter, SaverReadsFree, SaverReadsBlocks,
                SaverReplaces, SaverFails, SaverIs, process, history, IInv, SoundPayload
  <2> QED BY <2>1
<1>3. CASE Crash
  BY <1>3 DEF Crash, IInv, TypeOK
<1>4. CASE StartNext
  <2> PICK c \in Configs :
        StartCold(c) \/ StartWarm(c) \/ StartUnreadable(c) \/ StartHalfRestored(c)
    BY <1>4 DEF StartNext
  <2>1. index = NoIndex
    BY DEF StartCold, StartWarm, StartUnreadable, StartHalfRestored, Launch
  <2>2. NamedSlots = {} /\ Misnamed = {}
    BY <2>1 DEF NamedSlots, Indexed, Misnamed, NoIndex, Nowhere, NoneFree
  <2>3. CASE StartHalfRestored(c)
    <3>1. \A s \in Slots : ~(freeList'[s] > 0)
      BY <2>1, <2>3 DEF StartHalfRestored, Launch, RestoredFree, IInv, DownIsEmpty, NoIndex, NoneFree
    <3> QED BY <2>2, <2>3, <3>1 DEF StartHalfRestored, Launch
  <2>4. CASE StartCold(c) \/ StartWarm(c) \/ StartUnreadable(c)
    BY <2>2, <2>4 DEF StartCold, StartWarm, StartUnreadable, Launch
  <2> QED BY <2>3, <2>4
<1>5. CASE UNCHANGED vars
  BY <1>5 DEF vars, process, history
<1> QED BY <1>1, <1>2, <1>3, <1>4, <1>5 DEF Next

(* Lines 34-36 are kept by a process that was not preceded by another: only *)
(* a restart can hand out a live slot again, whatever is stored, evicted,  *)
(* refused or saved before.                                                *)
THEOREM OneLifeReissuesNothing ==
  ASSUME MaxCrashes = 0 PROVE Spec => []LiveSlotsNotReissued
<1>1. Init => FirstLife
  BY DEF Init, FirstLife
<1>2. IInv /\ FirstLife /\ [Next]_vars => FirstLife'
  BY FirstLifeStep
<1>3. IInv /\ FirstLife => LiveSlotsNotReissued
  BY NothingSuspect DEF FirstLife
<1> QED BY <1>1, <1>2, <1>3, InvariantHolds, PTL DEF Spec
=============================================================================
