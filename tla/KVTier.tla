------------------------------- MODULE KVTier -------------------------------
(***************************************************************************)
(* The restart-survivable NVMe KV tier of tools/kv_persist_policy.py.      *)
(*                                                                         *)
(* Two threads of one engine process share the state below.  The scheduler *)
(* thread stores, loads and evicts blocks through the offloading manager   *)
(* (vLLM's CPUOffloadingManager, external: only what the file relies on is *)
(* modelled).  The saver thread wakes every 20 s and, if the table was     *)
(* touched, copies the allocator counter, then the free list, then the     *)
(* table, and renames the result over the index file.  Only `insert`,      *)
(* `remove`, `restore_entries` and `snapshot_entries` take the policy's    *)
(* lock, so the scheduler may run between any two of those copies.         *)
(*                                                                         *)
(* A crash forgets everything but the slot file and the index file; the    *)
(* next `get_manager` restores the table and the allocator from the index. *)
(***************************************************************************)
EXTENDS Integers, FiniteSets

CONSTANTS
  Keys,             \* block hashes
  NumSlots,         \* slots of the NVMe file (mgr._num_blocks)
  Configs,          \* what the fingerprint tells apart
  Blank,            \* a slot never written
  Torn,             \* a slot whose write has begun and not ended
  MaxRef,           \* bound: concurrent loads of one block
  MaxCrashes,       \* bound: process deaths
  MaxSaveFailures,  \* bound: snapshots that raise
  RestoreFaults     \* where _restore may raise: a subset of FaultPoints

FaultPoints == {"read", "entries"}

ASSUME SlotsAssumption == NumSlots \in Nat \ {0}
ASSUME BoundsAssumption ==
  /\ MaxRef \in Nat \ {0}
  /\ MaxCrashes \in Nat
  /\ MaxSaveFailures \in Nat
ASSUME FaultsAssumption == RestoreFaults \subseteq FaultPoints
ASSUME KeysAssumption == IsFiniteSet(Keys)
ASSUME ContentAssumption ==
  /\ Blank \notin Configs \X Keys
  /\ Torn \notin Configs \X Keys
  /\ Blank # Torn

Slots  == 0 .. NumSlots - 1
NoSlot == -1

Pending == -1          \* BlockStatus.ref_cnt before the store completes

VARIABLES
  up,               \* a process is running
  cfg,              \* the configuration it runs
  slotOf,           \* policy.blocks: key -> block_id, NoSlot when absent
  refCnt,           \* policy.blocks: key -> ref_cnt, Pending when not ready
  numAllocated,     \* mgr._num_allocated_blocks: slots below it were handed out
  freeList,         \* mgr._free_list, as a bag: slot -> number of copies
  numEvictable,     \* mgr._num_evictable_cache_blocks
  numWritePending,  \* mgr._num_write_pending_blocks
  dirty,            \* pol._dirty # 0
  saver,            \* where the saver thread is
  payload,          \* the snapshot it is assembling
  index,            \* the index file
  content,          \* the slot file
  crashes, saveFailures,
  unsaved,          \* history: the last save failed, and none has begun since
  reusedPayload,    \* history: slots handed out since payload's table was read
  reusedIndex,      \* history: slots handed out since index's table was read
  suspect,          \* history: slots a restored index got wrong
  leaked            \* history: slots the restored index says nothing of

table   == <<slotOf, refCnt>>
pool    == <<numAllocated, freeList, numEvictable, numWritePending>>
process == <<up, cfg, leaked>>
saving  == <<saver, payload>>
faults  == <<crashes, saveFailures, unsaved>>
history == <<reusedPayload, reusedIndex, suspect>>
vars    == <<process, table, pool, dirty, saving, index, content, faults, history>>

Nowhere    == [k \in Keys |-> NoSlot]
AllPending == [k \in Keys |-> Pending]
NoneFree   == [s \in Slots |-> 0]

(* What an index file holds; without a fingerprint there is no file.       *)
NoIndex == [fingerprint |-> Blank, numAllocated |-> 0,
            freeList |-> NoneFree, blocks |-> Nowhere]

IndexType ==
  [fingerprint : Configs \cup {Blank}, numAllocated : 0 .. NumSlots,
   freeList : [Slots -> Nat], blocks : [Keys -> Slots \cup {NoSlot}]]

SaverSteps == {"off", "wait", "counter", "free", "blocks", "replace"}

(* The types of the variables, and the bounds of the counters.             *)

TypeOK ==
  /\ up \in BOOLEAN
  /\ cfg \in Configs
  /\ slotOf \in [Keys -> Slots \cup {NoSlot}]
  /\ refCnt \in [Keys -> Pending .. MaxRef]
  /\ numAllocated \in 0 .. NumSlots
  /\ freeList \in [Slots -> Nat]
  /\ numEvictable \in Int
  /\ numWritePending \in Int
  /\ dirty \in BOOLEAN
  /\ saver \in SaverSteps
  /\ payload \in IndexType
  /\ index \in IndexType
  /\ content \in [Slots -> (Configs \X Keys) \cup {Blank, Torn}]
  /\ crashes \in 0 .. MaxCrashes
  /\ saveFailures \in 0 .. MaxSaveFailures
  /\ reusedPayload \subseteq Slots
  /\ reusedIndex \subseteq Slots
  /\ suspect \subseteq Slots
  /\ leaked \subseteq Slots
  /\ unsaved \in BOOLEAN

-----------------------------------------------------------------------------
(* The table.                                                              *)

Live(k)   == slotOf[k] # NoSlot
Ready(k)  == Live(k) /\ refCnt[k] # Pending
Unpinned(k) == Live(k) /\ refCnt[k] = 0

Init ==
  /\ up = FALSE
  /\ cfg \in Configs
  /\ slotOf = Nowhere /\ refCnt = AllPending
  /\ numAllocated = 0 /\ freeList = NoneFree
  /\ numEvictable = 0 /\ numWritePending = 0
  /\ dirty = FALSE
  /\ saver = "off" /\ payload = NoIndex
  /\ index = NoIndex
  /\ content = [s \in Slots |-> Blank]
  /\ crashes = 0 /\ saveFailures = 0 /\ unsaved = FALSE
  /\ reusedPayload = {} /\ reusedIndex = {} /\ suspect = {} /\ leaked = {}

-----------------------------------------------------------------------------
(* The scheduler thread: the manager's operations, one key per call.       *)

(* (A definition whose name ends in _Something is a plausible bug in the   *)
(* definition of that name, kept to see that the properties notice it.)    *)

(* policy.insert: the new block is not ready and the table is dirty.       *)
Insert(k, s, evicted) ==
  /\ slotOf' = [j \in Keys |-> IF j = k THEN s ELSE IF j \in evicted THEN NoSlot ELSE slotOf[j]]
  /\ refCnt' = [j \in Keys |-> IF j \in evicted \cup {k} THEN Pending ELSE refCnt[j]]
  /\ dirty' = TRUE

Remove(k) ==
  /\ slotOf' = [slotOf EXCEPT ![k] = NoSlot]
  /\ refCnt' = [refCnt EXCEPT ![k] = Pending]
  /\ dirty' = TRUE

(* A slot goes to a new block: every index read before now may name it.    *)
HandOut(s) ==
  /\ reusedPayload' = reusedPayload \cup {s}
  /\ reusedIndex' = reusedIndex \cup {s}
  /\ UNCHANGED <<suspect, process, saving, index, content, faults>>

HasFresh == numAllocated < NumSlots
HasFree  == HasFresh \/ \E s \in Slots : freeList[s] > 0

StoreFresh(k) ==
  /\ up /\ ~Live(k)
  /\ HasFresh
  /\ Insert(k, numAllocated, {})
  /\ HandOut(numAllocated)
  /\ numAllocated' = numAllocated + 1
  /\ numWritePending' = numWritePending + 1
  /\ UNCHANGED <<freeList, numEvictable>>

StoreReused(k) ==
  /\ up /\ ~Live(k)
  /\ \E s \in Slots :
       /\ freeList[s] > 0
       /\ Insert(k, s, {})
       /\ HandOut(s)
       /\ freeList' = [freeList EXCEPT ![s] = @ - 1]
  /\ numWritePending' = numWritePending + 1
  /\ UNCHANGED <<numAllocated, numEvictable>>

MayEvict(v) == Unpinned(v)

(* The tier is full: an unpinned block gives its slot up to the new one.   *)
StoreEvicting(k) ==
  /\ up /\ ~Live(k)
  /\ ~HasFree /\ numEvictable > 0
  /\ \E v \in Keys :
       /\ MayEvict(v)
       /\ Insert(k, slotOf[v], {v})
       /\ HandOut(slotOf[v])
  /\ numEvictable' = numEvictable - 1
  /\ numWritePending' = numWritePending + 1
  /\ UNCHANGED <<numAllocated, freeList>>

(* The worker's transfer reaches the slot.                                 *)
TransferStarts(k) ==
  /\ up /\ Live(k) /\ refCnt[k] = Pending
  /\ content[slotOf[k]] # Torn
  /\ content' = [content EXCEPT ![slotOf[k]] = Torn]
  /\ UNCHANGED <<process, table, pool, dirty, saving, index, faults, history>>

(* complete_store(success): the block becomes ready; nothing is dirtied.   *)
StoreDone(k) ==
  /\ up /\ Live(k) /\ refCnt[k] = Pending
  /\ content[slotOf[k]] = Torn
  /\ content' = [content EXCEPT ![slotOf[k]] = <<cfg, k>>]
  /\ refCnt' = [refCnt EXCEPT ![k] = 0]
  /\ numEvictable' = numEvictable + 1
  /\ numWritePending' = numWritePending - 1
  /\ UNCHANGED <<process, slotOf, numAllocated, freeList, dirty, saving, index, faults, history>>

StoreFailed(k) ==
  /\ up /\ Live(k) /\ refCnt[k] = Pending
  /\ Remove(k)
  /\ freeList' = [freeList EXCEPT ![slotOf[k]] = @ + 1]
  /\ numWritePending' = numWritePending - 1
  /\ UNCHANGED <<process, numAllocated, numEvictable, saving, index, content, faults, history>>

(* prepare_load / complete_load: a block being read is pinned.             *)
LoadStarts(k) ==
  /\ up /\ Ready(k) /\ refCnt[k] < MaxRef
  /\ refCnt' = [refCnt EXCEPT ![k] = @ + 1]
  /\ numEvictable' = IF refCnt[k] = 0 THEN numEvictable - 1 ELSE numEvictable
  /\ UNCHANGED <<process, slotOf, numAllocated, freeList, numWritePending, dirty,
                 saving, index, content, faults, history>>

LoadEnds(k) ==
  /\ up /\ Ready(k) /\ refCnt[k] > 0
  /\ refCnt' = [refCnt EXCEPT ![k] = @ - 1]
  /\ numEvictable' = IF refCnt[k] = 1 THEN numEvictable + 1 ELSE numEvictable
  /\ UNCHANGED <<process, slotOf, numAllocated, freeList, numWritePending, dirty,
                 saving, index, content, faults, history>>

-----------------------------------------------------------------------------
(* The saver thread.  The dictionary display reads its fields in order.    *)

SaverIs(here, next) == saver = here /\ saver' = next

SaverWakes ==
  /\ SaverIs("wait", "counter")
  /\ dirty
  /\ dirty' = FALSE
  /\ unsaved' = FALSE
  /\ UNCHANGED <<process, table, pool, payload, index, content, crashes, saveFailures, history>>

SaverReadsCounter ==
  /\ SaverIs("counter", "free")
  /\ payload' = [payload EXCEPT !.fingerprint = cfg, !.numAllocated = numAllocated]
  /\ UNCHANGED <<process, table, pool, dirty, index, content, faults, history>>

SaverReadsFree ==
  /\ SaverIs("free", "blocks")
  /\ payload' = [payload EXCEPT !.freeList = freeList]
  /\ UNCHANGED <<process, table, pool, dirty, index, content, faults, history>>

SnapshotEntries_NotReady == slotOf

SnapshotEntries == [k \in Keys |-> IF Ready(k) THEN slotOf[k] ELSE NoSlot]

SaverReadsBlocks ==
  /\ SaverIs("blocks", "replace")
  /\ payload' = [payload EXCEPT !.blocks = SnapshotEntries]
  /\ reusedPayload' = {}
  /\ UNCHANGED <<process, table, pool, dirty, index, content, faults, reusedIndex, suspect>>

SaverReplaces_ClearsLate ==
  /\ SaverIs("replace", "wait")
  /\ index' = payload
  /\ dirty' = FALSE
  /\ reusedIndex' = reusedPayload
  /\ payload' = NoIndex /\ reusedPayload' = {}
  /\ UNCHANGED <<process, table, pool, content, faults, suspect>>

(* The index changes by a rename of the temporary file, which nothing      *)
(* reads: a crash before it leaves the old index.                          *)
SaverReplaces ==
  /\ SaverIs("replace", "wait")
  /\ index' = payload
  /\ reusedIndex' = reusedPayload
  /\ payload' = NoIndex /\ reusedPayload' = {}
  /\ UNCHANGED <<process, table, pool, dirty, content, faults, suspect>>

(* Any step after the flag was cleared may raise; the flag stays cleared.  *)
SaverFails ==
  /\ saver \in SaverSteps \ {"off", "wait"}
  /\ saveFailures < MaxSaveFailures
  /\ saveFailures' = saveFailures + 1
  /\ saver' = "wait"
  /\ unsaved' = TRUE
  /\ payload' = NoIndex /\ reusedPayload' = {}
  /\ UNCHANGED <<process, table, pool, dirty, index, content, crashes, reusedIndex, suspect>>

-----------------------------------------------------------------------------
(* Crash and restart.                                                      *)

Crash ==
  /\ up /\ crashes < MaxCrashes
  /\ crashes' = crashes + 1
  /\ up' = FALSE
  /\ slotOf' = Nowhere /\ refCnt' = AllPending
  /\ numAllocated' = 0 /\ freeList' = NoneFree
  /\ numEvictable' = 0 /\ numWritePending' = 0
  /\ dirty' = FALSE /\ unsaved' = FALSE
  /\ saver' = "off" /\ payload' = NoIndex /\ reusedPayload' = {}
  /\ leaked' = {}
  /\ UNCHANGED <<cfg, index, content, saveFailures, reusedIndex, suspect>>

Indexed    == {k \in Keys : index.blocks[k] # NoSlot}
NamedSlots == {index.blocks[k] : k \in Indexed}

(* Slots the index is wrong about: handed out again since its table was    *)
(* read, or beyond the older allocator counter it carries.                 *)
Misnamed ==
  (NamedSlots \cap reusedIndex)
    \cup {s \in Slots : /\ s >= index.numAllocated
                       /\ (s \in NamedSlots \/ index.freeList[s] > 0)}

(* Slots that were pending when its table was read, and the like: below    *)
(* its counter, in nobody's reach.                                         *)
Unindexed == {s \in Slots : /\ s < index.numAllocated
                            /\ s \notin NamedSlots /\ index.freeList[s] = 0}

RestoreEntries(E) ==
  /\ slotOf' = [k \in Keys |-> IF k \in E THEN index.blocks[k] ELSE NoSlot]
  /\ refCnt' = [k \in Keys |-> IF k \in E THEN 0 ELSE Pending]

RestoredFree_Forgotten == NoneFree

RestoredFree_Unfiltered == index.freeList

RestoredFree == [s \in Slots |-> IF s \in NamedSlots THEN 0 ELSE index.freeList[s]]

Restore_NothingEvictable ==
  /\ RestoreEntries(Indexed)
  /\ freeList' = RestoredFree
  /\ numAllocated' = index.numAllocated
  /\ numEvictable' = 0
  /\ numWritePending' = 0

Restore_OffByOne ==
  /\ RestoreEntries(Indexed)
  /\ freeList' = RestoredFree
  /\ numAllocated' = index.numAllocated + 1
  /\ numEvictable' = Cardinality(Indexed)
  /\ numWritePending' = 0

Restore ==
  /\ RestoreEntries(Indexed)
  /\ freeList' = RestoredFree
  /\ numAllocated' = index.numAllocated
  /\ numEvictable' = Cardinality(Indexed)
  /\ numWritePending' = 0

Launch(c, s, lost) ==
  /\ ~up /\ up' = TRUE
  /\ cfg' = c
  /\ leaked' = lost
  /\ saver' = s
  /\ UNCHANGED <<dirty, payload, index, content, faults, reusedPayload, reusedIndex>>

Matches(c) == index.fingerprint = c

(* No index, or another configuration's: an empty manager and a saver.     *)
StartCold(c) ==
  /\ ~Matches(c)
  /\ Launch(c, "wait", {})
  /\ UNCHANGED <<table, pool, suspect>>

StartWarm(c) ==
  /\ Matches(c)
  /\ Restore
  /\ Launch(c, "wait", Unindexed)
  /\ suspect' = suspect \cup Misnamed

(* _restore raises while it reads the file: nothing was touched and the    *)
(* saver is never started.                                                 *)
StartUnreadable(c) ==
  /\ index # NoIndex /\ "read" \in RestoreFaults
  /\ Launch(c, "off", {})
  /\ UNCHANGED <<table, pool, suspect>>

(* _restore raises after it inserted entries and before it set the counters *)
(* of the allocator; then the entries stay, and the free list, if it had    *)
(* come to that (line 192).                                                 *)
StartHalfRestored(c) ==
  /\ Matches(c) /\ "entries" \in RestoreFaults
  /\ \/ \E E \in SUBSET Indexed : RestoreEntries(E) /\ UNCHANGED freeList
     \/ RestoreEntries(Indexed) /\ freeList' = RestoredFree
  /\ Launch(c, "off", {})
  /\ suspect' = suspect \cup NamedSlots \cup {s \in Slots : freeList'[s] > 0}
  /\ UNCHANGED <<numAllocated, numEvictable, numWritePending>>

-----------------------------------------------------------------------------
SaverNext ==
  \/ SaverWakes \/ SaverReadsCounter \/ SaverReadsFree \/ SaverReadsBlocks
  \/ SaverReplaces

SchedulerNext ==
  \E k \in Keys :
    \/ StoreFresh(k) \/ StoreReused(k) \/ StoreEvicting(k)
    \/ TransferStarts(k) \/ StoreDone(k) \/ StoreFailed(k)
    \/ LoadStarts(k) \/ LoadEnds(k)

StartNext ==
  \E c \in Configs :
    StartCold(c) \/ StartWarm(c) \/ StartUnreadable(c) \/ StartHalfRestored(c)

Next == SchedulerNext \/ SaverNext \/ SaverFails \/ Crash \/ StartNext

Spec == Init /\ [][Next]_vars

(* The saver is a daemon thread looping on stop.wait(20), and nothing ever *)
(* sets stop: it is scheduled again and again for as long as the process   *)
(* lives.  Stores, loads, crashes and restarts are owed to nobody.         *)
FairSpec == Spec /\ WF_vars(SaverNext)

-----------------------------------------------------------------------------
(* Properties.  Away from the slots that a torn or stale index gets wrong  *)
(* (`suspect`), the tier does what the file promises; what goes wrong on   *)
(* those slots is stated at the end.                                       *)

(* A slot has at most one owner, and an owned slot is not on the free list *)
(* nor about to be handed out as fresh, through stores, evictions,         *)
(* failures, crashes and restores in any order (the allocator state that   *)
(* _restore puts back together with the table, lines 188-195).             *)
OwnersContained ==
  \A s \in Slots \ suspect :
    LET owners == {k \in Keys : slotOf[k] = s}
    IN /\ \A j, k \in owners : j = k
       /\ owners # {} => freeList[s] = 0
       /\ freeList[s] <= 1
       /\ (owners # {} \/ freeList[s] > 0) => s < numAllocated

(* A block that can be looked up holds its own data, computed by the       *)
(* running configuration: only completed stores are indexed (line 108),    *)
(* and only an index with this fingerprint is restored (line 182).         *)
HitsContained ==
  \A k \in Keys :
    Ready(k) /\ slotOf[k] \notin suspect => content[slotOf[k]] = <<cfg, k>>

(* The two counters the manager decides by are what the table says, also   *)
(* after _restore set them by hand (lines 194-195) and after loads pinned  *)
(* and unpinned blocks: a counter that drifts refuses stores that fit, or  *)
(* evicts what is being read.  A process whose restore raised is excepted: *)
(* it has no saver.                                                        *)
CountersExact ==
  saver # "off" =>
    /\ numEvictable = Cardinality({k \in Keys : Unpinned(k)})
    /\ numWritePending = Cardinality({k \in Keys : Live(k) /\ ~Ready(k)})

(* Nothing overwrites or moves a block while a load has it pinned.         *)
PinnedKept ==
  \A k \in Keys :
    Ready(k) /\ refCnt[k] > 0 /\ slotOf[k] \notin suspect /\ up'
      => slotOf'[k] = slotOf[k] /\ content'[slotOf[k]] = content[slotOf[k]]

PinnedUndisturbed == [][PinnedKept]_vars

(* No slot is lost in use: one that was handed out has an owner or is on   *)
(* the free list, through stores, evictions and failures in any order and  *)
(* after a restore; only what the index a process started from said        *)
(* nothing of (pending blocks, lines 108 and 191-193) is out of reach, and *)
(* for that process alone.                                                 *)
SlotsAccounted ==
  \A s \in Slots \ (suspect \cup leaked) :
    s < numAllocated => (\E k \in Keys : slotOf[k] = s) \/ freeList[s] > 0

(* The dirty flag owes a save for every change: when it is clear and the   *)
(* saver is idle, every entry of this configuration's index is still the   *)
(* table's (the flag is cleared before the copies, line 211, so a change   *)
(* during a save is saved again).  A save that failed leaves the flag      *)
(* clear: the index may stay wrong then, but only until the next save      *)
(* begins (line 225).                                                      *)
IndexCurrent ==
  saver = "wait" /\ ~dirty /\ ~unsaved /\ Matches(cfg)
    => \A k \in Indexed : Ready(k) /\ slotOf[k] = index.blocks[k]

(* A block that is ready while the table is dirty gets into the index,     *)
(* unless it is evicted or the process dies first, or the save fails and   *)
(* nothing has been inserted or removed since; a change during a save that *)
(* fails is saved by the next.                                             *)
Saved(k) == Matches(cfg) /\ index.blocks[k] = slotOf[k]

DirtyIsSaved ==
  \A k \in Keys :
    (up /\ saver # "off" /\ dirty /\ Ready(k))
      ~> (Saved(k) \/ ~Ready(k) \/ (unsaved /\ ~dirty))

(* Seen from outside, the tier is a cache that outlives its process (module *)
(* KVCache): where no index was wrong, a block is served after it was      *)
(* stored or found intact at a start, is forgotten or overwritten only     *)
(* while nobody reads it, and nothing comes back between two starts but by *)
(* being stored again (lines 24-45).                                       *)
Hits    == {k \in Keys : Ready(k) /\ slotOf[k] \notin suspect}
Readers == [k \in Keys |-> IF k \in Hits THEN refCnt[k] ELSE 0]
Kept    == {content[s] : s \in Slots} \ {Blank, Torn}

Cache == INSTANCE KVCache WITH
  running <- up, config <- cfg, hits <- Hits, readers <- Readers, kept <- Kept

IsACache == Cache!Spec

-----------------------------------------------------------------------------
(* What the file's comments promise without exception, and the code does   *)
(* not keep.                                                               *)

(* Lines 40-41: entries stored after the last snapshot are simply misses.  *)
(* So what a restart brings back is what the slots hold.                   *)
RestoredAreOwnData ==
  [][~up /\ up' => \A k \in Keys :
       (Ready(k) => content[slotOf[k]] = <<cfg, k>>)']_vars

(* Lines 34-36: live slots are never handed out again.                     *)
LiveSlotsNotReissued ==
  \A j, k \in Keys : Live(j) /\ Live(k) /\ j # k => slotOf[j] # slotOf[k]
=============================================================================
