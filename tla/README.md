# Verification of the 4x GB10 serving recipe

TLA+ models of the program code of this repository, the TLC runs that check them on
small instances, and theorems about them that the TLA+ proof system (TLAPS) proves for
every value of the constants. Paths and line numbers below are relative to `src/`.

The repository is a recipe for serving one model on four machines. Most of it is
documentation and measured results; its program code is one patched vLLM worker, one
vLLM extension and eight operational tools. Everything here is about that code.

## 1. The system

| component | source | state it keeps | operations |
|---|---|---|---|
| NVMe KV tier | `tools/kv_persist_policy.py` | policy table (key -> slot, ref count), allocator (`_num_allocated_blocks`, `_free_list`, two derived counters), dirty flag, index file, slot file | `insert`, `remove`, `restore_entries`, `snapshot_entries`, `get_manager`/`_restore`, the saver loop; vLLM's offloading manager calls them |
| weight updates | `patches/gpu_worker_cachefix.py` 208-212, 975-1006, 1345-1465 | session flags per worker, the engine's target | start, start draft, update, finish |
| pipeline steps | same file, 145-174, 1140-1234 | handles of unfinished sends, lazily awaited tensors | `execute_model`, `wait_for_comm` |
| worker startup | same file, 516-961 | workspace, captured graphs, caches, compiled sizes, random state | `determine_available_memory`, `initialize_from_config`, `compile_or_warm_up_model` |
| memory accounting | same file, 74-143, 516-648, 818-874 | byte counts, the pinned cache size, the saved plan | snapshot, profile, sizing, allocation, capture, saving and applying a plan |
| sleep and wake | same file, 240-299 | saved buffers | `sleep`, `wake_up` |
| device binding, profiler, delegation | same file, 301-520, 1010-1138, 1236-1345 | local rank, profiler | pass-through |
| preflight | `tools/preflight.sh` | `fail` | one pass over the ranks |
| boot gate | `tools/pool_boot_gate.sh` | `rc`, waiting time | wait, evict, per node |
| re-seat recovery | `tools/post_reseat_recover.sh` | common GID index | mounts, GIDs, restart |
| ring link health | `tools/ring_link_health.sh` | carrier traces, flaps | sample every port |
| evidence collector, RDMA proof | `tools/capture-allnode-logs.sh`, `tools/rdma_proof.sh` | none | copy logs, print counters |
| acceptance gates | `tools/acceptance_gates.py` | counts | three suites and an exit status |
| benchmarks | `tools/ctx_decode_bench.py`, `tools/stream_bench.py` | marks | streams, windows |

How they interact. Preflight and the boot gate run before a boot; the launcher then
starts one worker per machine, which goes through worker startup; from then on the
scheduler drives `execute_model` and, on the engine's side, the KV tier's manager. The
KV tier survives the process: what one process saved is what the next one restores.
A trainer may update weights while the workers serve. The recovery tools run after
physical work, the gates and benchmarks against a running server. No two of the modelled
components share variables - the KV tier's manager lives in the engine's process, the
rest of it in the worker's, and the code of this repository connects them only through
vLLM. What is composed, therefore, is: the threads and processes of one component, in its
module; a component and its abstract specification (`PipelineParallel` with `StepOrder`,
`KVTier` with `KVCache`); the tools an operator runs, in `MCTools`, and three sides of a worker that share no state, in
`MCWorker`, where one of them runs per behaviour and the others stay as they are.

What is hard, and where:

- *KV tier*: two threads, a lock that covers part of the state they share, an index that
  is always older than the slots it describes, and crashes at any moment.
- *Weight updates*: the same calls on several workers, each of which may fail alone, and
  an engine whose target outlives the call that set it.
- *Pipeline*: transfers that go on while buffers are being read and written, and ranks
  that decide on their own whether a step communicates.
- *Startup*: a dozen phases whose order matters for reasons that are in no type.
- *Preflight*: a shell loop and the processes it starts share one input.
- *Boot gate*: nodes are read one after the other while their memory goes on moving.
- *Sleep and wake*: calls that raise half way, when one copy of the buffers is all there is.
- *Memory*: the worker sees only the sum of free memory, which others take and release
  while it subtracts one reading from another, and a plan it saves outlives the boot.
- *Recovery, gates*: an exit status that has to sum up answers which come in any order,
  late or not at all.
- *Streaming clients*: two programs read one answer, each with its own clock and counts.

What makes each correct is stated as its module's properties; `PROJECT.json` lists the
hazards line by line with the properties that cover them.

## 2. Modules

| module | models | checked by | proofs |
|---|---|---|---|
| `KVTier` | the KV tier and, as external actions, the manager that drives it | `MCKVTier` | `KVTierProofs` |
| `KVCache` | what the tier promises: a cache that outlives its process | through `KVTier!IsACache` | `KVTierProofs` |
| `WeightUpdate` | sessions on `NumReplicas` x `WorldSize` workers | `MCWeightUpdate` | `WeightUpdateProofs` |
| `PipelineParallel` | steps on a chain of ranks | itself | `PipelineProofs` |
| `StepOrder` | what a pipeline promises about its steps, without buffers | through `PipelineParallel!KeepsOrder` | `PipelineProofs` |
| `WorkerStartup` | the phases of a boot of one worker | `MCWorker` | `WorkerStartupProofs` |
| `Preflight` | the script, rank by rank and line by line of mounts.txt | `MCPreflight`, `MCTools` | `ToolsProofs` |
| `BootGate` | the script, reading by reading, and the memory of the nodes | itself | `BootGateProofs` |
| `SleepWake` | `sleep` and `wake_up` of one worker, its backend and its caller | `MCWorker` | `SleepWakeProofs` |
| `MemoryBudget` | how a worker sizes its cache, boot after boot | `MCWorker` | `MemoryBudgetProofs` |
| `PostReseat` | the recovery script, probe by probe | `MCTools` | `ToolsProofs` |
| `AcceptanceGates` | pool, counting, verdicts and exit status of the three suites | `MCTools` | `ToolsProofs` |
| `StreamClients` | the two streaming clients on one answer | `MCTools` | `ToolsProofs` |

A definition whose name ends in `_Something` is a plausible bug in the definition of
that name. No specification uses it; substituted for the original, it must break the
property `PROJECT.json` pairs it with.

### KVTier

`slotOf` and `refCnt` are the policy's `blocks`; `numAllocated`, `freeList` and the two
counters are the manager's fields of those names, the free list as a bag because only
membership and multiplicity matter. `content` is the slot file: what configuration and
key each slot was last written for, or `Torn` while a transfer is under way. `index` is
the index file and `payload` the dictionary under construction; the saver's step is its
program counter. One action copies one thing: the dictionary display of lines 212-220
reads the counter, then the free list, then the table, and the scheduler thread may run
between any two of these reads since the lock is only held inside `snapshot_entries`
(and `insert`, `remove`). A save that raises anywhere is `SaverFails`.

A restart is one of `StartCold`, `StartWarm`, `StartUnreadable` (the file cannot be read:
nothing was touched) and `StartHalfRestored` (`_restore` raises after some or all entries
were inserted, or after the free list was set as well, but before the allocator's counter
is). The manager is external and modelled by what the
file relies on: it takes fresh slots, then freed ones, then evicts unpinned blocks; a
block under transfer has `ref_cnt = -1`, a block being read has it above 0. One call
stores or loads one block.

Five history variables say what no variable of the program does: which slots were
handed out since the payload's and the index's table were read; `suspect`, the slots
a restored index was wrong about; `leaked`, the slots below its counter of which it said
nothing; and `unsaved`, that the last save failed and none has begun since. The
invariants speak of the slots that are not suspect. This is a strong statement only because `suspect` is small: it grows in a
restore alone, by the slots the index names *and* that were handed out again since, and
by slots at or above the (older) counter it carries; a restore that raises half way
makes all slots it named or listed as free suspect. What can go wrong on suspect slots is stated by the
violated properties (section 4).

`KVCache` knows no slots. Its `hits` are the ready keys whose slot is not suspect, its
`readers` their reference counts, its `kept` what the intact slots hold, of whatever
configuration. A store of a block is the step that completes its transfer; an eviction
forgets a key, and what its slot held is overwritten later, when the transfer begins; a
restart brings back some of what is kept for its configuration, never anything else.

The tier can come to a stop for good - all slots leaked - hence `CHECK_DEADLOCK FALSE`.

### WeightUpdate

The trainer's calls are a sequence that all workers execute at their own pace (`handled`);
the trainer waits for a call to be answered by all before it makes the next one. A worker
keeps `_weight_update_active` and `_weight_update_is_draft`; the engine's `target` is what
`set_weight_update_target` and `reset_weight_update_target` set. The engine may raise in
start, in a chunk (before or after it loaded it) and in finish, before the session is closed
or, in `reset_lora_state`, after (`FinishRaises`); a draft session fails to
start on the workers that have no draft model (`DraftWorkers`). The entry of a list that
a worker takes is its index over all replicas; a short list raises. `loads` records, call
by call, what each worker loaded into which model. `loraStale` says that base weights
changed since the last `reset_lora_state`.

### PipelineParallel and StepOrder

Between two ranks there is a link with a queue of posted sends and a queue of posted
receives that match in order. `BeginStep` waits for the previous sends, posts the receive
and enters the model (from here the output buffer may be overwritten: `Torn`);
`Transfer` moves what is in the sender's buffer *at that moment*; `AccessTensors` is a
read of `.tensors`, which awaits the receive and postprocesses once; `FinishStep` posts
the send and returns. Steps without scheduled tokens neither send nor receive. Whether
a rank reads its input once or more often in a step is open.

`StepOrder` is the promise: ranks take all steps in order, and a rank finishes a step
with tokens after its predecessor has. `KeepsOrder` is `StepOrder`'s specification under
the identity mapping of `issued` and `done`; it holds as a TLC property and as a theorem.

### WorkerStartup

`After` is the order of the phases. Each run of the model, dummy or real, needs some
amount of workspace between 0 and `MaxNeed`; a run that needs more than there is
reallocates the workspace and leaves captured graphs dangling. A dummy run may write
garbage into any of the areas that exist by then (the KV cache does not exist while
profiling): the four that the cleanup clears by name (`Named`), and any others the model may
have (`OtherCaches`), of which the cleanup knows nothing. With the V2 runner
`warmup_kernels` needs what serving needs - it drives the same two methods - and capture and requests need no more.
That is an assumption about vLLM, and the reason why the patch works at all. The
settings are all combinations of the flags the code reads, chosen at the start.

### Preflight

`have` says what a rank has; each test is answered by that, and on remote ranks one of
`MaxSshFailures` calls may fail without reason. A `read` loop sees the lines that end in
a newline. A test inside the loop is a shell of its own on rank 0, which reads nothing,
and an ssh on others, which reads any number of the remaining lines. The calls that find
and fetch the list may fail as well, which leaves an empty loop and no message:
`unlisted` remembers the ranks it happened to.

### BootGate

A node's memory is used, page cache or free; the script reads `MemAvailable`, which
counts the page cache as available, and then drops the cache, because the driver of a
unified-memory host needs free pages. One reading is one action, and so is one eviction;
in between memory returns (`Returned`), is taken (`Taken`) or cached (`Cached`) on any
node. A reading without an answer is 0, an eviction may fail and is not looked at. A node
may stall for good (`Hangs`): calls that got through to it do not return, since the script
limits only the connecting (`ConnectTimeout`), and neither does a `sync` on it (`Returns`).
Three history variables say what the script does not remember: which nodes were short when
last read, where the eviction failed, and which nodes were disturbed since they were read.

### SleepWake

`resident` says which tags' memory is mapped, `buffers` what the buffers of each model
hold or will hold once resumed, `saved` is the two dictionaries of saved buffers, and
`believed` what the caller has been told. `Sleep`, level 1 or 2, covers the return and the
failures after the memory is gone - the assertion of line 270 among them, which cannot
tell its own memory from that of other processes of a unified-memory host - in which case
the caller still takes everything for awake. `SleepRaises` is a failure before, while
copies are made or in the backend before it suspended anything, `SuspendRaises` one in the
backend after it suspended some of the tags; the copies stay. `WakeUp`, `ResumeRaises` and
`RestoreRaises` - in a copy, or in the synchronization after the last - are the outcomes of
waking any tags: everything, or what is asleep. The
properties are about what is loaded meanwhile, too (`Update`). They leave out one case,
by the history variables `leftover` and `outdated`: section 4 says which.

### MemoryBudget

Memory is counted in units: what the worker holds (`own`), what the rest of the machine
holds (`others`), and what is free. `Snapshot` is the reading a boot starts from and
the check of the request against it; `Profile` computes the cache size the way lines
593-648 do, from the difference of two readings of free memory, and
`AllocateCache`, `CaptureGraphs` and a served step use the memory or fail (`OutOfMemory`).
`CaptureGraphs` also saves the plan of lines 831-848, whatever its sign, if no size was given
(`NoPlan`); `ProfilePinned` is a later boot that applies it and measures nothing. `OthersMove` is any other process, at any moment. On ROCm a profile
that comes out negative falls back to what torch reserved; elsewhere such a boot gives up.
`othersAtProfile` and `planDrift` are history: what others held when the profile
ended, and what they took in the course of it.

### PostReseat, AcceptanceGates, StreamClients

`PostReseat` counts the shards of each node, remounts and counts again where some are
missing, reads each node's GID index and restarts the engine. A probe may find anything,
or nothing before its timeout. The history variables keep what each probe found, and whether
the restart went well.

In `AcceptanceGates` a pool of threads answers the requests of a suite in any order, each
well, badly or not at all, and the main thread counts them in the order of the requests.
Which texts are garbled and which answers are right is the input, not the model.

In `StreamClients` the server sends chunks of content or of reasoning, with one or more
tokens, at any times, with other lines between; both clients read all of it. One keeps
the gaps, the other marks from which it makes windows at the end. `arrivals` remembers
what the server sent of the answer, `reasoned` how many chunks it sent of the reasoning.

## 3. Runs that hold

| run | properties | instance |
|---|---|---|
| `KVTierSlots` | `TypeOK`, `OwnersContained`, `CountersExact`, `SlotsAccounted`, `PinnedUndisturbed`, `IsACache` | 2 keys, 2 slots, nested loads, 1 crash, 1 failed save, both faults |
| `KVTierRestarts` | `HitsContained`, `IndexCurrent`, `DirtyIsSaved` | 2 keys, 1 slot, 2 configurations, 2 crashes, 2 failed saves, both faults |
| `WeightUpdate` | `TypeOK`, `TargetFollowsSession`, `ChunksGoWhereSelected`, `SameModelEverywhere`, `LoraFresh`, `OwnParts` | 2 replicas x 2 workers, one of each without a draft, 4 calls in any order, 1 fault |
| `Pipeline` | `TypeOK`, `TensorsOfThisStep`, `AllStepsFinish`, `KeepsOrder` | 4 ranks, 3 steps |
| `Worker` | `TypeOK`, `GraphsIntact`, `ServesCleanState`, `RangesCompiled`; `BudgetTypeOK`, `MeasuredBootFits`, `PlannedBootFits`; `SleepTypeOK`, `BuffersSurvive`, `LostIsSaved` | startup: all settings, 3 amounts of workspace, 4 ranges, a cache the cleanup has no name for; memory: 10 units, 7 requested, 2 boots, an estimate that is skipped, right or too high, the ROCm fallback; sleep: both levels, any tags, a draft model, 2 loads per model, 3 calls that raise |
| `BootGate` | `TypeOK`, `PassMeansFree`, `StatusSumsUp`, `GateEnds` | 3 nodes of 3 units, 2 readings each, 2 of them silent, 1 disturbance, 1 node that stalls |
| `Tools` | `ToolsTypeOK`, `PassMeansChecked`, `StatusIsTheAnswers`, `ClientsAgree`, `WindowsAreOfTheAnswer`, `QuietMeansHealed` | preflight: 2 ranks, 1 missing item each, 3 lists, 1 failing call; gates: 4 requests, 2 threads; clients: 4 chunks of up to 2 tokens in 5 ticks, 2 windows; recovery: 3 nodes, 2 indices |

*Why the bounds are enough.* In the KV tier two keys and two slots give a slot that is
contended, one that is not, a slot on the free list, and - since restores lose slots - an
eviction; one slot makes every store an eviction. Two crashes give an index that outlives
a process that never saved; the second configuration the index of the other one. The
safety properties without counters are proved without bounds (also with three keys
competing for two slots), so the runs only have to catch a false statement early.
Sessions need a start, a chunk or finish, and a second start and chunk after a failure
on some of the workers, which a missing draft model gives as well as a fault. Four ranks
give a middle rank whose two neighbours are both middle or end ranks; three steps let a
rank be two steps ahead of another with a step without tokens between. The ranges of
`MCWorker` are one of each kind: with a captured size, with a size both captured
and asked for, with one asked for, with none. In `BootGate` the middle node has one
before it, whose status and memory must last, and one after it; one unit of cache and one
of slack tell available from free memory and enough from one too little; two silent readings
make a node silent for the whole of its time.
In `SleepWake` three failures allow a sleep that raises, a wake that raises after it and
another between two partial wakes; two loads tell a copy from the one before it.
In `MemoryBudget` each amount is one unit, so that each missing term of a sum is seen, and
three units are not requested, so that others can move without doing harm; the second
boot is the one that may be pinned. The theorems hold for any amounts. In `Tools` four
requests are more than a pool of two can have under way, and can miss the tolerance of 1
and of 2; four chunks and five ticks put marks before, on and after the edge of two
windows, with a silence; three nodes let the last agree with the first and not the second.

*Fairness.* `KVTier`: only the saver is fair (weakly): it is a thread in an endless loop
on `stop.wait(20)`, and nothing sets `stop`. Stores, loads, crashes and restarts are owed
to nobody, so `DirtyIsSaved` lets a block be evicted or the process die instead. It
gives up after a failed save, which loses the flag, but only while nothing has been
inserted or removed since. `PipelineParallel`: each rank's
steps, each link and the model's first read of its input are weakly fair, for a worker
loops over the steps it is sent and `handle.wait()` returns once the transfer is done;
the scheduler owes no steps. `StepOrder` states no fairness, and progress is
`AllStepsFinish`. `BootGate`: the script goes on once what it called has returned, and
nothing says that it does: its steps are not enabled while a call hangs. `GateEnds` says
that only such a call keeps the gate from ending; that one may is the run
`BootGateHangs`. The other modules have no liveness properties: a worker or a script may
be stopped at any point, and what it leaves is what the invariants are about.

`CHECK_DEADLOCK FALSE` is set where the system stops: the trainer at its last call, the
scheduler at its last step, a script at its exit, a worker whose startup raised, the
tier with no slots left.

## 4. Runs that do not hold

Each of these checks one sentence of the repository that the code does not keep.

| run | the sentence | what happens |
|---|---|---|
| `KVTierStaleIndex` | `tools/kv_persist_policy.py:40-41`, "Entries stored after the last snapshot are simply misses." | the slot they were stored in is restored under its former key |
| `KVTierTornSnapshot` | `:34-35`, "live slots are never handed out again because the allocator state (...) is restored together with the index" | counter and table are copied at different moments; a store in between is in the table and above the counter |
| `PreflightSkips` | `tools/preflight.sh:57`, "every patch file must exist locally, on every rank" | ssh inside the loop consumes the list; only the first file of a remote rank is sure to be tested |
| `BootGateHangs` | `tools/pool_boot_gate.sh:19`, `MAX_WAIT` is the "seconds to keep polling before giving up (warning)" | a node accepts the connection and stalls; the ssh of line 35 is under no `timeout`, and the gate polls for good |
| `ReseatStatus` | `tools/post_reseat_recover.sh:22`, "Exit: 0 = mounts healthy, one common GID index found on all nodes, optional restart OK." | only differing indices make the status 1; short mounts, nodes without an index and a failed restart leave it 0 |

The first two are silent: a lookup returns another block's data. The instances are as small
as the sentence allows: two blocks on one or two slots and one crash; two ranks and one list
of files; two nodes, one of which stalls, with two readings each; two nodes and two indices.

What else the models show. None of this is a run; the properties that hold name these
cases as their exceptions.

- *KV tier.* A slot whose store was pending at the snapshot is neither owned, free nor
  fresh after the restore, for the index leaves the block out and carries a counter above
  the slot (`leaked`). The completion of a store does not set the dirty flag (only
  `insert` and `remove` do), so a block that completes after the snapshot is taken waits
  for the next insertion or removal to be saved. A restore that raises half way leaves its
  entries in the table on an allocator that thinks their slots fresh
  (`StartHalfRestored`), where line 45 speaks of a cold cache.
- *Weight updates.* Nothing resets the LoRA state for a base session that was aborted
  after it loaded a chunk (`aborted`).
- *Sleep.* The copies of a level-2 sleep that raised before the memory was suspended stay
  in the worker and are put back by the next `wake_up` of the weights, whatever was loaded
  since.
- *Memory.* A plan measured while others released memory is too large by what they
  released, and pins every later boot (`planDrift`). What the graphs take beyond their
  estimate - all of it where the estimate is skipped - comes out of the memory that was
  not requested.
- *Gates.* A failed request is no garbled answer, so an endpoint that answers nothing
  passes the garble suite on its own, and a run whose `--suites` names none exits 0.
- *Benchmarks.* The context benchmark ignores reasoning, which the streaming benchmark
  counts; it takes a chunk for a token where the server lists no log probabilities; and
  the marks of the last instant are in no window.
- *Recovery.* "no-ip" on every node is agreement. What status 0 can be relied on for is
  `QuietMeansHealed`: no two nodes were read to differ, and if there was no line with "!!",
  all shards were seen and every node read alike. How the restart went, nothing says.
- *Boot gate.* `MAX_WAIT` counts the sleeps, not the time the readings take.
- *Startup.* The cleanup goes by the names of the caches: one with another name keeps what
  dummy runs left in it (`OtherCaches`).

## 5. What is proved

All theorems hold for every value of the constants, under the assumptions of the
modules: numbers are natural numbers, `Keys` is finite, what a slot holds is told apart
from `Blank` and `Torn`, ranges are not empty, there is at least one rank, node, window
and `mounts.txt` to check. TLC evaluates these assumptions in the
runs.

**`KVTierProofs`.** `IInv` = `TypeOK`, `OwnersContained`, `HitsContained` and what makes
them inductive: a dead process has an empty table (`DownIsEmpty`), an absent key has no
references (`AbsentIsPending`), and the index and the payload are *sound*
(`SoundIndex`, `SoundPayload`): every slot they name, unless handed out since, holds the
data of the one key they name it for, is not being written, and no free slot is listed
twice. This is needed because `HitsContained` after a restore is a statement about an
index written long before; soundness carries it through all steps of the process in
between and through its death. From it: `TypeCorrect`, `OwnersAreContained`,
`HitsAreContained`, `PinnedAreUndisturbed` (an action property from the same invariant)
and, with the same promise about the payload about to be renamed (`PayloadCurrent`),
`IndexIsCurrent`. `SlotsAreAccounted` adds that a dead process has allocated nothing.
`CountersAreExact` follows the two sets that are counted: every operation moves at most
one key into or out of each (`CountedScheduler`), and a restore counts what it indexes.
`TierIsACache` is the refinement `Spec => Cache!Spec` under the mapping of `KVCache` given
above; each action is one step of the cache or a stutter, and the invariant says why a
slot that is handed out again takes no served block with it. `OneLifeReissuesNothing`
delimits the finding of `KVTierTornSnapshot`: without a crash `LiveSlotsNotReissued` holds
outright, for the first process finds no index and leaves nothing suspect (`FirstLife`).

**`WeightUpdateProofs`.** `TypeCorrect`; `TargetIsTheSessions`, whose statement is
inductive given the types; `ChunksAreInTheirModel`, for which the invariant also says of
a worker with an open session which call opened it, and that all calls since were
accepted chunks or refused starts and finishes. `AllLoadTheSameModel` follows: in a
session that all workers accepted, the start that governs a chunk is the same for each.
`LoraIsFresh` needs that a draft session leaves the LoRA state alone, which is the target's
doing; `PartsAreDistinct`, that `replica * WorldSize + rank` is injective (`PartsDiffer`).

**`PipelineProofs`.** The invariant has three parts. `LinksInv`: a link carries at most
the last step its sender finished, still in the buffer and still awaited, and at most
the receive of the step its receiver is in. `InputInv`: what a rank knows of its input.
`Matched`: exactly the steps with tokens that left a rank have reached the next. The
last one is what pairs the two queues: without it a receive could be matched with the
send of another step. `TransferIsOfOneStep` is the heart of it. From it follow
`TypeCorrect` (with the claim that no queue is longer than 1), `TensorsAreOfTheStep`,
and the refinement `OrderIsKept`: `Spec => StepOrder!Spec`, where finishing a step maps
to finishing it and all other actions of a rank to stuttering.

**`BootGateProofs`.** What a passed node has, it keeps unless it is disturbed
(`PastIsFree`); the node about to be evicted had its memory when it was read
(`ReadIsAvailable`); the status is 1 exactly if one of the nodes read and left is short
(`StatusSoFar`). From it `TypeCorrect`, `PassesAreFree` and `StatusIsTheReadings`.

**`SleepWakeProofs`.** A caller that knows something to be asleep is right about the
weights being awake (`BeliefIsRight`); a lost buffer has a copy and is not in use
(`CopyExists`); every copy is of the buffers last loaded (`CopiesCurrent`); weights in use
have no copies, unless a failed sleep left them (`CopiesPutBack`), which is what keeps
`CopiesCurrent` true when new buffers are loaded. From it `TypeCorrect`,
`BuffersAreKept` and `LostAreSaved`, with and without a draft model.

**`WorkerStartupProofs`.** `GraphsStayIntact`: before capture there are no graphs, after
the warmup the workspace holds what serving needs, and it only grows.
`ServingStartsClean`, for any further caches, and `EverythingIsCompiled`, for any ranges and
sizes, from `SizesCover`, a lemma about the list the code computes; `TypeCorrect` adds that
nothing is run that nobody asked for.

**`MemoryBudgetProofs`.** From the cache size a profile allows, and a plan allows, to a
shortage that only others can cause (`OomIsShortage`), for any amounts: `TypeCorrect`,
`MeasuredBootsFit`, `PlannedBootsFit`.

**`ToolsProofs`.** One section per tool, and at the end the specification of `MCTools`:
a step of one tool is no step of the others (`OneTool`), so the four invariants hold
together (`ToolsVerdicts`, `ToolsTyped`).

- *Preflight.* If nothing has failed so far, the ranks passed have everything they were
  asked for (`RanksBehind`), this rank what the steps passed ask for (`StepsBehind`), and
  of its list only what the rest of the loop's input still holds is open (`LinesBehind`):
  the first file of the list is present or first in the rest, on the head every file is
  present or in the rest. An ssh that reads the input breaks the second of these, not the
  first. Two lemmas say what one `read` leaves of a list (`PastComment`, `PastFile`).
  From it `PreflightChecks`. `PreflightIsComplete` delimits the finding of
  `PreflightSkips`: where ssh never fails, every `mounts.txt` ends with a newline, and
  there is only the head or no list names two files, the sentence of line 57 holds.
- *Gates.* What the running suite has against the endpoint is the number of its rejected
  answers, its tally the number of those counted (`SuiteRuns`), and each verdict is the
  rule of its suite (`VerdictsSoFar`). Once all answers are counted the tally of good ones
  and the number of the others add up to the requests (`VerdictIsTheRule`), whatever the
  order they came in. From it `GatesStatus`.
- *Streams.* Each mark is the time of its chunk and the tokens up to it (`MarksFollow`);
  without reasoning both clients have the same chunks (`GapsFollow`). That the marks end
  at the sum of all tokens, and the tokens of a window are the sum of its chunks', is
  `SumIs`: a function that satisfies the equations of the recursive sum is the sum, since
  a set of naturals has a least element (`Least`) - proved here from the well-foundedness
  of inclusion, which needs no induction over a predicate. Windows cover and are apart
  because their edges are increasing multiples of the span (`TimesOrder`); a window has all
  marks between its first and its last (`WindowIsWhole`). From it `StreamAgrees` and
  `StreamWindows`, for any number of windows and any times.
- *Recovery.* `common` is what the nodes read so far agree on, or `MISMATCH` if two of them
  differ (`CommonSoFar`), which is final because no node reports it; without a warning every
  node left behind was counted in full and has an index. From it `QuietIsHealed`.

Every safety property, action property and refinement of the runs that hold is a theorem.
Only model-checked is liveness (`DirtyIsSaved`, `AllStepsFinish`, `GateEnds`), which rests
on fairness and so on ENABLED, out of the provers' reach. What the runs of section 4
refute is no theorem as it stands; two of the five have one that says when it holds, and
for the status of the recovery `QuietIsHealed` says what does.

## 6. Not modelled

vLLM itself, NCCL, docker and ssh are external. The file system is assumed to rename
atomically and to keep what was written when a process dies; power loss is left out
(`os.replace` without `fsync`). Times are left out except as order.

- *Ring link health, evidence collector, RDMA proof*: they sample, copy or print and
  decide nothing; no order of their steps can make a verdict wrong, for there is none.
- *Profiler control, device binding and delegating methods*: each passes a call on and
  keeps at most one reference.
- *The random state.* Startup resets the seed at line 924; what runs after it
  (`trigger_inductor_lazy_init`, line 934, and the JIT monitor) is library code, and whether
  it draws random numbers cannot be told from this repository.
- *A worker without a weight transfer engine*: every call raises on its first line
  (1345-1350) and changes nothing.
- *A tag whose memory is suspended in part*: the backend suspends whole tags, or raises
  between two of them.
- *A second `get_manager` call in one process* (it would restore an index over a live
  table): the model has one call per process.
- *The text rules of the gates* (`garble_reason`, `judge`), the concurrency rungs, medians
  and filler prompts of the benchmarks: functions of one text or list, which unit tests
  reach.
- *The figures that are only logged* in the memory accounting.

## 7. Plan

1. *(done)* `KVTier` and its findings, `WeightUpdate`, `PipelineParallel` with `StepOrder`,
   `WorkerStartup`, `Preflight`, `BootGate`, `SleepWake`, and their proofs.
2. *(done)* `KVCache` and the refinement from `KVTier`; `MemoryBudget`; `PostReseat`,
   `AcceptanceGates`, `StreamClients` and their composition with `Preflight` in `MCTools`;
   proofs of all safety properties.
3. Left: power loss in the KV tier, once the code says what it expects of the file system.
