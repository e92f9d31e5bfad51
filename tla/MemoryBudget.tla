---------------------------- MODULE MemoryBudget ----------------------------
(* How a worker of patches/gpu_worker_cachefix.py sizes its KV cache, boot *)
(* after boot.  A boot takes a snapshot of the free memory, profiles the   *)
(* model, and gives the cache what is left of the memory it requested; it  *)
(* ends by saving a plan, the cache size that later boots may be pinned to *)
(* without measuring again.  On a unified-memory host the rest of the      *)
(* machine takes and releases the same memory meanwhile, and the worker    *)
(* sees only the sum.                                                      *)
EXTENDS Integers

CONSTANTS
  Total,      \* init_snapshot.total_memory
  Requested,  \* gpu_memory_utilization of it
  Torch,      \* weights and what else torch keeps
  NonTorch,   \* what the process keeps outside torch
  Peak,       \* activations of the largest step, on top
  Graphs,     \* cuda_graph_memory_bytes, 0 when eager
  Estimates,  \* what profile_cudagraph_memory may say, 0 when it is skipped
  Buffer,     \* redundancy_buffer_memory
  Rocm,       \* current_platform.is_rocm()
  NoPlan,     \* None: nothing saved, nothing pinned
  MaxBoots    \* bound: boots

ASSUME AmountsAssumption ==
  /\ Total \in Nat /\ Requested \in Nat
  /\ Torch \in Nat /\ NonTorch \in Nat /\ Peak \in Nat /\ Graphs \in Nat
  /\ Buffer \in Nat
ASSUME EstimatesAssumption == Estimates \subseteq Nat
ASSUME NoPlanAssumption == NoPlan \notin Int
ASSUME ModeAssumption == Rocm \in BOOLEAN /\ MaxBoots \in Nat

Kept == Torch + NonTorch   \* what a loaded model holds on to

VARIABLES
  phase,           \* how far the boot has come
  others,          \* memory the rest of the machine holds
  own,             \* memory the worker holds
  initFree,        \* init_snapshot.free_memory
  totalConsumed,   \* profile_result.total_consumed
  applied,         \* cudagraph_memory_estimate_applied
  pin,             \* cache_config.kv_cache_memory_bytes
  cache,           \* the size of the KV cache, 0 until it is known
  plan,            \* the saved startup plan
  boots,
  othersAtProfile, \* history: others when the profile ended
  planDrift        \* history: what others took while the plan was measured

profile    == <<initFree, totalConsumed, applied, othersAtProfile>>
planning   == <<plan, planDrift>>
budgetVars == <<phase, others, own, pin, cache, boots, profile, planning>>

Free == Total - others - own

BudgetPhases == {"off", "snapshot", "profiled", "allocated", "serving", "oom"}

(* The types; nobody holds memory that is not there, and no profile comes  *)
(* out negative (lines 116-119, 593).                                      *)
BudgetTypeOK ==
  /\ phase \in BudgetPhases
  /\ others \in Nat /\ own \in Nat /\ Free >= 0
  /\ initFree \in Nat /\ totalConsumed \in Nat /\ applied \in Nat
  /\ cache \in Nat
  /\ pin \in Int \cup {NoPlan} /\ plan \in Int \cup {NoPlan}
  /\ boots \in 0 .. MaxBoots
  /\ othersAtProfile \in Nat /\ planDrift \in Int

BudgetInit ==
  /\ phase = "off"
  /\ others \in 0 .. Total /\ own = 0
  /\ initFree = 0 /\ totalConsumed = 0 /\ applied = 0 /\ othersAtProfile = 0
  /\ pin = NoPlan /\ cache = 0
  /\ plan = NoPlan /\ planDrift = 0
  /\ boots = 0

-----------------------------------------------------------------------------
(* The worker.                                                             *)
(* (A definition whose name ends in _Something is a plausible bug in the   *)
(* definition of that name, kept to see that the properties notice it.)    *)

(* request_memory raises when less is free than the configuration wants;   *)
(* a saved plan may pin the cache (maybe_apply_startup_plan).              *)
Snapshot ==
  /\ phase = "off" /\ boots < MaxBoots
  /\ Free >= Requested
  /\ phase' = "snapshot" /\ boots' = boots + 1
  /\ initFree' = Free
  /\ pin' \in {NoPlan, plan}
  /\ cache' = 0
  /\ UNCHANGED <<others, own, totalConsumed, applied, othersAtProfile, planning>>

(* Line 534 takes a cache pinned to 0 bytes for one that is not pinned.     *)
Measures == pin \in {NoPlan, 0}

FreeAfterProfile == Free - Kept

Consumed_NoFallback == initFree - FreeAfterProfile

(* The profile's difference of free memory; on ROCm, when the memory of    *)
(* others made that negative, what torch reserved.                         *)
Consumed ==
  IF FreeAfterProfile > initFree THEN Torch ELSE initFree - FreeAfterProfile

NonKvCache_WithoutPeak == Consumed

NonKvCache == Consumed + Peak

(* The engine makes blocks of it, at most.                                 *)
Sized(available) == cache' \in 1 .. available

(* Outside ROCm a boot that finds more memory than at its start gives up.  *)
Profile ==
  /\ phase = "snapshot" /\ Measures
  /\ Kept + Peak <= Free
  /\ initFree >= FreeAfterProfile \/ Rocm
  /\ phase' = "profiled" /\ own' = Kept
  /\ totalConsumed' = Consumed
  /\ applied' \in Estimates \cup {0}
  /\ Sized(Requested - NonKvCache - applied')
  /\ othersAtProfile' = others
  /\ UNCHANGED <<others, initFree, pin, boots, planning>>

(* A pinned cache: the profile run compiles the model and measures nothing.*)
ProfilePinned ==
  /\ phase = "snapshot" /\ ~Measures
  /\ Kept + Peak <= Free
  /\ phase' = "profiled" /\ own' = Kept
  /\ Sized(pin)
  /\ UNCHANGED <<others, pin, boots, profile, planning>>

(* The profile run fails, or the boot ends after it: the assertion, or no  *)
(* memory left for a cache.                                                *)
GiveUp ==
  /\ phase = "snapshot"
  /\ phase' = "off" /\ pin' = NoPlan
  /\ UNCHANGED <<others, own, cache, boots, profile, planning>>

AllocateCache ==
  /\ phase = "profiled"
  /\ cache <= Free
  /\ phase' = "allocated" /\ own' = own + cache
  /\ UNCHANGED <<others, pin, cache, boots, profile, planning>>

ToRequestedLimit_NoGraphs == Requested - (totalConsumed + (Peak + applied)) - Buffer

(* kv_cache_memory_bytes_to_requested_limit: it counts the graphs as they  *)
(* came out, and their estimate as part of the peak.                       *)
ToRequestedLimit ==
  Requested - (totalConsumed + (Peak + applied) + Graphs) - Buffer

(* Only a boot without a plan makes one, even one with no room for a cache.*)
SavePlan ==
  IF pin = NoPlan
  THEN /\ plan' = ToRequestedLimit
       /\ planDrift' = othersAtProfile - (Total - initFree)
  ELSE UNCHANGED planning

CaptureGraphs ==
  /\ phase = "allocated"
  /\ Graphs <= Free
  /\ phase' = "serving" /\ own' = own + Graphs
  /\ SavePlan
  /\ UNCHANGED <<others, pin, cache, boots, profile>>

(* The next thing the worker needs: its cache, its graphs, or a step.      *)
NeedsMemory ==
  CASE phase = "profiled"  -> cache
    [] phase = "allocated" -> Graphs
    [] phase = "serving"   -> Peak
    [] OTHER               -> 0

OutOfMemory ==
  /\ NeedsMemory > Free
  /\ phase' = "oom"
  /\ UNCHANGED <<others, own, pin, cache, boots, profile, planning>>

Stop ==
  /\ phase \notin {"off", "snapshot"}
  /\ phase' = "off" /\ own' = 0 /\ pin' = NoPlan
  /\ UNCHANGED <<others, cache, boots, profile, planning>>

(* The rest of the machine: containers that die, files that are read.      *)
OthersMove ==
  /\ phase # "oom"
  /\ others' \in 0 .. Total - own
  /\ UNCHANGED <<phase, own, pin, cache, boots, profile, planning>>

BudgetNext ==
  \/ Snapshot \/ Profile \/ ProfilePinned \/ GiveUp
  \/ AllocateCache \/ CaptureGraphs \/ OutOfMemory \/ Stop
  \/ OthersMove

BudgetSpec == BudgetInit /\ [][BudgetNext]_budgetVars

-----------------------------------------------------------------------------
(* Properties.                                                             *)

(* "How much memory can be used for KV cache without OOMs" (lines 519-522):*)
(* a boot that measured runs out of memory only if, since its profile, the *)
(* rest of the machine took more than what was left unrequested, whatever  *)
(* it took or released before, on ROCm too.  What the estimate of the      *)
(* graphs fell short by is on that account as well: all of it where the    *)
(* recipe skips the estimate.                                              *)
MeasuredBootFits ==
  phase = "oom" /\ Measures =>
    others - othersAtProfile > (initFree - Requested) - (Graphs - applied)

(* A boot pinned to a plan does not measure.  It runs out of memory only   *)
(* if others hold more than the request leaves them, by the buffer of the  *)
(* plan - less what they released while the plan was measured (lines       *)
(* 831-848): a plan measured while memory was coming back is too large,    *)
(* and stays so in all later boots.                                        *)
PlannedBootFits ==
  phase = "oom" /\ ~Measures =>
    others > (Total - Requested) + Buffer + planDrift
=============================================================================
