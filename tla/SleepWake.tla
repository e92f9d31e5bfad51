----------------------------- MODULE SleepWake ------------------------------
(* sleep and wake_up of patches/gpu_worker_cachefix.py.  Sleeping frees    *)
(* the device memory of weights and KV cache.  At level 1 the backend      *)
(* (external) keeps a host copy of what the weights' memory held; at level *)
(* 2 it keeps nothing, and the worker itself saves the models' buffers     *)
(* before and puts them back when the weights are woken.                   *)
(*                                                                         *)
(* Both calls may raise half way: the backend may fail to suspend or to    *)
(* resume, and on a host whose memory is shared the assertion that memory  *)
(* was freed may fail although it was.  The caller goes by the answers: it *)
(* takes for awake what no sleep that returned put to sleep, or a wake_up  *)
(* that returned woke; it puts to sleep only if all is awake, and wakes    *)
(* all or what is asleep.                                                  *)
EXTENDS Integers

CONSTANTS
  HasDraft,     \* there is a draft model
  MaxUpdates,   \* bound: times new buffers are loaded into a model
  MaxFaults     \* bound: calls that raise

ASSUME BoundsAssumption == MaxUpdates \in Nat /\ MaxFaults \in Nat
ASSUME DraftAssumption == HasDraft \in BOOLEAN

Models   == IF HasDraft THEN {"main", "draft"} ELSE {"main"}
InOrder  == {{}, {"main"}, Models}     \* the models done when a loop stops
Tags     == {"weights", "kv_cache"}
Versions == 0 .. MaxUpdates
Lost     == -1     \* what a buffer holds after its memory was discarded
None     == -2     \* no entry in the saved dict

VARIABLES
  resident,   \* the tags whose memory is mapped
  buffers,    \* model -> what its buffers hold, or will once resumed
  saved,      \* model -> _sleep_saved_buffers, _sleep_saved_draft_buffers
  believed,   \* the tags the caller takes for awake
  version,    \* model -> the buffers last loaded into it
  faults,
  leftover,   \* history: a sleep that raised before suspending left copies
  outdated    \* history: new buffers were loaded while there were such copies

history == <<leftover, outdated>>
sleepVars == <<resident, buffers, saved, believed, version, faults, history>>

(* The types of the variables, and the bounds of updates and faults.       *)
SleepTypeOK ==
  /\ resident \subseteq Tags
  /\ buffers \in [Models -> Versions \cup {Lost}]
  /\ saved \in [Models -> Versions \cup {None}]
  /\ believed \subseteq Tags
  /\ version \in [Models -> Versions]
  /\ faults \in 0 .. MaxFaults
  /\ leftover \in BOOLEAN /\ outdated \in BOOLEAN

SleepInit ==
  /\ resident = Tags /\ believed = Tags
  /\ buffers = [m \in Models |-> 0] /\ version = [m \in Models |-> 0]
  /\ saved = [m \in Models |-> None]
  /\ faults = 0 /\ leftover = FALSE /\ outdated = FALSE

-----------------------------------------------------------------------------
(* (A definition whose name ends in _Something is a plausible bug in the   *)
(* definition of that name, kept to see that the properties notice it.)    *)

Faulty == faults < MaxFaults /\ faults' = faults + 1

Awake == "weights" \in resident

Copies(copied) == saved' = [m \in Models |-> IF m \in copied THEN buffers[m] ELSE saved[m]]

(* At level 2 the buffers are read first, which raises, and changes        *)
(* nothing, where their memory is not mapped.                              *)
Saves(level) == IF level = 2 THEN Awake /\ Copies(Models) ELSE UNCHANGED saved

Suspends(level) ==
  /\ resident' = {}
  /\ buffers' = IF level = 2 THEN [m \in Models |-> Lost] ELSE buffers

(* Returned; or raised by the assertion, or by suspend_device_comms, after *)
(* the memory was suspended.                                               *)
Sleep(level) ==
  /\ believed = Tags
  /\ Saves(level)
  /\ Suspends(level)
  /\ \/ believed' = {} /\ UNCHANGED faults
     \/ Faulty /\ UNCHANGED believed
  /\ leftover' = (leftover /\ level # 2)
  /\ UNCHANGED <<version, outdated>>

(* Copying raises, or the backend before it suspended anything: the copies *)
(* that were made stay.                                                    *)
SleepRaises ==
  /\ believed = Tags
  /\ Awake
  /\ \E copied \in InOrder : copied # {} /\ Copies(copied)
  /\ leftover' = TRUE
  /\ Faulty
  /\ UNCHANGED <<resident, buffers, believed, version, outdated>>

(* The backend raises when it has suspended some of the tags: the caller   *)
(* takes all for awake, and copies of buffers that are not lost stay too.  *)
SuspendRaises(level) ==
  /\ believed = Tags
  /\ Saves(level)
  /\ \E gone \in SUBSET resident \ {{}} :
       /\ resident' = resident \ gone
       /\ IF level = 2 /\ "weights" \in gone
          THEN buffers' = [m \in Models |-> Lost] ELSE UNCHANGED buffers
       /\ leftover' = IF level = 2 THEN "weights" \notin gone ELSE leftover
  /\ Faulty
  /\ UNCHANGED <<believed, version, outdated>>

(* Copies are put back into the models they were taken from, and dropped.  *)
(* Nothing is copied into memory that is not mapped.                       *)
Copied_Blindly(restored) ==
  buffers' = [m \in Models |-> IF m \in restored THEN saved[m] ELSE buffers[m]]

Copied(restored) ==
  LET target(m) == m \in restored /\ saved[m] # None /\ "weights" \in resident'
  IN buffers' = [m \in Models |-> IF target(m) THEN saved[m] ELSE buffers[m]]

Dropped_Never(restored) == UNCHANGED saved

Dropped(restored) == saved' = [m \in Models |-> IF m \in restored THEN None ELSE saved[m]]

Restored(restored) == Copied(restored) /\ Dropped(restored)

WakesWeights_AnyTag(tags) == TRUE

WakesWeights(tags) == "weights" \in tags

MayWake(tags) ==
  /\ believed # Tags /\ tags # {}
  /\ tags = Tags \/ tags \cap believed = {}

WakeUp(tags) ==
  /\ MayWake(tags)
  /\ resident' = resident \cup tags
  /\ IF WakesWeights(tags)
     THEN Restored(Models) /\ leftover' = FALSE
     ELSE UNCHANGED <<buffers, saved, leftover>>
  /\ believed' = believed \cup tags
  /\ UNCHANGED <<version, faults, outdated>>

(* The backend resumed some of the tags, or resume_device_comms raised.    *)
ResumeRaises(tags) ==
  /\ MayWake(tags)
  /\ \E resumed \in SUBSET tags : resident' = resident \cup resumed
  /\ Faulty
  /\ UNCHANGED <<buffers, saved, believed, version, history>>

(* A copy raises after the first models got theirs back, or the last       *)
(* synchronization does, after all of them did.                            *)
RestoreRaises(tags) ==
  /\ MayWake(tags) /\ WakesWeights(tags)
  /\ resident' = resident \cup tags
  /\ \E first \in InOrder :
       /\ Restored(first)
       /\ leftover' = (leftover /\ first # Models)
  /\ Faulty
  /\ UNCHANGED <<believed, version, outdated>>

(* New weights bring new buffers with them (external).                     *)
Update(m) ==
  /\ "weights" \in believed /\ Awake
  /\ version[m] < MaxUpdates
  /\ version' = [version EXCEPT ![m] = @ + 1]
  /\ buffers' = [buffers EXCEPT ![m] = version[m] + 1]
  /\ outdated' = (outdated \/ leftover)
  /\ UNCHANGED <<resident, saved, believed, faults, leftover>>

-----------------------------------------------------------------------------
SleepNext ==
  \/ \E level \in {1, 2} : Sleep(level) \/ SuspendRaises(level)
  \/ SleepRaises
  \/ \E tags \in SUBSET Tags : WakeUp(tags) \/ ResumeRaises(tags) \/ RestoreRaises(tags)
  \/ \E m \in Models : Update(m)

SleepSpec == SleepInit /\ [][SleepNext]_sleepVars

-----------------------------------------------------------------------------
(* Properties.  Both except copies that a level-2 sleep left behind when   *)
(* it failed to suspend: wake_up puts them back over newer buffers, even   *)
(* after a sleep at level 1.                                               *)

(* Weights that a caller takes for awake, and that are, have the buffers   *)
(* last loaded: through both levels, partial wakes, assertions that fail   *)
(* after the memory is gone, and retries (lines 282-297).                  *)
BuffersSurvive ==
  ~outdated /\ "weights" \in believed /\ Awake => buffers = version

(* The only copy of a buffer is neither dropped nor overwritten before it  *)
(* is put back, whatever raises in between.                                *)
LostIsSaved ==
  ~outdated => \A m \in Models : buffers[m] = Lost => saved[m] = version[m]
=============================================================================
