---------------------------- MODULE WeightUpdate ----------------------------
(* Online weight updates of patches/gpu_worker_cachefix.py: every worker   *)
(* keeps whether a session is open and for which model; its transfer       *)
(* engine (external) keeps the model that chunks are loaded into.          *)
(*                                                                         *)
(* The trainer's calls reach every worker in the same order, but each      *)
(* worker executes them at its own pace and may fail on its own: one call  *)
(* may succeed here and raise there.                                       *)
EXTENDS Integers, Sequences, FiniteSets

CONSTANTS
  NumReplicas,     \* data parallel replicas
  WorldSize,       \* workers of one replica
  SupportsDraft,   \* the engine can update draft weights
  DraftWorkers,    \* the workers that have a draft model and its config
  MaxCalls,        \* bound: calls of the trainer
  MaxFaults        \* bound: times the engine raises

ASSUME SizesAssumption == NumReplicas \in Nat \ {0} /\ WorldSize \in Nat \ {0}
ASSUME BoundsAssumption == MaxCalls \in Nat /\ MaxFaults \in Nat
ASSUME FlagsAssumption == SupportsDraft \in BOOLEAN

Workers == (0 .. NumReplicas - 1) \X (0 .. WorldSize - 1)
Models  == {"main", "draft"}

ASSUME DraftAssumption == DraftWorkers \subseteq Workers

(* A chunk is one dict for all workers or a list with one entry per worker *)
(* of all replicas; `parts` is the length of the list, 0 for a dict.       *)
Calls == [op : {"start", "start_draft", "finish"}]
           \cup [op : {"update"}, parts : 0 .. NumReplicas * WorldSize]

VARIABLES
  calls,       \* what the trainer has called so far
  handled,     \* how many of them each worker has executed
  refused,     \* which of them raised on each worker
  active,      \* _weight_update_active
  isDraft,     \* _weight_update_is_draft
  target,      \* the engine's target
  faults,
  loads,       \* history: call -> worker -> what it loaded, and from which part
  loraStale,   \* the base weights changed since reset_lora_state
  aborted      \* history: a session that had loaded base weights was aborted

session == <<active, isDraft, target>>
lora    == <<loraStale, aborted>>
vars == <<calls, handled, refused, session, faults, loads, lora>>

Nothing == [model |-> "none", part |-> -1]

(* The types of the variables, and the bounds of the trainer and faults.   *)
TypeOK ==
  /\ calls \in Seq(Calls) /\ Len(calls) <= MaxCalls
  /\ handled \in [Workers -> 0 .. Len(calls)]
  /\ refused \in [Workers -> SUBSET (1 .. Len(calls))]
  /\ active \in [Workers -> BOOLEAN]
  /\ isDraft \in [Workers -> BOOLEAN]
  /\ target \in [Workers -> Models]
  /\ faults \in 0 .. MaxFaults
  /\ loads \in [1 .. MaxCalls -> [Workers -> [model : Models \cup {"none"}, part : Int]]]
  /\ loraStale \in [Workers -> BOOLEAN]
  /\ aborted \in [Workers -> BOOLEAN]

Init ==
  /\ calls = <<>>
  /\ handled = [w \in Workers |-> 0]
  /\ refused = [w \in Workers |-> {}]
  /\ active = [w \in Workers |-> FALSE]
  /\ isDraft = [w \in Workers |-> FALSE]
  /\ target = [w \in Workers |-> "main"]
  /\ faults = 0
  /\ loads = [c \in 1 .. MaxCalls |-> [w \in Workers |-> Nothing]]
  /\ loraStale = [w \in Workers |-> FALSE]
  /\ aborted = [w \in Workers |-> FALSE]

-----------------------------------------------------------------------------
(* The trainer.                                                            *)
(* (A definition whose name ends in _Something is a plausible bug in the   *)
(* definition of that name, kept to see that the properties notice it.)    *)

Answered(c) == \A w \in Workers : handled[w] >= c

(* It waits for every call to be answered, and may make any call next.     *)
Call(call) ==
  /\ Len(calls) < MaxCalls
  /\ Answered(Len(calls))
  /\ calls' = Append(calls, call)
  /\ UNCHANGED <<handled, refused, session, faults, loads, lora>>

-----------------------------------------------------------------------------
(* The workers.                                                            *)

Next_(w) == handled[w] + 1

Takes(w, ops) ==
  /\ handled[w] < Len(calls) /\ calls[Next_(w)].op \in ops
  /\ handled' = [handled EXCEPT ![w] = Next_(w)]
  /\ UNCHANGED calls

Returns(w) == UNCHANGED refused
Raises(w)  == refused' = [refused EXCEPT ![w] = @ \cup {Next_(w)}]

EngineFails ==
  /\ faults < MaxFaults
  /\ faults' = faults + 1

WantsDraft(w) == calls[Next_(w)].op = "start_draft"
HasDraft(w)   == w \in DraftWorkers

MayStart(w) == (WantsDraft(w) => SupportsDraft) /\ ~active[w]

StartAccepted(w) ==
  /\ Takes(w, {"start", "start_draft"}) /\ Returns(w)
  /\ MayStart(w)
  /\ WantsDraft(w) => HasDraft(w)
  /\ target' = [target EXCEPT ![w] = IF WantsDraft(w) THEN "draft" ELSE @]
  /\ active' = [active EXCEPT ![w] = TRUE]
  /\ isDraft' = [isDraft EXCEPT ![w] = WantsDraft(w)]
  /\ UNCHANGED <<faults, loads, lora>>

(* Refused before the engine is touched.                                   *)
StartRefused(w) ==
  /\ Takes(w, {"start", "start_draft"}) /\ Raises(w)
  /\ ~MayStart(w)
  /\ UNCHANGED <<session, faults, loads, lora>>

ResetTarget_Skipped(w) == UNCHANGED target
ResetTarget_Drops(w)   == target' = [target EXCEPT ![w] = "none"]

ResetTarget(w) == target' = [target EXCEPT ![w] = "main"]

(* There is no draft to target, or the engine raises while it starts.      *)
StartFails(w) ==
  /\ Takes(w, {"start", "start_draft"}) /\ Raises(w)
  /\ MayStart(w)
  /\ \/ WantsDraft(w) /\ ~HasDraft(w) /\ UNCHANGED faults
     \/ (WantsDraft(w) => HasDraft(w)) /\ EngineFails
  /\ ResetTarget(w)
  /\ UNCHANGED <<active, isDraft, loads, lora>>

PartOf_Rank(w) == w[2]

PartOf(w) == w[1] * WorldSize + w[2]

(* A dict is everybody's part 0; a list that is too short raises.          *)
Part(w) == IF calls[Next_(w)].parts = 0 THEN 0 ELSE PartOf(w)
PartExists(w) == calls[Next_(w)].parts # 0 => PartOf(w) < calls[Next_(w)].parts

Loads(w) ==
  /\ loads' = [loads EXCEPT ![Next_(w)][w] = [model |-> target[w], part |-> Part(w)]]
  /\ loraStale' = [loraStale EXCEPT ![w] = @ \/ target[w] = "main"]

MayUpdate_Always(w) == TRUE

MayUpdate(w) == active[w]

UpdateLoads(w) ==
  /\ Takes(w, {"update"}) /\ Returns(w)
  /\ MayUpdate(w) /\ PartExists(w)
  /\ Loads(w)
  /\ UNCHANGED <<session, faults, aborted>>

UpdateRefused(w) ==
  /\ Takes(w, {"update"}) /\ Raises(w)
  /\ ~MayUpdate(w)
  /\ UNCHANGED <<session, faults, loads, lora>>

(* The list is too short, or the engine raises, before or after it loaded. *)
UpdateFails(w) ==
  /\ Takes(w, {"update"}) /\ Raises(w)
  /\ MayUpdate(w)
  /\ \/ ~PartExists(w) /\ UNCHANGED <<faults, loads, loraStale>>
     \/ PartExists(w) /\ EngineFails
          /\ (Loads(w) \/ UNCHANGED <<loads, loraStale>>)
  /\ active' = [active EXCEPT ![w] = FALSE]
  /\ ResetTarget(w)
  /\ aborted' = [aborted EXCEPT ![w] = @ \/ loraStale'[w]]
  /\ UNCHANGED <<isDraft>>

TouchedBase_Inverted(w) == isDraft[w]

TouchedBase(w) == ~isDraft[w]

FinishAccepted(w) ==
  /\ Takes(w, {"finish"}) /\ Returns(w)
  /\ active[w]
  /\ ResetTarget(w)
  /\ active' = [active EXCEPT ![w] = FALSE]
  /\ IF TouchedBase(w)
     THEN /\ loraStale' = [loraStale EXCEPT ![w] = FALSE]
          /\ aborted' = [aborted EXCEPT ![w] = FALSE]
     ELSE UNCHANGED lora
  /\ UNCHANGED <<isDraft, faults, loads>>

(* The session is closed when the reset of the LoRA state raises.          *)
FinishRaises(w) ==
  /\ Takes(w, {"finish"}) /\ Raises(w)
  /\ active[w] /\ TouchedBase(w)
  /\ EngineFails
  /\ ResetTarget(w)
  /\ active' = [active EXCEPT ![w] = FALSE]
  /\ aborted' = [aborted EXCEPT ![w] = @ \/ loraStale[w]]
  /\ UNCHANGED <<isDraft, loads, loraStale>>

(* No session; or the engine raises, and the session stays open.           *)
FinishRefused(w) ==
  /\ Takes(w, {"finish"}) /\ Raises(w)
  /\ \/ ~active[w] /\ UNCHANGED faults
     \/ active[w] /\ EngineFails
  /\ UNCHANGED <<session, loads, lora>>

WorkerNext(w) ==
  \/ StartAccepted(w) \/ StartRefused(w) \/ StartFails(w)
  \/ UpdateLoads(w) \/ UpdateRefused(w) \/ UpdateFails(w)
  \/ FinishAccepted(w) \/ FinishRaises(w) \/ FinishRefused(w)

Next == (\E call \in Calls : Call(call)) \/ (\E w \in Workers : WorkerNext(w))

Spec == Init /\ [][Next]_vars

-----------------------------------------------------------------------------
(* Properties.                                                             *)

(* The engine is retargeted at the draft for as long as a draft session is *)
(* open and no longer, however the session ends: by finish, by a failed    *)
(* start or by a failed chunk (the resets of lines 1406, 1445 and 1460).   *)
TargetFollowsSession ==
  \A w \in Workers :
    target[w] = IF active[w] /\ isDraft[w] THEN "draft" ELSE "main"

(* Call c of a worker falls into the session that its call s opened: since *)
(* then it accepted only chunks, and refused to start and to finish.       *)
Selects(op) == IF op = "start_draft" THEN "draft" ELSE "main"

Governs(w, s, c) ==
  /\ calls[s].op \in {"start", "start_draft"} /\ s \notin refused[w]
  /\ \A t \in s + 1 .. c - 1 :
       \/ calls[t].op = "update" /\ t \notin refused[w]
       \/ calls[t].op \in {"start", "start_draft", "finish"} /\ t \in refused[w]

(* Every chunk a worker loads goes into the model that the start call of   *)
(* its session selected (the docstring of update_weights, 1415-1418).      *)
ChunksGoWhereSelected ==
  \A w \in Workers : \A c \in 1 .. handled[w] :
    loads[c][w] # Nothing =>
      \E s \in 1 .. c - 1 :
        Governs(w, s, c) /\ loads[c][w].model = Selects(calls[s].op)

(* A chunk that follows a start and chunks that every worker accepted is   *)
(* never loaded into the base model here and into the draft there,         *)
(* whatever failed on one worker or the other before that start.           *)
AcceptedByAll(c) == \A w \in Workers : c \notin refused[w]

InSharedSession(c) ==
  \E s \in 1 .. c - 1 :
    /\ calls[s].op \in {"start", "start_draft"}
    /\ \A t \in s .. c - 1 :
         AcceptedByAll(t) /\ (t # s => calls[t].op = "update")

SameModelEverywhere ==
  \A c \in 1 .. Len(calls) : InSharedSession(c) =>
    \A v, w \in Workers :
      loads[c][v] = Nothing \/ loads[c][w] = Nothing
        \/ loads[c][v].model = loads[c][w].model

(* Of a list of parts every worker of every replica loads its own (lines   *)
(* 1434-1439).                                                             *)
OwnParts ==
  \A c \in 1 .. Len(calls) : \A v, w \in Workers :
    /\ v # w /\ calls[c].op = "update" /\ calls[c].parts # 0
    /\ loads[c][v] # Nothing /\ loads[c][w] # Nothing
    => loads[c][v].part # loads[c][w].part

(* Outside of sessions the LoRA state has been reset since the base        *)
(* weights last changed.  Sessions that were aborted after they loaded a   *)
(* chunk, or whose reset itself raised, are excepted: nothing resets it    *)
(* for them, a second finish is refused.                                   *)
LoraFresh ==
  \A w \in Workers : ~active[w] /\ ~aborted[w] => ~loraStale[w]
=============================================================================
