-------------------------- MODULE PipelineParallel --------------------------
(* The steps of a pipeline of workers (execute_model and the lazily        *)
(* awaited AsyncIntermediateTensors of patches/gpu_worker_cachefix.py).    *)
(*                                                                         *)
(* Every rank takes the scheduler's steps one after the other.  A step     *)
(* that runs the model receives the previous rank's output and sends its   *)
(* own to the next rank; both transfers go on while the rank computes.     *)
(* The transfers and the model are external: a transfer needs its send and *)
(* its receive posted, the two queues of a link match in order, and it     *)
(* reads the sender's output buffer when it happens.                       *)
(*                                                                         *)
(* Left out: the all-gather split of the payload (lines 1159-1186), the    *)
(* profiler's annotations, pooling models.                                 *)
EXTENDS Integers, Sequences

CONSTANTS
  NumRanks,   \* pipeline_parallel_size
  MaxSteps    \* bound: steps the scheduler issues

ASSUME RanksAssumption == NumRanks \in Nat \ {0}
ASSUME StepsAssumption == MaxSteps \in Nat

Ranks == 0 .. NumRanks - 1
Steps == 1 .. MaxSteps
Kinds == {"tokens", "empty"}   \* total_num_scheduled_tokens > 0 or = 0
Last  == NumRanks - 1
Torn  == 0             \* a buffer that is being written, or never was

MaxPostprocess == 2    \* bound: a third time would tell nothing more

VARIABLES
  issued,         \* for each step, whether it has tokens to run the model on
  done,           \* rank -> steps it has finished
  running,        \* rank -> it is inside a step
  sendWork,       \* rank -> _pp_send_work: the steps whose sends it must await
  sends,          \* rank -> posted sends that were not transferred yet
  receives,       \* rank -> posted receives that have not completed
  output,         \* rank -> the step whose output its send buffer holds
  received,       \* rank -> the step whose output its received tensors hold
  commWaited,     \* rank -> _comm_waited of the current step's tensors
  postprocessed,  \* rank -> times the current step's postprocessing ran
  seen            \* history: what the model found in .tensors in this step

links   == <<sendWork, sends, receives>>
tensors == <<output, received, commWaited, postprocessed, seen>>
vars    == <<issued, done, running, links, tensors>>

(* The types of the variables; a link has one send under way at most.      *)
TypeOK ==
  /\ issued \in Seq(Kinds) /\ Len(issued) <= MaxSteps
  /\ done \in [Ranks -> 0 .. MaxSteps]
  /\ running \in [Ranks -> BOOLEAN]
  /\ sendWork \in [Ranks -> SUBSET Steps]
  /\ sends \in [Ranks -> Seq(Steps)] /\ \A r \in Ranks : Len(sends[r]) <= 1
  /\ receives \in [Ranks -> Seq(Steps)] /\ \A r \in Ranks : Len(receives[r]) <= 1
  /\ output \in [Ranks -> Steps \cup {Torn}]
  /\ received \in [Ranks -> Steps \cup {Torn}]
  /\ commWaited \in [Ranks -> BOOLEAN]
  /\ postprocessed \in [Ranks -> Nat]
  /\ seen \in [Ranks -> SUBSET ((Steps \cup {Torn}) \X Nat)]

Init ==
  /\ issued = <<>>
  /\ done = [r \in Ranks |-> 0]
  /\ running = [r \in Ranks |-> FALSE]
  /\ sendWork = [r \in Ranks |-> {}]
  /\ sends = [r \in Ranks |-> <<>>]
  /\ receives = [r \in Ranks |-> <<>>]
  /\ output = [r \in Ranks |-> Torn]
  /\ received = [r \in Ranks |-> Torn]
  /\ commWaited = [r \in Ranks |-> FALSE]
  /\ postprocessed = [r \in Ranks |-> 0]
  /\ seen = [r \in Ranks |-> {}]

-----------------------------------------------------------------------------
(* The scheduler broadcasts its steps to all ranks.                        *)
(* (A definition whose name ends in _Something is a plausible bug in the   *)
(* definition of that name, kept to see that the properties notice it.)    *)
Issue ==
  /\ Len(issued) < MaxSteps
  /\ \E kind \in Kinds : issued' = Append(issued, kind)
  /\ UNCHANGED <<done, running, links, tensors>>

Step(r)    == done[r] + 1
Forward(r) == issued[Step(r)] = "tokens"

SendsDone_Assumed(r) == TRUE

Posted(queue)  == {queue[i] : i \in DOMAIN queue}
SendsDone(r)   == sendWork[r] \cap Posted(sends[r]) = {}

Receives_Always(r) == r > 0

Receives(r) == Forward(r) /\ r > 0
Sends(r)    == Forward(r) /\ r < Last

(* Await the previous sends, post the receive, enter the model runner:     *)
(* from here on it may overwrite the output buffer.                        *)
BeginStep(r) ==
  /\ ~running[r] /\ done[r] < Len(issued)
  /\ SendsDone(r)
  /\ sendWork' = [sendWork EXCEPT ![r] = {}]
  /\ IF Receives(r)
     THEN /\ receives' = [receives EXCEPT ![r] = Append(@, Step(r))]
          /\ received' = [received EXCEPT ![r] = Torn]
          /\ commWaited' = [commWaited EXCEPT ![r] = FALSE]
          /\ postprocessed' = [postprocessed EXCEPT ![r] = 0]
     ELSE UNCHANGED <<receives, received, commWaited, postprocessed>>
  /\ output' = [output EXCEPT ![r] = IF Sends(r) THEN Torn ELSE @]
  /\ seen' = [seen EXCEPT ![r] = {}]
  /\ running' = [running EXCEPT ![r] = TRUE]
  /\ UNCHANGED <<issued, done, sends>>

(* The link from rank r to the next one moves one message.                 *)
Transfer(r) ==
  /\ r < Last /\ sends[r] # <<>> /\ receives[r + 1] # <<>>
  /\ received' = [received EXCEPT ![r + 1] = output[r]]
  /\ sends' = [sends EXCEPT ![r] = Tail(@)]
  /\ receives' = [receives EXCEPT ![r + 1] = Tail(@)]
  /\ UNCHANGED <<issued, done, running, sendWork, output, commWaited, postprocessed, seen>>

Arrived_Assumed(r) == TRUE

Arrived(r) == receives[r] = <<>>

Waited_Forgotten(r) == UNCHANGED commWaited

Waited(r) == commWaited' = [commWaited EXCEPT ![r] = TRUE]

(* The model reads .tensors, as often as it likes: the first access awaits *)
(* the receive and runs the postprocessing.                                *)
AccessTensors(r) ==
  /\ running[r] /\ Receives(r)
  /\ IF commWaited[r]
     THEN UNCHANGED <<commWaited, postprocessed>>
     ELSE /\ Arrived(r)
          /\ postprocessed' = [postprocessed EXCEPT ![r] = @ + 1]
          /\ Waited(r)
  /\ postprocessed'[r] <= MaxPostprocess
  /\ seen' = [seen EXCEPT ![r] = @ \cup {<<received[r], postprocessed'[r]>>}]
  /\ UNCHANGED <<issued, done, running, links, output, received>>

(* The model is through; what it computed is sent without waiting.         *)
FinishStep(r) ==
  /\ running[r]
  /\ Receives(r) => seen[r] # {}
  /\ done' = [done EXCEPT ![r] = Step(r)]
  /\ running' = [running EXCEPT ![r] = FALSE]
  /\ IF Sends(r)
     THEN /\ output' = [output EXCEPT ![r] = Step(r)]
          /\ sends' = [sends EXCEPT ![r] = Append(@, Step(r))]
          /\ sendWork' = [sendWork EXCEPT ![r] = {Step(r)}]
     ELSE UNCHANGED <<output, sends, sendWork>>
  /\ UNCHANGED <<issued, receives, received, commWaited, postprocessed, seen>>

Next ==
  \/ Issue
  \/ \E r \in Ranks : BeginStep(r) \/ Transfer(r) \/ AccessTensors(r) \/ FinishStep(r)

Spec == Init /\ [][Next]_vars

(* Workers loop over the steps they are sent, posted transfers complete,   *)
(* and the model reads its input and ends: each is a thread or a device    *)
(* that runs whenever it can.  Nothing makes the scheduler issue a step.   *)
Fairness ==
  \A r \in Ranks :
    /\ WF_vars(BeginStep(r)) /\ WF_vars(Transfer(r)) /\ WF_vars(FinishStep(r))
    /\ WF_vars(AccessTensors(r) /\ seen[r] = {})

FairSpec == Spec /\ Fairness

-----------------------------------------------------------------------------
(* Properties.                                                             *)

(* Whenever the model of a rank reads .tensors in step n, it finds what    *)
(* the previous rank computed in step n, whole (that rank has not started  *)
(* to overwrite its buffer: lines 1145-1150) and postprocessed exactly     *)
(* once (lines 159-168).                                                   *)
TensorsOfThisStep ==
  \A r \in Ranks : running[r] => seen[r] \subseteq {<<Step(r), 1>>}

(* Every step the scheduler issues is finished by every rank: waiting for  *)
(* sends, lazy receives and steps without tokens never block each other.   *)
AllStepsFinish ==
  \A r \in Ranks : \A n \in Steps : Len(issued) >= n ~> done[r] >= n

(* The ranks take the steps in the order and in the dependency promised.   *)
Order == INSTANCE StepOrder
KeepsOrder == Order!Spec
=============================================================================
