------------------------------ MODULE StepOrder ------------------------------
(* What execute_model of patches/gpu_worker_cachefix.py promises about the *)
(* steps of a pipeline: every rank takes all steps in the order they were  *)
(* issued, and takes one that runs the model only after the rank before    *)
(* it has.  No buffers, no sends, no receives.                             *)
EXTENDS Naturals, Sequences

CONSTANTS
  NumRanks,   \* pipeline_parallel_size
  MaxSteps    \* bound: steps the scheduler issues

VARIABLES
  issued,     \* for each step, whether it has "tokens" to run the model on
  done        \* rank -> number of steps it has finished

Ranks == 0 .. NumRanks - 1
Kinds == {"tokens", "empty"}

Init == issued = <<>> /\ done = [r \in Ranks |-> 0]

Issue ==
  /\ Len(issued) < MaxSteps
  /\ \E kind \in Kinds : issued' = Append(issued, kind)
  /\ UNCHANGED done

FinishStep(r) ==
  /\ done[r] < Len(issued)
  /\ issued[done[r] + 1] = "tokens" /\ r > 0 => done[r - 1] > done[r]
  /\ done' = [done EXCEPT ![r] = @ + 1]
  /\ UNCHANGED issued

Next == Issue \/ \E r \in Ranks : FinishStep(r)

Spec == Init /\ [][Next]_<<issued, done>>
=============================================================================
