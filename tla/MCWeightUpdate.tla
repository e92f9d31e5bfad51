--------------------------- MODULE MCWeightUpdate ---------------------------
(* Small instances of WeightUpdate.                                        *)
EXTENDS WeightUpdate

(* Of every replica the last worker has the draft model, the others fail   *)
(* when a draft session is started.                                        *)
LastWorkers == {w \in Workers : w[2] = WorldSize - 1}
=============================================================================
