------------------------------ MODULE MCKVTier ------------------------------
(* Small instances of KVTier.                                              *)
EXTENDS KVTier, TLC

(* Keys and configurations are only compared, so permuting them is sound   *)
(* for the safety runs; the liveness runs do not use it.                   *)
Symmetry == Permutations(Keys) \cup Permutations(Configs)
=============================================================================
