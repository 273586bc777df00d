--------------------------- MODULE MCWorkerStorage ---------------------------
(* Two runs of one worker on one repo of two files, one of which validation  *)
(* refuses; a store of three items with a single snapshot kept.              *)
EXTENDS WorkerStorage, TLC

Symmetry == Permutations(Runs)
=============================================================================
