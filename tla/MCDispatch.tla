----------------------------- MODULE MCDispatch -----------------------------
(* One task with two gates for the races about its review; two tasks that    *)
(* contend for one slot, the first with a gate.                              *)
EXTENDS Dispatch, TLC

CONSTANTS t1, g1, g2

OwnBoth == (g1 :> t1) @@ (g2 :> t1)
OwnOne == g1 :> t1

Symmetry == Permutations(Runs)
=============================================================================
