------------------------------- MODULE MCTms -------------------------------
(* The entries the agent writes: a pending one with any edges, one that is   *)
(* not due yet, one of each standing, and two an agent may not write, a      *)
(* claimed one and one that claims its own completion.                       *)
EXTENDS Tms, TLC

Pending == [Blank EXCEPT !.state = "pending"]
Linked == {[Pending EXCEPT !.deps = deps] : deps \in SUBSET Tasks}
Later == [Pending EXCEPT !.at = 1]
Proactive == [Pending EXCEPT !.standing = "proactive"]
Forged == {[Blank EXCEPT !.state = "claimed"], [Blank EXCEPT !.state = "completed"]}

AnyEdit == Linked \cup {Proactive, Later} \cup Forged
OwnerEdits == Linked

Symmetry == Permutations(Tasks)
=============================================================================
