--------------------------- MODULE TaskLifecycle ---------------------------
(***************************************************************************)
(* What docs/work.md promises about a task's state, without boxes, gates,  *)
(* processes or crashes:                                                   *)
(*                                                                         *)
(*    pending -> claimed -> completed | failed | needs-review -> journal   *)
(*                                                                         *)
(* a task in review completes, and a claimed one whose box died goes back  *)
(* to pending.                                                             *)
(***************************************************************************)
CONSTANT Tasks

VARIABLE task     \* [Tasks -> TaskState]

TaskState == {"pending", "claimed", "needs-review", "completed", "failed"}

Move(t, from, to) == /\ task[t] \in from
                     /\ task' = [task EXCEPT ![t] = to]

Init == task = [t \in Tasks |-> "pending"]

Claim(t) == Move(t, {"pending"}, "claimed")
Attest(t) == \E outcome \in {"completed", "failed", "needs-review"} :
               Move(t, {"claimed"}, outcome)
Reclaim(t) == Move(t, {"claimed"}, "pending")
CloseReview(t) == Move(t, {"needs-review"}, "completed")

Next == \E t \in Tasks : Claim(t) \/ Attest(t) \/ Reclaim(t) \/ CloseReview(t)

Spec == Init /\ [][Next]_task
=============================================================================
