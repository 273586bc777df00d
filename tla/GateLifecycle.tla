--------------------------- MODULE GateLifecycle ---------------------------
(***************************************************************************)
(* What the approval desk promises about a gate, without files, locks or   *)
(* processes: the timestamped state machine that opens src/action/gate.rs, *)
(*                                                                         *)
(*     pending -> approved -> executing -> executed | failed               *)
(*     pending -> denied                                                   *)
(*                                                                         *)
(* with the two transitions execute_gate and deny_gate add to it (a failed *)
(* executor may be retried, an approved gate whose execution never began   *)
(* may still be denied), and with the side effect itself: an action leaves *)
(* the building at most once, only while its gate is executing.  Gate.tla  *)
(* implements this module.                                                 *)
(***************************************************************************)
EXTENDS Naturals

CONSTANT Gates          \* the gate ids ever filed

VARIABLES
  state,                \* [Gates -> GateState], the authoritative state
  sent                  \* [Gates -> Nat], completed side effects per gate

GateState == {"absent", "pending", "approved", "executing",
              "executed", "failed", "denied"}

vars == <<state, sent>>

Init == /\ state = [g \in Gates |-> "absent"]
        /\ sent = [g \in Gates |-> 0]

Move(g, from, to) == /\ state[g] \in from
                     /\ state' = [state EXCEPT ![g] = to]

File(g) == Move(g, {"absent"}, "pending") /\ UNCHANGED sent

Approve(g) == Move(g, {"pending"}, "approved") /\ UNCHANGED sent

Start(g) == /\ Move(g, {"approved", "failed"}, "executing")
            /\ sent[g] = 0
            /\ UNCHANGED sent

\* The side effect happens.  Nothing says it is recorded.
Effect(g) == /\ state[g] = "executing"
             /\ sent[g] = 0
             /\ sent' = [sent EXCEPT ![g] = 1]
             /\ UNCHANGED state

Executed(g) == /\ sent[g] = 1
               /\ Move(g, {"executing"}, "executed")
               /\ UNCHANGED sent

Failed(g) == /\ sent[g] = 0
             /\ Move(g, {"executing"}, "failed")
             /\ UNCHANGED sent

Deny(g) == Move(g, {"pending", "approved"}, "denied") /\ UNCHANGED sent

Next == \E g \in Gates : \/ File(g) \/ Approve(g) \/ Start(g) \/ Effect(g)
                         \/ Executed(g) \/ Failed(g) \/ Deny(g)

Spec == Init /\ [][Next]_vars
=============================================================================
