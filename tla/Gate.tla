-------------------------------- MODULE Gate --------------------------------
(***************************************************************************)
(* The approval desk: src/action/gate.rs, and execute_gate and deny_gate   *)
(* of src/action/mod.rs.                                                   *)
(*                                                                         *)
(* A gate is one JSON file that moves between two directories of its       *)
(* worker, gates/pending and gates/resolved.  Several processes act on it: *)
(* the daemon files it (submit, without a lock) and serves approvals from  *)
(* chat; every `roster server approvals` command is a process of its own.  *)
(* Every transition runs under one flock, "gates", which the kernel drops  *)
(* when its holder dies; the executor itself runs with the lock released.  *)
(*                                                                         *)
(* A step of this module is what happens between two points where another  *)
(* process can look at the files or where a crash leaves a different disk: *)
(* `save` is therefore two steps, the atomic write of the new copy and the *)
(* removal of the stale one.  A save that returns an I/O error abandons    *)
(* the operation exactly as a crash there does, so Crash covers both.      *)
(***************************************************************************)
EXTENDS Naturals

CONSTANTS
  Gates,          \* gate ids
  Desk,           \* processes that approve or deny, one command at a time
  None,           \* no holder, no gate
  MaxApprovals    \* bound: `approve` commands that get past the checks, per gate

ASSUME GateAssumption == /\ None \notin Desk \cup Gates
                         /\ MaxApprovals \in Nat

VARIABLES
  pendingDir,     \* [Gates -> Copy], the file under gates/pending
  resolvedDir,    \* [Gates -> Copy], the file under gates/resolved
  lock,           \* who holds FileLock "gates"
  pc,             \* [Desk -> Step], where each command is
  target,         \* [Desk -> Gates or None], the gate the command names
  inMemory,       \* [Desk -> Copy], the `state` of the Gate value it carries
  approvals,      \* [Gates -> Nat], approve commands that claimed the gate
  sent            \* [Gates -> Nat], side effects that happened (history)

Live == {"pending", "approved", "executing"}
Terminal == {"executed", "failed", "denied"}
Copy == {"absent"} \cup Live \cup Terminal
Step == {"idle", "claim", "unstale", "run", "returned", "settle"}

files == <<pendingDir, resolvedDir>>
vars == <<pendingDir, resolvedDir, lock, pc, target, inMemory, approvals, sent>>

Init == /\ pendingDir = [g \in Gates |-> "absent"]
        /\ resolvedDir = [g \in Gates |-> "absent"]
        /\ lock = None
        /\ pc = [d \in Desk |-> "idle"]
        /\ target = [d \in Desk |-> None]
        /\ inMemory = [d \in Desk |-> "absent"]
        /\ approvals = [g \in Gates |-> 0]
        /\ sent = [g \in Gates |-> 0]

-----------------------------------------------------------------------------
(* Storage *)

\* Mutant: the pending copy wins.
LoadPendingFirst(g) ==
  IF pendingDir[g] # "absent" THEN pendingDir[g] ELSE resolvedDir[g]

\* gate::load: the resolved copy is the truth when both exist.
Load(g) == IF resolvedDir[g] # "absent" THEN resolvedDir[g] ELSE pendingDir[g]

\* The first half of gate::save: the new copy lands in the directory its state
\* files it under.
Write(g, s) ==
  IF s \in Terminal
  THEN /\ resolvedDir' = [resolvedDir EXCEPT ![g] = s]
       /\ UNCHANGED pendingDir
  ELSE /\ pendingDir' = [pendingDir EXCEPT ![g] = s]
       /\ UNCHANGED resolvedDir

\* The second half: the stale copy in the other directory goes.
DropStale(g, s) ==
  IF s \in Terminal
  THEN /\ pendingDir' = [pendingDir EXCEPT ![g] = "absent"]
       /\ UNCHANGED resolvedDir
  ELSE /\ resolvedDir' = [resolvedDir EXCEPT ![g] = "absent"]
       /\ UNCHANGED pendingDir

\* Mutant: a gate that is mid-execution may be claimed again.
MayExecuteAgain(g) == Load(g) \in {"pending", "approved", "executing", "failed"}

\* What execute_gate lets through: not executed, not denied, not executing.
MayExecute(g) == Load(g) \in {"pending", "approved", "failed"}

\* Mutant: only a terminal gate is refused.
MayDenyExecuting(g) == Load(g) \in Live

\* What deny_gate lets through.
MayDeny(g) == Load(g) \in {"pending", "approved"}

Goto(d, step) == pc' = [pc EXCEPT ![d] = step]
Carry(d, s) == inMemory' = [inMemory EXCEPT ![d] = s]
Acquire(d) == lock = None /\ lock' = d
Release(d) == lock = d /\ lock' = None

\* The command is over and its process gone.
End(d) == /\ Goto(d, "idle")
          /\ Carry(d, "absent")
          /\ target' = [target EXCEPT ![d] = None]

-----------------------------------------------------------------------------
(* Filing: submit saves a pending gate under a fresh id, taking no lock. *)

Submit(g) ==
  /\ Load(g) = "absent"
  /\ Write(g, "pending")
  /\ UNCHANGED <<lock, pc, target, inMemory, approvals, sent>>

(* execute_gate, phase 1: under the lock, load and refuse an executed, denied
   or executing gate; a pending one is saved as approved first.  (The stale
   copy that this save would remove cannot exist: Load said pending.)         *)
Approve(d, g) ==
  /\ pc[d] = "idle"
  /\ Acquire(d)
  /\ MayExecute(g)
  /\ approvals[g] < MaxApprovals
  /\ approvals' = [approvals EXCEPT ![g] = @ + 1]
  /\ target' = [target EXCEPT ![d] = g]
  /\ IF Load(g) = "pending"
     THEN Write(g, "approved") /\ Carry(d, "approved")
     ELSE UNCHANGED files /\ Carry(d, Load(g))
  /\ Goto(d, "claim")
  /\ UNCHANGED sent

\* ... then the claim: the executing copy is written ...
Claim(d) ==
  /\ pc[d] = "claim"
  /\ Write(target[d], "executing")
  /\ Carry(d, "executing")
  /\ Goto(d, "unstale")
  /\ UNCHANGED <<lock, target, approvals, sent>>

\* ... the failed copy of an earlier attempt goes, and the lock is released.
Unstale(d) ==
  /\ pc[d] = "unstale"
  /\ DropStale(target[d], inMemory[d])
  /\ Release(d)
  /\ Goto(d, "run")
  /\ UNCHANGED <<target, inMemory, approvals, sent>>

(* Phase 2, without the lock: the executor returns Ok, its effect out, or an
   error.  `sent` counts the effects the desk can know of; an executor that
   errs after the far side acted (a timeout after the send) is not counted.   *)
ExecutorOk(d) ==
  /\ pc[d] = "run"
  /\ sent' = [sent EXCEPT ![target[d]] = @ + 1]
  /\ Carry(d, "executed")
  /\ Goto(d, "returned")
  /\ UNCHANGED <<files, lock, target, approvals>>

ExecutorErr(d) ==
  /\ pc[d] = "run"
  /\ Carry(d, "failed")
  /\ Goto(d, "returned")
  /\ UNCHANGED <<files, lock, target, approvals, sent>>

(* Phase 3, under the lock again: the state carried since phase 1 is written
   without loading the gate a second time.                                    *)
Record(d) ==
  /\ pc[d] = "returned"
  /\ Acquire(d)
  /\ Write(target[d], inMemory[d])
  /\ Goto(d, "settle")
  /\ UNCHANGED <<target, inMemory, approvals, sent>>

(* deny_gate: a terminal or executing gate is refused. *)
Deny(d, g) ==
  /\ pc[d] = "idle"
  /\ Acquire(d)
  /\ MayDeny(g)
  /\ target' = [target EXCEPT ![d] = g]
  /\ Write(g, "denied")
  /\ Carry(d, "denied")
  /\ Goto(d, "settle")
  /\ UNCHANGED <<approvals, sent>>

\* The end of phase 3 and of deny_gate: the pending copy goes and the command
\* ends.  (resolve_followup runs here; Dispatch.tla models it.)
Settle(d) ==
  /\ pc[d] = "settle"
  /\ DropStale(target[d], inMemory[d])
  /\ Release(d)
  /\ End(d)
  /\ UNCHANGED <<approvals, sent>>

\* Mutant: the lock survives its holder, as a lock directory would.
FreedWhenDying(d) == lock

\* The kernel drops a dead process's flock.
FreedByKernel(d) == IF lock = d THEN None ELSE lock

(* The process dies, or a save or the lock fails and the command gives up.
   An executor under way may or may not have had its effect.                  *)
Crash(d) ==
  /\ pc[d] # "idle"
  /\ lock' = FreedByKernel(d)
  /\ End(d)
  /\ \/ UNCHANGED sent
     \/ pc[d] = "run" /\ sent' = [sent EXCEPT ![target[d]] = @ + 1]
  /\ UNCHANGED <<files, approvals>>

DeskStep(d) == \/ Claim(d) \/ Unstale(d) \/ ExecutorOk(d) \/ ExecutorErr(d)
               \/ Record(d) \/ Settle(d)

Next == \/ \E g \in Gates : Submit(g)
        \/ \E d \in Desk, g \in Gates : Approve(d, g) \/ Deny(d, g)
        \/ \E d \in Desk : DeskStep(d) \/ Crash(d)

Spec == Init /\ [][Next]_vars

(* A command that has begun is scheduled until it ends: each process runs on,
   executors return (a timeout is an error), and a blocked flock(2) is granted
   once its holders are done; claims being bounded, weak fairness says that.  *)
Fairness == \A d \in Desk : WF_vars(DeskStep(d))
FairSpec == Spec /\ Fairness

-----------------------------------------------------------------------------
(* Properties *)

TypeOK ==
  /\ pendingDir \in [Gates -> {"absent"} \cup Live]
  /\ resolvedDir \in [Gates -> {"absent"} \cup Terminal]
  /\ lock \in Desk \cup {None}
  /\ pc \in [Desk -> Step]
  /\ target \in [Desk -> Gates \cup {None}]
  /\ inMemory \in [Desk -> Copy]
  /\ approvals \in [Gates -> Nat]
  /\ sent \in [Gates -> Nat]

(* "Execute an approved gate exactly once" (execute_gate): whatever approvers
   and crashes do, an action's side effect happens at most once.  The claim is
   made under the lock but the executor runs without it, so nothing but the
   executing copy on disk keeps a second approver out.                        *)
SentAtMostOnce == \A g \in Gates : sent[g] <= 1

(* What the files say of the past is true: a gate recorded executed was sent,
   and one recorded failed, denied, or still undecided was not.  Phase 3
   writes the state it carried without reloading it, so this depends on nobody
   having moved the gate while the executor ran.                              *)
RecordIsTruthful ==
  \A g \in Gates :
    /\ Load(g) = "executed" => sent[g] > 0
    /\ Load(g) \in {"absent", "pending", "approved", "failed", "denied"}
         => sent[g] = 0

(* A recorded denial is final, also after a crash that left the pending copy
   of the denied gate behind: no executor runs for it, then or later.         *)
DenialIsFinal ==
  \A g \in Gates :
    resolvedDir[g] = "denied" =>
      /\ sent[g] = 0
      /\ ~ \E d \in Desk : pc[d] \in {"claim", "unstale", "run", "returned"}
                            /\ target[d] = g

(* No command hangs on another's death: flock, unlike the lock directory it
   replaced, is free again when its holder is gone.                           *)
CommandsEnd == \A d \in Desk : pc[d] # "idle" ~> pc[d] = "idle"

(* The desk implements the state machine gate.rs documents. *)
Lifecycle == INSTANCE GateLifecycle
               WITH state <- [g \in Gates |-> Load(g)], sent <- sent
ImplementsLifecycle == Lifecycle!Spec
=============================================================================
