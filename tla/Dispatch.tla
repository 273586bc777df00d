------------------------------ MODULE Dispatch ------------------------------
(***************************************************************************)
(* A task from claim to journal: the dispatch loop (src/work/dispatch.rs), *)
(* the boxes it starts and adopts (src/run/boxed.rs), the approval desk's  *)
(* follow-up on a resolved gate (resolve_followup, src/action/mod.rs) and  *)
(* the operator's requeue, with daemon and desk crashing at will.          *)
(*                                                                         *)
(* The task document is locked for each single write, but every decision   *)
(* here is made from something read before: finalize reads the gates and   *)
(* then writes needs-review, resolve_followup reads the task and the gates *)
(* and then completes it, requeue asks docker and then resets the task,    *)
(* reclaim asks docker and then adopts.  Each read and each write is a     *)
(* step.  What Tms.tla says of the document (edges, versions, the journal) *)
(* is left out; a task with no edges left is claimable here.               *)
(***************************************************************************)
EXTENDS Naturals, FiniteSets

CONSTANTS
  Tasks, Runs, Gates,
  Owner,          \* [Gates -> Tasks], the task whose box files the gate
  None,
  Cap,            \* boxes at once
  LateStart,      \* may a container come up after a crash, unseen by docker ps
  MaxCrashes,     \* bound: crashes of the daemon or the desk
  MaxRequeues     \* bound: `requeue` commands

ASSUME DispatchAssumption ==
  /\ Owner \in [Gates -> Tasks]
  /\ None \notin Runs \cup Tasks \cup Gates
  /\ Cap \in Nat /\ Cap > 0
  /\ LateStart \in BOOLEAN
  /\ MaxCrashes \in Nat /\ MaxRequeues \in Nat

VARIABLES
  task,           \* [Tasks -> state]; completed and failed ones are journaled
  run,            \* [Tasks -> Runs or None], the run_id on the task
  box,            \* [Runs -> BoxState], the container of a run
  taskOf,         \* [Runs -> Tasks or None], the task a run was started for
  report,         \* [Runs -> none, completed or failed], its outcome.json
  refused,        \* runs with refusals in the daemon's memory
  wasRefused,     \* history: runs whose calls the gateway ever refused
  gate,           \* [Gates -> GateState]
  daemon,         \* down, boot (in reclaim), loop, or attest (in finalize)
  orphan,         \* [Tasks -> Runs or None], what reclaim's list still holds
  waiter,         \* [Tasks -> Waiter], the JoinSet, and in_flight with it
  verdict,        \* what finalize decided and has not written yet
  desk,           \* the approver's step and gate
  cli,            \* the requeue command's step, task and run
  crashes,
  cut,            \* history: runs that were not over when a daemon died
  requeues

TaskState == {"pending", "claimed", "needs-review", "completed", "failed"}
BoxState == {"none", "starting", "alive", "ok", "bad", "ceiling", "error"}
GateState == {"none", "pending", "resolved", "failed", "retried",
              "staleResolved", "staleFailed"}

NoWaiter == [run |-> None, kind |-> "none"]
Waiter == [run: Runs \cup {None}, kind: {"none", "own", "adopting", "attached"}]
NoVerdict == [task |-> None, next |-> "none"]
IdleDesk == [step |-> "idle", gate |-> None]
IdleCli == [step |-> "idle", task |-> None, run |-> None]

tasks == <<task, run>>
boxes == <<box, taskOf, report, refused, wasRefused>>
loop == <<daemon, orphan, waiter, verdict>>
bounds == <<crashes, cut, requeues>>
vars == <<tasks, boxes, gate, loop, desk, cli, bounds>>

Init == /\ task = [t \in Tasks |-> "pending"]
        /\ run = [t \in Tasks |-> None]
        /\ box = [r \in Runs |-> "none"]
        /\ taskOf = [r \in Runs |-> None]
        /\ report = [r \in Runs |-> "none"]
        /\ refused = {} /\ wasRefused = {}
        /\ gate = [g \in Gates |-> "none"]
        /\ daemon = "down"
        /\ orphan = [t \in Tasks |-> None]
        /\ waiter = [t \in Tasks |-> NoWaiter]
        /\ verdict = NoVerdict
        /\ desk = IdleDesk /\ cli = IdleCli
        /\ crashes = 0 /\ cut = {} /\ requeues = 0

Live(t) == task[t] \in {"pending", "claimed", "needs-review"}
Up == daemon # "down"

\* box_alive: docker ps lists the container.
Alive(r) == box[r] = "alive"

\* pending_for_task lists gates/pending: a failed gate whose executor is being
\* tried again is listed, and so is a stale copy of a resolved gate, left by a
\* crash inside gate::save.
OpenGates(t) ==
  {g \in Gates : Owner[g] = t /\ gate[g] \notin {"none", "resolved", "failed"}}

\* finish_with on the document: a task that is not live is an error, and no
\* other state is.
FinishWith(t, next) ==
  IF ~Live(t) THEN UNCHANGED tasks
  ELSE /\ task' = [task EXCEPT ![t] = next]
       /\ run' = IF next = "pending" THEN [run EXCEPT ![t] = None] ELSE run

Crashed == crashes < MaxCrashes /\ crashes' = crashes + 1 /\ UNCHANGED requeues

-----------------------------------------------------------------------------
(* reclaim *)

\* The daemon starts and lists what is still claimed.
Boot ==
  /\ daemon = "down"
  /\ daemon' = "boot"
  /\ orphan' = [t \in Tasks |-> IF task[t] = "claimed" THEN run[t] ELSE None]
  /\ UNCHANGED <<tasks, boxes, gate, waiter, verdict, desk, cli, bounds>>

\* Mutant: an adopted box takes no slot and no in_flight entry.
Adopted(t) == waiter

Adopting(t) ==
  [waiter EXCEPT ![t] = [run |-> orphan[t], kind |-> "adopting"]]

\* One orphan: its box lives and is adopted, or the task goes back to pending.
Reclaim(t) ==
  /\ daemon = "boot" /\ orphan[t] # None
  /\ orphan' = [orphan EXCEPT ![t] = None]
  /\ IF Alive(orphan[t])
     THEN waiter' = Adopting(t) /\ UNCHANGED tasks
     ELSE FinishWith(t, "pending") /\ UNCHANGED waiter
  /\ UNCHANGED <<boxes, gate, daemon, verdict, desk, cli, bounds>>

BootDone ==
  /\ daemon = "boot" /\ orphan = [t \in Tasks |-> None]
  /\ daemon' = "loop"
  /\ UNCHANGED <<tasks, boxes, gate, orphan, waiter, verdict, desk, cli, bounds>>

-----------------------------------------------------------------------------
(* The loop *)

Waiting == {t \in Tasks : waiter[t] # NoWaiter}

\* Mutant: in_flight is not consulted.
FreeSlot(t) == Cardinality(Waiting) < Cap

\* Mutant: the last slot is never given out.
MayClaimBelow(t) == Cardinality(Waiting) + 1 < Cap /\ t \notin Waiting

MayClaim(t) == Cardinality(Waiting) < Cap /\ t \notin Waiting

\* claim stamps the run before the box starts; the run is spawned.
Claim(t, r) ==
  /\ daemon = "loop"
  /\ MayClaim(t)
  /\ task[t] = "pending"
  /\ taskOf[r] = None
  /\ task' = [task EXCEPT ![t] = "claimed"]
  /\ run' = [run EXCEPT ![t] = r]
  /\ box' = [box EXCEPT ![r] = "starting"]
  /\ taskOf' = [taskOf EXCEPT ![r] = t]
  /\ waiter' = [waiter EXCEPT ![t] = [run |-> r, kind |-> "own"]]
  /\ UNCHANGED <<report, refused, wasRefused, gate, daemon, orphan, verdict,
                 desk, cli, bounds>>

\* docker wait answers for an adopted box only while the container is there
\* (boxes run with --rm).
Attach(t) ==
  /\ waiter[t].kind = "adopting" /\ Alive(waiter[t].run)
  /\ waiter' = [waiter EXCEPT ![t].kind = "attached"]
  /\ UNCHANGED <<tasks, boxes, gate, daemon, orphan, verdict, desk, cli, bounds>>

\* Mutant: a box killed at its ceiling is not joined.
EndedByItself(t) == waiter[t].kind # "none" /\ box[waiter[t].run] \in {"ok", "bad", "error"}

\* The run of t has an outcome to join.
Ended(t) ==
  CASE waiter[t].kind = "own" -> box[waiter[t].run] \in {"ok", "bad", "ceiling", "error"}
    [] waiter[t].kind = "attached" -> box[waiter[t].run] \in {"ok", "bad"}
    [] waiter[t].kind = "adopting" -> ~Alive(waiter[t].run)
    [] OTHER -> FALSE

\* Host evidence: no outcome, the ceiling, or an exit code that is not 0.
HostFailed(t) == waiter[t].kind = "adopting" \/ box[waiter[t].run] # "ok"

\* Mutant: refusals are no evidence.
BlockedNever(t) == FALSE

Blocked(t) == waiter[t].run \in refused

\* Mutant: the worker's report is looked at before its gates.
VerdictReportFirst(t) ==
  CASE HostFailed(t) -> "failed"
    [] report[waiter[t].run] # "none" -> report[waiter[t].run]
    [] OTHER -> IF OpenGates(t) # {} THEN "needs-review" ELSE "completed"

(* finalize: host evidence first, then an open gate, then the worker's own
   report, then silence after refused calls.                                  *)
Verdict(t) ==
  IF HostFailed(t) THEN "failed"
  ELSE IF OpenGates(t) # {} THEN "needs-review"
  ELSE IF report[waiter[t].run] # "none" THEN report[waiter[t].run]
  ELSE IF Blocked(t) THEN "failed" ELSE "completed"

Finalize(t) ==
  /\ daemon = "loop" /\ Ended(t)
  /\ verdict' = [task |-> t, next |-> Verdict(t)]
  /\ refused' = refused \ {waiter[t].run}
  /\ waiter' = [waiter EXCEPT ![t] = NoWaiter]
  /\ daemon' = "attest"
  /\ UNCHANGED <<tasks, box, taskOf, report, wasRefused, gate, orphan, desk, cli,
                 bounds>>

Attest ==
  /\ daemon = "attest"
  /\ FinishWith(verdict.task, verdict.next)
  /\ verdict' = NoVerdict
  /\ daemon' = "loop"
  /\ UNCHANGED <<boxes, gate, orphan, waiter, desk, cli, bounds>>

(* The daemon dies: the tally, the JoinSet and in_flight are gone.  docker run
   is a process of its own: what it was about to start may still come up.     *)
Crash ==
  /\ Up /\ Crashed
  /\ daemon' = "down"
  /\ orphan' = [t \in Tasks |-> None]
  /\ waiter' = [t \in Tasks |-> NoWaiter]
  /\ verdict' = NoVerdict
  /\ refused' = {}
  /\ box' = IF LateStart THEN box
            ELSE [r \in Runs |-> IF box[r] = "starting" THEN "error" ELSE box[r]]
  /\ cut' = cut \cup {r \in Runs : box[r] \in {"starting", "alive"}}
  /\ UNCHANGED <<tasks, taskOf, report, wasRefused, gate, desk, cli>>

-----------------------------------------------------------------------------
(* A box.  What it does through the gateway needs the daemon up.  The docker
   client of a run that was starting when the daemon died is still there.     *)

BoxUp(r) ==
  /\ box[r] = "starting"
  /\ \E s \in {"alive", "error"} : box' = [box EXCEPT ![r] = s]
  /\ UNCHANGED <<tasks, taskOf, report, refused, wasRefused, gate, loop, desk,
                 cli, bounds>>

BoxExit(r) ==
  /\ Alive(r)
  /\ \E s \in {"ok", "bad"} : box' = [box EXCEPT ![r] = s]
  /\ UNCHANGED <<tasks, taskOf, report, refused, wasRefused, gate, loop, desk,
                 cli, bounds>>

\* The ceiling kills the container of a run this daemon started (run_box).
Ceiling(r) ==
  /\ Alive(r)
  /\ \E t \in Tasks : waiter[t] = [run |-> r, kind |-> "own"]
  /\ box' = [box EXCEPT ![r] = "ceiling"]
  /\ UNCHANGED <<tasks, taskOf, report, refused, wasRefused, gate, loop, desk,
                 cli, bounds>>

\* task_complete or task_fail; the last report wins.
Report(r, s) ==
  /\ Up /\ Alive(r)
  /\ report' = [report EXCEPT ![r] = s]
  /\ UNCHANGED <<tasks, box, taskOf, refused, wasRefused, gate, loop, desk, cli,
                 bounds>>

\* The gateway refuses a call of the run and tallies it.
Refuse(r) ==
  /\ Up /\ Alive(r)
  /\ refused' = refused \cup {r}
  /\ wasRefused' = wasRefused \cup {r}
  /\ UNCHANGED <<tasks, box, taskOf, report, gate, loop, desk, cli, bounds>>

\* An action of the box needs approval (submit).
FileGate(g, r) ==
  /\ Up /\ Alive(r) /\ taskOf[r] = Owner[g]
  /\ gate[g] = "none"
  /\ gate' = [gate EXCEPT ![g] = "pending"]
  /\ UNCHANGED <<tasks, boxes, loop, desk, cli, bounds>>

-----------------------------------------------------------------------------
(* The desk: execute_gate's last phase and deny_gate, under the gates lock,
   which is held to the end of resolve_followup -- so one desk is enough.
   Gate.tla has what comes before.  (The continuation task that
   resolve_followup may add is an Add of Tms.tla.)                            *)

\* Executed or denied, or its executor failed.
Resolve(g) ==
  /\ desk = IdleDesk /\ gate[g] \in {"pending", "retried"}
  /\ \E s \in {"resolved", "failed"} : gate' = [gate EXCEPT ![g] = s]
  /\ desk' = [step |-> "look", gate |-> g]
  /\ UNCHANGED <<tasks, boxes, loop, cli, bounds>>

\* A crash inside gate::save, after the resolved copy is written and before the
\* pending one is removed.
ResolveCutShort(g) ==
  /\ desk = IdleDesk /\ gate[g] \in {"pending", "retried"} /\ Crashed
  /\ \E s \in {"staleResolved", "staleFailed"} : gate' = [gate EXCEPT ![g] = s]
  /\ UNCHANGED <<tasks, boxes, loop, desk, cli, cut>>

\* A failed gate is approved again: its executing copy is in gates/pending.
Retry(g) ==
  /\ desk = IdleDesk /\ gate[g] \in {"failed", "staleFailed"}
  /\ gate' = [gate EXCEPT ![g] = "retried"]
  /\ UNCHANGED <<tasks, boxes, loop, desk, cli, bounds>>

\* Mutant: whatever the task is doing.
MayCloseAnyway(t) == OpenGates(t) = {}

MayClose(t) == task[t] = "needs-review" /\ OpenGates(t) = {}

Look ==
  /\ desk.step = "look"
  /\ desk' = IF MayClose(Owner[desk.gate]) THEN [desk EXCEPT !.step = "finish"]
             ELSE IdleDesk
  /\ UNCHANGED <<tasks, boxes, gate, loop, cli, bounds>>

CloseReview ==
  /\ desk.step = "finish"
  /\ FinishWith(Owner[desk.gate], "completed")
  /\ desk' = IdleDesk
  /\ UNCHANGED <<boxes, gate, loop, cli, bounds>>

DeskCrash ==
  /\ desk # IdleDesk /\ Crashed
  /\ desk' = IdleDesk
  /\ UNCHANGED <<tasks, boxes, gate, loop, cli, cut>>

-----------------------------------------------------------------------------
(* requeue: find, ask docker, reset.  A pending task is left alone. *)

RequeueFind(t) ==
  /\ cli = IdleCli /\ requeues < MaxRequeues
  /\ task[t] # "pending"
  /\ cli' = [step |-> IF Live(t) THEN "check" ELSE "refile", task |-> t,
             run |-> run[t]]
  /\ requeues' = requeues + 1
  /\ UNCHANGED <<tasks, boxes, gate, loop, desk, crashes, cut>>

NoBoxSeen(r) == r # None => ~Alive(r)

RequeueCheck ==
  /\ cli.step = "check"
  /\ cli' = IF NoBoxSeen(cli.run) THEN [cli EXCEPT !.step = "reset"] ELSE IdleCli
  /\ UNCHANGED <<tasks, boxes, gate, loop, desk, bounds>>

RequeueReset ==
  /\ cli.step = "reset"
  /\ FinishWith(cli.task, "pending")
  /\ cli' = IdleCli
  /\ UNCHANGED <<boxes, gate, loop, desk, bounds>>

\* Under the document's lock: pushed back unless it is live again.
RequeueRefile ==
  /\ cli.step = "refile"
  /\ IF Live(cli.task) THEN UNCHANGED tasks
     ELSE /\ task' = [task EXCEPT ![cli.task] = "pending"]
          /\ run' = [run EXCEPT ![cli.task] = None]
  /\ cli' = IdleCli
  /\ UNCHANGED <<boxes, gate, loop, desk, bounds>>

-----------------------------------------------------------------------------
DaemonStep == \/ BootDone \/ Attest
              \/ \E t \in Tasks : Reclaim(t) \/ Attach(t) \/ Finalize(t)
              \/ \E t \in Tasks, r \in Runs : Claim(t, r)

BoxStep(r) == BoxUp(r) \/ Ceiling(r)

BoxCall(r) == \/ BoxExit(r) \/ Refuse(r)
              \/ \E s \in {"completed", "failed"} : Report(r, s)
              \/ \E g \in Gates : FileGate(g, r)

DeskStep == Look \/ CloseReview

Next == \/ Boot \/ DaemonStep \/ Crash
        \/ \E r \in Runs : BoxStep(r) \/ BoxCall(r)
        \/ \E g \in Gates : Resolve(g) \/ ResolveCutShort(g) \/ Retry(g)
        \/ DeskStep \/ DeskCrash
        \/ \E t \in Tasks : RequeueFind(t)
        \/ RequeueCheck \/ RequeueReset \/ RequeueRefile

Spec == Init /\ [][Next]_vars

(* The daemon is started again when it dies and its loop polls on; docker
   starts what it was asked to, and the ceiling is a timer of the daemon.  A
   box is not assumed to end by itself, nor anyone to approve anything.       *)
Fairness == /\ WF_vars(Boot) /\ WF_vars(DaemonStep)
            /\ \A t \in Tasks : WF_vars(Finalize(t)) /\ WF_vars(\E r \in Runs : Claim(t, r))
            /\ \A r \in Runs : WF_vars(BoxStep(r))

FairSpec == Spec /\ Fairness

-----------------------------------------------------------------------------
(* Properties *)

RunsOf(t) == {r \in Runs : taskOf[r] = t}

(* "Every state change is host-attested" (docs/work.md:61): a task completes
   only if a box of its exited with code 0, whatever was reported, adopted,
   approved or requeued on the way.                                           *)
CompletedHasEvidence ==
  \A t \in Tasks : task[t] = "completed" => \E r \in RunsOf(t) : box[r] = "ok"

(* docs/work.md:52: a task with a gate nobody has decided is not completed.
   The desk and finalize both decide this from a listing of the pending gates. *)
NoCompletionWithOpenGate ==
  \A t \in Tasks, g \in Gates :
    task[t] = "completed" /\ Owner[g] = t => gate[g] # "pending"

(* What is attested completed was earned, by the evidence and by the gates. *)
CompletionIsEarned == CompletedHasEvidence /\ NoCompletionWithOpenGate

(* No task is wedged in claimed: a running daemon waits for the box of every
   claimed task, has its outcome in hand, or has it still to reclaim.         *)
ClaimedIsTracked ==
  \A t \in Tasks :
    task[t] = "claimed" /\ Up =>
      t \in Waiting \/ orphan[t] # None \/ verdict.task = t

(* docs/work.md:70: at most Cap boxes at once; also right after a restart,
   when the boxes of the previous daemon are still running.                   *)
BoxesWithinCap ==
  Cardinality({r \in Runs : box[r] \in {"starting", "alive"}}) <= Cap

(* A slot for every box and a waiter for every claim, across restarts: what the
   daemon counts, what it waits for and what runs stay the same tasks.        *)
SlotsAreTracked == ClaimedIsTracked /\ BoxesWithinCap

(* One box per task: neither a requeue while a box is being started nor a
   restart makes two boxes work on the same task side by side.                *)
OneBoxPerTask ==
  \A q, r \in Runs :
    /\ taskOf[q] = taskOf[r] /\ taskOf[q] # None
    /\ box[q] \in {"starting", "alive"} /\ box[r] \in {"starting", "alive"}
    => q = r

(* docs/work.md:64-68: "a blocked worker's no-op never shows up as completed":
   a run that was refused calls and reported nothing completes its task only
   through a review.  The tally is in the daemon's memory (proxy.rs:211): of a
   run that outlived a daemon its refusals may be forgotten.                  *)
BlockedNoopNeverCompletes ==
  \A t \in Tasks :
    task[t] = "completed" /\ (\A g \in Gates : Owner[g] = t => gate[g] = "none")
    => \E r \in RunsOf(t) : box[r] = "ok"
                            /\ (report[r] = "completed" \/ r \notin wasRefused \/ r \in cut)

(* finalize's own order, host evidence and then the worker's word
   (dispatch.rs:269-322): a run that exited with code 0 and reported its task
   completed does not leave the task failed, unless it outlived a daemon: once
   adopted it may be gone before docker wait is asked (boxed.rs:258).         *)
SuccessIsNotFailed ==
  \A t \in Tasks :
    task[t] = "failed" =>
      ~ (run[t] # None /\ run[t] \notin cut /\ box[run[t]] = "ok" /\ report[run[t]] = "completed")

(* A run's outcome is read from its report and its refusals, neither more nor
   less: silence after a refusal is no success, a refusal before one no failure.
   A daemon's death puts that in doubt for the runs it left running and for no
   other, such as one that was over and not yet joined, or started since.     *)
RefusalsDecide == BlockedNoopNeverCompletes /\ SuccessIsNotFailed

(* The state machine of docs/work.md:45, with no operator's requeue: every write
   of a task's state is one of its transitions.                               *)
Lifecycle == INSTANCE TaskLifecycle
FollowsLifecycle == Lifecycle!Spec

(* docs/work.md:52-53 "when the last gate resolves, the task completes": no
   task stays in review with all its gates resolved and nobody about to close
   it.                                                                        *)
ReviewIsOpen ==
  \A t \in Tasks :
    task[t] = "needs-review" =>
      \/ \E g \in Gates : Owner[g] = t /\ gate[g] \in {"pending", "retried"}
      \/ desk # IdleDesk /\ Owner[desk.gate] = t

(* Every claimed task is attested or reclaimed in the end; a box that never
   ends meets its ceiling (docs/work.md:78).                                  *)
ClaimedIsAttested == \A t \in Tasks : task[t] = "claimed" ~> task[t] # "claimed"

\* Every pending task gets its turn, whatever the others do.
PendingGetsItsTurn ==
  \A t \in Tasks : task[t] = "pending" ~> task[t] \in TaskState \ {"pending", "claimed"}
=============================================================================
