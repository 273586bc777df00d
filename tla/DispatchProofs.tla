--------------------------- MODULE DispatchProofs ---------------------------
(***************************************************************************)
(* Proofs about dispatch, for any tasks, runs, gates, slots and bounds.    *)
(*                                                                         *)
(* Books says what the documents, the daemon's memory and docker name one  *)
(* another: whoever names a run of a task names one started for it.  That  *)
(* a completed task has a box that exited with code 0 (Evidence) and that  *)
(* no claimed task is forgotten needs no more, whatever crashes and        *)
(* whoever requeues.                                                       *)
(*                                                                         *)
(* So does that the report and the refusals decide (Tally), for every run  *)
(* no crash cut short.                                                     *)
(*                                                                         *)
(* The rest is false in general: a box that comes up unseen after a crash  *)
(* or a requeue racing a verdict breaks it (README, section 5).  It is     *)
(* proved under the hypothesis that rules these out, named in each         *)
(* theorem: NoRequeue, Orderly or Tame.                                    *)
(***************************************************************************)
EXTENDS Dispatch, FiniteSetTheorems, TLAPS

NoCrash == MaxCrashes = 0
NoRequeue == MaxRequeues = 0

\* No requeue, and no container comes up behind a restarted daemon's back.
Orderly == NoRequeue /\ (NoCrash \/ ~LateStart)
Tame == NoCrash \/ Orderly

TypeOK ==
  /\ task \in [Tasks -> TaskState] /\ run \in [Tasks -> Runs \cup {None}]
  /\ box \in [Runs -> BoxState] /\ taskOf \in [Runs -> Tasks \cup {None}]
  /\ report \in [Runs -> {"none", "completed", "failed"}]
  /\ refused \in SUBSET Runs /\ wasRefused \in SUBSET Runs
  /\ gate \in [Gates -> GateState]
  /\ daemon \in {"down", "boot", "loop", "attest"}
  /\ orphan \in [Tasks -> Runs \cup {None}] /\ waiter \in [Tasks -> Waiter]
  /\ crashes \in Nat /\ requeues \in Nat

-----------------------------------------------------------------------------
(* Books *)

\* A run that is named for a task was started for it.
RunsAreNamed ==
  \A t \in Tasks :
    /\ run[t] # None => taskOf[run[t]] = t
    /\ orphan[t] # None => taskOf[orphan[t]] = t
    /\ waiter[t] # NoWaiter =>
         /\ waiter[t].kind # "none"
         /\ waiter[t].run \in Runs /\ taskOf[waiter[t].run] = t

FreshRuns == \A r \in Runs : /\ taskOf[r] = None <=> box[r] = "none"
                             /\ taskOf[r] = None => r \notin wasRefused

\* What the daemon holds in each of its phases.
Phases ==
  /\ daemon = "down" => Waiting = {}
  /\ daemon # "boot" => \A t \in Tasks : orphan[t] = None
  /\ daemon # "attest" => verdict = NoVerdict
  /\ daemon = "attest" =>
       /\ verdict.task \in Tasks /\ verdict.task \notin Waiting
       /\ verdict.next \in {"completed", "failed", "needs-review"}
  /\ \A t \in Tasks : orphan[t] # None => t \notin Waiting

\* What the desk and the operator have in hand.
Hands ==
  /\ desk \in [step: {"idle", "look", "finish"}, gate: Gates \cup {None}]
  /\ cli \in [step: {"idle", "check", "reset", "refile"}, task: Tasks \cup {None},
              run: Runs \cup {None}]
  /\ desk.step # "idle" => desk.gate \in Gates /\ gate[desk.gate] # "none"
  /\ cli.step # "idle" => cli.task \in Tasks

ClaimedHasRun == \A t \in Tasks : task[t] = "claimed" => run[t] # None

Books == /\ TypeOK /\ RunsAreNamed /\ FreshRuns /\ Phases /\ Hands
         /\ ClaimedHasRun /\ ClaimedIsTracked
         /\ IsFiniteSet(Waiting)

-----------------------------------------------------------------------------
(* Evidence *)

Proven(t) == \E r \in RunsOf(t) : box[r] = "ok"

\* Whoever completes a task, or is about to, has a box of it that ended well.
Evidence ==
  /\ \A t \in Tasks : task[t] \in {"needs-review", "completed"} => Proven(t)
  /\ verdict.next \in {"needs-review", "completed"} => Proven(verdict.task)
  /\ desk.step = "finish" => Proven(Owner[desk.gate])

-----------------------------------------------------------------------------
(* Order: what holds as long as nobody requeues or nothing crashes *)

Active(r) == box[r] \in {"starting", "alive"}
ActiveRuns == {r \in Runs : Active(r)}

\* What is about to be attested is claimed, what is about to be closed in review.
Turns ==
  NoRequeue =>
    /\ requeues = 0 /\ cli = IdleCli
    /\ \A t \in Tasks : t \in Waiting \/ orphan[t] # None \/ verdict.task = t
                        => task[t] = "claimed"
    /\ desk.step = "finish" => task[Owner[desk.gate]] = "needs-review"

\* A daemon that never dies adopts nothing.
OwnOnly ==
  NoCrash =>
    /\ \A t \in Tasks : orphan[t] = None /\ waiter[t].kind \in {"none", "own"}
    /\ daemon \in {"down", "boot"} => /\ ActiveRuns = {}
                                      /\ \A t \in Tasks : task[t] # "claimed"

\* What is adopted, or may be, is not still starting.
SeenUp ==
  NoCrash \/ ~LateStart =>
    /\ daemon \in {"down", "boot"} => \A r \in Runs : box[r] # "starting"
    /\ \A t \in Tasks : waiter[t].kind \in {"adopting", "attached"}
                        => box[waiter[t].run] # "starting"

\* A box that runs is the one its claimed task names ...
Pinned ==
  Orderly => \A r \in ActiveRuns :
               taskOf[r] \in Tasks /\ task[taskOf[r]] = "claimed" /\ run[taskOf[r]] = r

\* ... and the daemon, while it is up, holds it.
Held ==
  Tame /\ Up => \A r \in ActiveRuns :
    /\ taskOf[r] \in Tasks
    /\ waiter[taskOf[r]].run = r \/ orphan[taskOf[r]] = r

WithinCap == Tame => IsFiniteSet(ActiveRuns) /\ Cardinality(ActiveRuns) <= Cap

\* No gate is filed for a task that is about to complete.
Undecided(t) == {g \in Gates : Owner[g] = t /\ gate[g] = "pending"}

Decided ==
  Orderly =>
    /\ \A t \in Tasks : task[t] = "completed" => Undecided(t) = {}
    /\ verdict.next = "completed" => Undecided(verdict.task) = {}
    /\ desk.step = "finish" => Undecided(Owner[desk.gate]) = {}

Order == Turns /\ OwnOnly /\ SeenUp /\ Pinned /\ Held /\ WithinCap /\ Decided

-----------------------------------------------------------------------------
(* Refusals: what the verdict is made from *)

Gated(t) == \E g \in Gates : Owner[g] = t /\ gate[g] # "none"

\* A run that nothing stands against: no refusal, or its own report after it.
Clear(r) == report[r] = "completed" \/ r \notin wasRefused \/ r \in cut
Spoke(t) == \E r \in RunsOf(t) : box[r] = "ok" /\ Clear(r)

\* The run of t is over and was no success, or outlived a daemon.
Unsuccessful(t) ==
  run[t] # None /\ run[t] \notin cut =>
    /\ box[run[t]] \notin {"starting", "alive"}
    /\ ~ (box[run[t]] = "ok" /\ report[run[t]] = "completed")

\* What runs while no daemon has started anything was cut short by a crash.
CutRuns == daemon \in {"down", "boot"} => \A r \in ActiveRuns : r \in cut

\* The run in hand is the task's, unless a requeue took it away; its refusals are
\* in the tally, or went with a daemon's memory.
InHand(t) ==
  /\ orphan[t] # None => run[t] \in {None, orphan[t]}
  /\ t \in Waiting => /\ run[t] \in {None, waiter[t].run}
                      /\ waiter[t].run \in wasRefused => waiter[t].run \in refused \cup cut
                      /\ waiter[t].kind # "own" => waiter[t].run \in cut

Outcomes ==
  /\ \A t \in Tasks : task[t] = "completed" => Gated(t) \/ Spoke(t)
  /\ \A t \in Tasks : task[t] = "failed" => Unsuccessful(t)
  /\ verdict.next = "completed" => Gated(verdict.task) \/ Spoke(verdict.task)
  /\ verdict.next = "failed" => Unsuccessful(verdict.task)

Tally == CutRuns /\ (\A t \in Tasks : InHand(t)) /\ Outcomes

IInv == Books /\ Evidence /\ Order /\ Tally

-----------------------------------------------------------------------------
(* Books is inductive *)

LEMMA InitBooks == Init => Books
<1> SUFFICES ASSUME Init PROVE Books
  OBVIOUS
<1> USE DispatchAssumption DEF Init
<1>1. NoWaiter \in Waiter
  BY DEF NoWaiter, Waiter
<1>2. TypeOK
  BY <1>1 DEF TypeOK, TaskState, BoxState, GateState
<1>3. Waiting = {}
  BY DEF Waiting
<1>4. RunsAreNamed /\ FreshRuns /\ Phases
  BY <1>3 DEF RunsAreNamed, FreshRuns, Phases
<1>5. Hands /\ ClaimedHasRun /\ ClaimedIsTracked
  BY DEF Hands, IdleDesk, IdleCli, ClaimedHasRun, ClaimedIsTracked, Up
<1> QED BY <1>2, <1>3, <1>4, <1>5, FS_EmptySet DEF Books

\* A write of the state of one task, by anybody.
LEMMA FinishWithIs ==
  ASSUME TypeOK, NEW t \in Tasks, NEW next \in TaskState \ {"claimed"}, FinishWith(t, next)
  PROVE  /\ task' \in [Tasks -> TaskState] /\ run' \in [Tasks -> Runs \cup {None}]
         /\ \A u \in Tasks : u # t => task'[u] = task[u] /\ run'[u] = run[u]
         /\ task'[t] = next \/ (task'[t] = task[t] /\ ~ Live(t))
         /\ run'[t] \in {run[t], None}
         /\ next # "pending" => run' = run
<1>1. CASE ~ Live(t)
  BY <1>1 DEF FinishWith, tasks, TypeOK
<1>2. CASE Live(t)
  BY <1>2 DEF FinishWith, TypeOK
<1> QED BY <1>1, <1>2

\* Who writes no document and none of the daemon's lists.
LEMMA OutsideKeepsBooks ==
  ASSUME Books, UNCHANGED <<tasks, taskOf, loop>>,
         TypeOK', Hands', wasRefused' \subseteq wasRefused \cup {r \in Runs : box[r] # "none"},
         \A r \in Runs : box[r] = "none" <=> box'[r] = "none"
  PROVE  Books'
<1> USE DEF Books, tasks, loop
<1>1. RunsAreNamed'  BY DEF RunsAreNamed
<1>2. FreshRuns'  BY DEF FreshRuns
<1>3. Waiting' = Waiting  BY DEF Waiting
<1>4. Phases'  BY <1>3 DEF Phases
<1>5. ClaimedHasRun' /\ ClaimedIsTracked'  BY <1>3 DEF ClaimedHasRun, ClaimedIsTracked, Up
<1> QED BY <1>1, <1>2, <1>3, <1>4, <1>5

LEMMA BoxStepBooks ==
  ASSUME Books, NEW r \in Runs, BoxStep(r) \/ BoxCall(r)
  PROVE  Books'
<1> USE DEF Books
<1>1. /\ UNCHANGED <<tasks, taskOf, loop, desk, cli, bounds>>
      /\ wasRefused' \subseteq wasRefused \cup {q \in Runs : box[q] # "none"}
      /\ \A q \in Runs : box[q] = "none" <=> box'[q] = "none"
      /\ \A g \in Gates : gate[g] # "none" => gate'[g] # "none"
      /\ TypeOK'
  <2>1. CASE BoxUp(r)
    BY <2>1 DEF BoxUp, TypeOK, BoxState, tasks, loop, bounds
  <2>2. CASE Ceiling(r)
    BY <2>2 DEF Ceiling, Alive, TypeOK, BoxState, tasks, loop, bounds
  <2>3. CASE BoxExit(r)
    BY <2>3 DEF BoxExit, Alive, TypeOK, BoxState, tasks, loop, bounds
  <2>4. CASE Refuse(r)
    BY <2>4 DEF Refuse, Alive, TypeOK, tasks, loop, bounds
  <2>5. CASE \E s \in {"completed", "failed"} : Report(r, s)
    BY <2>5 DEF Report, TypeOK, tasks, loop, bounds
  <2>6. CASE \E g \in Gates : FileGate(g, r)
    BY <2>6 DEF FileGate, TypeOK, GateState, tasks, boxes, loop, bounds
  <2> QED BY <2>1, <2>2, <2>3, <2>4, <2>5, <2>6 DEF BoxStep, BoxCall
<1>2. Hands'
  BY <1>1 DEF Hands
<1> QED BY <1>1, <1>2, OutsideKeepsBooks

\* The desk and the operator, while they only look or write gates.
LEMMA LooksKeepBooks ==
  ASSUME Books,
         \/ \E g \in Gates : Resolve(g) \/ ResolveCutShort(g) \/ Retry(g)
         \/ Look \/ DeskCrash \/ RequeueCheck
         \/ \E t \in Tasks : RequeueFind(t)
  PROVE  Books'
<1> USE DEF Books
<1>1. UNCHANGED <<tasks, boxes, loop>>
  BY DEF Resolve, ResolveCutShort, Retry, Look, DeskCrash, RequeueCheck, RequeueFind
<1>2. gate' \in [Gates -> GateState] /\ crashes' \in Nat /\ requeues' \in Nat
  BY DEF Resolve, ResolveCutShort, Retry, Look, DeskCrash, RequeueCheck, RequeueFind,
         TypeOK, GateState, bounds, Crashed
<1>3. TypeOK'
  BY <1>1, <1>2 DEF TypeOK, tasks, boxes, loop
<1>4. Hands'
  <2>1. CASE \E g \in Gates : Resolve(g) \/ ResolveCutShort(g) \/ Retry(g)
    BY <2>1 DEF Hands, Resolve, ResolveCutShort, Retry, IdleDesk, TypeOK
  <2>2. CASE Look \/ DeskCrash
    BY <2>2 DEF Hands, Look, DeskCrash, IdleDesk
  <2>3. CASE RequeueCheck
    BY <2>3 DEF Hands, RequeueCheck, IdleCli
  <2>4. CASE \E t \in Tasks : RequeueFind(t)
    BY <2>4 DEF Hands, RequeueFind, TypeOK
  <2> QED BY <2>1, <2>2, <2>3, <2>4
<1> QED BY <1>1, <1>3, <1>4, OutsideKeepsBooks DEF boxes

\* Who writes the state of a task, and neither claims it nor waits for its box.
LEMMA WritesKeepBooks ==
  ASSUME Books, NEW t \in Tasks, NEW next \in TaskState \ {"claimed"},
         task' \in [Tasks -> TaskState], run' \in [Tasks -> Runs \cup {None}],
         \A u \in Tasks : u # t => task'[u] = task[u] /\ run'[u] = run[u],
         task'[t] # "claimed", run'[t] \in {run[t], None},
         UNCHANGED <<boxes, gate, waiter, bounds>>,
         Phases', Hands', orphan' \in [Tasks -> Runs \cup {None}],
         daemon' \in {"down", "boot", "loop", "attest"},
         \A u \in Tasks : u # t => orphan'[u] = orphan[u] /\ (verdict.task = u => verdict'.task = u),
         orphan'[t] \in {orphan[t], None}, daemon' # "down" => daemon # "down"
  PROVE  Books'
<1> USE DEF Books, boxes, bounds
<1>1. TypeOK'  BY DEF TypeOK
<1>2. RunsAreNamed'  BY DEF RunsAreNamed
<1>3. FreshRuns'  BY DEF FreshRuns
<1>4. Waiting' = Waiting  BY DEF Waiting
<1>5. ClaimedHasRun'  BY DEF ClaimedHasRun
<1>6. ClaimedIsTracked'  BY <1>4 DEF ClaimedIsTracked, Up
<1> QED BY <1>1, <1>2, <1>3, <1>4, <1>5, <1>6

LEMMA RequeueBooks == ASSUME Books, RequeueReset \/ RequeueRefile PROVE Books'
<1> USE DEF Books
<1> DEFINE t == cli.task
<1>1. t \in Tasks
  BY DEF Hands, RequeueReset, RequeueRefile
<1>2. UNCHANGED <<boxes, gate, loop, desk, bounds>> /\ cli' = IdleCli
  BY DEF RequeueReset, RequeueRefile
<1>3. Phases'
  BY <1>2 DEF Phases, Waiting, loop
<1>4. Hands'
  BY <1>2 DEF Hands, IdleCli
<1>5. CASE UNCHANGED tasks
  <2>1. TypeOK'
    BY <1>2, <1>5 DEF TypeOK, tasks, boxes, loop, bounds
  <2> QED BY <1>2, <1>4, <1>5, <2>1, OutsideKeepsBooks DEF boxes
<1>6. CASE ~ UNCHANGED tasks
  <2>1. /\ task' \in [Tasks -> TaskState] /\ run' \in [Tasks -> Runs \cup {None}]
        /\ \A u \in Tasks : u # t => task'[u] = task[u] /\ run'[u] = run[u]
        /\ task'[t] # "claimed" /\ run'[t] \in {run[t], None}
    <3>1. CASE RequeueReset
      BY <1>1, <3>1, FinishWithIs DEF RequeueReset, TaskState, Live
    <3>2. CASE RequeueRefile
      BY <1>1, <1>6, <3>2 DEF RequeueRefile, TypeOK, TaskState
    <3> QED BY <3>1, <3>2
  <2>2. "pending" \in TaskState \ {"claimed"}
    BY DEF TaskState
  <2> HIDE DEF t
  <2> QED BY <1>1, <1>2, <1>3, <1>4, <2>1, <2>2, WritesKeepBooks DEF loop, TypeOK
<1> QED BY <1>5, <1>6

LEMMA CloseReviewBooks == ASSUME Books, CloseReview PROVE Books'
<1> USE DEF Books
<1> DEFINE t == Owner[desk.gate]
<1>1. t \in Tasks
  BY DispatchAssumption DEF Hands, CloseReview
<1>2. UNCHANGED <<boxes, gate, loop, cli, bounds>> /\ desk' = IdleDesk /\ FinishWith(t, "completed")
  BY DEF CloseReview
<1>3. "completed" \in TaskState \ {"claimed"}
  BY DEF TaskState
<1> HIDE DEF t
<1>4. /\ task' \in [Tasks -> TaskState] /\ run' \in [Tasks -> Runs \cup {None}]
      /\ \A u \in Tasks : u # t => task'[u] = task[u] /\ run'[u] = run[u]
      /\ task'[t] # "claimed" /\ run'[t] \in {run[t], None}
  BY <1>1, <1>2, <1>3, FinishWithIs DEF Live
<1>5. Phases'
  BY <1>2 DEF Phases, Waiting, loop
<1>6. Hands'
  BY <1>2 DEF Hands, IdleDesk
<1> QED BY <1>1, <1>2, <1>3, <1>4, <1>5, <1>6, WritesKeepBooks DEF loop, TypeOK

LEMMA AttestBooks == ASSUME Books, Attest PROVE Books'
<1> USE DEF Books
<1> DEFINE t == verdict.task
<1>1. /\ t \in Tasks /\ verdict.next \in TaskState \ {"claimed"}
      /\ verdict' = NoVerdict /\ daemon' = "loop" /\ daemon = "attest"
      /\ UNCHANGED <<boxes, gate, orphan, waiter, desk, cli, bounds>>
      /\ FinishWith(t, verdict.next)
  BY DEF Attest, Phases, TaskState
<1>2. /\ task' \in [Tasks -> TaskState] /\ run' \in [Tasks -> Runs \cup {None}]
      /\ \A u \in Tasks : u # t => task'[u] = task[u] /\ run'[u] = run[u]
      /\ task'[t] # "claimed" /\ run'[t] \in {run[t], None}
  BY <1>1, FinishWithIs DEF Live
<1>3. Phases'
  BY <1>1 DEF Phases, Waiting
<1>4. Hands'
  BY <1>1 DEF Hands
<1>5. \A u \in Tasks : u # t => verdict.task # u
  OBVIOUS
<1> HIDE DEF t
<1> QED BY <1>1, <1>2, <1>3, <1>4, <1>5, WritesKeepBooks DEF TypeOK

LEMMA BootBooks == ASSUME Books, Boot PROVE Books'
<1> USE DEF Books
<1>1. /\ daemon = "down" /\ daemon' = "boot"
      /\ orphan' = [t \in Tasks |-> IF task[t] = "claimed" THEN run[t] ELSE None]
      /\ UNCHANGED <<tasks, boxes, gate, waiter, verdict, desk, cli, bounds>>
  BY DEF Boot
<1>2. TypeOK'
  BY <1>1 DEF TypeOK, tasks, boxes, bounds
<1>3. RunsAreNamed' /\ FreshRuns'
  BY <1>1 DEF RunsAreNamed, FreshRuns, tasks, boxes, TypeOK
<1>4. Waiting' = {} /\ Waiting = {}
  BY <1>1 DEF Waiting, Phases
<1>5. Phases'
  BY <1>1, <1>4 DEF Phases
<1>6. Hands' /\ ClaimedHasRun'
  BY <1>1 DEF Hands, ClaimedHasRun, tasks
<1>7. ClaimedIsTracked'
  BY <1>1 DEF ClaimedHasRun, ClaimedIsTracked, tasks
<1> QED BY <1>2, <1>3, <1>4, <1>5, <1>6, <1>7

LEMMA CrashBooks == ASSUME Books, Crash PROVE Books'
<1> USE DEF Books
<1>1. /\ daemon' = "down" /\ crashes' = crashes + 1 /\ requeues' = requeues
      /\ orphan' = [t \in Tasks |-> None] /\ waiter' = [t \in Tasks |-> NoWaiter]
      /\ verdict' = NoVerdict /\ refused' = {}
      /\ UNCHANGED <<tasks, taskOf, report, wasRefused, gate, desk, cli>>
  BY DEF Crash, Crashed
<1>2. box' \in [Runs -> BoxState] /\ \A r \in Runs : box[r] = "none" <=> box'[r] = "none"
  BY DEF Crash, TypeOK, BoxState
<1>3. NoWaiter \in Waiter
  BY DEF NoWaiter, Waiter
<1>4. TypeOK'
  BY <1>1, <1>2, <1>3 DEF TypeOK, tasks
<1>5. RunsAreNamed' /\ FreshRuns'
  BY <1>1, <1>2 DEF RunsAreNamed, FreshRuns, tasks
<1>6. Waiting' = {}
  BY <1>1 DEF Waiting
<1>7. Phases'
  BY <1>1, <1>6 DEF Phases
<1>8. Hands' /\ ClaimedHasRun' /\ ClaimedIsTracked'
  BY <1>1 DEF Hands, ClaimedHasRun, ClaimedIsTracked, Up, tasks
<1> QED BY <1>4, <1>5, <1>6, <1>7, <1>8, FS_EmptySet

LEMMA BootDoneBooks == ASSUME Books, BootDone PROVE Books'
<1> USE DEF Books
<1>1. /\ daemon = "boot" /\ daemon' = "loop" /\ \A t \in Tasks : orphan[t] = None
      /\ UNCHANGED <<tasks, boxes, gate, orphan, waiter, verdict, desk, cli, bounds>>
  BY DEF BootDone
<1>2. TypeOK' /\ RunsAreNamed' /\ FreshRuns'
  BY <1>1 DEF TypeOK, RunsAreNamed, FreshRuns, tasks, boxes, bounds
<1>3. Waiting' = Waiting
  BY <1>1 DEF Waiting
<1>4. Phases' /\ Hands' /\ ClaimedHasRun' /\ ClaimedIsTracked'
  BY <1>1, <1>3 DEF Phases, Hands, ClaimedHasRun, ClaimedIsTracked, Up, tasks
<1> QED BY <1>2, <1>3, <1>4

\* One waiter more or less.
LEMMA WaitingIs ==
  ASSUME TypeOK, NEW t \in Tasks, NEW w \in Waiter, waiter' = [waiter EXCEPT ![t] = w]
  PROVE  /\ waiter' \in [Tasks -> Waiter] /\ waiter'[t] = w
         /\ \A u \in Tasks : u # t => waiter'[u] = waiter[u]
         /\ \A u \in Tasks : u # t => (u \in Waiting' <=> u \in Waiting)
         /\ t \in Waiting' <=> w # NoWaiter
         /\ IsFiniteSet(Waiting) => IsFiniteSet(Waiting')
<1>1. /\ waiter' \in [Tasks -> Waiter] /\ waiter'[t] = w
      /\ \A u \in Tasks : u # t => waiter'[u] = waiter[u]
  BY DEF TypeOK
<1>2. /\ \A u \in Tasks : u # t => (u \in Waiting' <=> u \in Waiting)
      /\ t \in Waiting' <=> w # NoWaiter
  BY <1>1 DEF Waiting
<1>3. ASSUME IsFiniteSet(Waiting) PROVE IsFiniteSet(Waiting')
  <2>1. IsFiniteSet(Waiting \cup {t})
    BY <1>3, FS_AddElement
  <2>2. Waiting' \subseteq Waiting \cup {t}
    BY <1>2 DEF Waiting
  <2> QED BY <2>1, <2>2, FS_Subset
<1> QED BY <1>1, <1>2, <1>3

LEMMA ReclaimBooks == ASSUME Books, NEW t \in Tasks, Reclaim(t) PROVE Books'
<1> USE DEF Books
<1>1. /\ daemon = "boot" /\ orphan[t] # None /\ orphan' = [orphan EXCEPT ![t] = None]
      /\ UNCHANGED <<boxes, gate, daemon, verdict, desk, cli, bounds>>
      /\ orphan' \in [Tasks -> Runs \cup {None}]
      /\ orphan'[t] = None /\ \A u \in Tasks : u # t => orphan'[u] = orphan[u]
  BY DEF Reclaim, TypeOK
<1>2. CASE Alive(orphan[t])
  <2> DEFINE w == [run |-> orphan[t], kind |-> "adopting"]
  <2>1. waiter' = [waiter EXCEPT ![t] = w] /\ UNCHANGED tasks
    BY <1>2 DEF Reclaim, Adopting
  <2>2. w \in Waiter /\ w # NoWaiter /\ w.run = orphan[t] /\ w.kind = "adopting" /\ w.run \in Runs
    BY <1>1 DEF Waiter, TypeOK, NoWaiter
  <2> HIDE DEF w
  <2>3. /\ waiter' \in [Tasks -> Waiter] /\ waiter'[t] = w
        /\ \A u \in Tasks : u # t => waiter'[u] = waiter[u]
        /\ \A u \in Tasks : u # t => (u \in Waiting' <=> u \in Waiting)
        /\ t \in Waiting' /\ IsFiniteSet(Waiting')
    BY <2>1, <2>2, WaitingIs
  <2>4. TypeOK' /\ FreshRuns'
    BY <1>1, <2>1, <2>3 DEF TypeOK, FreshRuns, tasks, boxes, bounds
  <2>5. RunsAreNamed'
    BY <1>1, <2>1, <2>2, <2>3 DEF RunsAreNamed, tasks, boxes
  <2>6. Phases'
    BY <1>1, <2>3 DEF Phases
  <2>7. Hands' /\ ClaimedHasRun'
    BY <1>1, <2>1 DEF Hands, ClaimedHasRun, tasks
  <2>8. ClaimedIsTracked'
    BY <1>1, <2>1, <2>3 DEF ClaimedIsTracked, Up, tasks
  <2> QED BY <2>3, <2>4, <2>5, <2>6, <2>7, <2>8
<1>3. CASE ~ Alive(orphan[t])
  <2>1. FinishWith(t, "pending") /\ waiter' = waiter /\ "pending" \in TaskState \ {"claimed"}
    BY <1>3 DEF Reclaim, TaskState
  <2>2. /\ task' \in [Tasks -> TaskState] /\ run' \in [Tasks -> Runs \cup {None}]
        /\ \A u \in Tasks : u # t => task'[u] = task[u] /\ run'[u] = run[u]
        /\ task'[t] # "claimed" /\ run'[t] \in {run[t], None}
    BY <2>1, FinishWithIs DEF Live
  <2>3. Phases'
    BY <1>1, <2>1 DEF Phases, Waiting
  <2>4. Hands'
    BY <1>1 DEF Hands
  <2>5. daemon' \in {"down", "boot", "loop", "attest"}
    BY <1>1
  <2> QED BY <1>1, <2>1, <2>2, <2>3, <2>4, <2>5, WritesKeepBooks
<1> QED BY <1>2, <1>3

LEMMA AttachBooks == ASSUME Books, NEW t \in Tasks, Attach(t) PROVE Books'
<1> USE DEF Books
<1> DEFINE w == [waiter[t] EXCEPT !.kind = "attached"]
<1>1. /\ waiter[t].kind = "adopting" /\ waiter' = [waiter EXCEPT ![t] = w]
      /\ UNCHANGED <<tasks, boxes, gate, daemon, orphan, verdict, desk, cli, bounds>>
  BY DEF Attach
<1>2. w \in Waiter /\ w # NoWaiter /\ w.run = waiter[t].run /\ w.kind = "attached" /\ waiter[t] # NoWaiter
  BY <1>1 DEF Waiter, TypeOK, NoWaiter
<1> HIDE DEF w
<1>3. /\ waiter' \in [Tasks -> Waiter] /\ waiter'[t] = w
      /\ \A u \in Tasks : u # t => waiter'[u] = waiter[u]
      /\ IsFiniteSet(Waiting')
  BY <1>1, <1>2, WaitingIs
<1>4. Waiting' = Waiting
  BY <1>2, <1>3 DEF Waiting
<1>5. TypeOK' /\ FreshRuns'
  BY <1>1, <1>3 DEF TypeOK, FreshRuns, tasks, boxes, bounds
<1>6. RunsAreNamed'
  BY <1>1, <1>2, <1>3 DEF RunsAreNamed, tasks, boxes
<1>7. Phases' /\ Hands' /\ ClaimedHasRun' /\ ClaimedIsTracked'
  BY <1>1, <1>4 DEF Phases, Hands, ClaimedHasRun, ClaimedIsTracked, Up, tasks
<1> QED BY <1>3, <1>5, <1>6, <1>7

LEMMA ClaimBooks == ASSUME Books, NEW t \in Tasks, NEW r \in Runs, Claim(t, r) PROVE Books'
<1> USE DEF Books
<1> DEFINE w == [run |-> r, kind |-> "own"]
<1>1. /\ daemon = "loop" /\ t \notin Waiting /\ taskOf[r] = None
      /\ waiter' = [waiter EXCEPT ![t] = w]
      /\ UNCHANGED <<report, refused, wasRefused, gate, daemon, orphan, verdict,
                     desk, cli, requeues, crashes>>
  BY DEF Claim, MayClaim, bounds
<1>2. w \in Waiter /\ w # NoWaiter /\ w.run = r /\ w.kind = "own"
  BY DispatchAssumption DEF Waiter, NoWaiter
<1> HIDE DEF w
<1>3. /\ waiter' \in [Tasks -> Waiter] /\ waiter'[t] = w
      /\ \A u \in Tasks : u # t => waiter'[u] = waiter[u]
      /\ \A u \in Tasks : u # t => (u \in Waiting' <=> u \in Waiting)
      /\ t \in Waiting' /\ IsFiniteSet(Waiting')
  BY <1>1, <1>2, WaitingIs
<1>4. /\ task' \in [Tasks -> TaskState] /\ run' \in [Tasks -> Runs \cup {None}]
      /\ task'[t] = "claimed" /\ run'[t] = r
      /\ \A u \in Tasks : u # t => task'[u] = task[u] /\ run'[u] = run[u]
      /\ box' \in [Runs -> BoxState] /\ taskOf' \in [Runs -> Tasks \cup {None}]
      /\ box'[r] = "starting" /\ taskOf'[r] = t
      /\ \A q \in Runs : q # r => box'[q] = box[q] /\ taskOf'[q] = taskOf[q]
  BY DEF Claim, TypeOK, TaskState, BoxState
<1>5. TypeOK'
  BY <1>1, <1>3, <1>4 DEF TypeOK
<1>6. FreshRuns'
  BY <1>1, <1>4, DispatchAssumption DEF FreshRuns
<1>7. RunsAreNamed'
  BY <1>1, <1>2, <1>3, <1>4, DispatchAssumption DEF RunsAreNamed, TypeOK, Phases
<1>8. Phases' /\ Hands'
  BY <1>1, <1>3 DEF Phases, Hands
<1>9. ClaimedHasRun' /\ ClaimedIsTracked'
  BY <1>1, <1>3, <1>4, DispatchAssumption DEF ClaimedHasRun, ClaimedIsTracked, Up
<1> QED BY <1>3, <1>5, <1>6, <1>7, <1>8, <1>9

LEMMA VerdictIs == \A t \in Tasks : TypeOK /\ waiter[t].run \in Runs => Verdict(t) \in {"completed", "failed", "needs-review"}
BY DEF Verdict, TypeOK

LEMMA FinalizeBooks == ASSUME Books, NEW t \in Tasks, Finalize(t) PROVE Books'
<1> USE DEF Books
<1>1. /\ daemon = "loop" /\ daemon' = "attest" /\ verdict' = [task |-> t, next |-> Verdict(t)]
      /\ refused' \subseteq refused /\ waiter' = [waiter EXCEPT ![t] = NoWaiter]
      /\ UNCHANGED <<tasks, box, taskOf, report, wasRefused, gate, orphan, desk, cli, bounds>>
  BY DEF Finalize
<1>2. NoWaiter \in Waiter
  BY DEF NoWaiter, Waiter
<1>3. /\ waiter' \in [Tasks -> Waiter] /\ waiter'[t] = NoWaiter
      /\ \A u \in Tasks : u # t => waiter'[u] = waiter[u]
      /\ \A u \in Tasks : u # t => (u \in Waiting' <=> u \in Waiting)
      /\ t \notin Waiting' /\ IsFiniteSet(Waiting')
  BY <1>1, <1>2, WaitingIs
<1>4. TypeOK' /\ FreshRuns'
  BY <1>1, <1>3 DEF TypeOK, FreshRuns, tasks, bounds
<1>5. RunsAreNamed'
  BY <1>1, <1>3 DEF RunsAreNamed, tasks
<1>6. verdict'.next \in {"completed", "failed", "needs-review"} /\ verdict'.task = t
  <2>1. waiter[t].run \in Runs
    BY DEF Finalize, Ended, RunsAreNamed, NoWaiter
  <2> QED BY <1>1, <2>1, VerdictIs
<1>7. Phases'
  BY <1>1, <1>3, <1>6 DEF Phases
<1>8. Hands' /\ ClaimedHasRun'
  BY <1>1 DEF Hands, ClaimedHasRun, tasks
<1>9. ClaimedIsTracked'
  BY <1>1, <1>3, <1>6, DispatchAssumption DEF ClaimedIsTracked, Up, tasks, Phases, NoVerdict
<1> QED BY <1>3, <1>4, <1>5, <1>7, <1>8, <1>9

LEMMA NextBooks == Books /\ [Next]_vars => Books'
<1> SUFFICES ASSUME Books, [Next]_vars PROVE Books'
  OBVIOUS
<1>1. CASE UNCHANGED vars
  <2>1. UNCHANGED <<tasks, taskOf, loop, box, wasRefused>> /\ TypeOK' /\ Hands'
    BY <1>1 DEF vars, boxes, loop, tasks, bounds, Books, TypeOK, Hands
  <2> QED BY <2>1, OutsideKeepsBooks
<1>2. CASE DaemonStep
  BY <1>2, BootDoneBooks, AttestBooks, ReclaimBooks, AttachBooks, FinalizeBooks, ClaimBooks DEF DaemonStep
<1> QED BY <1>1, <1>2, BootBooks, CrashBooks, BoxStepBooks, LooksKeepBooks, CloseReviewBooks,
           RequeueBooks DEF Next, DeskStep

LEMMA AlwaysBooks == Spec => []Books
BY InitBooks, NextBooks, PTL DEF Spec

-----------------------------------------------------------------------------
(* Who changes what *)

\* A box that has ended stays as it was, and so does what it left.
LEMMA EndedStays ==
  ASSUME Books, [Next]_vars, NEW r \in Runs, box[r] \notin {"none", "starting", "alive"}
  PROVE  /\ box'[r] = box[r] /\ taskOf'[r] = taskOf[r] /\ report'[r] = report[r]
         /\ r \in wasRefused' => r \in wasRefused
<1> USE DEF Books, TypeOK
<1> DEFINE Stays == /\ box'[r] = box[r] /\ taskOf'[r] = taskOf[r] /\ report'[r] = report[r]
                    /\ r \in wasRefused' => r \in wasRefused
<1>1. CASE \E t \in Tasks, q \in Runs : Claim(t, q)
  BY <1>1 DEF Claim, FreshRuns
<1>2. CASE Crash
  BY <1>2 DEF Crash
<1>3. CASE \E q \in Runs : BoxStep(q) \/ BoxCall(q)
  <2>1. ASSUME NEW q \in Runs, BoxUp(q) \/ Ceiling(q) \/ BoxExit(q) PROVE Stays
    <3>1. /\ box[q] \in {"starting", "alive"} /\ UNCHANGED <<taskOf, report, wasRefused>>
          /\ \E s \in BoxState : box' = [box EXCEPT ![q] = s]
      BY <2>1 DEF BoxUp, Ceiling, BoxExit, Alive, BoxState
    <3> QED BY <3>1
  <2>2. ASSUME NEW q \in Runs, Refuse(q) \/ \E s \in {"completed", "failed"} : Report(q, s)
        PROVE  Stays
    BY <2>2 DEF Refuse, Report, Alive
  <2>3. ASSUME NEW q \in Runs, NEW g \in Gates, FileGate(g, q) PROVE Stays
    BY <2>3 DEF FileGate, boxes
  <2> QED BY <1>3, <2>1, <2>2, <2>3 DEF BoxStep, BoxCall
<1>4. CASE UNCHANGED boxes
  BY <1>4 DEF boxes
<1>5. CASE \E t \in Tasks : Finalize(t)
  BY <1>5 DEF Finalize
<1>6. Boot \/ BootDone \/ Attest \/ CloseReview \/ Look \/ DeskCrash
      \/ RequeueCheck \/ RequeueReset \/ RequeueRefile
      \/ (\E t \in Tasks : Reclaim(t) \/ Attach(t) \/ RequeueFind(t))
      \/ (\E g \in Gates : Resolve(g) \/ ResolveCutShort(g) \/ Retry(g))
      \/ UNCHANGED vars
      => UNCHANGED boxes
  BY DEF Boot, BootDone, Attest, CloseReview, Look, DeskCrash, RequeueCheck, RequeueReset,
         RequeueRefile, Reclaim, Attach, RequeueFind, Resolve, ResolveCutShort, Retry, vars
<1> QED BY <1>1, <1>2, <1>3, <1>4, <1>5, <1>6 DEF Next, DaemonStep, DeskStep

LEMMA ProvenStays == ASSUME Books, [Next]_vars, NEW t \in Tasks, Proven(t) PROVE Proven(t)'
<1>1. PICK r \in Runs : taskOf[r] = t /\ box[r] = "ok"
  BY DEF Proven, RunsOf
<1>2. box'[r] = box[r] /\ taskOf'[r] = taskOf[r]
  BY <1>1, EndedStays
<1> QED BY <1>1, <1>2 DEF Proven, RunsOf

\* A step of one task, told by who takes it.
LEMMA TaskMoves ==
  ASSUME Books, [Next]_vars, NEW t \in Tasks
  PROVE  \/ task'[t] = task[t] /\ run'[t] = run[t]
         \/ \E r \in Runs : Claim(t, r) /\ task'[t] = "claimed"
         \/ Reclaim(t) /\ orphan[t] # None /\ ~ Alive(orphan[t]) /\ task'[t] = "pending"
         \/ cli.step # "idle" /\ task'[t] = "pending" /\ run'[t] = None
         \/ Attest /\ verdict.task = t /\ task'[t] = verdict.next /\ run'[t] = run[t]
         \/ /\ CloseReview /\ desk.step = "finish" /\ Owner[desk.gate] = t
            /\ task'[t] = "completed" /\ run'[t] = run[t]
<1> USE DEF Books
<1>1. CASE \E u \in Tasks, r \in Runs : Claim(u, r)
  <2>1. PICK u \in Tasks, r \in Runs : Claim(u, r)
    BY <1>1
  <2>2. task' = [task EXCEPT ![u] = "claimed"] /\ run' = [run EXCEPT ![u] = r]
    BY <2>1 DEF Claim
  <2>3. CASE u = t
    <3>1. task'[t] = "claimed" BY <2>2, <2>3 DEF TypeOK
    <3> QED BY <2>1, <2>3, <3>1
  <2>4. CASE u # t
    <3>1. task'[t] = task[t] /\ run'[t] = run[t] BY <2>2, <2>4 DEF TypeOK
    <3> QED BY <3>1
  <2> QED BY <2>3, <2>4
<1>2. CASE \E u \in Tasks : Reclaim(u)
  <2>1. PICK u \in Tasks : Reclaim(u)
    BY <1>2
  <2>2. CASE Alive(orphan[u])
    BY <2>1, <2>2 DEF Reclaim, tasks
  <2>3. CASE ~ Alive(orphan[u])
    <3>1. FinishWith(u, "pending") /\ orphan[u] # None
      BY <2>1, <2>3 DEF Reclaim
    <3>2. "pending" \in TaskState \ {"claimed"}
      BY DEF TaskState
    <3>3. CASE t # u
      BY <3>1, <3>2, <3>3, FinishWithIs
    <3>4. CASE t = u
      BY <2>1, <2>3, <3>1, <3>4 DEF FinishWith, TypeOK, tasks
    <3> QED BY <3>3, <3>4
  <2> QED BY <2>2, <2>3
<1>3. CASE RequeueReset
  <2>1. FinishWith(cli.task, "pending") /\ cli.step # "idle" /\ cli.task \in Tasks
    BY <1>3 DEF RequeueReset, Hands
  <2> QED BY <2>1 DEF FinishWith, TypeOK, tasks
<1>4. CASE RequeueRefile
  BY <1>4 DEF RequeueRefile, Hands, TypeOK, tasks
<1>5. CASE Attest
  <2>1. FinishWith(verdict.task, verdict.next) /\ verdict.task \in Tasks /\ verdict.next # "pending"
    BY <1>5 DEF Attest, Phases
  <2> QED BY <1>5, <2>1 DEF FinishWith, TypeOK, tasks
<1>6. CASE CloseReview
  <2>1. FinishWith(Owner[desk.gate], "completed") /\ Owner[desk.gate] \in Tasks /\ desk.step = "finish"
    BY <1>6, DispatchAssumption DEF CloseReview, Hands
  <2> QED BY <1>6, <2>1 DEF FinishWith, TypeOK, tasks
<1>7. CASE UNCHANGED tasks
  BY <1>7 DEF tasks
<1>8. Boot \/ BootDone \/ Crash \/ Look \/ DeskCrash \/ RequeueCheck
      \/ (\E u \in Tasks : Attach(u) \/ Finalize(u) \/ RequeueFind(u))
      \/ (\E g \in Gates : Resolve(g) \/ ResolveCutShort(g) \/ Retry(g))
      \/ (\E r \in Runs : BoxStep(r) \/ BoxCall(r))
      \/ UNCHANGED vars
      => UNCHANGED tasks
  BY DEF Boot, BootDone, Crash, Look, DeskCrash, RequeueCheck, Attach, Finalize, RequeueFind,
         Resolve, ResolveCutShort, Retry, BoxStep, BoxCall, BoxUp, Ceiling, BoxExit, Refuse,
         Report, FileGate, vars
<1> QED BY <1>1, <1>2, <1>3, <1>4, <1>5, <1>6, <1>7, <1>8 DEF Next, DaemonStep, DeskStep

\* A verdict is found by finalize and kept until it is written or lost.
LEMMA VerdictMoves ==
  ASSUME [Next]_vars
  PROVE  \/ verdict' = verdict \/ verdict' = NoVerdict
         \/ \E t \in Tasks : Finalize(t)
<1>1. Attest \/ Crash => verdict' = NoVerdict
  BY DEF Attest, Crash
<1>2. Boot \/ BootDone \/ CloseReview \/ Look \/ DeskCrash
      \/ RequeueCheck \/ RequeueReset \/ RequeueRefile
      \/ (\E t \in Tasks : Reclaim(t) \/ Attach(t) \/ RequeueFind(t))
      \/ (\E g \in Gates : Resolve(g) \/ ResolveCutShort(g) \/ Retry(g))
      \/ (\E r \in Runs : BoxStep(r) \/ BoxCall(r))
      \/ (\E t \in Tasks, r \in Runs : Claim(t, r))
      \/ UNCHANGED vars
      => verdict' = verdict
  BY DEF Boot, BootDone, CloseReview, Look, DeskCrash, RequeueCheck, RequeueReset, RequeueRefile,
         Reclaim, Attach, RequeueFind, Resolve, ResolveCutShort, Retry, BoxStep, BoxCall, BoxUp,
         Ceiling, BoxExit, Refuse, Report, FileGate, Claim, vars, loop
<1> QED BY <1>1, <1>2 DEF Next, DaemonStep, DeskStep

\* The desk is about to close a review only once it has looked.
LEMMA DeskMoves ==
  ASSUME Books, [Next]_vars, desk'.step = "finish"
  PROVE  \/ desk' = desk
         \/ desk'.gate = desk.gate /\ desk.gate \in Gates /\ MayClose(Owner[desk.gate]) /\ Look
<1>1. CASE Look
  BY <1>1 DEF Look, IdleDesk, Books, Hands
<1>2. DeskCrash \/ CloseReview \/ (\E g \in Gates : Resolve(g)) => desk'.step # "finish"
  BY DEF DeskCrash, CloseReview, Resolve, IdleDesk
<1>3. Boot \/ BootDone \/ Crash \/ Attest \/ RequeueCheck \/ RequeueReset \/ RequeueRefile
      \/ (\E t \in Tasks : Reclaim(t) \/ Attach(t) \/ Finalize(t) \/ RequeueFind(t))
      \/ (\E g \in Gates : ResolveCutShort(g) \/ Retry(g))
      \/ (\E r \in Runs : BoxStep(r) \/ BoxCall(r))
      \/ (\E t \in Tasks, r \in Runs : Claim(t, r))
      \/ UNCHANGED vars
      => desk' = desk
  BY DEF Boot, BootDone, Crash, Attest, RequeueCheck, RequeueReset, RequeueRefile, Reclaim,
         Attach, Finalize, RequeueFind, ResolveCutShort, Retry, BoxStep, BoxCall, BoxUp, Ceiling,
         BoxExit, Refuse, Report, FileGate, Claim, vars
<1> QED BY <1>1, <1>2, <1>3 DEF Next, DaemonStep, DeskStep

\* A gate is never unfiled, and waits for approval afresh only when a box files it.
LEMMA GateMoves ==
  ASSUME Books, [Next]_vars, NEW g \in Gates
  PROVE  /\ gate[g] # "none" => gate'[g] # "none"
         /\ gate'[g] = "pending" => gate[g] = "pending" \/ \E r \in Runs : FileGate(g, r)
<1> USE DEF Books, TypeOK
<1> DEFINE Moves == /\ gate[g] # "none" => gate'[g] # "none"
                    /\ gate'[g] = "pending" => gate[g] = "pending" \/ \E r \in Runs : FileGate(g, r)
<1>1. ASSUME NEW h \in Gates, Resolve(h) \/ ResolveCutShort(h) \/ Retry(h) PROVE Moves
  BY <1>1 DEF Resolve, ResolveCutShort, Retry
<1>2. ASSUME NEW h \in Gates, NEW r \in Runs, FileGate(h, r) PROVE Moves
  <2>1. gate' = [gate EXCEPT ![h] = "pending"]
    BY <1>2 DEF FileGate
  <2>2. CASE g = h
    BY <1>2, <2>1, <2>2
  <2>3. CASE g # h
    BY <2>1, <2>3
  <2> QED BY <2>2, <2>3
<1>3. Boot \/ BootDone \/ Crash \/ Attest \/ RequeueCheck \/ RequeueReset \/ RequeueRefile
      \/ Look \/ DeskCrash \/ CloseReview
      \/ (\E t \in Tasks : Reclaim(t) \/ Attach(t) \/ Finalize(t) \/ RequeueFind(t))
      \/ (\E r \in Runs : BoxStep(r) \/ BoxExit(r) \/ Refuse(r)
                         \/ \E s \in {"completed", "failed"} : Report(r, s))
      \/ (\E t \in Tasks, r \in Runs : Claim(t, r))
      \/ UNCHANGED vars
      => gate' = gate
  BY DEF Boot, BootDone, Crash, Attest, RequeueCheck, RequeueReset, RequeueRefile, Look, DeskCrash,
         CloseReview, Reclaim, Attach, Finalize, RequeueFind, BoxStep, BoxUp, Ceiling, BoxExit,
         Refuse, Report, Claim, vars
<1> QED BY <1>1, <1>2, <1>3 DEF Next, DaemonStep, DeskStep, BoxCall

-----------------------------------------------------------------------------
(* Evidence is inductive *)

LEMMA InitEvidence == Init => Evidence
BY DEF Init, Evidence, NoVerdict, IdleDesk

LEMMA NextEvidence == ASSUME Books, Evidence, [Next]_vars PROVE Evidence'
<1>1. Books'
  BY NextBooks
<1>2. ASSUME NEW t \in Tasks, task'[t] \in {"needs-review", "completed"} PROVE Proven(t)
  BY <1>2, TaskMoves DEF Evidence
<1>3. ASSUME verdict'.next \in {"needs-review", "completed"}
      PROVE  verdict'.task \in Tasks /\ Proven(verdict'.task)
  <2>1. CASE \E t \in Tasks : Finalize(t)
    <3>1. PICK t \in Tasks : Finalize(t)
      BY <2>1
    <3>2. verdict' = [task |-> t, next |-> Verdict(t)] /\ Ended(t) /\ ~ HostFailed(t)
      BY <1>3, <3>1 DEF Finalize, Verdict
    <3>3. waiter[t].kind # "none" /\ box[waiter[t].run] = "ok"
      BY <3>2 DEF Ended, HostFailed
    <3>4. waiter[t].run \in Runs /\ taskOf[waiter[t].run] = t
      BY <3>3 DEF Books, RunsAreNamed, NoWaiter
    <3> QED BY <3>2, <3>3, <3>4 DEF Proven, RunsOf
  <2>2. CASE verdict' = verdict
    BY <1>3, <2>2 DEF Evidence, Books, Phases, NoVerdict
  <2>3. CASE verdict' = NoVerdict
    BY <1>3, <2>3 DEF NoVerdict
  <2> QED BY <2>1, <2>2, <2>3, VerdictMoves
<1>4. ASSUME desk'.step = "finish"
      PROVE  Owner[desk'.gate] \in Tasks /\ Proven(Owner[desk'.gate])
  <2>1. Owner[desk'.gate] \in Tasks
    BY <1>1, <1>4, DispatchAssumption DEF Books, Hands
  <2>2. CASE desk' = desk
    BY <1>4, <2>1, <2>2 DEF Evidence
  <2>3. CASE desk'.gate = desk.gate /\ MayClose(Owner[desk.gate])
    BY <2>1, <2>3 DEF Evidence, MayClose
  <2> QED BY <1>4, <2>2, <2>3, DeskMoves
<1>5. \A t \in Tasks : Proven(t) => Proven(t)'
  BY ProvenStays
<1> QED
  <2>1. \A t \in Tasks : task'[t] \in {"needs-review", "completed"} => Proven(t)'
    BY <1>2, <1>5
  <2>2. verdict'.next \in {"needs-review", "completed"} => Proven(verdict.task)'
    BY <1>3, ProvenStays DEF Proven, RunsOf
  <2>3. desk'.step = "finish" => Proven(Owner[desk.gate])'
    BY <1>4, <1>5 DEF Proven, RunsOf
  <2> QED BY <2>1, <2>2, <2>3 DEF Evidence

-----------------------------------------------------------------------------
(* Order is inductive *)

LEMMA InitOrder == Init => Order
<1> SUFFICES ASSUME Init PROVE Order
  OBVIOUS
<1> USE DispatchAssumption DEF Init
<1>1. ActiveRuns = {}
  BY DEF ActiveRuns, Active
<1>2. Turns
  BY DEF Turns, Waiting, NoVerdict, IdleDesk
<1>3. OwnOnly /\ SeenUp
  BY <1>1 DEF OwnOnly, SeenUp, NoWaiter
<1>4. Pinned /\ Held /\ Decided
  BY <1>1 DEF Pinned, Held, Decided, NoVerdict, IdleDesk
<1>5. WithinCap
  BY <1>1, FS_EmptySet DEF WithinCap
<1> QED BY <1>2, <1>3, <1>4, <1>5 DEF Order

Has(t) == t \in Waiting \/ orphan[t] # None \/ verdict.task = t

\* What the daemon has in hand it had before, or has claimed or listed just now.
LEMMA HasMoves ==
  ASSUME Books, [Next]_vars, NEW t \in Tasks, Has(t)'
  PROVE  Has(t) \/ (\E r \in Runs : Claim(t, r)) \/ (Boot /\ task[t] = "claimed")
<1> USE DEF Books, TypeOK, Has, Waiting
<1>1. CASE Boot
  BY <1>1 DEF Boot
<1>2. CASE Crash \/ Attest
  BY <1>2, DispatchAssumption DEF Crash, Attest, NoVerdict
<1>3. ASSUME NEW u \in Tasks, Reclaim(u) PROVE Has(t)
  BY <1>3 DEF Reclaim, Adopting
<1>4. ASSUME NEW u \in Tasks, NEW r \in Runs, Claim(u, r) PROVE Has(t) \/ Claim(t, r)
  BY <1>4 DEF Claim
<1>5. ASSUME NEW u \in Tasks, Attach(u) PROVE Has(t)
  <2>1. waiter[u] # NoWaiter /\ UNCHANGED <<orphan, verdict>>
    BY <1>5 DEF Attach, NoWaiter
  <2>2. \A v \in Tasks : v # u => waiter'[v] = waiter[v]
    BY <1>5 DEF Attach
  <2> QED BY <2>1, <2>2
<1>6. ASSUME NEW u \in Tasks, Finalize(u) PROVE Has(t)
  <2>1. waiter[u] # NoWaiter
    BY <1>6 DEF Finalize, Ended, NoWaiter
  <2> QED BY <1>6, <2>1 DEF Finalize
<1>7. BootDone \/ CloseReview \/ Look \/ DeskCrash
      \/ RequeueCheck \/ RequeueReset \/ RequeueRefile
      \/ (\E u \in Tasks : RequeueFind(u))
      \/ (\E g \in Gates : Resolve(g) \/ ResolveCutShort(g) \/ Retry(g))
      \/ (\E r \in Runs : BoxStep(r) \/ BoxCall(r))
      \/ UNCHANGED vars
      => UNCHANGED <<orphan, waiter, verdict>>
  BY DEF BootDone, CloseReview, Look, DeskCrash, RequeueCheck, RequeueReset, RequeueRefile,
         RequeueFind, Resolve, ResolveCutShort, Retry, BoxStep, BoxCall, BoxUp,
         Ceiling, BoxExit, Refuse, Report, FileGate, vars, loop
<1>8. CASE UNCHANGED <<orphan, waiter, verdict>>
  BY <1>8
<1> QED BY <1>1, <1>2, <1>3, <1>4, <1>5, <1>6, <1>7, <1>8 DEF Next, DaemonStep, DeskStep

\* No command begins, so none is under way.
LEMMA NoCommand == ASSUME Books, Turns, NoRequeue, [Next]_vars PROVE requeues' = 0 /\ cli' = IdleCli
<1> USE DEF Turns, IdleCli, NoRequeue
<1>1. ASSUME NEW t \in Tasks, RequeueFind(t) PROVE FALSE
  BY <1>1 DEF RequeueFind
<1>2. RequeueCheck \/ RequeueReset \/ RequeueRefile => FALSE
  BY DEF RequeueCheck, RequeueReset, RequeueRefile
<1>3. Boot \/ BootDone \/ Crash \/ Attest \/ CloseReview \/ Look \/ DeskCrash
      \/ (\E u \in Tasks : Reclaim(u) \/ Attach(u) \/ Finalize(u))
      \/ (\E g \in Gates : Resolve(g) \/ ResolveCutShort(g) \/ Retry(g))
      \/ (\E r \in Runs : BoxStep(r) \/ BoxCall(r))
      \/ (\E u \in Tasks, r \in Runs : Claim(u, r))
      \/ UNCHANGED vars
      => UNCHANGED <<requeues, cli>>
  BY DEF Boot, BootDone, Crash, Crashed, Attest, CloseReview, Look, DeskCrash, Reclaim, Attach,
         Finalize, Resolve, ResolveCutShort, Retry, BoxStep, BoxCall, BoxUp, Ceiling, BoxExit,
         Refuse, Report, FileGate, Claim, vars, bounds
<1> QED BY <1>1, <1>2, <1>3 DEF Next, DaemonStep, DeskStep

LEMMA NextTurns == ASSUME Books, Turns, [Next]_vars PROVE Turns'
<1> SUFFICES ASSUME NoRequeue
             PROVE  /\ requeues' = 0 /\ cli' = IdleCli
                    /\ \A t \in Tasks : Has(t)' => task'[t] = "claimed"
                    /\ desk'.step = "finish" => task'[Owner[desk'.gate]] = "needs-review"
  BY DEF Turns, Has, NoRequeue
<1>1. Books'
  BY NextBooks
<1>2. /\ \A t \in Tasks : Has(t) => task[t] = "claimed"
      /\ desk.step = "finish" => task[Owner[desk.gate]] = "needs-review"
      /\ cli.step = "idle"
  BY DEF Turns, Has, IdleCli
<1>3. ASSUME NEW t \in Tasks, Has(t)' PROVE task'[t] = "claimed"
  <2>1. CASE Has(t)
    <3>1. task[t] = "claimed"
      BY <1>2, <2>1
    <3>2. ~ (Reclaim(t) /\ orphan[t] # None /\ ~ Alive(orphan[t]))
      <4> SUFFICES ASSUME Reclaim(t), orphan[t] # None, ~ Alive(orphan[t]) PROVE FALSE
        OBVIOUS
      <4>1. t \notin Waiting /\ verdict = NoVerdict
        BY DEF Books, Phases, Reclaim
      <4>2. waiter' = waiter /\ orphan'[t] = None /\ verdict' = verdict
        BY DEF Reclaim, Books, TypeOK
      <4> QED BY <1>3, <4>1, <4>2, DispatchAssumption DEF Has, Waiting, NoVerdict
    <3>3. ~ (Attest /\ verdict.task = t)
      <4> SUFFICES ASSUME Attest, verdict.task = t PROVE FALSE
        OBVIOUS
      <4>1. t \notin Waiting /\ orphan[t] = None
        BY DEF Books, Phases, Attest
      <4>2. waiter' = waiter /\ orphan' = orphan /\ verdict' = NoVerdict
        BY DEF Attest
      <4> QED BY <1>3, <4>1, <4>2, DispatchAssumption DEF Has, Waiting, NoVerdict
    <3> QED BY <1>2, <3>1, <3>2, <3>3, TaskMoves
  <2>2. ASSUME NEW r \in Runs, Claim(t, r) PROVE task'[t] = "claimed"
    BY <2>2 DEF Claim, Books, TypeOK
  <2>3. CASE Boot /\ task[t] = "claimed"
    BY <2>3 DEF Boot, tasks
  <2> QED BY <1>3, <2>1, <2>2, <2>3, HasMoves
<1>4. ASSUME desk'.step = "finish" PROVE task'[Owner[desk'.gate]] = "needs-review"
  <2> DEFINE t == Owner[desk'.gate]
  <2>1. t \in Tasks
    BY <1>1, <1>4, DispatchAssumption DEF Books, Hands
  <2>2. CASE desk' = desk
    <3>1. task[t] = "needs-review" /\ ~ Has(t)
      BY <1>2, <1>4, <2>1, <2>2
    <3>2. ~ CloseReview
      BY <1>4 DEF CloseReview, IdleDesk
    <3>3. \A r \in Runs : ~ Claim(t, r)
      BY <3>1 DEF Claim
    <3>4. task'[t] = "needs-review"
      <4> HIDE DEF t
      <4> QED BY <1>2, <2>1, <3>1, <3>2, <3>3, TaskMoves DEF Has
    <3> QED BY <3>4
  <2>3. CASE desk'.gate = desk.gate /\ MayClose(Owner[desk.gate]) /\ Look
    BY <2>3 DEF MayClose, Look, tasks
  <2> QED BY <1>4, <2>2, <2>3, DeskMoves
<1> QED BY <1>3, <1>4, NoCommand

\* Only a claim starts a box.
LEMMA ActiveMoves ==
  ASSUME Books, [Next]_vars, NEW r \in Runs, Active(r)'
  PROVE  /\ \/ r \in ActiveRuns /\ taskOf'[r] = taskOf[r] /\ taskOf[r] \in Tasks
            \/ \E t \in Tasks : Claim(t, r)
         /\ box'[r] = "starting" =>
              box[r] = "starting" \/ \E t \in Tasks : Claim(t, r)
<1> USE DEF Books, TypeOK, ActiveRuns, Active
<1> DEFINE Was == /\ r \in ActiveRuns /\ taskOf'[r] = taskOf[r]
                  /\ box'[r] = "starting" => box[r] = "starting"
<1>1. ASSUME NEW t \in Tasks, NEW q \in Runs, Claim(t, q) PROVE Was \/ Claim(t, r)
  <2>1. CASE q = r
    BY <1>1, <2>1
  <2>2. CASE q # r
    BY <1>1, <2>2 DEF Claim
  <2> QED BY <2>1, <2>2
<1>2. ASSUME Crash PROVE Was
  BY <1>2 DEF Crash
<1>3. ASSUME \E q \in Runs : BoxStep(q) \/ BoxCall(q) PROVE Was
  <2>1. ASSUME NEW q \in Runs, BoxUp(q) \/ Ceiling(q) \/ BoxExit(q) PROVE Was
    <3>1. /\ box[q] \in {"starting", "alive"} /\ UNCHANGED taskOf
          /\ \E s \in BoxState \ {"starting"} : box' = [box EXCEPT ![q] = s]
      BY <2>1 DEF BoxUp, Ceiling, BoxExit, Alive, BoxState
    <3> QED BY <3>1
  <2>2. ASSUME NEW q \in Runs, \/ Refuse(q) \/ \E s \in {"completed", "failed"} : Report(q, s)
                               \/ \E g \in Gates : FileGate(g, q)
        PROVE  Was
    BY <2>2 DEF Refuse, Report, FileGate, boxes
  <2> QED BY <1>3, <2>1, <2>2 DEF BoxStep, BoxCall
<1>4. Boot \/ BootDone \/ Attest \/ CloseReview \/ Look \/ DeskCrash
      \/ RequeueCheck \/ RequeueReset \/ RequeueRefile
      \/ (\E t \in Tasks : Reclaim(t) \/ Attach(t) \/ RequeueFind(t) \/ Finalize(t))
      \/ (\E g \in Gates : Resolve(g) \/ ResolveCutShort(g) \/ Retry(g))
      \/ UNCHANGED vars
      => UNCHANGED <<box, taskOf>>
  BY DEF Boot, BootDone, Attest, CloseReview, Look, DeskCrash, RequeueCheck, RequeueReset,
         RequeueRefile, Reclaim, Attach, RequeueFind, Finalize, Resolve, ResolveCutShort, Retry,
         vars, boxes
<1>5. ASSUME UNCHANGED <<box, taskOf>> PROVE Was
  BY <1>5
<1>6. Was \/ \E t \in Tasks : Claim(t, r)
  BY <1>1, <1>2, <1>3, <1>4, <1>5 DEF Next, DaemonStep, DeskStep
<1>7. r \in ActiveRuns => taskOf[r] \in Tasks
  BY DEF FreshRuns
<1> QED BY <1>6, <1>7

LEMMA NextOwnOnly == ASSUME Books, OwnOnly, [Next]_vars PROVE OwnOnly'
<1> SUFFICES ASSUME NoCrash
             PROVE  /\ \A t \in Tasks : orphan'[t] = None /\ waiter'[t].kind \in {"none", "own"}
                    /\ daemon' \in {"down", "boot"} =>
                         /\ \A r \in Runs : ~ Active(r)'
                         /\ \A t \in Tasks : task'[t] # "claimed"
  BY DEF OwnOnly, ActiveRuns, NoCrash
<1> USE DEF Books, TypeOK
<1>1. /\ \A t \in Tasks : orphan[t] = None /\ waiter[t].kind \in {"none", "own"}
      /\ daemon \in {"down", "boot"} => /\ \A r \in Runs : ~ Active(r)
                                        /\ \A t \in Tasks : task[t] # "claimed"
  BY DEF OwnOnly, ActiveRuns
<1>2. ~ Crash
  BY DEF Crash, Crashed, NoCrash
<1>3. /\ \A t \in Tasks : orphan'[t] = None /\ waiter'[t].kind \in {"none", "own"}
      /\ daemon' \in {"down", "boot"} => daemon \in {"down", "boot"}
  <2> DEFINE Same == /\ \A t \in Tasks : orphan'[t] = None /\ waiter'[t].kind \in {"none", "own"}
                     /\ daemon' \in {"down", "boot"} => daemon \in {"down", "boot"}
  <2>1. ASSUME Boot PROVE Same
    BY <1>1, <2>1 DEF Boot
  <2>2. ASSUME NEW t \in Tasks, Reclaim(t) PROVE FALSE
    BY <1>1, <2>2 DEF Reclaim
  <2>3. ASSUME NEW t \in Tasks, NEW r \in Runs, Claim(t, r) PROVE Same
    BY <1>1, <2>3 DEF Claim
  <2>4. ASSUME NEW t \in Tasks, Attach(t) PROVE FALSE
    BY <1>1, <2>4 DEF Attach
  <2>5. ASSUME NEW t \in Tasks, Finalize(t) PROVE Same
    BY <1>1, <2>5 DEF Finalize, NoWaiter
  <2>6. ASSUME BootDone \/ Attest PROVE Same
    BY <1>1, <2>6 DEF BootDone, Attest
  <2>7. CloseReview \/ Look \/ DeskCrash \/ RequeueCheck \/ RequeueReset \/ RequeueRefile
        \/ (\E t \in Tasks : RequeueFind(t))
        \/ (\E g \in Gates : Resolve(g) \/ ResolveCutShort(g) \/ Retry(g))
        \/ (\E r \in Runs : BoxStep(r) \/ BoxCall(r))
        \/ UNCHANGED vars
        => UNCHANGED <<daemon, orphan, waiter>>
    BY DEF CloseReview, Look, DeskCrash, RequeueCheck, RequeueReset, RequeueRefile,
           RequeueFind, Resolve, ResolveCutShort, Retry, BoxStep, BoxCall, BoxUp,
           Ceiling, BoxExit, Refuse, Report, FileGate, vars, loop
  <2>8. ASSUME UNCHANGED <<daemon, orphan, waiter>> PROVE Same
    BY <1>1, <2>8
  <2> QED BY <1>2, <2>1, <2>2, <2>3, <2>4, <2>5, <2>6, <2>7, <2>8 DEF Next, DaemonStep, DeskStep
<1>4. ASSUME daemon' \in {"down", "boot"}
      PROVE  /\ \A r \in Runs : ~ Active(r)'
             /\ \A t \in Tasks : task'[t] # "claimed"
  <2>1. daemon \in {"down", "boot"}
    BY <1>3, <1>4
  <2>2. \A t \in Tasks, r \in Runs : ~ Claim(t, r)
    BY <2>1 DEF Claim
  <2>3. ~ Attest
    BY <2>1 DEF Attest
  <2>4. ASSUME NEW r \in Runs, Active(r)' PROVE FALSE
    BY <1>1, <2>1, <2>2, <2>4, ActiveMoves DEF ActiveRuns
  <2>5. \A t \in Tasks : task'[t] # "claimed"
    BY <1>1, <2>1, <2>2, <2>3, TaskMoves
  <2> QED BY <2>4, <2>5
<1> QED BY <1>3, <1>4

LEMMA NextSeenUp == ASSUME Books, SeenUp, OwnOnly', [Next]_vars PROVE SeenUp'
<1> SUFFICES ASSUME ~ LateStart
             PROVE  /\ daemon' \in {"down", "boot"} => \A r \in Runs : box'[r] # "starting"
                    /\ \A t \in Tasks : waiter'[t].kind \in {"adopting", "attached"}
                                        => box'[waiter'[t].run] # "starting"
  <2>1. CASE NoCrash
    <3>1. OwnOnly' => SeenUp'
      BY <2>1 DEF OwnOnly, SeenUp, ActiveRuns, Active, NoCrash
    <3> QED BY <3>1
  <2>2. CASE ~ NoCrash /\ LateStart
    BY <2>2 DEF SeenUp, NoCrash
  <2> QED BY <2>1, <2>2 DEF SeenUp
<1> USE DEF Books, TypeOK
<1>1. /\ daemon \in {"down", "boot"} => \A r \in Runs : box[r] # "starting"
      /\ \A t \in Tasks : waiter[t].kind \in {"adopting", "attached"}
                          => box[waiter[t].run] # "starting"
  BY DEF SeenUp
<1>2. \A r \in Runs : box'[r] = "starting" =>
        box[r] = "starting" \/ \E t \in Tasks : Claim(t, r)
  BY ActiveMoves DEF Active
<1> DEFINE Seen == /\ daemon' \in {"down", "boot"} => \A r \in Runs : box'[r] # "starting"
                   /\ \A t \in Tasks : waiter'[t].kind \in {"adopting", "attached"}
                                       => box'[waiter'[t].run] # "starting"
<1>3. ASSUME Crash PROVE Seen
  BY <1>3 DEF Crash, NoWaiter
<1>4. ASSUME NEW u \in Tasks, NEW r \in Runs, Claim(u, r) PROVE Seen
  <2>1. daemon' = "loop"
    BY <1>4 DEF Claim
  <2>2. ASSUME NEW t \in Tasks, waiter'[t].kind \in {"adopting", "attached"}
        PROVE  box'[waiter'[t].run] # "starting"
    <3>1. t # u /\ waiter'[t] = waiter[t] /\ taskOf[r] = None /\ box' = [box EXCEPT ![r] = "starting"]
      BY <1>4, <2>2 DEF Claim
    <3>2. waiter[t].run \in Runs /\ taskOf[waiter[t].run] = t
      BY <2>2, <3>1 DEF RunsAreNamed, NoWaiter
    <3>3. waiter[t].run # r
      BY <3>1, <3>2, DispatchAssumption
    <3> QED BY <1>1, <2>2, <3>1, <3>2, <3>3
  <2> QED BY <2>1, <2>2
<1>5. ASSUME \A u \in Tasks, r \in Runs : ~ Claim(u, r),
             daemon' \in {"down", "boot"} => daemon \in {"down", "boot"},
             \A t \in Tasks :
               waiter'[t].kind \in {"adopting", "attached"} =>
                 /\ waiter'[t].run \in Runs
                 /\ \/ waiter[t].kind \in {"adopting", "attached"} /\ waiter'[t].run = waiter[t].run
                    \/ Alive(waiter'[t].run)
      PROVE  Seen
  BY <1>1, <1>2, <1>5 DEF Alive
<1>6. ASSUME ~ Crash, \A u \in Tasks, r \in Runs : ~ Claim(u, r) PROVE Seen
  <2>1. daemon' \in {"down", "boot"} => daemon \in {"down", "boot"}
    <3>1. Boot \/ BootDone \/ Attest \/ (\E t \in Tasks : Finalize(t))
          => (daemon' \in {"down", "boot"} => daemon \in {"down", "boot"})
      BY DEF Boot, BootDone, Attest, Finalize
    <3>2. CloseReview \/ Look \/ DeskCrash \/ RequeueCheck \/ RequeueReset \/ RequeueRefile
          \/ (\E t \in Tasks : RequeueFind(t) \/ Reclaim(t) \/ Attach(t))
          \/ (\E g \in Gates : Resolve(g) \/ ResolveCutShort(g) \/ Retry(g))
          \/ (\E r \in Runs : BoxStep(r) \/ BoxCall(r))
          \/ UNCHANGED vars
          => daemon' = daemon
      BY DEF CloseReview, Look, DeskCrash, RequeueCheck, RequeueReset, RequeueRefile,
             RequeueFind, Reclaim, Attach, Resolve, ResolveCutShort, Retry, BoxStep, BoxCall, BoxUp,
             Ceiling, BoxExit, Refuse, Report, FileGate, vars, loop
    <3> QED BY <1>6, <3>1, <3>2 DEF Next, DaemonStep, DeskStep
  <2>2. ASSUME NEW t \in Tasks, waiter'[t].kind \in {"adopting", "attached"}
        PROVE  \/ waiter[t].kind \in {"adopting", "attached"} /\ waiter'[t].run = waiter[t].run
               \/ Alive(waiter'[t].run)
    <3> DEFINE From == \/ waiter[t].kind \in {"adopting", "attached"} /\ waiter'[t].run = waiter[t].run
                       \/ Alive(waiter'[t].run)
    <3>1. ASSUME NEW u \in Tasks, Reclaim(u) PROVE From
      <4>1. CASE t = u /\ Alive(orphan[u])
        BY <3>1, <4>1 DEF Reclaim, Adopting
      <4>2. CASE t # u /\ Alive(orphan[u])
        BY <2>2, <3>1, <4>2 DEF Reclaim, Adopting
      <4>3. CASE ~ Alive(orphan[u])
        BY <2>2, <3>1, <4>3 DEF Reclaim
      <4> QED BY <4>1, <4>2, <4>3
    <3>2. ASSUME NEW u \in Tasks, Attach(u) PROVE From
      <4>1. CASE t = u
        BY <3>2, <4>1 DEF Attach, Waiter
      <4>2. CASE t # u
        BY <2>2, <3>2, <4>2 DEF Attach
      <4> QED BY <4>1, <4>2
    <3>3. ASSUME NEW u \in Tasks, Finalize(u) PROVE From
      BY <2>2, <3>3 DEF Finalize, NoWaiter
    <3>4. Boot \/ BootDone \/ Attest \/ CloseReview \/ Look \/ DeskCrash
          \/ RequeueCheck \/ RequeueReset \/ RequeueRefile
          \/ (\E u \in Tasks : RequeueFind(u))
          \/ (\E g \in Gates : Resolve(g) \/ ResolveCutShort(g) \/ Retry(g))
          \/ (\E r \in Runs : BoxStep(r) \/ BoxCall(r))
          \/ UNCHANGED vars
          => waiter' = waiter
      BY DEF Boot, BootDone, Attest, CloseReview, Look, DeskCrash, RequeueCheck, RequeueReset,
             RequeueRefile, RequeueFind, Resolve, ResolveCutShort, Retry, BoxStep, BoxCall, BoxUp,
             Ceiling, BoxExit, Refuse, Report, FileGate, vars, loop
    <3>5. ASSUME waiter' = waiter PROVE From
      BY <2>2, <3>5
    <3> QED BY <1>6, <3>1, <3>2, <3>3, <3>4, <3>5 DEF Next, DaemonStep, DeskStep
  <2>3. \A t \in Tasks : waiter'[t].kind \in {"adopting", "attached"} => waiter'[t].run \in Runs
    <3>1. Books'
      BY NextBooks
    <3> QED BY <3>1 DEF RunsAreNamed, NoWaiter
  <2> QED BY <1>5, <1>6, <2>1, <2>2, <2>3
<1> QED BY <1>3, <1>4, <1>6

\* A verdict, an orphan without a box, a task in review: none of them runs.
LEMMA NothingRuns ==
  ASSUME Books, Turns, SeenUp, Pinned, Held, NEW t \in Tasks, NEW r \in ActiveRuns, taskOf[r] = t
  PROVE  /\ Tame /\ daemon = "attest" => verdict.task # t
         /\ Tame /\ daemon = "boot" /\ orphan[t] # None => Alive(orphan[t]) /\ orphan[t] = r
         /\ Orderly => task[t] = "claimed"
<1> USE DEF Books, ActiveRuns, Active
<1>1. r \in Runs /\ r # None
  BY DispatchAssumption
<1>2. \A u \in Tasks : u \notin Waiting => waiter[u].run = None
  BY DEF Waiting, NoWaiter
<1>3. ASSUME Tame, daemon = "attest" PROVE verdict.task # t
  BY <1>1, <1>2, <1>3 DEF Held, Up, Phases
<1>4. ASSUME Tame, daemon = "boot", orphan[t] # None PROVE Alive(orphan[t]) /\ orphan[t] = r
  <2>1. orphan[t] = r
    BY <1>1, <1>2, <1>4 DEF Held, Up, Phases
  <2>2. box[r] # "starting"
    BY <1>1, <1>4 DEF SeenUp, Tame, Orderly
  <2> QED BY <2>1, <2>2 DEF Alive
<1>5. Orderly => task[t] = "claimed"
  BY DEF Pinned
<1> QED BY <1>3, <1>4, <1>5

LEMMA NextPinned ==
  ASSUME Books, Turns, SeenUp, Pinned, Held, [Next]_vars PROVE Pinned'
<1> SUFFICES ASSUME Orderly, NEW r \in Runs, Active(r)'
             PROVE  taskOf'[r] \in Tasks /\ task'[taskOf'[r]] = "claimed" /\ run'[taskOf'[r]] = r
  BY DEF Pinned, ActiveRuns, Orderly, NoRequeue, NoCrash
<1>1. ASSUME NEW t \in Tasks, Claim(t, r)
      PROVE  taskOf'[r] = t /\ task'[t] = "claimed" /\ run'[t] = r
  BY <1>1 DEF Claim, Books, TypeOK
<1>2. ASSUME r \in ActiveRuns, taskOf'[r] = taskOf[r], taskOf[r] \in Tasks
      PROVE  task'[taskOf[r]] = "claimed" /\ run'[taskOf[r]] = r
  <2> DEFINE t == taskOf[r]
  <2>1. t \in Tasks /\ taskOf[r] = t /\ task[t] = "claimed" /\ run[t] = r
    BY <1>2 DEF Pinned
  <2> HIDE DEF t
  <2>2. \A q \in Runs : ~ Claim(t, q)
    BY <2>1 DEF Claim
  <2>3. ~ (Reclaim(t) /\ orphan[t] # None /\ ~ Alive(orphan[t]))
    BY <1>2, <2>1, NothingRuns DEF Reclaim, Tame
  <2>4. cli.step = "idle"
    BY DEF Turns, Orderly, IdleCli
  <2>5. ~ (Attest /\ verdict.task = t)
    BY <1>2, <2>1, NothingRuns DEF Attest, Tame
  <2>6. ~ (desk.step = "finish" /\ Owner[desk.gate] = t)
    BY <2>1 DEF Turns, Orderly
  <2>7. task'[t] = task[t] /\ run'[t] = run[t]
    BY <2>1, <2>2, <2>3, <2>4, <2>5, <2>6, TaskMoves
  <2> QED BY <2>1, <2>7 DEF t
<1> QED BY <1>1, <1>2, ActiveMoves

LEMMA NextHeld ==
  ASSUME Books, Turns, OwnOnly, SeenUp, Pinned, Held, [Next]_vars PROVE Held'
<1> SUFFICES ASSUME Tame, Up', NEW r \in Runs, Active(r)'
             PROVE  taskOf'[r] \in Tasks /\ (waiter'[taskOf'[r]].run = r \/ orphan'[taskOf'[r]] = r)
  BY DEF Held, ActiveRuns, Tame, Orderly, NoRequeue, NoCrash
<1> USE DEF Books, TypeOK
<1>1. ASSUME NEW t \in Tasks, Claim(t, r) PROVE taskOf'[r] = t /\ waiter'[t].run = r
  BY <1>1 DEF Claim
<1>2. ASSUME r \in ActiveRuns, taskOf'[r] = taskOf[r], taskOf[r] \in Tasks
      PROVE  waiter'[taskOf[r]].run = r \/ orphan'[taskOf[r]] = r
  <2> DEFINE t == taskOf[r]
             Keeps == waiter'[t].run = r \/ orphan'[t] = r
  <2>1. t \in Tasks /\ taskOf[r] = t /\ r # None
    BY <1>2, DispatchAssumption
  <2>2. \A u \in Tasks : u \notin Waiting => waiter[u].run = None
    BY DEF Waiting, NoWaiter
  <2>3. Up => waiter[t].run = r \/ orphan[t] = r
    BY <1>2 DEF Held
  <2> HIDE DEF t
  <2>4. ASSUME Boot PROVE Keeps
    <3>1. daemon = "down" /\ Orderly
      BY <1>2, <2>4 DEF Boot, OwnOnly, Tame
    <3>2. task[t] = "claimed" /\ run[t] = r
      BY <1>2, <2>1, <3>1 DEF Pinned
    <3> QED BY <2>1, <2>4, <3>2 DEF Boot
  <2>5. ASSUME Crash PROVE FALSE
    BY <2>5 DEF Crash, Up
  <2>6. ASSUME NEW u \in Tasks, Reclaim(u) PROVE Keeps
    <3>1. daemon = "boot" /\ orphan[u] # None /\ orphan' = [orphan EXCEPT ![u] = None]
      BY <2>6 DEF Reclaim
    <3>2. CASE u # t
      <4>1. waiter'[t] = waiter[t] /\ orphan'[t] = orphan[t]
        BY <2>1, <2>6, <3>1, <3>2 DEF Reclaim, Adopting
      <4> QED BY <2>3, <3>1, <4>1 DEF Up
    <3>3. CASE u = t
      <4>1. Alive(orphan[t]) /\ orphan[t] = r
        BY <1>2, <2>1, <3>1, <3>3, NothingRuns
      <4>2. waiter' = [waiter EXCEPT ![t] = [run |-> r, kind |-> "adopting"]]
        BY <2>6, <3>3, <4>1 DEF Reclaim, Adopting
      <4> QED BY <2>1, <4>2
    <3> QED BY <3>2, <3>3
  <2>7. ASSUME NEW u \in Tasks, NEW q \in Runs, Claim(u, q) PROVE Keeps
    <3>1. daemon = "loop" /\ u \notin Waiting /\ orphan[t] = None
      BY <2>1, <2>7 DEF Claim, MayClaim, Phases
    <3>2. u # t
      BY <2>1, <2>2, <2>3, <3>1 DEF Up
    <3> QED BY <2>1, <2>3, <2>7, <3>1, <3>2 DEF Claim, Up
  <2>8. ASSUME NEW u \in Tasks, Attach(u) PROVE Keeps
    <3>1. waiter'[t].run = waiter[t].run /\ orphan' = orphan /\ daemon' = daemon
      <4>1. CASE u = t
        BY <2>1, <2>8, <4>1 DEF Attach, Waiter
      <4>2. CASE u # t
        BY <2>1, <2>8, <4>2 DEF Attach
      <4> QED BY <4>1, <4>2
    <3> QED BY <2>3, <3>1 DEF Up
  <2>9. ASSUME NEW u \in Tasks, Finalize(u) PROVE Keeps
    <3>1. daemon = "loop" /\ Ended(u) /\ orphan[t] = None /\ waiter[t].run = r
          /\ waiter' = [waiter EXCEPT ![u] = NoWaiter]
      BY <2>1, <2>3, <2>9 DEF Finalize, Phases, Up
    <3>2. u # t
      <4>1. box[r] \in {"starting", "alive"} /\ (waiter[t].kind = "adopting" => box[r] # "starting")
        BY <1>2, <2>1, <3>1 DEF SeenUp, ActiveRuns, Active, Tame, Orderly
      <4> QED BY <3>1, <4>1 DEF Ended, Alive
    <3> QED BY <2>1, <3>1, <3>2
  <2>10. BootDone \/ Attest \/ CloseReview \/ Look \/ DeskCrash
         \/ RequeueCheck \/ RequeueReset \/ RequeueRefile
         \/ (\E u \in Tasks : RequeueFind(u))
         \/ (\E g \in Gates : Resolve(g) \/ ResolveCutShort(g) \/ Retry(g))
         \/ (\E q \in Runs : BoxStep(q) \/ BoxCall(q))
         \/ UNCHANGED vars
         => UNCHANGED <<orphan, waiter>> /\ (Up' => Up)
    BY DEF BootDone, Attest, CloseReview, Look, DeskCrash, RequeueCheck, RequeueReset,
           RequeueRefile, RequeueFind, Resolve, ResolveCutShort, Retry, BoxStep, BoxCall, BoxUp,
           Ceiling, BoxExit, Refuse, Report, FileGate, vars, loop, Up
  <2>11. ASSUME UNCHANGED <<orphan, waiter>>, Up PROVE Keeps
    BY <2>3, <2>11
  <2>12. Keeps
    BY <2>4, <2>5, <2>6, <2>7, <2>8, <2>9, <2>10, <2>11 DEF Next, DaemonStep, DeskStep
  <2> QED BY <2>12 DEF t
<1> QED BY <1>1, <1>2, ActiveMoves

\* As long as the daemon claims, the boxes are no more than its waiters.
LEMMA BoxesAreWaitedFor ==
  ASSUME Books, Held, Tame, daemon = "loop"
  PROVE  IsFiniteSet(ActiveRuns) /\ Cardinality(ActiveRuns) <= Cardinality(Waiting)
<1> DEFINE f == [r \in ActiveRuns |-> taskOf[r]]
<1>1. \A r \in ActiveRuns : taskOf[r] \in Waiting /\ waiter[taskOf[r]].run = r
  <2> SUFFICES ASSUME NEW r \in ActiveRuns PROVE taskOf[r] \in Waiting /\ waiter[taskOf[r]].run = r
    OBVIOUS
  <2>1. r # None /\ taskOf[r] \in Tasks
    BY DispatchAssumption DEF Held, Up, ActiveRuns
  <2>2. waiter[taskOf[r]].run = r
    BY <2>1 DEF Held, Up, Books, Phases
  <2> QED BY <2>1, <2>2 DEF Waiting, NoWaiter
<1>2. f \in Injection(ActiveRuns, Waiting)
  BY <1>1 DEF Injection, IsInjective
<1>3. IsFiniteSet(Waiting)
  BY DEF Books
<1> HIDE DEF f
<1> QED BY <1>2, <1>3, FS_Injection DEF ExistsInjection

LEMMA NextWithinCap ==
  ASSUME Books, Held, WithinCap, [Next]_vars PROVE WithinCap'
<1> SUFFICES ASSUME Tame PROVE (IsFiniteSet(ActiveRuns) /\ Cardinality(ActiveRuns) <= Cap)'
  BY DEF WithinCap, Tame, Orderly, NoRequeue, NoCrash
<1>1. IsFiniteSet(ActiveRuns) /\ Cardinality(ActiveRuns) <= Cap /\ Cap \in Nat
  BY DispatchAssumption DEF WithinCap
<1>2. \A r \in ActiveRuns' : r \in ActiveRuns \/ \E t \in Tasks : Claim(t, r)
  BY ActiveMoves DEF ActiveRuns
<1>3. CASE \A t \in Tasks, r \in Runs : ~ Claim(t, r)
  <2>1. ActiveRuns' \subseteq ActiveRuns
    BY <1>2, <1>3 DEF ActiveRuns
  <2>2. IsFiniteSet(ActiveRuns') /\ Cardinality(ActiveRuns') <= Cardinality(ActiveRuns)
    BY <1>1, <2>1, FS_Subset
  <2>3. Cardinality(ActiveRuns) \in Nat /\ Cardinality(ActiveRuns') \in Nat
    BY <1>1, <2>2, FS_CardinalityType
  <2> QED BY <1>1, <2>2, <2>3
<1>4. ASSUME NEW t \in Tasks, NEW r \in Runs, Claim(t, r)
      PROVE  (IsFiniteSet(ActiveRuns) /\ Cardinality(ActiveRuns) <= Cap)'
  <2>1. daemon = "loop" /\ Cardinality(Waiting) < Cap
    BY <1>4 DEF Claim, MayClaim
  <2>2. Cardinality(ActiveRuns) <= Cardinality(Waiting)
    BY <2>1, BoxesAreWaitedFor
  <2>3. ActiveRuns' \subseteq ActiveRuns \cup {r}
    BY <1>4 DEF Claim, ActiveRuns, Active, Books, TypeOK
  <2>4. /\ IsFiniteSet(ActiveRuns \cup {r})
        /\ Cardinality(ActiveRuns \cup {r}) <= Cardinality(ActiveRuns) + 1
    <3>1. Cardinality(ActiveRuns) \in Nat
      BY <1>1, FS_CardinalityType
    <3> QED BY <1>1, <3>1, FS_AddElement
  <2>5. IsFiniteSet(ActiveRuns') /\ Cardinality(ActiveRuns') <= Cardinality(ActiveRuns \cup {r})
    BY <2>3, <2>4, FS_Subset
  <2>6. /\ Cardinality(ActiveRuns) \in Nat /\ Cardinality(ActiveRuns') \in Nat
        /\ Cardinality(ActiveRuns \cup {r}) \in Nat /\ Cardinality(Waiting) \in Nat
    BY <1>1, <2>4, <2>5, FS_CardinalityType DEF Books
  <2> QED BY <1>1, <2>1, <2>2, <2>4, <2>5, <2>6
<1> QED BY <1>3, <1>4

\* No box of t runs, so nobody files a gate for it.
LEMMA UndecidedStays ==
  ASSUME Books, [Next]_vars, NEW t \in Tasks, Undecided(t) = {},
         \A r \in ActiveRuns : taskOf[r] # t
  PROVE  Undecided(t)' = {}
<1> SUFFICES ASSUME NEW g \in Gates, Owner[g] = t, gate'[g] = "pending" PROVE FALSE
  BY DEF Undecided
<1>1. gate[g] # "pending"
  BY DEF Undecided
<1>2. PICK r \in Runs : FileGate(g, r)
  BY <1>1, GateMoves
<1> QED BY <1>2 DEF FileGate, Alive, ActiveRuns, Active

LEMMA NextDecided ==
  ASSUME Books, Turns, SeenUp, Pinned, Held, Decided, [Next]_vars PROVE Decided'
<1> SUFFICES ASSUME Orderly
             PROVE  /\ \A t \in Tasks : task'[t] = "completed" => Undecided(t)' = {}
                    /\ verdict'.next = "completed" => Undecided(verdict.task)' = {}
                    /\ desk'.step = "finish" => Undecided(Owner[desk.gate])' = {}
  BY DEF Decided, Orderly, NoRequeue, NoCrash
<1>1. Books'
  BY NextBooks
<1>2. /\ \A t \in Tasks : task[t] = "completed" => Undecided(t) = {}
      /\ verdict.next = "completed" => Undecided(verdict.task) = {}
      /\ desk.step = "finish" => Undecided(Owner[desk.gate]) = {}
  BY DEF Decided
<1>3. \A t \in Tasks : task[t] # "claimed" => \A r \in ActiveRuns : taskOf[r] # t
  BY NothingRuns
<1>4. verdict.next # "none" =>
        verdict.task \in Tasks /\ \A r \in ActiveRuns : taskOf[r] # verdict.task
  <2> SUFFICES ASSUME verdict.next # "none"
               PROVE  verdict.task \in Tasks /\ \A r \in ActiveRuns : taskOf[r] # verdict.task
    OBVIOUS
  <2>1. daemon = "attest" /\ verdict.task \in Tasks
    BY DEF Books, Phases, NoVerdict
  <2> QED BY <2>1, NothingRuns DEF Tame
<1>5. desk.step = "finish" =>
        Owner[desk.gate] \in Tasks /\ \A r \in ActiveRuns : taskOf[r] # Owner[desk.gate]
  <2>1. desk.step = "finish" => Owner[desk.gate] \in Tasks /\ task[Owner[desk.gate]] = "needs-review"
    BY DispatchAssumption DEF Books, Hands, Turns, Orderly
  <2> QED BY <1>3, <2>1
<1>6. ASSUME NEW t \in Tasks, task'[t] = "completed" PROVE Undecided(t)' = {}
  <2>1. CASE task[t] = "completed"
    BY <1>2, <1>3, <2>1, UndecidedStays
  <2>2. CASE verdict.task = t /\ task'[t] = verdict.next
    BY <1>2, <1>4, <1>6, <2>2, UndecidedStays
  <2>3. CASE desk.step = "finish" /\ Owner[desk.gate] = t
    BY <1>2, <1>5, <2>3, UndecidedStays
  <2> QED BY <1>6, <2>1, <2>2, <2>3, TaskMoves
<1>7. ASSUME verdict'.next = "completed" PROVE Undecided(verdict.task)' = {}
  <2>1. CASE \E t \in Tasks : Finalize(t)
    <3>1. PICK t \in Tasks : Finalize(t)
      BY <2>1
    <3>2. verdict' = [task |-> t, next |-> Verdict(t)] /\ gate' = gate
      BY <3>1 DEF Finalize
    <3>3. OpenGates(t) = {}
      BY <1>7, <3>2 DEF Verdict
    <3>4. \A g \in Gates : Owner[g] = t => gate'[g] # "pending"
      BY <3>2, <3>3 DEF OpenGates
    <3>5. verdict'.task = t
      BY <3>2
    <3> QED BY <3>4, <3>5 DEF Undecided
  <2>2. CASE verdict' = verdict
    <3>1. Undecided(verdict.task) = {} /\ verdict.task \in Tasks
          /\ \A r \in ActiveRuns : taskOf[r] # verdict.task
      BY <1>2, <1>4, <1>7, <2>2
    <3> DEFINE t == verdict.task
    <3>2. \A g \in Gates : Owner[g] = t => gate'[g] # "pending"
      <4>1. t \in Tasks /\ Undecided(t) = {} /\ \A r \in ActiveRuns : taskOf[r] # t
        BY <3>1
      <4> HIDE DEF t
      <4> QED BY <4>1, UndecidedStays DEF Undecided
    <3> QED BY <2>2, <3>2 DEF Undecided
  <2>3. CASE verdict' = NoVerdict
    BY <1>7, <2>3 DEF NoVerdict
  <2> QED BY <2>1, <2>2, <2>3, VerdictMoves
<1>8. ASSUME desk'.step = "finish" PROVE Undecided(Owner[desk.gate])' = {}
  <2>1. Owner[desk'.gate] \in Tasks
    BY <1>1, <1>8, DispatchAssumption DEF Books, Hands
  <2>2. CASE desk' = desk
    <3> DEFINE t == Owner[desk.gate]
    <3>1. t \in Tasks /\ Undecided(t) = {} /\ \A r \in ActiveRuns : taskOf[r] # t
      BY <1>2, <1>5, <1>8, <2>2
    <3>2. \A g \in Gates : Owner[g] = t => gate'[g] # "pending"
      <4> HIDE DEF t
      <4> QED BY <3>1, UndecidedStays DEF Undecided
    <3> QED BY <2>2, <3>2 DEF Undecided
  <2>3. CASE desk'.gate = desk.gate /\ MayClose(Owner[desk.gate]) /\ Look
    BY <2>3 DEF MayClose, OpenGates, Look, Undecided
  <2> QED BY <1>8, <2>2, <2>3, DeskMoves
<1> QED BY <1>6, <1>7, <1>8

LEMMA NextOrder == ASSUME Books, Order, [Next]_vars PROVE Order'
<1> USE DEF Order
<1>1. Turns'  BY NextTurns
<1>2. OwnOnly'  BY NextOwnOnly
<1>3. SeenUp'  BY <1>2, NextSeenUp
<1>4. Pinned' /\ Held'  BY NextPinned, NextHeld
<1>5. WithinCap' /\ Decided'  BY NextWithinCap, NextDecided
<1> QED BY <1>1, <1>2, <1>3, <1>4, <1>5

-----------------------------------------------------------------------------
(* Tally is inductive *)

LEMMA InitTally == Init => Tally
<1> SUFFICES ASSUME Init PROVE Tally
  OBVIOUS
<1>1. Waiting = {} /\ ActiveRuns = {}
  BY DEF Init, Waiting, ActiveRuns, Active
<1> QED BY <1>1 DEF Init, Tally, CutRuns, InHand, Outcomes, NoVerdict

LEMMA CutGrows == ASSUME [Next]_vars PROVE cut \subseteq cut'
<1>1. Crash => cut \subseteq cut'
  BY DEF Crash
<1>2. Next /\ ~ Crash => cut' = cut
  BY DEF Next, DaemonStep, DeskStep, BoxStep, BoxCall, Boot, BootDone, Attest, CloseReview, Look, DeskCrash,
         RequeueFind, RequeueCheck, RequeueReset, RequeueRefile, Reclaim, Attach, Finalize, Claim,
         Resolve, ResolveCutShort, Retry, BoxUp, Ceiling, BoxExit, Refuse, Report, FileGate, bounds
<1>3. UNCHANGED vars => cut' = cut
  BY DEF vars, bounds
<1> QED BY <1>1, <1>2, <1>3

\* A run is named by a claim, and only ever forgotten otherwise.
LEMMA RunMoves ==
  ASSUME Books, [Next]_vars, NEW t \in Tasks
  PROVE  run'[t] \in {run[t], None} \/ \E r \in Runs : Claim(t, r)
<1>1. ASSUME Reclaim(t) PROVE run'[t] \in {run[t], None}
  <2>1. CASE UNCHANGED tasks
    BY <2>1 DEF tasks
  <2>2. CASE FinishWith(t, "pending")
    BY <2>2, FinishWithIs DEF Books, TaskState
  <2> QED BY <1>1, <2>1, <2>2 DEF Reclaim
<1> QED BY <1>1, TaskMoves

LEMMA NextCutRuns == ASSUME Books, CutRuns, [Next]_vars PROVE CutRuns'
<1> SUFFICES ASSUME daemon' \in {"down", "boot"}, NEW r \in Runs, Active(r)' PROVE r \in cut'
  BY DEF CutRuns, ActiveRuns
<1>1. CASE Crash
  BY <1>1 DEF Crash, Active, Books, TypeOK
<1>2. ASSUME ~ Crash PROVE daemon \in {"down", "boot"}
  BY <1>2 DEF Next, DaemonStep, DeskStep, BoxStep, BoxCall, Boot, BootDone, Attest, CloseReview, Look, DeskCrash,
         RequeueFind, RequeueCheck, RequeueReset, RequeueRefile, Reclaim, Attach, Finalize, Claim,
         Resolve, ResolveCutShort, Retry, BoxUp, Ceiling, BoxExit, Refuse, Report, FileGate, loop, vars
<1>3. CASE ~ Crash
  <2>1. \A t \in Tasks : ~ Claim(t, r)
    BY <1>2, <1>3 DEF Claim
  <2>2. r \in ActiveRuns
    BY <2>1, ActiveMoves
  <2> QED BY <1>2, <1>3, <2>2, CutGrows DEF CutRuns
<1> QED BY <1>1, <1>3

LEMMA NextInHand ==
  ASSUME Books, CutRuns, [Next]_vars, NEW t \in Tasks, InHand(t)
  PROVE  InHand(t)'
<1> USE DEF Books, TypeOK
<1>1. /\ orphan[t] # None => run[t] \in {None, orphan[t]}
      /\ t \in Waiting => /\ run[t] \in {None, waiter[t].run}
                          /\ waiter[t].run \in wasRefused => waiter[t].run \in refused \cup cut
                          /\ waiter[t].kind # "own" => waiter[t].run \in cut
  BY DEF InHand
<1>2. cut \subseteq cut'
  BY CutGrows
<1> DEFINE Waited == /\ run'[t] \in {None, waiter'[t].run}
                     /\ waiter'[t].run \in wasRefused' => waiter'[t].run \in refused' \cup cut'
                     /\ waiter'[t].kind # "own" => waiter'[t].run \in cut'
           Kept == /\ orphan'[t] # None => run'[t] \in {None, orphan'[t]}
                   /\ waiter'[t] # NoWaiter => Waited
<1> SUFFICES Kept
  BY DEF InHand, Waiting
\* Nobody but a claim names a run, so what is in hand only has to stay so.
<1>3. ASSUME \A r \in Runs : ~ Claim(t, r), orphan'[t] \in {orphan[t], None}
      PROVE  orphan'[t] # None => run'[t] \in {None, orphan'[t]}
  BY <1>1, <1>3, RunMoves
<1>4. ASSUME \A r \in Runs : ~ Claim(t, r), waiter'[t].run = waiter[t].run, t \in Waiting,
             waiter[t].kind = "own" => waiter'[t].kind = "own" \/ waiter[t].run \in cut',
             waiter[t].run \in wasRefused' => waiter[t].run \in wasRefused \/ waiter[t].run \in refused',
             waiter[t].run \in refused => waiter[t].run \in refused' \/ waiter[t].run \in cut'
      PROVE  Waited
  <2>1. run'[t] \in {run[t], None}
    BY <1>4, RunMoves
  <2> QED BY <1>1, <1>2, <1>4, <2>1
<1>5. CASE \E u \in Tasks, r \in Runs : Claim(u, r)
  <2>1. PICK u \in Tasks, r \in Runs : Claim(u, r)
    BY <1>5
  <2>2. CASE u = t
    <3>1. /\ waiter'[t] = [run |-> r, kind |-> "own"] /\ run'[t] = r /\ orphan' = orphan /\ daemon = "loop"
          /\ wasRefused' = wasRefused /\ taskOf[r] = None
      BY <2>1, <2>2 DEF Claim
    <3>2. orphan[t] = None /\ r \notin wasRefused
      BY <3>1 DEF Phases, FreshRuns
    <3> QED BY <3>1, <3>2
  <2>3. CASE u # t
    <3>1. waiter'[t] = waiter[t] /\ run'[t] = run[t] /\ UNCHANGED <<refused, wasRefused, orphan>>
      BY <2>1, <2>3 DEF Claim
    <3> QED BY <1>1, <1>2, <3>1 DEF Waiting
  <2> QED BY <2>2, <2>3
<1>6. ASSUME NEW u \in Tasks, Finalize(u) PROVE Kept
  <2>1. /\ refused' = refused \ {waiter[u].run} /\ waiter' = [waiter EXCEPT ![u] = NoWaiter]
        /\ UNCHANGED <<wasRefused, run, orphan>> /\ waiter[u] # NoWaiter
    BY <1>6 DEF Finalize, tasks, Ended, NoWaiter
  <2>2. ASSUME waiter'[t] # NoWaiter PROVE Waited
    <3>1. t # u /\ waiter'[t] = waiter[t] /\ t \in Waiting
      BY <2>1, <2>2 DEF Waiting
    <3>2. waiter[t].run # waiter[u].run
      BY <2>1, <3>1 DEF RunsAreNamed, Waiting
    <3> QED BY <1>1, <1>2, <2>1, <3>1, <3>2
  <2> QED BY <1>1, <2>1, <2>2
<1>7. ASSUME NEW q \in Runs, Refuse(q) PROVE Kept
  <2>1. UNCHANGED <<waiter, run, orphan>> /\ refused' = refused \cup {q} /\ wasRefused' = wasRefused \cup {q}
    BY <1>7 DEF Refuse, loop, tasks
  <2> QED BY <1>1, <1>2, <2>1 DEF Waiting
<1>8. CASE Crash
  <2>1. orphan'[t] = None /\ waiter'[t] = NoWaiter
    BY <1>8 DEF Crash
  <2> QED BY <2>1
<1>9. CASE Boot
  <2>1. /\ orphan'[t] = IF task[t] = "claimed" THEN run[t] ELSE None
        /\ UNCHANGED <<run, waiter>> /\ Waiting = {}
    BY <1>9 DEF Boot, tasks, Phases
  <2> QED BY <2>1 DEF Waiting
<1>10. ASSUME NEW u \in Tasks, Reclaim(u) PROVE Kept
  <2>1. /\ daemon = "boot" /\ UNCHANGED <<refused, wasRefused>> /\ orphan' = [orphan EXCEPT ![u] = None]
        /\ \A r \in Runs : ~ Claim(t, r)
    BY <1>10 DEF Reclaim, Claim, boxes
  <2>2. CASE waiter'[t] = waiter[t]
    BY <1>3, <1>4, <2>1, <2>2 DEF Waiting
  <2>3. CASE waiter'[t] # waiter[t]
    <3>1. u = t /\ Alive(orphan[t]) /\ waiter' = Adopting(t) /\ UNCHANGED tasks
      BY <1>10, <2>3 DEF Reclaim, Adopting
    <3>2. waiter'[t] = [run |-> orphan[t], kind |-> "adopting"] /\ run'[t] = run[t] /\ orphan[t] \in Runs
      BY <1>10, <3>1 DEF Adopting, tasks, Reclaim
    <3>3. orphan[t] \in cut'
      BY <1>2, <2>1, <3>1, <3>2 DEF CutRuns, ActiveRuns, Active, Alive
    <3>4. orphan'[t] = None /\ run[t] \in {None, orphan[t]}
      BY <1>1, <1>10, <2>1, <3>1 DEF Reclaim
    <3> QED BY <3>2, <3>3, <3>4
  <2> QED BY <2>2, <2>3
<1>11. ASSUME NEW u \in Tasks, Attach(u) PROVE Kept
  <2>1. /\ UNCHANGED <<refused, wasRefused, orphan>> /\ \A r \in Runs : ~ Claim(t, r)
        /\ waiter[u].kind = "adopting" /\ waiter' = [waiter EXCEPT ![u].kind = "attached"]
    BY <1>11 DEF Attach, Claim, boxes, tasks
  <2>2. waiter'[t].run = waiter[t].run /\ (waiter[t].kind = "own" => waiter'[t].kind = "own")
    BY <2>1
  <2>3. waiter'[t] # NoWaiter => t \in Waiting
    BY <2>1 DEF Waiting, NoWaiter
  <2> QED BY <1>3, <1>4, <2>1, <2>2, <2>3
<1>12. ASSUME UNCHANGED <<waiter, refused, wasRefused>>, orphan' = orphan, \A r \in Runs : ~ Claim(t, r)
       PROVE  Kept
  BY <1>3, <1>4, <1>12 DEF Waiting
<1>13. BootDone \/ Attest \/ CloseReview \/ Look \/ DeskCrash
      \/ RequeueCheck \/ RequeueReset \/ RequeueRefile
      \/ (\E u \in Tasks : RequeueFind(u))
      \/ (\E g \in Gates : Resolve(g) \/ ResolveCutShort(g) \/ Retry(g))
      \/ (\E q \in Runs : \/ BoxStep(q) \/ BoxExit(q)
                         \/ \E s \in {"completed", "failed"} : Report(q, s)
                         \/ \E g \in Gates : FileGate(g, q))
      \/ UNCHANGED vars
      => UNCHANGED <<waiter, refused, wasRefused, orphan>>
  BY DEF BootDone, Attest, CloseReview, Look, DeskCrash, RequeueCheck, RequeueReset,
         RequeueRefile, RequeueFind, Resolve, ResolveCutShort, Retry, BoxStep, BoxUp,
         Ceiling, BoxExit, Report, FileGate, vars, loop, boxes
<1> QED BY <1>5, <1>6, <1>7, <1>8, <1>9, <1>10, <1>11, <1>12, <1>13 DEF Next, DaemonStep, DeskStep, BoxCall

LEMMA SpokeStays ==
  ASSUME Books, [Next]_vars, NEW t \in Tasks, Gated(t) \/ Spoke(t) PROVE (Gated(t) \/ Spoke(t))'
<1>1. CASE Gated(t)
  BY <1>1, GateMoves DEF Gated
<1>2. CASE Spoke(t)
  <2>1. PICK r \in Runs : taskOf[r] = t /\ box[r] = "ok" /\ Clear(r)
    BY <1>2 DEF Spoke, RunsOf
  <2>2. /\ box'[r] = box[r] /\ taskOf'[r] = taskOf[r] /\ report'[r] = report[r]
        /\ r \in wasRefused' => r \in wasRefused
    BY <2>1, EndedStays
  <2> QED BY <2>1, <2>2, CutGrows DEF Spoke, RunsOf, Clear
<1> QED BY <1>1, <1>2

LEMMA UnsuccessfulStays ==
  ASSUME Books, [Next]_vars, NEW t \in Tasks, Unsuccessful(t), run'[t] \in {run[t], None}
  PROVE  Unsuccessful(t)'
<1> SUFFICES ASSUME run'[t] # None, run'[t] \notin cut'
             PROVE  /\ box'[run'[t]] \notin {"starting", "alive"}
                    /\ ~ (box'[run'[t]] = "ok" /\ report'[run'[t]] = "completed")
  BY DEF Unsuccessful
<1> DEFINE r == run[t]
<1>1. r \in Runs /\ run'[t] = r /\ taskOf[r] = t /\ r \notin cut
  BY CutGrows DEF Books, TypeOK, RunsAreNamed
<1>2. /\ box[r] \notin {"starting", "alive"} /\ ~ (box[r] = "ok" /\ report[r] = "completed")
  BY <1>1 DEF Unsuccessful
<1>3. box[r] \notin {"none", "starting", "alive"}
  BY <1>1, <1>2, DispatchAssumption DEF Books, FreshRuns
<1>4. box'[r] = box[r] /\ report'[r] = report[r]
  <2> HIDE DEF r
  <2> QED BY <1>1, <1>3, EndedStays
<1> QED BY <1>1, <1>2, <1>3, <1>4

LEMMA NextOutcomes == ASSUME Books, \A t \in Tasks : InHand(t), Outcomes, [Next]_vars PROVE Outcomes'
<1>1. /\ \A t \in Tasks : task[t] = "completed" => Gated(t) \/ Spoke(t)
      /\ \A t \in Tasks : task[t] = "failed" => Unsuccessful(t)
      /\ verdict.next = "completed" => Gated(verdict.task) \/ Spoke(verdict.task)
      /\ verdict.next = "failed" => Unsuccessful(verdict.task)
  BY DEF Outcomes
<1>2. verdict.next # "none" => verdict.task \in Tasks /\ daemon = "attest"
  BY DEF Books, Phases, NoVerdict
<1>4. ASSUME NEW t \in Tasks, task'[t] = "completed" PROVE (Gated(t) \/ Spoke(t))'
  <2>1. CASE task[t] = "completed" \/ (verdict.task = t /\ verdict.next = "completed")
    BY <1>1, <2>1, SpokeStays
  <2>2. CASE desk.step = "finish" /\ Owner[desk.gate] = t
    <3>1. Gated(t)
      BY <2>2 DEF Gated, Books, Hands
    <3> QED BY <3>1, SpokeStays
  <2> QED BY <1>4, <2>1, <2>2, TaskMoves
<1>5. ASSUME NEW t \in Tasks, task'[t] = "failed" PROVE Unsuccessful(t)'
  <2>1. /\ run'[t] = run[t]
        /\ task[t] = "failed" \/ (verdict.task = t /\ verdict.next = "failed")
    BY <1>5, TaskMoves
  <2> QED BY <1>1, <2>1, UnsuccessfulStays
<1>6. ASSUME NEW t \in Tasks, Finalize(t)
      PROVE  /\ verdict' = [task |-> t, next |-> Verdict(t)]
             /\ Verdict(t) = "completed" => Spoke(t)
             /\ Verdict(t) = "failed" => Unsuccessful(t)
             /\ UNCHANGED <<gate, box, taskOf, report, wasRefused, run, cut>>
  <2> DEFINE r == waiter[t].run
  <2>1. Ended(t) /\ waiter[t].kind # "none" /\ t \in Waiting
    BY <1>6 DEF Finalize, Ended, Waiting, NoWaiter
  <2>2. /\ r \in Runs /\ taskOf[r] = t
        /\ r \in wasRefused => r \in refused \cup cut
        /\ run[t] \in {None, r}
        /\ waiter[t].kind # "own" => r \in cut
    BY <2>1 DEF Books, RunsAreNamed, Waiting, InHand
  <2>3. /\ report[r] \in {"none", "completed", "failed"}
        /\ waiter[t].kind = "own" => box[r] \in {"ok", "bad", "ceiling", "error"}
    BY <2>1, <2>2 DEF Books, TypeOK, Ended
  <2>4. /\ HostFailed(t) <=> waiter[t].kind = "adopting" \/ box[r] # "ok"
        /\ Blocked(t) <=> r \in refused
    BY DEF HostFailed, Blocked
  <2>5. Verdict(t) = IF HostFailed(t) THEN "failed"
                     ELSE IF OpenGates(t) # {} THEN "needs-review"
                     ELSE IF report[r] # "none" THEN report[r]
                     ELSE IF Blocked(t) THEN "failed" ELSE "completed"
    BY DEF Verdict
  <2> HIDE DEF r
  <2>6. ASSUME Verdict(t) = "completed" PROVE Spoke(t)
    <3>1. box[r] = "ok" /\ Clear(r)
      BY <2>2, <2>3, <2>4, <2>5, <2>6 DEF Clear
    <3> QED BY <2>2, <3>1 DEF Spoke, RunsOf
  <2>7. ASSUME Verdict(t) = "failed" PROVE Unsuccessful(t)
    <3>1. r \in cut \/ ~ (box[r] = "ok" /\ report[r] = "completed")
      BY <2>2, <2>4, <2>5, <2>7
    <3> QED BY <2>2, <2>3, <3>1 DEF Unsuccessful
  <2> QED BY <1>6, <2>6, <2>7 DEF Finalize, tasks, bounds
<1>7. ASSUME verdict'.next = "completed" PROVE (Gated(verdict.task) \/ Spoke(verdict.task))'
  <2>1. CASE \E t \in Tasks : Finalize(t)
    <3>1. PICK t \in Tasks : Finalize(t)
      BY <2>1
    <3>2. /\ verdict'.task = t /\ Spoke(t)
          /\ UNCHANGED <<gate, box, taskOf, report, wasRefused, run, cut>>
      BY <1>6, <1>7, <3>1
    <3> QED BY <3>2 DEF Spoke, RunsOf, Clear
  <2>2. CASE verdict' = verdict
    <3> DEFINE t == verdict.task
    <3>1. t \in Tasks /\ (Gated(t) \/ Spoke(t))
      BY <1>1, <1>2, <1>7, <2>2
    <3>2. (Gated(t) \/ Spoke(t))'
      BY <3>1, <2>2, SpokeStays DEF Gated, Spoke, RunsOf
    <3> QED BY <3>2
  <2> QED BY <1>7, <2>1, <2>2, VerdictMoves DEF NoVerdict
<1>8. ASSUME verdict'.next = "failed" PROVE Unsuccessful(verdict.task)'
  <2>1. CASE \E t \in Tasks : Finalize(t)
    BY <1>6, <1>8, <2>1 DEF Unsuccessful
  <2>2. CASE verdict' = verdict
    <3> DEFINE t == verdict.task
    <3>1. t \in Tasks /\ Unsuccessful(t) /\ daemon = "attest"
      BY <1>1, <1>2, <1>8, <2>2
    <3>2. \A r \in Runs : ~ Claim(t, r)
      BY <3>1 DEF Claim
    <3>3. run'[t] \in {run[t], None}
      <4>1. ~ Reclaim(t)
        BY <3>1 DEF Reclaim
      <4> HIDE DEF t
      <4> QED BY <3>1, <3>2, <4>1, TaskMoves
    <3>4. Unsuccessful(t)'
      BY <2>2, <3>1, <3>3, UnsuccessfulStays DEF Unsuccessful
    <3> QED BY <2>2, <3>4 DEF Unsuccessful
  <2> QED BY <1>8, <2>1, <2>2, VerdictMoves DEF NoVerdict
<1> QED BY <1>4, <1>5, <1>7, <1>8 DEF Outcomes

LEMMA NextTally == ASSUME Books, Tally, [Next]_vars PROVE Tally'
BY NextCutRuns, NextInHand, NextOutcomes DEF Tally

LEMMA Invariant == Spec => []IInv
<1>1. Init => IInv
  BY InitBooks, InitEvidence, InitOrder, InitTally DEF IInv
<1>2. IInv /\ [Next]_vars => IInv'
  BY NextBooks, NextEvidence, NextOrder, NextTally DEF IInv, Order
<1> QED BY <1>1, <1>2, PTL DEF Spec

-----------------------------------------------------------------------------
(* The theorems *)

\* docs/work.md:61, "Every state change is host-attested": a task completes only
\* on a box that exited with code 0, whatever crashed and whoever requeued.
THEOREM CompletionHasEvidence == Spec => []CompletedHasEvidence
<1>1. IInv => CompletedHasEvidence
  BY DEF IInv, Evidence, Proven, CompletedHasEvidence
<1> QED BY <1>1, Invariant, PTL

\* No task is wedged in claimed: a daemon that is up waits for its box, has its
\* outcome, or has it still to reclaim, through any crashes and requeues.
THEOREM ClaimsAreTracked == Spec => []ClaimedIsTracked
<1>1. IInv => ClaimedIsTracked
  BY DEF IInv, Books
<1> QED BY <1>1, Invariant, PTL

\* docs/work.md:70: the slots are what runs, across restarts, unless an operator
\* requeues past one or docker starts a box behind one.
THEOREM SlotsTracked == ASSUME Tame PROVE Spec => []SlotsAreTracked
<1>1. IInv => SlotsAreTracked
  <2>1. ActiveRuns = {r \in Runs : box[r] \in {"starting", "alive"}}
    BY DEF ActiveRuns, Active
  <2> QED BY <2>1 DEF IInv, Books, Order, WithinCap, SlotsAreTracked, BoxesWithinCap
<1> QED BY <1>1, Invariant, PTL

\* Neither a requeue, with a daemon that stays up, nor a restart, with no
\* requeue, makes two boxes of one task run side by side.
THEOREM BoxesAreSingle == ASSUME Tame PROVE Spec => []OneBoxPerTask
<1>1. IInv => OneBoxPerTask
  <2> SUFFICES ASSUME IInv, NEW q \in ActiveRuns, NEW r \in ActiveRuns, taskOf[q] = taskOf[r]
               PROVE  q = r
    BY DEF OneBoxPerTask, ActiveRuns, Active
  <2>1. q \in Runs /\ r \in Runs /\ q # None /\ r # None
    BY DispatchAssumption DEF ActiveRuns
  <2>2. CASE Up
    <3> DEFINE t == taskOf[r]
    <3>1. /\ t \in Tasks
          /\ waiter[t].run = r \/ orphan[t] = r
          /\ waiter[t].run = q \/ orphan[t] = q
      BY <2>2 DEF IInv, Order, Held
    <3> HIDE DEF t
    <3>2. orphan[t] # None => waiter[t].run = None
      BY <3>1 DEF IInv, Books, Phases, Waiting, NoWaiter
    <3> QED BY <2>1, <3>1, <3>2
  <2>3. CASE ~ Up
    <3>1. NoCrash => ActiveRuns = {}
      BY <2>3 DEF IInv, Order, OwnOnly, Up
    <3>2. Orderly => run[taskOf[r]] = r /\ run[taskOf[q]] = q
      BY DEF IInv, Order, Pinned
    <3> QED BY <3>1, <3>2 DEF Tame
  <2> QED BY <2>2, <2>3
<1> QED BY <1>1, Invariant, PTL

\* A task completes by the evidence and by its gates: with nobody requeueing,
\* none of its gates still waits for a decision.
THEOREM CompletionsAreEarned == ASSUME Orderly PROVE Spec => []CompletionIsEarned
<1>1. IInv => CompletionIsEarned
  BY DEF IInv, Evidence, Proven, CompletedHasEvidence, Order, Decided, Undecided,
         CompletionIsEarned, NoCompletionWithOpenGate
<1> QED BY <1>1, Invariant, PTL

\* dispatch.rs:269-322: the report and the refusals decide, through any crashes and
\* requeues; a crash puts in doubt the outcomes of the runs it cut short, no other.
THEOREM RefusalsAreDecisive == Spec => []RefusalsDecide
<1>1. IInv => RefusalsDecide
  <2> SUFFICES ASSUME IInv PROVE BlockedNoopNeverCompletes /\ SuccessIsNotFailed
    BY DEF RefusalsDecide
  <2>1. BlockedNoopNeverCompletes
    BY DEF IInv, Tally, Outcomes, Gated, Spoke, Clear, BlockedNoopNeverCompletes
  <2>2. SuccessIsNotFailed
    BY DEF IInv, Tally, Outcomes, Unsuccessful, SuccessIsNotFailed
  <2> QED BY <2>1, <2>2
<1> QED BY <1>1, Invariant, PTL

\* The state machine of docs/work.md:45: with nobody requeueing, every step of
\* every process is one of its transitions or none.
THEOREM DispatchFollowsLifecycle == ASSUME NoRequeue PROVE Spec => FollowsLifecycle
<1>1. Init => Lifecycle!Init
  BY DEF Init, Lifecycle!Init
<1>2. ASSUME IInv, [Next]_vars PROVE [Lifecycle!Next]_task
  <2> USE DEF IInv, Books, Order
  <2>1. /\ cli.step = "idle"
        /\ \A t \in Tasks : orphan[t] # None \/ verdict.task = t => task[t] = "claimed"
        /\ desk.step = "finish" => task[Owner[desk.gate]] = "needs-review"
    BY <1>2 DEF Turns, IdleCli
  <2>2. ASSUME NEW t \in Tasks, NEW r \in Runs, Claim(t, r) PROVE Lifecycle!Claim(t)
    BY <2>2 DEF Claim, Lifecycle!Claim, Lifecycle!Move
  <2>3. \A t \in Tasks, next \in TaskState :
          FinishWith(t, next) => task' = task \/ task' = [task EXCEPT ![t] = next]
    BY DEF FinishWith, tasks
  <2>4. ASSUME NEW t \in Tasks, Reclaim(t) PROVE Lifecycle!Reclaim(t) \/ task' = task
    <3>1. task[t] = "claimed" /\ "pending" \in TaskState
      BY <2>1, <2>4 DEF Reclaim, TaskState
    <3>2. task' = task \/ task' = [task EXCEPT ![t] = "pending"]
      BY <2>3, <2>4, <3>1 DEF Reclaim, tasks
    <3> QED BY <3>1, <3>2 DEF Lifecycle!Reclaim, Lifecycle!Move
  <2>5. ASSUME Attest PROVE (\E t \in Tasks : Lifecycle!Attest(t)) \/ task' = task
    <3>1. /\ verdict.task \in Tasks /\ verdict.next \in {"completed", "failed", "needs-review"}
          /\ task[verdict.task] = "claimed" /\ verdict.next \in TaskState
      BY <1>2, <2>1, <2>5 DEF Attest, Phases, TaskState
    <3>2. task' = task \/ task' = [task EXCEPT ![verdict.task] = verdict.next]
      BY <2>3, <2>5, <3>1 DEF Attest
    <3> QED BY <3>1, <3>2 DEF Lifecycle!Attest, Lifecycle!Move
  <2>6. ASSUME CloseReview PROVE (\E t \in Tasks : Lifecycle!CloseReview(t)) \/ task' = task
    <3>1. /\ Owner[desk.gate] \in Tasks /\ task[Owner[desk.gate]] = "needs-review"
          /\ "completed" \in TaskState
      BY <1>2, <2>1, <2>6, DispatchAssumption DEF CloseReview, Hands, TaskState
    <3>2. task' = task \/ task' = [task EXCEPT ![Owner[desk.gate]] = "completed"]
      BY <2>3, <2>6, <3>1 DEF CloseReview
    <3> QED BY <3>1, <3>2 DEF Lifecycle!CloseReview, Lifecycle!Move
  <2>7. RequeueReset \/ RequeueRefile => FALSE
    BY <2>1 DEF RequeueReset, RequeueRefile
  <2>8. Boot \/ BootDone \/ Crash \/ Look \/ DeskCrash \/ RequeueCheck
        \/ (\E u \in Tasks : Attach(u) \/ Finalize(u) \/ RequeueFind(u))
        \/ (\E g \in Gates : Resolve(g) \/ ResolveCutShort(g) \/ Retry(g))
        \/ (\E r \in Runs : BoxStep(r) \/ BoxCall(r))
        \/ UNCHANGED vars
        => UNCHANGED task
    BY DEF Boot, BootDone, Crash, Look, DeskCrash, RequeueCheck, Attach, Finalize, RequeueFind,
           Resolve, ResolveCutShort, Retry, BoxStep, BoxCall, BoxUp, Ceiling, BoxExit, Refuse,
           Report, FileGate, vars, tasks
  <2> QED BY <1>2, <2>2, <2>4, <2>5, <2>6, <2>7, <2>8
          DEF Next, DaemonStep, DeskStep, Lifecycle!Next
<1> QED BY <1>1, <1>2, Invariant, PTL DEF Spec, FollowsLifecycle, Lifecycle!Spec
=============================================================================
