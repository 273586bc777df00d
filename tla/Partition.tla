----------------------------- MODULE Partition -----------------------------
(***************************************************************************)
(* The documents of the task management system, src/work/tms.rs: what each *)
(* locked read-modify-write makes of one worker's partition (tasks.json)   *)
(* and of its journal.  No state here: Tms.tla drives these operators and  *)
(* AcyclicCheck.tla compares one with the code's own algorithm.            *)
(*                                                                         *)
(* A partition maps every task id to a record; the ids it does not hold    *)
(* map to Blank.  Of a task the scheduler's fields are kept: its state,    *)
(* its dependency edges, its standing and its scheduled time.  Recurring   *)
(* templates are the subject of Recurrence.tla.  The journal is kept as    *)
(* its newest record per id, which is all that journal_find reads.         *)
(***************************************************************************)
EXTENDS Naturals

CONSTANTS
  Tasks,          \* task ids
  Times           \* the scheduled_at values and the clock's readings

ASSUME PartitionAssumption == Times \subseteq Nat /\ 0 \in Times

LiveState == {"pending", "claimed", "needs-review"}
Outcome == {"completed", "failed"}
Standing == {"owner", "proactive"}

Record == [state: {"absent"} \cup LiveState \cup Outcome,
           deps: SUBSET Tasks, standing: Standing, at: Times]
Doc == [Tasks -> {r \in Record : r.state \notin Outcome}]
Journal == [Tasks -> {r \in Record : r.state \in {"absent", "pending"} \cup Outcome}]

Blank == [state |-> "absent", deps |-> {}, standing |-> "owner", at |-> 0]
Empty == [t \in Tasks |-> Blank]

Live(doc) == {t \in Tasks : doc[t].state # "absent"}
InFlight(doc) == {t \in Tasks : doc[t].state \in {"claimed", "needs-review"}}

(* check_acyclic: no live tasks that all wait on one another.  (The code
   searches depth-first; AcyclicCheck.tla compares the two.)  Edges to ids that
   are not live are allowed.                                                  *)
Acyclic(doc) ==
  ~ \E S \in SUBSET Live(doc) : S # {} /\ \A t \in S : doc[t].deps \cap S # {}


(* claimable: pending, its time come, and no edge left, be it to a live task
   or to one that failed, was canceled, or completed before the edge was made. *)
Claimable(doc, now) ==
  {t \in Tasks : /\ doc[t].state = "pending"
                 /\ doc[t].at <= now
                 /\ doc[t].deps = {}}

-----------------------------------------------------------------------------
(* add *)

Added(doc, t, standing, at) ==
  [doc EXCEPT ![t] = [state |-> "pending", deps |-> {}, standing |-> standing,
                      at |-> at]]

-----------------------------------------------------------------------------
(* set_tasks *)

\* Mutant: an untrusted room may upgrade what it did not file itself.
StampedNewOnly(doc, next, trusted) ==
  [t \in Tasks |->
     IF ~trusted /\ next[t].standing = "owner" /\ doc[t].state = "absent"
     THEN [next[t] EXCEPT !.standing = "proactive"] ELSE next[t]]

\* Standing follows the room: owner on a new or upgraded entry needs a trusted
\* one.
Stamped(doc, next, trusted) ==
  [t \in Tasks |->
     IF /\ ~trusted
        /\ next[t].state # "absent" /\ next[t].standing = "owner"
        /\ ~(doc[t].state # "absent" /\ doc[t].standing = "owner")
     THEN [next[t] EXCEPT !.standing = "proactive"]
     ELSE next[t]]

\* Mutant: the graph is not checked.
AcceptableCyclic(doc, next) ==
  /\ \A t \in InFlight(doc) : next[t] = doc[t]
  /\ \A t \in Live(next) \ InFlight(doc) : next[t].state = "pending"

(* What set_tasks accepts once the version matched: in-flight entries
   unchanged, every other entry pending, and no cycle.                        *)
Acceptable(doc, next) ==
  /\ \A t \in InFlight(doc) : next[t] = doc[t]
  /\ \A t \in Live(next) \ InFlight(doc) : next[t].state = "pending"
  /\ Acyclic(next)

\* What the curation dropped is journaled as it stood, that is, as pending.
Canceled(doc, next, journal) ==
  [t \in Tasks |->
     IF doc[t].state = "pending" /\ next[t].state = "absent"
     THEN doc[t] ELSE journal[t]]

-----------------------------------------------------------------------------
(* claim, finish_with *)

Claimed(doc, t) == [doc EXCEPT ![t].state = "claimed"]

\* Mutant: failure releases the dependents too.
FinishedAnyhow(doc, t, outcome) ==
  IF outcome \notin Outcome
  THEN [doc EXCEPT ![t].state = outcome]
  ELSE [u \in Tasks |->
          IF u = t THEN Blank ELSE [doc[u] EXCEPT !.deps = @ \ {t}]]

\* A terminal task leaves the document; completion takes its edges along.
Finished(doc, t, outcome) ==
  IF outcome \notin Outcome
  THEN [doc EXCEPT ![t].state = outcome]
  ELSE [u \in Tasks |->
          IF u = t THEN Blank
          ELSE IF outcome = "completed" THEN [doc[u] EXCEPT !.deps = @ \ {t}]
          ELSE doc[u]]

Journaled(doc, t, outcome, journal) ==
  IF outcome \in Outcome
  THEN [journal EXCEPT ![t] = [doc[t] EXCEPT !.state = outcome]]
  ELSE journal

-----------------------------------------------------------------------------
(* requeue *)

\* Task::live: a record whose state is one of a live task.
IsLive(record) == record.state \in LiveState

\* find: the live document first, then the newest journal record.
Find(doc, journal, t) == IF t \in Live(doc) THEN doc[t] ELSE journal[t]

\* A journaled task goes back as it was recorded, old edges included.
Refiled(doc, t, record) == [doc EXCEPT ![t] = [record EXCEPT !.state = "pending"]]
=============================================================================
