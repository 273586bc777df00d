-------------------------------- MODULE Tms --------------------------------
(***************************************************************************)
(* One worker's partition and journal under everybody who writes them:     *)
(* src/work/tms.rs.                                                        *)
(*                                                                         *)
(* The writers are the dispatch loop (due, then claim for each task it was *)
(* handed, then finish), the approval desk (finish of a task in review),   *)
(* the operator (add, requeue) and the worker's own agent, who reads the   *)
(* rendered view, thinks, and writes the partition back with set_tasks.    *)
(* Every write is one read-modify-write under the worker's lock, and one   *)
(* step here; what is read outside it -- the agent's base, the dispatch    *)
(* loop's due list, the record `requeue` found -- is a variable and may be *)
(* stale.  finish_with and set_tasks append to the journal before they     *)
(* save the document: a crash (or a failing save) between the two is a     *)
(* step of its own.                                                        *)
(***************************************************************************)
EXTENDS Partition

CONSTANTS
  Edits,          \* the entries the agent may write, [state, deps, ...] records
  MaxVersion,     \* bound: writes of the document
  MaxRequeues,    \* bound: `requeue` commands
  MaxCrashes      \* bound: crashes between a journal append and the save

ASSUME TmsAssumption == /\ Edits \subseteq Record
                        /\ MaxVersion \in Nat
                        /\ MaxRequeues \in Nat
                        /\ MaxCrashes \in Nat

VARIABLES
  doc,            \* tasks.json
  version,        \* its version
  journal,        \* the newest journal record of every id
  clock,          \* now
  due,            \* what the last due() handed the dispatch loop
  base,           \* [version, doc] the agent read from its view
  found,          \* [task, record] the requeue command under way found
  requeues,       \* requeue commands so far
  crashes,        \* crashes so far
  granted,        \* history: ids an operator or a trusted room made owner
  waits,          \* history: [Tasks -> SUBSET Tasks], the edges last given to t
  done            \* history: ids once attested completed

bounds == <<requeues, crashes>>
history == <<granted, waits, done>>
vars == <<doc, version, journal, clock, due, base, found, bounds, history>>

NoCommand == [task |-> {}, record |-> Blank]

Init == /\ doc = Empty
        /\ version = 0
        /\ journal = Empty
        /\ clock = 0
        /\ due = {}
        /\ base = [version |-> 0, doc |-> Empty]
        /\ found = NoCommand
        /\ requeues = 0
        /\ crashes = 0
        /\ granted = {}
        /\ waits = [t \in Tasks |-> {}]
        /\ done = {}

\* save: the whole document, one version on.
Save(next) == /\ version < MaxVersion
              /\ doc' = next
              /\ version' = version + 1

(* The operator, a relay or the file_task action adds a task under a fresh id.
   None of them names dependencies, so the cycle check can only trip over a
   cycle that was there before.                                               *)
Add(t, standing, at) ==
  /\ t \notin Live(doc) /\ journal[t] = Blank
  /\ \A u \in Tasks : t \notin doc[u].deps
  /\ Acyclic(Added(doc, t, standing, at))
  /\ Save(Added(doc, t, standing, at))
  /\ granted' = IF standing = "owner" THEN granted \cup {t} ELSE granted
  /\ waits' = [waits EXCEPT ![t] = {}]
  /\ UNCHANGED <<journal, clock, due, base, found, bounds, done>>

\* The agent reads its view, which save renders after every write.
ReadView ==
  /\ base' = [version |-> version, doc |-> doc]
  /\ UNCHANGED <<doc, version, journal, clock, due, found, bounds, history>>

\* Mutant: the version is not compared.
CurrentAnyway(v) == v \in Nat

Current(v) == v = version

\* The agent's reshaped document: its base with the entry of t replaced by x,
\* canceled when x is Blank.
Proposal(t, x) == [base.doc EXCEPT ![t] = x]

(* set_tasks from a trusted or an untrusted room.  A rejection writes nothing.
   The document is the stamped proposal; a crash before the save leaves only
   the journal records of what was to be dropped.                             *)
Curate(t, x, trusted) ==
  /\ Current(base.version)
  /\ LET next == Stamped(doc, Proposal(t, x), trusted) IN
       /\ Acceptable(doc, next)
       /\ Save(next)
       /\ journal' = Canceled(doc, next, journal)
       /\ granted' = IF trusted /\ x.standing = "owner" /\ x.state # "absent"
                     THEN granted \cup {t} ELSE granted
  /\ waits' = [waits EXCEPT ![t] = x.deps]
  /\ UNCHANGED <<clock, due, base, found, bounds, done>>

\* due, under the lock: the claimable set is handed to the dispatch loop.
Due ==
  /\ due' = Claimable(doc, clock)
  /\ UNCHANGED <<doc, version, journal, clock, base, found, bounds, history>>

\* claim, under the lock again: only the state is checked a second time.
Claim(t) ==
  /\ t \in due
  /\ doc[t].state = "pending"
  /\ Save(Claimed(doc, t))
  /\ due' = due \ {t}
  /\ UNCHANGED <<journal, clock, base, found, bounds, history>>

\* Whoever attests: the dispatch loop a task it claimed, the approval desk the
\* completion of one in review.  (Dispatch.tla has their races.)
Attests(t, outcome) ==
  \/ doc[t].state = "claimed" /\ outcome \in Outcome \cup {"needs-review"}
  \/ doc[t].state = "needs-review" /\ outcome = "completed"

Finish(t, outcome) ==
  /\ Attests(t, outcome)
  /\ journal' = Journaled(doc, t, outcome, journal)
  /\ Save(Finished(doc, t, outcome))
  /\ done' = IF outcome = "completed" THEN done \cup {t} ELSE done
  /\ UNCHANGED <<clock, due, base, found, bounds, granted, waits>>

\* A crash after the journal append and before the save.
CutShort(nextDoc, nextJournal) == journal' = nextJournal /\ UNCHANGED doc

FinishCutShort(t, outcome) ==
  /\ crashes < MaxCrashes
  /\ Attests(t, outcome)
  /\ outcome \in Outcome
  /\ CutShort(Finished(doc, t, outcome), Journaled(doc, t, outcome, journal))
  /\ crashes' = crashes + 1
  /\ UNCHANGED <<version, clock, due, base, found, requeues, history>>

CurateCutShort(t) ==
  /\ crashes < MaxCrashes
  /\ Current(base.version)
  /\ LET next == Proposal(t, Blank) IN
       /\ doc[t].state = "pending" /\ Acceptable(doc, next)
       /\ CutShort(next, Canceled(doc, next, journal))
  /\ crashes' = crashes + 1
  /\ UNCHANGED <<version, clock, due, base, found, requeues, history>>

\* requeue begins by finding the task, without the lock.
RequeueFind(t) ==
  /\ found = NoCommand /\ requeues < MaxRequeues
  /\ Find(doc, journal, t) # Blank
  /\ found' = [task |-> {t}, record |-> Find(doc, journal, t)]
  /\ requeues' = requeues + 1
  /\ UNCHANGED <<doc, version, journal, clock, due, base, crashes, history>>

(* ... and acts on what it found: a journaled task is re-filed unless it is
   already back, a pending one is left alone, and any other goes back to
   pending whatever it has become meanwhile, if it is still live.  (A claimed
   task is refused while its box lives; here its box may always be dead.)     *)
RequeueAct ==
  \E t \in found.task :
    /\ \/ /\ ~IsLive(found.record) /\ t \notin Live(doc)
          /\ Save(Refiled(doc, t, found.record))
          /\ waits' = [waits EXCEPT ![t] = found.record.deps]
       \/ /\ found.record.state \in {"claimed", "needs-review"} /\ t \in Live(doc)
          /\ Save(Finished(doc, t, "pending"))
          /\ UNCHANGED waits
       \/ /\ \/ found.record.state = "pending"
             \/ IsLive(found.record) # (t \in Live(doc))
          /\ UNCHANGED <<doc, version, waits>>
    /\ found' = NoCommand
    /\ UNCHANGED <<journal, clock, due, base, bounds, granted, done>>

Tick == /\ \E now \in Times : clock < now /\ clock' = now
        /\ UNCHANGED <<doc, version, journal, due, base, found, bounds, history>>

Next == \/ \E t \in Tasks, s \in Standing, at \in Times : Add(t, s, at)
        \/ ReadView \/ Due \/ RequeueAct \/ Tick
        \/ \E t \in Tasks :
             \/ \E x \in Edits \cup {Blank}, trusted \in BOOLEAN : Curate(t, x, trusted)
             \/ Claim(t) \/ CurateCutShort(t) \/ RequeueFind(t)
             \/ \E o \in Outcome \cup {"needs-review"} :
                  Finish(t, o) \/ FinishCutShort(t, o)

Spec == Init /\ [][Next]_vars

-----------------------------------------------------------------------------
(* Properties *)

(* docs/work.md:48-51: a task becomes claimable only once everything it was
   made to wait for has completed; one whose dependency failed or was canceled
   stays blocked.  The edges are stored with the task and erased by other
   tasks' outcomes, through retries, re-filing and crashes.                   *)
DependenciesHonoured ==
  \A t \in Claimable(doc, clock) : waits[t] \subseteq done

(* Owner standing, which no budget paces, only ever comes from an operator or
   from a trusted room: neither canceling and re-filing under an old id nor a
   requeue from the journal smuggles it in (set_tasks, tms.rs:709).           *)
OwnerIsGranted ==
  \A t \in Live(doc) : doc[t].standing = "owner" => t \in granted

(* set_tasks replaces the whole document, yet undoes nobody else's write: of
   what it did not mean to change everything stays as it is now, not as it was
   when the agent read it (docs/work.md, "optimistic concurrency").           *)
CurationLosesNothing(t) ==
  \A trusted \in BOOLEAN, x \in {doc'[t], [doc'[t] EXCEPT !.standing = "owner"]} :
    Curate(t, x, trusted) => \A u \in Tasks \ {t} : doc'[u] = doc[u]

\* One that leaves the document is in the journal, as it last stood.
DepartureIsJournaled(t) ==
  t \in Live(doc) \ Live(doc)' =>
    /\ journal'[t] # Blank
    /\ [journal'[t] EXCEPT !.state = doc[t].state] = doc[t]

(* No task is lost: neither to a curation based on a view others have written
   past, nor between the journal and the document, also when a crash cuts the
   move short.                                                                *)
NoTaskIsLost ==
  [][\A t \in Tasks : CurationLosesNothing(t) /\ DepartureIsJournaled(t)]_vars

(* The live graph is a DAG (tms.rs:6): a cycle would block its members for
   good, and every later add with them, since add checks the whole graph.     *)
DocAcyclic == Acyclic(doc)

\* It is, as long as nothing is re-filed with the edges it once had.
OnlyRefilingMakesCycles == requeues = 0 => DocAcyclic

(* docs/work.md:57-59: a completed, failed or canceled task lives in the
   journal, and requeueing it re-files the same task as pending.              *)
RequeueRefiles ==
  [][\A t \in Tasks :
       /\ found.task = {t} /\ found' = NoCommand
       /\ t \notin Live(doc) /\ found.record = journal[t]
       => doc'[t].state = "pending"]_vars
=============================================================================
