-------------------------------- MODULE Listen --------------------------------
(***************************************************************************)
(* The lock of a worker's listener on one platform, src/channel/listen.rs: *)
(* a file that names a process, which every server process that is told to *)
(* run the listener creates, or finds and judges stale, again after every  *)
(* failure (supervised).                                                   *)
(*                                                                         *)
(* A token stands for one acquisition; a process that died may start again *)
(* under the pid it had (a container), or as another one.                  *)
(***************************************************************************)
EXTENDS Naturals, FiniteSets

CONSTANTS ServerProcs,  \* server processes; one that starts again has its old pid
          NoLock,
          MaxRuns    \* bound: acquisitions begun

VARIABLES lock,   \* the lock file: NoLock, or [token, by, text]; text is FALSE until written
          proc,   \* per server: [step, token, tries]
          mints,  \* tokens minted
          raced   \* history: have two acquisitions overlapped

listen == <<lock, proc, mints, raced>>

ASSUME ListenAssumption ==
  /\ MaxRuns \in Nat
  /\ NoLock \notin [token : Nat, by : ServerProcs, text : BOOLEAN]

Stopped == [step |-> "stopped", token |-> 0, tries |-> 0]

ListenInit ==
  /\ lock = NoLock
  /\ proc = [p \in ServerProcs |-> Stopped]
  /\ mints = 0 /\ raced = FALSE

Alive(p) == proc[p].step # "dead"

Acquiring(p) == proc[p].step \in {"create", "write", "found", "remove"}

\* Mutant: a lock is its owner's while the owner has it open.
held_now(l) == l.text /\ proc[l.by].step = "write"

\* What read_lock and process_alive make of a lock file that is there.
held(l) == l.text /\ Alive(l.by)

-----------------------------------------------------------------------------
(* ListenerLock::acquire_path *)

\* Called by listen_worker, at the start of the server or by `supervised` once more.
Acquire(p) ==
  /\ proc[p].step \in {"stopped", "dead"} /\ mints < MaxRuns
  /\ mints' = mints + 1
  /\ proc' = [proc EXCEPT ![p] = [step |-> "create", token |-> mints + 1, tries |-> 2]]
  /\ raced' = (raced \/ \E q \in ServerProcs : Acquiring(q))
  /\ UNCHANGED lock

Go(p, step) == proc' = [proc EXCEPT ![p].step = step]

\* create_new makes the file, which the record is then written to.
Create(p) ==
  /\ proc[p].step = "create" /\ proc[p].tries > 0
  /\ IF lock = NoLock
     THEN lock' = [token |-> proc[p].token, by |-> p, text |-> FALSE] /\ Go(p, "write")
     ELSE Go(p, "found") /\ UNCHANGED lock
  /\ UNCHANGED <<mints, raced>>

WriteRecord(p) ==
  /\ proc[p].step = "write" /\ Go(p, "listening")
  /\ lock' = IF lock # NoLock /\ lock.token = proc[p].token THEN [lock EXCEPT !.text = TRUE] ELSE lock
  /\ UNCHANGED <<mints, raced>>

\* It is there: another's while it names a live process, removed if it does not.
JudgeLock(p) ==
  /\ proc[p].step = "found"
  /\ Go(p, IF lock # NoLock /\ held(lock) THEN "stopped" ELSE "remove")
  /\ UNCHANGED <<lock, mints, raced>>

RemoveStale(p) ==
  /\ proc[p].step = "remove"
  /\ lock' = NoLock
  /\ proc' = [proc EXCEPT ![p].step = "create", ![p].tries = @ - 1]
  /\ UNCHANGED <<mints, raced>>

GivesUp(p) ==
  /\ proc[p].step = "create" /\ proc[p].tries = 0 /\ Go(p, "stopped")
  /\ UNCHANGED <<lock, mints, raced>>

-----------------------------------------------------------------------------
(* listen_worker returns, or its process ends *)

\* Drop reads the lock, and removes it if it is this listener's.
Release(p) ==
  /\ proc[p].step = "listening"
  /\ Go(p, IF lock # NoLock /\ lock.text /\ lock.token = proc[p].token THEN "release" ELSE "stopped")
  /\ UNCHANGED <<lock, mints, raced>>

RemoveOwn(p) ==
  /\ proc[p].step = "release"
  /\ lock' = NoLock /\ Go(p, "stopped") /\ UNCHANGED <<mints, raced>>

Dies(p) ==
  /\ Alive(p) /\ proc[p].step # "stopped"
  /\ Go(p, "dead") /\ UNCHANGED <<lock, mints, raced>>

ListenNext ==
  \E p \in ServerProcs : \/ Acquire(p) \/ Create(p) \/ WriteRecord(p) \/ JudgeLock(p) \/ RemoveStale(p)
                      \/ GivesUp(p) \/ Release(p) \/ RemoveOwn(p) \/ Dies(p)

ListenSpec == ListenInit /\ [][ListenNext]_listen

-----------------------------------------------------------------------------
(* Properties *)

Listening == {p \in ServerProcs : proc[p].step \in {"listening", "release"}}

\* listen.rs:45, "one listener per (worker, platform) across processes": while no two
\* acquisitions have overlapped, whoever died or left in whatever step before; and the
\* one that listens has the lock.
OneListener ==
  ~ raced => /\ Cardinality(Listening) <= 1
             /\ \A p \in Listening : lock # NoLock /\ lock.by = p /\ lock.text

\* listen.rs:45, with no such condition.
AlwaysOneListener == Cardinality(Listening) <= 1
=============================================================================
