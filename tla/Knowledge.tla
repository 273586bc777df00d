------------------------------ MODULE Knowledge ------------------------------
(***************************************************************************)
(* The gated repos of a worker: src/worker/knowledge.rs with the records   *)
(* of src/run/runlog.rs.  Every writable run works in a clone of its own;  *)
(* `push` validates what the run bundled against the head of main, takes   *)
(* the repo's lane and advances main; `backstop` parks what a run leaves   *)
(* unlanded.  Pushes of several runs run side by side, in the daemon for a *)
(* box's call and in a CLI process for an approved one, and each process   *)
(* may die between two steps.  git is external: a commit is its ancestors  *)
(* and its tree, a tree the set of its files.                              *)
(***************************************************************************)
EXTENDS Naturals, Sequences, FiniteSets

CONSTANTS Runs, Files,
          Barred,        \* files validation refuses: secrets, participants, odd paths
          Base,          \* the tree main starts with
          CleanRoom,     \* the repo's contract is "clean-room"
          MaxDeletions,  \* policy.max_deletions_ungated
          MaxCommits,    \* bound on what boxes commit
          MaxCrashes, None

ASSUME RepoAssumption ==
  /\ Barred \subseteq Files /\ Base \subseteq Files \ Barred
  /\ CleanRoom \in BOOLEAN /\ MaxDeletions \in Nat /\ MaxCommits \in Nat
  /\ MaxCrashes \in Nat /\ None \notin Runs

VARIABLES commits,  \* every commit of the canonical repo and the clones
          main,     \* refs/heads/main
          parked,   \* refs/quarantine/run-<id>, 0 where there is none
          clone,    \* per run: its life, its clone, its bundle
          rec,      \* per run: the repo's entry in run.json
          push,     \* per run: the push under way
          back,     \* per run: where finalize_storage is
          lane,     \* the holder of the integration lane
          confirmed,\* the heads whose bulk deletion a human approved
          repoCrashes

repoVars == <<commits, main, parked, clone, rec, push, back, lane, confirmed, repoCrashes>>

Idle == [step |-> "idle", head |-> 0, main |-> 0]

is_ancestor(a, b) == a = b \/ a \in commits[b].anc

Tree(c) == commits[c].tree

\* A child of c that holds the tree t.
Child(c, t, r) == [anc |-> commits[c].anc \cup {c}, tree |-> t, by |-> r]

RepoInit ==
  /\ commits = <<[anc |-> {}, tree |-> Base, by |-> None]>> /\ main = 1
  /\ parked = [r \in Runs |-> 0]
  /\ clone = [r \in Runs |-> [life |-> "new", mode |-> "none", carries |-> FALSE, base |-> 0, head |-> 0,
                              tree |-> {}, bundle |-> 0, asked |-> 0]]
  /\ rec = [r \in Runs |-> [state |-> "none", produced |-> 0]]
  /\ push = [r \in Runs |-> Idle] /\ back = [r \in Runs |-> "none"]
  /\ lane = None /\ confirmed = {} /\ repoCrashes = 0

-----------------------------------------------------------------------------
(* A run begins *)

\* The clean-room rule: a run that carries interaction content gets its clone
\* read-only, and the push refuses it too.
Mode(carries) == IF carries /\ CleanRoom THEN "read" ELSE "write"

\* `parked_refs_of` a run that is over; `creatordate` may be 14 days back.
Expirable == {q \in Runs : clone[q].life = "over" /\ parked[q] # 0}

\* `provision`, with `prune_quarantine` first: parked refs past their TTL go.
\* Any of its git calls may fail, and the run with it.
Provision(r, carries, expired) ==
  /\ clone[r].life = "new"
  /\ parked' = [q \in Runs |-> IF q \in expired THEN 0 ELSE parked[q]]
  /\ back' = [q \in Runs |-> IF q \in expired THEN "pruned" ELSE back[q]]
  /\ \/ /\ clone' = [clone EXCEPT ![r] = [@ EXCEPT !.life = "up", !.mode = Mode(carries),
                                         !.carries = carries, !.base = main, !.head = main]]
        /\ rec' = [rec EXCEPT ![r].state = IF Mode(carries) = "write" THEN "active" ELSE "read-only"]
     \/ /\ clone' = [clone EXCEPT ![r].life = "over"]
        /\ rec' = [rec EXCEPT ![r].state = "failed"]
  /\ UNCHANGED <<commits, main, push, lane, confirmed, repoCrashes>>

Working(r) == clone[r].life \in {"up", "orphan"} /\ clone[r].mode = "write"

\* In the box: commit on the branch, on what `git fetch origin` shows (a rebase),
\* or on what an earlier run left parked.
Commit(r, onto, t) ==
  /\ Working(r) /\ Len(commits) < MaxCommits
  /\ onto \in {clone[r].head, main} \cup {parked[q] : q \in Runs} /\ onto # 0
  /\ t # Tree(onto)
  /\ commits' = Append(commits, Child(onto, t, r))
  /\ clone' = [clone EXCEPT ![r].head = Len(commits')]
  /\ UNCHANGED <<main, parked, rec, push, back, lane, confirmed, repoCrashes>>

-----------------------------------------------------------------------------
(* Push *)

Deletions(from, to) == Cardinality(Tree(from) \ Tree(to))

\* The box bundles its branch and calls repo_push; with confirm_bulk_delete the
\* call waits at the desk and names the head it asked for.
BoxPush(r) ==
  /\ Working(r) /\ push[r].step = "idle" /\ clone[r].head # clone[r].base
  /\ clone' = [clone EXCEPT ![r].bundle = clone[r].head]
  /\ push' = [push EXCEPT ![r] = [step |-> "box", head |-> clone[r].head, main |-> 0]]
  /\ UNCHANGED <<commits, main, parked, rec, back, lane, confirmed, repoCrashes>>

AskDesk(r) ==
  /\ Working(r) /\ clone[r].asked = 0 /\ Deletions(main, clone[r].head) > MaxDeletions
  /\ clone' = [clone EXCEPT ![r] = [@ EXCEPT !.bundle = clone[r].head, !.asked = clone[r].head]]
  /\ UNCHANGED <<commits, main, parked, rec, push, back, lane, confirmed, repoCrashes>>

\* An approval executes it, whether the run still lives or not.
DeskPush(r) ==
  /\ clone[r].asked # 0 /\ push[r].step = "idle" /\ clone[r].asked \notin confirmed
  /\ confirmed' = confirmed \cup {clone[r].asked}
  /\ push' = [push EXCEPT ![r] = [step |-> "desk", head |-> clone[r].asked, main |-> 0]]
  /\ UNCHANGED <<commits, main, parked, clone, rec, back, lane, repoCrashes>>

\* Every changed file passes `validate_text_file` and the participant scan.
Acceptable(from, to) == (Tree(to) \ Tree(from)) \cap Barred = {}

\* Mutant: a confirmed push is not validated.
ConfirmedIsTrusted(r) ==
  /\ clone[r].bundle = push[r].head
  /\ is_ancestor(main, push[r].head)
  /\ push[r].step = "desk" \/ Acceptable(main, push[r].head)
  /\ Deletions(main, push[r].head) > MaxDeletions => push[r].step = "desk"

\* What the diff of main..head must satisfy before the lane is asked for.
Landable(r) ==
  /\ clone[r].bundle = push[r].head
  /\ is_ancestor(main, push[r].head)
  /\ Acceptable(main, push[r].head)
  /\ Deletions(main, push[r].head) > MaxDeletions => push[r].step = "desk"

To(r, step) == push' = [push EXCEPT ![r].step = step]

\* `push_inner` up to the lane: the quarantine clone, the bundle, and the
\* validation of everything against the head of main as it is now.
Validate(r) ==
  /\ push[r].step \in {"box", "desk"}
  /\ CASE clone[r].bundle = push[r].head /\ push[r].head = main -> To(r, "landed")
       [] push[r].head # main /\ Landable(r) -> To(r, "lane")
       [] OTHER -> To(r, "refused")
  /\ UNCHANGED <<commits, main, parked, clone, rec, back, lane, confirmed, repoCrashes>>

\* Mutant: main is not compared again, the swap alone is to catch a stale push.
SwapDecides(r) == TRUE

\* The lane, within its five seconds; main is read again and the head must
\* still descend from it.
MayAdvance(r) == push[r].head = main \/ is_ancestor(main, push[r].head)

EnterLane(r) ==
  /\ push[r].step = "lane" /\ lane = None
  /\ IF MayAdvance(r)
     THEN /\ push' = [push EXCEPT ![r] = [@ EXCEPT !.step = "swap", !.main = main]]
          /\ lane' = r
     ELSE To(r, "refused") /\ UNCHANGED lane
  /\ UNCHANGED <<commits, main, parked, clone, rec, back, confirmed, repoCrashes>>

LaneTimeout(r) ==
  /\ push[r].step = "lane" /\ lane # None /\ To(r, "refused")
  /\ UNCHANGED <<commits, main, parked, clone, rec, back, lane, confirmed, repoCrashes>>

\* `update-ref refs/heads/main head main`, a compare-and-swap.
Swap(r) ==
  /\ push[r].step = "swap"
  /\ IF main = push[r].main
     THEN main' = push[r].head /\ To(r, "journal") /\ UNCHANGED lane
     ELSE To(r, "refused") /\ lane' = None /\ UNCHANGED main
  /\ UNCHANGED <<commits, parked, clone, rec, back, confirmed, repoCrashes>>

\* The journal line, still under the lane; if it cannot be written the push
\* reports a refusal of what has landed.
Journal(r) ==
  /\ push[r].step = "journal" /\ lane' = None
  /\ To(r, "landed") \/ To(r, "refused")
  /\ UNCHANGED <<commits, main, parked, clone, rec, back, confirmed, repoCrashes>>

\* `update_knowledge` of run.json; every state but "pushed" clears the commit.
Update(r, state, produced) ==
  rec' = [rec EXCEPT ![r] = [state |-> state, produced |-> produced]]

Answer(r) ==
  /\ \/ push[r].step = "landed" /\ Update(r, "pushed", push[r].head)
     \/ push[r].step = "refused" /\ Update(r, "push-refused", 0)
  /\ push' = [push EXCEPT ![r] = Idle]
  /\ UNCHANGED <<commits, main, parked, clone, back, lane, confirmed, repoCrashes>>

-----------------------------------------------------------------------------
(* A run ends *)

\* Either way it leaves what it committed, or uncommitted work on top.
Leavings(r) == {Tree(c) : c \in {clone[r].head} \ {0}} \cup {Files}

\* The daemon that started the box sees it exit and finalizes its storage; a
\* daemon that adopted it only waits for it (`adopt`).
BoxExits(r, t) ==
  /\ clone[r].life \in {"up", "orphan"}
  /\ clone[r].mode = "read" => t = Tree(clone[r].base)
  /\ clone' = [clone EXCEPT ![r].tree = t,
                            ![r].life = IF clone[r].life = "up" THEN "exited" ELSE "over"]
  /\ UNCHANGED <<commits, main, parked, rec, push, back, lane, confirmed, repoCrashes>>

\* Mutant: what the clone's branch holds counts as landed.
BranchTip(r) == clone[r].head

\* How far finalize_storage has come with the run.
Finalizing(r, at) == clone[r].life = "exited" /\ back[r] = at

\* The last landed state the run is answerable for.
Reference(r) == IF rec[r].produced # 0 THEN rec[r].produced ELSE clone[r].base

\* `backstop_inner` compares the worktree with it.
Compare(r) ==
  /\ Finalizing(r, "none")
  /\ back' = [back EXCEPT ![r] =
       IF clone[r].mode = "read" \/ clone[r].tree = Tree(Reference(r)) THEN "done" ELSE "differs"]
  /\ UNCHANGED <<commits, main, parked, clone, rec, push, lane, confirmed, repoCrashes>>

\* It pushes the worktree to the run's quarantine ref, or fails: too large, a
\* git error.  "failed" is the journal line, which nothing overwrites.
Park(r) ==
  /\ Finalizing(r, "differs")
  /\ commits' = Append(commits, Child(Reference(r), clone[r].tree, r))
  /\ parked' = [parked EXCEPT ![r] = Len(commits')]
  /\ back' = [back EXCEPT ![r] = "parked"]
  /\ UNCHANGED <<main, clone, rec, push, lane, confirmed, repoCrashes>>

ParkFails(r) ==
  /\ Finalizing(r, "differs") /\ Update(r, "backstop-failed", 0)
  /\ back' = [back EXCEPT ![r] = "failed"]
  /\ UNCHANGED <<commits, main, parked, clone, push, lane, confirmed, repoCrashes>>

Note(r) ==
  /\ Finalizing(r, "parked") /\ Update(r, "backstopped", 0)
  /\ back' = [back EXCEPT ![r] = "done"]
  /\ UNCHANGED <<commits, main, parked, clone, push, lane, confirmed, repoCrashes>>

\* `runlog::finish`, after finalize_storage.
Finish(r) ==
  /\ Finalizing(r, "done") \/ Finalizing(r, "failed")
  /\ clone' = [clone EXCEPT ![r].life = "over"]
  /\ UNCHANGED <<commits, main, parked, rec, push, back, lane, confirmed, repoCrashes>>

-----------------------------------------------------------------------------
(* Crashes *)

\* The CLI process that executes an approved push dies; the kernel frees its lane.
PushDies(r) ==
  /\ repoCrashes < MaxCrashes /\ push[r].step # "idle" /\ push[r].head \in confirmed
  /\ push' = [push EXCEPT ![r] = Idle]
  /\ lane' = IF lane = r THEN None ELSE lane
  /\ repoCrashes' = repoCrashes + 1
  /\ UNCHANGED <<commits, main, parked, clone, rec, back, confirmed>>

\* The daemon dies: its finalizing stops, boxes that still run are adopted.
DaemonDies ==
  /\ repoCrashes < MaxCrashes
  /\ clone' = [r \in Runs |-> [clone[r] EXCEPT !.life =
                 CASE @ = "up" -> "orphan" [] @ = "exited" -> "over" [] OTHER -> @]]
  /\ push' = [r \in Runs |-> IF push[r].head \in confirmed THEN push[r] ELSE Idle]
  /\ lane' = IF lane # None /\ push[lane].head \in confirmed THEN lane ELSE None
  /\ repoCrashes' = repoCrashes + 1
  /\ UNCHANGED <<commits, main, parked, rec, back, confirmed>>

PushStep(r) == \/ BoxPush(r) \/ AskDesk(r) \/ DeskPush(r) \/ Validate(r) \/ EnterLane(r)
               \/ LaneTimeout(r) \/ Swap(r) \/ Journal(r) \/ Answer(r)

EndStep(r) == (\E t \in Leavings(r) : BoxExits(r, t)) \/ Compare(r) \/ Park(r) \/ ParkFails(r) \/ Note(r) \/ Finish(r)

RepoNext == \/ \E r \in Runs : \/ \E c \in BOOLEAN, e \in SUBSET Expirable : Provision(r, c, e)
                               \/ \E c \in DOMAIN commits, t \in SUBSET Files : Commit(r, c, t)
                               \/ PushStep(r) \/ EndStep(r) \/ PushDies(r)
            \/ DaemonDies

RepoSpec == RepoInit /\ [][RepoNext]_repoVars

-----------------------------------------------------------------------------
(* Properties *)

(* docs/repos.md:50-52 "main advances to the pushed head, fast-forward only":
   whoever pushes, and whatever head of main it was validated against, main
   moves to a descendant, so no landed work ever leaves its history.          *)
MainOnlyAdvances == [][is_ancestor(main, main')]_main

(* docs/repos.md:45-49: nothing the validation refuses is ever in main's tree,
   though others move main between a push's validation and its landing, and
   work parked without validation may be built upon.                          *)
MainIsClean == Tree(main) \cap Barred = {}

(* docs/repos.md:105 "A gated repo may only be pushed by runs that never
   contained person-data": under clean-room nothing such a run wrote is in
   main's history, parked work that others build upon included.               *)
PersonSpaceStaysOut ==
  CleanRoom => \A c \in commits[main].anc \cup {main} : commits[c].by # None => ~ clone[commits[c].by].carries

(* What main holds passed every rule of the repo's contract, however it came. *)
MainIsTrusted == MainIsClean /\ PersonSpaceStaysOut

Landed(t) == \E c \in commits[main].anc \cup {main} : Tree(c) = t

Parked(t, r) == parked[r] # 0 /\ Tree(parked[r]) = t

(* "so nothing is lost silently" (knowledge.rs:570): the files a finalized run
   left are those of a commit on main, or on its quarantine ref until its TTL,
   or the journal says that parking failed; whatever the run's own pushes, the
   desk's, or those of other runs did meanwhile.                              *)
NothingLostSilently ==
  \A r \in Runs :
    back[r] = "done" => Landed(clone[r].tree) \/ Parked(clone[r].tree, r)

(* docs/repos.md:61-63 "A run that ends with unpushed work - crash, ceiling, or
   it simply forgot - has its worktree snapshotted".                          *)
EveryEndIsParked ==
  \A r \in Runs :
    clone[r].life = "over" /\ clone[r].mode = "write" /\ back[r] \notin {"failed", "pruned"}
    => Landed(clone[r].tree) \/ Parked(clone[r].tree, r)
=============================================================================
