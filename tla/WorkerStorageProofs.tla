------------------------- MODULE WorkerStorageProofs -------------------------
(***************************************************************************)
(* Proofs about a worker's gated repos and its store, for any runs, files, *)
(* bounds and contract.                                                    *)
(*                                                                         *)
(* Repos.  The lane plays no part: a push is validated before it, against  *)
(* a head of main that others move on.  What carries is that main only     *)
(* advances to a descendant of the head it is compared with (Swaps), that  *)
(* what is clean on top of something clean stays clean whatever main does  *)
(* (Clean), and that no run that carries interaction content ever makes a  *)
(* commit (Carriers).  That nothing is lost follows from OnMain being      *)
(* closed under advancing, so a run's reference stays landed (References). *)
(*                                                                         *)
(* Store.  Here the lock does carry: a copy made in two passes is current  *)
(* to its end because its maker holds the lock (Locks, CopyIsCurrent), and *)
(* a restore overwrites nothing it has not copied (Undoable).              *)
(***************************************************************************)
EXTENDS Knowledge, Store, SequenceTheorems, TLAPS

Lives == {"new", "up", "orphan", "exited", "over"}
Ended == {"exited", "over"}

Commits == [anc : SUBSET Nat, tree : SUBSET Files, by : Runs \cup {None}]
Clones == [life : Lives, mode : {"none", "read", "write"}, carries : BOOLEAN, base : Nat, head : Nat,
           tree : SUBSET Files, bundle : Nat, asked : Nat]
Records == [state : {"none", "active", "read-only", "failed", "pushed", "push-refused", "backstop-failed",
                     "backstopped"}, produced : Nat]
Pushes == [step : {"idle", "box", "desk", "lane", "swap", "journal", "landed", "refused"},
           head : Nat, main : Nat]
Backs == {"none", "differs", "parked", "done", "failed", "pruned"}

TypeOK ==
  /\ commits \in Seq(Commits)
  /\ main \in DOMAIN commits
  /\ parked \in [Runs -> Nat]
  /\ clone \in [Runs -> Clones]
  /\ rec \in [Runs -> Records]
  /\ push \in [Runs -> Pushes]
  /\ back \in [Runs -> Backs]

\* Whatever names a commit names one there is; 0 is none.
Known(c) == c \in DOMAIN commits
KnownOrNone(c) == c = 0 \/ Known(c)

Names ==
  \A r \in Runs :
    /\ KnownOrNone(parked[r]) /\ KnownOrNone(rec[r].produced)
    /\ KnownOrNone(clone[r].asked) /\ KnownOrNone(clone[r].head) /\ KnownOrNone(clone[r].base)
    /\ clone[r].life \in {"up", "orphan", "exited"} => Known(clone[r].head) /\ Known(clone[r].base)
    /\ push[r].step # "idle" => Known(push[r].head)

\* Ancestors are older commits, and theirs are among them.
History ==
  \A c \in DOMAIN commits :
    /\ commits[c].anc \subseteq DOMAIN commits
    /\ \A a \in commits[c].anc : commits[a].anc \subseteq commits[c].anc

\* A push that is past validation; one that is about to swap.
Clean ==
  /\ MainIsClean
  /\ \A r \in Runs : push[r].step \in {"lane", "swap"} => Tree(push[r].head) \cap Barred = {}
Swaps ==
  \A r \in Runs : push[r].step = "swap" => Known(push[r].main) /\ is_ancestor(push[r].main, push[r].head)

Carriers ==
  /\ \A r \in Runs : /\ clone[r].life = "new" => ~ clone[r].carries
                     /\ CleanRoom /\ clone[r].carries => clone[r].mode = "read"
                     /\ back[r] # "none" => clone[r].life \in Ended
                     /\ back[r] = "differs" => clone[r].mode # "read"
  /\ \A c \in DOMAIN commits : commits[c].by # None =>
       /\ clone[commits[c].by].life # "new"
       /\ CleanRoom => ~ clone[commits[c].by].carries

OnMain(c) == c = main \/ c \in commits[main].anc

\* What a run is answerable for has landed.
References ==
  \A r \in Runs :
    /\ clone[r].life \in {"up", "orphan", "exited"} => OnMain(clone[r].base)
    /\ rec[r].produced # 0 => OnMain(rec[r].produced)
    /\ push[r].step \in {"journal", "landed"} => OnMain(push[r].head)

Ends ==
  \A r \in Runs :
    /\ clone[r].life = "exited" /\ clone[r].mode = "read" => clone[r].tree = Tree(clone[r].base)
    /\ back[r] = "parked" => Parked(clone[r].tree, r)
    /\ back[r] = "done" => Landed(clone[r].tree) \/ Parked(clone[r].tree, r)

IInv == TypeOK /\ Names /\ History /\ Clean /\ Swaps /\ Carriers /\ References /\ Ends

-----------------------------------------------------------------------------
LEMMA Indices ==
  ASSUME TypeOK
  PROVE  /\ DOMAIN commits \subseteq Nat /\ 0 \notin DOMAIN commits
         /\ \A c \in DOMAIN commits : commits[c] \in Commits
  BY DEF TypeOK

\* A new commit leaves the others as they are.
LEMMA AppendKeeps ==
  ASSUME TypeOK, NEW c \in Commits, commits' = Append(commits, c)
  PROVE  /\ commits' \in Seq(Commits) /\ Len(commits') \in Nat \ {0}
         /\ DOMAIN commits' = DOMAIN commits \cup {Len(commits')}
         /\ Len(commits') \notin DOMAIN commits
         /\ \A i \in DOMAIN commits : commits'[i] = commits[i]
         /\ commits'[Len(commits')] = c
  BY DEF TypeOK

\* ... and what was landed or parked stays so.
LEMMA AppendKeepsHomes ==
  ASSUME TypeOK, Names, History, NEW c \in Commits, commits' = Append(commits, c), main' = main
  PROVE  /\ \A t : Landed(t) => Landed(t)'
         /\ \A t, r \in Runs : parked'[r] = parked[r] /\ Parked(t, r) => Parked(t, r)'
<1>1. \A i \in DOMAIN commits : commits'[i] = commits[i]
  BY AppendKeeps
<1>2. main \in DOMAIN commits /\ commits[main].anc \subseteq DOMAIN commits
  BY DEF TypeOK, History
<1>3. ASSUME NEW t, Landed(t) PROVE Landed(t)'
  BY <1>1, <1>2, <1>3 DEF Landed, Tree
<1>4. ASSUME NEW t, NEW r \in Runs, parked'[r] = parked[r], Parked(t, r) PROVE Parked(t, r)'
  BY <1>1, <1>4 DEF Parked, Tree, Names, Known, KnownOrNone
<1> QED BY <1>3, <1>4

LEMMA InitIInv == RepoInit => IInv
<1> SUFFICES ASSUME RepoInit PROVE IInv
  OBVIOUS
<1> USE RepoAssumption
<1>c. /\ commits \in Seq(Commits) /\ DOMAIN commits = {1} /\ main = 1
      /\ commits[1] = [anc |-> {}, tree |-> Base, by |-> None]
  BY DEF RepoInit, Commits
<1>1. TypeOK
  BY <1>c DEF RepoInit, TypeOK, Clones, Lives, Pushes, Backs, Records, Idle
<1>2. Names /\ Swaps /\ References /\ Ends
  BY DEF RepoInit, Names, KnownOrNone, Swaps, References, Ends, Idle
<1>3. History
  BY <1>c DEF History
<1>4. Clean
  BY <1>c DEF RepoInit, Clean, MainIsClean, Tree, Idle
<1>5. Carriers
  BY <1>c DEF RepoInit, Carriers
<1> QED BY <1>1, <1>2, <1>3, <1>4, <1>5 DEF IInv

-----------------------------------------------------------------------------
(* One lemma per action, in the order of Knowledge *)

LEMMA ProvisionStep ==
  ASSUME IInv, NEW r \in Runs, NEW carries \in BOOLEAN, NEW e \in SUBSET Expirable,
         Provision(r, carries, e)
  PROVE  IInv'
<1> USE Indices DEF IInv
<1>p. /\ parked' = [q \in Runs |-> IF q \in e THEN 0 ELSE parked[q]]
      /\ back' = [q \in Runs |-> IF q \in e THEN "pruned" ELSE back[q]]
      /\ \A q \in e : q # r /\ clone[q].life = "over"
      /\ UNCHANGED <<commits, main, push>>
      /\ clone[r].life = "new"
  BY DEF Provision, Expirable
<1>t. clone \in [Runs -> Clones] /\ rec \in [Runs -> Records] /\ main \in Nat
  BY DEF TypeOK
<1>u. PICK k \in Clones, d \in Records :
        /\ clone' = [clone EXCEPT ![r] = k] /\ rec' = [rec EXCEPT ![r] = d]
        /\ d.produced = rec[r].produced /\ k.asked = clone[r].asked
        /\ \/ /\ k.life = "up" /\ k.base = main /\ k.head = main
              /\ CleanRoom /\ k.carries => k.mode = "read"
           \/ /\ k.life = "over" /\ k.base = clone[r].base /\ k.head = clone[r].head
              /\ k.carries = clone[r].carries /\ k.mode = clone[r].mode
  <2>1. CASE rec' = [rec EXCEPT ![r].state = "failed"] /\ clone' = [clone EXCEPT ![r].life = "over"]
    <3> DEFINE k == [clone[r] EXCEPT !.life = "over"]
               d == [rec[r] EXCEPT !.state = "failed"]
    <3>1. clone' = [clone EXCEPT ![r] = k] /\ rec' = [rec EXCEPT ![r] = d]
      BY <2>1, <1>t
    <3>2. k \in Clones /\ d \in Records
      BY <1>t DEF Clones, Lives, Records
    <3>3. /\ k.life = "over" /\ k.base = clone[r].base /\ k.head = clone[r].head /\ k.asked = clone[r].asked
          /\ k.carries = clone[r].carries /\ k.mode = clone[r].mode /\ d.produced = rec[r].produced
      BY <1>t DEF Clones, Records
    <3> QED BY <3>1, <3>2, <3>3
  <2>2. CASE /\ rec' = [rec EXCEPT ![r].state = IF Mode(carries) = "write" THEN "active" ELSE "read-only"]
             /\ clone' = [clone EXCEPT ![r] = [@ EXCEPT !.life = "up", !.mode = Mode(carries),
                                               !.carries = carries, !.base = main, !.head = main]]
    <3> DEFINE k == [clone[r] EXCEPT !.life = "up", !.mode = Mode(carries),
                                     !.carries = carries, !.base = main, !.head = main]
               d == [rec[r] EXCEPT !.state = IF Mode(carries) = "write" THEN "active" ELSE "read-only"]
    <3>1. clone' = [clone EXCEPT ![r] = k] /\ rec' = [rec EXCEPT ![r] = d]
      BY <2>2, <1>t
    <3>m. Mode(carries) \in {"read", "write"} /\ (CleanRoom /\ carries => Mode(carries) = "read")
      BY DEF Mode
    <3>2. k \in Clones /\ d \in Records
      <4>1. clone[r] \in Clones /\ rec[r] \in Records /\ main \in Nat BY <1>t
      <4>2. PICK mode : mode = Mode(carries) OBVIOUS
      <4>3. PICK state : state = IF mode = "write" THEN "active" ELSE "read-only" OBVIOUS
      <4>4. k = [clone[r] EXCEPT !.life = "up", !.mode = mode, !.carries = carries, !.base = main, !.head = main]
            /\ mode \in {"none", "read", "write"}
        BY <3>m, <4>2
      <4>5. d = [rec[r] EXCEPT !.state = state] /\ state \in {"active", "read-only"} BY <4>2, <4>3
      <4> HIDE DEF k, d
      <4>6. k \in Clones BY ONLY <4>1, <4>4, carries \in BOOLEAN DEF Clones, Lives
      <4>7. d \in Records BY ONLY <4>1, <4>5 DEF Records
      <4> QED BY <4>6, <4>7
    <3>3. /\ k.life = "up" /\ k.base = main /\ k.head = main /\ k.asked = clone[r].asked
          /\ k.carries = carries /\ k.mode = Mode(carries) /\ d.produced = rec[r].produced
      BY <1>t DEF Clones, Records
    <3> QED BY <3>1, <3>2, <3>3, <3>m
  <2> QED BY <2>1, <2>2 DEF Provision
<1>q. \A q \in Runs : q # r => clone'[q] = clone[q] /\ rec'[q] = rec[q]
  BY <1>t, <1>u
<1>r. /\ clone' \in [Runs -> Clones] /\ rec' \in [Runs -> Records]
      /\ clone'[r] = k /\ rec'[r] = d
  BY <1>t, <1>u
<1>1. TypeOK'  BY <1>p, <1>r DEF TypeOK, Backs
<1>2. Names'  BY <1>p, <1>q, <1>r, <1>u DEF TypeOK, Names, Known, KnownOrNone
<1>3. History'  BY <1>p DEF History
<1>4. Clean'  BY <1>p DEF Clean, MainIsClean, Tree
<1>5. Swaps'  BY <1>p DEF Swaps, Known, is_ancestor
<1>6. Carriers'  BY <1>p, <1>q, <1>r, <1>u DEF Carriers, TypeOK, Commits, Ended
<1>7. References'  BY <1>p, <1>q, <1>r, <1>u DEF References, OnMain
<1>8. Ends'  BY <1>p, <1>q, <1>r, <1>u DEF Ends, Carriers, Ended, Landed, Parked, Tree, TypeOK
<1> QED BY <1>1, <1>2, <1>3, <1>4, <1>5, <1>6, <1>7, <1>8

LEMMA CommitStep ==
  ASSUME IInv, NEW r \in Runs, NEW onto \in DOMAIN commits, NEW t \in SUBSET Files, Commit(r, onto, t)
  PROVE  IInv'
<1> DEFINE new == Len(commits')
<1> USE Indices DEF IInv
<1>n. Child(onto, t, r) \in Commits
  BY DEF Commits, Child
<1>a. /\ commits' \in Seq(Commits) /\ new \in Nat \ {0}
      /\ DOMAIN commits' = DOMAIN commits \cup {new}
      /\ new \notin DOMAIN commits
      /\ \A i \in DOMAIN commits : commits'[i] = commits[i]
      /\ commits'[new] = Child(onto, t, r)
  BY <1>n, AppendKeeps DEF Commit
<1>c. /\ clone' = [clone EXCEPT ![r].head = new]
      /\ UNCHANGED <<main, parked, rec, push, back>>
      /\ clone[r].life \in {"up", "orphan"} /\ clone[r].mode = "write"
  BY DEF Commit, Working
<1> HIDE DEF new
<1>d. /\ clone' \in [Runs -> Clones] /\ clone'[r].head = new
      /\ \A q \in Runs : /\ q # r => clone'[q] = clone[q]
                         /\ clone'[q].life = clone[q].life /\ clone'[q].mode = clone[q].mode
                         /\ clone'[q].carries = clone[q].carries /\ clone'[q].base = clone[q].base
                         /\ clone'[q].tree = clone[q].tree /\ clone'[q].asked = clone[q].asked
  <2> DEFINE k == [clone[r] EXCEPT !.head = new]
  <2>0. clone \in [Runs -> Clones]
    BY DEF TypeOK
  <2>1. clone' = [clone EXCEPT ![r] = k]
    BY <1>c, <2>0
  <2>2. k \in Clones /\ k.head = new
    BY <1>a, <2>0 DEF Clones
  <2>3. /\ k.life = clone[r].life /\ k.mode = clone[r].mode /\ k.carries = clone[r].carries
        /\ k.base = clone[r].base /\ k.tree = clone[r].tree /\ k.asked = clone[r].asked
    BY <2>0 DEF Clones
  <2> QED BY <2>0, <2>1, <2>2, <2>3
<1>1. TypeOK'  BY <1>a, <1>c, <1>d DEF TypeOK
<1>2. Names'
  <2>1. \A q \in Runs : /\ clone'[q].head \in {clone[q].head, new}
                       /\ UNCHANGED <<parked[q], rec[q], push[q]>>
    BY <1>c, <1>d
  <2>2. \A i : KnownOrNone(i) => i = 0 \/ i \in DOMAIN commits' BY <1>a DEF Known, KnownOrNone
  <2>3. \A i : Known(i) => i \in DOMAIN commits' BY <1>a DEF Known
  <2>4. new \in DOMAIN commits' BY <1>a
  <2> QED BY <1>d, <2>1, <2>2, <2>3, <2>4 DEF Names, Known, KnownOrNone
<1>3. History'  BY <1>a DEF History, Child
<1>4. Clean'  BY <1>a, <1>c DEF Clean, MainIsClean, Tree, TypeOK, Names, Known
<1>5. Swaps'  BY <1>a, <1>c DEF Swaps, Names, Known, is_ancestor
<1>6. Carriers'  BY <1>a, <1>c, <1>d, RepoAssumption DEF Carriers, TypeOK, Commits, Child
<1>7. References'  BY <1>a, <1>c, <1>d DEF References, OnMain, TypeOK
<1>8. Ends'
  <2>1. \A q \in Runs : clone[q].life = "exited" /\ clone[q].mode = "read"
                        => Tree(clone[q].base)' = Tree(clone[q].base)
    BY <1>a, <1>d DEF Tree, Names, Known
  <2>2. /\ \A q \in Runs : Landed(clone[q].tree) => Landed(clone[q].tree)'
        /\ \A q \in Runs : Parked(clone[q].tree, q) => Parked(clone[q].tree, q)'
    <3> DEFINE c == Child(onto, t, r)
    <3>1. commits' = Append(commits, c) /\ c \in Commits
      BY <1>n DEF Commit
    <3> HIDE DEF c
    <3>2. UNCHANGED <<main, parked>> /\ TypeOK /\ Names /\ History
      BY <1>c
    <3>3. \A u : Landed(u) => Landed(u)'
      BY <3>1, <3>2, AppendKeepsHomes
    <3>5. ASSUME NEW q \in Runs, Landed(clone[q].tree) PROVE Landed(clone[q].tree)'
      <4>1. Landed(clone[q].tree)' <=> \E i \in (commits'[main'].anc \cup {main'}) : commits'[i].tree = clone'[q].tree
        BY DEF Landed, Tree
      <4>2. \E i \in (commits'[main'].anc \cup {main'}) : commits'[i].tree = clone[q].tree
        BY <3>3, <3>5 DEF Landed, Tree
      <4> QED BY <1>d, <4>1, <4>2
    <3>6. ASSUME NEW q \in Runs, Parked(clone[q].tree, q) PROVE Parked(clone[q].tree, q)'
      <4>1. parked'[q] # 0 /\ commits'[parked'[q]].tree = clone[q].tree
        BY <1>a, <3>2, <3>6 DEF Parked, Tree, Names, Known, KnownOrNone
      <4> QED BY <1>d, <4>1 DEF Parked, Tree
    <3> QED BY <3>5, <3>6
  <2> QED BY <1>c, <1>d, <2>1, <2>2 DEF Ends
<1> QED BY <1>1, <1>2, <1>3, <1>4, <1>5, <1>6, <1>7, <1>8

\* A push goes on to step k; its run may ask the desk.
LEMMA PushMoves ==
  ASSUME IInv, NEW r \in Runs, NEW k \in Pushes,
         push' = [push EXCEPT ![r] = k], UNCHANGED <<commits, main, parked, rec, back>>,
         clone' \in [Runs -> Clones],
         \A q \in Runs :
           /\ clone'[q].life = clone[q].life /\ clone'[q].mode = clone[q].mode
           /\ clone'[q].carries = clone[q].carries /\ clone'[q].base = clone[q].base
           /\ clone'[q].tree = clone[q].tree /\ clone'[q].head = clone[q].head
           /\ KnownOrNone(clone'[q].asked),
         k.step # "idle" => Known(k.head),
         k.step \in {"lane", "swap"} => Tree(k.head) \cap Barred = {},
         k.step = "swap" => Known(k.main) /\ is_ancestor(k.main, k.head),
         k.step \in {"journal", "landed"} => OnMain(k.head)
  PROVE  IInv'
<1> USE DEF IInv
<1>p. /\ push' \in [Runs -> Pushes] /\ push'[r] = k
      /\ \A q \in Runs : q # r => push'[q] = push[q]
  BY DEF TypeOK
<1>1. TypeOK'  BY <1>p DEF TypeOK
<1>2. Names'  BY <1>p DEF Names, Known, KnownOrNone
<1>3. History'  BY DEF History
<1>4. Clean'  BY <1>p DEF Clean, MainIsClean, Tree
<1>5. Swaps'  BY <1>p DEF Swaps, Known, is_ancestor
<1>6. Carriers'  BY Indices DEF Carriers, Commits
<1>7. References'  BY <1>p DEF References, OnMain
<1>8. Ends'  BY DEF Ends, Landed, Parked, Tree
<1> QED BY <1>1, <1>2, <1>3, <1>4, <1>5, <1>6, <1>7, <1>8

LEMMA BoxPushStep == ASSUME IInv, NEW r \in Runs, BoxPush(r) PROVE IInv'
<1> DEFINE k == [step |-> "box", head |-> clone[r].head, main |-> 0]
           d == [clone[r] EXCEPT !.bundle = clone[r].head]
<1>1. clone \in [Runs -> Clones] /\ clone[r].life \in {"up", "orphan"}
  BY DEF IInv, TypeOK, BoxPush, Working
<1>2. k \in Pushes /\ Known(k.head)
  BY <1>1 DEF IInv, Names, Pushes, Clones
<1>3. clone' = [clone EXCEPT ![r] = d] /\ d \in Clones
  BY <1>1 DEF BoxPush, Clones
<1>4. /\ d.life = clone[r].life /\ d.mode = clone[r].mode /\ d.carries = clone[r].carries
      /\ d.base = clone[r].base /\ d.tree = clone[r].tree /\ d.head = clone[r].head /\ d.asked = clone[r].asked
  BY <1>1 DEF Clones
<1>5. \A q \in Runs : KnownOrNone(clone[q].asked)
  BY DEF IInv, Names
<1>6. push' = [push EXCEPT ![r] = k] /\ UNCHANGED <<commits, main, parked, rec, back>>
  BY DEF BoxPush
<1>7. k.step = "box"
  OBVIOUS
<1> HIDE DEF k, d
<1> QED BY <1>1, <1>2, <1>3, <1>4, <1>5, <1>6, <1>7, PushMoves

LEMMA AskDeskStep == ASSUME IInv, NEW r \in Runs, AskDesk(r) PROVE IInv'
<1> DEFINE k == push[r]
           d == [clone[r] EXCEPT !.bundle = clone[r].head, !.asked = clone[r].head]
<1>1. /\ clone \in [Runs -> Clones] /\ clone[r].life \in {"up", "orphan"}
      /\ push \in [Runs -> Pushes]
  BY DEF IInv, TypeOK, AskDesk, Working
<1>2. /\ k \in Pushes
      /\ k.step # "idle" => Known(k.head)
      /\ k.step \in {"lane", "swap"} => Tree(k.head) \cap Barred = {}
      /\ k.step = "swap" => Known(k.main) /\ is_ancestor(k.main, k.head)
      /\ k.step \in {"journal", "landed"} => OnMain(k.head)
  BY <1>1 DEF IInv, Names, Clean, Swaps, References
<1>3. clone' = [clone EXCEPT ![r] = d] /\ d \in Clones
  BY <1>1 DEF AskDesk, Clones
<1>4. /\ d.life = clone[r].life /\ d.mode = clone[r].mode /\ d.carries = clone[r].carries
      /\ d.base = clone[r].base /\ d.tree = clone[r].tree /\ d.head = clone[r].head /\ d.asked = clone[r].head
  BY <1>1 DEF Clones
<1>5. \A q \in Runs : KnownOrNone(clone[q].asked) /\ KnownOrNone(clone[q].head)
  BY DEF IInv, Names
<1>6. push' = [push EXCEPT ![r] = k] /\ UNCHANGED <<commits, main, parked, rec, back>>
  BY <1>1 DEF AskDesk
<1> HIDE DEF k, d
<1> QED BY <1>1, <1>2, <1>3, <1>4, <1>5, <1>6, PushMoves

\* The steps of a push that leave its run alone.
LEMMA PushAlone ==
  ASSUME IInv, NEW r \in Runs, NEW k \in Pushes,
         push' = [push EXCEPT ![r] = k], UNCHANGED <<commits, main, parked, clone, rec, back>>,
         k.step # "idle" => Known(k.head),
         k.step \in {"lane", "swap"} => Tree(k.head) \cap Barred = {},
         k.step = "swap" => Known(k.main) /\ is_ancestor(k.main, k.head),
         k.step \in {"journal", "landed"} => OnMain(k.head)
  PROVE  IInv'
<1>1. clone' \in [Runs -> Clones] /\ \A q \in Runs : clone'[q] = clone[q] /\ KnownOrNone(clone[q].asked)
  BY DEF IInv, TypeOK, Names
<1> QED BY <1>1, PushMoves

LEMMA DeskPushStep == ASSUME IInv, NEW r \in Runs, DeskPush(r) PROVE IInv'
<1> DEFINE k == [step |-> "desk", head |-> clone[r].asked, main |-> 0]
<1>1. k \in Pushes /\ Known(k.head)
  BY DEF IInv, TypeOK, Names, KnownOrNone, DeskPush, Pushes, Clones
<1> QED BY <1>1, PushAlone DEF DeskPush

\* A push that goes to another step as it is.
LEMMA Retitled ==
  ASSUME TypeOK, NEW r \in Runs,
         NEW step \in {"idle", "box", "desk", "lane", "swap", "journal", "landed", "refused"}, To(r, step)
  PROVE  \E k \in Pushes : /\ push' = [push EXCEPT ![r] = k]
                           /\ k.step = step /\ k.head = push[r].head /\ k.main = push[r].main
<1> DEFINE k == [push[r] EXCEPT !.step = step]
<1>1. push \in [Runs -> Pushes]
  BY DEF TypeOK
<1>2. k \in Pushes /\ k.step = step /\ k.head = push[r].head /\ k.main = push[r].main
  BY <1>1 DEF Pushes
<1>3. push' = [push EXCEPT ![r] = k]
  BY <1>1 DEF To
<1> QED BY <1>2, <1>3

\* What validation lets pass is clean, since main is.
LEMMA ValidateStep == ASSUME IInv, NEW r \in Runs, Validate(r) PROVE IInv'
<1>1. /\ push[r].step # "idle" /\ Known(push[r].head) /\ TypeOK
      /\ UNCHANGED <<commits, main, parked, clone, rec, back>>
  BY DEF IInv, Names, Validate
<1>2. CASE To(r, "landed") /\ push[r].head = main
  BY <1>1, <1>2, Retitled, PushAlone DEF OnMain
<1>3. CASE To(r, "lane") /\ Landable(r)
  <2>1. Tree(push[r].head) \cap Barred = {}
    BY <1>3 DEF Landable, Acceptable, IInv, Clean, MainIsClean
  <2> QED BY <1>1, <1>3, <2>1, Retitled, PushAlone
<1>4. CASE To(r, "refused")
  BY <1>1, <1>4, Retitled, PushAlone
<1> QED BY <1>2, <1>3, <1>4 DEF Validate

LEMMA EnterLaneStep == ASSUME IInv, NEW r \in Runs, EnterLane(r) PROVE IInv'
<1>1. /\ push \in [Runs -> Pushes] /\ main \in DOMAIN commits /\ Known(push[r].head) /\ TypeOK
      /\ push[r].step = "lane" /\ Tree(push[r].head) \cap Barred = {}
      /\ UNCHANGED <<commits, main, parked, clone, rec, back>>
  BY DEF IInv, TypeOK, Names, Clean, EnterLane
<1>2. CASE MayAdvance(r) /\ push' = [push EXCEPT ![r] = [@ EXCEPT !.step = "swap", !.main = main]]
  <2> DEFINE k == [push[r] EXCEPT !.step = "swap", !.main = main]
  <2>1. push' = [push EXCEPT ![r] = k]
    BY <1>1, <1>2
  <2>2. k \in Pushes /\ k.step = "swap" /\ k.main = main /\ k.head = push[r].head
    BY <1>1, Indices DEF Pushes
  <2>3. is_ancestor(k.main, k.head) /\ Known(k.main)
    BY <1>1, <1>2, <2>2 DEF MayAdvance, is_ancestor, Known
  <2> HIDE DEF k
  <2> QED BY <1>1, <2>1, <2>2, <2>3, PushAlone
<1>3. CASE To(r, "refused")
  BY <1>1, <1>3, Retitled, PushAlone
<1> QED BY <1>2, <1>3 DEF EnterLane

LEMMA TimeoutStep == ASSUME IInv, NEW r \in Runs, LaneTimeout(r) \/ Journal(r) PROVE IInv'
<1>1. /\ push[r].step \in {"lane", "journal"} /\ Known(push[r].head) /\ TypeOK
      /\ push[r].step = "journal" => OnMain(push[r].head)
      /\ UNCHANGED <<commits, main, parked, clone, rec, back>>
  BY DEF IInv, Names, References, LaneTimeout, Journal
<1>2. To(r, "refused") \/ (push[r].step = "journal" /\ To(r, "landed"))
  BY DEF LaneTimeout, Journal
<1> QED BY <1>1, <1>2, Retitled, PushAlone

LEMMA PushDiesStep == ASSUME IInv, NEW r \in Runs, PushDies(r) PROVE IInv'
<1>1. Idle \in Pushes /\ Idle.step = "idle"
  BY DEF Idle, Pushes
<1> QED BY <1>1, PushAlone DEF PushDies

-----------------------------------------------------------------------------
(* The steps that touch more *)

\* main goes from the head that was compared to a descendant of it.
LEMMA SwapIsForward ==
  ASSUME IInv, NEW r \in Runs, push[r].step = "swap", main = push[r].main
  PROVE  is_ancestor(main, push[r].head)
  BY DEF IInv, Swaps

LEMMA SwapStep == ASSUME IInv, NEW r \in Runs, Swap(r) PROVE IInv'
<1>1. /\ push[r].step = "swap" /\ Known(push[r].head) /\ TypeOK
      /\ Tree(push[r].head) \cap Barred = {}
      /\ UNCHANGED <<commits, parked, clone, rec, back>>
  BY DEF IInv, Names, Clean, Swap
<1>2. CASE main = push[r].main /\ main' = push[r].head /\ To(r, "journal")
  <2>1. is_ancestor(main, main')
    BY <1>1, <1>2, SwapIsForward
  <2>2. main' \in DOMAIN commits /\ (main \in DOMAIN commits)
    BY <1>1, <1>2 DEF Known, TypeOK
  <2>3. \A c : OnMain(c) => OnMain(c)'
    BY <1>1, <2>1, <2>2 DEF OnMain, is_ancestor, IInv, History
  <2>4. \A t : Landed(t) => Landed(t)'
    BY <1>1, <2>1, <2>2 DEF Landed, Tree, is_ancestor, IInv, History
  <2>5. PICK k \in Pushes : /\ push' = [push EXCEPT ![r] = k]
                           /\ k.step = "journal" /\ k.head = push[r].head
    BY <1>1, <1>2, Retitled
  <2>6. /\ push' \in [Runs -> Pushes] /\ push'[r] = k
        /\ \A q \in Runs : q # r => push'[q] = push[q]
    BY <1>1, <2>5 DEF TypeOK
  <2> USE DEF IInv
  <2>7. TypeOK'  BY <1>1, <2>2, <2>6 DEF TypeOK
  <2>8. Names'  BY <1>1, <2>5, <2>6 DEF Names, Known, KnownOrNone
  <2>9. History'  BY <1>1 DEF History
  <2>10. Clean'  BY <1>1, <1>2, <2>5, <2>6 DEF Clean, MainIsClean, Tree
  <2>11. Swaps'  BY <1>1, <2>5, <2>6 DEF Swaps, Known, is_ancestor
  <2>12. Carriers'  BY <1>1, Indices DEF Carriers, Commits
  <2>13. References'
    <3>1. OnMain(push[r].head)'
      BY <1>2, <2>5, <2>6 DEF OnMain
    <3> QED BY <1>1, <1>2, <2>3, <2>5, <2>6, <3>1 DEF References, OnMain
  <2>14. Ends'  BY <1>1, <2>4 DEF Ends, Parked, Tree, Landed
  <2> QED BY <2>7, <2>8, <2>9, <2>10, <2>11, <2>12, <2>13, <2>14
<1>3. CASE To(r, "refused") /\ UNCHANGED main
  BY <1>1, <1>3, Retitled, PushAlone
<1> QED BY <1>2, <1>3 DEF Swap

\* The run's record changes: its commit is one that has landed, or none.
LEMMA RecordMoves ==
  ASSUME IInv, NEW r \in Runs, NEW state \in {"pushed", "push-refused", "backstop-failed", "backstopped"},
         NEW produced \in Nat, Update(r, state, produced),
         produced # 0 => Known(produced) /\ OnMain(produced)
  PROVE  /\ rec' \in [Runs -> Records]
         /\ \A q \in Runs : KnownOrNone(rec'[q].produced) /\ (rec'[q].produced # 0 => OnMain(rec'[q].produced))
<1> DEFINE d == [state |-> state, produced |-> produced]
<1>1. d \in Records /\ rec \in [Runs -> Records]
  BY DEF Records, IInv, TypeOK
<1>2. rec' = [rec EXCEPT ![r] = d] /\ d.produced = produced
  BY DEF Update
<1> HIDE DEF d
<1> QED BY <1>1, <1>2 DEF IInv, Names, References, KnownOrNone

LEMMA AnswerStep == ASSUME IInv, NEW r \in Runs, Answer(r) PROVE IInv'
<1> USE DEF IInv
<1>1. /\ Idle \in Pushes /\ Idle.step = "idle"
      /\ push' = [push EXCEPT ![r] = Idle] /\ UNCHANGED <<commits, main, parked, clone, back>>
  BY DEF Answer, Idle, Pushes
<1>2. /\ rec' \in [Runs -> Records]
      /\ \A q \in Runs : KnownOrNone(rec'[q].produced) /\ (rec'[q].produced # 0 => OnMain(rec'[q].produced))
  <2>1. CASE push[r].step = "landed" /\ Update(r, "pushed", push[r].head)
    <3>1. Known(push[r].head) /\ OnMain(push[r].head) /\ push[r].head \in Nat
      BY <2>1, Indices DEF Names, References, Known
    <3> QED BY <2>1, <3>1, RecordMoves
  <2>2. CASE Update(r, "push-refused", 0)
    BY <2>2, RecordMoves
  <2> QED BY <2>1, <2>2 DEF Answer
<1>3. /\ push' \in [Runs -> Pushes] /\ push'[r] = Idle
      /\ \A q \in Runs : q # r => push'[q] = push[q]
  BY <1>1 DEF TypeOK
<1>4. TypeOK'  BY <1>1, <1>2, <1>3 DEF TypeOK
<1>5. Names'  BY <1>1, <1>2, <1>3 DEF Names, Known, KnownOrNone
<1>6. History'  BY <1>1 DEF History
<1>7. Clean'  BY <1>1, <1>3 DEF Clean, MainIsClean, Tree
<1>8. Swaps'  BY <1>1, <1>3 DEF Swaps, Known, is_ancestor
<1>9. Carriers'  BY <1>1, Indices DEF Carriers, Commits
<1>10. References'  BY <1>1, <1>2, <1>3 DEF References, OnMain
<1>11. Ends'  BY <1>1 DEF Ends, Landed, Parked, Tree
<1> QED BY <1>4, <1>5, <1>6, <1>7, <1>8, <1>9, <1>10, <1>11

\* Every life but an ended one becomes another that has its base landed.
LEMMA DaemonDiesStep == ASSUME IInv, DaemonDies PROVE IInv'
<1> USE DEF IInv
<1>1. /\ UNCHANGED <<commits, main, parked, rec, back>>
      /\ clone \in [Runs -> Clones] /\ push \in [Runs -> Pushes]
      /\ Idle \in Pushes /\ Idle.step = "idle"
  BY DEF DaemonDies, TypeOK, Idle, Pushes
<1>2. push' \in [Runs -> Pushes] /\ \A q \in Runs : push'[q] \in {push[q], Idle}
  BY <1>1 DEF DaemonDies
<1>3. /\ clone' \in [Runs -> Clones]
      /\ \A q \in Runs :
           /\ clone'[q].life = CASE clone[q].life = "up" -> "orphan"
                                  [] clone[q].life = "exited" -> "over"
                                  [] OTHER -> clone[q].life
           /\ clone'[q].mode = clone[q].mode /\ clone'[q].carries = clone[q].carries
           /\ clone'[q].base = clone[q].base /\ clone'[q].tree = clone[q].tree
           /\ clone'[q].head = clone[q].head /\ clone'[q].asked = clone[q].asked
  <2> DEFINE life(q) == CASE clone[q].life = "up" -> "orphan"
                          [] clone[q].life = "exited" -> "over"
                          [] OTHER -> clone[q].life
             d(q) == [clone[q] EXCEPT !.life = life(q)]
  <2>1. \A q \in Runs : life(q) \in Lives
    BY <1>1 DEF Clones, Lives
  <2> HIDE DEF life
  <2>2. \A q \in Runs : /\ d(q) \in Clones /\ d(q).life = life(q) /\ d(q).mode = clone[q].mode
                        /\ d(q).carries = clone[q].carries /\ d(q).base = clone[q].base
                        /\ d(q).tree = clone[q].tree /\ d(q).head = clone[q].head
                        /\ d(q).asked = clone[q].asked
    BY <1>1, <2>1 DEF Clones
  <2>3. clone' = [q \in Runs |-> d(q)]
    BY DEF DaemonDies, life
  <2> HIDE DEF d
  <2>4. \A q \in Runs : clone'[q] = d(q)
    BY <2>3
  <2>5. clone' \in [Runs -> Clones]
    BY <2>2, <2>3
  <2> QED BY <2>2, <2>4, <2>5 DEF life
<1>4. TypeOK'  BY <1>1, <1>2, <1>3 DEF TypeOK
<1>5. Names'  BY <1>1, <1>2, <1>3 DEF Names, Known, KnownOrNone
<1>6. History'  BY <1>1 DEF History
<1>7. Clean'  BY <1>1, <1>2 DEF Clean, MainIsClean, Tree
<1>8. Swaps'  BY <1>1, <1>2 DEF Swaps, Known, is_ancestor
<1>9. Carriers'  BY <1>1, <1>3, Indices DEF Carriers, Commits, Ended
<1>10. References'  BY <1>1, <1>2, <1>3 DEF References, OnMain
<1>11. Ends'  BY <1>1, <1>3 DEF Ends, Landed, Parked, Tree
<1> QED BY <1>4, <1>5, <1>6, <1>7, <1>8, <1>9, <1>10, <1>11

-----------------------------------------------------------------------------
(* The end of a run *)

\* What finalizing changes but for a commit it parks.
LEMMA EndMoves ==
  ASSUME IInv, NEW r \in Runs, NEW k \in Clones, NEW b \in Backs,
         clone' = [clone EXCEPT ![r] = k], back' = [back EXCEPT ![r] = b],
         UNCHANGED <<commits, main, parked, push>>, rec' \in [Runs -> Records],
         \A q \in Runs : KnownOrNone(rec'[q].produced) /\ (rec'[q].produced # 0 => OnMain(rec'[q].produced)),
         k.mode = clone[r].mode, k.carries = clone[r].carries, k.base = clone[r].base,
         k.head = clone[r].head, k.asked = clone[r].asked,
         clone[r].life \in {"up", "orphan", "exited"}, k.life \in Ended,
         b = "differs" => k.mode # "read",
         k.life = "exited" /\ k.mode = "read" => k.tree = Tree(k.base),
         b = "parked" => Parked(k.tree, r),
         b = "done" => Landed(k.tree) \/ Parked(k.tree, r)
  PROVE  IInv'
<1> USE DEF IInv
<1>1. /\ clone' \in [Runs -> Clones] /\ clone'[r] = k /\ back' \in [Runs -> Backs] /\ back'[r] = b
      /\ \A q \in Runs : q # r => clone'[q] = clone[q] /\ back'[q] = back[q]
  BY DEF TypeOK
<1>2. TypeOK'  BY <1>1 DEF TypeOK
<1>3. Names'  BY <1>1 DEF Names, Known, KnownOrNone
<1>4. History'  BY DEF History
<1>5. Clean'  BY DEF Clean, MainIsClean, Tree
<1>6. Swaps'  BY DEF Swaps, Known, is_ancestor
<1>7. Carriers'  BY <1>1, Indices DEF Carriers, Commits, Ended
<1>8. References'  BY <1>1 DEF References, OnMain
<1>9. Ends'  BY <1>1 DEF Ends, Landed, Parked, Tree
<1> QED BY <1>2, <1>3, <1>4, <1>5, <1>6, <1>7, <1>8, <1>9

\* The records of runs that keep theirs.
LEMMA RecordsStay ==
  ASSUME IInv, UNCHANGED rec
  PROVE  /\ rec' \in [Runs -> Records]
         /\ \A q \in Runs : KnownOrNone(rec'[q].produced) /\ (rec'[q].produced # 0 => OnMain(rec'[q].produced))
  BY DEF IInv, TypeOK, Names, References

\* No box that runs has been finalized.
LEMMA BoxExitsStep ==
  ASSUME IInv, NEW r \in Runs, NEW t \in Leavings(r), BoxExits(r, t)
  PROVE  IInv'
<1> DEFINE k == [clone[r] EXCEPT !.tree = t, !.life = IF clone[r].life = "up" THEN "exited" ELSE "over"]
<1>1. /\ clone \in [Runs -> Clones] /\ back \in [Runs -> Backs]
      /\ clone[r].life \in {"up", "orphan"} /\ back[r] = "none"
      /\ clone[r].mode = "read" => t = Tree(clone[r].base)
  BY DEF IInv, TypeOK, BoxExits, Carriers, Ended
<1>2. t \in SUBSET Files
  BY <1>1, Indices DEF Leavings, IInv, Names, Known, KnownOrNone, Tree, Commits
<1>3. k \in Clones
  BY <1>1, <1>2 DEF Clones, Lives
<1>4. /\ k.mode = clone[r].mode /\ k.carries = clone[r].carries /\ k.base = clone[r].base
      /\ k.head = clone[r].head /\ k.asked = clone[r].asked /\ k.tree = t /\ k.life \in Ended
  BY <1>1 DEF Clones, Ended
<1>5. clone' = [clone EXCEPT ![r] = k]
  BY <1>1 DEF BoxExits
<1>6. /\ back' = [back EXCEPT ![r] = "none"] /\ "none" \in Backs
      /\ UNCHANGED <<commits, main, parked, push, rec>>
  BY <1>1 DEF BoxExits, Backs
<1> HIDE DEF k
<1> QED BY <1>1, <1>3, <1>4, <1>5, <1>6, RecordsStay, EndMoves

\* The clone of a run that finalizing leaves as it is.
LEMMA Alone ==
  ASSUME IInv, NEW r \in Runs, clone[r].life = "exited"
  PROVE  /\ clone[r] \in Clones /\ clone = [clone EXCEPT ![r] = clone[r]]
         /\ Known(clone[r].base) /\ OnMain(clone[r].base)
         /\ clone[r].mode = "read" => clone[r].tree = Tree(clone[r].base)
  BY DEF IInv, TypeOK, Names, References, Ends

\* What the run is answerable for has landed, and is one of the commits.
LEMMA ReferenceLanded ==
  ASSUME IInv, NEW r \in Runs, clone[r].life = "exited"
  PROVE  Known(Reference(r)) /\ OnMain(Reference(r))
  BY Alone DEF Reference, IInv, Names, KnownOrNone, References

LEMMA CompareStep == ASSUME IInv, NEW r \in Runs, Compare(r) PROVE IInv'
<1> DEFINE b == IF clone[r].mode = "read" \/ clone[r].tree = Tree(Reference(r)) THEN "done" ELSE "differs"
<1>1. /\ clone[r].life = "exited" /\ back' = [back EXCEPT ![r] = b]
      /\ UNCHANGED <<commits, main, parked, push, rec, clone>>
  BY DEF Compare, Finalizing
<1>2. /\ b \in Backs /\ b # "parked"
      /\ b = "differs" => clone[r].mode # "read"
      /\ b = "done" => clone[r].tree \in {Tree(clone[r].base), Tree(Reference(r))}
  BY <1>1, Alone DEF Backs
<1>3. b = "done" => Landed(clone[r].tree)
  BY <1>1, <1>2, Alone, ReferenceLanded DEF Landed, OnMain
<1>4. /\ clone[r] \in Clones /\ clone' = [clone EXCEPT ![r] = clone[r]] /\ clone[r].life \in Ended
      /\ clone[r].mode = "read" => clone[r].tree = Tree(clone[r].base)
  BY <1>1, Alone DEF Ended
<1> HIDE DEF b
<1> QED BY <1>1, <1>2, <1>3, <1>4, RecordsStay, EndMoves

LEMMA ParkFailsStep == ASSUME IInv, NEW r \in Runs, ParkFails(r) PROVE IInv'
<1>1. /\ clone[r].life = "exited" /\ back' = [back EXCEPT ![r] = "failed"] /\ "failed" \in Backs
      /\ Update(r, "backstop-failed", 0) /\ UNCHANGED <<commits, main, parked, push, clone>>
  BY DEF ParkFails, Finalizing, Backs
<1>2. /\ clone[r] \in Clones /\ clone' = [clone EXCEPT ![r] = clone[r]] /\ clone[r].life \in Ended
      /\ clone[r].mode = "read" => clone[r].tree = Tree(clone[r].base)
  BY <1>1, Alone DEF Ended
<1>3. /\ rec' \in [Runs -> Records]
      /\ \A q \in Runs : KnownOrNone(rec'[q].produced) /\ (rec'[q].produced # 0 => OnMain(rec'[q].produced))
  BY <1>1, RecordMoves
<1> QED BY <1>1, <1>2, <1>3, EndMoves

LEMMA NoteStep == ASSUME IInv, NEW r \in Runs, Note(r) PROVE IInv'
<1>1. /\ clone[r].life = "exited" /\ back' = [back EXCEPT ![r] = "done"] /\ "done" \in Backs
      /\ Update(r, "backstopped", 0) /\ UNCHANGED <<commits, main, parked, push, clone>>
      /\ Parked(clone[r].tree, r)
  BY DEF Note, Finalizing, Backs, IInv, Ends
<1>2. /\ clone[r] \in Clones /\ clone' = [clone EXCEPT ![r] = clone[r]] /\ clone[r].life \in Ended
      /\ clone[r].mode = "read" => clone[r].tree = Tree(clone[r].base)
  BY <1>1, Alone DEF Ended
<1>3. /\ rec' \in [Runs -> Records]
      /\ \A q \in Runs : KnownOrNone(rec'[q].produced) /\ (rec'[q].produced # 0 => OnMain(rec'[q].produced))
  BY <1>1, RecordMoves
<1> QED BY <1>1, <1>2, <1>3, EndMoves

LEMMA FinishStep == ASSUME IInv, NEW r \in Runs, Finish(r) PROVE IInv'
<1> DEFINE k == [clone[r] EXCEPT !.life = "over"]
<1>1. /\ clone[r].life = "exited" /\ back[r] \in {"done", "failed"}
      /\ clone' = [clone EXCEPT ![r].life = "over"] /\ UNCHANGED <<commits, main, parked, push, rec, back>>
  BY DEF Finish, Finalizing
<1>2. /\ clone \in [Runs -> Clones] /\ back' = [back EXCEPT ![r] = back[r]] /\ back[r] \in Backs
      /\ back[r] = "done" => Landed(clone[r].tree) \/ Parked(clone[r].tree, r)
  BY <1>1 DEF IInv, TypeOK, Ends
<1>3. clone' = [clone EXCEPT ![r] = k] /\ k \in Clones
  BY <1>1, <1>2 DEF Clones, Lives
<1>4. /\ k.mode = clone[r].mode /\ k.carries = clone[r].carries /\ k.base = clone[r].base
      /\ k.head = clone[r].head /\ k.asked = clone[r].asked /\ k.tree = clone[r].tree /\ k.life = "over"
  BY <1>2 DEF Clones
<1>5. k.life \in Ended /\ k.life # "exited" /\ back[r] \notin {"differs", "parked"}
  BY <1>1, <1>4 DEF Ended
<1>6. back[r] = "done" => Landed(k.tree) \/ Parked(k.tree, r)
  BY <1>2, <1>4
<1> HIDE DEF k
<1> QED BY <1>1, <1>2, <1>3, <1>4, <1>5, <1>6, RecordsStay, EndMoves

\* The run's worktree is parked on top of what it is answerable for.
LEMMA ParkStep == ASSUME IInv, NEW r \in Runs, Park(r) PROVE IInv'
<1> DEFINE c == Child(Reference(r), clone[r].tree, r)
           new == Len(commits')
<1> USE Indices DEF IInv
<1>1. /\ clone[r].life = "exited" /\ back[r] = "differs"
      /\ commits' = Append(commits, c) /\ parked' = [parked EXCEPT ![r] = new]
      /\ back' = [back EXCEPT ![r] = "parked"] /\ UNCHANGED <<main, clone, rec, push>>
  BY DEF Park, Finalizing
<1>2. Known(Reference(r)) /\ clone[r] \in Clones /\ (CleanRoom => ~ clone[r].carries)
  BY <1>1, ReferenceLanded, Alone DEF Carriers
<1>3. c \in Commits /\ c.tree = clone[r].tree /\ c.by = r
      /\ c.anc = commits[Reference(r)].anc \cup {Reference(r)}
  BY <1>2 DEF Child, Commits, Clones, Known
<1> HIDE DEF c
<1>4. /\ commits' \in Seq(Commits) /\ new \in Nat \ {0}
      /\ DOMAIN commits' = DOMAIN commits \cup {new}
      /\ new \notin DOMAIN commits
      /\ \A i \in DOMAIN commits : commits'[i] = commits[i]
      /\ commits'[new] = c
  BY <1>1, <1>3, AppendKeeps
<1> HIDE DEF new
<1>5. /\ parked' \in [Runs -> Nat] /\ parked'[r] = new /\ back' \in [Runs -> Backs] /\ back'[r] = "parked"
      /\ \A q \in Runs : q # r => parked'[q] = parked[q] /\ back'[q] = back[q]
  BY <1>1, <1>4 DEF TypeOK, Backs
<1>6. TypeOK'  BY <1>1, <1>4, <1>5 DEF TypeOK
<1>7. Names'  BY <1>1, <1>4, <1>5 DEF TypeOK, Names, Known, KnownOrNone
<1>8. History'  BY <1>2, <1>3, <1>4 DEF History, Known
<1>9. Clean'  BY <1>1, <1>4 DEF Clean, MainIsClean, Tree, TypeOK, Names, Known
<1>10. Swaps'  BY <1>1, <1>4 DEF Swaps, Names, Known, is_ancestor
<1>11. Carriers'  BY <1>1, <1>2, <1>3, <1>4, <1>5, RepoAssumption DEF Carriers, TypeOK, Commits, Ended
<1>12. References'  BY <1>1, <1>4 DEF References, OnMain, TypeOK
<1>13. Ends'
  <2>1. \A q \in Runs : clone[q].life = "exited" /\ clone[q].mode = "read" => clone[q].tree = Tree(clone[q].base)'
    BY <1>1, <1>4 DEF Tree, Names, Known, Ends
  <2>2. Parked(clone[r].tree, r)'
    BY <1>1, <1>3, <1>4, <1>5 DEF Parked, Tree
  <2>3. \A q \in Runs : q # r /\ Parked(clone[q].tree, q) => Parked(clone[q].tree, q)'
    BY <1>1, <1>4, <1>5 DEF Parked, Tree, Names, Known, KnownOrNone
  <2>4. \A q \in Runs : Landed(clone[q].tree) => Landed(clone[q].tree)'
    BY <1>1, <1>4 DEF Landed, Tree, TypeOK, History
  <2> QED BY <1>1, <1>5, <2>1, <2>2, <2>3, <2>4 DEF Ends
<1> QED BY <1>6, <1>7, <1>8, <1>9, <1>10, <1>11, <1>12, <1>13

-----------------------------------------------------------------------------
LEMMA NextIInv == IInv /\ [RepoNext]_repoVars => IInv'
<1> SUFFICES ASSUME IInv, [RepoNext]_repoVars PROVE IInv'
  OBVIOUS
<1>1. CASE UNCHANGED repoVars
  BY <1>1 DEF repoVars, IInv, TypeOK, Names, Known, KnownOrNone, History, Clean, MainIsClean, Tree, Swaps,
              is_ancestor, Carriers, References, OnMain, Ends, Landed, Parked
<1>2. ASSUME NEW r \in Runs, NEW c \in BOOLEAN, NEW e \in SUBSET Expirable, Provision(r, c, e)
      PROVE  IInv'
  BY <1>2, ProvisionStep
<1>3. ASSUME NEW r \in Runs, NEW c \in DOMAIN commits, NEW t \in SUBSET Files, Commit(r, c, t)
      PROVE  IInv'
  BY <1>3, CommitStep
<1>4. ASSUME NEW r \in Runs, PushStep(r) PROVE IInv'
  BY <1>4, BoxPushStep, AskDeskStep, DeskPushStep, ValidateStep, EnterLaneStep, TimeoutStep, SwapStep,
     AnswerStep DEF PushStep
<1>5. ASSUME NEW r \in Runs, EndStep(r) PROVE IInv'
  BY <1>5, BoxExitsStep, CompareStep, ParkStep, ParkFailsStep, NoteStep, FinishStep DEF EndStep
<1>6. ASSUME NEW r \in Runs, PushDies(r) PROVE IInv'
  BY <1>6, PushDiesStep
<1>7. CASE DaemonDies
  BY <1>7, DaemonDiesStep
<1> QED BY <1>1, <1>2, <1>3, <1>4, <1>5, <1>6, <1>7 DEF RepoNext

LEMMA Invariant == RepoSpec => []IInv
BY InitIInv, NextIInv, PTL DEF RepoSpec

\* No commit of a carrier exists at all, so none is in main's history.
LEMMA Trusted == IInv => MainIsTrusted
BY DEF IInv, MainIsTrusted, PersonSpaceStaysOut, Clean, Carriers, History, TypeOK

(* What main holds passed every rule of the repo's contract, for any number of
   runs, pushes, approvals and crashes: validation, the lane and the clean-room
   rule of knowledge.rs together keep MainIsTrusted.                          *)
THEOREM MainStaysTrusted == RepoSpec => []MainIsTrusted
BY Invariant, Trusted, PTL

(* Only the compare-and-swap of a push moves main, and always to a descendant:
   the fast-forward promise of docs/repos.md:50-52 needs no lock.             *)
THEOREM MainAdvances == RepoSpec => MainOnlyAdvances
<1>1. ASSUME IInv, [RepoNext]_repoVars PROVE [is_ancestor(main, main')]_main
  <2>1. ASSUME NEW r \in Runs, Swap(r) PROVE is_ancestor(main, main') \/ main' = main
    BY <1>1, <2>1, SwapIsForward DEF Swap
  <2>2. ASSUME NEW r \in Runs, PushStep(r) PROVE is_ancestor(main, main') \/ main' = main
    BY <2>1, <2>2 DEF PushStep, BoxPush, AskDesk, DeskPush, Validate, EnterLane, LaneTimeout, Journal, Answer
  <2>3. ASSUME NEW r \in Runs, EndStep(r) PROVE main' = main
    BY <2>3 DEF EndStep, BoxExits, Compare, Park, ParkFails, Note, Finish
  <2>4. ASSUME NEW r \in Runs, NEW c, NEW e, Provision(r, c, e) \/ Commit(r, c, e) \/ PushDies(r)
        PROVE  main' = main
    BY <2>4 DEF Provision, Commit, PushDies
  <2>5. DaemonDies \/ UNCHANGED repoVars => main' = main
    BY DEF DaemonDies, repoVars
  <2> QED BY <1>1, <2>2, <2>3, <2>4, <2>5 DEF RepoNext
<1> QED BY <1>1, Invariant, PTL DEF RepoSpec, MainOnlyAdvances

(* The backstop's promise (knowledge.rs:570): what a finalized run left has
   landed or is parked, whatever its own pushes, the desk's, those of other
   runs, prunings and crashes did meanwhile.                                  *)
THEOREM NothingIsLost == RepoSpec => []NothingLostSilently
<1>1. IInv => NothingLostSilently
  BY DEF IInv, Ends, NothingLostSilently
<1> QED BY <1>1, Invariant, PTL

-----------------------------------------------------------------------------
(* The store *)

Snapshot == [n : Nat, store : SUBSET Nat, channels : SUBSET Nat]
CopySteps == {"none", "pass", "passed", "undo", "undone", "listed"}
RestoreSteps == {"idle", "wait", "undo", "channels", "store"}

StoreTypeOK ==
  /\ store \in SUBSET Nat /\ channels \in SUBSET Nat
  /\ snaps \in Seq(Snapshot)
  /\ tmp \in [step : CopySteps, store : SUBSET Nat, channels : SUBSET Nat]
  /\ holder \in {"none", "pass", "restore"}
  /\ restore \in [step : RestoreSteps, pick : Nat, only : {"all", "channel"}]
  /\ items \in Nat

\* Whoever copies, and whoever puts back, holds the lock.
Locks ==
  /\ tmp.step \in {"pass", "passed", "listed"} => holder = "pass"
  /\ tmp.step \in {"undo", "undone"} => holder = "restore" /\ restore.step = "undo"
  /\ restore.step \in {"undo", "channels", "store"} => holder = "restore"
  /\ restore.step \in {"channels", "store"} => tmp.step = "none"

\* What has been copied is as it was: nobody writes meanwhile.
CopyIsCurrent ==
  /\ tmp.step \in {"pass", "passed", "undo", "undone"} => tmp.store = store
  /\ tmp.step \in {"passed", "undone"} => tmp.channels = channels

NowSeen == <<store, channels>> \in seen

In(s, x) == \E i \in DOMAIN s : x \in s[i].store \cup s[i].channels

\* What a restore is about to overwrite has been copied before.
Undoable ==
  /\ restore.step = "channels" => \A x \in store \cup channels : In(snaps, x)
  /\ restore.step = "store" => Picked # {} /\ \A x \in store : In(snaps, x)

StoreInv == StoreTypeOK /\ Locks /\ CopyIsCurrent /\ NowSeen /\ SnapshotsAreStates /\ Undoable

\* A list of snapshots with one more in front; one that has been cut short.
LEMMA Newest ==
  ASSUME NEW s \in Seq(Snapshot), NEW c \in Snapshot
  PROVE  /\ <<c>> \o s \in Seq(Snapshot)
         /\ \A i \in DOMAIN (<<c>> \o s) :
              (<<c>> \o s)[i] = c \/ \E j \in DOMAIN s : (<<c>> \o s)[i] = s[j]
         /\ \E i \in DOMAIN (<<c>> \o s) : (<<c>> \o s)[i] = c
<1> DEFINE one == <<c>>
           both == one \o s
           n == Len(s)
<1>1. one \in Seq(Snapshot) /\ Len(one) = 1 /\ one[1] = c OBVIOUS
<1>2. n \in Nat /\ DOMAIN s = 1..n BY LenProperties
<1> HIDE DEF one
<1>3. /\ both \in Seq(Snapshot) /\ Len(both) = 1 + n
      /\ \A i \in 1..(1 + n) : both[i] = IF i <= 1 THEN one[i] ELSE s[i - 1]
  <2>1. Len(one) = 1 /\ one \in Seq(Snapshot) BY <1>1
  <2>2. /\ one \o s \in Seq(Snapshot) /\ Len(one \o s) = Len(one) + Len(s)
        /\ \A i \in 1..Len(one) + Len(s) : (one \o s)[i] = IF i <= Len(one) THEN one[i] ELSE s[i - Len(one)]
    BY <2>1, ConcatProperties
  <2> QED BY <2>1, <2>2
<1> HIDE DEF both, n
<1>4. DOMAIN both = 1..(1 + n) BY <1>3, LenProperties
<1>5. \A i \in 1..(1 + n) : i = 1 \/ (~(i <= 1) /\ i - 1 \in 1..n) BY <1>2
<1>6. 1 \in 1..(1 + n) /\ 1 <= 1 BY <1>2
<1> QED BY <1>1, <1>2, <1>3, <1>4, <1>5, <1>6 DEF both, one

LEMMA Pruned ==
  ASSUME NEW s \in Seq(Snapshot)
  PROVE  /\ Prune(s) \in Seq(Snapshot)
         /\ \A i \in DOMAIN Prune(s) : \E j \in DOMAIN s : Prune(s)[i] = s[j]
<1> DEFINE n == Len(s)
           k == IF n < Keep THEN n ELSE Keep
<1>1. n \in Nat /\ DOMAIN s = 1..n BY LenProperties
<1>2. k \in Int /\ k <= n /\ Prune(s) = SubSeq(s, 1, k) /\ k \in Nat
  <2>1. Prune(s) = SubSeq(s, 1, k) BY DEF Prune
  <2> HIDE DEF n
  <2> QED BY <1>1, <2>1, StoreAssumption
<1> HIDE DEF k, n
<1>3. \A i \in 1..k : i \in 1..n BY <1>1, <1>2
<1>4. \A i \in 1..k : s[i] \in Snapshot BY <1>1, <1>3, ElementOfSeq DEF n
<1>5. /\ SubSeq(s, 1, k) \in Seq(Snapshot)
      /\ Len(SubSeq(s, 1, k)) = IF 1 <= k THEN k - 1 + 1 ELSE 0
      /\ \A i \in 1..(k - 1 + 1) : SubSeq(s, 1, k)[i] = s[1 + i - 1]
  BY <1>2, <1>4, SubSeqProperties
<1> DEFINE short == SubSeq(s, 1, k)
<1>6. DOMAIN short = 1..Len(short) BY <1>5, LenProperties
<1>7. Len(short) = k BY <1>2, <1>5
<1>8. \A i \in 1..k : i \in 1..(k - 1 + 1) /\ 1 + i - 1 = i BY <1>2
<1> QED BY <1>1, <1>2, <1>3, <1>5, <1>6, <1>7, <1>8

LEMMA InitStore == StoreInit => StoreInv
<1> SUFFICES ASSUME StoreInit PROVE StoreInv
  OBVIOUS
<1> USE DEF StoreInit, Blank, NoRestore
<1>1. snaps \in Seq(Snapshot) /\ DOMAIN snaps = {}
  BY EmptySeq, LenProperties
<1>2. StoreTypeOK BY <1>1 DEF StoreTypeOK, CopySteps, RestoreSteps
<1>3. Locks /\ CopyIsCurrent /\ Undoable BY DEF Locks, CopyIsCurrent, Undoable
<1>4. NowSeen BY DEF NowSeen
<1> QED BY <1>1, <1>2, <1>3, <1>4 DEF StoreInv, SnapshotsAreStates

\* The copy, once it is listed or found to be nothing new.
LEMMA Lists ==
  ASSUME StoreInv, Listed, tmp.step \in {"passed", "undone"}
  PROVE  /\ snaps' \in Seq(Snapshot)
         /\ \A i \in DOMAIN snaps' :
              <<snaps'[i].store, snaps'[i].channels>> \in seen
         /\ \A x \in store \cup channels : In(snaps', x)
<1> USE DEF StoreInv
<1>1. tmp.store = store /\ tmp.channels = channels BY DEF CopyIsCurrent
<1>2. Copy.store = store /\ Copy.channels = channels BY <1>1 DEF Copy
<1>3. snaps \in Seq(Snapshot) /\ \A i \in DOMAIN snaps : snaps[i] \in Snapshot
  <2>1. snaps \in Seq(Snapshot) BY DEF StoreTypeOK
  <2>2. DOMAIN snaps = 1..Len(snaps) BY <2>1, LenProperties
  <2> QED BY <2>1, <2>2, ElementOfSeq
<1>4. CASE snaps' = <<Copy>> \o snaps
  <2>1. Copy \in Snapshot
    <3>1. CASE snaps = <<>> BY <1>1, <3>1 DEF Copy, Snapshot, StoreTypeOK
    <3>2. CASE snaps # <<>>
      <4>1. 1 \in DOMAIN snaps BY <1>3, <3>2, EmptySeq, LenProperties
      <4>2. snaps[1].n \in Nat BY <1>3, <4>1 DEF Snapshot
      <4> QED BY <1>1, <3>2, <4>2 DEF Copy, Snapshot, StoreTypeOK
    <3> QED BY <3>1, <3>2
  <2> DEFINE c == Copy
  <2>2. c.store = store /\ c.channels = channels /\ c \in Snapshot BY <1>2, <2>1
  <2> HIDE DEF c
  <2>3. snaps' = <<c>> \o snaps BY <1>4 DEF c
  <2>4. /\ snaps' \in Seq(Snapshot)
        /\ \A i \in DOMAIN snaps' : snaps'[i] = c \/ \E j \in DOMAIN snaps : snaps'[i] = snaps[j]
        /\ \E i \in DOMAIN snaps' : snaps'[i] = c
    BY <1>3, <2>2, <2>3, Newest
  <2>5. <<c.store, c.channels>> \in seen BY <2>2 DEF NowSeen
  <2>6. \A i \in DOMAIN snaps' : <<snaps'[i].store, snaps'[i].channels>> \in seen
    BY <2>4, <2>5 DEF SnapshotsAreStates
  <2>7. \A x \in store \cup channels : In(snaps', x)
    BY <2>2, <2>4 DEF In
  <2> QED BY <2>4, <2>6, <2>7
<1>5. CASE Unchanged /\ UNCHANGED snaps
  <2>1. 1 \in DOMAIN snaps BY <1>3, <1>5, EmptySeq, LenProperties DEF Unchanged
  <2>2. \A x \in store \cup channels : In(snaps', x)
    <3>1. store \subseteq snaps[1].store /\ channels \subseteq snaps[1].channels
      BY <1>2, <1>5 DEF Unchanged
    <3> QED BY <1>5, <2>1, <3>1 DEF In
  <2> QED BY <1>3, <1>5, <2>2 DEF SnapshotsAreStates
<1> QED BY <1>4, <1>5 DEF Listed

LEMMA NextStore == StoreInv /\ [StoreNext]_storeVars => StoreInv'
<1> SUFFICES ASSUME StoreInv, [StoreNext]_storeVars PROVE StoreInv'
  OBVIOUS
<1> USE DEF StoreInv
<1>1. CASE BoxAdds \/ BoxDeletes
  <2>1. /\ store' \in SUBSET Nat /\ channels' \in SUBSET Nat /\ items' \in Nat
    <3>1. store \subseteq Nat /\ channels \subseteq Nat /\ items \in Nat BY DEF StoreTypeOK
    <3>2. CASE BoxAdds
      <4>1. items' \in Nat BY <3>1, <3>2 DEF BoxAdds
      <4>2. store' \subseteq store \cup {items'} /\ channels' \subseteq channels \cup {items'}
        BY <3>2 DEF BoxAdds
      <4> QED BY <3>1, <4>1, <4>2
    <3>3. CASE BoxDeletes
      <4>1. store' \subseteq store /\ channels' \subseteq channels /\ items' = items
        BY <3>3 DEF BoxDeletes
      <4> QED BY <3>1, <4>1
    <3> QED BY <1>1, <3>2, <3>3
  <2>2. /\ holder = "none" /\ UNCHANGED <<snaps, tmp, holder, restore>>
        /\ seen' = seen \cup {<<store', channels'>>}
    BY <1>1 DEF BoxAdds, BoxDeletes, Seen
  <2>3. StoreTypeOK' BY <2>1, <2>2 DEF StoreTypeOK
  <2>4. Locks' BY <2>2 DEF Locks
  <2>5. CopyIsCurrent' BY <2>2 DEF Locks, CopyIsCurrent
  <2>6. NowSeen' BY <2>2 DEF NowSeen
  <2>7. SnapshotsAreStates' BY <2>2 DEF SnapshotsAreStates
  <2>8. Undoable' BY <2>2 DEF Locks, Undoable
  <2> QED BY <2>3, <2>4, <2>5, <2>6, <2>7, <2>8
<1>2. CASE PassBegins
  <2>1. /\ holder = "none" /\ holder' = "pass" /\ UNCHANGED <<store, channels, snaps, restore, items, seen>>
        /\ tmp' = [step |-> "pass", store |-> store, channels |-> {}]
    BY <1>2 DEF PassBegins, Locked, Blank
  <2>2. StoreTypeOK' BY <2>1 DEF StoreTypeOK, CopySteps
  <2>3. Locks' BY <2>1 DEF Locks
  <2>4. CopyIsCurrent' BY <2>1 DEF CopyIsCurrent
  <2>5. NowSeen' /\ SnapshotsAreStates' BY <2>1 DEF NowSeen, SnapshotsAreStates
  <2>6. Undoable' BY <2>1 DEF Locks, Undoable
  <2> QED BY <2>2, <2>3, <2>4, <2>5, <2>6
<1>3. CASE CopyChannels
  <2>1. /\ tmp.step \in {"pass", "undo"} /\ UNCHANGED <<store, channels, snaps, holder, restore, items, seen>>
        /\ tmp'.step = IF tmp.step = "pass" THEN "passed" ELSE "undone"
        /\ tmp'.store = tmp.store /\ tmp'.channels = channels
        /\ tmp' \in [step : CopySteps, store : SUBSET Nat, channels : SUBSET Nat]
    BY <1>3 DEF CopyChannels, StoreTypeOK, CopySteps
  <2>2. StoreTypeOK' BY <2>1 DEF StoreTypeOK
  <2>3. Locks' BY <2>1 DEF Locks
  <2>4. CopyIsCurrent' BY <2>1 DEF CopyIsCurrent
  <2>5. NowSeen' /\ SnapshotsAreStates' BY <2>1 DEF NowSeen, SnapshotsAreStates
  <2>6. Undoable' BY <2>1 DEF Undoable, Picked
  <2> QED BY <2>2, <2>3, <2>4, <2>5, <2>6
<1>4. CASE PassLists
  <2>1. /\ tmp.step = "passed" /\ Listed /\ UNCHANGED <<store, channels, holder, restore, items, seen>>
        /\ tmp' = [step |-> "listed", store |-> {}, channels |-> {}]
    BY <1>4 DEF PassLists, Blank
  <2>2. /\ snaps' \in Seq(Snapshot)
        /\ \A i \in DOMAIN snaps' : <<snaps'[i].store, snaps'[i].channels>> \in seen
    BY <2>1, Lists
  <2>3. StoreTypeOK' BY <2>1, <2>2 DEF StoreTypeOK, CopySteps
  <2>4. Locks' BY <2>1 DEF Locks
  <2>5. CopyIsCurrent' BY <2>1 DEF CopyIsCurrent
  <2>6. NowSeen' /\ SnapshotsAreStates' BY <2>1, <2>2 DEF NowSeen, SnapshotsAreStates
  <2>7. Undoable' BY <2>1 DEF Locks, Undoable
  <2> QED BY <2>3, <2>4, <2>5, <2>6, <2>7
<1>5. CASE PassPrunes
  <2>1. /\ tmp.step = "listed" /\ holder' = "none" /\ UNCHANGED <<store, channels, restore, items, seen>>
        /\ tmp' = [step |-> "none", store |-> {}, channels |-> {}] /\ snaps' = Prune(snaps)
    BY <1>5 DEF PassPrunes, Blank
  <2>2. /\ snaps' \in Seq(Snapshot)
        /\ \A i \in DOMAIN snaps' : \E j \in DOMAIN snaps : snaps'[i] = snaps[j]
    BY <2>1, Pruned DEF StoreTypeOK
  <2>3. StoreTypeOK' BY <2>1, <2>2 DEF StoreTypeOK, CopySteps
  <2>4. Locks' BY <2>1 DEF Locks
  <2>5. CopyIsCurrent' BY <2>1 DEF CopyIsCurrent
  <2>6. NowSeen' BY <2>1 DEF NowSeen
  <2>7. SnapshotsAreStates' BY <2>1, <2>2 DEF SnapshotsAreStates
  <2>8. Undoable' BY <2>1 DEF Locks, Undoable
  <2> QED BY <2>3, <2>4, <2>5, <2>6, <2>7, <2>8
<1>6. CASE Pick
  <2>1. /\ restore = NoRestore /\ UNCHANGED <<store, channels, snaps, tmp, holder, items, seen>>
        /\ restore'.step = "wait"
        /\ restore' \in [step : RestoreSteps, pick : Nat, only : {"all", "channel"}]
    <3>1. PICK i \in DOMAIN snaps, only \in {"all", "channel"} :
            restore' = [step |-> "wait", pick |-> snaps[i].n, only |-> only]
      BY <1>6 DEF Pick
    <3>2. snaps[i] \in Snapshot
      <4>1. snaps \in Seq(Snapshot) BY DEF StoreTypeOK
      <4>2. i \in 1..Len(snaps) BY <4>1, LenProperties
      <4> QED BY <4>1, <4>2, ElementOfSeq
    <3>3. snaps[i].n \in Nat BY <3>2 DEF Snapshot
    <3> QED BY <1>6, <3>1, <3>3 DEF Pick, RestoreSteps
  <2>2. restore.step = "idle" BY <2>1 DEF NoRestore
  <2>3. StoreTypeOK' BY <2>1 DEF StoreTypeOK
  <2>4. Locks' BY <2>1, <2>2 DEF Locks
  <2>5. CopyIsCurrent' /\ NowSeen' /\ SnapshotsAreStates'
    BY <2>1 DEF CopyIsCurrent, NowSeen, SnapshotsAreStates
  <2>6. Undoable' BY <2>1 DEF Undoable
  <2> QED BY <2>3, <2>4, <2>5, <2>6
<1>7. CASE RestoreLocks
  <2>1. /\ holder = "none" /\ holder' = "restore" /\ UNCHANGED <<store, channels, snaps, items, seen>>
        /\ tmp' = [step |-> "undo", store |-> store, channels |-> {}]
        /\ restore' = [restore EXCEPT !.step = "undo"]
    BY <1>7 DEF RestoreLocks, UndoFirst, Locked, Blank
  <2>2. StoreTypeOK' /\ restore'.step = "undo" BY <2>1 DEF StoreTypeOK, CopySteps, RestoreSteps
  <2>3. Locks' BY <2>1, <2>2 DEF Locks
  <2>4. CopyIsCurrent' BY <2>1 DEF CopyIsCurrent
  <2>5. NowSeen' /\ SnapshotsAreStates' BY <2>1 DEF NowSeen, SnapshotsAreStates
  <2>6. Undoable' BY <2>2 DEF Undoable
  <2> QED BY <2>2, <2>3, <2>4, <2>5, <2>6
<1>8. CASE Undo
  <2>1. /\ tmp.step = "undone" /\ Listed /\ UNCHANGED <<store, channels, holder, items, seen>>
        /\ tmp' = [step |-> "none", store |-> {}, channels |-> {}]
        /\ restore' = [restore EXCEPT !.step = "channels"]
    BY <1>8 DEF Undo, Blank
  <2>2. /\ snaps' \in Seq(Snapshot)
        /\ \A i \in DOMAIN snaps' : <<snaps'[i].store, snaps'[i].channels>> \in seen
        /\ \A x \in store \cup channels : In(snaps', x)
    BY <2>1, Lists
  <2>3. StoreTypeOK' /\ restore'.step = "channels"
    BY <2>1, <2>2 DEF StoreTypeOK, CopySteps, RestoreSteps
  <2>4. Locks' BY <2>1, <2>3 DEF Locks
  <2>5. CopyIsCurrent' BY <2>1 DEF CopyIsCurrent
  <2>6. NowSeen' /\ SnapshotsAreStates' BY <2>1, <2>2 DEF NowSeen, SnapshotsAreStates
  <2>7. Undoable' BY <2>1, <2>2, <2>3 DEF Undoable
  <2> QED BY <2>3, <2>4, <2>5, <2>6, <2>7
<1>9. CASE RestoreChannels
  <2>1. /\ restore.step = "channels" /\ UNCHANGED <<store, snaps, tmp, items>>
        /\ seen' = seen \cup {<<store', channels'>>}
        /\ \/ restore' = NoRestore /\ holder' = "none"
           \/ restore' = [restore EXCEPT !.step = "store"] /\ UNCHANGED holder /\ Picked # {}
    BY <1>9 DEF RestoreChannels, Seen, Done
  <2>2. channels' \in SUBSET Nat
    <3>1. CASE Picked = {} BY <1>9, <3>1 DEF RestoreChannels, StoreTypeOK
    <3>2. CASE Picked # {}
      <4> DEFINE i == CHOOSE j \in Picked : TRUE
      <4>1. i \in Picked BY <3>2
      <4>2. i \in DOMAIN snaps BY <4>1 DEF Picked
      <4>3. snaps \in Seq(Snapshot) BY DEF StoreTypeOK
      <4>4. snaps[i] \in Snapshot BY <4>2, <4>3, LenProperties, ElementOfSeq
      <4>5. channels' = snaps[i].channels BY <1>9, <3>2 DEF RestoreChannels
      <4> HIDE DEF i
      <4> QED BY <4>4, <4>5 DEF Snapshot
    <3> QED BY <3>1, <3>2
  <2>3. /\ restore' \in [step : RestoreSteps, pick : Nat, only : {"all", "channel"}]
        /\ restore' = NoRestore => restore'.step = "idle"
        /\ restore' = [restore EXCEPT !.step = "store"] => restore'.step = "store" /\ restore'.pick = restore.pick
    BY <2>1 DEF NoRestore, StoreTypeOK, RestoreSteps
  <2>4. StoreTypeOK' BY <2>1, <2>2, <2>3 DEF StoreTypeOK
  <2>5. tmp.step = "none" /\ holder = "restore" BY <2>1 DEF Locks
  <2>6. Locks' BY <2>1, <2>3, <2>5 DEF Locks
  <2>7. CopyIsCurrent' BY <2>1, <2>5 DEF CopyIsCurrent
  <2>8. NowSeen' /\ SnapshotsAreStates' BY <2>1 DEF NowSeen, SnapshotsAreStates
  <2>9. Undoable' BY <2>1, <2>3 DEF Undoable, Picked
  <2> QED BY <2>4, <2>6, <2>7, <2>8, <2>9
<1>10. CASE RestoreStore
  <2>1. /\ restore.step = "store" /\ UNCHANGED <<channels, snaps, tmp, items>>
        /\ seen' = seen \cup {<<store', channels'>>}
        /\ restore' = NoRestore /\ holder' = "none"
    BY <1>10 DEF RestoreStore, Seen, Done
  <2>2. store' \in SUBSET Nat
    <3> DEFINE i == CHOOSE j \in Picked : TRUE
    <3>1. i \in Picked BY <2>1 DEF Undoable
    <3>2. i \in DOMAIN snaps BY <3>1 DEF Picked
    <3>3. snaps \in Seq(Snapshot) BY DEF StoreTypeOK
    <3>4. snaps[i] \in Snapshot BY <3>2, <3>3, LenProperties, ElementOfSeq
    <3>5. store' = snaps[i].store BY <1>10 DEF RestoreStore
    <3> HIDE DEF i
    <3> QED BY <3>4, <3>5 DEF Snapshot
  <2>3. restore'.step = "idle" /\ restore' \in [step : RestoreSteps, pick : Nat, only : {"all", "channel"}]
    BY <2>1 DEF NoRestore, RestoreSteps
  <2>4. StoreTypeOK' BY <2>1, <2>2, <2>3 DEF StoreTypeOK
  <2>5. tmp.step = "none" BY <2>1 DEF Locks
  <2>6. Locks' BY <2>1, <2>3, <2>5 DEF Locks
  <2>7. CopyIsCurrent' BY <2>1, <2>5 DEF CopyIsCurrent
  <2>8. NowSeen' /\ SnapshotsAreStates' BY <2>1 DEF NowSeen, SnapshotsAreStates
  <2>9. Undoable' BY <2>3 DEF Undoable
  <2> QED BY <2>4, <2>6, <2>7, <2>8, <2>9
<1>11. CASE Dies
  <2>1. /\ holder' = "none" /\ tmp' = [step |-> "none", store |-> {}, channels |-> {}]
        /\ UNCHANGED <<store, channels, snaps, items, seen>> /\ holder # "none"
        /\ restore' = IF holder = "restore" THEN NoRestore ELSE restore
    BY <1>11 DEF Dies, Blank
  <2>2. StoreTypeOK' BY <2>1 DEF StoreTypeOK, CopySteps, RestoreSteps, NoRestore
  <2>3. restore'.step \in {"idle", "wait"}
    BY <2>1 DEF StoreTypeOK, RestoreSteps, Locks, NoRestore
  <2>4. Locks' BY <2>1, <2>3 DEF Locks
  <2>5. CopyIsCurrent' BY <2>1 DEF CopyIsCurrent
  <2>6. NowSeen' /\ SnapshotsAreStates' BY <2>1 DEF NowSeen, SnapshotsAreStates
  <2>7. Undoable' BY <2>3 DEF Undoable
  <2> QED BY <2>2, <2>4, <2>5, <2>6, <2>7
<1>12. CASE UNCHANGED storeVars
  BY <1>12 DEF storeVars, StoreTypeOK, Locks, CopyIsCurrent, NowSeen, SnapshotsAreStates, Undoable, Picked
<1> QED BY <1>1, <1>2, <1>3, <1>4, <1>5, <1>6, <1>7, <1>8, <1>9, <1>10, <1>11, <1>12 DEF StoreNext

(* store.rs:63, 124, 145: every snapshot is a state that the worker's files were
   in, though it is copied in two passes, for any boxes, passes, restores and
   deaths between.                                                            *)
THEOREM SnapshotsWereStates == StoreSpec => []SnapshotsAreStates
<1>1. StoreInv => SnapshotsAreStates BY DEF StoreInv
<1> QED BY <1>1, InitStore, NextStore, PTL DEF StoreSpec

(* store.rs:229: what a restore removes is in a snapshot that is still there.  *)
THEOREM RestoresAreUndoable == StoreSpec => RestoreIsUndoable
<1> DEFINE Kept == holder = "restore" => \A x \in (store \cup channels) \ (store' \cup channels') :
                     \E i \in DOMAIN snaps : x \in snaps[i].store \cup snaps[i].channels
<1>1. ASSUME StoreInv, [StoreNext]_storeVars PROVE [Kept]_storeVars
  <2>1. CASE UNCHANGED <<store, channels>> BY <2>1
  <2>2. CASE BoxAdds \/ BoxDeletes BY <2>2 DEF BoxAdds, BoxDeletes
  <2>3. CASE RestoreChannels
    <3>1. restore.step = "channels" BY <2>3 DEF RestoreChannels
    <3> QED BY <1>1, <3>1 DEF StoreInv, Undoable, In
  <2>4. CASE RestoreStore
    <3>1. restore.step = "store" /\ UNCHANGED channels BY <2>4 DEF RestoreStore
    <3> QED BY <1>1, <3>1 DEF StoreInv, Undoable, In
  <2> QED BY <1>1, <2>1, <2>2, <2>3, <2>4
        DEF StoreNext, storeVars, PassBegins, CopyChannels, PassLists, PassPrunes, Pick, RestoreLocks, Undo, Dies
<1>2. RestoreIsUndoable <=> [][Kept]_storeVars BY DEF RestoreIsUndoable
<1> QED BY <1>1, <1>2, InitStore, NextStore, PTL DEF StoreSpec
=============================================================================
