---------------------------- MODULE ListenProofs ----------------------------
(***************************************************************************)
(* Proofs about what listens: the lock of serve, for any number of         *)
(* processes and acquisitions; Slack's listener, for any catch-ups, posts  *)
(* and faults; and the histories of linked channels, for any surfaces,     *)
(* messages, commands and kills.                                           *)
(*                                                                         *)
(* The file is read, judged and removed in three steps, so it excludes     *)
(* nobody by itself.  What is proved is how far it carries: while no two   *)
(* acquisitions have overlapped, whoever removes a lock as stale removes   *)
(* nobody's (RemovesNobodys), and one process listens.                     *)
(*                                                                         *)
(* Of a post Slack has shown, either it was handled, or somebody has it in *)
(* hand, or it lies ahead of the cursor and of all that may yet move the   *)
(* cursor (Ahead), where the next catch-up finds it.                       *)
(*                                                                         *)
(* A message said on a surface is in the file of the surface's channel,    *)
(* or, while a link has been saved and the surface's own file waits to be  *)
(* merged (Pending), in that one; never in both, but between the write of  *)
(* the merge and the rename that puts the surface's file aside (Doubled).  *)
(* That the merge is in order is a fact about ranks: a line's place is the *)
(* number of lines no later than it, so every place is taken once.         *)
(***************************************************************************)
EXTENDS Listen, Slack, Links, SequenceTheorems, FiniteSetTheorems, TLAPS

Lock == [token : Nat, by : ServerProcs, text : BOOLEAN]

Steps == {"stopped", "create", "write", "found", "remove", "listening", "release", "dead"}

TypeOK ==
  /\ lock \in Lock \cup {NoLock}
  /\ proc \in [ServerProcs -> [step : Steps, token : Nat, tries : Int]]
  /\ mints \in Nat
  /\ raced \in BOOLEAN

OneAcquires == \A p, q \in ServerProcs : Acquiring(p) /\ Acquiring(q) => p = q

HasLock(p, text) ==
  /\ lock # NoLock /\ lock.by = p
  /\ lock.token = proc[p].token /\ lock.text = text

WritesItsOwn == \A p \in ServerProcs : proc[p].step = "write" => HasLock(p, FALSE)

ListensWithLock == \A p \in Listening : HasLock(p, TRUE)

RemovesNobodys == (\E p \in ServerProcs : proc[p].step = "remove") => Listening = {}

Alone == OneAcquires /\ WritesItsOwn /\ ListensWithLock /\ RemovesNobodys

IInv == TypeOK /\ (~ raced => Alone)

-----------------------------------------------------------------------------
LEMMA InitIInv == ListenInit => IInv
<1> SUFFICES ASSUME ListenInit PROVE IInv
  OBVIOUS
<1>1. \A p \in ServerProcs : proc[p].step = "stopped"
  BY DEF ListenInit, Stopped
<1>2. TypeOK
  <2>1. Stopped \in [step : Steps, token : Nat, tries : Int]
    BY DEF Stopped, Steps
  <2> QED BY <2>1 DEF ListenInit, TypeOK
<1>3. Alone
  BY <1>1 DEF Alone, OneAcquires, WritesItsOwn, ListensWithLock, RemovesNobodys, Acquiring, Listening
<1> QED BY <1>2, <1>3 DEF IInv

LEMMA AcquireStep == ASSUME IInv, NEW p \in ServerProcs, Acquire(p) PROVE IInv'
<1> USE DEF IInv, TypeOK, Acquire
<1>1. TypeOK'  BY DEF Steps, Acquiring
<1>2. ASSUME ~ raced' PROVE Alone'
  <2>1. ~ raced /\ \A q \in ServerProcs : ~ Acquiring(q)
    BY <1>2
  <2>2. OneAcquires'  BY <2>1 DEF OneAcquires, Acquiring
  <2>3. WritesItsOwn'  BY <2>1 DEF Alone, WritesItsOwn, HasLock
  <2>4. ListensWithLock'  BY <2>1 DEF Alone, ListensWithLock, HasLock, Listening
  <2>5. RemovesNobodys'  BY <2>1 DEF Acquiring, RemovesNobodys
  <2> QED BY <2>2, <2>3, <2>4, <2>5 DEF Alone
<1> QED BY <1>1, <1>2

LEMMA CreateStep == ASSUME IInv, NEW p \in ServerProcs, Create(p) PROVE IInv'
<1> USE ListenAssumption DEF IInv, TypeOK, Go
<1> DEFINE new == [token |-> proc[p].token, by |-> p, text |-> FALSE]
<1>a. new \in Lock
  BY DEF Lock
<1>n. new # NoLock
  BY <1>a DEF Lock
<1>b. \/ /\ lock = NoLock /\ lock' = new /\ proc' = [proc EXCEPT ![p].step = "write"]
      \/ /\ lock # NoLock /\ lock' = lock /\ proc' = [proc EXCEPT ![p].step = "found"]
  BY DEF Create
<1>c. proc[p].step = "create" /\ UNCHANGED <<mints, raced>>
  BY DEF Create
<1>1. TypeOK'  BY <1>a, <1>b, <1>c DEF Steps
<1>2. ASSUME ~ raced PROVE Alone'
  <2>0. \A q \in ServerProcs : Acquiring(q) => q = p
    BY <1>2, <1>c DEF Alone, OneAcquires, Acquiring
  <2>1. OneAcquires'  BY <2>0, <1>b DEF OneAcquires, Acquiring
  <2>2. WritesItsOwn'
    <3> SUFFICES ASSUME NEW q \in ServerProcs, proc'[q].step = "write" PROVE HasLock(q, FALSE)'
      BY DEF WritesItsOwn
    <3>1. q = p
      BY <2>0, <1>b DEF Acquiring
    <3> QED BY <3>1, <1>n, <1>b DEF HasLock
  <2>3. ListensWithLock'  BY <1>2, <1>b DEF Alone, ListensWithLock, HasLock, Listening
  <2>4. RemovesNobodys'  BY <2>0, <1>b, <1>c DEF RemovesNobodys, Acquiring, Listening
  <2> QED BY <2>1, <2>2, <2>3, <2>4 DEF Alone
<1> QED BY <1>1, <1>2, <1>c

\* The record goes to the file that was created, which nobody else has removed.
LEMMA WriteStep == ASSUME IInv, NEW p \in ServerProcs, WriteRecord(p) PROVE IInv'
<1> USE ListenAssumption DEF IInv, TypeOK, WriteRecord, Go
<1>1. TypeOK'  BY DEF Steps, Lock
<1>2. ASSUME ~ raced PROVE Alone'
  <2>0. HasLock(p, FALSE) /\ lock' = [lock EXCEPT !.text = TRUE] /\ lock \in Lock
    BY <1>2 DEF Alone, WritesItsOwn, HasLock
  <2>1. OneAcquires'  BY <1>2 DEF Alone, OneAcquires, Acquiring
  <2>2. WritesItsOwn'  BY <1>2 DEF Alone, WritesItsOwn, OneAcquires, Acquiring
  <2>3. ListensWithLock'
    <3>1. Listening' = {p}
      BY <1>2, <2>0 DEF Alone, ListensWithLock, HasLock, Listening
    <3>2. HasLock(p, TRUE)'
      <4>1. lock \in [token : Nat, by : ServerProcs, text : BOOLEAN] /\ lock # NoLock BY <2>0 DEF Lock, HasLock
      <4>2. lock'.by = lock.by /\ lock'.token = lock.token /\ lock'.text = TRUE /\ lock' # NoLock
        BY <2>0, <4>1
      <4>3. proc'[p].token = proc[p].token OBVIOUS
      <4> QED BY <2>0, <4>2, <4>3 DEF HasLock
    <3> QED BY <3>1, <3>2 DEF ListensWithLock
  <2>4. RemovesNobodys'  BY <1>2 DEF Alone, RemovesNobodys, OneAcquires, Acquiring
  <2> QED BY <2>1, <2>2, <2>3, <2>4 DEF Alone
<1> QED BY <1>1, <1>2

\* A lock that is judged stale is no listener's: a listener lives, and has written it.
LEMMA JudgeStep == ASSUME IInv, NEW p \in ServerProcs, JudgeLock(p) PROVE IInv'
<1> USE ListenAssumption DEF IInv, TypeOK, JudgeLock, Go
<1>1. TypeOK'  BY DEF Steps
<1>2. ASSUME ~ raced PROVE Alone'
  <2>1. OneAcquires'  BY <1>2 DEF Alone, OneAcquires, Acquiring
  <2>2. WritesItsOwn'  BY <1>2 DEF Alone, WritesItsOwn, HasLock
  <2>3. ListensWithLock'  BY <1>2 DEF Alone, ListensWithLock, HasLock, Listening
  <2>4. RemovesNobodys'
    BY <1>2 DEF Alone, RemovesNobodys, ListensWithLock, HasLock, Listening, held, Alive, OneAcquires, Acquiring
  <2> QED BY <2>1, <2>2, <2>3, <2>4 DEF Alone
<1> QED BY <1>1, <1>2

LEMMA RemoveStaleStep == ASSUME IInv, NEW p \in ServerProcs, RemoveStale(p) PROVE IInv'
<1> USE ListenAssumption DEF IInv, TypeOK, RemoveStale
<1>1. TypeOK'  BY DEF Steps
<1>2. ASSUME ~ raced PROVE Alone'
  <2>1. OneAcquires'  BY <1>2 DEF Alone, OneAcquires, Acquiring
  <2>2. WritesItsOwn'  BY <1>2 DEF Alone, WritesItsOwn, OneAcquires, Acquiring
  <2>3. Listening' = {}  BY <1>2 DEF Alone, RemovesNobodys, Listening
  <2> QED BY <2>1, <2>2, <2>3 DEF Alone, ListensWithLock, RemovesNobodys
<1> QED BY <1>1, <1>2

\* The steps that leave the lock as it is, and end an acquisition or a listener.
LEMMA EndStep == ASSUME IInv, NEW p \in ServerProcs, GivesUp(p) \/ Release(p) \/ Dies(p) PROVE IInv'
<1> USE ListenAssumption DEF IInv, TypeOK, GivesUp, Release, Dies, Go
<1>1. TypeOK'  BY DEF Steps
<1>2. ASSUME ~ raced PROVE Alone'
  <2>1. OneAcquires'  BY <1>2 DEF Alone, OneAcquires, Acquiring
  <2>2. WritesItsOwn'  BY <1>2 DEF Alone, WritesItsOwn, HasLock
  <2>3. ListensWithLock'  BY <1>2 DEF Alone, ListensWithLock, HasLock, Listening
  <2>4. RemovesNobodys'  BY <1>2 DEF Alone, RemovesNobodys, Listening
  <2> QED BY <2>1, <2>2, <2>3, <2>4 DEF Alone
<1> QED BY <1>1, <1>2

\* Who leaves removes the lock, which is its own.
LEMMA RemoveOwnStep == ASSUME IInv, NEW p \in ServerProcs, RemoveOwn(p) PROVE IInv'
<1> USE ListenAssumption DEF IInv, TypeOK, RemoveOwn, Go
<1>1. TypeOK'  BY DEF Steps
<1>2. ASSUME ~ raced PROVE Alone'
  <2>0. p \in Listening  BY DEF Listening
  <2>1. OneAcquires'  BY <1>2 DEF Alone, OneAcquires, Acquiring
  <2>2. WritesItsOwn'  BY <1>2, <2>0 DEF Alone, WritesItsOwn, ListensWithLock, HasLock
  <2>3. Listening' = {}  BY <1>2, <2>0 DEF Alone, ListensWithLock, HasLock, Listening
  <2> QED BY <2>1, <2>2, <2>3 DEF Alone, ListensWithLock, RemovesNobodys
<1> QED BY <1>1, <1>2

LEMMA NextIInv == IInv /\ [ListenNext]_listen => IInv'
<1> SUFFICES ASSUME IInv, [ListenNext]_listen PROVE IInv'
  OBVIOUS
<1>1. CASE UNCHANGED listen
  BY <1>1 DEF listen, IInv, TypeOK, Alone, OneAcquires, WritesItsOwn, ListensWithLock, RemovesNobodys,
      HasLock, Acquiring, Listening
<1>2. CASE ListenNext
  BY <1>2, AcquireStep, CreateStep, WriteStep, JudgeStep, RemoveStaleStep, EndStep, RemoveOwnStep
  DEF ListenNext
<1> QED BY <1>1, <1>2

(* While no two acquisitions of the lock have overlapped, at most one process
   listens, and it has the lock, whoever died or left before (listen.rs:45).  *)
THEOREM ListensAlone == ListenSpec => []OneListener
<1>1. ASSUME IInv PROVE OneListener
  <2> SUFFICES ASSUME ~ raced
               PROVE  /\ Cardinality(Listening) <= 1
                      /\ \A p \in Listening : lock # NoLock /\ lock.by = p /\ lock.text
    BY DEF OneListener
  <2>1. \A p \in Listening : HasLock(p, TRUE)
    BY <1>1 DEF IInv, Alone, ListensWithLock
  <2>2. CASE Listening = {}
    BY <2>1, <2>2, FS_EmptySet
  <2>3. CASE Listening # {}
    <3>1. PICK p : Listening = {p}
      BY <2>1, <2>3 DEF HasLock
    <3> QED BY <2>1, <3>1, FS_Singleton DEF HasLock
  <2> QED BY <2>2, <2>3
<1> QED BY InitIInv, NextIInv, <1>1, PTL DEF ListenSpec

-----------------------------------------------------------------------------
(* The Slack listener: its catch-ups' passes over the history, what is yet *)
(* to be handled, and who has it in hand.                                  *)

TaskSteps == {"idle", "cursor", "first", "page", "each", "handle"}

Pass == [step : TaskSteps, oldest : Nat, below : Nat, pages : Nat, got : Seq(Posts)]

SlackTypeOK ==
  /\ posted \in 0..MaxPosts /\ origin \in 0..posted
  /\ mark \in {NoMark} \cup 0..posted
  /\ socket \in BOOLEAN
  /\ wire \in Seq(Posts) /\ seenIds \in Seq(Posts)
  /\ unacked \in SUBSET (1..posted)
  /\ current \in {0} \cup Posts
  /\ task \in [Tasks -> Pass]
  /\ times \in [Posts -> Nat]
  /\ troubles \in [sockets : Nat, repeats : Nat, outages : Nat, deaths : Nat]

\* Nothing is ahead of what has been posted.
NothingAhead ==
  /\ \A i \in 1..Len(wire) : wire[i] <= posted
  /\ \A t \in Tasks : /\ task[t].oldest <= posted /\ task[t].below <= posted
                      /\ \A i \in 1..Len(task[t].got) : task[t].got[i] <= posted
  /\ \A t \in Tasks : task[t].step \in {"each", "handle"} => task[t].got # <<>>
  /\ \A t \in Tasks : task[t].step = "first" => task[t].got = <<>>
  /\ \A t \in Tasks : task[t].step = "idle" => task[t] = Resting
  /\ \A t \in Tasks : task[t].step = "page" => task[t].oldest <= task[t].below

\* An id that is kept belongs to a post that was handled, or is.
IsKept(m) == \E i \in 1..Len(seenIds) : seenIds[i] = m
KeptAreHandled == \A m \in Posts : IsKept(m) => times[m] > 0 \/ m = current

\* A death forgets the ids; short of one a post is handled live once.
LiveOnce ==
  \A m \in Posts : m \notin forgotten =>
    \/ times[m] <= troubles.deaths /\ current # m
    \/ IsKept(m) /\ times[m] <= troubles.deaths + 1 /\ (current = m => times[m] <= troubles.deaths)

Handled(m) == times[m] > 0 \/ m \in again \cup excused

\* What a catch-up that has the cursor is yet to fetch or to handle.
Owes(k, m) ==
  \/ k.step = "first" /\ m > k.oldest
  \/ k.step = "page" /\ m > k.oldest /\ m <= k.below
  \/ k.step \in {"page", "each", "handle"} /\ \E i \in 1..Len(k.got) : k.got[i] = m

\* Nobody has it in hand.
Open(m) == /\ m \in (origin + 1)..posted /\ ~ Handled(m) /\ m # current
           /\ \A t \in Tasks : ~ Owes(task[t], m)

OnWire(m) == \E i \in 1..Len(wire) : wire[i] = m /\ \A j \in 1..(i - 1) : wire[j] < m

AtCursor == \E t \in Tasks : task[t].step = "cursor"

Beyond(k, m) ==
  /\ k.step # "first"
  /\ k.step = "page" => k.below < m
  /\ k.step \in {"page", "each", "handle"} => \A i \in 1..Len(k.got) : k.got[i] < m

\* A post that nobody has in hand is after the cursor and after whatever may move
\* it, and will be fetched from there: by a catch-up that is at the cursor, by the
\* next connection's, or else it is on the wire, behind older ones only.
Ahead == \A m \in Posts : Open(m) =>
  /\ m > mark
  /\ socket => AtCursor \/ OnWire(m)
  /\ \A t \in Tasks : Beyond(task[t], m)

SlackBase == SlackTypeOK /\ NothingAhead
SlackInv == SlackBase /\ (CursorFirst => Ahead) /\ KeptAreHandled /\ LiveOnce

-----------------------------------------------------------------------------
LEMMA RestingIsTyped ==
  /\ Resting \in Pass /\ Resting.step = "idle" /\ Resting.oldest = 0 /\ Resting.below = 0
  /\ Resting.got = <<>> /\ Len(Resting.got) = 0
  BY EmptySeq DEF Resting, Pass, TaskSteps

LEMMA TroubleIsTyped ==
  ASSUME troubles \in [sockets : Nat, repeats : Nat, outages : Nat, deaths : Nat],
         NEW kind \in {"sockets", "repeats", "outages", "deaths"}, Trouble(kind)
  PROVE  /\ troubles' \in [sockets : Nat, repeats : Nat, outages : Nat, deaths : Nat]
         /\ kind # "deaths" => troubles'.deaths = troubles.deaths
         /\ kind = "deaths" => troubles'.deaths = troubles.deaths + 1
  BY DEF Trouble

LEMMA IsHead ==
  ASSUME NEW s \in Seq(Posts), s # <<>>
  PROVE  /\ Len(s) > 0 /\ Len(s) \in Nat /\ Head(s) = s[1] /\ Head(s) \in Posts
         /\ Tail(s) \in Seq(Posts) /\ Len(Tail(s)) = Len(s) - 1
         /\ \A i \in 1..(Len(s) - 1) : Tail(s)[i] = s[i + 1]
<1>1. Len(s) > 0 /\ Len(s) \in Nat BY EmptySeq, LenProperties
<1> QED BY <1>1, HeadTailProperties

LEMMA IsLast ==
  ASSUME NEW s \in Seq(Posts), NEW m \in Posts
  PROVE  /\ Append(s, m) \in Seq(Posts) /\ Len(s) \in Nat /\ Len(Append(s, m)) = Len(s) + 1
         /\ \A i \in 1..Len(s) : Append(s, m)[i] = s[i]
         /\ Append(s, m)[Len(s) + 1] = m
  BY AppendProperties, LenProperties

LEMMA InitSlack == SlackInit => SlackInv
<1> SUFFICES ASSUME SlackInit PROVE SlackInv
  OBVIOUS
<1> USE DEF SlackInit
<1>1. \A t \in Tasks : task[t] = Resting BY RestingIsTyped
<1>2. <<>> \in Seq(Posts) /\ Len(<<>>) = 0 BY EmptySeq
<1>3. SlackTypeOK
  <2>1. times \in [Posts -> Nat] /\ task \in [Tasks -> Pass] BY RestingIsTyped
  <2>2. troubles \in [sockets : Nat, repeats : Nat, outages : Nat, deaths : Nat] OBVIOUS
  <2>3. posted \in 0..MaxPosts /\ mark \in {NoMark} \cup 0..posted /\ origin \in 0..posted
    BY SlackAssumption
  <2> QED BY <1>2, <2>1, <2>2, <2>3 DEF SlackTypeOK
<1>4. NothingAhead BY <1>1, <1>2, RestingIsTyped DEF NothingAhead
<1>5. Ahead BY DEF Ahead, Open
<1>6. KeptAreHandled BY <1>2 DEF KeptAreHandled, IsKept
<1>7. LiveOnce BY DEF LiveOnce, Posts
<1> QED BY <1>3, <1>4, <1>5, <1>6, <1>7 DEF SlackInv, SlackBase

-----------------------------------------------------------------------------
(* What a catch-up becomes *)

LEMMA Turns ==
  ASSUME SlackBase, NEW t \in Tasks, NEW k \in Pass, task' = [task EXCEPT ![t] = k],
         k.oldest <= posted, k.below <= posted, \A i \in 1..Len(k.got) : k.got[i] <= posted,
         k.step \in {"each", "handle"} => k.got # <<>>,
         k.step = "first" => k.got = <<>>, k.step = "idle" => k = Resting,
         k.step = "page" => k.oldest <= k.below,
         UNCHANGED <<posted, wire, seenIds, unacked, socket, current, times>>,
         origin' \in 0..posted, mark' \in {NoMark} \cup 0..posted,
         troubles' \in [sockets : Nat, repeats : Nat, outages : Nat, deaths : Nat]
  PROVE  /\ SlackBase' /\ task'[t] = k
         /\ \A u \in Tasks : u # t => task'[u] = task[u]
<1> USE DEF SlackBase
<1>1. /\ task' \in [Tasks -> Pass] /\ task'[t] = k
      /\ \A u \in Tasks : u # t => task'[u] = task[u]
  BY DEF SlackTypeOK
<1>2. SlackTypeOK' BY <1>1 DEF SlackTypeOK
<1>3. NothingAhead' BY <1>1 DEF NothingAhead
<1> QED BY <1>1, <1>2, <1>3

\* A catch-up's step puts nothing out of hand: Ahead then needs its own place only.
LEMMA StaysAhead ==
  ASSUME SlackBase, Ahead, NEW t \in Tasks, \A u \in Tasks : u # t => task'[u] = task[u],
         UNCHANGED <<posted, current, times, socket, wire>>, again \subseteq again', excused \subseteq excused',
         origin' \in Nat, origin <= origin',
         \A m \in (origin' + 1)..posted : Owes(task[t], m) => Owes(task'[t], m) \/ m \in again' \cup excused',
         \A m \in Posts : Open(m) /\ Open(m)' => m > mark' /\ Beyond(task'[t], m) /\ task[t].step # "cursor"
  PROVE  Ahead'
<1> SUFFICES ASSUME NEW m \in Posts, Open(m)'
             PROVE  /\ m > mark' /\ (socket' => AtCursor' \/ OnWire(m)')
                    /\ \A u \in Tasks : Beyond(task'[u], m)
  BY DEF Ahead
<1>1. m \in (origin' + 1)..posted /\ m \in (origin + 1)..posted
  <2>0. \A a, b, c \in Nat : a <= b => (b + 1)..c \subseteq (a + 1)..c OBVIOUS
  <2>1. m \in (origin' + 1)..posted BY DEF Open
  <2>2. origin \in Nat /\ posted \in Nat /\ m \in Nat
    BY SlackAssumption DEF SlackBase, SlackTypeOK, Posts
  <2>3. (origin' + 1)..posted \subseteq (origin + 1)..posted BY <2>0, <2>2
  <2> QED BY <2>1, <2>3
<1>2. ~ Handled(m)' /\ m # current /\ \A u \in Tasks : ~ Owes(task'[u], m)
  BY DEF Open
<1>3. ~ Handled(m) /\ m \notin again' \cup excused' BY <1>2 DEF Handled
<1>4. Open(m) BY <1>1, <1>2, <1>3 DEF Open
<1>5. m > mark' /\ Beyond(task'[t], m) /\ task[t].step # "cursor" BY <1>4
<1>6. (socket => AtCursor \/ OnWire(m)) /\ \A u \in Tasks : Beyond(task[u], m) BY <1>4 DEF Ahead
<1>7. OnWire(m) => OnWire(m)' BY DEF OnWire
<1>8. AtCursor => AtCursor' BY <1>5 DEF AtCursor
<1> QED BY <1>5, <1>6, <1>7, <1>8

\* What has to do with live events alone.
LEMMA LiveStays ==
  ASSUME KeptAreHandled, LiveOnce, UNCHANGED <<seenIds, times, current, forgotten>>,
         troubles'.deaths = troubles.deaths
  PROVE  KeptAreHandled' /\ LiveOnce'
  BY DEF KeptAreHandled, LiveOnce, IsKept

-----------------------------------------------------------------------------
(* Slack and the socket *)

LEMMA PostKeeps == ASSUME SlackInv, Post PROVE SlackInv'
<1> USE DEF SlackInv, SlackBase, Post
<1> DEFINE p == posted + 1
<1>1. /\ posted \in Nat /\ p \in Posts /\ posted' = p /\ p <= MaxPosts
      /\ wire \in Seq(Posts) /\ MaxPosts \in Nat
  BY SlackAssumption DEF SlackTypeOK, Posts
<1> HIDE DEF p
<1>2. /\ UNCHANGED <<mark, socket, seenIds, current, task, times, again, forgotten, origin, excused, troubles>>
      /\ \/ socket /\ wire' = Append(wire, p) /\ unacked' = unacked \cup {p}
         \/ ~ socket /\ UNCHANGED <<wire, unacked>>
  BY DEF Tally, SlackTypeOK, p
<1>3. /\ wire' \in Seq(Posts) /\ \A i \in 1..Len(wire) : i \in 1..Len(wire') /\ wire'[i] = wire[i]
      /\ socket => /\ Len(wire) + 1 \in 1..Len(wire') /\ wire'[Len(wire) + 1] = p
                   /\ Len(wire') = Len(wire) + 1
      /\ ~ socket => wire' = wire
      /\ Len(wire) \in Nat
  <2>1. Len(wire) \in Nat BY <1>1, LenProperties
  <2>2. CASE socket
    <3>1. /\ Append(wire, p) \in Seq(Posts) /\ Len(Append(wire, p)) = Len(wire) + 1
          /\ \A i \in 1..Len(wire) : Append(wire, p)[i] = wire[i]
          /\ Append(wire, p)[Len(wire) + 1] = p
      BY <1>1, IsLast
    <3> DEFINE n == Len(wire)
    <3>2. \A i \in 1..n : i \in 1..(n + 1) OBVIOUS
    <3>3. n + 1 \in 1..(n + 1) BY <2>1
    <3> QED BY <1>2, <2>1, <2>2, <3>1, <3>2, <3>3
  <2>3. CASE ~ socket BY <1>1, <1>2, <2>1, <2>3
  <2> QED BY <2>2, <2>3
<1>4. SlackTypeOK'
  <2>1. posted' \in 0..MaxPosts /\ mark' \in {NoMark} \cup 0..posted'
    BY <1>1, <1>2 DEF SlackTypeOK, p
  <2>2. unacked' \in SUBSET (1..posted')
    <3>1. unacked \subseteq 1..posted BY DEF SlackTypeOK
    <3>2. 1..posted \subseteq 1..posted' /\ p \in 1..posted' BY <1>1 DEF p
    <3> QED BY <1>2, <3>1, <3>2
  <2> QED BY <1>2, <1>3, <2>1, <2>2 DEF SlackTypeOK
<1>5. NothingAhead'
  <2>1. \A x \in Nat : x <= posted => x <= posted' BY <1>1 DEF p
  <2>2. \A i \in 1..Len(wire') : wire'[i] <= posted'
    <3> TAKE i \in 1..Len(wire')
    <3>1. CASE i \in 1..Len(wire)
      <4>1. wire[i] \in Posts /\ wire[i] <= posted BY <1>1, <3>1, ElementOfSeq DEF NothingAhead
      <4> QED BY <1>3, <2>1, <3>1, <4>1 DEF Posts
    <3>2. CASE i \notin 1..Len(wire)
      <4> DEFINE n == Len(wire)
      <4>1. socket /\ Len(wire') = n + 1 BY <1>3, <3>2
      <4>2. i \in 1..(n + 1) /\ i \notin 1..n BY <3>2, <4>1
      <4>3. n \in Nat BY <1>3
      <4> HIDE DEF n
      <4>4. i = n + 1 BY <4>2, <4>3
      <4>5. wire'[i] = p BY <1>3, <4>1, <4>4 DEF n
      <4> QED BY <1>1, <4>5 DEF Posts
    <3> QED BY <3>1, <3>2
  <2>3. \A t \in Tasks : /\ task[t].oldest \in Nat /\ task[t].below \in Nat
                         /\ \A i \in 1..Len(task[t].got) : task[t].got[i] \in Nat
    <3> TAKE t \in Tasks
    <3>1. task[t] \in Pass BY DEF SlackTypeOK
    <3>2. task[t].got \in Seq(Posts) BY <3>1 DEF Pass
    <3>3. \A i \in 1..Len(task[t].got) : task[t].got[i] \in Posts BY <3>2, ElementOfSeq
    <3> QED BY <3>1, <3>3 DEF Pass, Posts
  <2> QED BY <1>2, <2>1, <2>2, <2>3 DEF NothingAhead
<1>6. ASSUME CursorFirst PROVE Ahead'
  <2> SUFFICES ASSUME NEW m \in Posts, Open(m)'
               PROVE  /\ m > mark /\ (socket => AtCursor \/ OnWire(m)')
                      /\ \A t \in Tasks : Beyond(task[t], m)
    BY <1>2 DEF Ahead, AtCursor
  <2>1. /\ m \in (origin + 1)..p /\ ~ Handled(m) /\ m # current
        /\ \A t \in Tasks : ~ Owes(task[t], m)
    BY <1>1, <1>2 DEF Open, Handled
  <2>2. m \in (origin + 1)..posted \/ m = p BY <1>1, <2>1 DEF SlackTypeOK, p
  <2>3. CASE m \in (origin + 1)..posted
    <3>1. Open(m) BY <2>1, <2>3 DEF Open
    <3>2. /\ m > mark /\ (socket => AtCursor \/ OnWire(m)) /\ \A t \in Tasks : Beyond(task[t], m)
      BY <1>6, <3>1 DEF Ahead
    <3>3. OnWire(m) => OnWire(m)'
      <4> SUFFICES ASSUME NEW i \in 1..Len(wire), wire[i] = m, \A j \in 1..(i - 1) : wire[j] < m
                   PROVE  OnWire(m)'
        BY DEF OnWire
      <4> DEFINE n == Len(wire)
      <4>1. i \in 1..n /\ n \in Nat BY <1>3
      <4>2. \A j \in 1..(i - 1) : j \in 1..n
        <5> HIDE DEF n
        <5> QED BY <4>1
      <4> QED BY <1>3, <4>2 DEF OnWire
    <3> QED BY <3>2, <3>3
  <2>4. CASE m = p
    <3>1. p > mark BY <1>1 DEF SlackTypeOK, NoMark, p
    <3>2. socket => OnWire(m)'
      <4> SUFFICES ASSUME socket PROVE OnWire(m)'
        OBVIOUS
      <4> DEFINE n == Len(wire)
      <4>1. n + 1 \in 1..Len(wire') /\ wire'[n + 1] = p /\ n \in Nat BY <1>3
      <4>2. (n + 1) - 1 = n BY <4>1
      <4>3. \A j \in 1..n : wire'[j] < p
        <5> TAKE j \in 1..n
        <5>1. wire'[j] = wire[j] BY <1>3
        <5>2. wire[j] <= posted BY DEF NothingAhead
        <5>3. wire[j] \in Posts BY <1>1, ElementOfSeq
        <5> QED BY <1>1, <5>1, <5>2, <5>3 DEF Posts, p
      <4> QED BY <2>4, <4>1, <4>2, <4>3 DEF OnWire
    <3>3. ASSUME NEW t \in Tasks PROVE Beyond(task[t], p)
      <4>1. task[t] \in Pass BY DEF SlackTypeOK
      <4>2. task[t].got \in Seq(Posts) /\ task[t].oldest \in Nat /\ task[t].below \in Nat
        BY <4>1 DEF Pass
      <4>3. \A i \in 1..Len(task[t].got) : task[t].got[i] \in Posts /\ task[t].got[i] <= posted
        BY <4>2, ElementOfSeq DEF NothingAhead
      <4>4. \A x \in Nat : x <= posted => x < p BY <1>1 DEF p
      <4>5. task[t].below < p /\ task[t].oldest < p BY <4>2, <4>4 DEF NothingAhead
      <4>6. task[t].step # "first"
        BY <2>1, <2>4, <4>2, <4>5 DEF Owes
      <4>7. \A i \in 1..Len(task[t].got) : task[t].got[i] < p BY <4>3, <4>4 DEF Posts
      <4> QED BY <4>5, <4>6, <4>7 DEF Beyond
    <3> QED BY <2>4, <3>1, <3>2, <3>3
  <2> QED BY <2>2, <2>3, <2>4
<1>7. KeptAreHandled' /\ LiveOnce' BY <1>2, LiveStays
<1> QED BY <1>4, <1>5, <1>6, <1>7

LEMMA RedeliverKeeps == ASSUME SlackInv, NEW m \in Posts, Redeliver(m) PROVE SlackInv'
<1> USE DEF SlackInv, SlackBase
<1>1. /\ m \in unacked /\ wire' = Append(wire, m) /\ wire \in Seq(Posts)
      /\ UNCHANGED <<posted, mark, socket, unacked, seenIds, current, task, times, again, forgotten, origin, excused>>
      /\ Trouble("repeats")
  BY DEF Redeliver, Tally, SlackTypeOK
<1>2. /\ troubles' \in [sockets : Nat, repeats : Nat, outages : Nat, deaths : Nat]
      /\ troubles'.deaths = troubles.deaths
  BY <1>1, TroubleIsTyped DEF SlackTypeOK
<1>3. /\ wire' \in Seq(Posts) /\ Len(wire) \in Nat /\ Len(wire') = Len(wire) + 1
      /\ \A i \in 1..Len(wire) : wire'[i] = wire[i]
      /\ wire'[Len(wire) + 1] = m
  BY <1>1, IsLast
<1> DEFINE n == Len(wire)
<1>4. \A i \in 1..Len(wire') : i \in 1..n \/ i = n + 1
  <2>1. n \in Nat /\ Len(wire') = n + 1 BY <1>3
  <2>2. \A i \in 1..(n + 1) : i \in 1..n \/ i = n + 1
    <3> HIDE DEF n
    <3> QED BY <2>1
  <2> QED BY <2>1, <2>2
<1>5. \A i \in 1..n : i \in 1..Len(wire') /\ \A j \in 1..(i - 1) : j \in 1..n
  <2>1. n \in Nat /\ Len(wire') = n + 1 BY <1>3
  <2>2. \A i \in 1..n : i \in 1..(n + 1) /\ \A j \in 1..(i - 1) : j \in 1..n
    <3> HIDE DEF n
    <3> QED BY <2>1
  <2> QED BY <2>1, <2>2
<1>6. SlackTypeOK' BY <1>1, <1>2, <1>3 DEF SlackTypeOK
<1>7. NothingAhead'
  <2>1. m <= posted BY <1>1 DEF SlackTypeOK
  <2>2. \A i \in 1..Len(wire') : wire'[i] <= posted BY <1>3, <1>4, <2>1 DEF NothingAhead
  <2> QED BY <1>1, <2>2 DEF NothingAhead
<1>8. \A x : OnWire(x) => OnWire(x)' BY <1>3, <1>5 DEF OnWire
<1>9. \A x : Open(x)' => Open(x) BY <1>1 DEF Open, Handled
<1>10. CursorFirst => Ahead' BY <1>1, <1>8, <1>9 DEF Ahead, AtCursor
<1>11. KeptAreHandled' /\ LiveOnce' BY <1>1, <1>2, LiveStays
<1> QED BY <1>6, <1>7, <1>10, <1>11

LEMMA DisconnectKeeps == ASSUME SlackInv, Disconnect PROVE SlackInv'
<1> USE DEF SlackInv, SlackBase
<1>1. /\ socket' = FALSE /\ wire' = <<>> /\ Trouble("sockets")
      /\ UNCHANGED <<posted, mark, unacked, seenIds, current, task, times, again, forgotten, origin, excused>>
  BY DEF Disconnect, Tally
<1>2. /\ troubles' \in [sockets : Nat, repeats : Nat, outages : Nat, deaths : Nat]
      /\ troubles'.deaths = troubles.deaths
  BY <1>1, TroubleIsTyped DEF SlackTypeOK
<1>3. <<>> \in Seq(Posts) /\ Len(<<>>) = 0 BY EmptySeq
<1>4. SlackTypeOK' BY <1>1, <1>2, <1>3 DEF SlackTypeOK
<1>5. NothingAhead' BY <1>1, <1>3 DEF NothingAhead
<1>6. \A x : Open(x)' => Open(x) BY <1>1 DEF Open, Handled
<1>7. CursorFirst => Ahead' BY <1>1, <1>6 DEF Ahead
<1>8. KeptAreHandled' /\ LiveOnce' BY <1>1, <1>2, LiveStays
<1> QED BY <1>4, <1>5, <1>7, <1>8

LEMMA HelloKeeps == ASSUME SlackInv, NEW t \in Tasks, Hello(t) PROVE SlackInv'
<1> USE DEF SlackInv, SlackBase
<1> DEFINE k == [Resting EXCEPT !.step = "cursor"]
<1>1. k \in Pass /\ k.step = "cursor" /\ k.oldest = 0 /\ k.below = 0 /\ k.got = <<>>
  BY RestingIsTyped DEF Pass, TaskSteps
<1>2. /\ task[t] = Resting /\ socket' = TRUE /\ task' = [task EXCEPT ![t] = k]
      /\ UNCHANGED <<posted, mark, wire, unacked, seenIds, current, times, again, forgotten, origin, excused, troubles>>
  BY DEF Hello, Tally, SlackTypeOK
<1> HIDE DEF k
<1>3. /\ task' \in [Tasks -> Pass] /\ task'[t] = k
      /\ \A u \in Tasks : u # t => task'[u] = task[u]
  BY <1>1, <1>2 DEF SlackTypeOK
<1>4. SlackTypeOK' BY <1>2, <1>3 DEF SlackTypeOK
<1>5. Len(<<>>) = 0 BY EmptySeq
<1>6. NothingAhead'
  <2>1. 0 <= posted BY DEF SlackTypeOK
  <2>2. \A u \in Tasks : u = t \/ task'[u] = task[u] BY <1>3
  <2> QED BY <1>1, <1>2, <1>3, <1>5, <2>1, <2>2 DEF NothingAhead
<1>7. ~ \E m : Owes(task[t], m) BY <1>2, RestingIsTyped DEF Owes
<1>8. \A x : Open(x)' => Open(x)
  <2>1. \A u \in Tasks : \A m : Owes(task[u], m) => Owes(task'[u], m) BY <1>3, <1>7
  <2> QED BY <1>2, <2>1 DEF Open, Handled
<1>9. AtCursor' BY <1>1, <1>3 DEF AtCursor
<1>10. \A m : Beyond(task'[t], m) BY <1>1, <1>3 DEF Beyond
<1>11. CursorFirst => Ahead'
  <2>1. \A u \in Tasks : \A m : Beyond(task[u], m) => Beyond(task'[u], m) BY <1>3, <1>10
  <2> QED BY <1>2, <1>8, <1>9, <2>1 DEF Ahead
<1>12. KeptAreHandled' /\ LiveOnce' BY <1>2, LiveStays
<1> QED BY <1>4, <1>6, <1>11, <1>12

-----------------------------------------------------------------------------
(* The live events *)

LEMMA Remembers ==
  ASSUME seenIds \in Seq(Posts), NEW m \in Posts, Remembered(m)
  PROVE  /\ seenIds' \in Seq(Posts) /\ forgotten \subseteq forgotten'
         /\ IsKept(m)' /\ \A x : IsKept(x)' => IsKept(x) \/ x = m
         /\ \A x : IsKept(x) => IsKept(x)' \/ x \in forgotten'
<1> DEFINE ids == Append(seenIds, m)
           n == Len(seenIds)
<1>1. /\ ids \in Seq(Posts) /\ n \in Nat /\ Len(ids) = n + 1
      /\ \A i \in 1..n : ids[i] = seenIds[i]
      /\ ids[n + 1] = m
  BY IsLast
<1>2. ids # <<>>
  <2>1. Len(<<>>) = 0 BY EmptySeq
  <2> QED BY <1>1, <2>1
<1>3. /\ Head(ids) = ids[1] /\ Tail(ids) \in Seq(Posts) /\ Len(Tail(ids)) = Len(ids) - 1
      /\ \A i \in 1..(Len(ids) - 1) : Tail(ids)[i] = ids[i + 1]
  BY <1>1, <1>2, IsHead
<1>4. \/ Len(ids) > SeenCap /\ seenIds' = Tail(ids) /\ forgotten' = forgotten \cup {Head(ids)}
      \/ seenIds' = ids /\ UNCHANGED forgotten
  BY DEF Remembered
<1> HIDE DEF ids
<1>5. CASE seenIds' = ids /\ UNCHANGED forgotten
  <2>1. \A i \in 1..(n + 1) : i \in 1..n \/ i = n + 1
    <3> HIDE DEF n
    <3> QED BY <1>1
  <2>2. 1..n \subseteq 1..(n + 1) /\ n + 1 \in 1..(n + 1)
    <3> HIDE DEF n
    <3> QED BY <1>1
  <2>3. IsKept(m)' BY <1>1, <1>5, <2>2 DEF IsKept
  <2>4. \A x : IsKept(x)' => IsKept(x) \/ x = m BY <1>1, <1>5, <2>1 DEF IsKept
  <2>5. \A x : IsKept(x) => IsKept(x)' BY <1>1, <1>5, <2>2 DEF IsKept
  <2> QED BY <1>1, <1>5, <2>3, <2>4, <2>5
<1>6. CASE Len(ids) > SeenCap /\ seenIds' = Tail(ids) /\ forgotten' = forgotten \cup {Head(ids)}
  <2>1. n > 0 BY <1>1, <1>6, SlackAssumption
  <2>2. Len(seenIds') = n /\ \A i \in 1..n : seenIds'[i] = ids[i + 1] BY <1>1, <1>3, <1>6
  <2>3. \A i \in 1..n : i + 1 \in 1..n \/ i + 1 = n + 1
    <3> HIDE DEF n
    <3> QED BY <1>1
  <2>4. \A i \in 1..n : i = 1 \/ (i - 1 \in 1..n /\ (i - 1) + 1 = i)
    <3> HIDE DEF n
    <3> QED BY <1>1
  <2>5. n \in 1..n
    <3> HIDE DEF n
    <3> QED BY <1>1, <2>1
  <2>6. IsKept(m)' BY <1>1, <2>2, <2>5 DEF IsKept
  <2>7. \A x : IsKept(x)' => IsKept(x) \/ x = m
    <3> SUFFICES ASSUME NEW i \in 1..n PROVE IsKept(seenIds'[i]) \/ seenIds'[i] = m
      BY <2>2 DEF IsKept
    <3>1. seenIds'[i] = ids[i + 1] BY <2>2
    <3> QED BY <1>1, <2>3, <3>1 DEF IsKept
  <2>8. \A x : IsKept(x) => IsKept(x)' \/ x \in forgotten'
    <3> SUFFICES ASSUME NEW x, NEW i \in 1..n, x = seenIds[i] PROVE IsKept(x)' \/ x \in forgotten'
      BY DEF IsKept
    <3>1. CASE i = 1 BY <1>1, <1>3, <1>6, <3>1
    <3>2. CASE i # 1
      <4>1. i - 1 \in 1..n /\ (i - 1) + 1 = i BY <2>4, <3>2
      <4>2. seenIds'[i - 1] = seenIds[i] BY <1>1, <2>2, <4>1
      <4>3. \E j \in 1..Len(seenIds') : seenIds'[j] = x BY <2>2, <4>1, <4>2
      <4> QED BY <4>3 DEF IsKept
    <3> QED BY <3>1, <3>2
  <2> QED BY <1>3, <1>6, <2>6, <2>7, <2>8
<1> QED BY <1>4, <1>5, <1>6

LEMMA ReadKeeps == ASSUME SlackInv, NEW acked \in BOOLEAN, ReadEnvelope(acked) PROVE SlackInv'
<1> USE DEF SlackInv, SlackBase
<1> DEFINE n == Len(wire)
<1>0. PICK m \in Posts : m = Head(wire)
  <2>1. wire \in Seq(Posts) /\ wire # <<>> BY DEF SlackTypeOK, ReadEnvelope
  <2> QED BY <2>1, IsHead
<1>1. /\ socket /\ current = 0 /\ wire # <<>> /\ wire' = Tail(wire)
      /\ unacked' \subseteq unacked
      /\ CursorFirst => ~ AtCursor
      /\ UNCHANGED <<posted, socket, task, times, again, excused, troubles>>
      /\ \/ already_seen(m) /\ UNCHANGED <<seenIds, forgotten, mark, current, origin>>
         \/ /\ ~ already_seen(m) /\ Remembered(m) /\ mark' = m /\ current' = m
            /\ origin' = IF mark = NoMark THEN posted ELSE origin
  BY <1>0 DEF ReadEnvelope, AtCursor
<1>2. /\ n > 0 /\ n \in Nat /\ m = wire[1] /\ m \in Posts
      /\ wire' \in Seq(Posts) /\ Len(wire') = n - 1
      /\ \A i \in 1..(n - 1) : wire'[i] = wire[i + 1]
  BY <1>0, <1>1, IsHead DEF SlackTypeOK
<1>3. seenIds \in Seq(Posts) /\ posted \in Nat /\ origin \in Nat /\ MaxPosts \in Nat
  BY SlackAssumption DEF SlackTypeOK
<1>4. already_seen(m) <=> IsKept(m)
  <2> DEFINE q == Len(seenIds)
  <2>1. q \in Nat /\ DOMAIN seenIds = 1..q BY <1>3, LenProperties
  <2>2. ToSet(seenIds) = {seenIds[i] : i \in 1..q} BY <2>1 DEF ToSet
  <2> QED BY <2>2 DEF already_seen, IsKept
<1>5. m <= posted
  <2>1. 1 \in 1..n
    <3> HIDE DEF n
    <3> QED BY <1>2
  <2> QED BY <1>2, <2>1 DEF NothingAhead
<1>6. \A i \in 1..n : i # 1 => i - 1 \in 1..(n - 1) /\ (i - 1) + 1 = i
  <2> HIDE DEF n
  <2> QED BY <1>2
<1>7. \A i \in 1..(n - 1) : i + 1 \in 1..n
  <2> HIDE DEF n
  <2> QED BY <1>2
<1>8. /\ seenIds' \in Seq(Posts) /\ mark' \in {NoMark} \cup 0..posted /\ current' \in {0} \cup Posts
      /\ origin' \in 0..posted /\ origin <= origin'
  <2>1. CASE already_seen(m) /\ UNCHANGED <<seenIds, forgotten, mark, current, origin>>
    BY <1>3, <2>1 DEF SlackTypeOK
  <2>2. CASE /\ ~ already_seen(m) /\ Remembered(m) /\ mark' = m /\ current' = m
             /\ origin' = IF mark = NoMark THEN posted ELSE origin
    <3>1. seenIds' \in Seq(Posts) BY <1>2, <1>3, <2>2, Remembers
    <3>2. mark' \in 0..posted BY <1>3, <1>5, <2>2 DEF Posts
    <3>3. origin' \in 0..posted /\ origin <= origin' BY <1>3, <2>2 DEF SlackTypeOK
    <3> QED BY <2>2, <3>1, <3>2, <3>3
  <2> QED BY <1>1, <2>1, <2>2
<1>9. SlackTypeOK' BY <1>1, <1>2, <1>8 DEF SlackTypeOK
<1>10. NothingAhead'
  <2>1. \A i \in 1..Len(wire') : wire'[i] <= posted BY <1>2, <1>7 DEF NothingAhead
  <2> QED BY <1>1, <2>1 DEF NothingAhead
<1>11. \A x : x # m /\ OnWire(x) => OnWire(x)' /\ m < x
  <2> SUFFICES ASSUME NEW x, NEW i \in 1..n, wire[i] = x, x # m, \A j \in 1..(i - 1) : wire[j] < x
               PROVE  OnWire(x)' /\ m < x
    BY DEF OnWire
  <2>1. i # 1 BY <1>2
  <2>2. i - 1 \in 1..(n - 1) /\ (i - 1) + 1 = i BY <1>6, <2>1
  <2>3. 1 \in 1..(i - 1) /\ \A j \in 1..((i - 1) - 1) : j \in 1..(n - 1) /\ j + 1 \in 1..(i - 1)
    <3> HIDE DEF n
    <3> QED BY <1>2, <2>2
  <2>4. wire'[i - 1] = x BY <1>2, <2>2
  <2>5. \A j \in 1..((i - 1) - 1) : wire'[j] < x BY <1>2, <2>3
  <2>6. OnWire(x)' BY <1>2, <2>2, <2>4, <2>5 DEF OnWire
  <2> QED BY <1>2, <2>3, <2>6
<1>12. ASSUME CursorFirst PROVE Ahead'
  <2> SUFFICES ASSUME NEW x \in Posts, Open(x)'
               PROVE  x > mark' /\ OnWire(x)' /\ \A t \in Tasks : Beyond(task[t], x)
    BY <1>1 DEF Ahead
  <2>1. /\ x \in (origin' + 1)..posted /\ ~ Handled(x) /\ x # current'
        /\ \A t \in Tasks : ~ Owes(task[t], x)
    BY <1>1 DEF Open, Handled
  <2>2. x \in (origin + 1)..posted /\ x # 0
    <3>1. \A a, b, c \in Nat : a <= b => (b + 1)..c \subseteq (a + 1)..c OBVIOUS
    <3>2. origin' \in Nat BY <1>3, <1>8
    <3>3. (origin' + 1)..posted \subseteq (origin + 1)..posted BY <1>3, <1>8, <3>1, <3>2
    <3> QED BY <2>1, <3>3 DEF Posts
  <2>3. Open(x) BY <1>1, <2>1, <2>2 DEF Open
  <2>4. x > mark /\ OnWire(x) /\ \A t \in Tasks : Beyond(task[t], x)
    BY <1>1, <1>12, <2>3 DEF Ahead
  <2>5. x # m
    <3>1. already_seen(m) => Handled(m)
      <4> SUFFICES ASSUME already_seen(m) PROVE Handled(m)
        OBVIOUS
      <4>1. times[m] > 0 \/ m = current BY <1>2, <1>4 DEF KeptAreHandled
      <4>2. m # 0 BY <1>2 DEF Posts
      <4> QED BY <1>1, <4>1, <4>2 DEF Handled
    <3> QED BY <1>1, <2>1, <3>1
  <2>6. OnWire(x)' /\ m < x BY <1>11, <2>4, <2>5
  <2>7. mark' = mark \/ mark' = m BY <1>1
  <2> QED BY <1>2, <2>4, <2>6, <2>7
<1>13. KeptAreHandled' /\ LiveOnce'
  <2>1. CASE already_seen(m) /\ UNCHANGED <<seenIds, forgotten, mark, current, origin>>
    BY <1>1, <2>1, LiveStays
  <2>2. CASE /\ ~ already_seen(m) /\ Remembered(m) /\ mark' = m /\ current' = m
             /\ origin' = IF mark = NoMark THEN posted ELSE origin
    <3>1. /\ forgotten \subseteq forgotten'
          /\ IsKept(m)' /\ \A x : IsKept(x)' => IsKept(x) \/ x = m
          /\ \A x : IsKept(x) => IsKept(x)' \/ x \in forgotten'
      BY <1>2, <1>3, <2>2, Remembers
    <3>2. KeptAreHandled'
      <4> SUFFICES ASSUME NEW x \in Posts, IsKept(x)' PROVE times[x] > 0 \/ x = m
        BY <1>1, <2>2 DEF KeptAreHandled
      <4>1. x # 0 BY DEF Posts
      <4> QED BY <1>1, <3>1, <4>1 DEF KeptAreHandled
    <3>3. LiveOnce'
      <4> SUFFICES ASSUME NEW x \in Posts, x \notin forgotten'
                   PROVE  \/ times[x] <= troubles.deaths /\ m # x
                          \/ IsKept(x)' /\ times[x] <= troubles.deaths + 1 /\ (m = x => times[x] <= troubles.deaths)
        BY <1>1, <2>2 DEF LiveOnce
      <4>1. \/ times[x] <= troubles.deaths
            \/ IsKept(x) /\ times[x] <= troubles.deaths + 1
        BY <3>1 DEF LiveOnce
      <4>2. times[x] <= troubles.deaths => times[x] <= troubles.deaths + 1
        <5>1. times[x] \in Nat /\ troubles.deaths \in Nat BY DEF SlackTypeOK
        <5> QED BY <5>1
      <4>3. IsKept(x) => x # m BY <1>4, <2>2
      <4> QED BY <3>1, <4>1, <4>2, <4>3
    <3> QED BY <3>2, <3>3
  <2> QED BY <1>1, <2>1, <2>2
<1> QED BY <1>9, <1>10, <1>12, <1>13

LEMMA HandleEventKeeps == ASSUME SlackInv, HandleEvent PROVE SlackInv'
<1> USE DEF SlackInv, SlackBase
<1> DEFINE c == current
<1>1. /\ current # 0 /\ current \in Posts /\ times \in [Posts -> Nat] /\ current' = 0
      /\ times' = [times EXCEPT ![current] = @ + 1]
      /\ UNCHANGED <<posted, mark, socket, wire, unacked, seenIds, task, again, forgotten, origin, excused, troubles>>
  BY DEF HandleEvent, SlackTypeOK
<1>2. /\ times' \in [Posts -> Nat] /\ times'[current] = times[current] + 1 /\ times[current] \in Nat
      /\ \A x \in Posts : x # current => times'[x] = times[x]
  BY <1>1
<1>3. SlackTypeOK' BY <1>1, <1>2 DEF SlackTypeOK
<1>4. NothingAhead' BY <1>1 DEF NothingAhead
<1>5. \A x \in Posts : Open(x)' => Open(x)
  <2> SUFFICES ASSUME NEW x \in Posts, Open(x)' PROVE Open(x)
    OBVIOUS
  <2>1. times'[current] > 0 BY <1>2
  <2>2. x # current BY <2>1 DEF Open, Handled
  <2> QED BY <1>1, <1>2, <2>2 DEF Open, Handled
<1>6. CursorFirst => Ahead' BY <1>1, <1>5 DEF Ahead, AtCursor, OnWire
<1>7. \A x : IsKept(x)' <=> IsKept(x) BY <1>1 DEF IsKept
<1>8. KeptAreHandled'
  <2>1. times'[current] > 0 BY <1>2
  <2> QED BY <1>2, <1>7, <2>1 DEF KeptAreHandled
<1>9. LiveOnce'
  <2> SUFFICES ASSUME NEW x \in Posts, x \notin forgotten
               PROVE  \/ times'[x] <= troubles.deaths /\ 0 # x
                      \/ IsKept(x) /\ times'[x] <= troubles.deaths + 1 /\ (0 = x => times'[x] <= troubles.deaths)
    BY <1>1, <1>7 DEF LiveOnce
  <2>1. x # 0 BY DEF Posts
  <2>2. troubles.deaths \in Nat BY DEF SlackTypeOK
  <2>3. CASE x = current
    <3>1. IsKept(x) /\ times[x] <= troubles.deaths BY <2>3 DEF LiveOnce
    <3> QED BY <1>2, <2>1, <2>2, <2>3, <3>1
  <2>4. CASE x # current
    <3>1. times'[x] = times[x] BY <1>2, <2>4
    <3> QED BY <2>1, <3>1 DEF LiveOnce
  <2> QED BY <2>3, <2>4
<1> QED BY <1>3, <1>4, <1>6, <1>8, <1>9

-----------------------------------------------------------------------------
(* The catch-up *)

\* A baseline at the newest post leaves nothing open.
LEMMA Baselined ==
  ASSUME SlackInv, NEW t \in Tasks, task' = [task EXCEPT ![t] = Resting],
         UNCHANGED <<posted, socket, wire, unacked, seenIds, current, times, forgotten>>,
         origin' = posted, mark' \in {NoMark} \cup 0..posted,
         troubles' \in [sockets : Nat, repeats : Nat, outages : Nat, deaths : Nat],
         troubles'.deaths = troubles.deaths
  PROVE  SlackInv'
<1> USE DEF SlackInv
<1>1. posted \in Nat BY SlackAssumption DEF SlackBase, SlackTypeOK
<1>2. SlackBase'
  <2>1. SlackBase /\ origin' \in 0..posted BY <1>1
  <2>2. /\ Resting \in Pass /\ Resting.step = "idle" /\ Resting.oldest <= posted /\ Resting.below <= posted
        /\ \A i \in 1..Len(Resting.got) : Resting.got[i] <= posted
    BY <1>1, RestingIsTyped
  <2> QED BY <2>1, <2>2, Turns
<1>3. \A m \in Posts : ~ Open(m)' BY <1>1 DEF Open
<1>4. Ahead' BY <1>3 DEF Ahead
<1>5. KeptAreHandled' /\ LiveOnce' BY LiveStays
<1> QED BY <1>2, <1>4, <1>5

LEMMA BaselineAtKeeps == ASSUME SlackInv, NEW t \in Tasks, BaselineAt(t) PROVE SlackInv'
<1>1. /\ task' = [task EXCEPT ![t] = Resting]
      /\ UNCHANGED <<posted, socket, wire, unacked, seenIds, current, times, forgotten, troubles>>
  BY DEF BaselineAt, Replays
<1>2. posted \in Nat /\ origin \in 0..posted /\ mark \in {NoMark} \cup 0..posted
      /\ troubles \in [sockets : Nat, repeats : Nat, outages : Nat, deaths : Nat]
  BY SlackAssumption DEF SlackInv, SlackBase, SlackTypeOK
<1>3. origin' = posted /\ mark' \in {NoMark} \cup 0..posted
  <2>1. CASE posted > 0 BY <1>2, <2>1 DEF BaselineAt
  <2>2. CASE ~ posted > 0 BY <1>2, <2>2 DEF BaselineAt
  <2> QED BY <2>1, <2>2
<1> QED BY <1>1, <1>2, <1>3, Baselined

LEMMA TakeCursorKeeps == ASSUME SlackInv, NEW t \in Tasks, TakeCursor(t) PROVE SlackInv'
<1> USE DEF SlackInv
<1> DEFINE k == [Resting EXCEPT !.step = "first", !.oldest = mark, !.pages = HistoryPages]
<1>1. /\ task[t].step = "cursor" /\ mark # NoMark /\ task' = [task EXCEPT ![t] = k]
      /\ UNCHANGED <<posted, socket, wire, unacked, seenIds, current, times, forgotten,
                     mark, again, origin, excused, troubles>>
  BY DEF TakeCursor, Replays
<1>2. /\ mark \in 0..posted /\ posted \in Nat /\ origin \in 0..posted
      /\ troubles \in [sockets : Nat, repeats : Nat, outages : Nat, deaths : Nat]
      /\ mark \in {NoMark} \cup 0..posted
  BY <1>1, SlackAssumption DEF SlackBase, SlackTypeOK
<1>3. /\ k \in Pass /\ k.step = "first" /\ k.oldest = mark /\ k.below = 0 /\ k.got = <<>>
  <2>1. mark \in Nat BY <1>2
  <2>2. HistoryPages \in Nat BY SlackAssumption
  <2>3. k.step = "first" /\ k.oldest = mark /\ k.below = Resting.below /\ k.got = Resting.got
    BY RestingIsTyped DEF Pass, TaskSteps
  <2>4. k \in Pass BY <2>1, <2>2, RestingIsTyped DEF Pass, TaskSteps
  <2> HIDE DEF k
  <2> QED BY <2>3, <2>4, RestingIsTyped
<1> HIDE DEF k
<1>4. SlackBase' /\ task'[t] = k /\ \A u \in Tasks : u # t => task'[u] = task[u]
  <2>1. SlackBase /\ origin' \in 0..posted /\ mark' \in {NoMark} \cup 0..posted BY <1>1, <1>2
  <2>2. /\ k.oldest <= posted /\ k.below <= posted /\ \A i \in 1..Len(k.got) : k.got[i] <= posted
    BY <1>2, <1>3, EmptySeq
  <2>3. UNCHANGED <<posted, wire, seenIds, unacked, socket, current, times, troubles>> BY <1>1
  <2>4. troubles' \in [sockets : Nat, repeats : Nat, outages : Nat, deaths : Nat] BY <1>2, <2>3
  <2> QED BY <1>1, <1>3, <2>1, <2>2, <2>3, <2>4, Turns
<1>5. CursorFirst => Ahead'
  <2> SUFFICES ASSUME CursorFirst PROVE Ahead'
    OBVIOUS
  <2>1. \A m : ~ Owes(task[t], m) BY <1>1 DEF Owes
  <2>2. \A m \in Posts : Open(m) => ~ Open(m)'
    <3> SUFFICES ASSUME NEW m \in Posts, Open(m) PROVE ~ Open(m)'
      OBVIOUS
    <3>1. m > mark BY DEF Ahead
    <3>2. Owes(task'[t], m) BY <1>3, <1>4, <3>1 DEF Owes
    <3> QED BY <3>2 DEF Open
  <2>3. origin' \in Nat /\ origin <= origin' BY <1>1, <1>2
  <2> QED BY <1>1, <1>4, <2>1, <2>2, <2>3, StaysAhead
<1>6. KeptAreHandled' /\ LiveOnce' BY <1>1, LiveStays
<1> QED BY <1>4, <1>5, <1>6

\* How far up a fetching catch-up is yet to go.
Top(k) == IF k.step = "first" THEN posted ELSE k.below

LEMMA Fetches ==
  ASSUME SlackInv, NEW t \in Tasks, task[t].step \in {"first", "page"}
  PROVE  /\ task[t] \in Pass /\ task[t].oldest \in Nat /\ task[t].got \in Seq(Posts)
         /\ Top(task[t]) \in Nat /\ task[t].oldest <= Top(task[t]) /\ Top(task[t]) <= posted
         /\ \A m \in 1..posted : Owes(task[t], m) =>
              m \in (task[t].oldest + 1)..Top(task[t]) \/ \E i \in 1..Len(task[t].got) : task[t].got[i] = m
         /\ \A m \in Posts : Beyond(task[t], m) =>
              Top(task[t]) < m /\ \A i \in 1..Len(task[t].got) : task[t].got[i] < m
         /\ \A i \in 1..Len(task[t].got) : task[t].got[i] <= posted
<1> DEFINE c == task[t]
<1>1. /\ c \in Pass /\ posted \in Nat /\ c.oldest <= posted /\ c.below <= posted
      /\ c.step = "page" => c.oldest <= c.below
      /\ c.step = "first" => c.got = <<>>
      /\ \A i \in 1..Len(c.got) : c.got[i] <= posted
  BY SlackAssumption DEF SlackInv, SlackBase, SlackTypeOK, NothingAhead
<1>2. c.oldest \in Nat /\ c.got \in Seq(Posts) /\ c.below \in Nat BY <1>1 DEF Pass
<1>3. CASE c.step = "first"
  <2>1. Top(c) = posted BY <1>3 DEF Top
  <2>2. \A m \in 1..posted : Owes(c, m) => m \in (c.oldest + 1)..posted
    BY <1>1, <1>2, <1>3 DEF Owes
  <2>3. \A m : ~ Beyond(c, m) BY <1>3 DEF Beyond
  <2> QED BY <1>1, <1>2, <2>1, <2>2, <2>3
<1>4. CASE c.step = "page"
  <2>1. Top(c) = c.below BY <1>4 DEF Top
  <2>2. \A m \in 1..posted : Owes(c, m) =>
          m \in (c.oldest + 1)..c.below \/ \E i \in 1..Len(c.got) : c.got[i] = m
    BY <1>1, <1>2, <1>4 DEF Owes
  <2>3. \A m : Beyond(c, m) => c.below < m /\ \A i \in 1..Len(c.got) : c.got[i] < m
    BY <1>4 DEF Beyond
  <2> QED BY <1>1, <1>2, <1>4, <2>1, <2>2, <2>3
<1> QED BY <1>3, <1>4

\* A catch-up that stops fetching keeps or excuses all it owed.
LEMMA ReplayedKeeps ==
  ASSUME SlackInv, NEW t \in Tasks, task[t].step \in {"first", "page"},
         NEW got \in Seq(Posts), NEW left, Replayed(t, got, left),
         UNCHANGED <<posted, socket, wire, unacked, seenIds, current, times, forgotten, mark, again, origin>>,
         troubles' \in [sockets : Nat, repeats : Nat, outages : Nat, deaths : Nat],
         troubles'.deaths = troubles.deaths,
         \A m \in 1..posted : Owes(task[t], m) => m \in left \/ \E i \in 1..Len(got) : got[i] = m,
         \A i \in 1..Len(got) : got[i] <= posted,
         \A m \in Posts : Beyond(task[t], m) => \A i \in 1..Len(got) : got[i] < m
  PROVE  SlackInv'
<1> USE DEF SlackInv
<1> DEFINE k == IF got = <<>> THEN Resting ELSE [task[t] EXCEPT !.step = "each", !.got = got]
<1>1. task' = [task EXCEPT ![t] = k] /\ excused' = excused \cup left
  BY DEF Replayed, SlackBase, SlackTypeOK
<1>2. task[t] \in Pass /\ task[t].oldest <= posted /\ task[t].below <= posted
      /\ posted \in Nat /\ origin \in 0..posted /\ mark \in {NoMark} \cup 0..posted
  BY SlackAssumption DEF SlackBase, SlackTypeOK, NothingAhead
<1>3. /\ k \in Pass /\ k.oldest <= posted /\ k.below <= posted /\ k.got = got
      /\ k.step = IF got = <<>> THEN "idle" ELSE "each"
      /\ got = <<>> => k = Resting
  <2>1. CASE got = <<>> BY <1>2, <2>1, RestingIsTyped
  <2>2. CASE got # <<>> BY <1>2, <2>2 DEF Pass, TaskSteps
  <2> QED BY <2>1, <2>2
<1> HIDE DEF k
<1>4. SlackBase' /\ task'[t] = k /\ \A u \in Tasks : u # t => task'[u] = task[u]
  BY <1>1, <1>2, <1>3, Turns
<1>5. CursorFirst => Ahead'
  <2> SUFFICES ASSUME CursorFirst PROVE Ahead'
    OBVIOUS
  <2>1. \A m \in (origin' + 1)..posted : Owes(task[t], m) => Owes(task'[t], m) \/ m \in again' \cup excused'
    <3> SUFFICES ASSUME NEW m \in (origin' + 1)..posted, Owes(task[t], m)
                 PROVE  Owes(k, m) \/ m \in excused'
      BY <1>4
    <3>1. m \in 1..posted BY <1>2
    <3>2. CASE m \in left BY <1>1, <3>2
    <3>3. CASE \E i \in 1..Len(got) : got[i] = m
      <4>1. got # <<>>
        <5>1. Len(<<>>) = 0 BY EmptySeq
        <5> QED BY <3>3, <5>1
      <4> QED BY <1>3, <3>3, <4>1 DEF Owes
    <3> QED BY <3>1, <3>2, <3>3
  <2>2. \A m \in Posts : Open(m) => m > mark' /\ Beyond(task'[t], m) /\ task[t].step # "cursor"
    <3> SUFFICES ASSUME NEW m \in Posts, Open(m) PROVE m > mark /\ Beyond(k, m)
      BY <1>4
    <3>1. m > mark /\ Beyond(task[t], m) BY DEF Ahead
    <3> QED BY <1>3, <3>1 DEF Beyond
  <2>3. origin' \in Nat /\ origin <= origin' BY <1>2
  <2> QED BY <1>1, <1>4, <2>1, <2>2, <2>3, StaysAhead
<1>6. KeptAreHandled' /\ LiveOnce' BY LiveStays
<1> QED BY <1>4, <1>5, <1>6

Rising(low, top) == [i \in 1..(top - low) |-> low + i]

\* A page put before what was got already adds what it holds, and nothing else.
Holds(got, low, top, s) ==
  /\ got \in Seq(Posts)
  /\ \A m \in (low + 1)..top : \E i \in 1..Len(got) : got[i] = m
  /\ \A j \in 1..Len(s) : \E i \in 1..Len(got) : got[i] = s[j]
  /\ \A i \in 1..Len(got) : got[i] \in (low + 1)..top \/ \E j \in 1..Len(s) : got[i] = s[j]

LEMMA APageAhead ==
  ASSUME NEW low \in Nat, NEW top \in Nat, low <= top, top <= MaxPosts, NEW s \in Seq(Posts)
  PROVE  Holds(Rising(low, top) \o s, low, top, s)
<1> DEFINE got == Rising(low, top) \o s
<1> DEFINE n == top - low
           q == Len(s)
           page == [i \in 1..n |-> low + i]
<1>1. n \in Nat /\ q \in Nat /\ MaxPosts \in Nat BY LenProperties, SlackAssumption
<1>2. \A i \in 1..n : low + i \in (low + 1)..top /\ low + i \in Posts BY <1>1 DEF Posts
<1>3. \A m \in (low + 1)..top : m - low \in 1..n /\ low + (m - low) = m OBVIOUS
<1>4. page \in Seq(Posts) /\ Len(page) = n
  <2>1. page = [i \in 1..n |-> low + i] OBVIOUS
  <2>2. \A i \in 1..n : low + i \in Posts BY <1>2
  <2> HIDE DEF n, page
  <2>3. page \in [1..n -> Posts] BY <1>1, <2>1, <2>2
  <2>4. page \in Seq(Posts) BY <1>1, <2>3, IsASeq
  <2>5. DOMAIN page = 1..n BY <2>1
  <2> QED BY <1>1, <2>4, <2>5, LenProperties
<1>5. /\ got \in Seq(Posts) /\ Len(got) = n + q
      /\ \A i \in 1..(n + q) : got[i] = IF i <= n THEN page[i] ELSE s[i - n]
  <2>1. got = page \o s BY DEF Rising
  <2> QED BY <1>4, <2>1, ConcatProperties
<1>6. \A i \in 1..n : page[i] = low + i OBVIOUS
<1> HIDE DEF n, q, page, got
<1>7. \A m \in (low + 1)..top : \E i \in 1..Len(got) : got[i] = m
  <2> SUFFICES ASSUME NEW m \in (low + 1)..top PROVE \E i \in 1..Len(got) : got[i] = m
    OBVIOUS
  <2>1. PICK i \in 1..n : low + i = m BY <1>3
  <2>2. i \in 1..(n + q) /\ i <= n BY <1>1
  <2> QED BY <1>5, <1>6, <2>1, <2>2
<1>8. \A j \in 1..q : \E i \in 1..Len(got) : got[i] = s[j]
  <2> SUFFICES ASSUME NEW j \in 1..q PROVE \E i \in 1..Len(got) : got[i] = s[j]
    OBVIOUS
  <2>1. n + j \in 1..(n + q) /\ ~ n + j <= n /\ (n + j) - n = j BY <1>1
  <2> QED BY <1>5, <2>1
<1>9. \A i \in 1..Len(got) : got[i] \in (low + 1)..top \/ \E j \in 1..q : got[i] = s[j]
  <2> SUFFICES ASSUME NEW i \in 1..(n + q) PROVE got[i] \in (low + 1)..top \/ \E j \in 1..q : got[i] = s[j]
    BY <1>5
  <2>1. CASE i <= n
    <3>1. i \in 1..n BY <1>1, <2>1
    <3> QED BY <1>2, <1>5, <1>6, <2>1, <3>1
  <2>2. CASE ~ i <= n
    <3>1. i - n \in 1..q BY <1>1, <2>2
    <3> QED BY <1>5, <2>2, <3>1
  <2> QED BY <2>1, <2>2
<1> QED BY <1>5, <1>7, <1>8, <1>9 DEF Holds, q, got

LEMMA FetchHistoryKeeps == ASSUME SlackInv, NEW t \in Tasks, FetchHistory(t) PROVE SlackInv'
<1> USE DEF SlackInv
<1> DEFINE c   == task[t]
           top == Top(c)
           low == IF top - c.oldest > HistoryLimit THEN top - HistoryLimit ELSE c.oldest
<1>1. PICK got : got = Rising(low, top) \o c.got
  OBVIOUS
<1>2. /\ c.step \in {"first", "page"}
      /\ UNCHANGED <<posted, socket, wire, unacked, seenIds, current, times, forgotten,
                     mark, again, origin, troubles>>
      /\ \/ /\ low > c.oldest /\ c.pages > 1
            /\ task' = [task EXCEPT ![t] = [c EXCEPT !.step = "page", !.below = low,
                                             !.pages = @ - 1, !.got = got]]
            /\ UNCHANGED excused
         \/ Replayed(t, got, (c.oldest + 1)..low)
  BY <1>1 DEF FetchHistory, Replays, Top, Rising, SlackBase, SlackTypeOK
<1>3. /\ c \in Pass /\ c.oldest \in Nat /\ c.got \in Seq(Posts)
      /\ top \in Nat /\ c.oldest <= top /\ top <= posted
      /\ \A m \in 1..posted : Owes(c, m) =>
           m \in (c.oldest + 1)..top \/ \E i \in 1..Len(c.got) : c.got[i] = m
      /\ \A m \in Posts : Beyond(c, m) =>
           top < m /\ \A i \in 1..Len(c.got) : c.got[i] < m
      /\ \A i \in 1..Len(c.got) : c.got[i] <= posted
  BY <1>2, Fetches
<1>4. /\ posted \in Nat /\ posted <= MaxPosts /\ MaxPosts \in Nat
      /\ origin \in 0..posted /\ mark \in {NoMark} \cup 0..posted
      /\ c.oldest <= posted /\ c.below <= posted
      /\ troubles \in [sockets : Nat, repeats : Nat, outages : Nat, deaths : Nat]
  BY SlackAssumption DEF SlackBase, SlackTypeOK, NothingAhead
<1> HIDE DEF top
<1>5. low \in Nat /\ c.oldest <= low /\ low <= top BY <1>3, SlackAssumption
<1> HIDE DEF low
<1>6. top <= MaxPosts BY <1>3, <1>4
<1>7. /\ got \in Seq(Posts)
      /\ \A m \in (low + 1)..top : \E i \in 1..Len(got) : got[i] = m
      /\ \A j \in 1..Len(c.got) : \E i \in 1..Len(got) : got[i] = c.got[j]
      /\ \A i \in 1..Len(got) : got[i] \in (low + 1)..top \/ \E j \in 1..Len(c.got) : got[i] = c.got[j]
  <2>1. Holds(got, low, top, c.got) BY <1>1, <1>3, <1>5, <1>6, APageAhead
  <2> QED BY <2>1 DEF Holds
<1>8. \A m \in 1..posted : Owes(c, m) =>
        m \in (c.oldest + 1)..low \/ \E i \in 1..Len(got) : got[i] = m
  <2> SUFFICES ASSUME NEW m \in 1..posted, Owes(c, m)
               PROVE  m \in (c.oldest + 1)..low \/ \E i \in 1..Len(got) : got[i] = m
    OBVIOUS
  <2>1. CASE m \in (c.oldest + 1)..top
    <3>1. m \in (c.oldest + 1)..low \/ m \in (low + 1)..top BY <1>3, <1>5, <2>1
    <3> QED BY <1>7, <3>1
  <2>2. CASE \E i \in 1..Len(c.got) : c.got[i] = m BY <1>7, <2>2
  <2> QED BY <1>3, <2>1, <2>2
<1>9. \A i \in 1..Len(got) : got[i] <= posted
  <2>1. \A m \in (low + 1)..top : m <= posted BY <1>3, <1>4, <1>5
  <2> QED BY <1>3, <1>7, <2>1
<1>10. \A m \in Posts : Beyond(c, m) => low < m /\ \A i \in 1..Len(got) : got[i] < m
  <2> SUFFICES ASSUME NEW m \in Posts, Beyond(c, m) PROVE low < m /\ \A i \in 1..Len(got) : got[i] < m
    OBVIOUS
  <2>1. top < m /\ \A i \in 1..Len(c.got) : c.got[i] < m BY <1>3
  <2>2. low < m /\ \A x \in (low + 1)..top : x < m BY <1>3, <1>5, <2>1 DEF Posts
  <2> QED BY <1>7, <2>1, <2>2
<1>11. CASE Replayed(t, got, (c.oldest + 1)..low)
  <2>1. /\ troubles' \in [sockets : Nat, repeats : Nat, outages : Nat, deaths : Nat]
        /\ troubles'.deaths = troubles.deaths
    BY <1>2, <1>4
  <2> QED BY <1>2, <1>7, <1>8, <1>9, <1>10, <1>11, <2>1, ReplayedKeeps
<1>12. CASE /\ low > c.oldest /\ c.pages > 1
            /\ task' = [task EXCEPT ![t] = [c EXCEPT !.step = "page", !.below = low,
                                             !.pages = @ - 1, !.got = got]]
            /\ UNCHANGED excused
  <2> DEFINE k == [c EXCEPT !.step = "page", !.below = low, !.pages = @ - 1, !.got = got]
  <2>1. k.step = "page" /\ k.below = low /\ k.oldest = c.oldest /\ k.got = got
    BY <1>3 DEF Pass
  <2>2. k \in Pass
    <3>1. c.pages - 1 \in Nat BY <1>3, <1>12 DEF Pass
    <3> QED BY <1>3, <1>5, <1>7, <3>1 DEF Pass, TaskSteps
  <2>3. task' = [task EXCEPT ![t] = k] BY <1>12
  <2> HIDE DEF k
  <2>4. SlackBase' /\ task'[t] = k /\ \A u \in Tasks : u # t => task'[u] = task[u]
    <3>1. low <= posted BY <1>3, <1>4, <1>5
    <3>2. k.oldest <= posted /\ k.below <= posted /\ \A i \in 1..Len(k.got) : k.got[i] <= posted
      BY <1>4, <1>9, <2>1, <3>1
    <3>3. /\ k.step = "page" => k.oldest <= k.below
          /\ k.step \in {"each", "handle"} => k.got # <<>>
          /\ k.step = "first" => k.got = <<>>
          /\ k.step = "idle" => k = Resting
      BY <1>5, <2>1
    <3>4. /\ SlackBase /\ origin' \in 0..posted /\ mark' \in {NoMark} \cup 0..posted
          /\ troubles' \in [sockets : Nat, repeats : Nat, outages : Nat, deaths : Nat]
          /\ UNCHANGED <<posted, wire, seenIds, unacked, socket, current, times>>
      BY <1>2, <1>4
    <3> QED BY <2>2, <2>3, <3>2, <3>3, <3>4, Turns
  <2>5. CursorFirst => Ahead'
    <3> SUFFICES ASSUME CursorFirst PROVE Ahead'
      OBVIOUS
    <3>1. \A m \in (origin' + 1)..posted : Owes(task[t], m) => Owes(task'[t], m)
      <4> SUFFICES ASSUME NEW m \in (origin' + 1)..posted, Owes(c, m) PROVE Owes(k, m)
        BY <2>4
      <4>1. m \in 1..posted BY <1>2, <1>4
      <4>2. CASE m \in (c.oldest + 1)..low
        <5>1. m > c.oldest /\ m <= low BY <1>3, <1>5, <4>2
        <5> QED BY <2>1, <5>1 DEF Owes
      <4>3. CASE \E i \in 1..Len(got) : got[i] = m BY <2>1, <4>3 DEF Owes
      <4> QED BY <1>8, <4>1, <4>2, <4>3
    <3>2. \A m \in Posts : Open(m) => m > mark' /\ Beyond(task'[t], m) /\ task[t].step # "cursor"
      <4> SUFFICES ASSUME NEW m \in Posts, Open(m) PROVE m > mark' /\ Beyond(k, m) /\ c.step # "cursor"
        BY <2>4
      <4>1. m > mark /\ Beyond(c, m) BY DEF Ahead
      <4>2. low < m /\ \A i \in 1..Len(got) : got[i] < m BY <1>10, <4>1
      <4> QED BY <1>2, <2>1, <4>1, <4>2 DEF Beyond
    <3>3. origin' \in Nat /\ origin <= origin' BY <1>2, <1>4
    <3> QED BY <1>2, <1>12, <2>4, <3>1, <3>2, <3>3, StaysAhead
  <2>6. KeptAreHandled' /\ LiveOnce' BY <1>2, LiveStays
  <2> QED BY <2>4, <2>5, <2>6
<1> QED BY <1>2, <1>11, <1>12

LEMMA HistoryFailsKeeps == ASSUME SlackInv, NEW t \in Tasks, HistoryFails(t) PROVE SlackInv'
<1> USE DEF SlackInv
<1> DEFINE c == task[t]
<1>1. /\ UNCHANGED <<posted, socket, wire, unacked, seenIds, current, times, forgotten, mark, again>>
      /\ Trouble("outages")
  BY DEF HistoryFails, Replays
<1>2. /\ troubles' \in [sockets : Nat, repeats : Nat, outages : Nat, deaths : Nat]
      /\ troubles'.deaths = troubles.deaths
  BY <1>1, TroubleIsTyped DEF SlackBase, SlackTypeOK
<1>3. CASE c.step \in {"first", "page"} /\ Replayed(t, c.got, Unfetched(c)) /\ UNCHANGED origin
  <2>1. Unfetched(c) = (c.oldest + 1)..Top(c) BY DEF Unfetched, Top
  <2>2. c.got \in Seq(Posts) BY <1>3, Fetches
  <2>3. \A m \in 1..posted : Owes(c, m) => m \in Unfetched(c) \/ \E i \in 1..Len(c.got) : c.got[i] = m
    BY <1>3, <2>1, Fetches
  <2>4. /\ \A i \in 1..Len(c.got) : c.got[i] <= posted
        /\ \A m \in Posts : Beyond(c, m) => \A i \in 1..Len(c.got) : c.got[i] < m
    BY <1>3, Fetches
  <2> QED BY <1>1, <1>2, <1>3, <2>2, <2>3, <2>4, ReplayedKeeps
<1>4. CASE Replayed(t, <<>>, {}) /\ origin' = posted
  <2>1. task' = [task EXCEPT ![t] = Resting] BY <1>4 DEF Replayed
  <2>2. mark' \in {NoMark} \cup 0..posted BY <1>1 DEF SlackBase, SlackTypeOK
  <2> QED BY <1>1, <1>2, <1>4, <2>1, <2>2, Baselined
<1> QED BY <1>3, <1>4 DEF HistoryFails

LEMMA PassCursorKeeps == ASSUME SlackInv, NEW t \in Tasks, PassCursor(t) PROVE SlackInv'
<1> USE DEF SlackInv
<1> DEFINE c == task[t]
           k == [c EXCEPT !.step = "handle"]
           h == Head(c.got)
<1>1. /\ c.step = "each" /\ mark' = h /\ task' = [task EXCEPT ![t] = k]
      /\ UNCHANGED <<posted, socket, wire, unacked, seenIds, current, times, forgotten,
                     again, origin, excused, troubles>>
  BY DEF PassCursor, Replays, SlackBase, SlackTypeOK
<1>2. /\ c \in Pass /\ c.oldest <= posted /\ c.below <= posted /\ c.got # <<>>
      /\ \A i \in 1..Len(c.got) : c.got[i] <= posted
      /\ posted \in Nat /\ origin \in 0..posted
      /\ troubles \in [sockets : Nat, repeats : Nat, outages : Nat, deaths : Nat]
  BY <1>1, SlackAssumption DEF SlackBase, SlackTypeOK, NothingAhead
<1>3. /\ k \in Pass /\ k.step = "handle" /\ k.oldest = c.oldest /\ k.below = c.below /\ k.got = c.got
  BY <1>2 DEF Pass, TaskSteps
<1>4. 1 \in 1..Len(c.got) /\ h = c.got[1] /\ h \in Posts
  <2>1. c.got \in Seq(Posts) BY <1>2 DEF Pass
  <2>2. Len(c.got) > 0 /\ Len(c.got) \in Nat /\ h = c.got[1] /\ h \in Posts BY <1>2, <2>1, IsHead
  <2> QED BY <2>2
<1> HIDE DEF k, h
<1>5. SlackBase' /\ task'[t] = k /\ \A u \in Tasks : u # t => task'[u] = task[u]
  <2>1. h \in 0..posted BY <1>2, <1>4 DEF Posts
  <2>2. /\ SlackBase /\ origin' \in 0..posted /\ mark' \in {NoMark} \cup 0..posted
        /\ troubles' \in [sockets : Nat, repeats : Nat, outages : Nat, deaths : Nat]
        /\ UNCHANGED <<posted, wire, seenIds, unacked, socket, current, times>>
    BY <1>1, <1>2, <2>1
  <2>3. /\ k.oldest <= posted /\ k.below <= posted /\ \A i \in 1..Len(k.got) : k.got[i] <= posted
        /\ k.got # <<>>
    BY <1>2, <1>3
  <2> QED BY <1>1, <1>3, <2>2, <2>3, Turns
<1>6. CursorFirst => Ahead'
  <2> SUFFICES ASSUME CursorFirst PROVE Ahead'
    OBVIOUS
  <2>1. \A m : Owes(c, m) => Owes(k, m) BY <1>1, <1>3 DEF Owes
  <2>2. \A m \in Posts : Open(m) => m > mark' /\ Beyond(task'[t], m) /\ task[t].step # "cursor"
    <3> SUFFICES ASSUME NEW m \in Posts, Open(m) PROVE m > h /\ Beyond(k, m)
      BY <1>1, <1>5
    <3>1. Beyond(c, m) BY DEF Ahead
    <3>2. \A i \in 1..Len(c.got) : c.got[i] < m BY <1>1, <3>1 DEF Beyond
    <3>3. h < m BY <1>4, <3>2
    <3> QED BY <1>3, <1>4, <3>2, <3>3 DEF Beyond, Posts
  <2>3. origin' \in Nat /\ origin <= origin' BY <1>1, <1>2
  <2> QED BY <1>1, <1>5, <2>1, <2>2, <2>3, StaysAhead
<1>7. KeptAreHandled' /\ LiveOnce' BY <1>1, LiveStays
<1> QED BY <1>5, <1>6, <1>7

LEMMA HandleMissedKeeps == ASSUME SlackInv, NEW t \in Tasks, HandleMissed(t) PROVE SlackInv'
<1> USE DEF SlackInv
<1> DEFINE c    == task[t]
           rest == Tail(c.got)
           n    == Len(c.got)
           k    == IF rest = <<>> THEN Resting ELSE [c EXCEPT !.step = "each", !.got = rest]
<1>1. /\ c.step = "handle" /\ again' = again \cup {Head(c.got)} /\ task' = [task EXCEPT ![t] = k]
      /\ UNCHANGED <<posted, socket, wire, unacked, seenIds, current, times, forgotten,
                     mark, origin, excused, troubles>>
  BY DEF HandleMissed, Replays, SlackBase, SlackTypeOK
<1>2. /\ c \in Pass /\ c.oldest <= posted /\ c.below <= posted /\ c.got # <<>>
      /\ \A i \in 1..n : c.got[i] <= posted
      /\ posted \in Nat /\ origin \in 0..posted /\ mark \in {NoMark} \cup 0..posted
      /\ troubles \in [sockets : Nat, repeats : Nat, outages : Nat, deaths : Nat]
  BY <1>1, SlackAssumption DEF SlackBase, SlackTypeOK, NothingAhead
<1>3. /\ n > 0 /\ n \in Nat /\ Head(c.got) = c.got[1]
      /\ rest \in Seq(Posts) /\ Len(rest) = n - 1
      /\ \A i \in 1..(n - 1) : rest[i] = c.got[i + 1]
  <2>1. c.got \in Seq(Posts) BY <1>2 DEF Pass
  <2> QED BY <1>2, <2>1, IsHead
<1>4. /\ \A i \in 1..(n - 1) : i + 1 \in 1..n
      /\ \A i \in 1..n : i = 1 \/ (i - 1 \in 1..(n - 1) /\ (i - 1) + 1 = i)
  <2> HIDE DEF n
  <2> QED BY <1>3
<1> HIDE DEF rest
<1>5. /\ k \in Pass /\ k.oldest <= posted /\ k.below <= posted /\ k.got = rest
      /\ k.step = IF rest = <<>> THEN "idle" ELSE "each"
      /\ rest = <<>> => k = Resting
  <2>1. CASE rest = <<>> BY <1>2, <2>1, RestingIsTyped
  <2>2. CASE rest # <<>> BY <1>2, <1>3, <2>2 DEF Pass, TaskSteps
  <2> QED BY <2>1, <2>2
<1> HIDE DEF k
<1>6. SlackBase' /\ task'[t] = k /\ \A u \in Tasks : u # t => task'[u] = task[u]
  <2>1. /\ SlackBase /\ origin' \in 0..posted /\ mark' \in {NoMark} \cup 0..posted
        /\ troubles' \in [sockets : Nat, repeats : Nat, outages : Nat, deaths : Nat]
        /\ UNCHANGED <<posted, wire, seenIds, unacked, socket, current, times>>
    BY <1>1, <1>2
  <2>2. \A i \in 1..Len(k.got) : k.got[i] <= posted BY <1>2, <1>3, <1>4, <1>5
  <2> QED BY <1>1, <1>5, <2>1, <2>2, Turns
<1>7. CursorFirst => Ahead'
  <2> SUFFICES ASSUME CursorFirst PROVE Ahead'
    OBVIOUS
  <2>1. \A m : Owes(c, m) => Owes(k, m) \/ m \in again'
    <3> SUFFICES ASSUME NEW m, Owes(c, m) PROVE Owes(k, m) \/ m \in again'
      OBVIOUS
    <3>1. PICK i \in 1..n : c.got[i] = m BY <1>1 DEF Owes
    <3>2. CASE i = 1 BY <1>1, <1>3, <3>1, <3>2
    <3>3. CASE i # 1
      <4>1. i - 1 \in 1..Len(rest) /\ rest[i - 1] = m BY <1>3, <1>4, <3>1, <3>3
      <4>2. rest # <<>>
        <5>1. Len(<<>>) = 0 BY EmptySeq
        <5> QED BY <4>1, <5>1
      <4> QED BY <1>5, <4>1, <4>2 DEF Owes
    <3> QED BY <3>2, <3>3
  <2>2. \A m \in Posts : Open(m) => m > mark' /\ Beyond(task'[t], m) /\ task[t].step # "cursor"
    <3> SUFFICES ASSUME NEW m \in Posts, Open(m) PROVE m > mark /\ Beyond(k, m)
      BY <1>1, <1>6
    <3>1. m > mark /\ Beyond(c, m) BY DEF Ahead
    <3>2. \A i \in 1..n : c.got[i] < m BY <1>1, <3>1 DEF Beyond
    <3>3. \A i \in 1..Len(rest) : rest[i] < m BY <1>3, <1>4, <3>2
    <3> QED BY <1>5, <3>1, <3>3 DEF Beyond
  <2>3. origin' \in Nat /\ origin <= origin' BY <1>1, <1>2
  <2>4. again \subseteq again' BY <1>1
  <2> QED BY <1>1, <1>6, <2>1, <2>2, <2>3, <2>4, StaysAhead
<1>8. KeptAreHandled' /\ LiveOnce' BY <1>1, LiveStays
<1> QED BY <1>6, <1>7, <1>8

LEMMA SlackDiesKeeps == ASSUME SlackInv, SlackDies PROVE SlackInv'
<1> USE DEF SlackInv, SlackBase
<1> DEFINE lost == UNION {Outstanding(t) : t \in Tasks}
<1>1. /\ socket' = FALSE /\ wire' = <<>> /\ seenIds' = <<>> /\ current' = 0
      /\ task' = [t \in Tasks |-> Resting] /\ Trouble("deaths")
      /\ excused' = excused \cup ({current} \ {0}) \cup {m \in lost : m <= mark}
      /\ UNCHANGED <<posted, mark, unacked, times, again, forgotten, origin>>
  BY DEF SlackDies
<1>2. /\ troubles' \in [sockets : Nat, repeats : Nat, outages : Nat, deaths : Nat]
      /\ troubles'.deaths = troubles.deaths + 1
  BY <1>1, TroubleIsTyped DEF SlackTypeOK
<1>3. <<>> \in Seq(Posts) /\ Len(<<>>) = 0 BY EmptySeq
<1>4. task' \in [Tasks -> Pass] /\ \A t \in Tasks : task'[t] = Resting BY <1>1, RestingIsTyped
<1>5. SlackTypeOK' BY <1>1, <1>2, <1>3, <1>4 DEF SlackTypeOK
<1>6. NothingAhead'
  <2>1. 0 <= posted BY SlackAssumption DEF SlackTypeOK
  <2> QED BY <1>1, <1>3, <1>4, <2>1, RestingIsTyped DEF NothingAhead
<1>7. \A t \in Tasks : \A m \in 1..posted : Owes(task[t], m) => m \in lost
  <2> SUFFICES ASSUME NEW t \in Tasks, NEW m \in 1..posted, Owes(task[t], m) PROVE m \in Outstanding(t)
    OBVIOUS
  <2> DEFINE c == task[t]
  <2>1. c \in Pass /\ posted \in Nat BY SlackAssumption DEF SlackTypeOK
  <2>2. c.oldest \in Nat /\ c.below \in Nat /\ c.got \in Seq(Posts) BY <2>1 DEF Pass
  <2>3. CASE c.step = "first" /\ m > c.oldest
    <3>1. m \in (c.oldest + 1)..posted BY <2>1, <2>2, <2>3
    <3> QED BY <2>3, <3>1 DEF Outstanding, Unfetched
  <2>4. CASE c.step = "page" /\ m > c.oldest /\ m <= c.below
    <3>1. m \in (c.oldest + 1)..c.below BY <2>2, <2>4
    <3> QED BY <2>4, <3>1 DEF Outstanding, Unfetched
  <2>5. CASE \E i \in 1..Len(c.got) : c.got[i] = m
    <3>1. DOMAIN c.got = 1..Len(c.got) BY <2>2, LenProperties
    <3>2. m \in ToSet(c.got) BY <2>5, <3>1 DEF ToSet
    <3> QED BY <3>2 DEF Outstanding
  <2> QED BY <2>3, <2>4, <2>5 DEF Owes
<1> HIDE DEF lost
<1>8. CursorFirst => Ahead'
  <2> SUFFICES ASSUME CursorFirst, NEW m \in Posts, Open(m)' PROVE m > mark /\ \A t \in Tasks : Beyond(Resting, m)
    BY <1>1, <1>4 DEF Ahead
  <2>1. Beyond(Resting, m) BY RestingIsTyped DEF Beyond
  <2>2. m \in (origin + 1)..posted /\ ~ (times[m] > 0 \/ m \in again \cup excused')
    BY <1>1 DEF Open, Handled
  <2>3. ~ Handled(m) /\ m # current
    <3>1. m # 0 BY DEF Posts
    <3> QED BY <1>1, <2>2, <3>1 DEF Handled
  <2>4. m \in 1..posted BY <2>2, SlackAssumption DEF SlackTypeOK
  <2>5. CASE \E t \in Tasks : Owes(task[t], m)
    <3>1. m \in lost BY <1>7, <2>4, <2>5
    <3>2. ~ m <= mark BY <1>1, <2>2, <3>1
    <3>3. m \in Nat /\ mark \in {NoMark} \cup 0..posted BY DEF SlackTypeOK, Posts
    <3>4. m > mark BY <3>2, <3>3 DEF NoMark
    <3> QED BY <2>1, <3>4
  <2>6. CASE \A t \in Tasks : ~ Owes(task[t], m)
    <3>1. Open(m) BY <2>2, <2>3, <2>6 DEF Open
    <3> QED BY <2>1, <3>1 DEF Ahead
  <2> QED BY <2>5, <2>6
<1>9. KeptAreHandled' BY <1>1, <1>3 DEF KeptAreHandled, IsKept
<1>10. LiveOnce'
  <2> SUFFICES ASSUME NEW m \in Posts, m \notin forgotten
               PROVE  times[m] <= troubles.deaths + 1 /\ 0 # m
    BY <1>1, <1>2 DEF LiveOnce
  <2>1. times[m] \in Nat /\ troubles.deaths \in Nat /\ m # 0 BY DEF SlackTypeOK, Posts
  <2>2. times[m] <= troubles.deaths \/ times[m] <= troubles.deaths + 1 BY DEF LiveOnce
  <2> QED BY <2>1, <2>2
<1> QED BY <1>5, <1>6, <1>8, <1>9, <1>10

LEMMA SlackInvIsInductive == ASSUME SlackInv, [SlackNext]_slack PROVE SlackInv'
<1>1. CASE UNCHANGED slack
  BY <1>1 DEF slack, SlackInv, SlackBase, SlackTypeOK, NothingAhead, Ahead, Open, Handled, AtCursor,
              OnWire, KeptAreHandled, LiveOnce, IsKept
<1>2. CASE SlackNext
  <2>1. CASE Post \/ Disconnect \/ HandleEvent \/ SlackDies
    BY <2>1, PostKeeps, DisconnectKeeps, HandleEventKeeps, SlackDiesKeeps
  <2>2. CASE \E m \in Posts : Redeliver(m) BY <2>2, RedeliverKeeps
  <2>3. CASE \E acked \in BOOLEAN : ReadEnvelope(acked) BY <2>3, ReadKeeps
  <2>4. CASE \E t \in Tasks : Hello(t) \/ BaselineAt(t) \/ TakeCursor(t)
    BY <2>4, HelloKeeps, BaselineAtKeeps, TakeCursorKeeps
  <2>5. CASE \E t \in Tasks : FetchHistory(t) \/ HistoryFails(t) \/ PassCursor(t) \/ HandleMissed(t)
    BY <2>5, FetchHistoryKeeps, HistoryFailsKeeps, PassCursorKeeps, HandleMissedKeeps
  <2> QED BY <1>2, <2>1, <2>2, <2>3, <2>4, <2>5 DEF SlackNext
<1> QED BY <1>1, <1>2

LEMMA InvHandlesEach == SlackInv /\ CursorFirst => SlackHandlesEach
<1> SUFFICES ASSUME SlackInv, CursorFirst PROVE SlackHandlesEach
  OBVIOUS
<1> USE DEF SlackInv, SlackBase
<1>1. ASSUME CaughtUp, NEW m \in (origin + 1)..posted PROVE times[m] > 0 \/ m \in again \cup excused
  <2>1. /\ socket /\ wire = <<>> /\ current = 0 /\ \A t \in Tasks : task[t] = Resting
    BY <1>1 DEF CaughtUp
  <2>2. m \in Posts /\ m # current
    <3>1. posted \in 0..MaxPosts /\ MaxPosts \in Nat /\ origin \in Nat /\ m \in (origin + 1)..posted
      BY <1>1, SlackAssumption DEF SlackTypeOK
    <3> QED BY <2>1, <3>1 DEF Posts
  <2>3. \A t \in Tasks : ~ Owes(task[t], m) BY <2>1, RestingIsTyped DEF Owes
  <2>4. ~ AtCursor /\ ~ OnWire(m) BY <2>1, RestingIsTyped, EmptySeq DEF AtCursor, OnWire
  <2>5. ~ Open(m) BY <2>1, <2>2, <2>4 DEF Ahead
  <2> QED BY <1>1, <2>2, <2>3, <2>5 DEF Open, Handled
<1>2. \A m \in Posts : m \notin forgotten => times[m] <= 1 + troubles.deaths
  <2> SUFFICES ASSUME NEW m \in Posts, m \notin forgotten PROVE times[m] <= 1 + troubles.deaths
    OBVIOUS
  <2>1. times[m] \in Nat /\ troubles.deaths \in Nat BY DEF SlackTypeOK
  <2>2. times[m] <= troubles.deaths \/ times[m] <= troubles.deaths + 1 BY DEF LiveOnce
  <2> QED BY <2>1, <2>2
<1> QED BY <1>1, <1>2 DEF SlackHandlesEach

\* Where a hello's catch-up has the cursor before the first event moves it, a connected
\* Slack listener at rest has handled every post since the channel's baseline, but for
\* what a page limit, a failed page or a crash left (the catch-up of slack.rs: the
\* cursor is moved before each post is handled), and an event id its process still
\* keeps is handled live once per process (already_seen).
THEOREM SlackCatchesUp ==
  ASSUME CursorFirst PROVE SlackInit /\ [][SlackNext]_slack => []SlackHandlesEach
<1>1. SlackInit => SlackInv BY InitSlack
<1>2. SlackInv /\ [SlackNext]_slack => SlackInv' BY SlackInvIsInductive
<1>3. SlackInv => SlackHandlesEach BY InvHandlesEach
<1> QED BY <1>1, <1>2, <1>3, PTL

-----------------------------------------------------------------------------
(* The links between channels *)

\* A registry: some names, each with surfaces that are not rooms, each of one name.
Apart(reg) ==
  /\ reg = [n \in DOMAIN reg |-> reg[n]] /\ DOMAIN reg \subseteq Names
  /\ \A n \in DOMAIN reg : reg[n] \subseteq Surfaces \ Rooms
  /\ \A n1, n2 \in DOMAIN reg : reg[n1] \cap reg[n2] # {} => n1 = n2

\* Settings as they are typed, and what they say of an id that may have none.
Setting == [trusted : BOOLEAN, mode : {"all", "mention"}]

\* Settings, and what they say of an id.
Tuned(st) == st = [i \in DOMAIN st |-> st[i]] /\ \A i \in DOMAIN st : st[i] \in Setting

SettingOf(st, i) == IF i \in DOMAIN st THEN st[i] ELSE Default

\* The steps of a command; the steps of a link; those after the registry is saved.
LinkSteps == {"idle", "save", "merge", "write", "rename", "absorb", "unlink"}

InLink == cmd.step \in {"save", "merge", "write", "rename", "absorb"}

Unmerged == cmd.step \in {"merge", "write", "rename", "absorb"}

\* What a command holds: a link names a channel and lists its surfaces once each.
CmdTypeOK ==
  /\ cmd = [step |-> cmd.step, name |-> cmd.name, fresh |-> cmd.fresh, at |-> cmd.at,
            reg |-> cmd.reg, text |-> cmd.text]
  /\ cmd.step \in LinkSteps /\ cmd.at \in Nat \ {0}
  /\ cmd.text \in Seq(1..Len(said_on))
  /\ cmd.fresh \in Seq(Surfaces \ Rooms)
  /\ InLink => cmd.name \in Names /\ IsInjective(cmd.fresh)
  /\ cmd.step \in {"write", "rename"} => cmd.at \in 1..Len(cmd.fresh)
  /\ cmd.step = "save" => cmd.at = 1

\* The files, the settings, the messages said and the registry are what they should be.
LinksTypeOK ==
  /\ said_on \in Seq(Surfaces)
  /\ log \in [Ids -> Seq(1..Len(said_on)) \cup {NoFile}]
  /\ Tuned(settings)
  /\ since \in [Surfaces -> SUBSET (1..Len(said_on))]
  /\ CmdTypeOK
  /\ Apart(registry)

\* What the command is about to save, and what it has saved.
SaveOK ==
  /\ cmd.step = "unlink" => Apart(cmd.reg)
  /\ cmd.step = "save" =>
       /\ \A n \in DOMAIN registry : registry[n] \cap ToSet(cmd.fresh) = {}
       /\ cmd.reg = With(registry, cmd.name, Members(registry, cmd.name) \cup ToSet(cmd.fresh))
  /\ Unmerged => \A s \in ToSet(cmd.fresh) : logical_of(registry, s) = cmd.name

\* The channel a surface is filed under, and the messages an id's file holds.
Home(s) == logical_of(registry, s)

Held(i) == ToSet(Text(log[i]))

\* A file holds a message no more than once.
Once(text, m) == \A j, k \in DOMAIN text : text[j] = m /\ text[k] = m => j = k

\* The history of s is not yet in the channel.
Pending(s) ==
  \/ cmd.step \in {"merge", "write"} /\ \E j \in 1..Len(cmd.fresh) : cmd.fresh[j] = s /\ j >= cmd.at
  \/ cmd.step = "rename" /\ \E j \in 1..Len(cmd.fresh) : cmd.fresh[j] = s /\ j > cmd.at

\* The file that has been merged and not yet been put aside.
Doubled(i) == cmd.step = "rename" /\ i = cmd.fresh[cmd.at]

\* Where a message may be, and that it is there once.
Placed(s, m) ==
  /\ \A i \in Ids : m \in Held(i) /\ ~ Doubled(i) =>
       Once(Text(log[i]), m) /\ (i = Home(s) \/ (i = s /\ Pending(s)))
  /\ m \in Held(Home(s)) \/ (Pending(s) /\ m \in Held(s))
  /\ Pending(s) => ~ (m \in Held(Home(s)) /\ m \in Held(s))

\* The lines a merge is about to write are those of the two files.
Merged(m) ==
  cmd.step = "write" =>
    /\ m \in ToSet(cmd.text) <=> m \in Held(cmd.name) \cup Held(cmd.fresh[cmd.at])
    /\ Once(cmd.text, m)

\* Every message of the story is where it may be, once.
KeptOnce == \A s \in Surfaces : \A m \in since[s] \ torn : Placed(s, m) /\ Merged(m)

\* A file in the order people spoke.
Sorted(text) == \A j, k \in DOMAIN text : j < k => text[j] < text[k]

\* Until something is torn every file is in order, and no two hold the same message.
InSpokenOrder ==
  torn = {} =>
    /\ \A i \in Ids : Sorted(Text(log[i]))
    /\ \A i, j \in Ids : i # j /\ ~ Doubled(i) /\ ~ Doubled(j) => Held(i) \cap Held(j) = {}
    /\ cmd.step = "write" =>
         Sorted(cmd.text) /\ ToSet(cmd.text) = Held(cmd.name) \cup Held(cmd.fresh[cmd.at])

\* A room's file is its own, and it is trusted by an admin or not at all.
RoomsApart ==
  \A s \in Rooms : /\ \A m \in Held(s) : said_on[m] = s
                   /\ Entry(s).trusted => s \in grants

\* The invariant of the commands and the listener.
LinksInv == LinksTypeOK /\ SaveOK /\ KeptOnce /\ InSpokenOrder /\ RoomsApart

-----------------------------------------------------------------------------
(* Sequences: merged by rank, appended to, made of a set *)

\* The lines of two files, which are no later than a line, and the place that gives it.
Lines(a, b) == a \o b

NoLater(c, j, i) == c[j] < c[i] \/ (c[j] = c[i] /\ j <= i)

RankOf(c, i) == Cardinality({j \in DOMAIN c : NoLater(c, j, i)})

\* A merge lists the lines by their places.
LEMMA InterleavedIs ==
  ASSUME NEW a, NEW b
  PROVE  Interleaved(a, b) =
           [k \in DOMAIN Lines(a, b) |->
              Lines(a, b)[CHOOSE i \in DOMAIN Lines(a, b) : RankOf(Lines(a, b), i) = k]]
BY DEF Interleaved, RankOf, NoLater, Lines

\* Every place is that of exactly one line, and later places are of later lines.
LEMMA RanksAre ==
  ASSUME NEW c \in Seq(Nat)
  PROVE  /\ \A i \in 1..Len(c) : RankOf(c, i) \in 1..Len(c)
         /\ \A i, j \in 1..Len(c) : RankOf(c, i) = RankOf(c, j) => i = j
         /\ \A i, j \in 1..Len(c) : c[i] < c[j] => RankOf(c, i) < RankOf(c, j)
         /\ \A k \in 1..Len(c) : \E i \in 1..Len(c) : RankOf(c, i) = k
<1>. DEFINE n == Len(c)
            D == 1..n
            B(i) == {j \in D : NoLater(c, j, i)}
<1>1. n \in Nat /\ DOMAIN c = D /\ \A i \in D : c[i] \in Nat
  BY LenProperties
<1>2. \A i \in D : RankOf(c, i) = Cardinality(B(i))
  BY <1>1 DEF RankOf
<1>3. IsFiniteSet(D) /\ Cardinality(D) = n
  <2>. HIDE DEF n
  <2>1. 1 \in Int /\ n \in Int
    BY <1>1
  <2>2. IsFiniteSet(1..n) /\ Cardinality(1..n) = IF 1 > n THEN 0 ELSE n - 1 + 1
    BY <2>1, FS_Interval
  <2>. QED BY <1>1, <2>2
<1>. HIDE DEF n
<1>4. ASSUME NEW i \in D
      PROVE  /\ IsFiniteSet(B(i)) /\ Cardinality(B(i)) \in 1..n
  <2>1. i \in B(i)
    BY <1>1 DEF NoLater
  <2>2. IsFiniteSet(B(i)) /\ Cardinality(B(i)) <= n /\ Cardinality(B(i)) \in Nat
    <3>1. B(i) \in SUBSET D
      OBVIOUS
    <3>. HIDE DEF B, D
    <3>. QED BY <1>3, <3>1, FS_Subset, FS_CardinalityType
  <2>3. Cardinality(B(i)) # 0
    <3>. HIDE DEF B
    <3>. QED BY <2>1, <2>2, FS_EmptySet
  <2>. HIDE DEF B
  <2>. QED BY <1>1, <2>2, <2>3
<1>5. ASSUME NEW i \in D, NEW j \in D, NoLater(c, i, j), i # j
      PROVE  Cardinality(B(i)) < Cardinality(B(j))
  <2>1. B(i) \subseteq B(j)
    <3>. SUFFICES ASSUME NEW k \in D, NoLater(c, k, i) PROVE NoLater(c, k, j)
      OBVIOUS
    <3>. QED BY <1>1, <1>5 DEF NoLater
  <2>2. j \in B(j) /\ j \notin B(i)
    BY <1>1, <1>5 DEF NoLater
  <2>. HIDE DEF B
  <2>3. /\ Cardinality(B(i)) <= Cardinality(B(j))
        /\ Cardinality(B(j)) = Cardinality(B(i)) => B(j) = B(i)
    BY <1>4, <2>1, FS_Subset
  <2>. QED BY <1>4, <2>2, <2>3
<1>6. \A i, j \in D : NoLater(c, i, j) \/ NoLater(c, j, i)
  BY <1>1 DEF NoLater
<1>7. \A i, j \in D : Cardinality(B(i)) = Cardinality(B(j)) => i = j
  <2>. SUFFICES ASSUME NEW i \in D, NEW j \in D, Cardinality(B(i)) = Cardinality(B(j)), i # j PROVE FALSE
    OBVIOUS
  <2>. HIDE DEF B, D
  <2>1. Cardinality(B(i)) < Cardinality(B(j)) \/ Cardinality(B(j)) < Cardinality(B(i))
    BY <1>5, <1>6
  <2>2. Cardinality(B(i)) \in Int
    BY <1>4 DEF D
  <2>. QED BY <2>1, <2>2
<1>8. \A i, j \in D : c[i] < c[j] => Cardinality(B(i)) < Cardinality(B(j))
  <2>. SUFFICES ASSUME NEW i \in D, NEW j \in D, c[i] < c[j] PROVE Cardinality(B(i)) < Cardinality(B(j))
    OBVIOUS
  <2>1. NoLater(c, i, j) /\ i # j
    BY <1>1 DEF NoLater
  <2>. QED BY <1>5, <2>1
<1>9. \A k \in D : \E i \in D : Cardinality(B(i)) = k
  <2>. DEFINE R == [i \in D |-> Cardinality(B(i))]
  <2>1. R \in Injection(D, D)
    <3>1. R \in [D -> D]
      BY <1>4
    <3>2. \A i, j \in D : R[i] = R[j] => i = j
      BY <1>7
    <3>. HIDE DEF R
    <3>. QED BY <3>1, <3>2 DEF Injection, IsInjective
  <2>2. R \in Surjection(D, D)
    <3>. HIDE DEF R, D
    <3>. QED BY <1>3, <2>1, FS_Injection
  <2>3. \A k \in D : \E i \in D : R[i] = k
    <3>. HIDE DEF R
    <3>. QED BY <2>2 DEF Surjection
  <2>. QED BY <2>3
<1>. HIDE DEF B
<1>10. \A i \in D : RankOf(c, i) \in D
  BY <1>2, <1>4
<1>11. \A i, j \in D : RankOf(c, i) = RankOf(c, j) => i = j
  BY <1>2, <1>7
<1>12. \A i, j \in D : c[i] < c[j] => RankOf(c, i) < RankOf(c, j)
  BY <1>2, <1>8
<1>13. \A k \in D : \E i \in D : RankOf(c, i) = k
  BY <1>2, <1>9
<1>. QED BY <1>10, <1>11, <1>12, <1>13 DEF n

\* A message is in two lists what it is in both together.
LEMMA LinesAre ==
  ASSUME NEW a \in Seq(Nat), NEW b \in Seq(Nat)
  PROVE  /\ Lines(a, b) \in Seq(Nat)
         /\ ToSet(Lines(a, b)) = ToSet(a) \cup ToSet(b)
         /\ \A m : Once(a, m) /\ Once(b, m) /\ ~ (m \in ToSet(a) /\ m \in ToSet(b)) => Once(Lines(a, b), m)
<1>. DEFINE c == Lines(a, b)
<1>1. /\ c \in Seq(Nat) /\ Len(c) = Len(a) + Len(b) /\ Len(a) \in Nat /\ Len(b) \in Nat
      /\ DOMAIN a = 1..Len(a) /\ DOMAIN b = 1..Len(b) /\ DOMAIN c = 1..(Len(a) + Len(b))
      /\ \A i \in 1..(Len(a) + Len(b)) : c[i] = IF i <= Len(a) THEN a[i] ELSE b[i - Len(a)]
  <2>1. /\ c \in Seq(Nat) /\ Len(c) = Len(a) + Len(b)
        /\ \A i \in 1..(Len(a) + Len(b)) : c[i] = IF i <= Len(a) THEN a[i] ELSE b[i - Len(a)]
    BY ConcatProperties DEF Lines
  <2>. HIDE DEF c
  <2>. QED BY <2>1, LenProperties
<1>. HIDE DEF c
<1>2. \A i \in DOMAIN a : i \in DOMAIN c /\ c[i] = a[i]
  BY <1>1
<1>3. ASSUME NEW i \in DOMAIN b PROVE i + Len(a) \in DOMAIN c /\ c[i + Len(a)] = b[i]
  <2>1. i \in 1..Len(b)
    BY <1>1
  <2>2. /\ i + Len(a) \in 1..(Len(a) + Len(b)) /\ ~ (i + Len(a) <= Len(a))
        /\ (i + Len(a)) - Len(a) = i
    BY <1>1, <2>1
  <2>. QED BY <1>1, <2>2
<1>4. \A i \in DOMAIN c : IF i <= Len(a) THEN i \in DOMAIN a /\ c[i] = a[i]
                          ELSE i - Len(a) \in DOMAIN b /\ c[i] = b[i - Len(a)]
  BY <1>1
<1>5. ToSet(c) = ToSet(a) \cup ToSet(b)
  <2>1. ToSet(a) \cup ToSet(b) \subseteq ToSet(c)
    BY <1>2, <1>3 DEF ToSet
  <2>2. ToSet(c) \subseteq ToSet(a) \cup ToSet(b)
    BY <1>4 DEF ToSet
  <2>. QED BY <2>1, <2>2
<1>6. ASSUME NEW m, Once(a, m), Once(b, m), ~ (m \in ToSet(a) /\ m \in ToSet(b)) PROVE Once(c, m)
  <2>. SUFFICES ASSUME NEW j \in DOMAIN c, NEW k \in DOMAIN c, c[j] = m, c[k] = m PROVE j = k
    BY DEF Once
  <2>1. \A i \in DOMAIN a : a[i] = m => m \in ToSet(a)
    BY DEF ToSet
  <2>2. \A i \in DOMAIN b : b[i] = m => m \in ToSet(b)
    BY DEF ToSet
  <2>3. CASE j <= Len(a) /\ k <= Len(a)
    BY <1>4, <1>6, <2>3 DEF Once
  <2>4. CASE ~ (j <= Len(a)) /\ ~ (k <= Len(a))
    <3>1. j - Len(a) = k - Len(a)
      BY <1>4, <1>6, <2>4 DEF Once
    <3>. QED BY <1>1, <3>1
  <2>5. CASE (j <= Len(a)) # (k <= Len(a))
    BY <1>4, <1>6, <2>1, <2>2, <2>5
  <2>. QED BY <2>3, <2>4, <2>5
<1>. QED BY <1>1, <1>5, <1>6 DEF c

\* Merged, two files hold what they held, in order.
LEMMA MergeIs ==
  ASSUME NEW S \in SUBSET Nat, NEW a \in Seq(S), NEW b \in Seq(S)
  PROVE  /\ Interleaved(a, b) \in Seq(S)
         /\ ToSet(Interleaved(a, b)) = ToSet(a) \cup ToSet(b)
         /\ \A j, k \in DOMAIN Interleaved(a, b) : j < k => Interleaved(a, b)[j] <= Interleaved(a, b)[k]
         /\ \A m : Once(a, m) /\ Once(b, m) /\ ~ (m \in ToSet(a) /\ m \in ToSet(b))
                     => Once(Interleaved(a, b), m)
<1>. DEFINE c == Lines(a, b)
            n == Len(c)
            D == 1..n
            pos(k) == CHOOSE i \in D : RankOf(c, i) = k
            d == Interleaved(a, b)
<1>1. a \in Seq(Nat) /\ b \in Seq(Nat)
  BY SeqMonotonic
<1>2. /\ c \in Seq(Nat) /\ ToSet(c) = ToSet(a) \cup ToSet(b)
      /\ \A m : Once(a, m) /\ Once(b, m) /\ ~ (m \in ToSet(a) /\ m \in ToSet(b)) => Once(c, m)
  BY <1>1, LinesAre
<1>3. c \in Seq(S)
  BY ConcatProperties DEF Lines
<1>. HIDE DEF c
<1>4. n \in Nat /\ DOMAIN c = D /\ \A i \in D : c[i] \in S
  BY <1>3, LenProperties
<1>5. /\ \A i \in D : RankOf(c, i) \in D
      /\ \A i, j \in D : RankOf(c, i) = RankOf(c, j) => i = j
      /\ \A i, j \in D : c[i] < c[j] => RankOf(c, i) < RankOf(c, j)
      /\ \A k \in D : \E i \in D : RankOf(c, i) = k
  BY <1>2, RanksAre
<1>6. d = [k \in D |-> c[pos(k)]]
  <2>1. d = [k \in DOMAIN c |-> c[CHOOSE i \in DOMAIN c : RankOf(c, i) = k]]
    BY InterleavedIs DEF c
  <2>. QED BY <1>4, <2>1
<1>. HIDE DEF n, d
<1>7. \A k \in D : pos(k) \in D /\ RankOf(c, pos(k)) = k
  BY <1>5
<1>8. \A i \in D : pos(RankOf(c, i)) = i
  <2>. SUFFICES ASSUME NEW i \in D PROVE pos(RankOf(c, i)) = i
    OBVIOUS
  <2>1. RankOf(c, i) \in D
    BY <1>5
  <2>2. pos(RankOf(c, i)) \in D /\ RankOf(c, pos(RankOf(c, i))) = RankOf(c, i)
    BY <1>7, <2>1
  <2>. HIDE DEF pos
  <2>. QED BY <1>5, <2>2
<1>. HIDE DEF pos
<1>9. d \in [D -> S] /\ DOMAIN d = D
  BY <1>4, <1>6, <1>7
<1>10. d \in Seq(S)
  BY <1>4, <1>9
<1>11. ToSet(d) = ToSet(c)
  <2>1. ToSet(d) \subseteq ToSet(c)
    BY <1>4, <1>6, <1>7 DEF ToSet
  <2>2. ToSet(c) \subseteq ToSet(d)
    <3>. SUFFICES ASSUME NEW i \in D PROVE c[i] \in ToSet(d)
      BY <1>4 DEF ToSet
    <3>1. RankOf(c, i) \in D /\ d[RankOf(c, i)] = c[i]
      BY <1>5, <1>6, <1>8
    <3>. QED BY <1>9, <3>1 DEF ToSet
  <2>. QED BY <2>1, <2>2
<1>12. \A j, k \in D : j < k => d[j] <= d[k]
  <2>. SUFFICES ASSUME NEW j \in D, NEW k \in D, j < k PROVE d[j] <= d[k]
    OBVIOUS
  <2>1. d[j] = c[pos(j)] /\ d[k] = c[pos(k)] /\ pos(j) \in D /\ pos(k) \in D
    BY <1>6, <1>7
  <2>2. ~ (c[pos(k)] < c[pos(j)])
    <3>1. PICK p \in D : p = pos(j) /\ RankOf(c, p) = j
      BY <1>7, <2>1
    <3>2. PICK q \in D : q = pos(k) /\ RankOf(c, q) = k
      BY <1>7, <2>1
    <3>3. c[q] < c[p] => RankOf(c, q) < RankOf(c, p)
      BY <1>5
    <3>4. j \in Nat /\ k \in Nat /\ ~ (k < j)
      BY <1>4
    <3>. QED BY <3>1, <3>2, <3>3, <3>4
  <2>3. c[pos(j)] \in Nat /\ c[pos(k)] \in Nat
    BY <1>4, <2>1
  <2>. QED BY <2>1, <2>2, <2>3
<1>13. ASSUME NEW m, Once(c, m) PROVE Once(d, m)
  <2>. SUFFICES ASSUME NEW j \in D, NEW k \in D, d[j] = m, d[k] = m PROVE j = k
    BY <1>9 DEF Once
  <2>1. d[j] = c[pos(j)] /\ d[k] = c[pos(k)] /\ pos(j) \in D /\ pos(k) \in D
    BY <1>6, <1>7
  <2>2. pos(j) = pos(k)
    BY <1>4, <1>13, <2>1 DEF Once
  <2>. QED BY <1>7, <2>2
<1>. QED BY <1>2, <1>9, <1>10, <1>11, <1>12, <1>13 DEF d

\* A line is put at the end.
LEMMA PutLast ==
  ASSUME NEW n \in Nat, NEW a \in Seq(1..n)
  PROVE  LET b == Append(a, n + 1)
         IN /\ b \in Seq(1..(n + 1)) /\ a \in Seq(1..(n + 1))
            /\ ToSet(b) = ToSet(a) \cup {n + 1} /\ n + 1 \notin ToSet(a)
            /\ \A m : m \in 1..n /\ Once(a, m) => Once(b, m)
            /\ Once(b, n + 1)
            /\ Sorted(a) => Sorted(b)
<1>. DEFINE b == Append(a, n + 1)
<1>1. a \in Seq(1..(n + 1))
  <2>1. 1..n \subseteq 1..(n + 1)
    OBVIOUS
  <2>. QED BY <2>1, SeqMonotonic
<1>2. /\ b \in Seq(1..(n + 1)) /\ Len(b) = Len(a) + 1
      /\ \A i \in 1..Len(a) : b[i] = a[i]
      /\ b[Len(a) + 1] = n + 1
  <2>1. n + 1 \in 1..(n + 1)
    OBVIOUS
  <2>. QED BY <1>1, <2>1, AppendProperties
<1>. HIDE DEF b
<1>3. /\ Len(a) \in Nat /\ DOMAIN a = 1..Len(a) /\ DOMAIN b = 1..(Len(a) + 1)
      /\ \A i \in 1..Len(a) : a[i] \in 1..n
  BY <1>2, LenProperties
<1>4. \A i \in DOMAIN b : IF i = Len(a) + 1 THEN b[i] = n + 1 ELSE i \in DOMAIN a /\ b[i] = a[i]
  BY <1>2, <1>3
<1>5. \A i \in DOMAIN a : i \in DOMAIN b /\ b[i] = a[i] /\ a[i] < n + 1 /\ a[i] # n + 1
  BY <1>2, <1>3
<1>6. Len(a) + 1 \in DOMAIN b
  BY <1>3
<1>7. ToSet(b) = ToSet(a) \cup {n + 1}
  <2>1. ToSet(b) \subseteq ToSet(a) \cup {n + 1}
    BY <1>4 DEF ToSet
  <2>2. ToSet(a) \cup {n + 1} \subseteq ToSet(b)
    BY <1>2, <1>5, <1>6 DEF ToSet
  <2>. QED BY <2>1, <2>2
<1>8. n + 1 \notin ToSet(a)
  BY <1>5 DEF ToSet
<1>9. ASSUME NEW m, m \in 1..n, Once(a, m) PROVE Once(b, m)
  <2>1. m # n + 1
    BY <1>9
  <2>. QED BY <1>4, <1>9, <2>1 DEF Once
<1>10. Once(b, n + 1)
  BY <1>4, <1>5 DEF Once
<1>11. Sorted(a) => Sorted(b)
  <2>. SUFFICES ASSUME Sorted(a), NEW j \in DOMAIN b, NEW k \in DOMAIN b, j < k PROVE b[j] < b[k]
    BY DEF Sorted
  <2>1. j # Len(a) + 1
    BY <1>3
  <2>2. j \in DOMAIN a /\ b[j] = a[j]
    BY <1>4, <2>1
  <2>. QED BY <1>4, <1>5, <2>2 DEF Sorted
<1>. QED BY <1>1, <1>2, <1>7, <1>8, <1>9, <1>10, <1>11 DEF b

\* A list without repetition of what a finite set has.
LEMMA SetListed ==
  ASSUME NEW S, IsFiniteSet(S)
  PROVE  SetToSeq(S) \in Seq(S) /\ IsInjective(SetToSeq(S)) /\ ToSet(SetToSeq(S)) = S
<1>. DEFINE n == Cardinality(S)
            f == SetToSeq(S)
<1>1. n \in Nat /\ ExistsBijection(1..n, S)
  BY FS_CardinalityType
<1>. HIDE DEF n
<1>2. PICK g : g \in Bijection(1..n, S)
  BY <1>1 DEF ExistsBijection
<1>3. g \in [1..n -> S] /\ IsInjective(g)
  BY <1>2 DEF Bijection, Injection, IsInjective
<1>4. f \in [1..n -> S] /\ IsInjective(f)
  <2>1. f = CHOOSE h \in [1..n -> S] : IsInjective(h)
    BY DEF SetToSeq, n
  <2>. HIDE DEF f
  <2>. QED BY <1>3, <2>1
<1>. HIDE DEF f
<1>5. f \in Injection(1..n, S)
  BY <1>4 DEF Injection
<1>6. f \in Surjection(1..n, S)
  <2>1. Cardinality(1..n) = n /\ IsFiniteSet(1..n)
    <3>1. 1 \in Int /\ n \in Int
      BY <1>1
    <3>2. IsFiniteSet(1..n) /\ Cardinality(1..n) = IF 1 > n THEN 0 ELSE n - 1 + 1
      BY <3>1, FS_Interval
    <3>. QED BY <1>1, <3>2
  <2>. QED BY <1>5, <2>1, FS_Injection DEF n
<1>7. \A x \in S : \E i \in 1..n : f[i] = x
  BY <1>6 DEF Surjection
<1>8. f \in Seq(S) /\ DOMAIN f = 1..n
  BY <1>1, <1>4
<1>9. ToSet(f) = S
  BY <1>4, <1>7, <1>8 DEF ToSet
<1>. QED BY <1>4, <1>8, <1>9 DEF f

-----------------------------------------------------------------------------
(* Where things are *)

\* No linked channel has the id of a surface. links.rs:126 refuses the name of a surface
\* that has a record, but for a member's; a name given before the surface has a record is
\* let through, and once that surface is linked elsewhere its channel's messages follow it.
NamesAreFree == Names \cap Surfaces = {}

\* The channel of a surface, of a name and of a room.
LEMMA HomeIs ==
  ASSUME NEW reg, Apart(reg), NamesAreFree
  PROVE  /\ \A n \in DOMAIN reg : \A s \in reg[n] : logical_of(reg, s) = n
         /\ \A s : (\A n \in DOMAIN reg : s \notin reg[n]) => logical_of(reg, s) = s
         /\ \A s \in Surfaces : logical_of(reg, s) \in Names \cup {s}
         /\ \A i \in Names : logical_of(reg, i) = i
         /\ \A s \in Rooms : logical_of(reg, s) = s
         /\ \A i \in Ids : logical_of(reg, i) \in Ids /\ logical_of(reg, logical_of(reg, i)) = logical_of(reg, i)
<1>1. /\ DOMAIN reg \subseteq Names
      /\ \A n \in DOMAIN reg : reg[n] \subseteq Surfaces \ Rooms
      /\ \A n1, n2 \in DOMAIN reg : reg[n1] \cap reg[n2] # {} => n1 = n2
  BY DEF Apart
<1>2. ASSUME NEW n \in DOMAIN reg, NEW s \in reg[n] PROVE logical_of(reg, s) = n
  <2>1. \E x \in DOMAIN reg : s \in reg[x]
    OBVIOUS
  <2>2. logical_of(reg, s) \in DOMAIN reg /\ s \in reg[logical_of(reg, s)]
    BY <2>1 DEF logical_of
  <2>. QED BY <1>1, <2>2
<1>3. \A s : (\A n \in DOMAIN reg : s \notin reg[n]) => logical_of(reg, s) = s
  BY DEF logical_of
<1>4. \A s \in Surfaces : logical_of(reg, s) \in Names \cup {s}
  BY <1>1, <1>2, <1>3
<1>5. \A i \in Names : logical_of(reg, i) = i
  BY <1>1, <1>3 DEF NamesAreFree
<1>6. \A s \in Rooms : logical_of(reg, s) = s
  BY <1>1, <1>3
<1>. QED BY <1>2, <1>3, <1>4, <1>5, <1>6 DEF Ids

\* It is one of the ids.
LEMMA HomeIn ==
  ASSUME Apart(registry), NEW s \in Surfaces
  PROVE  Home(s) \in Ids
<1>1. CASE \E n \in DOMAIN registry : s \in registry[n]
  BY <1>1 DEF Home, logical_of, Apart, Ids
<1>2. CASE ~ \E n \in DOMAIN registry : s \in registry[n]
  BY <1>2 DEF Home, logical_of, Ids
<1>. QED BY <1>1, <1>2

\* The lines of an id.
LEMMA TextIs ==
  ASSUME LinksTypeOK, NEW i \in Ids
  PROVE  /\ Text(log[i]) \in Seq(1..Len(said_on)) /\ Held(i) \subseteq 1..Len(said_on)
         /\ log[i] # NoFile => Text(log[i]) = log[i]
         /\ log[i] = NoFile => Held(i) = {}
         /\ Len(said_on) \in Nat
<1>1. Text(log[i]) \in Seq(1..Len(said_on))
  BY EmptySeq DEF LinksTypeOK, Text
<1>2. DOMAIN Text(log[i]) = 1..Len(Text(log[i])) /\ \A k \in 1..Len(Text(log[i])) : Text(log[i])[k] \in 1..Len(said_on)
  BY <1>1, LenProperties
<1>3. Held(i) \subseteq 1..Len(said_on)
  BY <1>2 DEF Held, ToSet
<1>4. log[i] = NoFile => Held(i) = {}
  <2>1. ToSet(<<>>) = {}
    BY DEF ToSet
  <2>. QED BY <2>1 DEF Held, Text
<1>5. Len(said_on) \in Nat
  BY LenProperties DEF LinksTypeOK
<1>. QED BY <1>1, <1>3, <1>4, <1>5 DEF Text

\* A surface that is being linked lives in the channel, and no id in both.
LEMMA FreshIs ==
  ASSUME LinksInv, NamesAreFree, cmd.step \in {"merge", "write", "rename", "absorb"}, NEW j \in 1..Len(cmd.fresh)
  PROVE  /\ Home(cmd.fresh[j]) = cmd.name /\ cmd.name \in Names /\ cmd.name \in Ids
         /\ cmd.fresh[j] \in Surfaces \ Rooms /\ cmd.fresh[j] \in Ids /\ cmd.fresh[j] # cmd.name
         /\ \A k \in 1..Len(cmd.fresh) : cmd.fresh[k] = cmd.fresh[j] => k = j
         /\ \A s \in Surfaces : Home(s) # cmd.fresh[j]
<1>1. cmd.fresh \in Seq(Surfaces \ Rooms) /\ cmd.name \in Names /\ IsInjective(cmd.fresh) /\ Apart(registry)
  BY DEF LinksInv, LinksTypeOK, CmdTypeOK, InLink
<1>2. DOMAIN cmd.fresh = 1..Len(cmd.fresh) /\ cmd.fresh[j] \in Surfaces \ Rooms
  BY <1>1, LenProperties
<1>3. cmd.fresh[j] \in ToSet(cmd.fresh)
  BY <1>2 DEF ToSet
<1>4. Home(cmd.fresh[j]) = cmd.name
  BY <1>3 DEF LinksInv, SaveOK, Unmerged, Home
<1>5. \A s \in Surfaces : Home(s) \in Names \cup {s}
  BY <1>1, HomeIs DEF Home
<1>6. \A k \in 1..Len(cmd.fresh) : cmd.fresh[k] = cmd.fresh[j] => k = j
  BY <1>1, <1>2 DEF IsInjective
<1>. QED BY <1>1, <1>2, <1>4, <1>5, <1>6 DEF NamesAreFree, Ids

\* The invariant holds when nobody has said anything.
LEMMA LinksStart == ASSUME LinksInit PROVE LinksInv
<1>1. Len(<<>>) = 0 /\ <<>> \in Seq(Surfaces) /\ <<>> \in Seq(1..0) /\ <<>> \in Seq(Surfaces \ Rooms) /\ DOMAIN <<>> = {}
  OBVIOUS
<1>2. <<>> = [i \in DOMAIN <<>> |-> <<>>[i]]
  OBVIOUS
<1>3. Apart(registry)
  BY <1>1, <1>2 DEF LinksInit, NoEntry, Apart
<1>4. CmdTypeOK
  BY <1>1 DEF LinksInit, NoCommand, CmdTypeOK, LinkSteps, InLink
<1>5. LinksTypeOK
  <2>1. log \in [Ids -> Seq(1..Len(said_on)) \cup {NoFile}]
    BY DEF LinksInit
  <2>2. Tuned(settings)
    BY <1>1, <1>2 DEF LinksInit, NoEntry, Tuned
  <2>3. said_on \in Seq(Surfaces) /\ since \in [Surfaces -> SUBSET (1..Len(said_on))]
    BY <1>1 DEF LinksInit
  <2>. QED BY <1>3, <1>4, <2>1, <2>2, <2>3 DEF LinksTypeOK
<1>6. SaveOK
  BY DEF LinksInit, NoCommand, SaveOK, Unmerged
<1>7. KeptOnce
  BY DEF LinksInit, KeptOnce
<1>8. \A i \in Ids : Text(log[i]) = <<>> /\ Held(i) = {}
  <2>1. ToSet(<<>>) = {}
    BY DEF ToSet
  <2>. QED BY <2>1 DEF LinksInit, Text, Held
<1>9. InSpokenOrder
  BY <1>1, <1>8 DEF LinksInit, NoCommand, InSpokenOrder, Sorted
<1>10. RoomsApart
  <2>1. \A s : Entry(s) = Default
    BY <1>1 DEF LinksInit, NoEntry, Entry
  <2>2. \A s \in Rooms : s \in Ids
    BY LinksAssumption DEF Ids
  <2>. QED BY <1>8, <2>1, <2>2 DEF RoomsApart, Default
<1>. QED BY <1>5, <1>6, <1>7, <1>9, <1>10 DEF LinksInv

-----------------------------------------------------------------------------
(* Settings *)

\* Setting an entry sets that entry and no other.
LEMMA WithIs ==
  ASSUME NEW st, Tuned(st), NEW c, NEW x \in Setting
  PROVE  Tuned(With(st, c, x)) /\ \A i : SettingOf(With(st, c, x), i) = IF i = c THEN x ELSE SettingOf(st, i)
<1>. DEFINE f == With(st, c, x)
<1>1. f = [i \in DOMAIN st \cup {c} |-> IF i = c THEN x ELSE st[i]]
  BY DEF With
<1>. HIDE DEF f
<1>2. DOMAIN f = DOMAIN st \cup {c} /\ \A i \in DOMAIN f : f[i] = IF i = c THEN x ELSE st[i]
  BY <1>1
<1>3. f = [i \in DOMAIN f |-> f[i]]
  BY <1>1
<1>. QED BY <1>2, <1>3 DEF Tuned, SettingOf, f

\* Dropping entries leaves the defaults in their place.
LEMMA WithoutIs ==
  ASSUME NEW st, Tuned(st), NEW S
  PROVE  Tuned(Without(st, S)) /\ \A i : SettingOf(Without(st, S), i) = IF i \in S THEN Default ELSE SettingOf(st, i)
<1>. DEFINE f == Without(st, S)
<1>1. f = [i \in DOMAIN st \ S |-> st[i]]
  BY DEF Without
<1>. HIDE DEF f
<1>2. DOMAIN f = DOMAIN st \ S /\ \A i \in DOMAIN f : f[i] = st[i]
  BY <1>1
<1>3. f = [i \in DOMAIN f |-> f[i]]
  BY <1>1
<1>. QED BY <1>2, <1>3 DEF Tuned, SettingOf, f

\* What settings.json says of an id is a setting.
LEMMA EntryIs ==
  ASSUME Tuned(settings), NEW i
  PROVE  Entry(i) = SettingOf(settings, i) /\ Entry(i) \in Setting
BY DEF Entry, SettingOf, Tuned, Default, Setting

\* Trusting an id trusts nobody else.
LEMMA TrustIs ==
  ASSUME Tuned(settings), NEW i, NEW t \in BOOLEAN
  PROVE  /\ Tuned(Trust(i, t))
         /\ \A j : SettingOf(Trust(i, t), j).trusted => SettingOf(settings, j).trusted \/ (t /\ j = logical_of(registry, i))
<1>. DEFINE c == logical_of(registry, i)
            x == [Entry(c) EXCEPT !.trusted = t]
<1>1. x \in Setting /\ x.trusted = t
  BY EntryIs DEF Setting
<1>2. Trust(i, t) = settings \/ Trust(i, t) = With(settings, c, x)
  BY DEF Trust
<1>. HIDE DEF c, x
<1>. QED BY <1>1, <1>2, WithIs DEF c

\* What is not settings stays, and rooms are trusted by an admin.
LEMMA SettingsChange ==
  ASSUME LinksInv, UNCHANGED <<registry, log, cmd, said_on, torn, since>>,
         Tuned(settings'), \A s \in Rooms : SettingOf(settings', s).trusted => s \in grants'
  PROVE  LinksInv'
<1>. USE DEF LinksInv
<1>1. LinksTypeOK'
  BY DEF LinksTypeOK, CmdTypeOK, InLink
<1>2. SaveOK'
  BY DEF SaveOK, Unmerged
<1>3. KeptOnce'
  BY DEF KeptOnce, Placed, Merged, Held, Home, Pending, Doubled
<1>4. InSpokenOrder'
  BY DEF InSpokenOrder, Doubled, Held
<1>5. RoomsApart'
  <2>1. \A s : Entry(s)' = SettingOf(settings', s)
    BY DEF Entry, SettingOf
  <2>. QED BY <2>1 DEF RoomsApart, Held
<1>. QED BY <1>1, <1>2, <1>3, <1>4, <1>5

\* An admin's trust is granted to the channel the id resolves to, and to no other room.
LEMMA TrustCommand ==
  ASSUME LinksInv, NamesAreFree, NEW i \in Ids, NEW trusted \in BOOLEAN, set_channel_trust(i, trusted)
  PROVE  LinksInv'
<1>. DEFINE c == logical_of(registry, i)
<1>1. Tuned(settings) /\ Apart(registry)
  BY DEF LinksInv, LinksTypeOK
<1>2. logical_of(registry, c) = c
  BY <1>1, HomeIs
<1>3. settings' = Trust(c, trusted) /\ grants' = IF trusted THEN grants \cup {logical_of(registry, c)} ELSE grants
  BY DEF set_channel_trust
<1>4. UNCHANGED <<registry, log, cmd, said_on, torn, since>>
  BY DEF set_channel_trust
<1>. HIDE DEF c
<1>5. \A s \in Rooms : SettingOf(settings, s).trusted => s \in grants
  BY <1>1, EntryIs DEF LinksInv, RoomsApart
<1>6. Tuned(settings') /\ \A s \in Rooms : SettingOf(settings', s).trusted => s \in grants'
  BY <1>1, <1>2, <1>3, <1>5, TrustIs
<1>. QED BY <1>4, <1>6, SettingsChange

\* A wake mode trusts nobody.
LEMMA ModeCommand ==
  ASSUME LinksInv, NEW i \in Ids, NEW mode \in {"all", "mention"}, set_channel_mode(i, mode)
  PROVE  LinksInv'
<1>. DEFINE c == logical_of(registry, i)
            x == [Entry(c) EXCEPT !.mode = mode]
<1>1. Tuned(settings)
  BY DEF LinksInv, LinksTypeOK
<1>2. x \in Setting /\ x.trusted = Entry(c).trusted
  BY <1>1, EntryIs DEF Setting
<1>3. settings' = With(settings, c, x)
  BY DEF set_channel_mode, Mode
<1>4. UNCHANGED <<registry, log, cmd, said_on, torn, since, grants>>
  BY DEF set_channel_mode, Narrative
<1>. HIDE DEF c, x
<1>5. \A s \in Rooms : SettingOf(settings, s).trusted => s \in grants
  BY <1>1, EntryIs DEF LinksInv, RoomsApart
<1>6. Tuned(settings') /\ \A s : SettingOf(settings', s).trusted => SettingOf(settings, s).trusted
  BY <1>1, <1>2, <1>3, WithIs, EntryIs
<1>. QED BY <1>4, <1>5, <1>6, SettingsChange

-----------------------------------------------------------------------------
(* Commands *)

\* A command that does not touch what anybody said.
LEMMA StartsCommand ==
  ASSUME LinksInv, cmd.step = "idle", UNCHANGED <<registry, log, settings, said_on, torn, since, grants>>,
         cmd'.step \in {"save", "unlink"}, CmdTypeOK', SaveOK'
  PROVE  LinksInv'
<1>. USE DEF LinksInv
<1>1. LinksTypeOK'
  BY DEF LinksTypeOK
<1>2. KeptOnce'
  <2>. SUFFICES ASSUME NEW s \in Surfaces, NEW m \in since[s] \ torn PROVE Placed(s, m)' /\ Merged(m)'
    BY DEF KeptOnce
  <2>1. Placed(s, m)
    BY DEF KeptOnce
  <2>2. ~ Pending(s) /\ ~ Pending(s)' /\ \A i : ~ Doubled(i) /\ ~ Doubled(i)'
    BY DEF Pending, Doubled
  <2>3. Home(s)' = Home(s) /\ \A i : Held(i)' = Held(i)
    BY DEF Home, Held
  <2>4. Placed(s, m)'
    BY <2>1, <2>2, <2>3 DEF Placed
  <2>. QED BY <2>4 DEF Merged
<1>3. InSpokenOrder'
  <2>1. \A i : ~ Doubled(i) /\ ~ Doubled(i)' /\ Held(i)' = Held(i)
    BY DEF Doubled, Held
  <2>. QED BY <2>1 DEF InSpokenOrder
<1>4. RoomsApart'
  BY DEF RoomsApart, Entry, Held
<1>. QED BY <1>1, <1>2, <1>3, <1>4

\* A link that is allowed takes surfaces no other channel has, and no room.
LEMMA LinkLoadStep ==
  ASSUME LinksInv, NEW name \in Names, NEW sids \in SUBSET Surfaces, LinkLoad(name, sids)
  PROVE  LinksInv'
<1>. DEFINE fresh == SetToSeq(sids \ Members(registry, name))
            reg == With(registry, name, Members(registry, name) \cup sids)
<1>1. /\ cmd.step = "idle" /\ LinkAllowed(registry, name, sids)
      /\ cmd' = [NoCommand EXCEPT !.step = "save", !.name = name, !.fresh = fresh, !.reg = reg]
      /\ UNCHANGED <<registry, log, settings, said_on, torn, since, grants>>
  BY DEF LinkLoad, Narrative
<1>2. sids \subseteq Surfaces \ Rooms
  BY <1>1, LinksAssumption DEF LinkAllowed
<1>3. fresh \in Seq(Surfaces \ Rooms) /\ IsInjective(fresh) /\ ToSet(fresh) = sids \ Members(registry, name)
  <2>1. IsFiniteSet(sids \ Members(registry, name))
    BY LinksAssumption, FS_Subset
  <2>2. fresh \in Seq(sids \ Members(registry, name)) /\ IsInjective(fresh) /\ ToSet(fresh) = sids \ Members(registry, name)
    BY <2>1, SetListed
  <2>. HIDE DEF fresh
  <2>. QED BY <1>2, <2>2, SeqMonotonic
<1>4. reg = With(registry, name, Members(registry, name) \cup ToSet(fresh))
  <2>1. Members(registry, name) \cup sids = Members(registry, name) \cup (sids \ Members(registry, name))
    OBVIOUS
  <2>. QED BY <1>3, <2>1
<1>5. \A n \in DOMAIN registry : registry[n] \cap ToSet(fresh) = {}
  BY <1>1, <1>3 DEF LinkAllowed, Members
<1>. HIDE DEF fresh, reg
<1>6. cmd' = [step |-> "save", name |-> name, fresh |-> fresh, at |-> 1, reg |-> reg, text |-> <<>>]
  BY <1>1 DEF NoCommand

<1>7. CmdTypeOK'
  <2>1. <<>> \in Seq(1..Len(said_on'))
    OBVIOUS
  <2>. QED BY <1>3, <1>6, <2>1 DEF CmdTypeOK, LinkSteps, InLink
<1>8. SaveOK'
  BY <1>1, <1>4, <1>5, <1>6 DEF SaveOK, Unmerged
<1>. QED BY <1>1, <1>6, <1>7, <1>8, StartsCommand

\* A registry after one left it.
LEMMA DepartedIs ==
  ASSUME NEW reg, Apart(reg), NEW s, NEW n \in DOMAIN reg, s \in reg[n]
  PROVE  Apart(Departed(reg, s))
<1>. DEFINE x == logical_of(reg, s)
            left == reg[x] \ {s}
<1>1. x \in DOMAIN reg
  <2>1. \E y \in DOMAIN reg : s \in reg[y]
    OBVIOUS
  <2>. QED BY <2>1 DEF logical_of
<1>2. Departed(reg, s) = IF Cardinality(left) <= 1 THEN Without(reg, {x}) ELSE With(reg, x, left)
  BY DEF Departed
<1>. HIDE DEF x
<1>3. Apart(Without(reg, {x}))
  <2>. DEFINE f == Without(reg, {x})
  <2>1. f = [i \in DOMAIN reg \ {x} |-> reg[i]]
    BY DEF Without
  <2>. HIDE DEF f
  <2>2. DOMAIN f = DOMAIN reg \ {x} /\ \A i \in DOMAIN f : f[i] = reg[i]
    BY <2>1
  <2>3. f = [i \in DOMAIN f |-> f[i]]
    BY <2>1
  <2>. QED BY <2>2, <2>3 DEF Apart, f
<1>4. Apart(With(reg, x, left))
  <2>. DEFINE f == With(reg, x, left)
  <2>1. f = [i \in DOMAIN reg \cup {x} |-> IF i = x THEN left ELSE reg[i]]
    BY DEF With
  <2>. HIDE DEF f
  <2>2. DOMAIN f = DOMAIN reg /\ \A i \in DOMAIN f : f[i] \subseteq reg[i]
    BY <1>1, <2>1
  <2>3. f = [i \in DOMAIN f |-> f[i]]
    BY <2>1
  <2>4. \A n1, n2 \in DOMAIN reg : reg[n1] \cap reg[n2] # {} => n1 = n2
    BY DEF Apart
  <2>5. \A n1, n2 \in DOMAIN f : f[n1] \cap f[n2] # {} => n1 = n2
    BY <2>2, <2>4
  <2>. QED BY <2>2, <2>3, <2>5 DEF Apart, f
<1>. QED BY <1>2, <1>3, <1>4

\* What an unlink is about to save is a registry.
LEMMA UnlinkLoadStep ==
  ASSUME LinksInv, NEW s \in Surfaces, UnlinkLoad(s)
  PROVE  LinksInv'
<1>1. /\ cmd.step = "idle" /\ cmd' = [NoCommand EXCEPT !.step = "unlink", !.reg = Departed(registry, s)]
      /\ UNCHANGED <<registry, log, settings, said_on, torn, since, grants>>
  BY DEF UnlinkLoad, Narrative
<1>2. PICK n \in DOMAIN registry : s \in registry[n]
  BY DEF UnlinkLoad
<1>3. Apart(Departed(registry, s))
  BY <1>2, DepartedIs DEF LinksInv, LinksTypeOK
<1>4. cmd' = [step |-> "unlink", name |-> NoFile, fresh |-> <<>>, at |-> 1, reg |-> Departed(registry, s), text |-> <<>>]
  BY <1>1 DEF NoCommand
<1>5. CmdTypeOK'
  <2>1. <<>> \in Seq(1..Len(said_on')) /\ <<>> \in Seq(Surfaces \ Rooms)
    OBVIOUS
  <2>. QED BY <1>4, <2>1 DEF CmdTypeOK, LinkSteps, InLink
<1>6. SaveOK'
  BY <1>3, <1>4 DEF SaveOK, Unmerged
<1>. QED BY <1>1, <1>4, <1>5, <1>6, StartsCommand

\* The link is saved: who was by itself is of the channel, its history is not yet.
LEMMA SaveIs ==
  ASSUME LinksInv, NamesAreFree, LinkSave
  PROVE  /\ Apart(registry')
         /\ \A s \in ToSet(cmd.fresh) : Home(s)' = cmd.name /\ Home(s) = s /\ s \in Surfaces
         /\ \A s \in Surfaces \ ToSet(cmd.fresh) : Home(s)' = Home(s)
<1>. DEFINE name == cmd.name
            F == ToSet(cmd.fresh)
            old_ == Members(registry, name)
            reg == With(registry, name, old_ \cup F)
<1>1. Apart(registry) /\ name \in Names /\ registry' = reg /\ \A n \in DOMAIN registry : registry[n] \cap F = {}
  BY DEF LinksInv, LinksTypeOK, CmdTypeOK, InLink, SaveOK, LinkSave
<1>2. F \subseteq Surfaces \ Rooms
  <2>1. cmd.fresh \in Seq(Surfaces \ Rooms)
    BY DEF LinksInv, LinksTypeOK, CmdTypeOK
  <2>2. \A i \in DOMAIN cmd.fresh : cmd.fresh[i] \in Surfaces \ Rooms
    BY <2>1, LenProperties
  <2>. QED BY <2>2 DEF ToSet
<1>3. reg = [n \in DOMAIN registry \cup {name} |-> IF n = name THEN old_ \cup F ELSE registry[n]]
  BY DEF With
<1>4. /\ name \in DOMAIN registry => old_ = registry[name]
      /\ name \notin DOMAIN registry => old_ = {}
  BY DEF Members
<1>. HIDE DEF reg, F, name, old_
<1>5. /\ DOMAIN reg = DOMAIN registry \cup {name}
      /\ reg[name] = old_ \cup F
      /\ \A n \in DOMAIN registry : n # name => reg[n] = registry[n]
      /\ reg = [n \in DOMAIN reg |-> reg[n]]
  BY <1>3
<1>6. /\ DOMAIN registry \subseteq Names
      /\ \A n \in DOMAIN registry : registry[n] \subseteq Surfaces \ Rooms
      /\ \A n1, n2 \in DOMAIN registry : registry[n1] \cap registry[n2] # {} => n1 = n2
  BY <1>1 DEF Apart
<1>7. Apart(reg)
  <2>1. \A n \in DOMAIN reg : reg[n] \subseteq Surfaces \ Rooms
    BY <1>2, <1>4, <1>5, <1>6
  <2>2. ASSUME NEW n1 \in DOMAIN reg, NEW n2 \in DOMAIN reg, reg[n1] \cap reg[n2] # {} PROVE n1 = n2
    <3>1. PICK x : x \in reg[n1] /\ x \in reg[n2]
      BY <2>2
    <3>2. CASE n1 # name /\ n2 # name
      <4>1. n1 \in DOMAIN registry /\ n2 \in DOMAIN registry /\ x \in registry[n1] /\ x \in registry[n2]
        BY <1>5, <3>1, <3>2
      <4>. QED BY <1>6, <4>1
    <3>3. ASSUME NEW n \in DOMAIN registry, n # name, x \in registry[n], x \in reg[name] PROVE FALSE
      <4>1. x \in old_ \/ x \in F
        BY <1>5, <3>3
      <4>2. x \notin F
        BY <1>1, <3>3
      <4>3. name \in DOMAIN registry /\ x \in registry[name]
        BY <1>4, <4>1, <4>2
      <4>. QED BY <1>6, <3>3, <4>3
    <3>. QED BY <1>5, <3>1, <3>2, <3>3
  <2>. QED BY <1>1, <1>5, <1>6, <2>1, <2>2 DEF Apart
<1>8. ASSUME NEW s \in F PROVE Home(s)' = name /\ Home(s) = s /\ s \in Surfaces
  <2>1. name \in DOMAIN reg /\ s \in reg[name]
    BY <1>5
  <2>2. logical_of(reg, s) = name
    BY <1>7, <2>1, HomeIs
  <2>3. logical_of(registry, s) = s
    <3>1. \A n \in DOMAIN registry : s \notin registry[n]
      BY <1>1
    <3>. QED BY <1>1, <3>1, HomeIs
  <2>. QED BY <1>1, <1>2, <2>2, <2>3 DEF Home
<1>9. ASSUME NEW s \in Surfaces \ F PROVE Home(s)' = Home(s)
  <2>1. CASE \E n \in DOMAIN registry : s \in registry[n]
    <3>1. PICK n \in DOMAIN registry : s \in registry[n]
      BY <2>1
    <3>2. n \in DOMAIN reg /\ s \in reg[n]
      BY <1>4, <1>5, <3>1
    <3>3. logical_of(registry, s) = n
      BY <1>1, <3>1, HomeIs
    <3>4. logical_of(reg, s) = n
      BY <1>7, <3>2, HomeIs
    <3>. QED BY <1>1, <3>3, <3>4 DEF Home
  <2>2. CASE \A n \in DOMAIN registry : s \notin registry[n]
    <3>1. \A n \in DOMAIN reg : s \notin reg[n]
      BY <1>4, <1>5, <2>2
    <3>2. logical_of(registry, s) = s
      BY <1>1, <2>2, HomeIs
    <3>3. logical_of(reg, s) = s
      BY <1>7, <3>1, HomeIs
    <3>. QED BY <1>1, <3>2, <3>3 DEF Home
  <2>. QED BY <2>1, <2>2
<1>. QED BY <1>1, <1>7, <1>8, <1>9 DEF F, name

\* Once the link is saved, the surfaces' own files wait for the merge.
LEMMA LinkSaveStep ==
  ASSUME LinksInv, NamesAreFree, LinkSave
  PROVE  LinksInv'
<1>1. /\ cmd.step = "save" /\ registry' = cmd.reg /\ cmd' = [cmd EXCEPT !.step = "merge", !.reg = NoEntry]
      /\ UNCHANGED <<log, settings, said_on, torn, since, grants>>
  BY DEF LinkSave, Narrative
<1>2. CmdTypeOK
  BY DEF LinksInv, LinksTypeOK
<1>3. /\ cmd'.step = "merge" /\ cmd'.name = cmd.name /\ cmd'.fresh = cmd.fresh /\ cmd'.at = 1 /\ cmd'.text = cmd.text
      /\ cmd.at = 1
      /\ cmd' = [step |-> cmd'.step, name |-> cmd'.name, fresh |-> cmd'.fresh, at |-> cmd'.at,
                 reg |-> cmd'.reg, text |-> cmd'.text]
  BY <1>1, <1>2 DEF CmdTypeOK
<1>4. CmdTypeOK'
  BY <1>1, <1>2, <1>3 DEF CmdTypeOK, LinkSteps, InLink
<1>5. /\ Apart(registry')
      /\ \A s \in ToSet(cmd.fresh) : Home(s)' = cmd.name /\ Home(s) = s /\ s \in Surfaces
      /\ \A s \in Surfaces \ ToSet(cmd.fresh) : Home(s)' = Home(s)
  BY SaveIs
<1>6. LinksTypeOK'
  BY <1>1, <1>4, <1>5 DEF LinksInv, LinksTypeOK
<1>7. SaveOK'
  BY <1>3, <1>5 DEF SaveOK, Home
<1>8. \A s : Pending(s)' <=> s \in ToSet(cmd.fresh)
  <2>1. DOMAIN cmd.fresh = 1..Len(cmd.fresh) /\ Len(cmd.fresh) \in Nat
    BY <1>2, LenProperties DEF CmdTypeOK
  <2>2. \A s : s \in ToSet(cmd.fresh) <=> \E j \in 1..Len(cmd.fresh) : cmd.fresh[j] = s
    BY <2>1 DEF ToSet
  <2>3. \A j \in 1..Len(cmd.fresh) : j >= 1
    BY <2>1
  <2>. QED BY <1>3, <2>2, <2>3 DEF Pending
<1>9. \A s : ~ Pending(s) /\ ~ Doubled(s) /\ ~ Doubled(s)'
  BY <1>1, <1>3 DEF Pending, Doubled
<1>10. \A i : Held(i)' = Held(i)
  BY <1>1 DEF Held
<1>11. KeptOnce'
  <2>. SUFFICES ASSUME NEW s \in Surfaces, NEW m \in since[s] \ torn PROVE Placed(s, m)' /\ Merged(m)'
    BY <1>1 DEF KeptOnce
  <2>1. Placed(s, m)
    BY DEF LinksInv, KeptOnce
  <2>2. m \in Held(Home(s)) /\ \A i \in Ids : m \in Held(i) => Once(Text(log[i]), m) /\ i = Home(s)
    BY <1>9, <2>1 DEF Placed
  <2>3. cmd.name \in Ids /\ cmd.name \notin Surfaces
    BY <1>1, <1>2 DEF CmdTypeOK, InLink, NamesAreFree, Ids
  <2>4. Placed(s, m)'
    <3>1. CASE s \in ToSet(cmd.fresh)
      <4>1. Home(s)' = cmd.name /\ Home(s) = s /\ Pending(s)' /\ cmd.name # s
        BY <1>5, <1>8, <2>3, <3>1
      <4>2. m \notin Held(cmd.name)
        BY <2>2, <2>3, <4>1
      <4>. QED BY <1>1, <1>9, <1>10, <2>2, <4>1, <4>2 DEF Placed
    <3>2. CASE s \notin ToSet(cmd.fresh)
      <4>1. Home(s)' = Home(s) /\ ~ Pending(s)'
        BY <1>5, <1>8, <3>2
      <4>. QED BY <1>1, <1>9, <1>10, <2>2, <4>1 DEF Placed
    <3>. QED BY <3>1, <3>2
  <2>. QED BY <1>3, <2>4 DEF Merged
<1>12. InSpokenOrder'
  BY <1>1, <1>3, <1>9, <1>10 DEF LinksInv, InSpokenOrder
<1>13. RoomsApart'
  BY <1>1, <1>10 DEF LinksInv, RoomsApart, Entry
<1>. QED BY <1>6, <1>7, <1>11, <1>12, <1>13 DEF LinksInv

\* Whoever an unlink sends home starts a new story; nobody else's changes.
LEMMA UnlinkSaveStep ==
  ASSUME LinksInv, UnlinkSave
  PROVE  LinksInv'
<1>1. /\ cmd.step = "unlink" /\ registry' = cmd.reg /\ cmd' = NoCommand
      /\ since' = [s \in Surfaces |-> IF logical_of(cmd.reg, s) # logical_of(registry, s) THEN {} ELSE since[s]]
      /\ UNCHANGED <<log, settings, said_on, torn, grants>>
  BY DEF UnlinkSave
<1>2. Apart(registry')
  BY <1>1 DEF LinksInv, SaveOK
<1>3. CmdTypeOK'
  <2>1. <<>> \in Seq(1..Len(said_on')) /\ <<>> \in Seq(Surfaces \ Rooms)
    OBVIOUS
  <2>. QED BY <1>1, <2>1 DEF NoCommand, CmdTypeOK, LinkSteps, InLink
<1>4. LinksTypeOK'
  BY <1>1, <1>2, <1>3 DEF LinksInv, LinksTypeOK
<1>5. SaveOK'
  BY <1>1 DEF NoCommand, SaveOK, Unmerged
<1>6. \A s : ~ Pending(s) /\ ~ Doubled(s) /\ ~ Pending(s)' /\ ~ Doubled(s)' /\ Held(s)' = Held(s)
  BY <1>1 DEF NoCommand, Pending, Doubled, Held
<1>7. KeptOnce'
  <2>. SUFFICES ASSUME NEW s \in Surfaces, NEW m \in since'[s] \ torn PROVE Placed(s, m)' /\ Merged(m)'
    BY <1>1 DEF KeptOnce
  <2>1. m \in since[s] /\ Home(s)' = Home(s)
    BY <1>1 DEF Home
  <2>2. Placed(s, m)
    BY <2>1 DEF LinksInv, KeptOnce
  <2>3. Placed(s, m)'
    BY <1>1, <1>6, <2>1, <2>2 DEF Placed
  <2>. QED BY <1>1, <2>3 DEF Merged, NoCommand
<1>8. InSpokenOrder'
  BY <1>1, <1>6 DEF LinksInv, InSpokenOrder, NoCommand
<1>9. RoomsApart'
  BY <1>1, <1>6 DEF LinksInv, RoomsApart, Entry
<1>. QED BY <1>4, <1>5, <1>7, <1>8, <1>9 DEF LinksInv

\* The settings a channel absorbs are those of no room.
LEMMA AbsorbStep ==
  ASSUME LinksInv, NamesAreFree, Absorb
  PROVE  LinksInv'
<1>1. /\ cmd.step = "absorb" /\ settings' = absorb_settings(cmd.name, ToSet(cmd.fresh)) /\ cmd' = NoCommand
      /\ UNCHANGED <<registry, log, said_on, torn, since, grants>>
  BY DEF Absorb, Narrative
<1>2. Tuned(settings) /\ CmdTypeOK /\ cmd.name \in Names
  BY <1>1 DEF LinksInv, LinksTypeOK, CmdTypeOK, InLink
<1>3. Tuned(settings') /\ \A s : SettingOf(settings', s).trusted => SettingOf(settings, s).trusted \/ s = cmd.name
  <2>. DEFINE st == Without(settings, ToSet(cmd.fresh))
              mention == \E i \in ToSet(cmd.fresh) \cup {cmd.name} : Entry(i).mode = "mention"
              x == [trusted |-> TRUE, mode |-> IF mention THEN "mention" ELSE Entry(cmd.name).mode]
  <2>1. settings' = With(st, cmd.name, x)
    BY <1>1 DEF absorb_settings
  <2>2. x \in Setting
    <3>1. Entry(cmd.name).mode \in {"all", "mention"}
      BY <1>2, EntryIs DEF Setting
    <3>. HIDE DEF mention
    <3>. QED BY <3>1 DEF Setting
  <2>. HIDE DEF x
  <2>3. Tuned(st) /\ \A i : SettingOf(st, i).trusted => SettingOf(settings, i).trusted
    <3>1. ~ Default.trusted
      BY DEF Default
    <3>. QED BY <1>2, <3>1, WithoutIs
  <2>. HIDE DEF st
  <2>. QED BY <2>1, <2>2, <2>3, WithIs
<1>4. CmdTypeOK'
  <2>1. <<>> \in Seq(1..Len(said_on')) /\ <<>> \in Seq(Surfaces \ Rooms)
    OBVIOUS
  <2>. QED BY <1>1, <2>1 DEF NoCommand, CmdTypeOK, LinkSteps, InLink
<1>5. LinksTypeOK'
  BY <1>1, <1>3, <1>4 DEF LinksInv, LinksTypeOK
<1>6. SaveOK'
  BY <1>1 DEF NoCommand, SaveOK, Unmerged
<1>7. \A s : ~ Pending(s) /\ ~ Doubled(s) /\ ~ Pending(s)' /\ ~ Doubled(s)' /\ Held(s)' = Held(s) /\ Home(s)' = Home(s)
  BY <1>1 DEF NoCommand, Pending, Doubled, Held, Home
<1>8. KeptOnce'
  BY <1>1, <1>7 DEF LinksInv, KeptOnce, Placed, Merged, NoCommand
<1>9. InSpokenOrder'
  BY <1>1, <1>7 DEF LinksInv, InSpokenOrder, NoCommand
<1>10. RoomsApart'
  <2>1. \A s : Entry(s) = SettingOf(settings, s) /\ Entry(s)' = SettingOf(settings', s)
    BY DEF Entry, SettingOf
  <2>2. \A s \in Rooms : s # cmd.name
    BY <1>2, LinksAssumption DEF NamesAreFree
  <2>. QED BY <1>1, <1>3, <1>7, <2>1, <2>2 DEF LinksInv, RoomsApart
<1>. QED BY <1>5, <1>6, <1>8, <1>9, <1>10 DEF LinksInv

\* What is removed is of an id that is in no link, and of no one else's story.
LEMMA RemoveStep ==
  ASSUME LinksInv, NEW i \in Ids, rm(i)
  PROVE  LinksInv'
<1>1. /\ cmd.step = "idle" /\ settings' = Without(settings, {i}) /\ log' = [log EXCEPT ![i] = NoFile]
      /\ since' = [s \in Surfaces |-> since[s] \ ToSet(Text(log[i]))]
      /\ UNCHANGED <<registry, cmd, said_on, torn, grants>>
  BY DEF rm
<1>2. log \in [Ids -> Seq(1..Len(said_on)) \cup {NoFile}] /\ Tuned(settings) /\ since \in [Surfaces -> SUBSET (1..Len(said_on))]
  BY DEF LinksInv, LinksTypeOK
<1>3. Tuned(settings') /\ \A s : SettingOf(settings', s).trusted => SettingOf(settings, s).trusted
  <2>1. ~ Default.trusted
    BY DEF Default
  <2>. QED BY <1>1, <1>2, <2>1, WithoutIs
<1>4. LinksTypeOK'
  <2>1. log' \in [Ids -> Seq(1..Len(said_on)) \cup {NoFile}]
    BY <1>1, <1>2
  <2>2. since' \in [Surfaces -> SUBSET (1..Len(said_on))]
    BY <1>1, <1>2
  <2>3. CmdTypeOK'
    BY <1>1 DEF LinksInv, LinksTypeOK, CmdTypeOK, InLink
  <2>. QED BY <1>1, <1>3, <2>1, <2>2, <2>3 DEF LinksInv, LinksTypeOK
<1>5. SaveOK'
  BY <1>1 DEF LinksInv, SaveOK, Unmerged
<1>6. \A j \in Ids : /\ j # i => Text(log'[j]) = Text(log[j]) /\ Held(j)' = Held(j)
                     /\ j = i => Text(log'[j]) = <<>> /\ Held(j)' = {}
  <2>1. ToSet(<<>>) = {}
    BY DEF ToSet
  <2>. QED BY <1>1, <1>2, <2>1 DEF Held, Text
<1>7. \A s : ~ Pending(s) /\ ~ Doubled(s) /\ ~ Pending(s)' /\ ~ Doubled(s)' /\ Home(s)' = Home(s)
  BY <1>1 DEF Pending, Doubled, Home
<1>8. KeptOnce'
  <2>. SUFFICES ASSUME NEW s \in Surfaces, NEW m \in since'[s] \ torn PROVE Placed(s, m)' /\ Merged(m)'
    BY <1>1 DEF KeptOnce
  <2>1. m \in since[s] /\ m \notin Held(i)
    BY <1>1 DEF Held
  <2>2. Placed(s, m)
    BY <2>1 DEF LinksInv, KeptOnce
  <2>3. m \in Held(Home(s)) /\ \A j \in Ids : m \in Held(j) => Once(Text(log[j]), m) /\ j = Home(s)
    BY <1>7, <2>2 DEF Placed
  <2>4. Home(s) # i
    BY <2>1, <2>3
  <2>5. Home(s) \in Ids
    BY HomeIn DEF LinksInv, LinksTypeOK
  <2>6. Placed(s, m)'
    BY <1>6, <1>7, <2>3, <2>4, <2>5 DEF Placed
  <2>. QED BY <1>1, <2>6 DEF Merged
<1>9. InSpokenOrder'
  <2>1. Sorted(<<>>)
    BY DEF Sorted
  <2>. QED BY <1>1, <1>6, <1>7, <2>1 DEF LinksInv, InSpokenOrder
<1>10. RoomsApart'
  <2>1. \A s : Entry(s) = SettingOf(settings, s) /\ Entry(s)' = SettingOf(settings', s)
    BY DEF Entry, SettingOf
  <2>2. \A s \in Rooms : s \in Ids
    BY LinksAssumption DEF Ids
  <2>. QED BY <1>1, <1>3, <1>6, <2>1, <2>2 DEF LinksInv, RoomsApart
<1>. QED BY <1>4, <1>5, <1>8, <1>9, <1>10 DEF LinksInv

-----------------------------------------------------------------------------
(* The listener *)

\* A message goes to the end of the file of its surface's channel, and to no other.
LEMMA PersistIs ==
  ASSUME LinksInv, NamesAreFree, NEW s \in Surfaces, Persist(s)
  PROVE  \E n \in Nat, d \in Ids :
            /\ n = Len(said_on) /\ d = Home(s) /\ said_on' = Append(said_on, s) /\ Len(said_on') = n + 1
            /\ said_on'[n + 1] = s /\ \A m \in 1..n : said_on'[m] = said_on[m]
            /\ since' = [since EXCEPT ![s] = @ \cup {n + 1}]
            /\ torn' = IF Merging(d) THEN torn \cup {n + 1} ELSE torn
            /\ \A i \in Ids \ {d} : Text(log'[i]) = Text(log[i]) /\ Held(i)' = Held(i)
            /\ Text(log'[d]) = Append(Text(log[d]), n + 1) /\ Held(d)' = Held(d) \cup {n + 1}
            /\ Sorted(Text(log[d])) => Sorted(Text(log'[d]))
            /\ \A i \in Ids : /\ Held(i) \subseteq 1..n
                              /\ \A m \in 1..n : Once(Text(log[i]), m) => Once(Text(log'[i]), m)
            /\ Once(Text(log'[d]), n + 1)
            /\ log' \in [Ids -> Seq(1..(n + 1)) \cup {NoFile}]
            /\ UNCHANGED <<registry, cmd, grants>>
<1>1. Apart(registry) /\ LinksTypeOK /\ s \in Ids
  BY DEF LinksInv, LinksTypeOK, Ids
<1>0. PICK n \in Nat : n = Len(said_on)
  BY <1>1, LenProperties DEF LinksTypeOK
<1>2. PICK d \in Ids : d = Home(s)
  BY <1>1, HomeIn
<1>3. channel_dir(registry, logical_of(registry, s)) = d
  BY <1>1, <1>2, HomeIs DEF channel_dir, Home
<1>4. /\ said_on' = Append(said_on, s)
      /\ since' = [since EXCEPT ![s] = @ \cup {n + 1}]
      /\ log' = [log EXCEPT ![d] = Append(Text(log[d]), n + 1)]
      /\ torn' = IF Merging(d) THEN torn \cup {n + 1} ELSE torn
      /\ UNCHANGED <<registry, cmd, grants>>
  BY <1>0, <1>3 DEF Persist
<1>5. said_on \in Seq(Surfaces) /\ n \in Nat
  BY <1>1 DEF LinksTypeOK
<1>6. Len(said_on') = n + 1 /\ said_on'[n + 1] = s /\ \A m \in 1..n : said_on'[m] = said_on[m]
  BY <1>0, <1>4, <1>5, AppendProperties
<1>7. log \in [Ids -> Seq(1..n) \cup {NoFile}]
  BY <1>0, <1>1 DEF LinksTypeOK
<1>8. \A i \in Ids : Text(log[i]) \in Seq(1..n) /\ Held(i) \subseteq 1..n
  BY <1>0, <1>1, TextIs
<1>. DEFINE a == Text(log[d])
            b == Append(a, n + 1)
<1>9. /\ b \in Seq(1..(n + 1)) /\ ToSet(b) = ToSet(a) \cup {n + 1}
      /\ \A m : m \in 1..n /\ Once(a, m) => Once(b, m)
      /\ Once(b, n + 1)
      /\ Sorted(a) => Sorted(b)
  <2>1. a \in Seq(1..n)
    BY <1>2, <1>8
  <2>. HIDE DEF a
  <2>. QED BY <1>5, <2>1, PutLast
<1>. HIDE DEF a, b
<1>10. log' = [log EXCEPT ![d] = b]
  BY <1>4 DEF a, b
<1>11. b # NoFile
  <2>1. 1..(n + 1) \subseteq Nat
    BY <1>5
  <2>2. b \in Seq(Nat)
    BY <1>9, <2>1, SeqMonotonic
  <2>. QED BY <2>2, LinksAssumption
<1>12. /\ \A i \in Ids \ {d} : log'[i] = log[i]
       /\ log'[d] = b
  BY <1>2, <1>7, <1>10
<1>13. Text(log'[d]) = b /\ \A i \in Ids \ {d} : Text(log'[i]) = Text(log[i]) /\ Held(i)' = Held(i)
  BY <1>11, <1>12 DEF Text, Held
<1>14. Held(d)' = Held(d) \cup {n + 1}
  BY <1>9, <1>13 DEF Held, a
<1>15. log' \in [Ids -> Seq(1..(n + 1)) \cup {NoFile}]
  <2>1. 1..n \subseteq 1..(n + 1)
    BY <1>5
  <2>2. Seq(1..n) \subseteq Seq(1..(n + 1))
    BY <2>1, SeqMonotonic
  <2>. QED BY <1>7, <1>9, <1>10, <2>2
<1>16. \A i \in Ids : \A m \in 1..n : Once(Text(log[i]), m) => Once(Text(log'[i]), m)
  BY <1>9, <1>13 DEF a
<1>17. /\ Text(log'[d]) = Append(Text(log[d]), n + 1)
       /\ Sorted(Text(log[d])) => Sorted(Text(log'[d]))
       /\ Once(Text(log'[d]), n + 1)
  BY <1>9, <1>13 DEF a, b
<1>. QED BY <1>0, <1>2, <1>4, <1>5, <1>6, <1>8, <1>13, <1>14, <1>15, <1>16, <1>17

\* A message said is in its surface's channel, last, and there only.
LEMMA PersistStep ==
  ASSUME LinksInv, NamesAreFree, NEW s \in Surfaces, Persist(s)
  PROVE  LinksInv'
<1>1. PICK n \in Nat, d \in Ids :
      /\ n = Len(said_on) /\ d = Home(s) /\ said_on' = Append(said_on, s) /\ Len(said_on') = n + 1
      /\ said_on'[n + 1] = s /\ \A m \in 1..n : said_on'[m] = said_on[m]
      /\ since' = [since EXCEPT ![s] = @ \cup {n + 1}]
      /\ torn' = IF Merging(d) THEN torn \cup {n + 1} ELSE torn
      /\ \A i \in Ids \ {d} : Text(log'[i]) = Text(log[i]) /\ Held(i)' = Held(i)
      /\ Text(log'[d]) = Append(Text(log[d]), n + 1) /\ Held(d)' = Held(d) \cup {n + 1}
      /\ Sorted(Text(log[d])) => Sorted(Text(log'[d]))
      /\ \A i \in Ids : /\ Held(i) \subseteq 1..n
                        /\ \A m \in 1..n : Once(Text(log[i]), m) => Once(Text(log'[i]), m)
      /\ Once(Text(log'[d]), n + 1)
      /\ log' \in [Ids -> Seq(1..(n + 1)) \cup {NoFile}]
      /\ UNCHANGED <<registry, cmd, grants>>
  BY PersistIs
<1>. DEFINE Now(i) == ToSet(Text(log'[i]))
<1>0. \A i \in Ids : Now(i) = IF i = d THEN Held(i) \cup {n + 1} ELSE Held(i)
  BY <1>1 DEF Held
<1>2. LinksTypeOK
  BY DEF LinksInv
<1>3. n + 1 \notin 1..n /\ 1..n \subseteq 1..(n + 1) /\ n + 1 \in 1..(n + 1)
  BY <1>1
<1>4. since \in [Surfaces -> SUBSET (1..n)]
  BY <1>1, <1>2 DEF LinksTypeOK
<1>5. \A x \in Surfaces : \A m \in since'[x] : (m \in since[x] /\ m \in 1..n) \/ (m = n + 1 /\ x = s)
  BY <1>1, <1>4
<1>6. \A x \in Surfaces : Home(x)' = Home(x)
  BY <1>1 DEF Home
<1>7. \A i : (Pending(i)' <=> Pending(i)) /\ (Doubled(i)' <=> Doubled(i))
  BY <1>1 DEF Pending, Doubled
<1>8. Tuned(settings') /\ \A x \in Rooms : SettingOf(settings', x).trusted => SettingOf(settings, x).trusted
  <2>1. Tuned(settings) /\ Apart(registry)
    BY <1>2 DEF LinksTypeOK
  <2>2. settings' = settings \/ (s \notin Rooms /\ settings' = Trust(s, TRUE))
    BY DEF Persist
  <2>3. s \notin Rooms => \A x \in Rooms : x # logical_of(registry, s)
    BY <2>1, HomeIs, LinksAssumption DEF NamesAreFree
  <2>. QED BY <2>1, <2>2, <2>3, TrustIs
<1>9. CmdTypeOK'
  <2>1. CmdTypeOK
    BY <1>2 DEF LinksTypeOK
  <2>2. cmd.text \in Seq(1..(n + 1))
    <3>1. cmd.text \in Seq(1..n)
      BY <1>1, <2>1 DEF CmdTypeOK
    <3>. QED BY <1>3, <3>1, SeqMonotonic
  <2>. QED BY <1>1, <2>1, <2>2 DEF CmdTypeOK, InLink
<1>10. LinksTypeOK'
  <2>1. since' \in [Surfaces -> SUBSET (1..(n + 1))]
        <3>. QED BY <1>1, <1>3, <1>4
  <2>2. said_on' \in Seq(Surfaces)
    BY <1>1, <1>2, AppendProperties DEF LinksTypeOK
  <2>3. Apart(registry')
    BY <1>1, <1>2 DEF LinksTypeOK
  <2>. QED BY <1>1, <1>8, <1>9, <2>1, <2>2, <2>3 DEF LinksTypeOK
<1>11. SaveOK'
  BY <1>1 DEF LinksInv, SaveOK, Unmerged
<1>12. cmd.step \in {"write", "rename"} =>
         /\ cmd.name \in Ids /\ cmd.fresh[cmd.at] \in Ids /\ d # cmd.fresh[cmd.at]
         /\ Merging(d) <=> d = cmd.name
  <2>. SUFFICES ASSUME cmd.step \in {"write", "rename"}
                PROVE  /\ cmd.name \in Ids /\ cmd.fresh[cmd.at] \in Ids /\ d # cmd.fresh[cmd.at]
                       /\ Merging(d) <=> d = cmd.name
    OBVIOUS
  <2>1. cmd.at \in 1..Len(cmd.fresh)
    BY <1>2 DEF LinksTypeOK, CmdTypeOK
  <2>2. cmd.name \in Ids /\ cmd.fresh[cmd.at] \in Ids /\ d # cmd.fresh[cmd.at]
    BY <1>1, <2>1, FreshIs
  <2>. QED BY <2>2 DEF Merging
<1>13. ToSet(cmd.text) \subseteq 1..n
  <2>1. cmd.text \in Seq(1..n)
    BY <1>1, <1>2 DEF LinksTypeOK, CmdTypeOK
  <2>2. \A k \in DOMAIN cmd.text : cmd.text[k] \in 1..n
    BY <2>1, LenProperties
  <2>. QED BY <2>2 DEF ToSet
<1>14. KeptOnce'
  <2>. SUFFICES ASSUME NEW x \in Surfaces, NEW m \in since'[x] \ torn' PROVE Placed(x, m)' /\ Merged(m)'
    BY DEF KeptOnce
    <2>1. CASE m \in since[x] /\ m \in 1..n
    <3>1. m \in since[x] \ torn /\ m # n + 1
      BY <1>1, <1>3, <2>1
    <3>2. Placed(x, m) /\ Merged(m)
      BY <3>1 DEF LinksInv, KeptOnce
    <3>3. \A i \in Ids : (m \in Now(i) <=> m \in Held(i)) /\ (Once(Text(log[i]), m) => Once(Text(log'[i]), m))
      BY <1>0, <1>1, <2>1, <3>1
    <3>4. Home(x) \in Ids /\ x \in Ids
      BY <1>2, HomeIn DEF LinksTypeOK, Ids
    <3>5. Placed(x, m)'
      BY <1>6, <1>7, <3>2, <3>3, <3>4 DEF Placed, Held
    <3>6. Merged(m)'
      BY <1>1, <1>12, <3>2, <3>3 DEF Merged, Held
    <3>. QED BY <3>5, <3>6
  <2>2. CASE m = n + 1 /\ x = s
    <3>1. ~ Merging(d)
      BY <1>1, <2>2
    <3>2. \A i \in Ids : m \in Now(i) <=> i = d
      BY <1>0, <1>1, <1>3, <2>2
    <3>3. Home(x)' = d /\ x \in Ids
      BY <1>1, <1>6, <2>2 DEF Ids
    <3>4. Pending(x) => x # d
      <4>. SUFFICES ASSUME Pending(x) PROVE x # d
        OBVIOUS
      <4>1. PICK j \in 1..Len(cmd.fresh) : cmd.fresh[j] = x /\ cmd.step \in {"merge", "write", "rename"}
        BY DEF Pending
      <4>. QED BY <1>1, <2>2, <4>1, FreshIs
    <3>5. Placed(x, m)'
      BY <1>1, <1>7, <2>2, <3>2, <3>3, <3>4 DEF Placed, Held
    <3>6. Merged(m)'
      <4>1. SUFFICES ASSUME cmd.step = "write"
                     PROVE  (m \in ToSet(cmd.text) <=> m \in Now(cmd.name) \cup Now(cmd.fresh[cmd.at])) /\ Once(cmd.text, m)
        BY <1>1 DEF Merged, Held
      <4>2. m \notin ToSet(cmd.text)
        BY <1>3, <1>13, <2>2
      <4>3. m \notin Now(cmd.name) /\ m \notin Now(cmd.fresh[cmd.at])
        BY <1>12, <3>1, <3>2, <4>1
      <4>4. Once(cmd.text, m)
        BY <4>2 DEF Once, ToSet
      <4>. QED BY <4>2, <4>3, <4>4
    <3>. QED BY <3>5, <3>6
  <2>. QED BY <1>5, <2>1, <2>2
<1>15. InSpokenOrder'
  <2>. SUFFICES ASSUME torn' = {}
                PROVE  /\ \A i \in Ids : Sorted(Text(log'[i]))
                       /\ \A i, j \in Ids : i # j /\ ~ Doubled(i)' /\ ~ Doubled(j)' => Now(i) \cap Now(j) = {}
                       /\ cmd'.step = "write" =>
                            /\ Sorted(cmd'.text)
                            /\ ToSet(cmd'.text) = Now(cmd'.name) \cup Now(cmd'.fresh[cmd'.at])
    BY DEF InSpokenOrder, Held
    <2>1. torn = {} /\ ~ Merging(d)
    BY <1>1
  <2>2. /\ \A i \in Ids : Sorted(Text(log[i]))
        /\ \A i, j \in Ids : i # j /\ ~ Doubled(i) /\ ~ Doubled(j) => Held(i) \cap Held(j) = {}
        /\ cmd.step = "write" =>
             Sorted(cmd.text) /\ ToSet(cmd.text) = Held(cmd.name) \cup Held(cmd.fresh[cmd.at])
    BY <2>1 DEF LinksInv, InSpokenOrder
  <2>3. \A i \in Ids : Sorted(Text(log'[i]))
    BY <1>1, <2>2
  <2>4. \A i, j \in Ids : i # j /\ ~ Doubled(i)' /\ ~ Doubled(j)' => Now(i) \cap Now(j) = {}
    BY <1>0, <1>1, <1>3, <1>7, <2>2
  <2>5. cmd.step = "write" => Now(cmd.name) = Held(cmd.name) /\ Now(cmd.fresh[cmd.at]) = Held(cmd.fresh[cmd.at])
    BY <1>0, <1>1, <1>12, <2>1
  <2>. QED BY <1>1, <2>2, <2>3, <2>4, <2>5
<1>16. RoomsApart'
  <2>. SUFFICES ASSUME NEW x \in Rooms
                PROVE  (\A m \in Now(x) : said_on'[m] = x) /\ (Entry(x)'.trusted => x \in grants')
    BY DEF RoomsApart, Held
  <2>1. x \in Ids /\ (d = x => s = x)
    <3>1. x \in Surfaces /\ d \in Names \cup {s}
      BY <1>1, <1>2, HomeIs, LinksAssumption DEF LinksTypeOK, Home
    <3>. QED BY <3>1 DEF Ids, NamesAreFree
  <2>2. \A m \in Held(x) : said_on[m] = x
    BY DEF LinksInv, RoomsApart
  <2>3. Entry(x) = SettingOf(settings, x) /\ Entry(x)' = SettingOf(settings', x)
    BY DEF Entry, SettingOf
  <2>4. Entry(x).trusted => x \in grants
    BY DEF LinksInv, RoomsApart
    <2>5. \A m \in Now(x) : said_on'[m] = x
    BY <1>0, <1>1, <2>1, <2>2
  <2>. QED BY <1>1, <1>8, <2>3, <2>4, <2>5
<1>. QED BY <1>10, <1>11, <1>14, <1>15, <1>16 DEF LinksInv

-----------------------------------------------------------------------------
(* The merge *)

\* A surface with no file has nothing that waits.
LEMMA MergeNoneStep ==
  ASSUME LinksInv, NamesAreFree, MergeNone
  PROVE  LinksInv'
<1>1. /\ cmd.step = "merge" /\ cmd.at \notin Mergeable
      /\ cmd' = IF cmd.at < Len(cmd.fresh) THEN [cmd EXCEPT !.at = @ + 1] ELSE [cmd EXCEPT !.step = "absorb"]
      /\ UNCHANGED <<registry, log, settings, said_on, torn, since, grants>>
  BY DEF MergeNone, Narrative
<1>2. CmdTypeOK /\ LinksTypeOK
  BY DEF LinksInv, LinksTypeOK
<1>3. cmd.at \in Nat \ {0} /\ Len(cmd.fresh) \in Nat
  BY <1>2, LenProperties DEF CmdTypeOK
<1>4. /\ cmd'.name = cmd.name /\ cmd'.fresh = cmd.fresh /\ cmd'.text = cmd.text
      /\ IF cmd.at < Len(cmd.fresh) THEN cmd'.step = "merge" /\ cmd'.at = cmd.at + 1
                                    ELSE cmd'.step = "absorb" /\ cmd'.at = cmd.at
      /\ cmd' = [step |-> cmd'.step, name |-> cmd'.name, fresh |-> cmd'.fresh, at |-> cmd'.at,
                 reg |-> cmd'.reg, text |-> cmd'.text]
  BY <1>1, <1>2 DEF CmdTypeOK
<1>5. CmdTypeOK'
  BY <1>1, <1>2, <1>3, <1>4 DEF CmdTypeOK, LinkSteps, InLink
<1>6. LinksTypeOK'
  BY <1>1, <1>2, <1>5 DEF LinksTypeOK
<1>7. SaveOK'
  BY <1>1, <1>4 DEF LinksInv, SaveOK, Unmerged
<1>8. \A i : ~ Doubled(i) /\ ~ Doubled(i)' /\ Held(i)' = Held(i) /\ Home(i)' = Home(i)
  BY <1>1, <1>4 DEF Doubled, Held, Home
<1>9. cmd.at \in 1..Len(cmd.fresh) => Held(cmd.fresh[cmd.at]) = {}
  <2>. SUFFICES ASSUME cmd.at \in 1..Len(cmd.fresh) PROVE Held(cmd.fresh[cmd.at]) = {}
    OBVIOUS
  <2>1. cmd.fresh[cmd.at] \in Ids /\ cmd.fresh[cmd.at] # cmd.name
    BY <1>1, FreshIs
  <2>2. log[cmd.fresh[cmd.at]] = NoFile
    BY <1>1, <2>1 DEF Mergeable
  <2>. QED BY <1>2, <2>1, <2>2, TextIs
<1>10. \A s : Pending(s)' => Pending(s)
  BY <1>1, <1>3, <1>4 DEF Pending
<1>11. \A s : Pending(s) /\ Held(s) # {} => Pending(s)'
  <2>. SUFFICES ASSUME NEW s, Pending(s), Held(s) # {} PROVE Pending(s)'
    OBVIOUS
  <2>1. PICK j \in 1..Len(cmd.fresh) : cmd.fresh[j] = s /\ j >= cmd.at
    BY <1>1 DEF Pending
  <2>2. j # cmd.at
    BY <1>9, <2>1
  <2>3. j >= cmd.at + 1 /\ cmd.at < Len(cmd.fresh)
    BY <1>3, <2>1, <2>2
  <2>. QED BY <1>4, <2>1, <2>3 DEF Pending
<1>12. KeptOnce'
  <2>. SUFFICES ASSUME NEW s \in Surfaces, NEW m \in since[s] \ torn PROVE Placed(s, m)' /\ Merged(m)'
    BY <1>1 DEF KeptOnce
  <2>1. Placed(s, m)
    BY DEF LinksInv, KeptOnce
  <2>2. Placed(s, m)'
    BY <1>1, <1>8, <1>10, <1>11, <2>1 DEF Placed
  <2>. QED BY <1>4, <2>2 DEF Merged
<1>13. InSpokenOrder'
  BY <1>1, <1>4, <1>8 DEF LinksInv, InSpokenOrder
<1>14. RoomsApart'
  BY <1>1, <1>8 DEF LinksInv, RoomsApart, Entry
<1>. QED BY <1>6, <1>7, <1>12, <1>13, <1>14 DEF LinksInv

\* The lines read are those of both files, each once, in order.
LEMMA MergeReadStep ==
  ASSUME LinksInv, NamesAreFree, MergeRead
  PROVE  LinksInv'
<1>1. /\ cmd.step = "merge" /\ cmd.at \in Mergeable
      /\ cmd' = [cmd EXCEPT !.step = "write",
                        !.text = Interleaved(Text(log[cmd.name]), log[cmd.fresh[cmd.at]])]
      /\ UNCHANGED <<registry, log, settings, said_on, torn, since, grants>>
  BY DEF MergeRead, Narrative
<1>2. CmdTypeOK /\ LinksTypeOK
  BY DEF LinksInv, LinksTypeOK
<1>3. PICK at, f, x : /\ at = cmd.at /\ f = cmd.fresh[at] /\ x = cmd.name
  OBVIOUS
<1>4. at \in 1..Len(cmd.fresh) /\ log[f] # NoFile
  BY <1>1, <1>3 DEF Mergeable
<1>5. /\ Home(f) = x /\ x \in Names /\ x \in Ids /\ f \in Surfaces \ Rooms /\ f \in Ids /\ f # x
      /\ \A k \in 1..Len(cmd.fresh) : cmd.fresh[k] = f => k = at
      /\ \A s \in Surfaces : Home(s) # f
  BY <1>1, <1>3, <1>4, FreshIs
<1>6. PICK n \in Nat : n = Len(said_on)
  BY <1>2, <1>5, TextIs
<1>7. PICK a \in Seq(1..n), b \in Seq(1..n) : a = Text(log[x]) /\ b = Text(log[f]) /\ b = log[f]
  BY <1>2, <1>4, <1>5, <1>6, TextIs
<1>8. PICK t : t = Interleaved(a, b)
  OBVIOUS
<1>9. /\ t \in Seq(1..n) /\ ToSet(t) = ToSet(a) \cup ToSet(b)
      /\ \A j, k \in DOMAIN t : j < k => t[j] <= t[k]
      /\ \A m : Once(a, m) /\ Once(b, m) /\ ~ (m \in ToSet(a) /\ m \in ToSet(b)) => Once(t, m)
  <2>1. 1..n \in SUBSET Nat
    OBVIOUS
  <2>. QED BY <1>8, <2>1, MergeIs
<1>10. ToSet(a) = Held(x) /\ ToSet(b) = Held(f)
  BY <1>7 DEF Held
<1>11. /\ cmd'.name = x /\ cmd'.fresh = cmd.fresh /\ cmd'.at = at /\ cmd'.text = t /\ cmd'.step = "write"
       /\ cmd' = [step |-> cmd'.step, name |-> cmd'.name, fresh |-> cmd'.fresh, at |-> cmd'.at,
                 reg |-> cmd'.reg, text |-> cmd'.text]
  BY <1>1, <1>2, <1>3, <1>7, <1>8 DEF CmdTypeOK
<1>12. CmdTypeOK'
  BY <1>1, <1>2, <1>3, <1>4, <1>6, <1>9, <1>11 DEF CmdTypeOK, LinkSteps, InLink
<1>13. LinksTypeOK'
  BY <1>1, <1>2, <1>12 DEF LinksTypeOK
<1>14. SaveOK'
  BY <1>1, <1>3, <1>11 DEF LinksInv, SaveOK, Unmerged
<1>15. \A i : /\ ~ Doubled(i) /\ ~ Doubled(i)' /\ Held(i)' = Held(i) /\ Home(i)' = Home(i)
              /\ Pending(i)' <=> Pending(i)
  BY <1>1, <1>3, <1>11 DEF Doubled, Held, Home, Pending
<1>16. KeptOnce'
  <2>. SUFFICES ASSUME NEW s \in Surfaces, NEW m \in since[s] \ torn PROVE Placed(s, m)' /\ Merged(m)'
    BY <1>1 DEF KeptOnce
  <2>1. Placed(s, m)
    BY DEF LinksInv, KeptOnce
  <2>2. Placed(s, m)'
    BY <1>1, <1>15, <2>1 DEF Placed
  <2>3. Once(a, m) \/ m \notin Held(x)
    BY <1>5, <1>7, <1>15, <2>1 DEF Placed
  <2>4. Once(b, m) \/ m \notin Held(f)
    BY <1>5, <1>7, <1>15, <2>1 DEF Placed
  <2>5. \A c : m \notin ToSet(c) => Once(c, m)
    BY DEF Once, ToSet
  <2>6. ~ (m \in Held(x) /\ m \in Held(f))
    <3>. SUFFICES ASSUME m \in Held(x), m \in Held(f) PROVE FALSE
      OBVIOUS
    <3>1. f = s /\ Pending(s)
      BY <1>5, <1>15, <2>1 DEF Placed
    <3>. QED BY <1>5, <2>1, <3>1 DEF Placed
  <2>7. Once(t, m)
    BY <1>9, <1>10, <2>3, <2>4, <2>5, <2>6
  <2>8. Merged(m)'
    BY <1>1, <1>3, <1>9, <1>10, <1>11, <2>7 DEF Merged, Held
  <2>. QED BY <2>2, <2>8
<1>17. InSpokenOrder'
  <2>. SUFFICES ASSUME torn = {} PROVE InSpokenOrder'
    BY <1>1 DEF InSpokenOrder
  <2>1. /\ \A i \in Ids : Sorted(Text(log[i]))
        /\ \A i, j \in Ids : i # j => Held(i) \cap Held(j) = {}
    BY <1>15 DEF LinksInv, InSpokenOrder
  <2>2. \A c \in Seq(1..n) : Sorted(c) => \A m : Once(c, m)
    <3>. SUFFICES ASSUME NEW c \in Seq(1..n), Sorted(c), NEW m, NEW j \in DOMAIN c, NEW k \in DOMAIN c,
                         c[j] = m, c[k] = m
                  PROVE  j = k
      BY DEF Once
    <3>1. j \in Nat /\ k \in Nat /\ c[j] \in 1..n /\ c[k] \in 1..n
      BY LenProperties
    <3>2. ~ (j < k) /\ ~ (k < j)
      BY <3>1 DEF Sorted
    <3>. QED BY <3>1, <3>2
  <2>3. Held(x) \cap Held(f) = {}
    BY <1>5, <2>1
  <2>4. \A m : Once(t, m)
    BY <1>5, <1>7, <1>9, <1>10, <2>1, <2>2, <2>3
  <2>5. Sorted(t)
    <3>. SUFFICES ASSUME NEW j \in DOMAIN t, NEW k \in DOMAIN t, j < k PROVE t[j] < t[k]
      BY DEF Sorted
    <3>1. t[j] \in Nat /\ t[k] \in Nat /\ t[j] <= t[k] /\ j # k
      BY <1>9, LenProperties
    <3>2. t[j] # t[k]
      BY <2>4, <3>1 DEF Once
    <3>. QED BY <3>1, <3>2
  <2>6. ToSet(t) = Held(x) \cup Held(f)
    BY <1>9, <1>10
  <2>. QED BY <1>1, <1>3, <1>11, <1>15, <2>1, <2>5, <2>6 DEF InSpokenOrder, Held
<1>18. RoomsApart'
  BY <1>1, <1>15 DEF LinksInv, RoomsApart, Entry
<1>. QED BY <1>13, <1>14, <1>16, <1>17, <1>18 DEF LinksInv

\* Once written, the channel has what waited, and the surface's file is its double.
LEMMA MergeWriteStep ==
  ASSUME LinksInv, NamesAreFree, MergeWrite
  PROVE  LinksInv'
<1>1. /\ cmd.step = "write" /\ log' = [log EXCEPT ![cmd.name] = cmd.text]
      /\ cmd' = [cmd EXCEPT !.step = "rename", !.text = <<>>]
      /\ UNCHANGED <<registry, settings, said_on, torn, since, grants>>
  BY DEF MergeWrite, Narrative
<1>2. CmdTypeOK /\ LinksTypeOK
  BY DEF LinksInv, LinksTypeOK
<1>3. PICK at, f, x, t : /\ at = cmd.at /\ f = cmd.fresh[at] /\ x = cmd.name /\ t = cmd.text
  OBVIOUS
<1>4. at \in 1..Len(cmd.fresh) /\ Len(cmd.fresh) \in Nat
  BY <1>1, <1>2, <1>3, LenProperties DEF CmdTypeOK
<1>5. /\ Home(f) = x /\ x \in Names /\ x \in Ids /\ f \in Surfaces \ Rooms /\ f \in Ids /\ f # x
      /\ \A k \in 1..Len(cmd.fresh) : cmd.fresh[k] = f => k = at
      /\ \A s \in Surfaces : Home(s) # f
  BY <1>1, <1>3, <1>4, FreshIs
<1>6. t \in Seq(1..Len(said_on)) /\ t # NoFile
  <2>1. t \in Seq(1..Len(said_on)) /\ Len(said_on) \in Nat
    BY <1>2, <1>3, <1>5, TextIs DEF CmdTypeOK
  <2>2. 1..Len(said_on) \subseteq Nat
    BY <2>1
  <2>3. t \in Seq(Nat)
    BY <2>1, <2>2, SeqMonotonic
  <2>. QED BY <2>1, <2>3, LinksAssumption
<1>7. /\ cmd'.name = x /\ cmd'.fresh = cmd.fresh /\ cmd'.at = at /\ cmd'.text = <<>> /\ cmd'.step = "rename"
      /\ cmd' = [step |-> cmd'.step, name |-> cmd'.name, fresh |-> cmd'.fresh, at |-> cmd'.at,
                 reg |-> cmd'.reg, text |-> cmd'.text]
  BY <1>1, <1>2, <1>3 DEF CmdTypeOK
<1>8. CmdTypeOK'
  <2>1. <<>> \in Seq(1..Len(said_on'))
    OBVIOUS
  <2>. QED BY <1>1, <1>2, <1>3, <1>4, <1>7, <2>1 DEF CmdTypeOK, LinkSteps, InLink
<1>9. log \in [Ids -> Seq(1..Len(said_on)) \cup {NoFile}]
  BY <1>2 DEF LinksTypeOK
<1>10. LinksTypeOK'
  <2>1. log' \in [Ids -> Seq(1..Len(said_on)) \cup {NoFile}]
    BY <1>1, <1>3, <1>6, <1>9
  <2>. QED BY <1>1, <1>2, <1>8, <2>1 DEF LinksTypeOK
<1>11. SaveOK'
  BY <1>1, <1>3, <1>7 DEF LinksInv, SaveOK, Unmerged
<1>12. \A i \in Ids : IF i = x THEN Text(log'[i]) = t /\ Held(i)' = ToSet(t)
                      ELSE Text(log'[i]) = Text(log[i]) /\ Held(i)' = Held(i)
  BY <1>1, <1>3, <1>5, <1>6, <1>9 DEF Text, Held
<1>13. \A i : /\ ~ Doubled(i) /\ (Doubled(i)' <=> i = f) /\ Home(i)' = Home(i)
              /\ Pending(i)' => Pending(i) /\ i # f
              /\ Pending(i) /\ i # f => Pending(i)'
  <2>1. \A i : ~ Doubled(i) /\ (Doubled(i)' <=> i = f) /\ Home(i)' = Home(i)
    BY <1>1, <1>3, <1>7 DEF Doubled, Home
  <2>2. \A i : Pending(i) <=> \E j \in 1..Len(cmd.fresh) : cmd.fresh[j] = i /\ j >= at
    BY <1>1, <1>3 DEF Pending
  <2>3. \A i : Pending(i)' <=> \E j \in 1..Len(cmd.fresh) : cmd.fresh[j] = i /\ j > at
    BY <1>7 DEF Pending
  <2>4. \A j \in 1..Len(cmd.fresh) : (j > at => j >= at /\ j # at) /\ (j >= at /\ j # at => j > at)
    BY <1>4
  <2>5. cmd.fresh[at] = f
    BY <1>3
  <2>6. ASSUME NEW i, Pending(i)' PROVE Pending(i) /\ i # f
    BY <1>5, <2>2, <2>3, <2>4, <2>6
  <2>7. ASSUME NEW i, Pending(i), i # f PROVE Pending(i)'
    BY <2>2, <2>3, <2>4, <2>5, <2>7
  <2>. QED BY <2>1, <2>6, <2>7
<1>14. KeptOnce'
  <2>. SUFFICES ASSUME NEW s \in Surfaces, NEW m \in since[s] \ torn PROVE Placed(s, m)' /\ Merged(m)'
    BY <1>1 DEF KeptOnce
  <2>1. Placed(s, m) /\ Merged(m)
    BY DEF LinksInv, KeptOnce
  <2>2. (m \in ToSet(t) <=> m \in Held(x) \cup Held(f)) /\ Once(t, m)
    BY <1>1, <1>3, <2>1 DEF Merged
  <2>3. /\ \A i \in Ids : m \in Held(i) => Once(Text(log[i]), m) /\ (i = Home(s) \/ (i = s /\ Pending(s)))
        /\ m \in Held(Home(s)) \/ (Pending(s) /\ m \in Held(s))
        /\ Pending(s) => ~ (m \in Held(Home(s)) /\ m \in Held(s))
    BY <1>13, <2>1 DEF Placed
  <2>4. PICK h \in Ids : h = Home(s)
    BY <1>2, HomeIn DEF LinksTypeOK
  <2>5. s \in Ids /\ s # x
    BY <1>5 DEF Ids, NamesAreFree
  <2>6. m \in Held(x) \cup Held(f) => h = x
    BY <1>5, <2>3, <2>4, <2>5
  <2>7. m \in Held(f) => s = f
    BY <1>5, <2>3, <2>4
  <2>8. \A i \in Ids : m \in Held(i)' /\ i # f => Once(Text(log'[i]), m) /\ (i = h \/ (i = s /\ Pending(s)'))
    <3>. SUFFICES ASSUME NEW i \in Ids, m \in Held(i)', i # f
                  PROVE  Once(Text(log'[i]), m) /\ (i = h \/ (i = s /\ Pending(s)'))
      OBVIOUS
    <3>1. CASE i = x
      BY <1>12, <2>2, <2>6, <3>1
    <3>2. CASE i # x
      BY <1>12, <1>13, <2>3, <2>4, <3>2
    <3>. QED BY <3>1, <3>2
  <2>9. m \in Held(h)' \/ (Pending(s)' /\ m \in Held(s)')
    <3>1. CASE h = x
      <4>1. CASE m \in Held(x) \cup Held(f)
        BY <1>12, <2>2, <2>4, <3>1, <4>1
      <4>2. CASE ~ (m \in Held(x) \cup Held(f))
        BY <1>12, <1>13, <2>3, <2>4, <2>5, <3>1, <4>2
      <4>. QED BY <4>1, <4>2
    <3>2. CASE h # x
      BY <1>5, <1>12, <1>13, <2>3, <2>4, <2>5, <3>2
    <3>. QED BY <3>1, <3>2
  <2>10. Pending(s)' => ~ (m \in Held(h)' /\ m \in Held(s)')
    <3>. SUFFICES ASSUME Pending(s)', m \in Held(h)', m \in Held(s)' PROVE FALSE
      OBVIOUS
    <3>1. Pending(s) /\ s # f /\ m \in Held(s) /\ m \notin Held(h)
      BY <1>12, <1>13, <2>3, <2>4, <2>5
    <3>2. h = x /\ m \in ToSet(t)
      BY <1>12, <3>1
    <3>. QED BY <2>2, <2>7, <3>1, <3>2
  <2>11. Home(s)' = h
    BY <1>13, <2>4
  <2>12. \A i : Doubled(i)' <=> i = f
    BY <1>13
  <2>13. Placed(s, m)'
    BY <2>8, <2>9, <2>10, <2>11, <2>12 DEF Placed, Held
  <2>. QED BY <1>7, <2>13 DEF Merged
<1>15. InSpokenOrder'
  <2>. SUFFICES ASSUME torn = {}
                PROVE  /\ \A i \in Ids : Sorted(Text(log'[i]))
                       /\ \A i, j \in Ids : i # j /\ i # f /\ j # f => Held(i)' \cap Held(j)' = {}
    BY <1>1, <1>7, <1>13 DEF InSpokenOrder
  <2>1. /\ \A i \in Ids : Sorted(Text(log[i]))
        /\ \A i, j \in Ids : i # j => Held(i) \cap Held(j) = {}
        /\ Sorted(t) /\ ToSet(t) = Held(x) \cup Held(f)
    BY <1>1, <1>3, <1>13 DEF LinksInv, InSpokenOrder
  <2>2. \A i \in Ids : Sorted(Text(log'[i]))
    BY <1>12, <2>1
  <2>3. ASSUME NEW i \in Ids, NEW j \in Ids, i # j, i # f, j # f PROVE Held(i)' \cap Held(j)' = {}
    BY <1>5, <1>12, <2>1, <2>3
  <2>. QED BY <2>2, <2>3
<1>16. RoomsApart'
  <2>1. \A s \in Rooms : s \in Ids /\ s # x
    BY <1>5, LinksAssumption DEF Ids, NamesAreFree
  <2>. QED BY <1>1, <1>12, <2>1 DEF LinksInv, RoomsApart, Entry
<1>. QED BY <1>10, <1>11, <1>14, <1>15, <1>16 DEF LinksInv

\* The double is put aside: nothing of the story was only there.
LEMMA MergeRenameStep ==
  ASSUME LinksInv, NamesAreFree, MergeRename
  PROVE  LinksInv'
<1>1. /\ cmd.step = "rename" /\ log' = [log EXCEPT ![cmd.fresh[cmd.at]] = NoFile]
      /\ cmd' = [cmd EXCEPT !.step = "merge"]
      /\ UNCHANGED <<registry, settings, said_on, torn, since, grants>>
  BY DEF MergeRename, Narrative
<1>2. CmdTypeOK /\ LinksTypeOK
  BY DEF LinksInv, LinksTypeOK
<1>3. PICK at, f, x : /\ at = cmd.at /\ f = cmd.fresh[at] /\ x = cmd.name
  OBVIOUS
<1>4. at \in 1..Len(cmd.fresh) /\ Len(cmd.fresh) \in Nat
  BY <1>1, <1>2, <1>3, LenProperties DEF CmdTypeOK
<1>5. /\ Home(f) = x /\ x \in Names /\ x \in Ids /\ f \in Surfaces \ Rooms /\ f \in Ids /\ f # x
      /\ \A k \in 1..Len(cmd.fresh) : cmd.fresh[k] = f => k = at
      /\ \A s \in Surfaces : Home(s) # f
  BY <1>1, <1>3, <1>4, FreshIs
<1>7. /\ cmd'.name = x /\ cmd'.fresh = cmd.fresh /\ cmd'.at = at /\ cmd'.text = cmd.text /\ cmd'.step = "merge"
      /\ cmd' = [step |-> cmd'.step, name |-> cmd'.name, fresh |-> cmd'.fresh, at |-> cmd'.at,
                 reg |-> cmd'.reg, text |-> cmd'.text]
  BY <1>1, <1>2, <1>3 DEF CmdTypeOK
<1>8. CmdTypeOK'
  BY <1>1, <1>2, <1>3, <1>4, <1>7 DEF CmdTypeOK, LinkSteps, InLink
<1>9. log \in [Ids -> Seq(1..Len(said_on)) \cup {NoFile}]
  BY <1>2 DEF LinksTypeOK
<1>10. LinksTypeOK'
  <2>1. log' \in [Ids -> Seq(1..Len(said_on)) \cup {NoFile}]
    BY <1>1, <1>3, <1>9
  <2>. QED BY <1>1, <1>2, <1>8, <2>1 DEF LinksTypeOK
<1>11. SaveOK'
  BY <1>1, <1>3, <1>7 DEF LinksInv, SaveOK, Unmerged
<1>12. \A i \in Ids : IF i = f THEN Text(log'[i]) = <<>> /\ Held(i)' = {}
                      ELSE Text(log'[i]) = Text(log[i]) /\ Held(i)' = Held(i)
  <2>1. ToSet(<<>>) = {}
    BY DEF ToSet
  <2>. QED BY <1>1, <1>3, <1>5, <1>9, <2>1 DEF Text, Held
<1>13. \A i : /\ ~ Doubled(i)' /\ (Doubled(i) <=> i = f) /\ Home(i)' = Home(i)
              /\ Pending(i) => Pending(i)' /\ i # f
  <2>1. \A i : ~ Doubled(i)' /\ (Doubled(i) <=> i = f) /\ Home(i)' = Home(i)
    BY <1>1, <1>3, <1>7 DEF Doubled, Home
  <2>2. \A i : Pending(i)' <=> \E j \in 1..Len(cmd.fresh) : cmd.fresh[j] = i /\ j >= at
    BY <1>7 DEF Pending
  <2>3. \A i : Pending(i) <=> \E j \in 1..Len(cmd.fresh) : cmd.fresh[j] = i /\ j > at
    BY <1>1, <1>3 DEF Pending
  <2>4. \A j \in 1..Len(cmd.fresh) : j > at => j >= at /\ j # at
    BY <1>4
  <2>5. ASSUME NEW i, Pending(i) PROVE Pending(i)' /\ i # f
    BY <1>5, <2>2, <2>3, <2>4, <2>5
  <2>. QED BY <2>1, <2>5
<1>14. KeptOnce'
  <2>. SUFFICES ASSUME NEW s \in Surfaces, NEW m \in since[s] \ torn PROVE Placed(s, m)' /\ Merged(m)'
    BY <1>1 DEF KeptOnce
  <2>1. Placed(s, m)
    BY DEF LinksInv, KeptOnce
  <2>2. PICK h \in Ids : h = Home(s) /\ h # f
    BY <1>2, <1>5, HomeIn DEF LinksTypeOK
  <2>3. s \in Ids
    BY DEF Ids
  <2>4. /\ \A i \in Ids : m \in Held(i) /\ i # f => Once(Text(log[i]), m) /\ (i = h \/ (i = s /\ Pending(s)))
        /\ m \in Held(h) \/ (Pending(s) /\ m \in Held(s))
        /\ Pending(s) => ~ (m \in Held(h) /\ m \in Held(s))
    BY <1>13, <2>1, <2>2 DEF Placed
  <2>5. \A i \in Ids : m \in Held(i)' => Once(Text(log'[i]), m) /\ (i = h \/ (i = s /\ Pending(s)'))
    BY <1>12, <1>13, <2>4
  <2>6. m \in Held(h)' \/ (Pending(s)' /\ m \in Held(s)')
    BY <1>12, <1>13, <2>2, <2>3, <2>4
  <2>7. ~ (m \in Held(h)' /\ m \in Held(s)' /\ Pending(s)')
    <3>1. CASE Pending(s)
      BY <1>12, <1>13, <2>2, <2>3, <2>4, <3>1
    <3>2. CASE ~ Pending(s) /\ m \in Held(s)' /\ Pending(s)'
      <4>1. s # f /\ m \in Held(s)
        BY <1>12, <2>3, <3>2
      <4>2. s = h
        BY <2>3, <2>4, <3>2, <4>1
      <4>3. PICK j \in 1..Len(cmd.fresh) : cmd.fresh[j] = s
        BY <1>7, <3>2 DEF Pending
      <4>. QED BY <1>1, <2>2, <4>2, <4>3, FreshIs
    <3>. QED BY <3>1, <3>2
  <2>8. Home(s)' = h /\ \A i : ~ Doubled(i)'
    BY <1>13, <2>2
  <2>9. Placed(s, m)'
    BY <2>5, <2>6, <2>7, <2>8 DEF Placed, Held
  <2>. QED BY <1>7, <2>9 DEF Merged
<1>15. InSpokenOrder'
  <2>. SUFFICES ASSUME torn = {}
                PROVE  /\ \A i \in Ids : Sorted(Text(log'[i]))
                       /\ \A i, j \in Ids : i # j => Held(i)' \cap Held(j)' = {}
    BY <1>1, <1>7 DEF InSpokenOrder
  <2>1. /\ \A i \in Ids : Sorted(Text(log[i]))
        /\ \A i, j \in Ids : i # j /\ i # f /\ j # f => Held(i) \cap Held(j) = {}
    BY <1>13 DEF LinksInv, InSpokenOrder
  <2>2. Sorted(<<>>)
    BY DEF Sorted
  <2>3. \A i \in Ids : Sorted(Text(log'[i]))
    BY <1>12, <2>1, <2>2
  <2>4. ASSUME NEW i \in Ids, NEW j \in Ids, i # j PROVE Held(i)' \cap Held(j)' = {}
    BY <1>12, <2>1, <2>4
  <2>. QED BY <2>3, <2>4
<1>16. RoomsApart'
  <2>1. \A s \in Rooms : s \in Ids
    BY LinksAssumption DEF Ids
  <2>. QED BY <1>1, <1>12, <2>1 DEF LinksInv, RoomsApart, Entry
<1>. QED BY <1>10, <1>11, <1>14, <1>15, <1>16 DEF LinksInv

\* A command killed under a merge tears what it had in hand, and nothing else.
LEMMA KilledStep ==
  ASSUME LinksInv, NamesAreFree, Killed
  PROVE  LinksInv'
<1>1. /\ cmd.step # "idle" /\ cmd' = NoCommand
      /\ torn' = IF cmd.step \in {"save", "unlink"} THEN torn
             ELSE torn \cup UNION {ToSet(Text(log[i])) : i \in {cmd.name} \cup ToSet(cmd.fresh)}
      /\ UNCHANGED <<registry, log, settings, said_on, since, grants>>
  BY DEF Killed
<1>2. CmdTypeOK /\ LinksTypeOK
  BY DEF LinksInv, LinksTypeOK
<1>3. CmdTypeOK'
  <2>1. <<>> \in Seq(1..Len(said_on')) /\ <<>> \in Seq(Surfaces \ Rooms)
    OBVIOUS
  <2>. QED BY <1>1, <2>1 DEF NoCommand, CmdTypeOK, LinkSteps, InLink
<1>4. LinksTypeOK'
  BY <1>1, <1>2, <1>3 DEF LinksTypeOK
<1>5. SaveOK'
  BY <1>1 DEF NoCommand, SaveOK, Unmerged
<1>6. \A i : ~ Doubled(i)' /\ ~ Pending(i)' /\ Held(i)' = Held(i) /\ Home(i)' = Home(i)
  BY <1>1 DEF NoCommand, Doubled, Pending, Held, Home
<1>7. cmd.step \in {"merge", "write", "rename"} => \A i \in ToSet(cmd.fresh) : Held(i) \subseteq torn'
  BY <1>1 DEF Held
<1>8. \A i : Pending(i) \/ (Doubled(i) /\ cmd.at \in 1..Len(cmd.fresh)) =>
               cmd.step \in {"merge", "write", "rename"} /\ i \in ToSet(cmd.fresh)
  <2>1. DOMAIN cmd.fresh = 1..Len(cmd.fresh)
    BY <1>2, LenProperties DEF CmdTypeOK
  <2>. QED BY <2>1 DEF Pending, Doubled, ToSet
<1>9. \A i : Doubled(i) => cmd.at \in 1..Len(cmd.fresh)
  BY <1>2 DEF CmdTypeOK, Doubled
<1>10. \A i : Pending(i) \/ Doubled(i) => Held(i) \subseteq torn'
  BY <1>7, <1>8, <1>9
<1>11. torn \subseteq torn'
  BY <1>1
<1>12. KeptOnce'
  <2>. SUFFICES ASSUME NEW s \in Surfaces, NEW m \in since[s] \ torn' PROVE Placed(s, m)' /\ Merged(m)'
    BY <1>1 DEF KeptOnce
  <2>1. Placed(s, m)
    BY <1>11 DEF LinksInv, KeptOnce
  <2>2. \A i : Pending(i) \/ Doubled(i) => m \notin Held(i)
    BY <1>10
  <2>3. Placed(s, m)'
    BY <1>1, <1>6, <2>1, <2>2 DEF Placed
  <2>. QED BY <1>1, <2>3 DEF Merged, NoCommand
<1>13. InSpokenOrder'
  <2>. SUFFICES ASSUME torn' = {}
                PROVE  /\ \A i \in Ids : Sorted(Text(log[i]))
                       /\ \A i, j \in Ids : i # j => Held(i) \cap Held(j) = {}
    BY <1>1, <1>6 DEF InSpokenOrder, NoCommand
  <2>1. /\ \A i \in Ids : Sorted(Text(log[i]))
        /\ \A i, j \in Ids : i # j /\ ~ Doubled(i) /\ ~ Doubled(j) => Held(i) \cap Held(j) = {}
    BY <1>11 DEF LinksInv, InSpokenOrder
  <2>2. \A i : Doubled(i) => Held(i) = {}
    BY <1>10
  <2>. QED BY <2>1, <2>2
<1>14. RoomsApart'
  BY <1>1, <1>6 DEF LinksInv, RoomsApart, Entry
<1>. QED BY <1>4, <1>5, <1>12, <1>13, <1>14 DEF LinksInv

\* Every step of the commands and of the listener keeps the invariant.
LEMMA LinksKeeps ==
  ASSUME LinksInv, NamesAreFree, [LinksNext]_links
  PROVE  LinksInv'
<1>1. CASE \E s \in Surfaces : Persist(s) \/ UnlinkLoad(s)
  BY <1>1, PersistStep, UnlinkLoadStep
<1>2. CASE \E n \in Names, sids \in SUBSET Surfaces : LinkLoad(n, sids)
  BY <1>2, LinkLoadStep
<1>3. CASE LinkSave \/ MergeNone \/ MergeRead \/ MergeWrite \/ MergeRename \/ Absorb \/ UnlinkSave
  BY <1>3, LinkSaveStep, MergeNoneStep, MergeReadStep, MergeWriteStep, MergeRenameStep, AbsorbStep, UnlinkSaveStep
<1>4. CASE \E i \in Ids : \/ \E trusted \in BOOLEAN : set_channel_trust(i, trusted)
                          \/ \E mode \in {"all", "mention"} : set_channel_mode(i, mode)
                          \/ rm(i)
  BY <1>4, TrustCommand, ModeCommand, RemoveStep
<1>5. CASE Killed
  BY <1>5, KilledStep
<1>6. CASE UNCHANGED links
  <2>1. /\ UNCHANGED <<registry, log, cmd, said_on, torn, since, settings, grants>>
    BY <1>6 DEF links
  <2>2. Tuned(settings) /\ \A s \in Rooms : SettingOf(settings, s).trusted => s \in grants
    BY EntryIs DEF LinksInv, LinksTypeOK, RoomsApart
  <2>. QED BY <2>1, <2>2, SettingsChange
<1>. QED BY <1>1, <1>2, <1>3, <1>4, <1>5, <1>6 DEF LinksNext

\* What the invariant says of the conversations: outside a merge nothing waits, so a
\* message is in its surface's channel, and there once.
LEMMA InvFollows ==
  ASSUME LinksInv, NamesAreFree
  PROVE  HistoryFollowsTheConversation
<1>1. ASSUME cmd.step \in {"idle", "save", "unlink"}, NEW s \in Surfaces, NEW m \in since[s] \ torn
      PROVE  Times(m, logical_of(registry, s)) = 1
  <2>1. PICK d : d = Home(s)
    OBVIOUS
  <2>2. d \in Ids /\ LinksTypeOK
    BY <2>1, HomeIn DEF LinksInv, LinksTypeOK
  <2>3. Placed(s, m) /\ ~ Pending(s) /\ ~ Doubled(d)
    BY <1>1 DEF LinksInv, KeptOnce, Pending, Doubled
  <2>4. m \in Held(d) /\ Once(Text(log[d]), m)
    BY <2>1, <2>2, <2>3 DEF Placed
  <2>5. log[d] # NoFile /\ Text(log[d]) = log[d]
    BY <2>2, <2>4, TextIs
  <2>6. PICK k \in DOMAIN Text(log[d]) : Text(log[d])[k] = m
    BY <2>4 DEF Held, ToSet
  <2>7. {j \in DOMAIN Text(log[d]) : log[d][j] = m} = {k}
    BY <2>4, <2>5, <2>6 DEF Once
  <2>8. Cardinality({k}) = 1
    BY FS_Singleton
  <2>. QED BY <2>1, <2>7, <2>8 DEF Times, Home
<1>2. ASSUME NEW i \in Ids, torn = {}, NEW j \in DOMAIN Text(log[i]), NEW k \in DOMAIN Text(log[i]), j < k
      PROVE  log[i][j] < log[i][k]
  <2>1. Sorted(Text(log[i]))
    BY <1>2 DEF LinksInv, InSpokenOrder
  <2>2. log[i] # NoFile
    BY <1>2 DEF Text
  <2>. QED BY <1>2, <2>1, <2>2 DEF Sorted, Text
<1>3. ASSUME NEW s \in Rooms
      PROVE  /\ logical_of(registry, s) = s
             /\ \A m \in ToSet(Text(log[s])) : said_on[m] = s
             /\ Entry(s).trusted => s \in grants
  <2>1. logical_of(registry, s) = s
    BY HomeIs DEF LinksInv, LinksTypeOK
  <2>. QED BY <2>1 DEF LinksInv, RoomsApart, Held
<1>. QED BY <1>1, <1>2, <1>3 DEF HistoryFollowsTheConversation

\* Wherever the operator links a surface from and to, and whenever a command is killed,
\* the channel of the surface holds what was said there, once and in the order it was
\* said; a room stays by itself, and no command but an admin's trusts it.
THEOREM HistoriesFollow ==
  ASSUME NamesAreFree
  PROVE  LinksInit /\ [][LinksNext]_links => []HistoryFollowsTheConversation
<1>1. LinksInit => LinksInv
  BY LinksStart
<1>2. LinksInv /\ [LinksNext]_links => LinksInv'
  BY LinksKeeps
<1>3. LinksInv => HistoryFollowsTheConversation
  BY InvFollows
<1>. QED BY <1>1, <1>2, <1>3, PTL
=============================================================================
