------------------------------ MODULE TmsProofs ------------------------------
(***************************************************************************)
(* Proofs about one worker's tasks under all their writers, for any tasks, *)
(* times, edits and bounds.                                                *)
(*                                                                         *)
(* The agent's write replaces the whole document, so everything hangs on   *)
(* one fact: a view whose version is current shows the document as it is   *)
(* (ViewIsCurrent).  With it an edit touches one entry, and the others     *)
(* keep the edges they were given (EdgesRemain) and a standing that        *)
(* somebody granted, in the document, in the journal, and in the hands of  *)
(* a requeue (Provenance).                                                 *)
(***************************************************************************)
EXTENDS Tms, TLAPS

TypeOK ==
  /\ doc \in Doc /\ journal \in Journal
  /\ version \in Nat /\ requeues \in Nat
  /\ clock \in Times /\ due \in SUBSET Tasks
  /\ base \in [version : Nat, doc : Doc]
  /\ found \in [task : SUBSET Tasks, record : Record]
  /\ granted \in SUBSET Tasks /\ done \in SUBSET Tasks
  /\ waits \in [Tasks -> SUBSET Tasks]

\* Nobody writes between two versions.
ViewIsCurrent ==
  /\ base.version <= version
  /\ base.version = version => base.doc = doc

\* An edge is erased by the completion of its target alone.
EdgesRemain == \A t \in Live(doc) : waits[t] \subseteq doc[t].deps \cup done

Present(record) == record.state # "absent"

\* The journal holds nothing but tasks; a requeue that has begun found one.
JournalOK == \A t \in Tasks : journal[t] = Blank \/ Present(journal[t])
FoundOK == found.task # {} => Present(found.record)

\* Owner standing, wherever a record of a task is kept, was granted to it.
Granted(t, record) == Present(record) /\ record.standing = "owner" => t \in granted

Provenance ==
  /\ \A t \in Tasks : Granted(t, doc[t]) /\ Granted(t, journal[t])
  /\ \A t \in found.task : Granted(t, found.record)

\* Without a requeue nothing is ever re-filed.
NotRefiled == requeues = 0 => found.task = {} /\ Acyclic(doc)

IInv == /\ TypeOK
        /\ ViewIsCurrent
        /\ EdgesRemain
        /\ JournalOK /\ FoundOK
        /\ Provenance
        /\ NotRefiled

-----------------------------------------------------------------------------
(* The operators of Partition *)

\* Fewer tasks and fewer edges make no cycle.
LEMMA AcyclicShrinks ==
  ASSUME NEW d, NEW e, Acyclic(d), Live(e) \subseteq Live(d),
         \A t \in Live(e) : e[t].deps \subseteq d[t].deps
  PROVE  Acyclic(e)
<1> SUFFICES ASSUME NEW S \in SUBSET Live(e), S # {}, \A t \in S : e[t].deps \cap S # {}
             PROVE  FALSE
  BY DEF Acyclic
<1>1. S \in SUBSET Live(d) /\ \A t \in S : d[t].deps \cap S # {}
  OBVIOUS
<1> QED BY <1>1 DEF Acyclic

\* A task that is still live after an outcome is attested keeps its entry.
LEMMA StaysLive ==
  ASSUME NEW d \in Doc, NEW t \in Tasks, NEW o \in {"pending", "needs-review"}
  PROVE  /\ Finished(d, t, o) = [d EXCEPT ![t].state = o]
         /\ Finished(d, t, o) \in Doc
<1>1. Finished(d, t, o) = [d EXCEPT ![t].state = o]
  BY DEF Finished, Outcome
<1>2. [d[t] EXCEPT !.state = o] \in {r \in Record : r.state \notin Outcome}
  BY DEF Doc, Record, LiveState, Outcome
<1> QED BY <1>1, <1>2 DEF Doc, Outcome

\* One that is not leaves it, and takes the edges to it along if it completed.
LEMMA LeavesLive ==
  ASSUME NEW d \in Doc, NEW t \in Tasks, NEW o \in Outcome
  PROVE  /\ Finished(d, t, o) \in Doc
         /\ Finished(d, t, o)[t] = Blank
         /\ \A u \in Tasks : u # t =>
              /\ Finished(d, t, o)[u].state = d[u].state
              /\ Finished(d, t, o)[u].standing = d[u].standing
              /\ Finished(d, t, o)[u].deps \subseteq d[u].deps
              /\ d[u].deps \subseteq
                   Finished(d, t, o)[u].deps \cup (IF o = "completed" THEN {t} ELSE {})
<1> USE PartitionAssumption
<1>1. Blank \in Record /\ Blank.state = "absent"
  BY DEF Blank, Record, Standing
<1> DEFINE e(u) == IF u = t THEN Blank
                   ELSE IF o = "completed" THEN [d[u] EXCEPT !.deps = @ \ {t}]
                   ELSE d[u]
<1>2. Finished(d, t, o) = [u \in Tasks |-> e(u)]
  BY DEF Finished
<1>3. ASSUME NEW u \in Tasks, u # t
      PROVE  /\ e(u) \in Record /\ e(u).state = d[u].state /\ e(u).standing = d[u].standing
             /\ e(u).deps = IF o = "completed" THEN d[u].deps \ {t} ELSE d[u].deps
             /\ e(u).state \notin Outcome
  BY <1>3 DEF Doc, Record
<1>4. e(t) = Blank /\ Blank.state \notin Outcome
  BY <1>1 DEF Outcome
<1> HIDE DEF e
<1>5. [u \in Tasks |-> e(u)] \in Doc
  BY <1>1, <1>3, <1>4 DEF Doc
<1> QED BY <1>2, <1>3, <1>4, <1>5

\* An edit of a document that is current is an edit of one entry.
LEMMA EditsOneEntry ==
  ASSUME NEW d \in Doc, NEW t \in Tasks, NEW x, NEW trusted \in BOOLEAN
  PROVE  LET next == Stamped(d, [d EXCEPT ![t] = x], trusted)
         IN /\ \A u \in Tasks \ {t} : next[u] = d[u]
            /\ x \in Record =>
                 /\ next[t] \in Record
                 /\ next[t].deps = x.deps /\ next[t].state = x.state
                 /\ Present(next[t]) /\ next[t].standing = "owner"
                      => x.standing = "owner" /\ (trusted \/ (Present(d[t]) /\ d[t].standing = "owner"))
<1> DEFINE p == [d EXCEPT ![t] = x]
           keep(u) == ~ (/\ ~trusted
                         /\ p[u].state # "absent" /\ p[u].standing = "owner"
                         /\ ~(d[u].state # "absent" /\ d[u].standing = "owner"))
           next == Stamped(d, p, trusted)
<1>1. \A u \in Tasks : next[u] = IF keep(u) THEN p[u] ELSE [p[u] EXCEPT !.standing = "proactive"]
  BY DEF Stamped
<1>2. p[t] = x /\ \A u \in Tasks \ {t} : p[u] = d[u]
  BY DEF Doc
<1>3. \A u \in Tasks \ {t} : next[u] = d[u]
  BY <1>1, <1>2
<1>4. ASSUME x \in Record
      PROVE  /\ next[t] \in Record
             /\ next[t].deps = x.deps /\ next[t].state = x.state
             /\ Present(next[t]) /\ next[t].standing = "owner"
                  => x.standing = "owner" /\ (trusted \/ (Present(d[t]) /\ d[t].standing = "owner"))
  <2>1. [x EXCEPT !.standing = "proactive"] \in Record
    BY <1>4 DEF Record, Standing
  <2>2. /\ [x EXCEPT !.standing = "proactive"].standing = "proactive"
        /\ [x EXCEPT !.standing = "proactive"].deps = x.deps
        /\ [x EXCEPT !.standing = "proactive"].state = x.state
    BY <1>4 DEF Record
  <2>3. CASE keep(t)
    <3>1. next[t] = x
      BY <1>1, <1>2, <2>3
    <3>2. ~trusted /\ x.state # "absent" /\ x.standing = "owner" => d[t].state # "absent" /\ d[t].standing = "owner"
      BY <1>2, <2>3
    <3> HIDE DEF p, next, keep
    <3> QED BY <1>4, <3>1, <3>2 DEF Present
  <2>4. CASE ~ keep(t)
    <3>1. next[t] = [x EXCEPT !.standing = "proactive"]
      BY <1>1, <1>2, <2>4
    <3> QED BY <3>1, <2>1, <2>2
  <2> QED BY <2>3, <2>4
<1> QED BY <1>3, <1>4

-----------------------------------------------------------------------------
(* One lemma per action, in the order of Tms *)

LEMMA BlankIs == Blank \in Record /\ ~ Present(Blank) /\ Blank.deps = {}
BY PartitionAssumption DEF Blank, Record, Standing, Present

LEMMA InitIInv == Init => IInv
<1> SUFFICES ASSUME Init PROVE IInv
  OBVIOUS
<1> USE PartitionAssumption, BlankIs DEF Init
<1>1. Empty \in Doc /\ Empty \in Journal /\ \A t \in Tasks : Empty[t] = Blank
  BY DEF Empty, Doc, Journal, Present, Outcome
<1>2. NoCommand \in [task : SUBSET Tasks, record : Record] /\ NoCommand.task = {}
  BY DEF NoCommand
<1>3. TypeOK
  BY <1>1, <1>2 DEF TypeOK
<1>4. Live(Empty) = {}
  BY <1>1 DEF Live, Present
<1>5. Acyclic(Empty)
  BY <1>4 DEF Acyclic
<1> QED BY <1>1, <1>2, <1>3, <1>4, <1>5
        DEF IInv, ViewIsCurrent, EdgesRemain, JournalOK, FoundOK, Provenance, Granted, NotRefiled

LEMMA AddStep ==
  ASSUME IInv, NEW t \in Tasks, NEW standing \in Standing, NEW at \in Times, Add(t, standing, at)
  PROVE  IInv'
<1> DEFINE r == [state |-> "pending", deps |-> {}, standing |-> standing, at |-> at]
<1>1. /\ doc' = [doc EXCEPT ![t] = r] /\ version' = version + 1 /\ Acyclic(doc')
      /\ granted' = IF standing = "owner" THEN granted \cup {t} ELSE granted
      /\ waits' = [waits EXCEPT ![t] = {}]
      /\ UNCHANGED <<journal, clock, due, base, found, requeues, crashes, done>>
  BY DEF Add, Save, Added, bounds
<1>2. r \in Record /\ r.state = "pending" /\ r.standing = standing
  BY DEF Record, LiveState
<1> HIDE DEF r
<1> USE DEF IInv
<1>3. /\ doc' \in Doc /\ doc'[t] = r /\ \A u \in Tasks \ {t} : doc'[u] = doc[u]
  BY <1>1, <1>2 DEF TypeOK, Doc, Outcome
<1>4. TypeOK'  BY <1>1, <1>3 DEF TypeOK
<1>5. ViewIsCurrent'  BY <1>1 DEF ViewIsCurrent, TypeOK
<1>6. EdgesRemain'  BY <1>1, <1>3 DEF EdgesRemain, Live, TypeOK
<1>7. JournalOK' /\ FoundOK'  BY <1>1 DEF JournalOK, FoundOK
<1>8. Provenance'  BY <1>1, <1>2, <1>3 DEF Provenance, Granted, TypeOK
<1>9. NotRefiled'  BY <1>1 DEF NotRefiled
<1> QED BY <1>4, <1>5, <1>6, <1>7, <1>8, <1>9

\* The agent, the loop, the clock and the operator look: no write.
LEMMA ReadStep ==
  ASSUME IInv, ReadView \/ Due \/ Tick \/ UNCHANGED vars
  PROVE  IInv'
<1> USE DEF IInv
<1>1. UNCHANGED <<doc, version, journal, found, requeues, granted, waits, done>>
  BY DEF ReadView, Due, Tick, vars, bounds, history
<1>2. base' \in [version : Nat, doc : Doc] /\ (base' = base \/ base' = [version |-> version, doc |-> doc])
  BY DEF ReadView, Due, Tick, vars, TypeOK
<1>3. clock' \in Times /\ due' \in SUBSET Tasks
  BY DEF ReadView, Due, Tick, vars, TypeOK, Claimable
<1>4. TypeOK'  BY <1>1, <1>2, <1>3 DEF TypeOK
<1>5. ViewIsCurrent'  BY <1>1, <1>2 DEF ViewIsCurrent, TypeOK
<1>6. EdgesRemain'  BY <1>1 DEF EdgesRemain, Live
<1>7. JournalOK' /\ FoundOK'  BY <1>1 DEF JournalOK, FoundOK
<1>8. Provenance'  BY <1>1 DEF Provenance, Granted
<1>9. NotRefiled'  BY <1>1 DEF NotRefiled
<1> QED BY <1>4, <1>5, <1>6, <1>7, <1>8, <1>9

\* The version has not moved, so what the agent saw is what there is.
LEMMA CurateIsAnEdit ==
  ASSUME IInv, NEW t \in Tasks, NEW x, NEW trusted \in BOOLEAN, Curate(t, x, trusted)
  PROVE  /\ base.doc = doc
         /\ doc' = Stamped(doc, [doc EXCEPT ![t] = x], trusted)
         /\ \A u \in Tasks \ {t} : doc'[u] = doc[u]
<1>1. base.doc = doc
  BY DEF IInv, ViewIsCurrent, Curate, Current
<1>2. doc' = Stamped(doc, [doc EXCEPT ![t] = x], trusted)
  BY <1>1 DEF Curate, Save, Proposal
<1>3. doc \in Doc
  BY DEF IInv, TypeOK
<1> QED BY <1>1, <1>2, <1>3, EditsOneEntry

LEMMA CurateStep ==
  ASSUME IInv, NEW t \in Tasks, NEW x \in Edits \cup {Blank}, NEW trusted \in BOOLEAN,
         Curate(t, x, trusted)
  PROVE  IInv'
<1> USE DEF IInv
<1>1. x \in Record
  BY TmsAssumption, BlankIs
<1>2. /\ \A u \in Tasks \ {t} : doc'[u] = doc[u]
      /\ doc'[t] \in Record /\ doc'[t].deps = x.deps /\ doc'[t].state = x.state
      /\ Present(doc'[t]) /\ doc'[t].standing = "owner"
           => x.standing = "owner" /\ (trusted \/ (Present(doc[t]) /\ doc[t].standing = "owner"))
  <2>1. doc \in Doc
    BY DEF TypeOK
  <2>2. doc' = Stamped(doc, [doc EXCEPT ![t] = x], trusted)
    BY CurateIsAnEdit
  <2> HIDE DEF IInv
  <2> QED BY <1>1, <2>1, <2>2, EditsOneEntry
<1>3. /\ Acceptable(doc, doc') /\ version' = version + 1
      /\ journal' = Canceled(doc, doc', journal)
      /\ granted' = IF trusted /\ x.standing = "owner" /\ x.state # "absent"
                    THEN granted \cup {t} ELSE granted
      /\ waits' = [waits EXCEPT ![t] = x.deps]
      /\ UNCHANGED <<clock, due, base, found, requeues, crashes, done>>
  BY DEF Curate, Save, bounds
<1>4. \A u \in Tasks : (journal'[u] = doc[u] /\ doc[u].state = "pending") \/ journal'[u] = journal[u]
  BY <1>3 DEF Canceled
<1>5. doc' \in Doc
  <2>1. \A u \in Tasks : doc'[u] \in Record
    BY <1>2 DEF TypeOK, Doc
  <2>2. \A u \in Tasks : doc'[u].state \notin Outcome
    BY <1>2, <1>3 DEF Acceptable, InFlight, Live, TypeOK, Doc, Outcome
  <2>3. doc' = [u \in Tasks |-> doc'[u]]
    BY CurateIsAnEdit DEF Stamped
  <2> QED BY <2>1, <2>2, <2>3 DEF Doc
<1>6. journal' \in Journal
  <2>1. \A u \in Tasks : journal'[u] \in {r \in Record : r.state \in {"absent", "pending"} \cup Outcome}
    BY <1>4 DEF TypeOK, Doc, Journal
  <2>2. journal' = [u \in Tasks |-> journal'[u]]
    BY <1>3 DEF Canceled
  <2> QED BY <2>1, <2>2 DEF Journal
<1>7. x.deps \in SUBSET Tasks
  BY <1>1 DEF Record
<1>8. TypeOK'  BY <1>3, <1>5, <1>6, <1>7 DEF TypeOK
<1>9. ViewIsCurrent'  BY <1>3 DEF ViewIsCurrent, TypeOK
<1>10. EdgesRemain'  BY <1>2, <1>3 DEF EdgesRemain, Live, TypeOK
<1>11. JournalOK' /\ FoundOK'  BY <1>3, <1>4 DEF JournalOK, FoundOK, Present
<1>12. Provenance'
  <2>1. granted \subseteq granted'
    BY <1>3
  <2>2. ASSUME Present(doc'[t]), doc'[t].standing = "owner" PROVE t \in granted'
    BY <1>2, <1>3, <2>1, <2>2 DEF Provenance, Granted, Present
  <2> QED BY <1>2, <1>3, <1>4, <2>1, <2>2 DEF Provenance, Granted
<1>13. NotRefiled'  BY <1>3 DEF NotRefiled, Acceptable
<1> QED BY <1>8, <1>9, <1>10, <1>11, <1>12, <1>13

LEMMA ClaimStep == ASSUME IInv, NEW t \in Tasks, Claim(t) PROVE IInv'
<1> USE DEF IInv
<1> DEFINE r == [doc[t] EXCEPT !.state = "claimed"]
<1>1. /\ doc[t].state = "pending" /\ version' = version + 1 /\ due' \subseteq due
      /\ UNCHANGED <<journal, clock, base, found, requeues, crashes, granted, waits, done>>
  BY DEF Claim, Save, bounds, history
<1>2. r \in Record /\ r.state = "claimed" /\ r.deps = doc[t].deps /\ r.standing = doc[t].standing
  BY DEF TypeOK, Doc, Record, LiveState
<1>3. doc' = [doc EXCEPT ![t] = r]
  BY DEF Claim, Save, Claimed
<1> HIDE DEF r
<1>4. doc' \in Doc /\ doc'[t] = r /\ \A u \in Tasks \ {t} : doc'[u] = doc[u]
  BY <1>2, <1>3 DEF TypeOK, Doc, Outcome
<1>5. TypeOK'  BY <1>1, <1>4 DEF TypeOK
<1>6. ViewIsCurrent'  BY <1>1 DEF ViewIsCurrent, TypeOK
<1>7. EdgesRemain'  BY <1>1, <1>2, <1>4 DEF EdgesRemain, Live
<1>8. JournalOK' /\ FoundOK'  BY <1>1 DEF JournalOK, FoundOK
<1>9. Provenance'  BY <1>1, <1>2, <1>4 DEF Provenance, Granted, Present
<1>10. NotRefiled'
  <2>1. Live(doc') \subseteq Live(doc) /\ \A u \in Live(doc') : doc'[u].deps \subseteq doc[u].deps
    BY <1>1, <1>2, <1>4 DEF Live
  <2> QED BY <1>1, <2>1, AcyclicShrinks DEF NotRefiled
<1> QED BY <1>5, <1>6, <1>7, <1>8, <1>9, <1>10

\* An outcome in the journal is the task as it was, but for its state.
LEMMA JournaledIs ==
  ASSUME NEW d \in Doc, NEW j \in Journal, NEW t \in Tasks, NEW o \in Outcome
  PROVE  /\ Journaled(d, t, o, j) \in Journal
         /\ Journaled(d, t, o, j)[t].state = o
         /\ Journaled(d, t, o, j)[t].standing = d[t].standing
         /\ \A u \in Tasks : u # t => Journaled(d, t, o, j)[u] = j[u]
<1> DEFINE r == [d[t] EXCEPT !.state = o]
<1>1. r \in Record /\ r.state = o /\ r.standing = d[t].standing
  BY DEF Doc, Record, Outcome
<1>2. Journaled(d, t, o, j) = [j EXCEPT ![t] = r]
  BY DEF Journaled
<1> HIDE DEF r
<1>3. /\ [j EXCEPT ![t] = r] \in Journal /\ [j EXCEPT ![t] = r][t] = r
      /\ \A u \in Tasks : u # t => [j EXCEPT ![t] = r][u] = j[u]
  BY <1>1 DEF Journal
<1> QED BY <1>1, <1>2, <1>3

LEMMA FinishStep ==
  ASSUME IInv, NEW t \in Tasks, NEW o \in Outcome \cup {"needs-review"}, Finish(t, o)
  PROVE  IInv'
<1> USE DEF IInv
<1>1. /\ doc[t].state \in {"claimed", "needs-review"} /\ version' = version + 1
      /\ doc' = Finished(doc, t, o) /\ journal' = Journaled(doc, t, o, journal)
      /\ done' = IF o = "completed" THEN done \cup {t} ELSE done
      /\ UNCHANGED <<clock, due, base, found, requeues, crashes, granted, waits>>
  BY DEF Finish, Attests, Save, bounds
<1>2. /\ journal' \in Journal
      /\ \A u \in Tasks :
           \/ journal'[u] = journal[u]
           \/ u = t /\ o \in Outcome /\ journal'[u].state = o /\ journal'[u].standing = doc[t].standing
  <2>1. CASE o \in Outcome
    <3>1. doc \in Doc /\ journal \in Journal
      BY DEF TypeOK
    <3> HIDE DEF IInv
    <3> QED BY <1>1, <2>1, <3>1, JournaledIs
  <2>2. CASE o \notin Outcome
    BY <1>1, <2>2 DEF Journaled, TypeOK
  <2> QED BY <2>1, <2>2
<1>3. /\ doc' \in Doc
      /\ \A u \in Tasks : u \in Live(doc') =>
           /\ u \in Live(doc) /\ doc'[u].standing = doc[u].standing
           /\ doc'[u].deps \subseteq doc[u].deps /\ doc[u].deps \subseteq doc'[u].deps \cup done'
  <2>1. CASE o = "needs-review"
    <3>1. /\ doc' \in Doc /\ doc' = [doc EXCEPT ![t].state = o]
      BY <1>1, <2>1, StaysLive DEF TypeOK
    <3>2. \A u \in Tasks : doc'[u].deps = doc[u].deps /\ doc'[u].standing = doc[u].standing
                           /\ (u # t => doc'[u] = doc[u])
      BY <3>1 DEF TypeOK, Doc, Record
    <3> QED BY <1>1, <3>1, <3>2 DEF Live
  <2>2. CASE o \in Outcome
    <3>1. /\ doc' \in Doc /\ doc'[t] = Blank
          /\ \A u \in Tasks : u # t =>
               /\ doc'[u].state = doc[u].state /\ doc'[u].standing = doc[u].standing
               /\ doc'[u].deps \subseteq doc[u].deps
               /\ doc[u].deps \subseteq doc'[u].deps \cup (IF o = "completed" THEN {t} ELSE {})
      <4>1. doc \in Doc
        BY DEF TypeOK
      <4> HIDE DEF IInv
      <4> QED BY <1>1, <2>2, <4>1, LeavesLive
    <3>2. t \notin Live(doc')
      BY <3>1, BlankIs DEF Live, Present
    <3> QED BY <1>1, <3>1, <3>2 DEF Live
  <2> QED BY <2>1, <2>2
<1>4. Present(doc[t])
  BY <1>1 DEF Present
<1>5. TypeOK'  BY <1>1, <1>2, <1>3 DEF TypeOK
<1>6. ViewIsCurrent'  BY <1>1 DEF ViewIsCurrent, TypeOK
<1>7. EdgesRemain'  BY <1>1, <1>3 DEF EdgesRemain, Live
<1>8. JournalOK' /\ FoundOK'  BY <1>1, <1>2 DEF JournalOK, FoundOK, Present, Outcome
<1>9. Provenance'
  <2>1. \A u \in Tasks : Granted(u, doc[u])'
    BY <1>1, <1>3 DEF Provenance, Granted, Live, Present
  <2>2. \A u \in Tasks : Granted(u, journal[u])'
    BY <1>1, <1>2, <1>4 DEF Provenance, Granted, Present
  <2> QED BY <1>1, <2>1, <2>2 DEF Provenance, Granted
<1>10. NotRefiled'
  BY <1>1, <1>3, AcyclicShrinks DEF NotRefiled, Live
<1> QED BY <1>5, <1>6, <1>7, <1>8, <1>9, <1>10

\* The journal is written and the document is not: a task is in both.
LEMMA CutShortStep ==
  ASSUME IInv, NEW t \in Tasks, NEW o \in Outcome,
         FinishCutShort(t, o) \/ CurateCutShort(t)
  PROVE  IInv'
<1> USE DEF IInv
<1>1. UNCHANGED <<doc, version, clock, due, base, found, requeues, granted, waits, done>>
  BY DEF FinishCutShort, CurateCutShort, CutShort, history
<1>2. /\ journal' \in Journal
      /\ \A u \in Tasks :
           \/ journal'[u] = journal[u]
           \/ Present(doc[u]) /\ Present(journal'[u]) /\ journal'[u].standing = doc[u].standing
  <2>1. CASE FinishCutShort(t, o)
    <3>1. doc[t].state # "absent" /\ journal' = Journaled(doc, t, o, journal) /\ o # "absent"
      BY <2>1 DEF FinishCutShort, Attests, CutShort, Outcome
    <3>2. /\ journal' \in Journal /\ journal'[t].state = o
          /\ journal'[t].standing = doc[t].standing
          /\ \A u \in Tasks : u # t => journal'[u] = journal[u]
      <4>1. doc \in Doc /\ journal \in Journal
        BY DEF TypeOK
      <4> HIDE DEF IInv
      <4> QED BY <3>1, <4>1, JournaledIs
    <3> QED BY <3>1, <3>2 DEF Present
  <2>2. CASE CurateCutShort(t)
    <3>1. journal' = Canceled(doc, Proposal(t, Blank), journal)
      BY <2>2 DEF CurateCutShort, CutShort
    <3>2. \A u \in Tasks : (journal'[u] = doc[u] /\ doc[u].state = "pending") \/ journal'[u] = journal[u]
      BY <3>1 DEF Canceled
    <3>3. \A u \in Tasks : journal'[u] \in {r \in Record : r.state \in {"absent", "pending"} \cup Outcome}
      BY <3>2 DEF TypeOK, Doc, Journal
    <3>4. journal' = [u \in Tasks |-> journal'[u]]
      BY <3>1 DEF Canceled
    <3> QED BY <3>2, <3>3, <3>4 DEF Journal, Present
  <2> QED BY <2>1, <2>2
<1>3. TypeOK'  BY <1>1, <1>2 DEF TypeOK
<1>4. ViewIsCurrent'  BY <1>1 DEF ViewIsCurrent
<1>5. EdgesRemain'  BY <1>1 DEF EdgesRemain, Live
<1>6. JournalOK' /\ FoundOK'  BY <1>1, <1>2 DEF JournalOK, FoundOK
<1>7. Provenance'  BY <1>1, <1>2 DEF Provenance, Granted
<1>8. NotRefiled'  BY <1>1 DEF NotRefiled
<1> QED BY <1>3, <1>4, <1>5, <1>6, <1>7, <1>8

\* What requeue finds is the task, live or journaled, standing and all.
LEMMA RequeueFindStep == ASSUME IInv, NEW t \in Tasks, RequeueFind(t) PROVE IInv'
<1> USE DEF IInv
<1> DEFINE r == Find(doc, journal, t)
<1>1. /\ r # Blank /\ found' = [task |-> {t}, record |-> r] /\ requeues' = requeues + 1
      /\ UNCHANGED <<doc, version, journal, clock, due, base, crashes, granted, waits, done>>
  BY DEF RequeueFind, history
<1>2. r \in Record /\ Present(r) /\ Granted(t, r)
  <2>1. CASE t \in Live(doc)
    BY <2>1 DEF Find, Live, Present, TypeOK, Doc, Provenance
  <2>2. CASE t \notin Live(doc)
    BY <1>1, <2>2 DEF Find, JournalOK, TypeOK, Journal, Provenance
  <2> QED BY <2>1, <2>2
<1> HIDE DEF r
<1>3. TypeOK'  BY <1>1, <1>2 DEF TypeOK
<1>4. ViewIsCurrent'  BY <1>1 DEF ViewIsCurrent
<1>5. EdgesRemain'  BY <1>1 DEF EdgesRemain, Live
<1>6. JournalOK' /\ FoundOK'  BY <1>1, <1>2 DEF JournalOK, FoundOK, Present
<1>7. Provenance'  BY <1>1, <1>2 DEF Provenance, Granted
<1>8. NotRefiled'  BY <1>1 DEF NotRefiled, TypeOK
<1> QED BY <1>3, <1>4, <1>5, <1>6, <1>7, <1>8

\* ... and writes back, over whatever the task has become meanwhile.
LEMMA RequeueActStep == ASSUME IInv, RequeueAct PROVE IInv'
<1> USE DEF IInv
<1> DEFINE r == [found.record EXCEPT !.state = "pending"]
<1>1. PICK t \in found.task :
        \/ /\ t \notin Live(doc) /\ version' = version + 1
           /\ doc' = Refiled(doc, t, found.record)
           /\ waits' = [waits EXCEPT ![t] = found.record.deps]
        \/ /\ t \in Live(doc) /\ version' = version + 1
           /\ doc' = Finished(doc, t, "pending") /\ waits' = waits
        \/ UNCHANGED <<doc, version, waits>>
  BY DEF RequeueAct, Save
<1>2. /\ found' = NoCommand
      /\ UNCHANGED <<journal, clock, due, base, requeues, crashes, granted, done>>
  BY DEF RequeueAct, bounds
<1>3. t \in Tasks /\ requeues # 0 /\ Granted(t, found.record) /\ Present(found.record)
  BY <1>1 DEF TypeOK, NotRefiled, Provenance, FoundOK
<1>4. r \in Record /\ r.state = "pending" /\ r.deps = found.record.deps /\ r.standing = found.record.standing
  BY DEF TypeOK, Record, LiveState
<1>5. NoCommand \in [task : SUBSET Tasks, record : Record] /\ NoCommand.task = {}
  BY BlankIs DEF NoCommand
<1>6. /\ doc' \in Doc /\ version' \in Nat /\ waits' \in [Tasks -> SUBSET Tasks]
      /\ \/ version' = version + 1
         \/ version' = version /\ doc' = doc
      /\ \A u \in Tasks : Present(doc'[u]) =>
           \/ /\ Present(doc[u]) /\ doc'[u].standing = doc[u].standing
              /\ doc'[u].deps = doc[u].deps /\ waits'[u] = waits[u]
           \/ /\ u = t /\ doc'[u].standing = found.record.standing
              /\ waits'[u] = doc'[u].deps
  <2>1. CASE UNCHANGED <<doc, version, waits>>
    BY <2>1 DEF TypeOK
  <2>2. CASE /\ t \in Live(doc) /\ version' = version + 1
             /\ doc' = Finished(doc, t, "pending") /\ waits' = waits
    <3>1. doc' = [doc EXCEPT ![t].state = "pending"] /\ doc' \in Doc
      <4>1. doc \in Doc
        BY DEF TypeOK
      <4> HIDE DEF IInv
      <4> QED BY <1>3, <2>2, <4>1, StaysLive
    <3>2. \A u \in Tasks : /\ doc'[u].deps = doc[u].deps /\ doc'[u].standing = doc[u].standing
                           /\ (u # t => doc'[u] = doc[u])
      BY <3>1 DEF TypeOK, Doc, Record
    <3> QED BY <1>3, <2>2, <3>1, <3>2 DEF Live, Present, TypeOK
  <2>3. CASE /\ version' = version + 1 /\ doc' = Refiled(doc, t, found.record)
             /\ waits' = [waits EXCEPT ![t] = found.record.deps]
    <3>1. doc' = [doc EXCEPT ![t] = r]
      BY <2>3 DEF Refiled
    <3> HIDE DEF r
    <3>2. doc' \in Doc /\ doc'[t] = r /\ \A u \in Tasks \ {t} : doc'[u] = doc[u]
      BY <1>3, <1>4, <3>1 DEF TypeOK, Doc, Outcome
    <3>3. /\ waits' \in [Tasks -> SUBSET Tasks] /\ waits'[t] = found.record.deps
          /\ \A u \in Tasks \ {t} : waits'[u] = waits[u]
      BY <1>3, <2>3 DEF TypeOK, Record
    <3> QED BY <1>3, <1>4, <2>3, <3>2, <3>3 DEF TypeOK
  <2> QED BY <1>1, <2>1, <2>2, <2>3
<1> HIDE DEF r
<1>7. TypeOK'  BY <1>2, <1>5, <1>6 DEF TypeOK
<1>8. ViewIsCurrent'  BY <1>2, <1>6 DEF ViewIsCurrent, TypeOK
<1>9. EdgesRemain'  BY <1>2, <1>6 DEF EdgesRemain, Live, Present
<1>10. JournalOK' /\ FoundOK'  BY <1>2, <1>5 DEF JournalOK, FoundOK
<1>11. Provenance'
  <2>1. \A u \in Tasks : Granted(u, doc[u])'
    BY <1>2, <1>3, <1>6 DEF Provenance, Granted
  <2> QED BY <1>2, <1>5, <2>1 DEF Provenance, Granted
<1>12. NotRefiled'  BY <1>2, <1>3 DEF NotRefiled
<1> QED BY <1>7, <1>8, <1>9, <1>10, <1>11, <1>12

LEMMA NextIInv == IInv /\ [Next]_vars => IInv'
<1> SUFFICES ASSUME IInv, [Next]_vars PROVE IInv'
  OBVIOUS
<1>1. CASE \E t \in Tasks, s \in Standing, at \in Times : Add(t, s, at)
  BY <1>1, AddStep
<1>2. CASE ReadView \/ Due \/ Tick \/ UNCHANGED vars
  BY <1>2, ReadStep
<1>3. CASE RequeueAct
  BY <1>3, RequeueActStep
<1>4. ASSUME NEW t \in Tasks, NEW x \in Edits \cup {Blank}, NEW trusted \in BOOLEAN,
             Curate(t, x, trusted)
      PROVE  IInv'
  BY <1>4, CurateStep
<1>5. ASSUME NEW t \in Tasks, Claim(t) PROVE IInv'
  BY <1>5, ClaimStep
<1>6. ASSUME NEW t \in Tasks, NEW o \in Outcome \cup {"needs-review"},
             CurateCutShort(t) \/ FinishCutShort(t, o)
      PROVE  IInv'
  <2>1. "failed" \in Outcome
    BY DEF Outcome
  <2>2. FinishCutShort(t, o) => o \in Outcome
    BY DEF FinishCutShort
  <2> QED BY <1>6, <2>1, <2>2, CutShortStep
<1>7. ASSUME NEW t \in Tasks, RequeueFind(t) PROVE IInv'
  BY <1>7, RequeueFindStep
<1>8. ASSUME NEW t \in Tasks, NEW o \in Outcome \cup {"needs-review"}, Finish(t, o)
      PROVE  IInv'
  BY <1>8, FinishStep
<1> QED BY <1>1, <1>2, <1>3, <1>4, <1>5, <1>6, <1>7, <1>8 DEF Next

LEMMA Invariant == Spec => []IInv
BY InitIInv, NextIInv, PTL DEF Spec

-----------------------------------------------------------------------------
(* A task that leaves the document *)

\* Only a curation that drops a pending task, or an outcome, takes one away.
LEMMA WhoLeaves ==
  ASSUME IInv, Next, NEW t \in Tasks, t \in Live(doc), t \notin Live(doc')
  PROVE  \/ \E x \in Edits \cup {Blank}, trusted \in BOOLEAN : Curate(t, x, trusted)
         \/ \E o \in Outcome : Finish(t, o)
<1> USE DEF IInv
<1>1. doc \in Doc /\ doc[t].state # "absent" /\ doc'[t].state = "absent"
  BY DEF TypeOK, Live
<1>2. ASSUME NEW u \in Tasks, NEW s \in Standing, NEW at \in Times, Add(u, s, at) PROVE FALSE
  BY <1>1, <1>2 DEF Add, Save, Added, Doc
<1>3. CASE ReadView \/ Due \/ Tick
  BY <1>1, <1>3 DEF ReadView, Due, Tick
<1>4. CASE RequeueAct
  <2>1. PICK u \in found.task :
          \/ doc' = Refiled(doc, u, found.record)
          \/ doc' = Finished(doc, u, "pending")
          \/ doc' = doc
    BY <1>4 DEF RequeueAct, Save
  <2>2. u \in Tasks
    BY DEF TypeOK
  <2>3. CASE doc' = Refiled(doc, u, found.record)
    <3>1. /\ doc' = [doc EXCEPT ![u] = [found.record EXCEPT !.state = "pending"]]
          /\ [found.record EXCEPT !.state = "pending"].state = "pending"
      BY <2>3 DEF Refiled, TypeOK, Record
    <3> QED BY <1>1, <2>2, <3>1 DEF Doc
  <2>4. CASE doc' = Finished(doc, u, "pending")
    <3>1. doc' = [doc EXCEPT ![u].state = "pending"]
      BY <1>1, <2>2, <2>4, StaysLive
    <3> QED BY <1>1, <2>2, <3>1 DEF Doc, Record
  <2> QED BY <1>1, <2>1, <2>3, <2>4
<1>5. ASSUME NEW u \in Tasks, NEW x \in Edits \cup {Blank}, NEW trusted \in BOOLEAN,
             Curate(u, x, trusted)
      PROVE  u = t
  <2>1. \A v \in Tasks \ {u} : doc'[v] = doc[v]
    BY <1>5, CurateIsAnEdit
  <2> QED BY <1>1, <2>1
<1>6. ASSUME NEW u \in Tasks, Claim(u) PROVE FALSE
  BY <1>1, <1>6 DEF Claim, Save, Claimed, Doc, Record
<1>7. ASSUME NEW u \in Tasks, NEW o \in Outcome \cup {"needs-review"},
             CurateCutShort(u) \/ RequeueFind(u) \/ FinishCutShort(u, o)
      PROVE  FALSE
  BY <1>1, <1>7 DEF CurateCutShort, RequeueFind, FinishCutShort, CutShort
<1>8. ASSUME NEW u \in Tasks, NEW o \in Outcome \cup {"needs-review"}, Finish(u, o)
      PROVE  u = t /\ o \in Outcome
  <2>1. doc' = Finished(doc, u, o)
    BY <1>8 DEF Finish, Save
  <2>2. CASE o = "needs-review"
    <3>1. doc' = [doc EXCEPT ![u].state = o]
      BY <1>1, <2>1, <2>2, StaysLive
    <3> QED BY <1>1, <2>2, <3>1 DEF Doc, Record
  <2>3. CASE o \in Outcome
    <3>1. \A v \in Tasks : v # u => doc'[v].state = doc[v].state
      BY <1>1, <2>1, <2>3, LeavesLive
    <3> QED BY <1>1, <2>3, <3>1
  <2> QED BY <2>2, <2>3
<1> QED BY <1>2, <1>3, <1>4, <1>5, <1>6, <1>7, <1>8 DEF Next

LEMMA Departs ==
  ASSUME IInv, Next, NEW t \in Tasks
  PROVE  DepartureIsJournaled(t)
<1> SUFFICES ASSUME t \in Live(doc), t \notin Live(doc')
             PROVE  /\ journal'[t] # Blank
                    /\ [journal'[t] EXCEPT !.state = doc[t].state] = doc[t]
  BY DEF DepartureIsJournaled
<1> USE DEF IInv
<1>1. /\ doc \in Doc /\ doc[t] \in Record /\ doc[t].state \in LiveState
      /\ doc'[t].state = "absent" /\ journal \in Journal
  BY DEF TypeOK, Doc, Live, Record
<1>2. ASSUME NEW x \in Edits \cup {Blank}, NEW trusted \in BOOLEAN, Curate(t, x, trusted)
      PROVE  journal'[t] = doc[t]
  <2>1. Acceptable(doc, doc') /\ journal' = Canceled(doc, doc', journal)
    BY <1>2 DEF Curate, Save
  <2>2. doc[t].state = "pending"
    BY <1>1, <2>1 DEF Acceptable, InFlight, LiveState
  <2> QED BY <1>1, <2>1, <2>2 DEF Canceled
<1>3. ASSUME NEW o \in Outcome, Finish(t, o)
      PROVE  journal'[t] = [doc[t] EXCEPT !.state = o]
  BY <1>1, <1>3 DEF Finish, Journaled, Journal
<1>4. \/ journal'[t] = doc[t]
      \/ \E o \in Outcome : journal'[t] = [doc[t] EXCEPT !.state = o]
  BY <1>2, <1>3, WhoLeaves
<1>5. CASE journal'[t] = doc[t]
  BY <1>1, <1>5, BlankIs DEF Present, LiveState, Record
<1>6. ASSUME NEW o \in Outcome, journal'[t] = [doc[t] EXCEPT !.state = o]
      PROVE  /\ journal'[t].state # "absent"
             /\ [journal'[t] EXCEPT !.state = doc[t].state] = doc[t]
  BY <1>1, <1>6 DEF Record, Outcome
<1> QED BY <1>4, <1>5, <1>6, BlankIs DEF Present

-----------------------------------------------------------------------------
(* The theorems *)

\* docs/work.md:48-51: what may be claimed has all its dependencies completed,
\* through retries, re-filing, curation and crashes.
THEOREM DependenciesAreHonoured == Spec => []DependenciesHonoured
<1>1. IInv => DependenciesHonoured
  BY DEF IInv, EdgesRemain, DependenciesHonoured, Claimable, Live
<1> QED BY <1>1, Invariant, PTL

\* set_tasks (tms.rs:709): nobody works unpaced whom no operator or trusted room
\* let; no path through the journal, an old id or a requeue makes an owner.
THEOREM OwnersAreGranted == Spec => []OwnerIsGranted
<1>1. IInv => OwnerIsGranted
  BY DEF IInv, Provenance, Granted, Present, OwnerIsGranted, Live
<1> QED BY <1>1, Invariant, PTL

\* The live graph is a DAG (tms.rs:6) as long as no journaled task is re-filed.
THEOREM CyclesComeFromRefiling == Spec => []OnlyRefilingMakesCycles
<1>1. IInv => OnlyRefilingMakesCycles
  BY DEF IInv, NotRefiled, OnlyRefilingMakesCycles, DocAcyclic
<1> QED BY <1>1, Invariant, PTL

\* A curation undoes nobody's write, and a task that leaves the document is in
\* the journal as it last stood, wherever a crash falls.
THEOREM TasksAreNotLost == Spec => NoTaskIsLost
<1>1. ASSUME IInv, Next, NEW t \in Tasks
      PROVE  CurationLosesNothing(t) /\ DepartureIsJournaled(t)
  <2>1. CurationLosesNothing(t)
    BY <1>1, CurateIsAnEdit DEF CurationLosesNothing
  <2> QED BY <1>1, <2>1, Departs
<1>2. IInv /\ [Next]_vars
        => [\A t \in Tasks : CurationLosesNothing(t) /\ DepartureIsJournaled(t)]_vars
  BY <1>1
<1> QED BY <1>2, Invariant, PTL DEF Spec, NoTaskIsLost
=============================================================================
