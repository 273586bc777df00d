---------------------------- MODULE ProvisionProofs ----------------------------
(***************************************************************************)
(* Proofs about what a worker is provided with: the refresh of a           *)
(* credential, for any number of calls and logins, the connection files,   *)
(* for any workers, connections, scopes, commands and requests, the        *)
(* budget, for any calls, limits, draws and windows, and the context it    *)
(* reads, for any rooms, messages, tasks, sessions, files and limits.      *)
(*                                                                         *)
(* The refresh.  The commands of the CLI do not know the lane, so the file *)
(* is not what the lane protects.  What it protects is the provider:       *)
(* whoever is about to ask (AskIsFirst) read its login inside the lane,    *)
(* when no answer was on its way to the file (FileIsNew).                  *)
(*                                                                         *)
(* The files.  An edit: what a file means does not change when it is       *)
(* migrated (MigratedMeansTheSame), and the edge is put into or taken out  *)
(* of the migrated form.  A request: every load, the cached one too, was   *)
(* read after its fingerprint was taken, so a part whose stat still holds  *)
(* is as it was read (Agrees); and what a load read of a part that a       *)
(* request has statted the same was read while the request was under way,  *)
(* or not overwritten between (Crosses).                                   *)
(*                                                                         *)
(* The grants.  A file's rules are its edges' rules, one after another; of *)
(* all of them the first that decides (Leads) is of the one edge that      *)
(* applies, since the others are silent about the call.                    *)
(*                                                                         *)
(* The budget.  Sums come first: no induction theorem can be used, so a    *)
(* claim about every finite set is refuted at a smallest counterexample    *)
(* (Smallest).  A counter is of the last window something was let through  *)
(* in, and holds what was let through in it (CounterHolds).                *)
(*                                                                         *)
(* The context.  What a task remembers begins the record, and its message, *)
(* once filed, comes after it (HandOK); so the quotes of a session stand   *)
(* together on file (Stands).  A message that is twice in what a session   *)
(* turned or will turn, or there and among its quotes, was filed twice or  *)
(* beside its first message (SessionOK), and so was one it knows that a    *)
(* task still carries to it (CarryOK).  A prefix ends where its class does *)
(* (PlanEndsWithClass); a longer beginning of a list is no smaller, so the *)
(* loop that counts nothing as omitted stops at nothing that would fit     *)
(* (NothingIsCutEarly).                                                    *)
(***************************************************************************)
EXTENDS Vault, Connections, Ledger, Context,
        SequenceTheorems, FiniteSetTheorems, WellFoundedInduction, TLAPS

-----------------------------------------------------------------------------
(* The refresh of a credential *)

Steps == {"idle", "wait", "ask", "answered", "done"}

\* The calls that hold a login, and may present it.
Holds(k) == call[k].step \in {"wait", "ask", "answered"}

TypeOK ==
  /\ issued \in Logins
  /\ vault \in 1..issued \cup {Nothing}
  /\ expired \in Nat
  /\ lane \in Callers \cup {Nothing}
  /\ call \in [Callers -> [step: Steps, login: Nat \cup {Nothing}, fresh: Nat \cup {Nothing}]]
  /\ \A k \in Callers : Holds(k) => call[k].login \in 1..issued
  /\ presented \in [Logins -> Nat]
  /\ faults \in Nat

\* One call at a time talks to the provider.
LaneOK == \A k \in Callers : call[k].step \in {"ask", "answered"} => lane = k

\* A login that is not out yet has not been presented.
FutureIsNew == \A l \in Logins : l > issued => presented[l] = 0

\* An answer under way is newer than anything presented.
AnswerIsNew ==
  \A k \in Callers : call[k].step = "answered" =>
    /\ call[k].fresh \in 1..issued
    /\ presented[call[k].fresh] = 0

\* The file holds a spent login only while its successor is under way, or lost.
FileIsNew ==
  \A l \in Logins : vault = l /\ presented[l] > 0 =>
    l \in orphaned \/ \E k \in Callers : call[k].step = "answered" /\ call[k].login = l

\* A call that waits with a copy of a login that was removed.
CopyIsOrphaned ==
  vault = Nothing => \A k \in Callers : call[k].step = "wait" => call[k].login \in orphaned

\* Who is about to ask is the first with this login.
AskIsFirst ==
  \A k \in Callers : call[k].step = "ask" =>
    presented[call[k].login] = 0 \/ call[k].login \in orphaned

IInv == /\ TypeOK
        /\ LaneOK
        /\ FutureIsNew
        /\ AnswerIsNew
        /\ FileIsNew
        /\ CopyIsOrphaned
        /\ AskIsFirst
        /\ TokensSpentOnce

-----------------------------------------------------------------------------
LEMMA InitIInv == VaultInit => IInv
  BY VaultAssumption
  DEF VaultInit, IInv, TypeOK, Holds, LaneOK, FutureIsNew, AnswerIsNew, FileIsNew, CopyIsOrphaned,
      AskIsFirst, TokensSpentOnce, Logins, Idling, Steps

LEMMA ExpireStep == ASSUME IInv, Expire PROVE IInv'
  BY DEF Expire, IInv, TypeOK, Holds, LaneOK, FutureIsNew, AnswerIsNew, FileIsNew, CopyIsOrphaned,
      AskIsFirst, TokensSpentOnce, Logins

LEMMA ReconnectStep == ASSUME IInv, Reconnect PROVE IInv'
<1> USE VaultAssumption DEF IInv, TypeOK, Reconnect, Logins
<1>1. TypeOK'  BY DEF Holds
<1>2. LaneOK'  BY DEF LaneOK
<1>3. FutureIsNew'  BY DEF FutureIsNew
<1>4. AnswerIsNew'  BY DEF AnswerIsNew
<1>5. FileIsNew'  BY DEF FileIsNew, FutureIsNew
<1>6. CopyIsOrphaned'  BY DEF CopyIsOrphaned
<1>7. AskIsFirst'  BY DEF AskIsFirst
<1>8. TokensSpentOnce'  BY DEF TokensSpentOnce
<1> QED BY <1>1, <1>2, <1>3, <1>4, <1>5, <1>6, <1>7, <1>8

LEMMA RemoveStep == ASSUME IInv, RemoveLogin PROVE IInv'
<1> USE VaultAssumption DEF IInv, TypeOK, RemoveLogin, Logins
<1>1. TypeOK'  BY DEF Holds
<1>2. LaneOK'  BY DEF LaneOK
<1>3. FutureIsNew'  BY DEF FutureIsNew
<1>4. AnswerIsNew'  BY DEF AnswerIsNew
<1>5. FileIsNew'  BY DEF FileIsNew
<1>6. CopyIsOrphaned'  BY DEF CopyIsOrphaned
<1>7. AskIsFirst'  BY DEF AskIsFirst
<1>8. TokensSpentOnce'  BY DEF TokensSpentOnce
<1> QED BY <1>1, <1>2, <1>3, <1>4, <1>5, <1>6, <1>7, <1>8

\* What a dead daemon's calls were answered is lost: their logins are orphaned.
LEMMA RestartStep == ASSUME IInv, DaemonRestarts PROVE IInv'
<1> USE VaultAssumption DEF IInv, TypeOK, DaemonRestarts, Logins, Idling
<1>1. TypeOK'  BY DEF Holds, Steps
<1>2. LaneOK'  BY DEF LaneOK
<1>3. FutureIsNew'  BY DEF FutureIsNew
<1>4. AnswerIsNew'  BY DEF AnswerIsNew
<1>5. FileIsNew'  BY DEF FileIsNew
<1>6. CopyIsOrphaned'  BY DEF CopyIsOrphaned
<1>7. AskIsFirst'  BY DEF AskIsFirst
<1>8. TokensSpentOnce'  BY DEF TokensSpentOnce
<1> QED BY <1>1, <1>2, <1>3, <1>4, <1>5, <1>6, <1>7, <1>8

LEMMA GetFreshStep == ASSUME IInv, NEW k \in Callers, GetFresh(k) PROVE IInv'
<1> USE VaultAssumption DEF IInv, TypeOK, GetFresh, Go, Logins
<1>1. TypeOK'  BY DEF Holds, Steps
<1>2. LaneOK'  BY DEF LaneOK
<1>3. FutureIsNew'  BY DEF FutureIsNew
<1>4. AnswerIsNew'  BY DEF AnswerIsNew
<1>5. FileIsNew'  BY DEF FileIsNew
<1>6. CopyIsOrphaned'  BY DEF CopyIsOrphaned
<1>7. AskIsFirst'  BY DEF AskIsFirst
<1>8. TokensSpentOnce'  BY DEF TokensSpentOnce
<1> QED BY <1>1, <1>2, <1>3, <1>4, <1>5, <1>6, <1>7, <1>8

\* Inside the lane no answer is under way, so a login read from the file is new.
LEMMA EnterLaneStep == ASSUME IInv, NEW k \in Callers, EnterLaneOf(k) PROVE IInv'
<1> USE VaultAssumption DEF IInv, TypeOK, Go, Logins
<1>0. \A j \in Callers : call[j].step \notin {"ask", "answered"}
  BY DEF EnterLaneOf, LaneOK
<1>r. Reread(k) \in 1..issued /\ (presented[Reread(k)] = 0 \/ Reread(k) \in orphaned)
  BY <1>0 DEF EnterLaneOf, Reread, FileIsNew, CopyIsOrphaned, Holds
<1>s. PICK next \in {"ask", "done"} :
        /\ lane' = IF next = "ask" THEN k ELSE Nothing
        /\ call' = [call EXCEPT ![k] = [step |-> next, login |-> Reread(k), fresh |-> Nothing]]
        /\ UNCHANGED <<vault, issued, expired, presented, orphaned, faults>>
  BY DEF EnterLaneOf
<1>1. TypeOK'  BY <1>r, <1>s DEF Holds, Steps
<1>2. LaneOK'  BY <1>0, <1>s DEF LaneOK
<1>3. FutureIsNew'  BY <1>s DEF FutureIsNew
<1>4. AnswerIsNew'  BY <1>0, <1>s DEF AnswerIsNew
<1>5. FileIsNew'  BY <1>0, <1>s DEF FileIsNew
<1>6. CopyIsOrphaned'  BY <1>s DEF CopyIsOrphaned
<1>7. AskIsFirst'  BY <1>0, <1>r, <1>s DEF AskIsFirst
<1>8. TokensSpentOnce'  BY <1>s DEF TokensSpentOnce
<1> QED BY <1>1, <1>2, <1>3, <1>4, <1>5, <1>6, <1>7, <1>8

LEMMA AskStep == ASSUME IInv, NEW k \in Callers, Ask(k) PROVE IInv'
<1> USE VaultAssumption DEF IInv, TypeOK, Logins
<1>0. \A j \in Callers : call[j].step \in {"ask", "answered"} => j = k
  BY DEF Ask, LaneOK
<1> DEFINE login == call[k].login
<1>l. login \in 1..issued /\ login \in Logins /\ issued + 1 \in Logins /\ lane = k
  BY DEF Ask, Holds, LaneOK
<1>p. /\ presented' \in [Logins -> Nat] /\ presented'[login] > 0
      /\ \A l \in Logins \ {login} : presented'[l] = presented[l]
      /\ UNCHANGED <<vault, expired, orphaned, faults>>
  BY <1>l DEF Ask
<1>a. CASE Spent(login)
  <2>1. /\ call' = [call EXCEPT ![k] = [step |-> "done", login |-> Nothing, fresh |-> Nothing]]
        /\ lane' = Nothing /\ issued' = issued /\ login \in orphaned
    BY <1>a, <1>l DEF Ask, Go, Spent, AskIsFirst
  <2> HIDE DEF login
  <2>2. TypeOK'  BY <1>l, <1>p, <2>1 DEF Holds, Steps
  <2>3. LaneOK'  BY <1>0, <2>1 DEF LaneOK
  <2>4. FutureIsNew'  BY <1>l, <1>p, <2>1 DEF FutureIsNew
  <2>5. AnswerIsNew'  BY <1>0, <2>1 DEF AnswerIsNew
  <2>6. FileIsNew'  BY <1>0, <1>p, <2>1 DEF FileIsNew, Ask
  <2>7. CopyIsOrphaned'  BY <1>p, <2>1 DEF CopyIsOrphaned
  <2>8. AskIsFirst'  BY <1>0, <2>1 DEF AskIsFirst
  <2>9. TokensSpentOnce'  BY <1>p, <2>1 DEF TokensSpentOnce
  <2> QED BY <2>2, <2>3, <2>4, <2>5, <2>6, <2>7, <2>8, <2>9
<1>b. CASE ~ Spent(login)
  <2>1. /\ call' = [call EXCEPT ![k] = [step |-> "answered", login |-> login, fresh |-> issued + 1]]
        /\ lane' = lane /\ issued' = issued + 1 /\ presented'[login] = 1
    BY <1>b, <1>l DEF Ask, Spent
  <2> HIDE DEF login
  <2>2. TypeOK'  BY <1>l, <1>p, <2>1 DEF Holds, Steps
  <2>3. LaneOK'  BY <1>0, <1>l, <2>1 DEF LaneOK
  <2>4. FutureIsNew'  BY <1>l, <1>p, <2>1 DEF FutureIsNew
  <2>5. AnswerIsNew'  BY <1>0, <1>l, <1>p, <2>1 DEF AnswerIsNew, FutureIsNew
  <2>6. FileIsNew'  BY <1>0, <1>p, <2>1 DEF FileIsNew, Ask
  <2>7. CopyIsOrphaned'  BY <1>p, <2>1 DEF CopyIsOrphaned
  <2>8. AskIsFirst'  BY <1>0, <2>1 DEF AskIsFirst
  <2>9. TokensSpentOnce'
    <3>1. ASSUME NEW l \in Logins, presented'[l] > 1 PROVE l \in orphaned'
      <4>1. l # login
        BY <2>1, <3>1
      <4>2. presented[l] > 1 /\ orphaned' = orphaned
        BY <1>p, <3>1, <4>1
      <4>. QED BY <4>2, Zenon DEF TokensSpentOnce
    <3>. QED BY <3>1, Zenon DEF TokensSpentOnce
  <2> QED BY <2>2, <2>3, <2>4, <2>5, <2>6, <2>7, <2>8, <2>9
<1> QED BY <1>a, <1>b

LEMMA PersistStep == ASSUME IInv, NEW k \in Callers, Persist(k) PROVE IInv'
<1> USE VaultAssumption DEF IInv, TypeOK, Persist, Go, Logins
<1>0. call[k].fresh \in 1..issued /\ presented[call[k].fresh] = 0
  BY DEF AnswerIsNew
<1>1. TypeOK'  BY <1>0 DEF Holds, Steps
<1>2. LaneOK'  BY DEF LaneOK
<1>3. FutureIsNew'  BY DEF FutureIsNew
<1>4. AnswerIsNew'  BY DEF AnswerIsNew
<1>5. FileIsNew'  BY <1>0 DEF FileIsNew
<1>6. CopyIsOrphaned'  BY <1>0 DEF CopyIsOrphaned
<1>7. AskIsFirst'  BY DEF AskIsFirst
<1>8. TokensSpentOnce'  BY DEF TokensSpentOnce
<1> QED BY <1>1, <1>2, <1>3, <1>4, <1>5, <1>6, <1>7, <1>8

LEMMA RefreshFailsStep == ASSUME IInv, NEW k \in Callers, RefreshFails(k) PROVE IInv'
<1> USE VaultAssumption DEF IInv, TypeOK, RefreshFails, Go, Logins
<1>1. TypeOK'  BY DEF Holds, Steps
<1>2. LaneOK'  BY DEF LaneOK
<1>3. FutureIsNew'  BY DEF FutureIsNew
<1>4. AnswerIsNew'  BY DEF AnswerIsNew
<1>5. FileIsNew'  BY DEF FileIsNew
<1>6. CopyIsOrphaned'  BY DEF CopyIsOrphaned
<1>7. AskIsFirst'  BY DEF AskIsFirst
<1>8. TokensSpentOnce'  BY DEF TokensSpentOnce
<1> QED BY <1>1, <1>2, <1>3, <1>4, <1>5, <1>6, <1>7, <1>8

LEMMA NextIInv == IInv /\ [VaultNext]_vaultVars => IInv'
<1> SUFFICES ASSUME IInv, [VaultNext]_vaultVars PROVE IInv'
  OBVIOUS
<1>1. CASE UNCHANGED vaultVars
  BY <1>1 DEF vaultVars, IInv, TypeOK, Holds, LaneOK, FutureIsNew, AnswerIsNew, FileIsNew,
      CopyIsOrphaned, AskIsFirst, TokensSpentOnce
<1>2. ASSUME NEW k \in Callers,
             GetFresh(k) \/ EnterLaneOf(k) \/ Ask(k) \/ Persist(k) \/ RefreshFails(k)
      PROVE IInv'
  BY <1>2, GetFreshStep, EnterLaneStep, AskStep, PersistStep, RefreshFailsStep
<1> QED
  BY <1>1, <1>2, ExpireStep, ReconnectStep, RemoveStep, RestartStep DEF VaultNext

(* However calls, reconnects, removals and restarts interleave, a refresh token
   goes to the provider a second time only if the answer to the first was lost
   or the credential was removed under a waiting call (vault.rs:157).         *)
THEOREM SpentOnce == VaultSpec => []TokensSpentOnce
<1>1. IInv => TokensSpentOnce
  BY DEF IInv
<1> QED BY InitIInv, NextIInv, <1>1, PTL DEF VaultSpec

-----------------------------------------------------------------------------
(* The connection files *)

EdgeTable == UNION {[who -> Scope] : who \in SUBSET Who}

File == [grants : EdgeTable \cup {None}, workers : (SUBSET Workers) \cup {None},
         org : BOOLEAN, restrict : Scope \cup {None}]

CliSteps == {"idle", "grant", "revoke", "unbind", "unbound", "store", "scaffold", "bind", "binding",
             "rmfile", "done"}

Command_ == [step : CliSteps, conn : Conns \cup {None}, who : Who \cup {None}, scope : Scope,
             text : File \cup {None}]

DiskTypeOK ==
  /\ scene \in {"commands", "requests"}
  /\ files \in [Conns -> File \cup {None}]
  /\ secrets \in SUBSET Conns
  /\ bound \in [Workers -> Conns \cup {None}]

\* What a command under way knows of the edge it is about.
Sound(k) ==
  /\ k.step \notin {"idle", "done"} => k.conn \in Conns
  /\ k.step \in {"grant", "revoke"} => k.who \in Who
  /\ k.step \in {"unbind", "unbound", "bind", "binding"} => k.who \in Workers
  /\ k.step = "revoke" => k.text # None /\ Migrated(k.text).grants # None
  /\ k.step = "grant" => Declared(k.conn, k.scope)

CliTypeOK == cli \in [Clis -> Command_] /\ \A p \in Clis : Sound(cli[p])

FilesTyped == DiskTypeOK /\ CliTypeOK

-----------------------------------------------------------------------------
(* What a file means *)

LEMMA WellFormedIsFile == ASSUME NEW f, WellFormed(f) PROVE f \in File
<1>1. f.grants \in EdgeTable \cup {None} BY DEF WellFormed, EdgeTable
<1>2. f = [grants |-> f.grants, workers |-> f.workers, org |-> f.org, restrict |-> f.restrict]
  BY DEF WellFormed
<1>3. f.workers \in (SUBSET Workers) \cup {None} /\ f.org \in BOOLEAN /\ f.restrict \in Scope \cup {None}
  BY DEF WellFormed
<1> QED BY <1>1, <1>2, <1>3 DEF File

LEMMA EmptyTable == /\ NoEdges \in EdgeTable /\ DOMAIN NoEdges = {}
                    /\ Open \in Scope
<1>1. Open \in Scope BY DEF Open, Scope
<1>2. NoEdges \in [{} -> Scope] BY DEF NoEdges
<1> QED BY <1>1, <1>2 DEF EdgeTable

LEMMA TableOf ==
  ASSUME NEW D \in SUBSET Who, NEW e \in [D -> Scope]
  PROVE  e \in EdgeTable /\ DOMAIN e = D
  BY DEF EdgeTable

LEMMA TableHas ==
  ASSUME NEW e \in EdgeTable
  PROVE  DOMAIN e \in SUBSET Who /\ e \in [DOMAIN e -> Scope] /\ e # None
  BY ConnectionsAssumption DEF EdgeTable

LEMMA FilesOf ==
  /\ Bare \in File /\ Edges(Bare) = NoEdges /\ ~ Legacy(Bare) /\ Bare.grants = None
  /\ \A e \in EdgeTable : /\ Table(e) \in File /\ Edges(Table(e)) = e /\ ~ Legacy(Table(e))
                          /\ Table(e).grants = e
<1>1. Bare \in File BY DEF Bare, File
<1>2. Edges(Bare) = NoEdges /\ ~ Legacy(Bare) /\ Bare.grants = None BY DEF Bare, Edges, Legacy
<1>3. ASSUME NEW e \in EdgeTable
      PROVE  Table(e) \in File /\ Edges(Table(e)) = e /\ ~ Legacy(Table(e)) /\ Table(e).grants = e
  <2>1. Table(e) \in File /\ ~ Legacy(Table(e)) /\ Table(e).grants = e BY DEF Table, File, Legacy
  <2>2. e # None BY TableHas
  <2> QED BY <2>1, <2>2 DEF Edges
<1> QED BY <1>1, <1>2, <1>3

LEMMA EdgesAreTyped == ASSUME NEW f \in File PROVE Edges(f) \in EdgeTable
<1>1. Shared(f) \in Scope BY EmptyTable DEF Shared, File
<1>2. CASE f.grants # None BY <1>2 DEF Edges, File
<1>3. CASE f.grants = None /\ f.workers # None
  <2>1. f.workers \in SUBSET Who BY <1>3 DEF File, Who
  <2>2. [w \in f.workers |-> Shared(f)] \in [f.workers -> Scope] BY <1>1
  <2>3. Edges(f) = [w \in f.workers |-> Shared(f)]
    <3> HIDE DEF Shared
    <3> QED BY <1>3 DEF Edges
  <2> QED BY <2>1, <2>2, <2>3, TableOf
<1>4. CASE f.grants = None /\ f.workers = None /\ f.org
  <2>1. {"org"} \in SUBSET Who BY DEF Who
  <2>2. [w \in {"org"} |-> Shared(f)] \in [{"org"} -> Scope] BY <1>1
  <2>3. Edges(f) = [w \in {"org"} |-> Shared(f)] BY <1>4 DEF Edges
  <2> QED BY <2>1, <2>2, <2>3, TableOf
<1>5. CASE f.grants = None /\ f.workers = None /\ ~ f.org
  <2>1. Edges(f) = NoEdges BY <1>5 DEF Edges
  <2> QED BY <2>1, EmptyTable
<1> QED BY <1>2, <1>3, <1>4, <1>5

LEMMA MigratedIsTyped ==
  ASSUME NEW f \in File
  PROVE  Migrated(f) \in File /\ (Migrated(f).grants # None => Migrated(f).grants \in EdgeTable)
<1>1. Shared(f) \in Scope BY EmptyTable DEF Shared, File
<1>2. CASE ~ Legacy(f) BY <1>2 DEF Migrated, File
<1>3. CASE Legacy(f)
  <2> DEFINE D == IF f.workers = None THEN {"org"} ELSE f.workers
             e == [w \in D |-> Shared(f)]
  <2>1. D \in SUBSET Who BY DEF File, Who
  <2>2. e \in [D -> Scope] BY <1>1
  <2>3. Migrated(f) = Table(e) BY <1>3 DEF Migrated
  <2> HIDE DEF D, e
  <2>4. e \in EdgeTable BY <2>1, <2>2, TableOf
  <2> QED BY <2>3, <2>4, FilesOf
<1> QED BY <1>2, <1>3

LEMMA UpsertedIsTyped ==
  ASSUME NEW f \in File, NEW who \in Who, NEW scope \in Scope
  PROVE  /\ Upserted(f, who, scope) \in File
         /\ Edges(Upserted(f, who, scope)) \in EdgeTable
         /\ ~ Legacy(Upserted(f, who, scope)) /\ Upserted(f, who, scope).grants # None
         /\ DOMAIN Edges(Upserted(f, who, scope)) =
              (IF f.grants = None THEN {} ELSE DOMAIN f.grants) \cup {who}
         /\ Edges(Upserted(f, who, scope))[who] = scope
         /\ \A w \in (IF f.grants = None THEN {} ELSE DOMAIN f.grants) :
              w # who => Edges(Upserted(f, who, scope))[w] = f.grants[w]
<1> DEFINE old == IF f.grants = None THEN NoEdges ELSE f.grants
           D   == DOMAIN old \cup {who}
           e   == [w \in D |-> IF w = who THEN scope ELSE old[w]]
<1>1. old \in EdgeTable BY EmptyTable DEF File
<1>2. DOMAIN old \in SUBSET Who /\ old \in [DOMAIN old -> Scope] BY <1>1, TableHas
<1>3. DOMAIN old = IF f.grants = None THEN {} ELSE DOMAIN f.grants BY EmptyTable
<1>4. Upserted(f, who, scope) = Table(e) BY DEF Upserted
<1> HIDE DEF old
<1>5. D \in SUBSET Who /\ e \in [D -> Scope] BY <1>2
<1>6. e \in EdgeTable /\ DOMAIN e = D BY <1>5, TableOf
<1>7. e[who] = scope /\ \A w \in DOMAIN old : w # who => e[w] = old[w] OBVIOUS
<1> HIDE DEF e
<1>8. /\ Table(e) \in File /\ Edges(Table(e)) = e /\ ~ Legacy(Table(e)) /\ Table(e).grants = e /\ e # None
  BY <1>6, FilesOf, TableHas
<1>9. \A w \in (IF f.grants = None THEN {} ELSE DOMAIN f.grants) : w # who => e[w] = f.grants[w]
  BY <1>3, <1>7 DEF old
<1> QED BY <1>3, <1>4, <1>6, <1>7, <1>8, <1>9

\* What a file without the edge of `who` is.
WithoutEdge(c, f, who, g) ==
  /\ g \in File
  /\ Edges(g) \in EdgeTable
  /\ ~ Legacy(g)
  /\ Kind[c] = "mount" => g.grants # None
  /\ DOMAIN Edges(g) = DOMAIN f.grants \ {who}
  /\ \A w \in DOMAIN f.grants \ {who} : Edges(g)[w] = f.grants[w]

LEMMA WithdrawnIsTyped ==
  ASSUME NEW c, NEW f \in File, f.grants # None, NEW who
  PROVE  WithoutEdge(c, f, who, Withdrawn(c, f, who))
<1> SUFFICES /\ Withdrawn(c, f, who) \in File
             /\ Edges(Withdrawn(c, f, who)) \in EdgeTable
             /\ ~ Legacy(Withdrawn(c, f, who))
             /\ Kind[c] = "mount" => Withdrawn(c, f, who).grants # None
             /\ DOMAIN Edges(Withdrawn(c, f, who)) = DOMAIN f.grants \ {who}
             /\ \A w \in DOMAIN f.grants \ {who} : Edges(Withdrawn(c, f, who))[w] = f.grants[w]
  BY DEF WithoutEdge
<1> DEFINE D    == DOMAIN f.grants \ {who}
           left == [w \in D |-> f.grants[w]]
<1>1. f.grants \in EdgeTable BY DEF File
<1>2. DOMAIN f.grants \in SUBSET Who /\ f.grants \in [DOMAIN f.grants -> Scope] BY <1>1, TableHas
<1>3. D \in SUBSET Who /\ left \in [D -> Scope] BY <1>2
<1>4. left \in EdgeTable /\ DOMAIN left = D BY <1>3, TableOf
<1>5. \A w \in D : left[w] = f.grants[w] OBVIOUS
<1>6. Withdrawn(c, f, who) = IF D = {} /\ Kind[c] # "mount" THEN Bare ELSE Table(left)
  BY <1>4 DEF Withdrawn
<1> HIDE DEF D, left
<1>7. CASE D = {} /\ Kind[c] # "mount"
  <2>1. Withdrawn(c, f, who) = Bare BY <1>6, <1>7
  <2> QED BY <1>7, <2>1, FilesOf, EmptyTable DEF D
<1>8. CASE ~ (D = {} /\ Kind[c] # "mount")
  <2>1. Withdrawn(c, f, who) = Table(left) BY <1>6, <1>8
  <2>2. left # None BY <1>4, TableHas
  <2> QED BY <1>4, <1>5, <2>1, <2>2, FilesOf DEF D
<1> QED BY <1>7, <1>8
-----------------------------------------------------------------------------
(* The commands *)

LEMMA CliMoves ==
  ASSUME CliTypeOK, NEW p \in Clis, NEW k \in Command_, Sound(k), cli' = [cli EXCEPT ![p] = k]
  PROVE  CliTypeOK'
<1>1. cli' \in [Clis -> Command_] /\ cli'[p] = k /\ \A x \in Clis : x # p => cli'[x] = cli[x]
  BY DEF CliTypeOK
<1>2. \A x \in Clis : Sound(cli'[x]) BY <1>1 DEF CliTypeOK
<1> QED BY <1>1, <1>2 DEF CliTypeOK, Sound

LEMMA Becomes ==
  ASSUME CliTypeOK, NEW p \in Clis, NEW next \in CliSteps, Become(p, next),
         Sound([cli[p] EXCEPT !.step = next])
  PROVE  CliTypeOK'
<1> DEFINE k == [cli[p] EXCEPT !.step = next]
<1>1. cli[p] \in Command_ /\ cli' = [cli EXCEPT ![p] = k] BY DEF CliTypeOK, Become
<1>2. k \in Command_ BY <1>1 DEF Command_
<1> HIDE DEF k
<1> QED BY <1>1, <1>2, CliMoves DEF k

LEMMA FileWritten ==
  ASSUME DiskTypeOK, NEW c \in Conns, NEW f \in File \cup {None}, WriteFile(c, f), UNCHANGED scene
  PROVE  DiskTypeOK'
  BY DEF DiskTypeOK, WriteFile

LEMMA DiskKept == ASSUME DiskTypeOK, KeepDisk, UNCHANGED scene PROVE DiskTypeOK'
  BY DEF DiskTypeOK, KeepDisk, disk

LEMMA InitFiles == ConnInit => FilesTyped
<1> SUFFICES ASSUME ConnInit PROVE FilesTyped
  OBVIOUS
<1>1. DiskTypeOK
  <2>1. scene \in {"commands", "requests"} /\ files \in StartsOf[scene] BY DEF ConnInit
  <2>2. files \in [Conns -> File \cup {None}]
    <3>1. /\ files \in [Conns -> {files[c] : c \in Conns}]
          /\ \A c \in Conns : files[c] = None \/ WellFormed(files[c])
      BY <2>1, ConnectionsAssumption
    <3>2. \A c \in Conns : files[c] \in File \cup {None} BY <3>1, WellFormedIsFile
    <3> QED BY <3>1, <3>2
  <2>3. secrets \subseteq Conns BY DEF ConnInit
  <2>4. bound \in [Workers -> Conns \cup {None}] BY DEF ConnInit
  <2> QED BY <2>1, <2>2, <2>3, <2>4 DEF DiskTypeOK
<1>2. Waiting \in Command_ /\ Sound(Waiting)
  BY EmptyTable DEF Waiting, Command_, CliSteps, Sound, Who
<1>3. cli = [p \in Clis |-> Waiting] BY DEF ConnInit
<1>4. CliTypeOK BY <1>2, <1>3 DEF CliTypeOK
<1> QED BY <1>1, <1>4 DEF FilesTyped

LEMMA GrantCommands ==
  ASSUME FilesTyped, NEW p \in Clis,
         \/ \E c \in Conns, who \in Who, scope \in Scopes : Grant(p, c, who, scope)
         \/ \E c \in Conns, who \in Who : Revoke(p, c, who)
  PROVE  FilesTyped'
<1> USE DEF FilesTyped
<1>1. ASSUME NEW c \in Conns, NEW who \in Who, NEW scope \in Scopes, Grant(p, c, who, scope)
      PROVE  FilesTyped'
  <2> DEFINE k == [step |-> "grant", conn |-> c, who |-> who, scope |-> scope, text |-> files[c]]
  <2>1. cli' = [cli EXCEPT ![p] = k] /\ KeepDisk /\ UNCHANGED scene /\ Declared(c, scope)
    BY <1>1 DEF Grant, Daemon, Declared
  <2>2. scope \in Scope /\ files[c] \in File \cup {None} BY ConnectionsAssumption DEF DiskTypeOK
  <2>3. k \in Command_ /\ Sound(k) BY <2>1, <2>2 DEF Command_, CliSteps, Sound
  <2> HIDE DEF k
  <2> QED BY <2>1, <2>3, CliMoves, DiskKept
<1>2. ASSUME NEW c \in Conns, NEW who \in Who, Revoke(p, c, who)
      PROVE  FilesTyped'
  <2> DEFINE k == [step |-> "revoke", conn |-> c, who |-> who, scope |-> Open, text |-> files[c]]
  <2>1. /\ cli' = [cli EXCEPT ![p] = k] /\ KeepDisk /\ UNCHANGED scene
        /\ files[c] # None /\ Migrated(files[c]).grants # None
    BY <1>2 DEF Revoke, Daemon
  <2>2. Open \in Scope /\ files[c] \in File \cup {None} BY EmptyTable DEF DiskTypeOK
  <2>3. k \in Command_ /\ Sound(k) BY <2>1, <2>2 DEF Command_, CliSteps, Sound
  <2> HIDE DEF k
  <2> QED BY <2>1, <2>3, CliMoves, DiskKept
<1> QED BY <1>1, <1>2

LEMMA GrantWrites ==
  ASSUME FilesTyped, NEW p \in Clis, GrantWrite(p) PROVE FilesTyped'
<1> USE DEF FilesTyped
<1> DEFINE r == cli[p]
<1>1. r \in Command_ /\ r.step = "grant" /\ r.conn \in Conns /\ r.who \in Who /\ r.scope \in Scope
      /\ r.text \in File \cup {None}
  BY DEF GrantWrite, CliTypeOK, Sound, Command_
<1>2. CliTypeOK'
  <2>1. Become(p, "done") /\ "done" \in CliSteps BY DEF GrantWrite, CliSteps
  <2>2. Sound([cli[p] EXCEPT !.step = "done"]) BY <1>1 DEF Sound, Command_
  <2> QED BY <2>1, <2>2, Becomes
<1>3. UNCHANGED scene BY DEF GrantWrite, Daemon
<1>4. CASE r.text # None
  <2>1. WriteFile(r.conn, Upserted(Migrated(r.text), r.who, r.scope)) BY <1>4 DEF GrantWrite
  <2>2. r.text \in File BY <1>1, <1>4
  <2>3. Upserted(Migrated(r.text), r.who, r.scope) \in File
    BY <1>1, <2>2, MigratedIsTyped, UpsertedIsTyped
  <2> QED BY <1>1, <1>2, <1>3, <2>1, <2>3, FileWritten
<1>5. CASE r.text = None
  <2>1. KeepDisk \/ WriteFile(r.conn, Upserted(Bare, r.who, r.scope)) BY <1>5 DEF GrantWrite
  <2>2. Upserted(Bare, r.who, r.scope) \in File BY <1>1, FilesOf, UpsertedIsTyped
  <2> QED BY <1>1, <1>2, <1>3, <2>1, <2>2, FileWritten, DiskKept
<1> QED BY <1>4, <1>5

LEMMA RevokeWrites ==
  ASSUME FilesTyped, NEW p \in Clis, RevokeWrite(p) PROVE FilesTyped'
<1> USE DEF FilesTyped
<1> DEFINE r == cli[p]
           next == IF r.who = "org" THEN "done" ELSE "unbind"
<1>1. /\ r \in Command_ /\ r.step = "revoke" /\ r.conn \in Conns /\ r.who \in Who
      /\ r.text \in File /\ Migrated(r.text).grants # None
  BY DEF RevokeWrite, CliTypeOK, Sound, Command_
<1>2. CliTypeOK'
  <2>1. Become(p, next) /\ next \in CliSteps BY DEF RevokeWrite, CliSteps
  <2>2. Sound([cli[p] EXCEPT !.step = next])
    <3>1. CASE r.who = "org" BY <1>1, <3>1 DEF Sound, Command_
    <3>2. CASE r.who # "org" BY <1>1, <3>2 DEF Sound, Command_, Who
    <3> QED BY <3>1, <3>2
  <2> HIDE DEF next
  <2> QED BY <2>1, <2>2, Becomes
<1>3. UNCHANGED scene BY DEF RevokeWrite, Daemon
<1>4. WriteFile(r.conn, Withdrawn(r.conn, Migrated(r.text), r.who)) BY DEF RevokeWrite
<1>5. Withdrawn(r.conn, Migrated(r.text), r.who) \in File
  BY <1>1, MigratedIsTyped, WithdrawnIsTyped DEF WithoutEdge
<1> QED BY <1>1, <1>2, <1>3, <1>4, <1>5, FileWritten

LEMMA OtherCommands ==
  ASSUME FilesTyped, NEW p \in Clis,
         \/ UnbindRead(p) \/ UnbindWrite(p) \/ BindRead(p) \/ BindWrite(p)
         \/ StoreSecret(p) \/ Scaffold(p) \/ RmFile(p)
         \/ \E c \in Conns, who \in Who \cup {None} : Add(p, c, who)
         \/ \E c \in Conns : Rm(p, c)
  PROVE  FilesTyped'
<1> USE DEF FilesTyped
<1> DEFINE r == cli[p]
<1>1. r \in Command_ /\ Sound(r) BY DEF CliTypeOK
<1>2. \A next \in {"done", "unbound", "binding", "scaffold", "bind"} :
        /\ next \in CliSteps
        /\ next = "done" \/ (next = "scaffold" /\ r.step = "store") \/ (next = "unbound" /\ r.step = "unbind")
             \/ (next = "binding" /\ r.step = "bind") \/ (next = "bind" /\ r.step = "scaffold" /\ r.who \in Workers)
           => Sound([cli[p] EXCEPT !.step = next])
  BY <1>1 DEF Sound, Command_, CliSteps
<1>3. CASE UnbindRead(p)
  <2> DEFINE next == IF bound[r.who] = r.conn THEN "unbound" ELSE "done"
  <2>1. /\ Become(p, next) /\ KeepDisk /\ UNCHANGED scene /\ r.step = "unbind"
    BY <1>3 DEF UnbindRead, Daemon
  <2>2. next \in {"done", "unbound"} OBVIOUS
  <2> HIDE DEF next
  <2> QED BY <1>2, <2>1, <2>2, Becomes, DiskKept
<1>4. CASE UnbindWrite(p)
  <2>1. /\ Become(p, "done") /\ bound' = [bound EXCEPT ![r.who] = None]
        /\ UNCHANGED <<scene, files, secrets>>
    BY <1>4 DEF UnbindWrite, WriteSpec, Daemon
  <2>2. DiskTypeOK' BY <2>1 DEF DiskTypeOK
  <2> QED BY <1>2, <2>1, <2>2, Becomes
<1>5. CASE BindRead(p)
  <2> DEFINE next == IF bound[r.who] = None /\ \A w \in Workers : bound[w] # r.conn THEN "binding" ELSE "done"
  <2>1. /\ Become(p, next) /\ KeepDisk /\ UNCHANGED scene /\ r.step = "bind"
    BY <1>5 DEF BindRead, Daemon
  <2>2. next \in {"done", "binding"} OBVIOUS
  <2> HIDE DEF next
  <2> QED BY <1>2, <2>1, <2>2, Becomes, DiskKept
<1>6. CASE BindWrite(p)
  <2>1. /\ Become(p, "done") /\ bound' = [bound EXCEPT ![r.who] = r.conn]
        /\ UNCHANGED <<scene, files, secrets>> /\ r.step = "binding"
    BY <1>6 DEF BindWrite, WriteSpec, Daemon
  <2>2. r.conn \in Conns BY <1>1, <2>1 DEF Sound
  <2>3. DiskTypeOK' BY <2>1, <2>2 DEF DiskTypeOK
  <2> QED BY <1>2, <2>1, <2>3, Becomes
<1>7. CASE StoreSecret(p)
  <2>1. /\ Become(p, "scaffold") /\ secrets' = secrets \cup {r.conn}
        /\ UNCHANGED <<scene, files, bound>> /\ r.step = "store"
    BY <1>7 DEF StoreSecret, WriteSecrets, Daemon
  <2>2. r.conn \in Conns BY <1>1, <2>1 DEF Sound
  <2>3. DiskTypeOK' BY <2>1, <2>2 DEF DiskTypeOK
  <2> QED BY <1>2, <2>1, <2>3, Becomes
<1>8. CASE Scaffold(p)
  <2> DEFINE next == IF Kind[r.conn] = "scoped" /\ r.who \in Workers THEN "bind" ELSE "done"
             f == IF r.who # None THEN Upserted(Bare, r.who, Open)
                  ELSE IF Kind[r.conn] = "model" THEN Upserted(Bare, "org", Open) ELSE Bare
  <2>1. /\ Become(p, next) /\ UNCHANGED scene /\ r.step = "scaffold" /\ (KeepDisk \/ WriteFile(r.conn, f))
    BY <1>8 DEF Scaffold, Daemon
  <2>2. next \in {"done", "bind"} /\ (next = "bind" => r.who \in Workers) OBVIOUS
  <2>3. f \in File
    <3>1. r.who # None => r.who \in Who BY <1>1 DEF Command_
    <3>2. "org" \in Who BY DEF Who
    <3>3. \A who \in Who : Upserted(Bare, who, Open) \in File BY FilesOf, EmptyTable, UpsertedIsTyped
    <3> QED BY <3>1, <3>2, <3>3, FilesOf
  <2>4. r.conn \in Conns BY <1>1, <2>1 DEF Sound
  <2> HIDE DEF next, f
  <2>5. Sound([cli[p] EXCEPT !.step = next]) /\ next \in CliSteps BY <1>2, <2>1, <2>2
  <2>6. CliTypeOK' BY <2>1, <2>5, Becomes
  <2>7. DiskTypeOK' BY <2>1, <2>3, <2>4, FileWritten, DiskKept
  <2> QED BY <2>6, <2>7
<1>9. CASE RmFile(p)
  <2>1. /\ Become(p, "done") /\ UNCHANGED scene /\ r.step = "rmfile"
        /\ KeepDisk \/ WriteFile(r.conn, None)
    BY <1>9 DEF RmFile, Daemon
  <2>2. r.conn \in Conns BY <1>1, <2>1 DEF Sound
  <2> QED BY <1>2, <2>1, <2>2, Becomes, FileWritten, DiskKept
<1>10. ASSUME NEW c \in Conns, NEW who \in Who \cup {None}, Add(p, c, who) PROVE FilesTyped'
  <2> DEFINE k == [step |-> "store", conn |-> c, who |-> who, scope |-> Open, text |-> None]
  <2>1. cli' = [cli EXCEPT ![p] = k] /\ KeepDisk /\ UNCHANGED scene BY <1>10 DEF Add, Daemon
  <2>2. k \in Command_ /\ Sound(k) BY EmptyTable DEF Command_, CliSteps, Sound
  <2> HIDE DEF k
  <2> QED BY <2>1, <2>2, CliMoves, DiskKept
<1>11. ASSUME NEW c \in Conns, Rm(p, c) PROVE FilesTyped'
  <2> DEFINE k == [Waiting EXCEPT !.step = "rmfile", !.conn = c]
  <2>1. cli' = [cli EXCEPT ![p] = k] /\ UNCHANGED scene /\ (WriteSecrets(secrets \ {c}) \/ KeepDisk)
    BY <1>11 DEF Rm, Daemon
  <2>2. k \in Command_ /\ Sound(k)
    <3>1. Waiting \in Command_ BY EmptyTable DEF Waiting, Command_, CliSteps, Who
    <3> QED BY <3>1 DEF Command_, CliSteps, Sound
  <2> HIDE DEF k
  <2>3. DiskTypeOK'
    <3>1. CASE WriteSecrets(secrets \ {c}) BY <2>1, <3>1 DEF DiskTypeOK, WriteSecrets
    <3>2. CASE KeepDisk BY <2>1, <3>2, DiskKept
    <3> QED BY <2>1, <3>1, <3>2
  <2> QED BY <2>1, <2>2, <2>3, CliMoves
<1> QED BY <1>3, <1>4, <1>5, <1>6, <1>7, <1>8, <1>9, <1>10, <1>11
LEMMA CommandFiles == ASSUME FilesTyped, NEW p \in Clis, Command(p) PROVE FilesTyped'
  BY GrantCommands, GrantWrites, RevokeWrites, OtherCommands DEF Command

LEMMA FilesStayTyped == FilesTyped /\ [ConnNext]_connVars => FilesTyped'
<1> SUFFICES ASSUME FilesTyped, [ConnNext]_connVars PROVE FilesTyped'
  OBVIOUS
<1>1. CASE \E p \in Clis : Command(p) BY <1>1, CommandFiles
<1>2. CASE UNCHANGED <<scene, disk, cli>>
  BY <1>2 DEF FilesTyped, DiskTypeOK, CliTypeOK, disk
<1>3. ASSUME NEW q \in Requests, Request(q) PROVE UNCHANGED <<scene, disk, cli>>
  BY <1>3 DEF Request, Begin, Stat, Read, Loaded, Judge, Reader
<1>4. UNCHANGED connVars => UNCHANGED <<scene, disk, cli>> BY DEF connVars
<1> QED BY <1>1, <1>2, <1>3, <1>4 DEF ConnNext

-----------------------------------------------------------------------------
(* An edit touches one edge *)

LEMMA MigratedMeansTheSame ==
  ASSUME NEW c, NEW f \in File, FileLoads(c, f)
  PROVE  /\ Migrated(f) \in File /\ ~ Legacy(Migrated(f))
         /\ Migrated(f).grants # None => Migrated(f).grants = Edges(f)
         /\ Migrated(f).grants = None => Edges(f) = NoEdges
<1>1. Migrated(f) \in File BY MigratedIsTyped
<1>2. CASE ~ Legacy(f)
  <2>1. Migrated(f) = f BY <1>2 DEF Migrated
  <2>2. f.workers = None /\ ~ f.org BY <1>2 DEF Legacy
  <2>3. f.grants # None => Edges(f) = f.grants BY DEF Edges
  <2>4. f.grants = None => Edges(f) = NoEdges BY <2>2 DEF Edges
  <2> QED BY <1>1, <1>2, <2>1, <2>3, <2>4
<1>3. CASE Legacy(f)
  <2> DEFINE D == IF f.workers = None THEN {"org"} ELSE f.workers
             e == [w \in D |-> Shared(f)]
  <2>1. f.grants = None /\ (f.workers # None \/ f.org) BY <1>3 DEF FileLoads, Legacy
  <2>2. Migrated(f) = Table(e) BY <1>3 DEF Migrated
  <2>3. Edges(f) = e
    <3>1. CASE f.workers # None
      <4>1. Edges(f) = [w \in f.workers |-> Shared(f)] BY <2>1, <3>1 DEF Edges
      <4> QED BY <3>1, <4>1
    <3>2. CASE f.workers = None
      <4>1. Edges(f) = [w \in {"org"} |-> Shared(f)] BY <2>1, <3>2 DEF Edges
      <4> QED BY <3>2, <4>1
    <3> QED BY <3>1, <3>2
  <2> HIDE DEF e
  <2>4. e \in EdgeTable BY <2>3, EdgesAreTyped
  <2> QED BY <1>1, <2>2, <2>3, <2>4, FilesOf, TableHas
<1> QED BY <1>2, <1>3

LEMMA SameBut ==
  ASSUME NEW d, NEW e, NEW who, DOMAIN d \ {who} = DOMAIN e \ {who},
         \A w \in DOMAIN d \ {who} : d[w] = e[w]
  PROVE  Restricted(d, who) = Restricted(e, who)
  BY DEF Restricted

LEMMA GrantTouchesOneEdge ==
  ASSUME NEW c, NEW f \in File, FileLoads(c, f), NEW who \in Who, NEW scope \in Scope, Declared(c, scope),
         NEW g, g = Upserted(Migrated(f), who, scope)
  PROVE  /\ Restricted(Edges(g), who) = Restricted(Edges(f), who)
         /\ who \in DOMAIN Edges(g)
         /\ FileLoads(c, g) \/ Kind[c] = "mount"
<1>0. PICK h : h = Migrated(f) OBVIOUS
<1> DEFINE old == IF h.grants = None THEN {} ELSE DOMAIN h.grants
<1>1. /\ h \in File
      /\ h.grants # None => h.grants = Edges(f)
      /\ h.grants = None => Edges(f) = NoEdges
  BY <1>0, MigratedMeansTheSame
<1>2. /\ g \in File /\ Edges(g) \in EdgeTable /\ ~ Legacy(g) /\ g.grants # None
      /\ DOMAIN Edges(g) = old \cup {who} /\ Edges(g)[who] = scope
      /\ \A w \in old : w # who => Edges(g)[w] = h.grants[w]
  <2>1. g = Upserted(h, who, scope) BY <1>0
  <2> QED BY <1>1, <2>1, UpsertedIsTyped
<1>3. old = DOMAIN Edges(f) BY <1>1, EmptyTable
<1>4. \A w \in DOMAIN Edges(f) : w # who => Edges(g)[w] = Edges(f)[w] BY <1>1, <1>2, <1>3, EmptyTable
<1> HIDE DEF old
<1>5. Restricted(Edges(g), who) = Restricted(Edges(f), who)
  <2>1. DOMAIN Edges(g) \ {who} = DOMAIN Edges(f) \ {who} BY <1>2, <1>3
  <2>2. \A w \in DOMAIN Edges(g) \ {who} : Edges(g)[w] = Edges(f)[w] BY <1>2, <1>3, <1>4
  <2> QED BY <2>1, <2>2, SameBut
<1>6. Kind[c] # "mount" => FileLoads(c, g)
  <2>1. g.workers = None /\ g.org = FALSE /\ g.restrict = None BY <1>2 DEF Legacy, File
  <2>2. None # {} BY ConnectionsAssumption
  <2>3. \A w \in DOMAIN Edges(g) : Declared(c, Edges(g)[w])
    <3> TAKE w \in DOMAIN Edges(g)
    <3>1. CASE w = who BY <1>2, <3>1
    <3>2. CASE w # who
      <4>1. w \in DOMAIN Edges(f) BY <1>2, <1>3, <3>2
      <4> QED BY <1>4, <3>2, <4>1 DEF FileLoads
    <3> QED BY <3>1, <3>2
  <2> QED BY <1>2, <2>1, <2>2, <2>3 DEF FileLoads
<1> QED BY <1>2, <1>5, <1>6

LEMMA RevokeTouchesOneEdge ==
  ASSUME NEW c, NEW f \in File, FileLoads(c, f), NEW who \in Who, Migrated(f).grants # None,
         NEW g, g = Withdrawn(c, Migrated(f), who)
  PROVE  /\ Restricted(Edges(g), who) = Restricted(Edges(f), who)
         /\ who \notin DOMAIN Edges(g)
         /\ FileLoads(c, g)
<1>0. PICK h : h = Migrated(f) OBVIOUS
<1>1. h \in File /\ h.grants = Edges(f) /\ h.grants # None BY <1>0, MigratedMeansTheSame
<1>2. /\ g \in File /\ Edges(g) \in EdgeTable /\ ~ Legacy(g)
      /\ Kind[c] = "mount" => g.grants # None
      /\ DOMAIN Edges(g) = DOMAIN Edges(f) \ {who}
      /\ \A w \in DOMAIN Edges(f) \ {who} : Edges(g)[w] = Edges(f)[w]
  <2>1. g = Withdrawn(c, h, who) BY <1>0
  <2>2. /\ g \in File /\ Edges(g) \in EdgeTable /\ ~ Legacy(g)
        /\ Kind[c] = "mount" => g.grants # None
        /\ DOMAIN Edges(g) = DOMAIN h.grants \ {who}
        /\ \A w \in DOMAIN h.grants \ {who} : Edges(g)[w] = h.grants[w]
    <3>1. WithoutEdge(c, h, who, Withdrawn(c, h, who)) BY <1>1, WithdrawnIsTyped
    <3> QED BY <2>1, <3>1 DEF WithoutEdge
  <2> QED BY <1>1, <2>2
<1>3. Restricted(Edges(g), who) = Restricted(Edges(f), who)
  <2>1. DOMAIN Edges(g) \ {who} = DOMAIN Edges(f) \ {who} BY <1>2
  <2>2. \A w \in DOMAIN Edges(g) \ {who} : Edges(g)[w] = Edges(f)[w] BY <1>2
  <2> QED BY <2>1, <2>2, SameBut
<1>4. FileLoads(c, g)
  <2>1. g.workers = None /\ g.org = FALSE /\ g.restrict = None BY <1>2 DEF Legacy, File
  <2>2. None # {} BY ConnectionsAssumption
  <2>3. \A w \in DOMAIN Edges(g) : Declared(c, Edges(g)[w]) BY <1>2 DEF FileLoads
  <2>4. Kind[c] = "mount" /\ "org" \in DOMAIN Edges(g) => DOMAIN Edges(g) = {"org"}
    <3> SUFFICES ASSUME Kind[c] = "mount", "org" \in DOMAIN Edges(g) PROVE DOMAIN Edges(g) = {"org"}
      OBVIOUS
    <3>1. DOMAIN Edges(f) = {"org"} BY <1>2 DEF FileLoads
    <3> QED BY <1>2, <3>1
  <2> QED BY <1>2, <2>1, <2>2, <2>3, <2>4 DEF FileLoads
<1> QED BY <1>2, <1>3, <1>4

(* The only steps that take a command from its grant or revoke are its writes. *)
LEMMA WritesEndEdits ==
  ASSUME NEW p \in Clis, FilesTyped, [ConnNext]_connVars, cli[p].step \in {"grant", "revoke"},
         cli'[p].step # cli[p].step
  PROVE  \/ cli[p].step = "grant" /\ GrantWrite(p)
         \/ cli[p].step = "revoke" /\ RevokeWrite(p)
<1>1. PICK x \in Clis : Command(x)
  <2>1. ASSUME NEW q \in Requests, Request(q) PROVE cli' = cli
    BY <2>1 DEF Request, Begin, Stat, Read, Loaded, Judge, Reader
  <2>2. UNCHANGED connVars => cli' = cli BY DEF connVars
  <2> QED BY <2>1, <2>2 DEF ConnNext
<1>2. \A y \in Clis : y # x => cli'[y] = cli[y]
  BY <1>1 DEF FilesTyped, CliTypeOK, Command, Grant, Revoke, Add, Rm, GrantWrite, RevokeWrite, UnbindRead,
              UnbindWrite, StoreSecret, Scaffold, BindRead, BindWrite, RmFile, Become
<1>3. x = p BY <1>2
<1> QED
  BY <1>1, <1>3 DEF Command, Grant, Revoke, Add, Rm, GrantWrite, RevokeWrite, UnbindRead, UnbindWrite,
                    StoreSecret, Scaffold, BindRead, BindWrite, RmFile

(* What one edit does, when nobody raced it. *)
EditOK(p) ==
  LET c == cli[p].conn
      who == cli[p].who
  IN cli[p].step \in {"grant", "revoke"} /\ cli'[p].step # cli[p].step
       /\ Uncontended(p) /\ FileLoads(c, files[c])
     =>
     /\ Restricted(Edges(files'[c]), who) = Restricted(Edges(files[c]), who)
     /\ (who \in DOMAIN Edges(files'[c])) = (cli[p].step = "grant")
     /\ FileLoads(c, files'[c]) \/ (Kind[c] = "mount" /\ cli[p].step = "grant")

LEMMA EditKeepsTheRest == FilesTyped /\ [ConnNext]_connVars => \A p \in Clis : EditOK(p)
<1> SUFFICES ASSUME FilesTyped, [ConnNext]_connVars, NEW p \in Clis,
                    cli[p].step \in {"grant", "revoke"}, cli'[p].step # cli[p].step,
                    Uncontended(p), FileLoads(cli[p].conn, files[cli[p].conn])
             PROVE  EditOK(p)
  BY DEF EditOK
<1>1. PICK r : r = cli[p] OBVIOUS
<1>2. PICK f : f = files[r.conn] OBVIOUS
<1>3. /\ r \in Command_ /\ Sound(r) /\ f \in File \cup {None} /\ f # None /\ r.text = f
      /\ r.conn \in Conns /\ r.who \in Who /\ files \in [Conns -> File \cup {None}] /\ FileLoads(r.conn, f)
  BY <1>1, <1>2 DEF FilesTyped, DiskTypeOK, CliTypeOK, Uncontended, Sound
<1>4. f \in File BY <1>3
<1>5. CASE r.step = "grant" /\ GrantWrite(p)
  <2>1. PICK g : g = Upserted(Migrated(f), r.who, r.scope) OBVIOUS
  <2>2. files' = [files EXCEPT ![r.conn] = g] BY <1>1, <1>3, <1>5, <2>1 DEF GrantWrite, WriteFile
  <2>3. files'[r.conn] = g BY <1>3, <2>2
  <2>4. r.scope \in Scope /\ Declared(r.conn, r.scope) BY <1>3, <1>5 DEF Sound, Command_
  <2>5. /\ Restricted(Edges(g), r.who) = Restricted(Edges(f), r.who)
        /\ r.who \in DOMAIN Edges(g)
        /\ FileLoads(r.conn, g) \/ Kind[r.conn] = "mount"
    BY <1>3, <1>4, <2>1, <2>4, GrantTouchesOneEdge
  <2> QED BY <1>1, <1>2, <1>5, <2>3, <2>5 DEF EditOK
<1>6. CASE r.step = "revoke" /\ RevokeWrite(p)
  <2>1. PICK g : g = Withdrawn(r.conn, Migrated(f), r.who) OBVIOUS
  <2>2. files' = [files EXCEPT ![r.conn] = g] BY <1>1, <1>3, <1>6, <2>1 DEF RevokeWrite, WriteFile
  <2>3. files'[r.conn] = g BY <1>3, <2>2
  <2>4. Migrated(f).grants # None BY <1>3, <1>6 DEF Sound
  <2>5. /\ Restricted(Edges(g), r.who) = Restricted(Edges(f), r.who)
        /\ r.who \notin DOMAIN Edges(g)
        /\ FileLoads(r.conn, g)
    BY <1>3, <1>4, <2>1, <2>4, RevokeTouchesOneEdge
  <2> QED BY <1>1, <1>2, <1>6, <2>3, <2>5 DEF EditOK
<1> QED BY <1>1, <1>5, <1>6, WritesEndEdits

(* A grant or a revoke nobody raced changes the edge it names and no other,     *)
(* whatever form the file was in, and a file that loaded still loads            *)
(* (cli/connections.rs migrate_legacy_grants, upsert_grant_edge, revoke).       *)
THEOREM EditsKeepTheRest == ConnInit /\ [][ConnNext]_connVars => EditsTouchOneEdge
<1>1. ConnInit => FilesTyped BY InitFiles
<1>2. FilesTyped /\ [ConnNext]_connVars => FilesTyped' BY FilesStayTyped
<1>3. FilesTyped /\ [ConnNext]_connVars => [\A p \in Clis : EditOK(p)]_connVars BY EditKeepsTheRest
<1> QED BY <1>1, <1>2, <1>3, PTL DEF EditsTouchOneEdge, EditOK

-----------------------------------------------------------------------------
(* The configuration a request is judged by *)

N == Len(Parts)
PartNames == ToSet(Parts)

Judged == {"judge", "sent", "denied", "outage"}
ReqSteps == {"idle", "stat", "read", "refused"} \cup Judged

Conf == [files : [Conns -> File \cup {None}], secrets : SUBSET Conns, bound : [Workers -> Conns \cup {None}]]

\* What a part may hold.
Values == (File \cup {None}) \cup (SUBSET Conns) \cup [Workers -> Conns \cup {None}]

RequestsTyped ==
  /\ stamp \in [PartNames -> Nat]
  /\ since \in [Requests -> [PartNames -> SUBSET Values]]
  /\ req \in [Requests -> [step : ReqSteps, at : 1..N, fp : Seq(Nat), conf : Conf \cup {None}]]
  /\ \A q \in Requests :
       /\ req[q].step = "idle" => req[q].at = 1 /\ req[q].fp = <<>>
       /\ req[q].step = "stat" => Len(req[q].fp) = req[q].at - 1
       /\ req[q].step = "read" => Len(req[q].fp) = N
       /\ req[q].step \in {"read"} \cup Judged => req[q].conf \in Conf
       /\ req[q].step = "read" => \A i \in req[q].at..N : Parts[i] \notin req[q].conf.secrets
  /\ cache = None \/ (cache \in [fp : Seq(Nat), conf : Conf] /\ Len(cache.fp) = N)

\* What a configuration says of the i-th part; of the vault, nothing.
Piece(conf, i) == IF i = 1 THEN conf.bound ELSE conf.files[Parts[i]]

\* No stat was of a write yet to come.
Past(fp, n) == \A i \in 1..n : fp[i] <= stamp[Parts[i]]

\* A part that was not written since its stat is as it was read; and so, of the
\* secret a connection needs, when the vault was not written.
Agrees(fp, conf, n) ==
  \A i \in 1..n :
    /\ fp[i] = stamp[Parts[i]] => Piece(conf, i) = Content(Parts[i])
    /\ i # 1 /\ fp[N] = stamp["vault"] => (Parts[i] \in conf.secrets) = (Parts[i] \in secrets)

\* What a load has read of the parts that a request statted the same is no older
\* than the request, though the load may be.
Crosses(fp, conf, n) ==
  \A q \in Requests : req[q].step = "stat" =>
    \A i \in 1..n : i < req[q].at /\ fp[i] = req[q].fp[i] => Piece(conf, i) \in since[q][Parts[i]]

\* Nothing in the first n parts of a configuration is older than the request.
Current(q, conf, n) ==
  \A i \in 1..n :
    /\ Piece(conf, i) \in since[q][Parts[i]]
    /\ i # 1 => \E S \in since[q]["vault"] : (Parts[i] \in S) = (Parts[i] \in conf.secrets)

PresentIsSince == \A q \in Requests : UnderWay(q) => \A p \in PartNames : Content(p) \in since[q][p]

StatsArePast == \A q \in Requests : req[q].step = "stat" => Past(req[q].fp, req[q].at - 1)

Sure(fp, conf, n) == Past(fp, N) /\ Agrees(fp, conf, n) /\ Crosses(fp, conf, n)

CacheIsSure == cache # None => Sure(cache.fp, cache.conf, N - 1)

ReadersAreSure ==
  \A q \in Requests : req[q].step = "read" =>
    Sure(req[q].fp, req[q].conf, req[q].at - 1) /\ Current(q, req[q].conf, req[q].at - 1)

JudgedAreCurrent == \A q \in Requests : req[q].step \in Judged => Current(q, req[q].conf, N - 1)

ConnInv ==
  /\ FilesTyped
  /\ RequestsTyped
  /\ PresentIsSince
  /\ StatsArePast
  /\ CacheIsSure
  /\ ReadersAreSure
  /\ JudgedAreCurrent

(* The parts *)

LEMMA PartsAre ==
  /\ N \in Nat /\ N >= 2 /\ Parts \in Seq({"specs", "vault"} \cup Conns) /\ Len(Parts) = N
  /\ Parts[1] = "specs" /\ Parts[N] = "vault"
  /\ \A i \in 2..(N - 1) : Parts[i] \in Conns
  /\ \A i, j \in 1..N : Parts[i] = Parts[j] => i = j
<1> DEFINE S == {"specs", "vault"} \cup Conns
           L == Len(ConnOrder)
           head == <<"specs">> \o ConnOrder
<1>1. ConnOrder \in Seq(Conns) /\ IsInjective(ConnOrder) BY ConnectionsAssumption
<1>2. L \in Nat /\ DOMAIN ConnOrder = 1..L /\ \A i \in 1..L : ConnOrder[i] \in Conns
  BY <1>1, LenProperties, ElementOfSeq
<1>3. \A i, j \in 1..L : ConnOrder[i] = ConnOrder[j] => i = j BY <1>1, <1>2 DEF IsInjective
<1>4. ConnOrder \in Seq(S) /\ <<"specs">> \in Seq(S) /\ <<"vault">> \in Seq(S)
  BY <1>1, SeqMonotonic
<1>5. /\ head \in Seq(S) /\ Len(head) = 1 + L
      /\ \A i \in 1..(1 + L) : head[i] = IF i <= 1 THEN <<"specs">>[i] ELSE ConnOrder[i - 1]
  BY <1>4, ConcatProperties
<1> HIDE DEF L, head
<1>6. /\ head \o <<"vault">> \in Seq(S) /\ Len(head \o <<"vault">>) = 2 + L
      /\ \A i \in 1..(2 + L) :
           (head \o <<"vault">>)[i] = IF i <= 1 + L THEN head[i] ELSE <<"vault">>[i - (1 + L)]
  BY <1>2, <1>4, <1>5, ConcatProperties
<1>7. Parts = head \o <<"vault">> BY DEF Parts, head
<1>8. Parts \in Seq(S) /\ Len(Parts) = 2 + L BY <1>6, <1>7
<1>9. N = 2 + L BY <1>8 DEF N
<1>10. Parts[1] = "specs"
  <2>1. head[1] = <<"specs">>[1] BY <1>2, <1>5
  <2>2. Parts[1] = head[1] BY <1>2, <1>6, <1>7
  <2> QED BY <2>1, <2>2
<1>11. Parts[N] = "vault" BY <1>2, <1>6, <1>7, <1>9
<1>12. \A i \in 2..(N - 1) : Parts[i] = ConnOrder[i - 1] /\ i - 1 \in 1..L
  BY <1>2, <1>5, <1>6, <1>7, <1>9
<1>13. \A i \in 2..(N - 1) : Parts[i] \in Conns BY <1>2, <1>12
<1>14. ASSUME NEW i \in 1..N, NEW j \in 1..N, Parts[i] = Parts[j] PROVE i = j
  <2>1. CASE i \in 2..(N - 1) /\ j \in 2..(N - 1) BY <1>2, <1>3, <1>9, <1>12, <1>14, <2>1
  <2>2. CASE i \in {1, N} /\ j \in {1, N} BY <1>10, <1>11, <1>14, <2>2
  <2>3. CASE i \in {1, N} /\ j \in 2..(N - 1) BY <1>10, <1>11, <1>13, <1>14, <2>3, ConnectionsAssumption
  <2>4. CASE j \in {1, N} /\ i \in 2..(N - 1) BY <1>10, <1>11, <1>13, <1>14, <2>4, ConnectionsAssumption
  <2> QED BY <1>2, <1>9, <2>1, <2>2, <2>3, <2>4
<1> QED BY <1>2, <1>8, <1>9, <1>10, <1>11, <1>13, <1>14

LEMMA PartsNamed ==
  /\ \A i \in 1..N : Parts[i] \in PartNames
  /\ \A p \in PartNames : \E i \in 1..N : Parts[i] = p
  /\ PartNames = {"specs", "vault"} \cup Conns
  /\ \A c \in Conns : \E i \in 2..(N - 1) : Parts[i] = c
  /\ {"specs", "vault"} \cap Conns = {}
<1>1. DOMAIN Parts = 1..N BY PartsAre, LenProperties
<1>2. PartNames = {Parts[i] : i \in 1..N} BY <1>1 DEF PartNames, ToSet
<1>3. {"specs", "vault"} \cap Conns = {} BY ConnectionsAssumption
<1>4. ASSUME NEW c \in Conns PROVE \E i \in 2..(N - 1) : Parts[i] = c
  <2> DEFINE L == Len(ConnOrder)
  <2>1. ConnOrder \in Seq(Conns) BY ConnectionsAssumption
  <2>2. L \in Nat /\ DOMAIN ConnOrder = 1..L BY <2>1, LenProperties
  <2>3. PICK j \in 1..L : ConnOrder[j] = c BY <2>2 DEF Conns, ToSet
  <2>4. N = 2 + L /\ Parts[j + 1] = ConnOrder[j]
    <3> DEFINE S == {"specs", "vault"} \cup Conns
               head == <<"specs">> \o ConnOrder
    <3>1. ConnOrder \in Seq(S) /\ <<"specs">> \in Seq(S) /\ <<"vault">> \in Seq(S)
      BY <2>1, SeqMonotonic
    <3>2. /\ head \in Seq(S) /\ Len(head) = 1 + L
          /\ \A i \in 1..(1 + L) : head[i] = IF i <= 1 THEN <<"specs">>[i] ELSE ConnOrder[i - 1]
      BY <3>1, ConcatProperties
    <3> HIDE DEF L, head
    <3>3. /\ Len(head \o <<"vault">>) = 2 + L
          /\ \A i \in 1..(2 + L) :
               (head \o <<"vault">>)[i] = IF i <= 1 + L THEN head[i] ELSE <<"vault">>[i - (1 + L)]
      BY <2>2, <3>1, <3>2, ConcatProperties
    <3>4. Parts = head \o <<"vault">> BY DEF Parts, head
    <3>5. N = 2 + L BY <3>3, <3>4 DEF N
    <3>6. Parts[j + 1] = head[j + 1] /\ head[j + 1] = ConnOrder[j] BY <2>2, <2>3, <3>2, <3>3, <3>4
    <3> QED BY <3>5, <3>6
  <2> QED BY <2>2, <2>3, <2>4
<1>5. PartNames = {"specs", "vault"} \cup Conns
  <2>1. \A i \in 1..N : i = 1 \/ i = N \/ i \in 2..(N - 1) BY PartsAre
  <2>2. \A i \in 1..N : Parts[i] \in {"specs", "vault"} \cup Conns BY <2>1, PartsAre
  <2>3. 1 \in 1..N /\ N \in 1..N /\ \A i \in 2..(N - 1) : i \in 1..N BY PartsAre
  <2>4. \A p \in {"specs", "vault"} \cup Conns : \E i \in 1..N : Parts[i] = p BY <1>4, <2>3, PartsAre
  <2> QED BY <1>2, <2>2, <2>4
<1> QED BY <1>2, <1>3, <1>4, <1>5

LEMMA ContentIs ==
  /\ Content("specs") = bound /\ Content("vault") = secrets
  /\ \A c \in Conns : Content(c) = files[c]
  /\ FilesTyped => \A p \in PartNames : Content(p) \in Values
<1>1. Content("specs") = bound /\ Content("vault") = secrets BY DEF Content
<1>2. \A c \in Conns : Content(c) = files[c] BY PartsNamed DEF Content
<1>3. ASSUME FilesTyped, NEW p \in PartNames PROVE Content(p) \in Values
  <2>1. /\ bound \in [Workers -> Conns \cup {None}] /\ secrets \in SUBSET Conns
        /\ \A c \in Conns : files[c] \in File \cup {None}
    BY <1>3 DEF FilesTyped, DiskTypeOK
  <2> QED BY <1>1, <1>2, <2>1, PartsNamed DEF Values
<1> QED BY <1>1, <1>2, <1>3

(* A command writes at most one part *)

Changed(part, new) ==
  /\ Stamped(part, new)
  /\ \A p \in PartNames : Content(p)' = IF p = part THEN new ELSE Content(p)
  /\ secrets' = IF part = "vault" THEN new ELSE secrets

LEMMA FileChange ==
  ASSUME FilesTyped, NEW c \in Conns, NEW f, WriteFile(c, f)
  PROVE  c \in PartNames /\ Changed(c, f)
<1>1. /\ files' = [files EXCEPT ![c] = f] /\ Stamped(c, f) /\ secrets' = secrets /\ bound' = bound
      /\ DOMAIN files = Conns
  BY DEF WriteFile, FilesTyped, DiskTypeOK
<1>2. c # "specs" /\ c # "vault" /\ c \in PartNames BY PartsNamed
<1>3. ASSUME NEW p \in PartNames PROVE Content(p)' = IF p = c THEN f ELSE Content(p)
  <2>1. CASE p \in Conns
    <3>1. p # "specs" /\ p # "vault" BY <2>1, PartsNamed
    <3>2. Content(p) = files[p] /\ Content(p)' = files'[p] BY <3>1 DEF Content
    <3> QED BY <1>1, <2>1, <3>2
  <2>2. CASE p \in {"specs", "vault"} BY <1>1, <1>2, <2>2 DEF Content
  <2> QED BY <2>1, <2>2, PartsNamed
<1> QED BY <1>1, <1>2, <1>3 DEF Changed

LEMMA SecretsChange ==
  ASSUME NEW S, WriteSecrets(S) PROVE "vault" \in PartNames /\ Changed("vault", S)
<1>1. secrets' = S /\ Stamped("vault", S) /\ files' = files /\ bound' = bound BY DEF WriteSecrets
<1>2. \A p \in PartNames : Content(p)' = IF p = "vault" THEN S ELSE Content(p) BY <1>1 DEF Content
<1> QED BY <1>1, <1>2, PartsNamed DEF Changed

LEMMA SpecChange ==
  ASSUME NEW w, NEW c, WriteSpec(w, c)
  PROVE  "specs" \in PartNames /\ Changed("specs", [bound EXCEPT ![w] = c])
<1>1. /\ bound' = [bound EXCEPT ![w] = c] /\ Stamped("specs", [bound EXCEPT ![w] = c])
      /\ files' = files /\ secrets' = secrets
  BY DEF WriteSpec
<1>2. \A p \in PartNames : Content(p)' = IF p = "specs" THEN [bound EXCEPT ![w] = c] ELSE Content(p)
  BY <1>1 DEF Content
<1> QED BY <1>1, <1>2, PartsNamed DEF Changed

LEMMA CommandChange ==
  ASSUME FilesTyped, NEW p \in Clis, Command(p)
  PROVE  /\ req' = req /\ cache' = cache
         /\ KeepDisk \/ \E part \in PartNames : \E new : Changed(part, new)
<1> DEFINE r == cli[p]
<1>1. req' = req /\ cache' = cache
  BY DEF Command, Grant, Revoke, Add, Rm, GrantWrite, RevokeWrite, UnbindRead, UnbindWrite,
         StoreSecret, Scaffold, BindRead, BindWrite, RmFile, Daemon
<1>2. Sound(r) BY DEF FilesTyped, CliTypeOK
<1>3. \/ KeepDisk
      \/ \E c \in Conns : \E f : WriteFile(c, f)
      \/ \E S : WriteSecrets(S)
      \/ \E w, c : WriteSpec(w, c)
  <2>1. CASE \/ \E c \in Conns, who \in Who, scope \in Scopes : Grant(p, c, who, scope)
             \/ \E c \in Conns, who \in Who : Revoke(p, c, who)
             \/ \E c \in Conns, who \in Who \cup {None} : Add(p, c, who)
             \/ UnbindRead(p) \/ BindRead(p)
    BY <2>1 DEF Grant, Revoke, Add, UnbindRead, BindRead
  <2>2. CASE \E c \in Conns : Rm(p, c) BY <2>2 DEF Rm
  <2>3. CASE GrantWrite(p) \/ RevokeWrite(p) \/ Scaffold(p) \/ RmFile(p)
    <3>1. r.step \in {"grant", "revoke", "scaffold", "rmfile"}
      BY <2>3 DEF GrantWrite, RevokeWrite, Scaffold, RmFile
    <3>2. r.conn \in Conns BY <1>2, <3>1 DEF Sound
    <3>3. KeepDisk \/ \E f : WriteFile(r.conn, f)
      BY <2>3 DEF GrantWrite, RevokeWrite, Scaffold, RmFile
    <3> QED BY <3>2, <3>3
  <2>4. CASE UnbindWrite(p) \/ BindWrite(p) BY <2>4 DEF UnbindWrite, BindWrite
  <2>5. CASE StoreSecret(p) BY <2>5 DEF StoreSecret
  <2> QED BY <2>1, <2>2, <2>3, <2>4, <2>5 DEF Command
<1> QED BY <1>1, <1>3, FileChange, SecretsChange, SpecChange

(* A write keeps what was sure sure *)

Grows ==
  /\ \A p \in PartNames : stamp[p] \in Nat /\ stamp'[p] \in Nat /\ stamp[p] <= stamp'[p]
  /\ \A p \in PartNames : stamp'[p] = stamp[p] => Content(p)' = Content(p)
  /\ stamp'["vault"] = stamp["vault"] => secrets' = secrets
  /\ \A q \in Requests : \A p \in PartNames : since[q][p] \subseteq since'[q][p]
  /\ req' = req

LEMMA SureStaysSure ==
  ASSUME Grows, NEW fp \in Seq(Nat), Len(fp) = N, NEW conf, NEW n \in 0..(N - 1)
  PROVE  /\ Past(fp, N) => Past(fp, N)'
         /\ Sure(fp, conf, n) => Sure(fp, conf, n)'
<1> USE DEF Grows
<1>1. \A i \in 1..N : fp[i] \in Nat /\ Parts[i] \in PartNames BY PartsNamed, ElementOfSeq
<1>2. ASSUME Past(fp, N) PROVE Past(fp, N)' BY <1>1, <1>2, PartsAre DEF Past
<1>3. ASSUME Sure(fp, conf, n) PROVE Agrees(fp, conf, n)'
  <2>1. \A i \in 1..N : fp[i] <= stamp[Parts[i]] BY <1>3 DEF Sure, Past
  <2> SUFFICES ASSUME NEW i \in 1..n
               PROVE  /\ fp[i] = stamp'[Parts[i]] => Piece(conf, i) = Content(Parts[i])'
                      /\ i # 1 /\ fp[N] = stamp'["vault"] =>
                           (Parts[i] \in conf.secrets) = (Parts[i] \in secrets')
    BY DEF Agrees, Piece
  <2>2. i \in 1..N BY PartsAre
  <2>3. /\ fp[i] = stamp[Parts[i]] => Piece(conf, i) = Content(Parts[i])
        /\ i # 1 /\ fp[N] = stamp["vault"] => (Parts[i] \in conf.secrets) = (Parts[i] \in secrets)
    BY <1>3 DEF Sure, Agrees
  <2>4. fp[i] = stamp'[Parts[i]] => fp[i] = stamp[Parts[i]] /\ stamp'[Parts[i]] = stamp[Parts[i]]
    BY <1>1, <2>1, <2>2
  <2>5. N \in 1..N /\ "vault" \in PartNames /\ Parts[N] = "vault" BY PartsAre, PartsNamed
  <2>6. fp[N] <= stamp["vault"] /\ fp[N] \in Nat BY <1>1, <2>1, <2>5
  <2>7. fp[N] = stamp'["vault"] => fp[N] = stamp["vault"] /\ stamp'["vault"] = stamp["vault"]
    BY <2>5, <2>6
  <2>8. fp[i] = stamp'[Parts[i]] => Piece(conf, i) = Content(Parts[i])' BY <1>1, <2>2, <2>3, <2>4
  <2>9. i # 1 /\ fp[N] = stamp'["vault"] => (Parts[i] \in conf.secrets) = (Parts[i] \in secrets')
    BY <2>3, <2>7
  <2> QED BY <2>8, <2>9
<1>4. ASSUME Sure(fp, conf, n) PROVE Crosses(fp, conf, n)'
  <2>1. \A i \in 1..n : Parts[i] \in PartNames BY <1>1, PartsAre
  <2> QED BY <1>4, <2>1 DEF Sure, Crosses, Piece
<1> QED BY <1>2, <1>3, <1>4 DEF Sure

LEMMA CurrentStaysCurrent ==
  ASSUME Grows, NEW q \in Requests, NEW conf, NEW n \in 0..(N - 1), Current(q, conf, n)
  PROVE  Current(q, conf, n)'
<1>1. \A i \in 1..n : Parts[i] \in PartNames BY PartsNamed, PartsAre
<1>2. \A p \in PartNames : since[q][p] \subseteq since'[q][p] BY DEF Grows
<1>3. "vault" \in PartNames BY PartsNamed
<1> QED BY <1>1, <1>2, <1>3 DEF Current, Piece

LEMMA ChangeGrows ==
  ASSUME FilesTyped', RequestsTyped, NEW part \in PartNames, NEW new, Changed(part, new), req' = req,
         cache' = cache
  PROVE  /\ Grows /\ RequestsTyped'
         /\ PresentIsSince => PresentIsSince'
<1>1. /\ stamp' = [stamp EXCEPT ![part] = @ + 1]
      /\ since' = [q \in Requests |-> IF UnderWay(q) THEN [since[q] EXCEPT ![part] = @ \cup {new}]
                                       ELSE since[q]]
      /\ \A p \in PartNames : Content(p)' = IF p = part THEN new ELSE Content(p)
      /\ secrets' = IF part = "vault" THEN new ELSE secrets
  BY DEF Changed, Stamped
<1>2. stamp \in [PartNames -> Nat] /\ since \in [Requests -> [PartNames -> SUBSET Values]]
  BY DEF RequestsTyped
<1>3. new \in Values
  <2>1. new = Content(part)' BY <1>1
  <2>2. /\ bound' \in [Workers -> Conns \cup {None}] /\ secrets' \in SUBSET Conns
        /\ \A c \in Conns : files'[c] \in File \cup {None}
    BY DEF FilesTyped, DiskTypeOK
  <2>3. CASE part = "specs" BY <2>1, <2>2, <2>3 DEF Content, Values
  <2>4. CASE part = "vault" BY <2>1, <2>2, <2>4 DEF Content, Values
  <2>5. CASE part \in Conns
    <3>1. part # "specs" /\ part # "vault" BY <2>5, PartsNamed
    <3>2. Content(part)' = files'[part] BY <3>1 DEF Content
    <3> QED BY <2>1, <2>2, <2>5, <3>2 DEF Values
  <2> QED BY <2>3, <2>4, <2>5, PartsNamed
<1>4. stamp' \in [PartNames -> Nat] BY <1>1, <1>2
<1>5. \A p \in PartNames : stamp'[p] = IF p = part THEN stamp[p] + 1 ELSE stamp[p] BY <1>1, <1>2
<1>6. \A q \in Requests :
        IF UnderWay(q) THEN since'[q] = [since[q] EXCEPT ![part] = @ \cup {new}] ELSE since'[q] = since[q]
  BY <1>1
<1>7. ASSUME NEW q \in Requests
      PROVE  /\ since'[q] \in [PartNames -> SUBSET Values]
             /\ \A p \in PartNames : since[q][p] \subseteq since'[q][p]
             /\ UnderWay(q) => new \in since'[q][part]
  <2>1. since[q] \in [PartNames -> SUBSET Values] BY <1>2
  <2>2. CASE UnderWay(q)
    <3>1. since'[q] = [since[q] EXCEPT ![part] = @ \cup {new}] BY <1>6, <2>2
    <3> QED BY <1>3, <2>1, <3>1
  <2>3. CASE ~ UnderWay(q) BY <1>6, <2>1, <2>3
  <2> QED BY <2>2, <2>3
<1>8. since' \in [Requests -> [PartNames -> SUBSET Values]] BY <1>1, <1>7
<1>9. RequestsTyped' BY <1>4, <1>8 DEF RequestsTyped
<1>10. Grows
  <2>1. \A p \in PartNames : stamp[p] \in Nat /\ stamp'[p] \in Nat /\ stamp[p] <= stamp'[p]
    BY <1>2, <1>4, <1>5
  <2>2. \A p \in PartNames : stamp'[p] = stamp[p] => Content(p)' = Content(p) BY <1>1, <1>2, <1>5
  <2>3. stamp'["vault"] = stamp["vault"] => secrets' = secrets BY <1>1, <1>2, <1>5
  <2> QED BY <1>7, <2>1, <2>2, <2>3 DEF Grows
<1>11. ASSUME PresentIsSince PROVE PresentIsSince'
  <2> SUFFICES ASSUME NEW q \in Requests, UnderWay(q), NEW p \in PartNames
               PROVE  Content(p)' \in since'[q][p]
    BY DEF PresentIsSince, UnderWay
  <2>1. CASE p = part BY <1>1, <1>7, <2>1
  <2>2. CASE p # part BY <1>1, <1>7, <1>11, <2>2 DEF PresentIsSince
  <2> QED BY <2>1, <2>2
<1> QED BY <1>9, <1>10, <1>11

LEMMA ChangeKeeps ==
  ASSUME ConnInv, FilesTyped', NEW part \in PartNames, NEW new, Changed(part, new), req' = req,
         cache' = cache
  PROVE  ConnInv'
<1>1. Grows /\ RequestsTyped' /\ PresentIsSince' BY ChangeGrows DEF ConnInv
<1>2. StatsArePast'
  <2> SUFFICES ASSUME NEW q \in Requests, req[q].step = "stat"
               PROVE  \A i \in 1..(req[q].at - 1) : req[q].fp[i] <= stamp'[Parts[i]]
    BY DEF StatsArePast, Past
  <2> TAKE i \in 1..(req[q].at - 1)
  <2>1. req[q].fp \in Seq(Nat) /\ req[q].at \in 1..N /\ Len(req[q].fp) = req[q].at - 1
    BY DEF ConnInv, RequestsTyped
  <2>2. req[q].fp[i] \in Nat /\ i \in 1..N BY <2>1, ElementOfSeq, PartsAre
  <2>3. req[q].fp[i] <= stamp[Parts[i]] BY DEF ConnInv, StatsArePast, Past
  <2>4. Parts[i] \in PartNames BY <2>2, PartsNamed
  <2> QED BY <1>1, <2>2, <2>3, <2>4 DEF Grows
<1>3. CacheIsSure'
  <2> SUFFICES ASSUME cache # None PROVE Sure(cache.fp, cache.conf, N - 1)'
    BY DEF CacheIsSure
  <2>1. PICK fp, conf : fp = cache.fp /\ conf = cache.conf OBVIOUS
  <2>2. fp \in Seq(Nat) /\ Len(fp) = N BY <2>1 DEF ConnInv, RequestsTyped
  <2>3. Sure(fp, conf, N - 1) BY <2>1 DEF ConnInv, CacheIsSure
  <2>4. Sure(fp, conf, N - 1)' BY <1>1, <2>2, <2>3, SureStaysSure, PartsAre
  <2>5. fp = cache'.fp /\ conf = cache'.conf BY <2>1
  <2> QED BY <2>4, <2>5
<1>4. ReadersAreSure'
  <2> SUFFICES ASSUME NEW q \in Requests, req[q].step = "read"
               PROVE  Sure(req[q].fp, req[q].conf, req[q].at - 1)' /\ Current(q, req[q].conf, req[q].at - 1)'
    BY DEF ReadersAreSure
  <2>1. PICK fp, conf, n : fp = req[q].fp /\ conf = req[q].conf /\ n = req[q].at - 1 OBVIOUS
  <2>2. fp \in Seq(Nat) /\ Len(fp) = N /\ n \in 0..(N - 1) BY <2>1, PartsAre DEF ConnInv, RequestsTyped
  <2>3. Sure(fp, conf, n) /\ Current(q, conf, n) BY <2>1 DEF ConnInv, ReadersAreSure
  <2>4. Sure(fp, conf, n)' BY <1>1, <2>2, <2>3, SureStaysSure
  <2>5. Current(q, conf, n)' BY <1>1, <2>2, <2>3, CurrentStaysCurrent
  <2>6. fp = req'[q].fp /\ conf = req'[q].conf /\ n = req'[q].at - 1 BY <2>1
  <2> QED BY <2>4, <2>5, <2>6
<1>5. JudgedAreCurrent'
  <2> SUFFICES ASSUME NEW q \in Requests, req[q].step \in Judged PROVE Current(q, req[q].conf, N - 1)'
    BY DEF JudgedAreCurrent
  <2>1. PICK conf : conf = req[q].conf OBVIOUS
  <2>2. Current(q, conf, N - 1) BY <2>1 DEF ConnInv, JudgedAreCurrent
  <2>3. Current(q, conf, N - 1)' BY <1>1, <2>2, CurrentStaysCurrent, PartsAre
  <2>4. conf = req'[q].conf BY <2>1
  <2> QED BY <2>3, <2>4
<1> QED BY <1>1, <1>2, <1>3, <1>4, <1>5 DEF ConnInv

(* A request moves, and the disk does not *)

Quiet == /\ stamp' = stamp /\ secrets' = secrets /\ bound' = bound /\ files' = files
         /\ scene' = scene /\ cli' = cli

Others(q) == \A x \in Requests : x # q => req'[x] = req[x] /\ since'[x] = since[x]

\* A load that statted what the request now has read nothing older than it.
Meets(q) ==
  \A fp \in Seq(Nat), conf \in Conf, n \in 0..(N - 1) :
    Len(fp) = N /\ Sure(fp, conf, n) /\ req'[q].step = "stat" =>
      \A i \in 1..n : i < req'[q].at /\ fp[i] = req'[q].fp[i] => Piece(conf, i) \in since'[q][Parts[i]]

RequestOK(q) ==
  /\ UnderWay(q) => \A p \in PartNames : Content(p) \in since[q][p]
  /\ req[q].step = "stat" => Past(req[q].fp, req[q].at - 1)
  /\ req[q].step = "read" => /\ Sure(req[q].fp, req[q].conf, req[q].at - 1)
                              /\ Current(q, req[q].conf, req[q].at - 1)
  /\ req[q].step \in Judged => Current(q, req[q].conf, N - 1)

LEMMA ByRequest ==
  /\ ConnInv <=> FilesTyped /\ RequestsTyped /\ CacheIsSure /\ \A q \in Requests : RequestOK(q)
  BY DEF ConnInv, PresentIsSince, StatsArePast, ReadersAreSure, JudgedAreCurrent, RequestOK

LEMMA RequestIs ==
  ASSUME RequestsTyped, NEW q \in Requests
  PROVE  /\ req[q].fp \in Seq(Nat) /\ req[q].at \in 1..N /\ req[q].at - 1 \in 0..(N - 1)
         /\ req[q].step = "idle" => req[q].at = 1 /\ req[q].fp = <<>>
         /\ req[q].step = "stat" => Len(req[q].fp) = req[q].at - 1
         /\ req[q].step = "read" => /\ Len(req[q].fp) = N /\ req[q].conf \in Conf
                                    /\ \A i \in req[q].at..N : Parts[i] \notin req[q].conf.secrets
         /\ req[q].step \in Judged => req[q].conf \in Conf
<1>1. req[q] \in [step : ReqSteps, at : 1..N, fp : Seq(Nat), conf : Conf \cup {None}]
  BY DEF RequestsTyped
<1>2. req[q].fp \in Seq(Nat) /\ req[q].at \in 1..N BY <1>1
<1>3. req[q].at - 1 \in 0..(N - 1) BY <1>2, PartsAre
<1> QED BY <1>2, <1>3 DEF RequestsTyped

LEMMA SureHere ==
  ASSUME Quiet, NEW q \in Requests, Others(q), Meets(q), NEW fp \in Seq(Nat), Len(fp) = N,
         NEW conf \in Conf, NEW n \in 0..(N - 1), Sure(fp, conf, n)
  PROVE  Sure(fp, conf, n)'
<1>1. Past(fp, N)' BY DEF Sure, Past, Quiet
<1>2. Agrees(fp, conf, n)'
  <2>1. \A p : Content(p)' = Content(p) BY DEF Content, Quiet
  <2> QED BY <2>1 DEF Sure, Agrees, Piece, Quiet
<1>3. Crosses(fp, conf, n)'
  <2> SUFFICES ASSUME NEW x \in Requests, req'[x].step = "stat", NEW i \in 1..n, i < req'[x].at,
                      fp[i] = req'[x].fp[i]
               PROVE  Piece(conf, i) \in since'[x][Parts[i]]
    BY DEF Crosses, Piece
  <2>1. CASE x = q BY <2>1 DEF Meets
  <2>2. CASE x # q BY <2>2 DEF Others, Sure, Crosses
  <2> QED BY <2>1, <2>2
<1> QED BY <1>1, <1>2, <1>3 DEF Sure

LEMMA RequestKeeps ==
  ASSUME ConnInv, RequestsTyped', Quiet, NEW q \in Requests, Others(q), Meets(q),
         cache' = cache \/ CacheIsSure', RequestOK(q)'
  PROVE  ConnInv'
<1>1. FilesTyped' BY DEF ConnInv, FilesTyped, DiskTypeOK, CliTypeOK, Quiet
<1>2. CacheIsSure'
  <2> SUFFICES ASSUME cache' = cache, cache # None PROVE Sure(cache.fp, cache.conf, N - 1)'
    BY DEF CacheIsSure
  <2>1. PICK fp, conf : fp = cache.fp /\ conf = cache.conf OBVIOUS
  <2>2. fp \in Seq(Nat) /\ Len(fp) = N /\ conf \in Conf BY <2>1 DEF ConnInv, RequestsTyped
  <2>3. Sure(fp, conf, N - 1) BY <2>1 DEF ConnInv, CacheIsSure
  <2>4. Sure(fp, conf, N - 1)' BY <2>2, <2>3, SureHere, PartsAre
  <2>5. fp = cache'.fp /\ conf = cache'.conf BY <2>1
  <2> QED BY <2>4, <2>5
<1>3. ASSUME NEW x \in Requests, x # q PROVE RequestOK(x)'
  <2>1. req'[x] = req[x] /\ since'[x] = since[x] BY <1>3 DEF Others
  <2>2. RequestOK(x) BY ByRequest
  <2>3. \A p : Content(p)' = Content(p) BY DEF Content, Quiet
  <2>4. UnderWay(x)' => \A p \in PartNames : Content(p)' \in since'[x][p]
    BY <2>1, <2>2, <2>3 DEF RequestOK, UnderWay
  <2>5. req'[x].step = "stat" => Past(req[x].fp, req[x].at - 1)'
    BY <2>1, <2>2 DEF RequestOK, Past, Quiet
  <2>6. ASSUME req'[x].step = "read"
        PROVE  Sure(req[x].fp, req[x].conf, req[x].at - 1)' /\ Current(x, req[x].conf, req[x].at - 1)'
    <3>1. PICK fp, conf, n : fp = req[x].fp /\ conf = req[x].conf /\ n = req[x].at - 1 OBVIOUS
    <3>2. req[x].step = "read" BY <2>1, <2>6
    <3>3. fp \in Seq(Nat) /\ Len(fp) = N /\ n \in 0..(N - 1) /\ conf \in Conf
      BY <3>1, <3>2, RequestIs DEF ConnInv
    <3>4. Sure(fp, conf, n) /\ Current(x, conf, n) BY <2>2, <3>1, <3>2 DEF RequestOK
    <3>5. Sure(fp, conf, n)' BY <3>3, <3>4, SureHere
    <3>6. Current(x, conf, n)' BY <2>1, <3>4 DEF Current, Piece
    <3>7. fp = req'[x].fp /\ conf = req'[x].conf /\ n = req'[x].at - 1 BY <2>1, <3>1
    <3> QED BY <3>5, <3>6, <3>7
  <2>7. req'[x].step \in Judged => Current(x, req[x].conf, N - 1)'
    BY <2>1, <2>2 DEF RequestOK, Current, Piece
  <2> QED BY <2>4, <2>5, <2>6, <2>7 DEF RequestOK
<1>4. \A x \in Requests : RequestOK(x)' BY <1>3
<1>5. /\ PresentIsSince' /\ StatsArePast' /\ ReadersAreSure' /\ JudgedAreCurrent'
  BY <1>4 DEF PresentIsSince, StatsArePast, ReadersAreSure, JudgedAreCurrent, RequestOK
<1> QED BY <1>1, <1>2, <1>5 DEF ConnInv

RequestRecord == [step : ReqSteps, at : 1..N, fp : Seq(Nat), conf : Conf \cup {None}]

WellStepped(r) ==
  /\ r.step = "idle" => r.at = 1 /\ r.fp = <<>>
  /\ r.step = "stat" => Len(r.fp) = r.at - 1
  /\ r.step = "read" => Len(r.fp) = N
  /\ r.step \in {"read"} \cup Judged => r.conf \in Conf
  /\ r.step = "read" => \A i \in r.at..N : Parts[i] \notin r.conf.secrets

LEMMA Moves ==
  ASSUME RequestsTyped, NEW q \in Requests, NEW r \in RequestRecord, WellStepped(r),
         req' = [req EXCEPT ![q] = r], UNCHANGED Reader,
         since' \in [Requests -> [PartNames -> SUBSET Values]],
         \A x \in Requests : x # q => since'[x] = since[x],
         cache' = cache \/ (cache' \in [fp : Seq(Nat), conf : Conf] /\ Len(cache'.fp) = N)
  PROVE  RequestsTyped' /\ Quiet /\ Others(q) /\ req'[q] = r
<1>1. Quiet BY DEF Quiet, Reader, disk
<1>2. req \in [Requests -> RequestRecord] BY DEF RequestsTyped, RequestRecord
<1>3. req' \in [Requests -> RequestRecord] /\ req'[q] = r /\ \A x \in Requests : x # q => req'[x] = req[x]
  BY <1>2
<1>4. \A x \in Requests : WellStepped(req'[x]) BY <1>3 DEF RequestsTyped, WellStepped
<1>5. cache' = None \/ (cache' \in [fp : Seq(Nat), conf : Conf] /\ Len(cache'.fp) = N)
  BY DEF RequestsTyped
<1>6. stamp' \in [PartNames -> Nat] BY <1>1 DEF RequestsTyped, Quiet
<1>7. RequestsTyped' BY <1>3, <1>4, <1>5, <1>6 DEF RequestsTyped, WellStepped, RequestRecord
<1> QED BY <1>1, <1>3, <1>7 DEF Others

LEMMA BeginKeeps == ASSUME ConnInv, NEW q \in Requests, Begin(q) PROVE ConnInv'
<1> DEFINE r == [req[q] EXCEPT !.step = "stat"]
           s == [p \in PartNames |-> {Content(p)}]
<1>1. /\ req[q].step = "idle" /\ req' = [req EXCEPT ![q] = r] /\ since' = [since EXCEPT ![q] = s]
      /\ UNCHANGED Reader /\ cache' = cache
  BY DEF Begin, PartNames
<1>2. RequestsTyped /\ FilesTyped BY DEF ConnInv
<1>3. req[q] \in RequestRecord /\ req[q].at = 1 /\ req[q].fp = <<>>
  BY <1>1, <1>2, RequestIs DEF RequestsTyped, RequestRecord
<1>4. r \in RequestRecord /\ r.step = "stat" /\ r.at = 1 /\ r.fp = <<>>
  BY <1>3 DEF RequestRecord, ReqSteps
<1>5. WellStepped(r) BY <1>4 DEF WellStepped, Judged
<1>6. s \in [PartNames -> SUBSET Values] BY <1>2, ContentIs
<1>7. since \in [Requests -> [PartNames -> SUBSET Values]] BY <1>2 DEF RequestsTyped
<1> HIDE DEF r
<1>8. /\ since' \in [Requests -> [PartNames -> SUBSET Values]]
      /\ since'[q] = s /\ \A x \in Requests : x # q => since'[x] = since[x]
  BY <1>1, <1>6, <1>7
<1>9. RequestsTyped' /\ Quiet /\ Others(q) /\ req'[q] = r BY <1>1, <1>2, <1>4, <1>5, <1>8, Moves
<1>10. Meets(q) BY <1>4, <1>9 DEF Meets
<1>11. RequestOK(q)'
  <2>1. \A p : Content(p)' = Content(p) BY <1>9 DEF Content, Quiet
  <2>2. \A p \in PartNames : Content(p)' \in since'[q][p] BY <1>8, <2>1
  <2>3. Past(req[q].fp, req[q].at - 1)' BY <1>4, <1>9 DEF Past
  <2> QED BY <1>4, <1>9, <2>2, <2>3 DEF RequestOK, Judged
<1> QED BY <1>1, <1>9, <1>10, <1>11, RequestKeeps

LEMMA JudgeKeeps ==
  ASSUME ConnInv, NEW q \in Requests, NEW w \in Workers, NEW c, Judge(q, w, c) PROVE ConnInv'
<1>1. PICK next \in Judged : req' = [req EXCEPT ![q].step = next]
  BY DEF Judge, Judged
<1> DEFINE r == [req[q] EXCEPT !.step = next]
<1>2. /\ req[q].step = "judge" /\ req' = [req EXCEPT ![q] = r] /\ since' = since
      /\ UNCHANGED Reader /\ cache' = cache
  BY <1>1 DEF Judge
<1>3. RequestsTyped BY DEF ConnInv
<1>4. req[q] \in RequestRecord /\ req[q].conf \in Conf
  BY <1>2, <1>3, RequestIs DEF RequestsTyped, RequestRecord, Judged
<1>5. r \in RequestRecord /\ r.step \in Judged /\ r.conf = req[q].conf
  BY <1>4 DEF RequestRecord, ReqSteps
<1>6. WellStepped(r) BY <1>4, <1>5 DEF WellStepped, Judged
<1> HIDE DEF r
<1>7. since' \in [Requests -> [PartNames -> SUBSET Values]] BY <1>2, <1>3 DEF RequestsTyped
<1>8. RequestsTyped' /\ Quiet /\ Others(q) /\ req'[q] = r BY <1>2, <1>3, <1>5, <1>6, <1>7, Moves
<1>9. Meets(q) BY <1>5, <1>8 DEF Meets, Judged
<1>10. RequestOK(q)'
  <2>1. Current(q, req[q].conf, N - 1) BY <1>2 DEF ConnInv, JudgedAreCurrent, Judged
  <2>2. Current(q, req[q].conf, N - 1)' BY <1>2, <1>5, <1>8, <2>1 DEF Current, Piece
  <2> QED BY <1>5, <1>8, <2>2 DEF RequestOK, Judged, UnderWay
<1> QED BY <1>2, <1>8, <1>9, <1>10, RequestKeeps

LEMMA StatKeeps == ASSUME ConnInv, NEW q \in Requests, Stat(q) PROVE ConnInv'
<1>1. PICK k, fp : k = req[q].at /\ fp = Append(req[q].fp, stamp[Parts[k]])
  OBVIOUS
<1>2. RequestsTyped /\ FilesTyped /\ req[q].step = "stat" BY DEF ConnInv, Stat
<1>3. /\ req[q].fp \in Seq(Nat) /\ k \in 1..N /\ Len(req[q].fp) = k - 1 /\ req[q] \in RequestRecord
      /\ stamp[Parts[k]] \in Nat /\ Parts[k] \in PartNames
  <2>1. req[q].fp \in Seq(Nat) /\ k \in 1..N /\ Len(req[q].fp) = k - 1 BY <1>1, <1>2, RequestIs
  <2>2. req[q] \in RequestRecord BY <1>2 DEF RequestsTyped, RequestRecord
  <2>3. Parts[k] \in PartNames /\ stamp[Parts[k]] \in Nat BY <1>2, <2>1, PartsNamed DEF RequestsTyped
  <2> QED BY <2>1, <2>2, <2>3
<1>4. /\ fp \in Seq(Nat) /\ Len(fp) = k /\ fp[k] = stamp[Parts[k]]
      /\ \A i \in 1..(k - 1) : fp[i] = req[q].fp[i]
  <2>1. /\ fp \in Seq(Nat) /\ Len(fp) = Len(req[q].fp) + 1
        /\ \A i \in 1..Len(req[q].fp) : fp[i] = req[q].fp[i]
        /\ fp[Len(req[q].fp) + 1] = stamp[Parts[k]]
    BY <1>1, <1>3, AppendProperties
  <2>2. Len(req[q].fp) = k - 1 /\ Len(req[q].fp) + 1 = k BY <1>3, PartsAre
  <2> QED BY <2>1, <2>2
<1>5. Past(fp, k)
  <2> SUFFICES ASSUME NEW i \in 1..k PROVE fp[i] <= stamp[Parts[i]] BY DEF Past
  <2>1. CASE i = k BY <1>3, <1>4, <2>1
  <2>2. CASE i # k
    <3>1. i \in 1..(k - 1) BY <1>3, <2>2, PartsAre
    <3> QED BY <1>1, <1>2, <1>4, <3>1 DEF ConnInv, StatsArePast, Past
  <2> QED BY <2>1, <2>2
<1>6. \A p \in PartNames : Content(p) \in since[q][p] BY <1>2 DEF ConnInv, PresentIsSince, UnderWay
<1>7. UNCHANGED Reader /\ cache' = cache /\ since' = since /\ Quiet
  BY DEF Stat, Quiet, Reader, disk
<1>8. since' \in [Requests -> [PartNames -> SUBSET Values]] BY <1>2, <1>7 DEF RequestsTyped
<1>9. \A p : Content(p)' = Content(p) BY <1>7 DEF Content, Quiet
<1>20. req' = [req EXCEPT ![q] =
                IF Len(fp) < Len(Parts) THEN [req[q] EXCEPT !.fp = fp, !.at = k + 1]
                ELSE IF cache # None /\ cache.fp = fp
                     THEN [req[q] EXCEPT !.fp = fp, !.at = 1, !.conf = cache.conf, !.step = "judge"]
                     ELSE [req[q] EXCEPT !.fp = fp, !.at = 1, !.step = "read",
                             !.conf = [files |-> [c \in Conns |-> None], secrets |-> {}, bound |-> bound]]]
  BY <1>1 DEF Stat
<1>21. Len(fp) = k /\ Len(Parts) = N BY <1>4, PartsAre
\* What a load agrees on with this request, it agrees on as of this stat.
<1>10. ASSUME NEW gp \in Seq(Nat), NEW conf, NEW n \in 0..(N - 1), Sure(gp, conf, n),
              NEW i \in 1..n, i <= k, gp[i] = fp[i]
       PROVE  Piece(conf, i) \in since[q][Parts[i]]
  <2>1. CASE i = k
    <3>1. Piece(conf, i) = Content(Parts[i]) BY <1>4, <1>10, <2>1 DEF Sure, Agrees
    <3> QED BY <1>3, <1>6, <2>1, <3>1
  <2>2. CASE i # k
    <3>1. i \in 1..(k - 1) /\ i < k BY <1>3, <1>10, <2>2, PartsAre
    <3>2. gp[i] = req[q].fp[i] BY <1>4, <1>10, <3>1
    <3> QED BY <1>1, <1>2, <1>10, <3>1, <3>2 DEF Sure, Crosses
  <2> QED BY <2>1, <2>2
<1>11. CASE k < N
  <2> DEFINE r == [req[q] EXCEPT !.fp = fp, !.at = k + 1]
  <2>1. req' = [req EXCEPT ![q] = r] BY <1>11, <1>20, <1>21
  <2>2. k + 1 \in 1..N BY <1>3, <1>11, PartsAre
  <2>3. r \in RequestRecord /\ r.step = "stat" /\ r.fp = fp /\ r.at = k + 1
    BY <1>2, <1>3, <1>4, <2>2 DEF RequestRecord
  <2> HIDE DEF r
  <2>4. WellStepped(r) BY <1>3, <1>4, <2>3, PartsAre DEF WellStepped, Judged
  <2>5. RequestsTyped' /\ Others(q) /\ req'[q] = r BY <1>2, <1>7, <1>8, <2>1, <2>3, <2>4, Moves
  <2>6. Meets(q)
    <3> SUFFICES ASSUME NEW gp \in Seq(Nat), NEW conf \in Conf, NEW n \in 0..(N - 1), Sure(gp, conf, n),
                        NEW i \in 1..n, i < k + 1, gp[i] = fp[i]
                 PROVE  Piece(conf, i) \in since'[q][Parts[i]]
      BY <2>3, <2>5 DEF Meets
    <3>1. i <= k BY <1>3, PartsAre
    <3> QED BY <1>7, <1>10, <3>1
  <2>7. RequestOK(q)'
    <3>1. Past(req[q].fp, req[q].at - 1)'
      <4>1. req'[q].fp = fp /\ req'[q].at - 1 = k BY <1>3, <2>3, <2>5, PartsAre
      <4> QED BY <1>5, <1>7, <4>1 DEF Past, Quiet
    <3>2. \A p \in PartNames : Content(p)' \in since'[q][p] BY <1>6, <1>7, <1>9
    <3> QED BY <2>3, <2>5, <3>1, <3>2 DEF RequestOK, Judged
  <2> QED BY <1>7, <2>5, <2>6, <2>7, RequestKeeps
<1>12. CASE k = N /\ cache # None /\ cache.fp = fp
  <2> DEFINE r == [req[q] EXCEPT !.fp = fp, !.at = 1, !.conf = cache.conf, !.step = "judge"]
  <2>0. ~ (Len(fp) < Len(Parts)) BY <1>3, <1>12, <1>21, PartsAre
  <2>1. req' = [req EXCEPT ![q] = r] BY <1>12, <1>20, <2>0
  <2>2. cache.conf \in Conf /\ Sure(fp, cache.conf, N - 1)
    BY <1>2, <1>12 DEF ConnInv, RequestsTyped, CacheIsSure
  <2>3. 1 \in 1..N BY PartsAre
  <2>4. r \in RequestRecord /\ r.step = "judge" /\ r.conf = cache.conf
    BY <1>3, <1>4, <2>2, <2>3 DEF RequestRecord, ReqSteps, Judged
  <2> HIDE DEF r
  <2>5. WellStepped(r) BY <2>2, <2>4 DEF WellStepped, Judged
  <2>6. RequestsTyped' /\ Others(q) /\ req'[q] = r BY <1>2, <1>7, <1>8, <2>1, <2>4, <2>5, Moves
  <2>7. Meets(q) BY <2>4, <2>6 DEF Meets
  <2>8. Current(q, cache.conf, N - 1)
    <3> SUFFICES ASSUME NEW i \in 1..(N - 1)
                 PROVE  /\ Piece(cache.conf, i) \in since[q][Parts[i]]
                        /\ i # 1 => \E S \in since[q]["vault"] :
                                      (Parts[i] \in S) = (Parts[i] \in cache.conf.secrets)
      BY DEF Current
    <3>1. N - 1 \in 0..(N - 1) /\ i <= k BY <1>12, PartsAre
    <3>2. Piece(cache.conf, i) \in since[q][Parts[i]] BY <1>4, <1>10, <2>2, <3>1
    <3>3. fp[N] = stamp["vault"] BY <1>4, <1>12, PartsAre
    <3>4. i # 1 => (Parts[i] \in cache.conf.secrets) = (Parts[i] \in secrets)
      BY <2>2, <3>3 DEF Sure, Agrees
    <3>5. secrets \in since[q]["vault"] BY <1>6, ContentIs, PartsNamed
    <3> QED BY <3>2, <3>4, <3>5
  <2>9. RequestOK(q)'
    <3>1. Current(q, req[q].conf, N - 1)' BY <1>7, <2>4, <2>6, <2>8 DEF Current, Piece
    <3> QED BY <2>4, <2>6, <3>1 DEF RequestOK, Judged, UnderWay
  <2> QED BY <1>7, <2>6, <2>7, <2>9, RequestKeeps
<1>13. CASE k = N /\ ~ (cache # None /\ cache.fp = fp)
  <2> DEFINE empty == [files |-> [c \in Conns |-> None], secrets |-> {}, bound |-> bound]
             r == [req[q] EXCEPT !.fp = fp, !.at = 1, !.step = "read", !.conf = empty]
  <2>0. ~ (Len(fp) < Len(Parts)) BY <1>3, <1>13, <1>21, PartsAre
  <2>1. req' = [req EXCEPT ![q] = r] BY <1>13, <1>20, <2>0
  <2>2. empty \in Conf /\ empty.secrets = {} BY <1>2 DEF Conf, FilesTyped, DiskTypeOK
  <2> HIDE DEF empty
  <2>3. 1 \in 1..N BY PartsAre
  <2>4. r \in RequestRecord /\ r.step = "read" /\ r.conf = empty /\ r.fp = fp /\ r.at = 1
    BY <1>3, <1>4, <2>2, <2>3 DEF RequestRecord, ReqSteps
  <2> HIDE DEF r
  <2>5. WellStepped(r) BY <1>4, <1>13, <2>2, <2>4 DEF WellStepped
  <2>6. RequestsTyped' /\ Others(q) /\ req'[q] = r BY <1>2, <1>7, <1>8, <2>1, <2>4, <2>5, Moves
  <2>7. Meets(q) BY <2>4, <2>6 DEF Meets
  <2>8. RequestOK(q)'
    <3>1. req'[q].fp = fp /\ req'[q].at - 1 = 0 BY <2>4, <2>6
    <3>2. Past(req[q].fp, N)' BY <1>5, <1>7, <1>13, <3>1 DEF Past, Quiet
    <3>3. Sure(req[q].fp, req[q].conf, req[q].at - 1)' BY <3>1, <3>2 DEF Sure, Agrees, Crosses
    <3>4. Current(q, req[q].conf, req[q].at - 1)' BY <3>1 DEF Current
    <3>5. \A p \in PartNames : Content(p)' \in since'[q][p] BY <1>6, <1>7, <1>9
    <3> QED BY <2>4, <2>6, <3>3, <3>4, <3>5 DEF RequestOK, Judged
  <2> QED BY <1>7, <2>6, <2>7, <2>8, RequestKeeps
<1>14. k < N \/ k = N BY <1>3, PartsAre
<1> QED BY <1>11, <1>12, <1>13, <1>14

LEMMA ReadKeeps == ASSUME ConnInv, NEW q \in Requests, Read(q) PROVE ConnInv'
<1>1. PICK k, fp, conf, part : k = req[q].at /\ fp = req[q].fp /\ conf = req[q].conf /\ part = Parts[k]
  OBVIOUS
<1>2. PICK got : got = IF part = "specs" THEN [conf EXCEPT !.bound = bound]
                       ELSE [conf EXCEPT !.files[part] = files[part],
                                         !.secrets = conf.secrets \cup ({part} \cap secrets)]
  OBVIOUS
<1> DEFINE r == [req[q] EXCEPT !.at = k + 1, !.conf = got]
<1>3. /\ RequestsTyped /\ FilesTyped /\ req[q].step = "read" /\ part # "vault"
      /\ req' = [req EXCEPT ![q] = r]
  BY <1>1, <1>2 DEF ConnInv, Read
<1>4. UNCHANGED Reader /\ cache' = cache /\ since' = since /\ Quiet
  BY DEF Read, Quiet, Reader, disk
<1>5. /\ fp \in Seq(Nat) /\ Len(fp) = N /\ k \in 1..N /\ conf \in Conf
      /\ \A i \in k..N : Parts[i] \notin conf.secrets
  BY <1>1, <1>3, RequestIs
<1>6. k \in 1..(N - 1) /\ k + 1 \in 1..N /\ k \in 1..N
  <2>1. k # N BY <1>1, <1>3, PartsAre
  <2> QED BY <1>5, <2>1, PartsAre
<1>7. /\ files \in [Conns -> File \cup {None}] /\ secrets \in SUBSET Conns
      /\ bound \in [Workers -> Conns \cup {None}]
  BY <1>3 DEF FilesTyped, DiskTypeOK
<1>8. k # 1 => part \in Conns /\ part # "specs"
  BY <1>1, <1>6, PartsAre, PartsNamed
<1>9. k = 1 => part = "specs" BY <1>1, PartsAre
<1>10. /\ got \in Conf
       /\ Piece(got, k) = Content(part)
       /\ \A i \in 1..(k - 1) : Piece(got, i) = Piece(conf, i)
       /\ k = 1 => got.secrets = conf.secrets
       /\ k # 1 => got.secrets = conf.secrets \cup ({part} \cap secrets)
  <2>1. /\ conf.files \in [Conns -> File \cup {None}] /\ conf.secrets \in SUBSET Conns
        /\ conf.bound \in [Workers -> Conns \cup {None}]
    BY <1>5 DEF Conf
  <2>2. CASE k = 1
    <3>1. got = [conf EXCEPT !.bound = bound] BY <1>2, <1>9, <2>2
    <3>2. got \in Conf /\ got.bound = bound /\ got.secrets = conf.secrets BY <1>5, <1>7, <3>1 DEF Conf
    <3>3. Piece(got, k) = Content(part) BY <1>9, <2>2, <3>2, ContentIs DEF Piece
    <3>4. 1..(k - 1) = {} BY <2>2
    <3> QED BY <2>2, <3>2, <3>3, <3>4
  <2>3. CASE k # 1
    <3>1. got = [conf EXCEPT !.files = [conf.files EXCEPT ![part] = files[part]],
                             !.secrets = conf.secrets \cup ({part} \cap secrets)]
      BY <1>2, <1>8, <2>3
    <3>2. PICK fs : fs = [conf.files EXCEPT ![part] = files[part]] OBVIOUS
    <3>3. /\ fs \in [Conns -> File \cup {None}] /\ fs[part] = files[part]
          /\ \A c \in Conns : c # part => fs[c] = conf.files[c]
      BY <1>7, <1>8, <2>1, <2>3, <3>2
    <3>4. PICK ss : ss = conf.secrets \cup ({part} \cap secrets) OBVIOUS
    <3>5. ss \in SUBSET Conns BY <1>7, <2>1, <3>4
    <3>6. got = [conf EXCEPT !.files = fs, !.secrets = ss] BY <3>1, <3>2, <3>4
    <3>7. got \in Conf /\ got.files = fs /\ got.secrets = ss /\ got.bound = conf.bound
      BY <1>5, <3>3, <3>5, <3>6 DEF Conf
    <3>8. Piece(got, k) = Content(part) BY <1>1, <1>8, <2>3, <3>3, <3>7, ContentIs DEF Piece
    <3>9. ASSUME NEW i \in 1..(k - 1) PROVE Piece(got, i) = Piece(conf, i)
      <4>1. CASE i = 1 BY <3>7, <4>1 DEF Piece
      <4>2. CASE i # 1
        <5>1. i \in 2..(N - 1) /\ i \in 1..N /\ i # k BY <1>6, <4>2, PartsAre
        <5>2. Parts[i] \in Conns /\ Parts[i] # part BY <1>1, <1>6, <5>1, PartsAre
        <5>3. fs[Parts[i]] = conf.files[Parts[i]] BY <3>3, <5>2
        <5> QED BY <3>7, <4>2, <5>3 DEF Piece
      <4> QED BY <4>1, <4>2
    <3> QED BY <2>3, <3>4, <3>7, <3>8, <3>9
  <2> QED BY <2>2, <2>3
<1>11. \A i \in 1..N : Parts[i] # part => (Parts[i] \in got.secrets) = (Parts[i] \in conf.secrets)
  BY <1>10
<1>12. k # 1 => (part \in got.secrets) = (part \in secrets)
  <2>1. part \notin conf.secrets BY <1>1, <1>5
  <2>2. k # 1 => got.secrets = conf.secrets \cup ({part} \cap secrets) BY <1>10
  <2> QED BY ONLY <2>1, <2>2
<1>13. /\ r \in RequestRecord /\ r.step = "read" /\ r.at = k + 1 /\ r.fp = fp /\ r.conf = got
  <2>1. req[q] \in RequestRecord BY <1>3 DEF RequestsTyped, RequestRecord
  <2> QED BY <1>1, <1>3, <1>6, <1>10, <2>1 DEF RequestRecord
<1> HIDE DEF r
<1>14. WellStepped(r)
  <2>1. ASSUME NEW i \in (k + 1)..N PROVE Parts[i] \notin got.secrets
    <3>1. i \in 1..N /\ i \in k..N /\ i # k BY <1>6, PartsAre
    <3>2. Parts[i] # part BY <1>1, <1>6, <3>1, PartsAre
    <3> QED BY <1>5, <1>11, <3>1, <3>2
  <2> QED BY <1>5, <1>10, <1>13, <2>1 DEF WellStepped, Judged
<1>15. since' \in [Requests -> [PartNames -> SUBSET Values]] BY <1>3, <1>4 DEF RequestsTyped
<1>16. RequestsTyped' /\ Others(q) /\ req'[q] = r BY <1>3, <1>4, <1>13, <1>14, <1>15, Moves
<1>17. Meets(q) BY <1>13, <1>16 DEF Meets
<1>18. Sure(fp, conf, k - 1) /\ Current(q, conf, k - 1) BY <1>1, <1>3 DEF ConnInv, ReadersAreSure
<1>19. \A p \in PartNames : Content(p) \in since[q][p] BY <1>3 DEF ConnInv, PresentIsSince, UnderWay
<1>20. part \in PartNames /\ "vault" \in PartNames BY <1>1, <1>6, PartsNamed
<1>21. \A i \in 1..k : i = k \/ i \in 1..(k - 1) BY <1>6, PartsAre
<1>22. \A i \in 1..(k - 1) : Parts[i] # part /\ i \in 1..N BY <1>1, <1>6, PartsAre
<1>23. Agrees(fp, got, k)
  <2> SUFFICES ASSUME NEW i \in 1..k
               PROVE  /\ fp[i] = stamp[Parts[i]] => Piece(got, i) = Content(Parts[i])
                      /\ i # 1 /\ fp[N] = stamp["vault"] =>
                           (Parts[i] \in got.secrets) = (Parts[i] \in secrets)
    BY DEF Agrees
  <2>1. CASE i = k BY <1>1, <1>10, <1>12, <2>1
  <2>2. CASE i \in 1..(k - 1) BY <1>10, <1>11, <1>18, <1>22, <2>2 DEF Sure, Agrees
  <2> QED BY <1>21, <2>1, <2>2
<1>24. Crosses(fp, got, k)
  <2> SUFFICES ASSUME NEW x \in Requests, req[x].step = "stat", NEW i \in 1..k, i < req[x].at,
                      fp[i] = req[x].fp[i]
               PROVE  Piece(got, i) \in since[x][Parts[i]]
    BY DEF Crosses
  <2>1. CASE i = k
    <3>1. Content(part) \in since[x][part] BY <1>20 DEF ConnInv, PresentIsSince, UnderWay
    <3> QED BY <1>1, <1>10, <2>1, <3>1
  <2>2. CASE i \in 1..(k - 1) BY <1>10, <1>18, <2>2 DEF Sure, Crosses
  <2> QED BY <1>21, <2>1, <2>2
<1>25. Current(q, got, k)
  <2> SUFFICES ASSUME NEW i \in 1..k
               PROVE  /\ Piece(got, i) \in since[q][Parts[i]]
                      /\ i # 1 => \E S \in since[q]["vault"] :
                                     (Parts[i] \in S) = (Parts[i] \in got.secrets)
    BY DEF Current
  <2>1. CASE i = k
    <3>1. secrets \in since[q]["vault"] BY <1>19, <1>20, ContentIs
    <3>2. Piece(got, i) \in since[q][Parts[i]] BY <1>1, <1>10, <1>19, <1>20, <2>1
    <3> QED BY <1>1, <1>12, <2>1, <3>1, <3>2
  <2>2. CASE i \in 1..(k - 1)
    <3>1. /\ Piece(conf, i) \in since[q][Parts[i]]
          /\ i # 1 => \E S \in since[q]["vault"] : (Parts[i] \in S) = (Parts[i] \in conf.secrets)
      BY <1>18, <2>2 DEF Current
    <3>2. (Parts[i] \in got.secrets) = (Parts[i] \in conf.secrets) BY <1>11, <1>22, <2>2
    <3> QED BY <1>10, <2>2, <3>1, <3>2
  <2> QED BY <1>21, <2>1, <2>2
<1>26. RequestOK(q)'
  <2>1. Sure(fp, got, k) BY <1>18, <1>23, <1>24 DEF Sure
  <2>2. Sure(fp, got, k)' BY <1>4, <1>5, <1>6, <1>10, <1>16, <1>17, <2>1, SureHere, PartsAre
  <2>3. Current(q, got, k)' BY <1>4, <1>25 DEF Current, Piece
  <2>4. req'[q].fp = fp /\ req'[q].conf = got /\ req'[q].at - 1 = k /\ req'[q].step = "read"
    BY <1>6, <1>13, <1>16, PartsAre
  <2>5. Sure(req[q].fp, req[q].conf, req[q].at - 1)' /\ Current(q, req[q].conf, req[q].at - 1)'
    BY <2>2, <2>3, <2>4
  <2>6. \A p : Content(p)' = Content(p) BY <1>4 DEF Content, Quiet
  <2>7. \A p \in PartNames : Content(p)' \in since'[q][p] BY <1>4, <1>19, <2>6
  <2> QED BY <2>4, <2>5, <2>7 DEF RequestOK, Judged
<1> QED BY <1>4, <1>16, <1>17, <1>26, RequestKeeps

LEMMA LoadedKeeps == ASSUME ConnInv, NEW q \in Requests, Loaded(q) PROVE ConnInv'
<1>1. PICK fp, conf : fp = req[q].fp /\ conf = req[q].conf OBVIOUS
<1>2. RequestsTyped /\ FilesTyped /\ req[q].step = "read" /\ Parts[req[q].at] = "vault"
  BY DEF ConnInv, Loaded
<1>3. fp \in Seq(Nat) /\ Len(fp) = N /\ conf \in Conf /\ req[q].at \in 1..N BY <1>1, <1>2, RequestIs
<1>4. req[q].at = N BY <1>2, <1>3, PartsAre
<1>5. Sure(fp, conf, N - 1) /\ Current(q, conf, N - 1) BY <1>1, <1>2, <1>4 DEF ConnInv, ReadersAreSure
<1>6. UNCHANGED Reader /\ since' = since /\ Quiet BY DEF Loaded, Quiet, Reader, disk
<1>7. since' \in [Requests -> [PartNames -> SUBSET Values]] BY <1>2, <1>6 DEF RequestsTyped
<1>8. req[q] \in RequestRecord /\ 1 \in 1..N BY <1>2, PartsAre DEF RequestsTyped, RequestRecord
<1>9. CASE /\ cache' = [fp |-> fp, conf |-> conf]
           /\ req' = [req EXCEPT ![q] = [req[q] EXCEPT !.step = "judge", !.at = 1]]
  <2> DEFINE r == [req[q] EXCEPT !.step = "judge", !.at = 1]
  <2>1. r \in RequestRecord /\ r.step = "judge" /\ r.conf = conf
    BY <1>1, <1>8 DEF RequestRecord, ReqSteps, Judged
  <2>2. req' = [req EXCEPT ![q] = r] BY <1>9
  <2> HIDE DEF r
  <2>3. WellStepped(r) BY <1>3, <2>1 DEF WellStepped, Judged
  <2>4. cache' \in [fp : Seq(Nat), conf : Conf] /\ cache'.fp = fp /\ cache'.conf = conf BY <1>3, <1>9
  <2>5. RequestsTyped' /\ Others(q) /\ req'[q] = r
    BY <1>2, <1>3, <1>6, <1>7, <2>1, <2>2, <2>3, <2>4, Moves
  <2>6. Meets(q) BY <2>1, <2>5 DEF Meets
  <2>7. CacheIsSure'
    <3>1. Sure(fp, conf, N - 1)' BY <1>3, <1>5, <1>6, <2>5, <2>6, SureHere, PartsAre
    <3> QED BY <2>4, <3>1 DEF CacheIsSure
  <2>8. RequestOK(q)'
    <3>1. Current(q, req[q].conf, N - 1)' BY <1>5, <1>6, <2>1, <2>5 DEF Current, Piece
    <3> QED BY <2>1, <2>5, <3>1 DEF RequestOK, Judged, UnderWay
  <2> QED BY <1>6, <2>5, <2>6, <2>7, <2>8, RequestKeeps
<1>10. CASE cache' = cache /\ req' = [req EXCEPT ![q] = [req[q] EXCEPT !.step = "refused", !.at = 1]]
  <2> DEFINE r == [req[q] EXCEPT !.step = "refused", !.at = 1]
  <2>1. r \in RequestRecord /\ r.step = "refused" BY <1>8 DEF RequestRecord, ReqSteps
  <2>2. req' = [req EXCEPT ![q] = r] BY <1>10
  <2> HIDE DEF r
  <2>3. WellStepped(r) BY <2>1 DEF WellStepped, Judged
  <2>4. RequestsTyped' /\ Others(q) /\ req'[q] = r
    BY <1>2, <1>6, <1>7, <1>10, <2>1, <2>2, <2>3, Moves
  <2>5. Meets(q) BY <2>1, <2>4 DEF Meets
  <2>6. RequestOK(q)' BY <2>1, <2>4 DEF RequestOK, Judged, UnderWay
  <2> QED BY <1>6, <1>10, <2>4, <2>5, <2>6, RequestKeeps
<1>11. \/ /\ cache' = [fp |-> fp, conf |-> conf]
          /\ req' = [req EXCEPT ![q] = [req[q] EXCEPT !.step = "judge", !.at = 1]]
       \/ cache' = cache /\ req' = [req EXCEPT ![q] = [req[q] EXCEPT !.step = "refused", !.at = 1]]
  BY <1>1 DEF Loaded, Key
<1> QED BY <1>9, <1>10, <1>11

LEMMA InitConn == ConnInit => ConnInv
<1> SUFFICES ASSUME ConnInit PROVE ConnInv
  OBVIOUS
<1>1. FilesTyped BY InitFiles
<1>2. /\ stamp = [p \in PartNames |-> 0] /\ cache = None /\ req = [q \in Requests |-> Asking]
      /\ since = [q \in Requests |-> [p \in PartNames |-> {}]]
  BY DEF ConnInit, PartNames
<1>3. \A q \in Requests : req[q] = Asking BY <1>2
<1>4. Asking \in RequestRecord /\ Asking.step = "idle" /\ Asking.at = 1 /\ Asking.fp = <<>>
  BY PartsAre, EmptySeq DEF Asking, RequestRecord, ReqSteps
<1>5. RequestsTyped
  <2>1. stamp \in [PartNames -> Nat] BY <1>2
  <2>2. since \in [Requests -> [PartNames -> SUBSET Values]] BY <1>2
  <2>3. req \in [Requests -> RequestRecord] BY <1>2, <1>4
  <2> QED BY <1>2, <1>3, <1>4, <2>1, <2>2, <2>3 DEF RequestsTyped, RequestRecord, Judged
<1>6. \A q \in Requests : RequestOK(q) BY <1>3, <1>4 DEF RequestOK, UnderWay, Judged
<1>7. CacheIsSure BY <1>2 DEF CacheIsSure
<1> QED BY <1>1, <1>5, <1>6, <1>7, ByRequest

LEMMA ConnStays == ConnInv /\ [ConnNext]_connVars => ConnInv'
<1> SUFFICES ASSUME ConnInv, [ConnNext]_connVars PROVE ConnInv'
  OBVIOUS
<1>1. FilesTyped' BY FilesStayTyped DEF ConnInv
<1>2. ASSUME UNCHANGED <<disk, since, req, cache>> PROVE ConnInv'
  <2>1. \A p : Content(p)' = Content(p) BY <1>2 DEF Content, disk
  <2>2. \A fp, conf, n : Sure(fp, conf, n)' <=> Sure(fp, conf, n)
    BY <1>2, <2>1 DEF Sure, Past, Agrees, Crosses, Piece, disk
  <2>3. \A q, conf, n : Current(q, conf, n)' <=> Current(q, conf, n)
    BY <1>2 DEF Current, Piece
  <2>4. RequestsTyped' BY <1>2 DEF ConnInv, RequestsTyped, disk
  <2>5. PresentIsSince' BY <1>2, <2>1 DEF ConnInv, PresentIsSince, UnderWay
  <2>6. StatsArePast' BY <1>2 DEF ConnInv, StatsArePast, Past, disk
  <2>7. CacheIsSure' BY <1>2, <2>2 DEF ConnInv, CacheIsSure
  <2>8. ReadersAreSure' BY <1>2, <2>2, <2>3 DEF ConnInv, ReadersAreSure
  <2>9. JudgedAreCurrent' BY <1>2, <2>3 DEF ConnInv, JudgedAreCurrent
  <2> QED BY <1>1, <2>4, <2>5, <2>6, <2>7, <2>8, <2>9 DEF ConnInv
<1>3. ASSUME NEW p \in Clis, Command(p) PROVE ConnInv'
  <2>1. req' = req /\ cache' = cache /\ (KeepDisk \/ \E part \in PartNames : \E new : Changed(part, new))
    BY <1>3, CommandChange DEF ConnInv
  <2>2. CASE KeepDisk BY <1>2, <2>1, <2>2 DEF KeepDisk
  <2>3. ASSUME NEW part \in PartNames, NEW new, Changed(part, new) PROVE ConnInv'
    BY <1>1, <2>1, <2>3, ChangeKeeps
  <2> QED BY <2>1, <2>2, <2>3
<1>4. ASSUME NEW q \in Requests, Request(q) PROVE ConnInv'
  BY <1>4, BeginKeeps, StatKeeps, ReadKeeps, LoadedKeeps, JudgeKeeps DEF Request
<1>5. UNCHANGED connVars => ConnInv' BY <1>2 DEF connVars
<1> QED BY <1>3, <1>4, <1>5 DEF ConnNext

LEMMA ConnInvDecides == ConnInv => DecisionsAreCurrent
<1> SUFFICES ASSUME ConnInv, NEW q \in Requests, req[q].step \in Judged
             PROVE  /\ req[q].conf.bound \in since[q]["specs"]
                    /\ \A c \in Conns : /\ req[q].conf.files[c] \in since[q][c]
                                        /\ \E S \in since[q]["vault"] :
                                             (c \in S) = (c \in req[q].conf.secrets)
  BY DEF DecisionsAreCurrent, Judged
<1>1. PICK conf : conf = req[q].conf OBVIOUS
<1>2. Current(q, conf, N - 1) BY <1>1 DEF ConnInv, JudgedAreCurrent
<1>3. 1 \in 1..(N - 1) /\ \A i \in 2..(N - 1) : i \in 1..(N - 1) /\ i # 1 BY PartsAre
<1>4. conf.bound \in since[q]["specs"] BY <1>2, <1>3, PartsAre DEF Current, Piece
<1>5. ASSUME NEW c \in Conns
      PROVE  /\ conf.files[c] \in since[q][c]
             /\ \E S \in since[q]["vault"] : (c \in S) = (c \in conf.secrets)
  <2>1. PICK i \in 2..(N - 1) : Parts[i] = c BY PartsNamed
  <2> QED BY <1>2, <1>3, <2>1 DEF Current, Piece
<1> QED BY <1>1, <1>4, <1>5

(* No part of the configuration a request is judged by is older than the       *)
(* request: neither its own load, nor one the cache holds because its          *)
(* fingerprint is the request's, mixes in what was overwritten before it       *)
(* began, for any number of connections, commands and requests (config.rs      *)
(* snapshot, fingerprint, load).                                                *)
THEOREM DecisionsStayCurrent == ConnInit /\ [][ConnNext]_connVars => []DecisionsAreCurrent
<1>1. ConnInit => ConnInv BY InitConn
<1>2. ConnInv /\ [ConnNext]_connVars => ConnInv' BY ConnStays
<1>3. ConnInv => DecisionsAreCurrent BY ConnInvDecides
<1> QED BY <1>1, <1>2, <1>3, PTL

-----------------------------------------------------------------------------
(* Induction, as the search for a smallest counterexample. *)

\* A set of numbers that is not empty has a least one.
LEMMA Least ==
  ASSUME NEW T, T \subseteq Nat, T # {}
  PROVE  \E x \in T : \A y \in T : x <= y
<1>1. IsWellFoundedOn(OpToRel(<, Nat), Nat)
  BY NatLessThanWellFounded
<1>2. PICK x \in T : \A y \in T : ~ (<<y, x>> \in OpToRel(<, Nat))
  BY <1>1, WFMin
<1>3. \A x1, y \in Nat : x1 < y => <<x1, y>> \in OpToRel(<, Nat)
  BY Zenon DEF OpToRel
<1>4. \A y \in T : ~ (y < x)
  BY <1>2, <1>3
<1>. QED BY <1>4

\* A family of finite sets that is not empty has a smallest member.
LEMMA Smallest ==
  ASSUME NEW F, F # {}, \A S \in F : IsFiniteSet(S)
  PROVE  \E S \in F : \A T \in F : Cardinality(S) <= Cardinality(T)
<1>1. \A S \in F : Cardinality(S) \in Nat
  BY FS_CardinalityType
<1>. DEFINE counts == {Cardinality(S) : S \in F}
<1>2. counts \subseteq Nat /\ counts # {}
  BY <1>1
<1>3. PICK n \in counts : \A m \in counts : n <= m
  BY <1>2, Least
<1>4. PICK S \in F : Cardinality(S) = n
  BY <1>3
<1>. QED BY <1>3, <1>4

\* A bounded set of numbers that is not empty has a greatest one, which is its Max.
LEMMA Greatest ==
  ASSUME NEW n \in Nat, NEW S \in SUBSET (0..n), S # {}
  PROVE  Max(S) \in S /\ \A x \in S : x <= Max(S)
<1>. DEFINE T == {n - x : x \in S}
<1>1. T \subseteq Nat /\ T # {}
  <2>1. PICK x \in S : TRUE
    OBVIOUS
  <2>2. n - x \in T
    OBVIOUS
  <2>. QED BY <2>2
<1>2. \E y \in T : \A z \in T : y <= z
  <2>. HIDE DEF T
  <2>1. IsWellFoundedOn(OpToRel(<, Nat), Nat)
    BY NatLessThanWellFounded
  <2>2. PICK y \in T : \A z \in T : ~ (<<z, y>> \in OpToRel(<, Nat))
    BY <1>1, <2>1, WFMin
  <2>3. \A y1, z1 \in Nat : z1 < y1 => <<z1, y1>> \in OpToRel(<, Nat)
    BY Zenon DEF OpToRel
  <2>4. \A z \in T : ~ (z < y)
    BY <1>1, <2>2, <2>3
  <2>. QED BY <1>1, <2>4
<1>3. PICK x \in S : \A z \in S : n - x <= n - z
  BY <1>2
<1>4. \A z \in S : x >= z
  BY <1>3
<1>5. Max(S) \in S /\ \A z \in S : Max(S) >= z
  BY <1>4 DEF Max
<1>. QED BY <1>5

-----------------------------------------------------------------------------
(* Sums: a fold takes the elements in an order it chooses; what it returns
   does not depend on it.                                                     *)

\* The element it takes next.
One(S) == CHOOSE x \in S : TRUE

\* It is one of them.
LEMMA OneIn ==
  ASSUME NEW S, S # {}
  PROVE  One(S) \in S
BY DEF One

\* g is the iteration of the sum over the subsets of S.
Iterates(g, f, S) ==
  g = [s \in SUBSET S |-> IF s = {} THEN 0 ELSE f[One(s)] + g[s \ {One(s)}]]

\* The sum of f over S is the iteration, at the whole set.
SumOf(f, S) == (CHOOSE g : Iterates(g, f, S))[S]

\* One element less is a smaller set.
LEMMA Smaller ==
  ASSUME NEW S, IsFiniteSet(S), NEW x \in S
  PROVE  IsFiniteSet(S \ {x}) /\ Cardinality(S \ {x}) < Cardinality(S)
<1>1. Cardinality(S) \in Nat
  BY FS_CardinalityType
<1>2. IsFiniteSet(S \ {x}) /\ Cardinality(S \ {x}) = Cardinality(S) - 1
  BY FS_RemoveElement
<1>. QED BY <1>1, <1>2

\* Iterations over two sets agree on the finite subsets of both where the summed
\* functions do.
LEMMA IterationsAgree ==
  ASSUME NEW f, NEW e, NEW S, NEW T, NEW g, NEW h, Iterates(g, f, S), Iterates(h, e, T),
         NEW u, u \subseteq S, u \subseteq T, IsFiniteSet(u), \A x \in u : f[x] = e[x]
  PROVE  g[u] = h[u]
<1>. DEFINE F == {s \in SUBSET u : g[s] # h[s]}
<1>1. SUFFICES ASSUME F # {} PROVE FALSE
  OBVIOUS
<1>2. \A s \in F : IsFiniteSet(s)
  BY FS_Subset
<1>3. PICK s \in F : \A t \in F : Cardinality(s) <= Cardinality(t)
  BY <1>1, <1>2, Smallest
<1>4. s # {}
  BY <1>3 DEF Iterates
<1>. DEFINE t == s \ {One(s)}
<1>5. IsFiniteSet(t) /\ Cardinality(t) < Cardinality(s)
  BY <1>2, <1>3, <1>4, OneIn, Smaller
<1>6. Cardinality(t) \in Nat /\ Cardinality(s) \in Nat
  BY <1>2, <1>3, <1>5, FS_CardinalityType
<1>7. t \notin F
  BY <1>3, <1>5, <1>6
<1>8. g[t] = h[t]
  BY <1>7
<1>9. g[s] = f[One(s)] + g[t] /\ h[s] = e[One(s)] + h[t]
  BY <1>4 DEF Iterates
<1>10. f[One(s)] = e[One(s)]
  BY <1>3, <1>4, OneIn
<1>. QED BY <1>8, <1>9, <1>10, <1>3

\* A finite set has an iteration.
LEMMA IterationExists ==
  ASSUME NEW f, NEW S, IsFiniteSet(S)
  PROVE  \E g : Iterates(g, f, S)
<1>. DEFINE F == {s \in SUBSET S : ~ \E g : Iterates(g, f, s)}
<1>1. SUFFICES ASSUME F # {} PROVE FALSE
  OBVIOUS
<1>2. \A s \in F : IsFiniteSet(s)
  BY FS_Subset
<1>3. PICK s \in F : \A t \in F : Cardinality(s) <= Cardinality(t)
  BY <1>1, <1>2, Smallest
<1>. DEFINE val(t) == (CHOOSE g : Iterates(g, f, t))[t]
            g == [t \in SUBSET s |-> IF t = {} THEN 0
                                     ELSE f[One(t)] + val(t \ {One(t)})]
<1>4. ASSUME NEW t \in SUBSET s, t # s
      PROVE  Iterates(CHOOSE h : Iterates(h, f, t), f, t)
  <2>1. t \notin F
    <3>1. IsFiniteSet(s) BY <1>2
    <3>2. IsFiniteSet(t) /\ Cardinality(t) < Cardinality(s)
      <4>1. IsFiniteSet(t)
        BY <3>1, <1>4, FS_Subset
      <4>. QED BY <3>1, <4>1, <1>4, FS_Subset, FS_CardinalityType
    <3>3. Cardinality(t) \in Nat /\ Cardinality(s) \in Nat
      BY <3>1, <3>2, FS_CardinalityType
    <3>. QED BY <3>2, <3>3, <1>3
  <2>2. \E h : Iterates(h, f, t)
    BY <2>1
  <2>. QED BY <2>2
<1>5. ASSUME NEW t \in SUBSET s, t # s
      PROVE  val(t) = g[t]
  <2>1. CASE t = {}
    <3>. DEFINE h == CHOOSE k : Iterates(k, f, t)
    <3>1. Iterates(h, f, t)
      BY <1>4, <1>5
    <3>. HIDE DEF h
    <3>2. h[t] = 0
      BY <3>1, <2>1 DEF Iterates
    <3>3. val(t) = h[t]
      BY DEF h
    <3>4. g[t] = 0
      BY <2>1, <1>5
    <3>. HIDE DEF val, g
    <3>. QED BY <3>2, <3>3, <3>4
  <2>2. CASE t # {}
    <3>. DEFINE v == t \ {One(t)}
                h == CHOOSE k : Iterates(k, f, t)
                w == CHOOSE k : Iterates(k, f, v)
    <3>1. One(t) \in t BY <2>2, OneIn
    <3>2. v \in SUBSET s /\ v # s /\ v \subseteq t
      BY <3>1
    <3>3. Iterates(h, f, t) /\ Iterates(w, f, v)
      BY <3>2, <1>4, <1>5
    <3>4. IsFiniteSet(v)
      BY <3>2, <1>2, FS_Subset
    <3>. HIDE DEF v, h, w
    <3>5. h[v] = w[v]
      BY <3>2, <3>3, <3>4, IterationsAgree
    <3>6. h[t] = f[One(t)] + h[t \ {One(t)}]
      BY <3>3, <2>2 DEF Iterates
    <3>. QED BY <3>5, <3>6, <2>2 DEF v, h, w
  <2>. QED BY <2>1, <2>2
<1>6. Iterates(g, f, s)
  <2>1. ASSUME NEW t \in SUBSET s, t # {}
        PROVE  val(t \ {One(t)}) = g[t \ {One(t)}]
    <3>1. One(t) \in t BY <2>1, OneIn
    <3>. HIDE DEF val, g
    <3>. QED BY <3>1, <1>5
  <2>. HIDE DEF val
  <2>. QED BY <2>1 DEF Iterates
<1>. QED BY <1>6

\* The chosen one is one.
LEMMA Iteration ==
  ASSUME NEW f, NEW S, IsFiniteSet(S)
  PROVE  Iterates(CHOOSE g : Iterates(g, f, S), f, S)
BY IterationExists

\* A sum over nothing is 0.
LEMMA SumEmpty ==
  ASSUME NEW f
  PROVE  SumOf(f, {}) = 0
BY Iteration, FS_EmptySet DEF Iterates, SumOf

\* Functions that agree on a set have the same sum over it.
LEMMA SumSame ==
  ASSUME NEW f, NEW e, NEW S, IsFiniteSet(S), \A x \in S : f[x] = e[x]
  PROVE  SumOf(f, S) = SumOf(e, S)
BY Iteration, IterationsAgree DEF SumOf

\* The defining equation of the sum.
LEMMA SumOne ==
  ASSUME NEW f, NEW S, IsFiniteSet(S), S # {}
  PROVE  SumOf(f, S) = f[One(S)] + SumOf(f, S \ {One(S)})
<1>. DEFINE T == S \ {One(S)}
            g == CHOOSE k : Iterates(k, f, S)
            h == CHOOSE k : Iterates(k, f, T)
<1>1. IsFiniteSet(T)
  BY FS_Subset
<1>2. Iterates(g, f, S) /\ Iterates(h, f, T)
  BY <1>1, Iteration
<1>3. SumOf(f, S) = g[S] /\ SumOf(f, T) = h[T]
  BY DEF SumOf
<1>. HIDE DEF g, h
<1>4. g[T] = h[T]
  BY <1>1, <1>2, IterationsAgree
<1>5. g[S] = f[One(S)] + g[T]
  BY <1>2 DEF Iterates
<1>. QED BY <1>3, <1>4, <1>5
\* A sum of numbers is a number.
LEMMA SumNat ==
  ASSUME NEW f, NEW S, IsFiniteSet(S), \A x \in S : f[x] \in Nat
  PROVE  SumOf(f, S) \in Nat
<1>. DEFINE F == {s \in SUBSET S : SumOf(f, s) \notin Nat}
<1>1. SUFFICES ASSUME F # {} PROVE FALSE
  OBVIOUS
<1>2. \A s \in F : IsFiniteSet(s)
  BY FS_Subset
<1>3. PICK s \in F : \A t \in F : Cardinality(s) <= Cardinality(t)
  BY <1>1, <1>2, Smallest
<1>4. s # {}
  BY <1>3, SumEmpty
<1>. DEFINE t == s \ {One(s)}
<1>5. One(s) \in s
  BY <1>4, OneIn
<1>6. IsFiniteSet(t) /\ Cardinality(t) < Cardinality(s)
  BY <1>2, <1>5, Smaller
<1>7. Cardinality(t) \in Nat /\ Cardinality(s) \in Nat
  BY <1>2, <1>6, FS_CardinalityType
<1>8. t \notin F
  BY <1>3, <1>6, <1>7
<1>9. SumOf(f, t) \in Nat
  BY <1>8
<1>10. f[One(s)] \in Nat
  BY <1>3, <1>5
<1>11. SumOf(f, s) = f[One(s)] + SumOf(f, t)
  BY <1>2, <1>4, SumOne
<1>. QED BY <1>9, <1>10, <1>11, <1>3

\* Whichever element is taken out, the sum of the others and it is the sum.
LEMMA SumRemove ==
  ASSUME NEW f, NEW S, IsFiniteSet(S), \A x \in S : f[x] \in Nat, NEW x \in S
  PROVE  SumOf(f, S) = f[x] + SumOf(f, S \ {x})
<1>. DEFINE F == {s \in SUBSET S :
                    \E e \in s : SumOf(f, s) # f[e] + SumOf(f, s \ {e})}
<1>1. SUFFICES ASSUME F # {} PROVE FALSE
  <2>. HIDE DEF F
  <2>1. S \notin F
    BY <1>1
  <2>. QED BY <2>1 DEF F
<1>2. \A s \in F : IsFiniteSet(s)
  BY FS_Subset
<1>3. PICK s \in F : \A t \in F : Cardinality(s) <= Cardinality(t)
  BY <1>1, <1>2, Smallest
<1>4. PICK e \in s : SumOf(f, s) # f[e] + SumOf(f, s \ {e})
  BY <1>3
<1>. DEFINE c == One(s)
            t == s \ {c}
            r == s \ {e}
            m == t \ {e}
<1>5. c \in s
  BY <1>4, OneIn
<1>6. SumOf(f, s) = f[c] + SumOf(f, t)
  BY <1>2, <1>3, <1>4, SumOne
<1>7. c # e
  BY <1>6, <1>4
<1>8. IsFiniteSet(s) /\ IsFiniteSet(t) /\ IsFiniteSet(r) /\ IsFiniteSet(m)
  BY <1>2, <1>3, FS_Subset
<1>9. Cardinality(t) < Cardinality(s) /\ Cardinality(r) < Cardinality(s)
  BY <1>8, <1>4, <1>5, Smaller
<1>10. Cardinality(t) \in Nat /\ Cardinality(s) \in Nat /\ Cardinality(r) \in Nat
  BY <1>8, FS_CardinalityType
<1>11. t \notin F /\ r \notin F
  <2>. HIDE DEF F, t, r
  <2>. QED BY <1>3, <1>9, <1>10
<1>12. SumOf(f, t) = f[e] + SumOf(f, t \ {e})
  BY <1>11, <1>7, <1>4, <1>3
<1>13. SumOf(f, r) = f[c] + SumOf(f, r \ {c})
  BY <1>11, <1>7, <1>5, <1>3
<1>14. r \ {c} = m
  OBVIOUS
<1>15. f[c] \in Nat /\ f[e] \in Nat
  BY <1>4, <1>5, <1>3
<1>16. SumOf(f, m) \in Nat
  BY <1>8, <1>3, SumNat
<1>. HIDE DEF c, t, r, m, F
<1>17. SumOf(f, s) = f[e] + SumOf(f, r)
  <2>1. SumOf(f, s) = f[c] + (f[e] + SumOf(f, m))
    BY <1>6, <1>12 DEF m
  <2>2. SumOf(f, r) = f[c] + SumOf(f, m)
    BY <1>13, <1>14
  <2>. QED BY <2>1, <2>2, <1>15, <1>16
<1>. QED BY <1>4, <1>17 DEF r

\* A larger set has no smaller sum.
LEMMA SumMono ==
  ASSUME NEW f, NEW T, IsFiniteSet(T), \A x \in T : f[x] \in Nat, NEW S \in SUBSET T
  PROVE  SumOf(f, S) <= SumOf(f, T)
<1>. DEFINE F == {s \in SUBSET T : S \subseteq s /\ ~ (SumOf(f, S) <= SumOf(f, s))}
<1>1. SUFFICES ASSUME F # {} PROVE FALSE
  <2>. HIDE DEF F
  <2>1. T \notin F
    BY <1>1
  <2>. QED BY <2>1 DEF F
<1>2. \A s \in F : IsFiniteSet(s)
  BY FS_Subset
<1>3. PICK s \in F : \A t \in F : Cardinality(s) <= Cardinality(t)
  BY <1>1, <1>2, Smallest
<1>4. SumOf(f, S) \in Nat
  BY SumNat, FS_Subset
<1>5. PICK x \in s : x \notin S
  BY <1>3, <1>4
<1>. DEFINE t == s \ {x}
<1>6. IsFiniteSet(s) /\ IsFiniteSet(t) /\ Cardinality(t) < Cardinality(s)
  BY <1>2, <1>3, <1>5, Smaller
<1>7. Cardinality(t) \in Nat /\ Cardinality(s) \in Nat
  BY <1>6, FS_CardinalityType
<1>8. SumOf(f, S) <= SumOf(f, t)
  BY <1>3, <1>5, <1>6, <1>7
<1>9. SumOf(f, s) = f[x] + SumOf(f, t)
  BY <1>3, <1>5, <1>6, SumRemove
<1>10. f[x] \in Nat /\ SumOf(f, t) \in Nat
  <2>1. x \in T
    BY <1>3, <1>5
  <2>. QED BY <2>1, <1>3, <1>6, SumNat
<1>11. SumOf(f, S) <= SumOf(f, s)
  <2>. HIDE DEF t
  <2>. QED BY <1>4, <1>8, <1>9, <1>10
<1>. QED BY <1>3, <1>11

-----------------------------------------------------------------------------
(* The budget: SpentBy is a sum *)

Drawn(l) == [c \in Calls |-> Draw[c][l]]

\* What calls draw from a limit is a number.
LEMMA DrawnNat ==
  ASSUME NEW l \in Limits
  PROVE  \A c \in Calls : Drawn(l)[c] = Draw[c][l] /\ Draw[c][l] \in Nat
BY LedgerAssumption DEF Drawn

\* What calls spend is the sum of what they draw.
LEMMA SpentIsSum ==
  ASSUME NEW l \in Limits, NEW S, IsFiniteSet(S), S \subseteq Calls
  PROVE  SpentBy(l, S) = SumOf(Drawn(l), S)
<1>. DEFINE J(g) == g = [s \in SUBSET S |-> IF s = {} THEN 0 ELSE Draw[One(s)][l] + g[s \ {One(s)}]]
            h == CHOOSE g : J(g)
            k == CHOOSE g : Iterates(g, Drawn(l), S)
<1>1. SpentBy(l, S) = h[S]
  BY DEF SpentBy, MapThenSumSet, MapThenFoldSet, One
<1>2. \A s \in SUBSET S : s # {} => Drawn(l)[One(s)] = Draw[One(s)][l]
  BY OneIn, DrawnNat
<1>3. ASSUME NEW g, J(g) PROVE Iterates(g, Drawn(l), S)
  <2>. HIDE DEF Drawn, One
  <2>. QED BY <1>2, <1>3 DEF Iterates
<1>4. ASSUME NEW g, Iterates(g, Drawn(l), S) PROVE J(g)
  BY <1>2, <1>4 DEF Iterates
<1>5. Iterates(k, Drawn(l), S)
  BY Iteration
<1>. HIDE DEF k
<1>6. J(k)
  BY <1>4, <1>5
<1>7. J(h)
  <2>. HIDE DEF J
  <2>. QED BY <1>6
<1>. HIDE DEF h
<1>8. Iterates(h, Drawn(l), S)
  BY <1>3, <1>7
<1>. HIDE DEF J
<1>9. h[S] = k[S]
  BY <1>5, <1>8, IterationsAgree
<1>. QED BY <1>1, <1>9 DEF SumOf, k

\* Nobody spends nothing.
LEMMA SpentEmpty ==
  ASSUME NEW l \in Limits
  PROVE  SpentBy(l, {}) = 0
BY SpentIsSum, SumEmpty, FS_EmptySet

\* What calls spend is a number.
LEMMA SpentNat ==
  ASSUME NEW l \in Limits, NEW S, IsFiniteSet(S), S \subseteq Calls
  PROVE  SpentBy(l, S) \in Nat
<1>1. \A x \in S : Drawn(l)[x] \in Nat
  BY DrawnNat
<1>. QED BY <1>1, SpentIsSum, SumNat

\* Any of the calls may be taken out, the same is left of the sum.
LEMMA SpentRemove ==
  ASSUME NEW l \in Limits, NEW S, IsFiniteSet(S), S \subseteq Calls, NEW x \in S
  PROVE  SpentBy(l, S) = Draw[x][l] + SpentBy(l, S \ {x})
<1>1. \A y \in S : Drawn(l)[y] \in Nat
  BY DrawnNat
<1>2. IsFiniteSet(S \ {x}) /\ S \ {x} \subseteq Calls
  BY Smaller
<1>3. SumOf(Drawn(l), S) = Drawn(l)[x] + SumOf(Drawn(l), S \ {x})
  BY <1>1, SumRemove
<1>4. Drawn(l)[x] = Draw[x][l]
  BY DrawnNat
<1>. QED BY <1>2, <1>3, <1>4, SpentIsSum

\* More calls spend no less.
LEMMA SpentMono ==
  ASSUME NEW l \in Limits, NEW T, IsFiniteSet(T), T \subseteq Calls, NEW S \in SUBSET T
  PROVE  SpentBy(l, S) <= SpentBy(l, T)
<1>1. \A y \in T : Drawn(l)[y] \in Nat
  BY DrawnNat
<1>2. IsFiniteSet(S) /\ S \subseteq Calls
  BY FS_Subset
<1>3. SumOf(Drawn(l), S) <= SumOf(Drawn(l), T)
  BY <1>1, SumMono
<1>. QED BY <1>2, <1>3, SpentIsSum

\* Calls that draw nothing from a limit add nothing to its spend.
LEMMA SpentCovering ==
  ASSUME NEW l \in Limits, NEW S, IsFiniteSet(S), S \subseteq Calls
  PROVE  SpentBy(l, S) = SpentBy(l, {c \in S : Covers(c, l)})
<1>. DEFINE Drawing(s) == {c \in s : Covers(c, l)}
            F == {s \in SUBSET S : SpentBy(l, s) # SpentBy(l, Drawing(s))}
<1>1. SUFFICES ASSUME F # {} PROVE FALSE
  <2>. HIDE DEF F
  <2>1. S \notin F
    BY <1>1
  <2>. QED BY <2>1 DEF F
<1>2. \A s \in F : IsFiniteSet(s)
  BY FS_Subset
<1>3. PICK s \in F : \A t \in F : Cardinality(s) <= Cardinality(t)
  BY <1>1, <1>2, Smallest
<1>4. PICK x \in s : ~ Covers(x, l)
  <2>1. Drawing(s) # s
    BY <1>3
  <2>. QED BY <2>1
<1>. DEFINE t == s \ {x}
<1>5. IsFiniteSet(s) /\ IsFiniteSet(t) /\ Cardinality(t) < Cardinality(s)
  BY <1>2, <1>3, <1>4, Smaller
<1>6. Cardinality(t) \in Nat /\ Cardinality(s) \in Nat
  BY <1>5, FS_CardinalityType
<1>7. SpentBy(l, t) = SpentBy(l, Drawing(t))
  BY <1>3, <1>4, <1>5, <1>6
<1>8. Drawing(t) = Drawing(s)
  BY <1>4
<1>9. SpentBy(l, s) = Draw[x][l] + SpentBy(l, t)
  BY <1>3, <1>4, <1>5, SpentRemove
<1>10. Draw[x][l] = 0 /\ SpentBy(l, t) \in Nat
  <2>1. x \in Calls
    BY <1>3, <1>4
  <2>2. Draw[x][l] \in Nat
    BY <2>1, LedgerAssumption
  <2>. QED BY <1>3, <1>4, <2>2, <1>5, SpentNat DEF Covers
<1>11. SpentBy(l, s) = SpentBy(l, Drawing(s))
  <2>. HIDE DEF t, Drawing
  <2>. QED BY <1>7, <1>8, <1>9, <1>10
<1>. QED BY <1>3, <1>11

\* A window starts no later than any time in it.
LEMMA StartBelow ==
  ASSUME NEW l \in Limits, NEW t \in Nat
  PROVE  Start(l, t) \in Nat /\ Start(l, t) <= t
<1>1. Window[l] \in Nat \ {0}
  BY LedgerAssumption
<1>2. t % Window[l] \in Nat /\ t % Window[l] <= t
  BY <1>1
<1>. QED BY <1>2 DEF Start

\* A window starts at a multiple of its length.
LEMMA WholeWindows ==
  ASSUME NEW w \in Nat, w > 0, NEW t \in Nat
  PROVE  \E q \in Nat : t - (t % w) = w * q
OBVIOUS

\* A later time is in the same window or a later one.
LEMMA StartMonotone ==
  ASSUME NEW l \in Limits, NEW t \in Nat, NEW u \in Nat, t <= u
  PROVE  Start(l, t) <= Start(l, u)
<1>. DEFINE w == Window[l]
<1>1. w \in Nat /\ w > 0
  BY LedgerAssumption
<1>. HIDE DEF w
<1>2. PICK q \in Nat : t - (t % w) = w * q
  BY <1>1, WholeWindows
<1>3. PICK p \in Nat : u - (u % w) = w * p
  BY <1>1, WholeWindows
<1>4. t % w \in Nat /\ u % w \in Nat /\ u % w < w /\ t % w < w
  BY <1>1
<1>5. q <= p
  <2>1. SUFFICES ASSUME p + 1 <= q PROVE FALSE
    BY <1>2, <1>3
  <2>2. w * q >= w * (p + 1)
    BY <2>1, <1>1
  <2>3. w * (p + 1) = w * p + w
    BY <1>1
  <2>. QED BY <1>1, <1>2, <1>3, <1>4, <2>2, <2>3
<1>6. w * q <= w * p
  BY <1>1, <1>5
<1>. QED BY <1>2, <1>3, <1>6 DEF Start, w

-----------------------------------------------------------------------------
(* The budget *)

LedgerSteps == {"new", "metered", "reserved", "forwarded", "refused", "lost"}

LedgerTypeOK ==
  /\ clock \in Nat
  /\ counter \in [Limits -> [start: Nat, used: Nat]]
  /\ step \in [Calls -> LedgerSteps]
  /\ now \in [Calls -> Nat]
  /\ usage \subseteq Calls
  /\ crashes \in Nat

\* Only so many calls were let through, and the file has the forwarded ones.
Recorded ==
  /\ IsFiniteSet(Charged) /\ IsFiniteSet(usage)
  /\ \A c \in Calls : step[c] = "forwarded" => c \in usage

\* A call's time is past, and of the current window until it reserves.
Timely ==
  \A c \in Calls :
    /\ now[c] <= clock
    /\ step[c] = "metered" => \A l \in Limits : Start(l, now[c]) = Start(l, clock)

\* What was let through in the window of l that starts at s.
In(l, s) == {c \in Charged : Covers(c, l) /\ Start(l, now[c]) = s}

(* A counter is of the last window something was let through in, and holds
   what was let through in it.                                               *)
CounterHolds ==
  \A l \in Limits :
    /\ counter[l].start <= Start(l, clock)
    /\ \A c \in Charged : Covers(c, l) => Start(l, now[c]) <= counter[l].start
    /\ SpentBy(l, In(l, counter[l].start)) <= counter[l].used

\* In every window the calls but one are below the cap.
WindowsHold ==
  \A l \in Limits : \A s \in Nat :
    In(l, s) # {} => \E c \in In(l, s) : SpentBy(l, In(l, s) \ {c}) < Cap[l]

LedgerInv == LedgerTypeOK /\ Recorded /\ Timely /\ CounterHolds /\ WindowsHold

\* The invariant holds initially.
LEMMA LedgerStarts == LedgerInit => LedgerInv
<1>. SUFFICES ASSUME LedgerInit PROVE LedgerInv
  OBVIOUS
<1>. USE DEF LedgerInit
<1>1. Charged = {} /\ \A l \in Limits, s \in Nat : In(l, s) = {}
  BY DEF Charged, In
<1>2. LedgerTypeOK
  BY DEF LedgerTypeOK, LedgerSteps
<1>3. Recorded
  BY <1>1, FS_EmptySet DEF Recorded
<1>4. Timely
  BY DEF Timely
<1>5. CounterHolds
  <2>. SUFFICES ASSUME NEW l \in Limits
                PROVE  /\ counter[l].start <= Start(l, clock)
                       /\ SpentBy(l, In(l, counter[l].start)) <= counter[l].used
    BY <1>1 DEF CounterHolds
  <2>1. Start(l, clock) \in Nat
    BY StartBelow
  <2>2. SpentBy(l, In(l, counter[l].start)) = 0
    BY <1>1, SpentEmpty
  <2>. QED BY <2>1, <2>2
<1>6. WindowsHold
  BY <1>1 DEF WindowsHold
<1>. QED BY <1>2, <1>3, <1>4, <1>5, <1>6 DEF LedgerInv

\* What some of a window's calls spend is a number, and at most what they all do.
LEMMA WindowSets ==
  ASSUME LedgerTypeOK, Recorded, NEW l \in Limits, NEW s, NEW S, S \subseteq In(l, s)
  PROVE  /\ IsFiniteSet(S) /\ S \subseteq Calls
         /\ SpentBy(l, S) \in Nat /\ SpentBy(l, S) <= SpentBy(l, In(l, s))
<1>1. In(l, s) \subseteq Calls /\ IsFiniteSet(In(l, s))
  BY FS_Subset DEF In, Charged, Recorded
<1>2. IsFiniteSet(S) /\ S \subseteq Calls
  BY <1>1, FS_Subset
<1>. QED BY <1>1, <1>2, SpentNat, SpentMono

\* Nothing was let through in a window after the counter's.
LEMMA NothingAfter ==
  ASSUME LedgerTypeOK, CounterHolds, NEW l \in Limits, NEW s \in Nat, counter[l].start < s
  PROVE  In(l, s) = {}
<1>. SUFFICES ASSUME NEW c \in In(l, s) PROVE FALSE
  OBVIOUS
<1>1. c \in Charged /\ Covers(c, l) /\ Start(l, now[c]) = s
  BY DEF In
<1>2. s <= counter[l].start
  BY <1>1 DEF CounterHolds
<1>3. counter[l].start \in Nat
  BY DEF LedgerTypeOK
<1>. QED BY <1>2, <1>3

\* Metering keeps it: the call is not charged yet.
LEMMA MeterKeeps ==
  ASSUME LedgerInv, NEW k \in Calls, Meter(k)
  PROVE  LedgerInv'
<1>. USE DEF LedgerInv, Meter
<1>1. Charged' = Charged
  BY DEF Charged, LedgerTypeOK
<1>2. LedgerTypeOK'
  BY DEF LedgerTypeOK, LedgerSteps
<1>3. Recorded'
  BY <1>1 DEF Recorded, LedgerTypeOK
<1>4. Timely'
  BY DEF Timely, LedgerTypeOK, Start
<1>5. \A l \in Limits, s \in Nat : In(l, s)' = In(l, s)
  BY <1>1 DEF In, Charged, Start, LedgerTypeOK
<1>6. CounterHolds'
  <2>. SUFFICES ASSUME NEW l \in Limits
                PROVE  /\ (counter[l].start <= Start(l, clock))'
                       /\ \A c \in Charged' : Covers(c, l) => Start(l, now'[c]) <= (counter[l].start)'
                       /\ (SpentBy(l, In(l, counter[l].start)) <= counter[l].used)'
    BY DEF CounterHolds
  <2>1. \A c \in Charged' : now'[c] = now[c]
    BY <1>1 DEF Charged, LedgerTypeOK
  <2>2. counter[l].start \in Nat
    BY DEF LedgerTypeOK
  <2>3. SpentBy(l, In(l, counter[l].start))' = SpentBy(l, In(l, counter[l].start)')
    OBVIOUS
  <2>. QED BY <1>1, <1>5, <2>1, <2>2, <2>3 DEF CounterHolds, Start
<1>7. WindowsHold'
  BY <1>5 DEF WindowsHold
<1>. QED BY <1>2, <1>3, <1>4, <1>6, <1>7

\* So does forwarding: the call was charged when it reserved.
LEMMA ForwardKeeps ==
  ASSUME LedgerInv, NEW k \in Calls, Forward(k)
  PROVE  LedgerInv'
<1>. USE DEF LedgerInv, Forward
<1>1. Charged' = Charged
  BY DEF Charged, LedgerTypeOK
<1>2. LedgerTypeOK'
  BY DEF LedgerTypeOK, LedgerSteps
<1>3. Recorded'
  <2>1. IsFiniteSet(usage')
    BY FS_AddElement DEF Recorded
  <2>. QED BY <1>1, <2>1 DEF Recorded, LedgerTypeOK
<1>4. Timely'
  BY DEF Timely, LedgerTypeOK, Start
<1>5. \A l \in Limits, s \in Nat : In(l, s)' = In(l, s)
  BY <1>1 DEF In, Charged, Start
<1>6. CounterHolds'
  BY <1>1, <1>5 DEF CounterHolds, Start, LedgerTypeOK
<1>7. WindowsHold'
  BY <1>5 DEF WindowsHold
<1>. QED BY <1>2, <1>3, <1>4, <1>6, <1>7

(* The reserve: a covering counter below its cap covers what was let
   through in its window, so the call is the one that may cross the line. *)
LEMMA ReserveKeeps ==
  ASSUME LedgerInv, NEW k \in Calls, Reserve(k)
  PROVE  LedgerInv'
<1>. USE DEF LedgerInv
<1>0. /\ step[k] = "metered" /\ UNCHANGED <<clock, now, usage, crashes>>
      /\ now[k] \in Nat /\ clock \in Nat
  BY DEF Reserve, LedgerTypeOK
<1>1. CASE Breached(k, now[k])
  <2>0. step' = [step EXCEPT ![k] = "refused"] /\ counter' = counter
    BY <1>1 DEF Reserve
  <2>1. Charged' = Charged
    BY <1>0, <2>0 DEF Charged, LedgerTypeOK
  <2>2. LedgerTypeOK'
    BY <1>0, <2>0 DEF LedgerTypeOK, LedgerSteps
  <2>3. Recorded'
    BY <1>0, <2>0, <2>1 DEF Recorded, LedgerTypeOK
  <2>4. Timely'
    BY <1>0, <2>0 DEF Timely, LedgerTypeOK, Start
  <2>5. \A l \in Limits, s \in Nat : In(l, s)' = In(l, s)
    BY <1>0, <2>1 DEF In, Charged, Start
  <2>6. CounterHolds'
    BY <1>0, <2>0, <2>1, <2>5 DEF CounterHolds, Start, LedgerTypeOK
  <2>7. WindowsHold'
    BY <2>5 DEF WindowsHold
  <2>. QED BY <2>2, <2>3, <2>4, <2>6, <2>7
<1>2. CASE ~ Breached(k, now[k])
  <2>0. step' = [step EXCEPT ![k] = "reserved"] /\ counter' = Committed(k, now[k])
    BY <1>2 DEF Reserve
  <2>1. Charged' = Charged \cup {k} /\ k \notin Charged
    BY <1>0, <2>0 DEF Charged, LedgerTypeOK
  <2>. DEFINE t == now[k]
  <2>2. \A l \in Limits : /\ Start(l, t) = Start(l, clock) /\ Start(l, t) \in Nat
                           /\ counter[l] \in [start: Nat, used: Nat]
                           /\ Used(l, t) \in Nat /\ Draw[k][l] \in Nat /\ Cap[l] \in Nat
    BY <1>0, StartBelow, LedgerAssumption DEF Timely, LedgerTypeOK, Used
  <2>3. LedgerTypeOK'
    <3>1. counter' \in [Limits -> [start: Nat, used: Nat]]
      BY <2>0, <2>2 DEF Committed
    <3>. QED BY <1>0, <2>0, <3>1 DEF LedgerTypeOK, LedgerSteps
  <2>4. Recorded'
    <3>1. IsFiniteSet(Charged')
      BY <2>1, FS_AddElement DEF Recorded
    <3>. QED BY <1>0, <2>0, <3>1 DEF Recorded, LedgerTypeOK
  <2>5. Timely'
    BY <1>0, <2>0 DEF Timely, LedgerTypeOK, Start
  <2>6. \A l \in Limits, s \in Nat :
          In(l, s)' = IF Covers(k, l) /\ s = Start(l, t) THEN In(l, s) \cup {k} ELSE In(l, s)
    BY <1>0, <2>1, <2>2 DEF In, Start, Covers
  <2>7. ASSUME NEW l \in Limits, Covers(k, l)
        PROVE  SpentBy(l, In(l, Start(l, t))) <= Used(l, t)
    <3>1. CASE counter[l].start = Start(l, t)
      BY <3>1 DEF CounterHolds, Used
    <3>2. CASE counter[l].start # Start(l, t)
      <4>1. counter[l].start < Start(l, t)
        BY <3>2, <2>2 DEF CounterHolds
      <4>2. In(l, Start(l, t)) = {}
        BY <4>1, <2>2, NothingAfter
      <4>. QED BY <4>2, <2>2, SpentEmpty
    <3>. QED BY <3>1, <3>2
  <2>8. CounterHolds'
    <3>. SUFFICES ASSUME NEW l \in Limits
                  PROVE  /\ (counter[l].start <= Start(l, clock))'
                         /\ \A c \in Charged' : Covers(c, l) => Start(l, now[c]) <= counter'[l].start
                         /\ SpentBy(l, In(l, counter[l].start)') <= counter'[l].used
      BY <1>0 DEF CounterHolds, Start
    <3>1. CASE Covers(k, l)
      <4>1. counter'[l].start = Start(l, t) /\ counter'[l].used = Used(l, t) + Draw[k][l]
        BY <2>0, <3>1 DEF Committed
      <4>2. \A c \in Charged : Covers(c, l) => Start(l, now[c]) <= Start(l, t)
        <5>1. \A c \in Charged : now[c] \in Nat /\ now[c] <= clock
          BY DEF Charged, Timely, LedgerTypeOK
        <5>. QED BY <1>0, <5>1, <2>2, StartMonotone
      <4>3. In(l, counter[l].start)' = In(l, Start(l, t)) \cup {k}
        BY <4>1, <2>6, <2>2, <3>1
      <4>4. SpentBy(l, In(l, Start(l, t)) \cup {k}) = Draw[k][l] + SpentBy(l, In(l, Start(l, t)))
        <5>. DEFINE S == In(l, Start(l, t))
        <5>1. k \notin S /\ S \subseteq Calls /\ IsFiniteSet(S)
          BY <2>1, WindowSets DEF In
        <5>2. IsFiniteSet(S \cup {k}) /\ S \cup {k} \subseteq Calls /\ (S \cup {k}) \ {k} = S
          BY <5>1, FS_AddElement
        <5>. HIDE DEF S
        <5>3. SpentBy(l, S \cup {k}) = Draw[k][l] + SpentBy(l, (S \cup {k}) \ {k})
          BY <5>2, SpentRemove
        <5>. QED BY <5>2, <5>3 DEF S
      <4>5. SpentBy(l, In(l, Start(l, t))) \in Nat
        BY WindowSets
      <4>6. SpentBy(l, In(l, counter[l].start)') <= counter'[l].used
        <5>1. SpentBy(l, In(l, counter[l].start)') = Draw[k][l] + SpentBy(l, In(l, Start(l, t)))
          BY <4>3, <4>4
        <5>2. SpentBy(l, In(l, Start(l, t))) <= Used(l, t)
          BY <2>7, <3>1
        <5>. QED BY <5>1, <5>2, <4>1, <4>5, <2>2
      <4>7. counter'[l].start <= Start(l, clock)
        BY <4>1, <2>2
      <4>8. \A c \in Charged' : Covers(c, l) => Start(l, now[c]) <= counter'[l].start
        BY <2>1, <2>2, <4>1, <4>2
      <4>. QED BY <1>0, <4>6, <4>7, <4>8 DEF Start
    <3>2. CASE ~ Covers(k, l)
      <4>1. counter'[l] = counter[l]
        BY <2>0, <3>2 DEF Committed
      <4>2. In(l, counter[l].start)' = In(l, counter[l].start)
        BY <4>1, <3>2, <2>6, <2>2
      <4>. QED BY <1>0, <2>1, <3>2, <4>1, <4>2 DEF CounterHolds, Start
    <3>. QED BY <3>1, <3>2
  <2>9. WindowsHold'
    <3>. SUFFICES ASSUME NEW l \in Limits, NEW s \in Nat, In(l, s)' # {}
                  PROVE  \E c \in In(l, s)' : SpentBy(l, In(l, s)' \ {c}) < Cap[l]
      BY DEF WindowsHold
    <3>1. CASE Covers(k, l) /\ s = Start(l, t)
      <4>1. In(l, s)' \ {k} = In(l, s) /\ k \in In(l, s)'
        BY <2>6, <2>1, <3>1 DEF In
      <4>2. Used(l, t) < Cap[l]
        BY <1>2, <3>1, <2>2 DEF Breached
      <4>3. SpentBy(l, In(l, s)) \in Nat
        BY WindowSets
      <4>. QED BY <4>1, <4>2, <4>3, <2>7, <2>2, <3>1
    <3>2. CASE ~ (Covers(k, l) /\ s = Start(l, t))
      BY <3>2, <2>6 DEF WindowsHold
    <3>. QED BY <3>1, <3>2
  <2>. QED BY <2>3, <2>4, <2>5, <2>8, <2>9
<1>. QED BY <1>1, <1>2

\* Time: a counter's window may pass, and none is entered.
LEMMA TickKeeps ==
  ASSUME LedgerInv, Tick, ~ Straddle
  PROVE  LedgerInv'
<1>. USE DEF LedgerInv
<1>0. /\ UNCHANGED <<counter, step, now, usage, crashes>>
      /\ clock \in Nat /\ clock' = clock + 1
  BY DEF Tick, LedgerTypeOK
<1>1. Charged' = Charged
  BY <1>0 DEF Charged
<1>2. LedgerTypeOK'
  BY <1>0 DEF LedgerTypeOK
<1>3. Recorded'
  BY <1>0, <1>1 DEF Recorded
<1>4. Timely'
  <2>1. \A c \in Calls : now'[c] <= clock'
    BY <1>0 DEF Timely, LedgerTypeOK
  <2>2. \A c \in Calls, l \in Limits : step[c] = "metered" => Start(l, clock') = Start(l, now[c])
    BY DEF Tick
  <2>. QED BY <1>0, <2>1, <2>2 DEF Timely, Start
<1>5. \A l \in Limits, s \in Nat : In(l, s)' = In(l, s)
  BY <1>0, <1>1 DEF In, Start
<1>6. CounterHolds'
  <2>1. \A l \in Limits : /\ counter[l].start \in Nat
                           /\ Start(l, clock) \in Nat /\ Start(l, clock') \in Nat
                           /\ Start(l, clock) <= Start(l, clock')
    BY <1>0, StartBelow, StartMonotone DEF LedgerTypeOK
  <2>2. \A l \in Limits : counter[l].start <= Start(l, clock')
    BY <2>1 DEF CounterHolds
  <2>. QED BY <1>0, <1>1, <1>5, <2>1, <2>2 DEF CounterHolds, Start
<1>7. WindowsHold'
  BY <1>5 DEF WindowsHold
<1>. QED BY <1>2, <1>3, <1>4, <1>6, <1>7

(* A restart forgets reserved calls, and counts the file's, which has every
   forwarded one. *)
LEMMA RestartKeeps ==
  ASSUME LedgerInv, Restart
  PROVE  LedgerInv'
<1>. USE DEF LedgerInv
<1>0. /\ UNCHANGED <<clock, now>> /\ clock \in Nat
      /\ step' = [c \in Calls |-> IF step[c] \in {"metered", "reserved"} THEN "lost" ELSE step[c]]
      /\ crashes' = crashes + 1
  BY DEF Restart, LedgerTypeOK
<1>1. PICK lines \in SUBSET {c \in Calls : step[c] = "reserved"} :
        usage' = usage \cup lines /\ counter' = Rehydrated(usage \cup lines, clock)
  BY DEF Restart
<1>2. Charged' \subseteq Charged /\ Charged' \subseteq usage'
  BY <1>0, <1>1 DEF Charged, Recorded, LedgerTypeOK
<1>3. IsFiniteSet(usage') /\ usage' \subseteq Calls
  <2>1. lines \subseteq Charged
    BY DEF Charged
  <2>2. IsFiniteSet(lines)
    BY <2>1, FS_Subset DEF Recorded
  <2>. QED BY <1>1, <2>2, FS_Union DEF Recorded, LedgerTypeOK
<1>. DEFINE Since(l) == {c \in usage' : now[c] >= Start(l, clock)}
<1>4. /\ counter' = [l \in Limits |-> counter'[l]]
      /\ \A l \in Limits : /\ counter'[l] = [start |-> Start(l, clock), used |-> SpentBy(l, Since(l))]
                            /\ IsFiniteSet(Since(l)) /\ Since(l) \subseteq Calls
                            /\ SpentBy(l, Since(l)) \in Nat /\ Start(l, clock) \in Nat
  <2>1. \A l \in Limits : IsFiniteSet(Since(l)) /\ Since(l) \subseteq Calls
    BY <1>3, FS_Subset
  <2>2. \A l \in Limits : SpentBy(l, Since(l)) \in Nat
    BY <2>1, SpentNat
  <2>3. counter' = [l \in Limits |-> [start |-> Start(l, clock), used |-> SpentBy(l, Since(l))]]
    BY <1>1 DEF Rehydrated, SpentBy
  <2>. QED BY <1>0, <2>1, <2>2, <2>3, StartBelow
<1>5. LedgerTypeOK'
  <2>1. counter' \in [Limits -> [start: Nat, used: Nat]]
    <3>. HIDE DEF Since
    <3>. QED BY <1>4
  <2>. QED BY <1>0, <1>3, <2>1 DEF LedgerTypeOK, LedgerSteps
<1>6. Recorded'
  BY <1>0, <1>1, <1>2, <1>3, FS_Subset DEF Recorded, LedgerTypeOK
<1>7. Timely'
  BY <1>0 DEF Timely, LedgerTypeOK, Start
<1>8. \A l \in Limits, s \in Nat : In(l, s)' \subseteq In(l, s)
  BY <1>0, <1>2 DEF In, Start
<1>9. CounterHolds'
  <2>. SUFFICES ASSUME NEW l \in Limits
                PROVE  /\ counter'[l].start <= Start(l, clock)
                       /\ \A c \in Charged' : Covers(c, l) => Start(l, now[c]) <= counter'[l].start
                       /\ SpentBy(l, In(l, counter[l].start)') <= counter'[l].used
    BY <1>0 DEF CounterHolds, Start
  <2>1. \A c \in Charged' : now[c] \in Nat /\ now[c] <= clock
    BY <1>2 DEF Charged, Timely, LedgerTypeOK
  <2>2. \A c \in Charged' : Start(l, now[c]) <= Start(l, clock)
    BY <1>0, <2>1, StartMonotone
  <2>3. In(l, counter[l].start)' \subseteq Since(l)
    <3>1. \A c \in Charged' : Start(l, now[c]) <= now[c] /\ Start(l, now[c]) \in Nat
      BY <2>1, StartBelow
    <3>2. counter'[l].start = Start(l, clock)
      <4>. HIDE DEF Since
      <4>. QED BY <1>4
    <3>3. \A c \in In(l, counter[l].start)' : c \in Charged' /\ Start(l, now[c]) = Start(l, clock)
      BY <1>0, <3>2 DEF In, Start
    <3>. QED BY <1>2, <2>1, <3>1, <3>3
  <2>. HIDE DEF Since
  <2>4. SpentBy(l, In(l, counter[l].start)') <= SpentBy(l, Since(l))
    BY <1>4, <2>3, SpentMono
  <2>. QED BY <1>4, <2>2, <2>4
<1>10. WindowsHold'
  <2>. SUFFICES ASSUME NEW l \in Limits, NEW s \in Nat, In(l, s)' # {}
                PROVE  \E c \in In(l, s)' : SpentBy(l, In(l, s)' \ {c}) < Cap[l]
    BY DEF WindowsHold
  <2>1. PICK c \in In(l, s) : SpentBy(l, In(l, s) \ {c}) < Cap[l]
    BY <1>8 DEF WindowsHold
  <2>2. PICK d \in In(l, s)' : c \in In(l, s)' => d = c
    OBVIOUS
  <2>. DEFINE S == In(l, s)' \ {d}
              T == In(l, s) \ {c}
  <2>3. S \subseteq T
    BY <1>8, <2>2
  <2>4. SpentBy(l, T) \in Nat /\ IsFiniteSet(T) /\ T \subseteq Calls /\ SpentBy(l, S) \in Nat
    <3>1. S \subseteq In(l, s)
      BY <2>3
    <3>2. T \subseteq In(l, s)
      OBVIOUS
    <3>. HIDE DEF S, T
    <3>. QED BY <3>1, <3>2, WindowSets
  <2>5. SpentBy(l, S) <= SpentBy(l, T)
    <3>. HIDE DEF S, T
    <3>. QED BY <2>3, <2>4, SpentMono
  <2>6. SpentBy(l, S) < Cap[l]
    <3>1. Cap[l] \in Nat
      BY LedgerAssumption
    <3>2. SpentBy(l, T) < Cap[l]
      BY <2>1
    <3>. HIDE DEF S, T
    <3>. QED BY <3>1, <3>2, <2>4, <2>5
  <2>. QED BY <2>6
<1>. QED BY <1>5, <1>6, <1>7, <1>9, <1>10

\* The budget is held in every state of the invariant.
LEMMA LedgerInvHolds == LedgerInv => BudgetHolds
<1>. SUFFICES ASSUME LedgerInv PROVE CapHolds /\ CounterCoversSpend
  BY DEF BudgetHolds
<1>. USE DEF LedgerInv
<1>1. CapHolds
  <2>. SUFFICES ASSUME NEW l \in Limits, NEW t \in 0..clock
                PROVE  In(l, Start(l, t)) # {}
                         => \E c \in In(l, Start(l, t)) : SpentBy(l, In(l, Start(l, t)) \ {c}) < Cap[l]
    BY DEF CapHolds, In
  <2>1. Start(l, t) \in Nat
    BY StartBelow DEF LedgerTypeOK
  <2>. QED BY <2>1 DEF WindowsHold
<1>2. CounterCoversSpend
  <2>. SUFFICES ASSUME NEW l \in Limits
                PROVE  Used(l, clock) >= SpentBy(l, {c \in Charged : Start(l, now[c]) = Start(l, clock)})
    BY DEF CounterCoversSpend
  <2>. DEFINE s == Start(l, clock)
              S == {c \in Charged : Start(l, now[c]) = s}
  <2>1. s \in Nat /\ counter[l] \in [start: Nat, used: Nat]
    BY StartBelow DEF LedgerTypeOK
  <2>2. SpentBy(l, S) = SpentBy(l, In(l, s))
    <3>1. IsFiniteSet(S) /\ S \subseteq Calls
      BY FS_Subset DEF Recorded, Charged
    <3>2. In(l, s) = {c \in S : Covers(c, l)}
      BY DEF In
    <3>. HIDE DEF S, s
    <3>. QED BY <3>1, <3>2, SpentCovering
  <2>3. SpentBy(l, In(l, s)) \in Nat
    BY WindowSets
  <2>4. SpentBy(l, In(l, s)) <= Used(l, clock)
    <3>1. CASE counter[l].start = s
      BY <3>1 DEF CounterHolds, Used
    <3>2. CASE counter[l].start # s
      <4>1. counter[l].start < s
        BY <3>2, <2>1 DEF CounterHolds
      <4>2. In(l, s) = {}
        BY <4>1, <2>1, NothingAfter
      <4>. QED BY <4>2, <3>2, SpentEmpty DEF Used
    <3>. QED BY <3>1, <3>2
  <2>5. Used(l, clock) \in Nat
    BY <2>1 DEF Used
  <2>. HIDE DEF S, s
  <2>. QED BY <2>2, <2>3, <2>4, <2>5 DEF S, s
<1>. QED BY <1>1, <1>2

(* The budget is held in every window of every limit, and its counters never
   understate the spend, for any calls, limits, draws, caps, windows, restarts
   and length of the run, when no window ends between a call's metering and its
   reserve.                                                                  *)
THEOREM BudgetIsKept ==
  ASSUME ~ Straddle
  PROVE  LedgerInit /\ [][LedgerNext]_ledgerVars => []BudgetHolds
<1>1. ASSUME LedgerInv, [LedgerNext]_ledgerVars
      PROVE  LedgerInv'
  <2>1. CASE UNCHANGED ledgerVars
    <3>. USE <2>1 DEF ledgerVars
    <3>1. Charged' = Charged
      BY DEF Charged
    <3>2. \A l \in Limits, s \in Nat : In(l, s)' = In(l, s)
      BY <3>1 DEF In, Start
    <3>3. LedgerTypeOK' /\ Recorded' /\ Timely'
      BY <1>1, <3>1 DEF LedgerInv, LedgerTypeOK, Recorded, Timely, Start
    <3>4. CounterHolds'
      BY <1>1, <3>1, <3>2 DEF LedgerInv, CounterHolds, LedgerTypeOK, Start
    <3>5. WindowsHold'
      BY <1>1, <3>2 DEF LedgerInv, WindowsHold
    <3>. QED BY <3>3, <3>4, <3>5 DEF LedgerInv
  <2>. QED BY <1>1, <2>1, MeterKeeps, ReserveKeeps, ForwardKeeps, RestartKeeps, TickKeeps DEF LedgerNext
<1>. QED BY LedgerStarts, <1>1, LedgerInvHolds, PTL

-----------------------------------------------------------------------------
(* What a session has read *)

Pending == [msg : Nat, history : Seq(Nat)]

Session == [state : {"none", "starting", "live"}, room : Rooms \cup {Outside}, queue : Seq(Pending),
            first : BOOLEAN, quoted : Seq(Nat), turned : Seq(Nat), beside : SUBSET Nat]

Holding == [step : {"none", "file", "route", "start"}, msg : Nat, history : Seq(Nat), beside : SUBSET Nat]

\* A task that has its message on file and has not handed it over.
Carries(t) == t.step \in {"route", "start"}

OnFile(rec, m) == \E i \in 1..Len(rec) : rec[i] = m

Twice(rec, m) == \E i, j \in 1..Len(rec) : i # j /\ rec[i] = m /\ rec[j] = m

\* The quotes stand together on file, after the first k, and before m with nobody beside.
Stands(quotes, m, beside, rec, k) ==
  /\ k + Len(quotes) + 1 <= Len(rec)
  /\ \A i \in 1..Len(quotes) : rec[k + i] = quotes[i]
  /\ beside = {} => rec[k + Len(quotes) + 1] = m

\* What a session turned or will turn, and what it quoted or may quote.
InLine(s, m) == \/ \E i \in 1..Len(s.turned) : s.turned[i] = m
                \/ \E j \in 1..Len(s.queue) : s.queue[j].msg = m

InOwn(s, m) == \/ \E i \in 1..Len(s.quoted) : s.quoted[i] = m
               \/ \E j \in 1..Len(s.queue) : \E i \in 1..Len(s.queue[j].history) : s.queue[j].history[i] = m

\* A message that a session reads at two places of its line was filed twice.
LineOK(s, rec) ==
  /\ \A i, j \in 1..Len(s.turned) : i # j /\ s.turned[i] = s.turned[j] => Twice(rec, s.turned[i])
  /\ \A i, j \in 1..Len(s.queue) : i # j /\ s.queue[i].msg = s.queue[j].msg => Twice(rec, s.queue[i].msg)
  /\ \A i \in 1..Len(s.turned), j \in 1..Len(s.queue) :
       s.turned[i] = s.queue[j].msg => Twice(rec, s.turned[i])

QuotesOK(s, rec) ==
  /\ s.first => s.quoted = <<>> /\ s.turned = <<>>
  /\ s.quoted # <<>> => /\ s.turned # <<>>
                        /\ \E k \in Nat : Stands(s.quoted, s.turned[1], s.beside, rec, k)
  /\ \A j \in 1..Len(s.queue) :
       s.queue[j].history # <<>> => Stands(s.queue[j].history, s.queue[j].msg, s.beside, rec, 0)

SessionOK(s, rec) ==
  /\ s \in Session
  /\ s.state = "none" => s = NoSession
  /\ s.state # "none" => s.room \in Rooms
  /\ \A m \in Nat : InLine(s, m) \/ InOwn(s, m) => OnFile(rec, m)
  /\ \A m \in Nat : InLine(s, m) /\ InOwn(s, m) /\ m \notin s.beside => Twice(rec, m)
  /\ LineOK(s, rec) /\ QuotesOK(s, rec)

\* What a task remembers begins the record; once filed, its message comes after it.
HandOK(t, rec) ==
  /\ t \in Holding
  /\ t.step # "none" => t.msg \in Message
  /\ t.step = "file" /\ t.history # <<>> =>
       /\ Len(t.history) <= Len(rec) /\ (t.beside = {} => Len(t.history) = Len(rec))
       /\ \A i \in 1..Len(t.history) : t.history[i] = rec[i]
  /\ Carries(t) => /\ OnFile(rec, t.msg)
                   /\ t.history # <<>> => Stands(t.history, t.msg, t.beside, rec, 0)
                   /\ OnFile(t.history, t.msg) => Twice(rec, t.msg)

\* A message that a session knows and a task carries to its room.
CarryOK(t, s, rec) ==
  Carries(t) /\ s.state # "none" /\ s.room = RoomOf(t.msg) =>
    /\ InLine(s, t.msg) => Twice(rec, t.msg)
    /\ InOwn(s, t.msg) /\ t.msg \notin s.beside => Twice(rec, t.msg)

\* Two tasks that have messages of one room in hand.
PairOK(a, b, rec) ==
  a.step # "none" /\ b.step # "none" /\ RoomOf(a.msg) = RoomOf(b.msg) =>
    /\ a.msg \in b.beside
    /\ Carries(a) /\ Carries(b) /\ a.msg = b.msg => Twice(rec, b.msg)

TasksOK ==
  /\ \A h \in Handlers : HandOK(hand[h], record[RoomOf(hand[h].msg)])
  /\ \A g, h \in Handlers : g # h => PairOK(hand[g], hand[h], record[RoomOf(hand[h].msg)])

TalksOK ==
  /\ \A x \in Sessions : SessionOK(session[x], record[session[x].room])
  /\ \A h \in Handlers, x \in Sessions : CarryOK(hand[h], session[x], record[session[x].room])

SendersOK == \A r \in Rooms : sender[r] # Nobody =>
  session[sender[r]].state # "none" /\ session[sender[r]].room = r

ListenTypeOK ==
  /\ record \in [Rooms -> Seq(Nat)] /\ hand \in [Handlers -> Holding]
  /\ session \in [Sessions -> Session] /\ sender \in [Rooms -> Sessions \cup {Nobody}]

ListenOK == ListenTypeOK /\ TasksOK /\ TalksOK /\ SendersOK

\* A turn quotes an end of the history it brings, or nothing.
LEMMA QuotesAnEnd ==
  ASSUME NEW asked, asked.history \in Seq(Nat)
  PROVE  /\ Quoted(asked) \in Seq(Nat) /\ Len(Quoted(asked)) <= Len(asked.history)
         /\ \A i \in 1..Len(Quoted(asked)) : Quoted(asked)[i] = asked.history[Len(asked.history) - Len(Quoted(asked)) + i]
<1>. DEFINE h == asked.history
            End(n) == Heard(SubSeq(h, Len(h) - n + 1, Len(h)))
            fits == {n \in 1..Len(h) : n <= Limit.messages /\ Rendered(End(n)) <= Limit.history}
            block == history_block(h)
<1>1. Len(h) \in Nat
  BY LenProperties
<1>2. CASE fits = {}
  <2>1. block = <<>>
    BY <1>2 DEF history_block
  <2>2. Quoted(asked) = <<>>
    BY <2>1 DEF Quoted
  <2>3. Len(Quoted(asked)) = 0
    BY <2>2, EmptySeq
  <2>. QED BY <2>2, <2>3, <1>1, EmptySeq
<1>3. CASE fits # {}
  <2>. DEFINE m == Max(fits)
              e == SubSeq(h, Len(h) - m + 1, Len(h))
  <2>1. m \in 1..Len(h)
    <3>. HIDE DEF h
    <3>1. fits \in SUBSET (0..Len(h))
      BY <1>1
    <3>. HIDE DEF fits
    <3>2. m \in fits
      BY <1>1, <1>3, <3>1, Greatest
    <3>. QED BY <3>2 DEF fits
  <2>2. block = <<Block("history", Heard(e), Rendered(Heard(e)))>>
    BY <1>3 DEF history_block
  <2>3. block # <<>> /\ block[1].text = Heard(e)
    BY <2>2 DEF Block
  <2>4. e \in Seq(Nat) /\ Len(e) = m /\ \A i \in 1..m : e[i] = h[Len(h) - m + i]
    <3>. HIDE DEF m, fits
    <3>. DEFINE a == Len(h) - m + 1
    <3>1. a \in Int /\ Len(h) \in Int /\ \A i \in a..Len(h) : h[i] \in Nat
      BY <1>1, <2>1, ElementOfSeq
    <3>. HIDE DEF h, a
    <3>2. /\ SubSeq(h, a, Len(h)) \in Seq(Nat)
          /\ Len(SubSeq(h, a, Len(h))) = IF a <= Len(h) THEN Len(h) - a + 1 ELSE 0
          /\ \A i \in 1..(Len(h) - a + 1) : SubSeq(h, a, Len(h))[i] = h[a + i - 1]
      BY <3>1, SubSeqProperties
    <3>3. Len(h) - a + 1 = m /\ a <= Len(h) /\ \A i \in 1..m : a + i - 1 = Len(h) - m + i
      BY <1>1, <2>1 DEF a
    <3>. QED BY <3>2, <3>3 DEF a
  <2>. HIDE DEF e, m, fits, block
  <2>5. DOMAIN Heard(e) = 1..m /\ \A i \in 1..m : Heard(e)[i].msg = e[i]
    BY <2>4, LenProperties DEF Heard
  <2>6. Quoted(asked) = [i \in 1..m |-> e[i]]
    BY <2>3, <2>5 DEF Quoted, block
  <2>7. /\ [i \in 1..m |-> e[i]] \in Seq(Nat) /\ Len([i \in 1..m |-> e[i]]) = m
        /\ \A i \in 1..m : [k \in 1..m |-> e[k]][i] = e[i]
    <3>1. \A i \in 1..m : e[i] \in Nat
      BY <2>4, ElementOfSeq
    <3>2. m \in Nat
      BY <2>1
    <3>. QED BY <3>1, <3>2, IsASeq, LenProperties
  <2>. QED BY <2>1, <2>4, <2>6, <2>7, <1>1
<1>. QED BY <1>2, <1>3

\* A message is a number, and has a room.
LEMMA Messages == \A m \in Message : m \in Nat /\ RoomOf(m) \in Rooms
<1>. SUFFICES ASSUME NEW m \in Message PROVE m \in Nat /\ RoomOf(m) \in Rooms
  OBVIOUS
<1>1. Say \in Seq([room : Rooms, chars : Nat, wakes : BOOLEAN])
  BY ContextAssumption
<1>2. m \in 1..Len(Say) /\ Len(Say) \in Nat
  BY <1>1, LenProperties DEF Message
<1>3. Say[m] \in [room : Rooms, chars : Nat, wakes : BOOLEAN]
  BY <1>1, <1>2, ElementOfSeq
<1>. QED BY <1>2, <1>3 DEF RoomOf

\* No session has read anything, and no hand is full.
LEMMA NothingRead ==
  ASSUME NEW rec
  PROVE  /\ SessionOK(NoSession, rec) /\ HandOK(NoMessage, rec) /\ NoSession.state = "none"
         /\ NoMessage \in Holding /\ NoSession \in Session /\ ~ Carries(NoMessage) /\ NoMessage.step = "none"
<1>1. NoSession \in Session /\ NoMessage \in Holding
  BY EmptySeq DEF NoSession, Session, NoMessage, Holding
<1>2. Len(NoSession.queue) = 0 /\ Len(NoSession.turned) = 0 /\ Len(NoSession.quoted) = 0
  BY EmptySeq DEF NoSession
<1>3. NoSession.state = "none" /\ NoMessage.step = "none" /\ ~ Carries(NoMessage)
  BY DEF NoSession, NoMessage, Carries
<1>4. \A m \in Nat : ~ InLine(NoSession, m) /\ ~ InOwn(NoSession, m)
  BY <1>2 DEF InLine, InOwn
<1>5. LineOK(NoSession, rec)
  BY <1>2 DEF LineOK
<1>6. QuotesOK(NoSession, rec)
  <2>1. NoSession.quoted = <<>> /\ NoSession.turned = <<>>
    BY DEF NoSession
  <2>. QED BY <1>2, <2>1 DEF QuotesOK
<1>7. SessionOK(NoSession, rec)
  BY <1>1, <1>3, <1>4, <1>5, <1>6 DEF SessionOK
<1>8. HandOK(NoMessage, rec)
  BY <1>1, <1>3 DEF HandOK
<1>. QED BY <1>1, <1>3, <1>7, <1>8

LEMMA ListenStarts == ContextInit => ListenOK
<1>. SUFFICES ASSUME ContextInit PROVE ListenOK
  OBVIOUS
<1>1. \A h \in Handlers : hand[h] = NoMessage
  BY DEF ContextInit
<1>2. \A x \in Sessions : session[x] = NoSession
  BY DEF ContextInit
<1>3. ListenTypeOK
  BY NothingRead, EmptySeq DEF ContextInit, ListenTypeOK
<1>4. TasksOK
  <2>1. \A h \in Handlers : HandOK(hand[h], record[RoomOf(hand[h].msg)])
    BY <1>1, NothingRead
  <2>2. \A g, h \in Handlers : PairOK(hand[g], hand[h], record[RoomOf(hand[h].msg)])
    BY <1>1, NothingRead DEF PairOK
  <2>. QED BY <2>1, <2>2 DEF TasksOK
<1>5. TalksOK
  <2>1. \A x \in Sessions : SessionOK(session[x], record[session[x].room])
    BY <1>2, NothingRead
  <2>2. \A h \in Handlers, x \in Sessions : CarryOK(hand[h], session[x], record[session[x].room])
    BY <1>1, NothingRead DEF CarryOK
  <2>. QED BY <2>1, <2>2 DEF TalksOK
<1>6. SendersOK
  BY DEF ContextInit, SendersOK
<1>. QED BY <1>3, <1>4, <1>5, <1>6 DEF ListenOK

\* One more message at the end of a record.
LEMMA RecordGrows ==
  ASSUME NEW rec \in Seq(Nat), NEW m \in Nat
  PROVE  LET new == Append(rec, m) IN
         /\ new \in Seq(Nat) /\ Len(rec) \in Nat /\ Len(new) = Len(rec) + 1
         /\ new[Len(rec) + 1] = m /\ \A i \in 1..Len(rec) : new[i] = rec[i]
         /\ OnFile(new, m) /\ (OnFile(rec, m) => Twice(new, m))
         /\ \A x \in Nat : (OnFile(rec, x) => OnFile(new, x)) /\ (Twice(rec, x) => Twice(new, x))
         /\ \A q \in Seq(Nat), x \in Nat, beside \in SUBSET Nat, k \in Nat :
              Stands(q, x, beside, rec, k) => Stands(q, x, beside, new, k)
<1>. DEFINE new == Append(rec, m)
            n == Len(rec)
<1>1. n \in Nat /\ new \in Seq(Nat) /\ Len(new) = n + 1
  BY LenProperties, AppendProperties
<1>2. new[n + 1] = m /\ \A i \in 1..n : new[i] = rec[i]
  BY AppendProperties
<1>. HIDE DEF new
<1>3. \A i \in 1..n : i \in 1..(n + 1) /\ i # n + 1
  BY <1>1
<1>4. n + 1 \in 1..(n + 1)
  BY <1>1
<1>5. OnFile(new, m) /\ (OnFile(rec, m) => Twice(new, m))
  BY <1>1, <1>2, <1>3, <1>4 DEF OnFile, Twice
<1>6. \A x \in Nat : (OnFile(rec, x) => OnFile(new, x)) /\ (Twice(rec, x) => Twice(new, x))
  BY <1>1, <1>2, <1>3 DEF OnFile, Twice
<1>7. ASSUME NEW q \in Seq(Nat), NEW x \in Nat, NEW beside \in SUBSET Nat, NEW k \in Nat, Stands(q, x, beside, rec, k)
      PROVE  Stands(q, x, beside, new, k)
  <2>. DEFINE l == Len(q)
  <2>1. l \in Nat
    BY LenProperties
  <2>2. k + l + 1 <= n
    BY <1>7 DEF Stands
  <2>3. \A i \in 1..l : k + i \in 1..n
    BY <2>1, <2>2, <1>1
  <2>4. k + l + 1 \in 1..n /\ k + l + 1 <= n + 1
    BY <2>1, <2>2, <1>1
  <2>5. \A i \in 1..l : new[k + i] = q[i]
    BY <1>7, <2>3, <1>2 DEF Stands
  <2>6. beside = {} => new[k + l + 1] = x
    BY <1>7, <2>4, <1>2 DEF Stands
  <2>. HIDE DEF n
  <2>. QED BY <1>1, <2>4, <2>5, <2>6 DEF Stands
<1>. QED BY <1>1, <1>2, <1>5, <1>6, <1>7 DEF new, n

\* ... as far as a session is concerned, and a task that has its own message on file,
\* or another task's beside it.
LEMMA SessionGrows ==
  ASSUME NEW rec \in Seq(Nat), NEW m \in Nat, NEW s, SessionOK(s, rec)
  PROVE  SessionOK(s, Append(rec, m))
<1>. DEFINE new == Append(rec, m)
<1>1. \A x \in Nat : (OnFile(rec, x) => OnFile(new, x)) /\ (Twice(rec, x) => Twice(new, x))
  BY RecordGrows
<1>2. \A q \in Seq(Nat), x \in Nat, beside \in SUBSET Nat, k \in Nat :
        Stands(q, x, beside, rec, k) => Stands(q, x, beside, new, k)
  BY RecordGrows
<1>. HIDE DEF new
<1>3. s \in Session /\ s.beside \in SUBSET Nat /\ s.turned \in Seq(Nat) /\ s.quoted \in Seq(Nat) /\ s.queue \in Seq(Pending)
  BY DEF SessionOK, Session
<1>4. \A i \in 1..Len(s.turned) : s.turned[i] \in Nat
  BY <1>3, ElementOfSeq
<1>5. \A j \in 1..Len(s.queue) : s.queue[j].msg \in Nat /\ s.queue[j].history \in Seq(Nat)
  <2>1. \A j \in 1..Len(s.queue) : s.queue[j] \in Pending
    BY <1>3, ElementOfSeq
  <2>. QED BY <2>1 DEF Pending
<1>6. LineOK(s, new)
  BY <1>1, <1>4, <1>5 DEF SessionOK, LineOK
<1>7. QuotesOK(s, new)
  <2>1. s.quoted # <<>> => \E k \in Nat : Stands(s.quoted, s.turned[1], s.beside, new, k)
    <3>. SUFFICES ASSUME s.quoted # <<>> PROVE \E k \in Nat : Stands(s.quoted, s.turned[1], s.beside, new, k)
      OBVIOUS
    <3>1. s.turned # <<>> /\ \E k \in Nat : Stands(s.quoted, s.turned[1], s.beside, rec, k)
      BY DEF SessionOK, QuotesOK
    <3>2. Len(s.turned) \in Nat \ {0}
      BY <1>3, <3>1, EmptySeq
    <3>3. 1 \in 1..Len(s.turned)
      BY <3>2
    <3>. QED BY <1>2, <1>3, <1>4, <3>1, <3>3
  <2>2. \A j \in 1..Len(s.queue) :
          s.queue[j].history # <<>> => Stands(s.queue[j].history, s.queue[j].msg, s.beside, new, 0)
    BY <1>2, <1>3, <1>5 DEF SessionOK, QuotesOK
  <2>. QED BY <2>1, <2>2 DEF SessionOK, QuotesOK
<1>. QED BY <1>1, <1>6, <1>7 DEF SessionOK, new

LEMMA HandGrows ==
  ASSUME NEW rec \in Seq(Nat), NEW m \in Nat, NEW t, HandOK(t, rec), t.step = "file" => t.beside # {}
  PROVE  HandOK(t, Append(rec, m))
<1>. DEFINE new == Append(rec, m)
            n == Len(rec)
<1>1. /\ \A x \in Nat : (OnFile(rec, x) => OnFile(new, x)) /\ (Twice(rec, x) => Twice(new, x))
      /\ n \in Nat /\ Len(new) = n + 1 /\ \A i \in 1..n : new[i] = rec[i]
  BY RecordGrows
<1>2. \A q \in Seq(Nat), x \in Nat, beside \in SUBSET Nat, k \in Nat :
        Stands(q, x, beside, rec, k) => Stands(q, x, beside, new, k)
  BY RecordGrows
<1>. HIDE DEF new
<1>3. t \in Holding /\ t.msg \in Nat /\ t.history \in Seq(Nat) /\ t.beside \in SUBSET Nat
  BY DEF HandOK, Holding
<1>4. Len(t.history) \in Nat
  BY <1>3, LenProperties
<1>5. t.step = "file" /\ t.history # <<>> =>
       /\ Len(t.history) <= Len(new)
       /\ \A i \in 1..Len(t.history) : t.history[i] = new[i]
  <2>. SUFFICES ASSUME t.step = "file", t.history # <<>>
                PROVE  /\ Len(t.history) <= Len(new)
                       /\ \A i \in 1..Len(t.history) : t.history[i] = new[i]
    OBVIOUS
  <2>1. Len(t.history) <= n /\ \A i \in 1..Len(t.history) : t.history[i] = rec[i]
    BY DEF HandOK
  <2>2. \A i \in 1..Len(t.history) : i \in 1..n
    BY <2>1, <1>1, <1>4
  <2>. HIDE DEF n
  <2>. QED BY <2>1, <2>2, <1>1, <1>4
<1>6. Carries(t) => /\ OnFile(new, t.msg)
                    /\ t.history # <<>> => Stands(t.history, t.msg, t.beside, new, 0)
                    /\ OnFile(t.history, t.msg) => Twice(new, t.msg)
  BY <1>1, <1>2, <1>3 DEF HandOK
<1>. QED BY <1>5, <1>6 DEF HandOK, new

\* What knows no more than a session did, and is of its room.
Narrows(t, s) ==
  /\ t.state # "none" => s.state # "none" /\ t.room = s.room /\ t.beside = s.beside
  /\ \A m \in Nat : (InLine(t, m) => InLine(s, m)) /\ (InOwn(t, m) => InOwn(s, m))

\* A message, once on file, comes after what its task remembers, and is on file twice
\* if it is among it or any session of its room knew it.
LEMMA FiledIs ==
  ASSUME NEW rec \in Seq(Nat), NEW t, HandOK(t, rec), t.step = "file", NEW u, u = [t EXCEPT !.step = "route"]
  PROVE  /\ HandOK(u, Append(rec, t.msg)) /\ Carries(u) /\ u.msg = t.msg /\ u.beside = t.beside /\ u.step # "none"
         /\ \A s : SessionOK(s, rec) => CarryOK(u, s, Append(rec, t.msg))
<1>. DEFINE m == t.msg
            new == Append(rec, m)
            n == Len(rec)
            l == Len(t.history)
<1>1. /\ t \in Holding /\ m \in Nat /\ t.history \in Seq(Nat) /\ t.beside \in SUBSET Nat /\ m \in Message
      /\ u \in Holding /\ u.step = "route" /\ u.msg = m /\ u.history = t.history /\ u.beside = t.beside
  BY DEF HandOK, Holding
<1>2. /\ n \in Nat /\ Len(new) = n + 1 /\ new[n + 1] = m /\ \A i \in 1..n : new[i] = rec[i]
      /\ OnFile(new, m) /\ (OnFile(rec, m) => Twice(new, m))
  BY <1>1, RecordGrows
<1>3. l \in Nat
  BY <1>1, LenProperties
<1>. HIDE DEF new
<1>4. ASSUME t.history # <<>>
      PROVE  l <= n /\ (t.beside = {} => l = n) /\ \A i \in 1..l : t.history[i] = rec[i]
  BY <1>4 DEF HandOK
<1>5. ASSUME t.history # <<>> PROVE Stands(t.history, m, t.beside, new, 0)
  <2>1. \A i \in 1..l : i \in 1..n /\ 0 + i = i
    BY <1>2, <1>3, <1>4, <1>5
  <2>2. \A i \in 1..l : new[0 + i] = t.history[i]
    BY <1>2, <1>4, <1>5, <2>1
  <2>3. 0 + l + 1 <= n + 1
    BY <1>2, <1>3, <1>4, <1>5
  <2>4. t.beside = {} => 0 + l + 1 = n + 1
    BY <1>2, <1>3, <1>4, <1>5
  <2>. HIDE DEF l, n, m
  <2>5. t.beside = {} => new[0 + l + 1] = m
    BY <1>2, <2>4
  <2>. QED BY <1>2, <2>2, <2>3, <2>5 DEF Stands, l
<1>6. OnFile(t.history, m) => OnFile(rec, m)
  <2>. SUFFICES ASSUME NEW i \in 1..l, t.history[i] = m PROVE OnFile(rec, m)
    BY DEF OnFile
  <2>1. t.history # <<>>
    BY <1>3, EmptySeq
  <2>2. i \in 1..n
    BY <1>2, <1>3, <1>4, <2>1
  <2>. QED BY <1>4, <2>1, <2>2 DEF OnFile
<1>7. HandOK(u, new)
  <2>1. u.step # "file"
    BY <1>1
  <2>2. OnFile(u.history, u.msg) => Twice(new, u.msg)
    BY <1>1, <1>2, <1>6
  <2>3. u.history # <<>> => Stands(u.history, u.msg, u.beside, new, 0)
    BY <1>1, <1>5
  <2>. QED BY <1>1, <1>2, <2>1, <2>2, <2>3 DEF HandOK
<1>8. ASSUME NEW s, SessionOK(s, rec) PROVE CarryOK(u, s, new)
  BY <1>1, <1>2, <1>8 DEF SessionOK, CarryOK
<1>. QED BY <1>1, <1>7, <1>8 DEF new, Carries

\* A message at the end of a session's queue.
LEMMA QueueGrows ==
  ASSUME NEW s \in Session, NEW m \in Nat, NEW history \in Seq(Nat), NEW t, t = Queued(s, m, history)
  PROVE  /\ t \in Session /\ t.state = s.state /\ t.room = s.room /\ t.first = s.first
         /\ t.quoted = s.quoted /\ t.turned = s.turned /\ t.beside = s.beside
         /\ Len(s.queue) \in Nat /\ Len(t.queue) = Len(s.queue) + 1
         /\ t.queue[Len(s.queue) + 1] = [msg |-> m, history |-> history]
         /\ \A j \in 1..Len(s.queue) : t.queue[j] = s.queue[j]
         /\ \A j \in 1..Len(t.queue) : j = Len(s.queue) + 1 \/ j \in 1..Len(s.queue)
         /\ \A x \in Nat : InLine(t, x) <=> InLine(s, x) \/ x = m
         /\ \A x \in Nat : InOwn(t, x) <=> InOwn(s, x) \/ OnFile(history, x)
<1>. DEFINE e == [msg |-> m, history |-> history]
            q == s.queue
            n == Len(q)
            z == Append(q, e)
<1>1. q \in Seq(Pending) /\ e \in Pending
  BY DEF Session, Pending
<1>2. n \in Nat /\ z \in Seq(Pending) /\ Len(z) = n + 1 /\ z[n + 1] = e /\ \A j \in 1..n : z[j] = q[j]
  <2>. HIDE DEF q, e
  <2>. QED BY <1>1, LenProperties, AppendProperties
<1>3. /\ t \in Session /\ t.queue = z /\ t.state = s.state /\ t.room = s.room /\ t.first = s.first
      /\ t.quoted = s.quoted /\ t.turned = s.turned /\ t.beside = s.beside
  BY <1>2 DEF Session, Queued
<1>4. \A j \in 1..(n + 1) : j = n + 1 \/ j \in 1..n
  BY <1>2
<1>5. (n + 1) \in 1..(n + 1) /\ \A j \in 1..n : j \in 1..(n + 1)
  BY <1>2
<1>6. e.msg = m /\ e.history = history
  OBVIOUS
<1>. HIDE DEF z, n, q, e
<1>7. \A x \in Nat : InLine(t, x) <=> InLine(s, x) \/ x = m
  BY <1>2, <1>3, <1>4, <1>5, <1>6 DEF InLine, q, n
<1>8. \A x \in Nat : InOwn(t, x) <=> InOwn(s, x) \/ OnFile(history, x)
  <2>. SUFFICES ASSUME NEW x \in Nat PROVE InOwn(t, x) <=> InOwn(s, x) \/ OnFile(history, x)
    OBVIOUS
  <2>1. (\E j \in 1..(n + 1) : OnFile(z[j].history, x)) <=> (\E j \in 1..n : OnFile(q[j].history, x)) \/ OnFile(history, x)
    BY <1>2, <1>4, <1>5, <1>6
  <2>. QED BY <2>1, <1>2, <1>3 DEF InOwn, OnFile, q, n
<1>. QED BY <1>2, <1>3, <1>4, <1>7, <1>8 DEF e, q, n

\* A message a task carries joins the queue of its room's session, which had the turns
\* it heard.
LEMMA RouteKeeps ==
  ASSUME NEW rec, NEW s, SessionOK(s, rec), s.state # "none", NEW t, HandOK(t, rec), Carries(t),
         s.room = RoomOf(t.msg), CarryOK(t, s, rec), NEW u, u = Queued(s, t.msg, <<>>)
  PROVE  SessionOK(u, rec)
<1>. DEFINE m == t.msg
            n == Len(s.queue)
<1>1. s \in Session /\ m \in Nat /\ OnFile(rec, m) /\ <<>> \in Seq(Nat) /\ Len(<<>>) = 0
  BY EmptySeq DEF HandOK, Holding, SessionOK
<1>2. \A x \in Nat : ~ OnFile(<<>>, x)
  BY <1>1 DEF OnFile
<1>3. /\ u \in Session /\ u.state = s.state /\ u.room = s.room /\ u.first = s.first
      /\ u.quoted = s.quoted /\ u.turned = s.turned /\ u.beside = s.beside
      /\ n \in Nat /\ Len(u.queue) = n + 1
      /\ u.queue[n + 1] = [msg |-> m, history |-> <<>>]
      /\ \A j \in 1..n : u.queue[j] = s.queue[j]
      /\ \A j \in 1..Len(u.queue) : j = n + 1 \/ j \in 1..n
      /\ \A x \in Nat : InLine(u, x) <=> InLine(s, x) \/ x = m
      /\ \A x \in Nat : InOwn(u, x) <=> InOwn(s, x) \/ OnFile(<<>>, x)
  <2>1. u = Queued(s, m, <<>>)
    OBVIOUS
  <2>. DEFINE none == <<>>
  <2>2. u = Queued(s, m, none) /\ none \in Seq(Nat)
    BY <1>1, <2>1
  <2>. HIDE DEF m, none, n
  <2>3. /\ u \in Session /\ u.state = s.state /\ u.room = s.room /\ u.first = s.first
        /\ u.quoted = s.quoted /\ u.turned = s.turned /\ u.beside = s.beside
        /\ Len(s.queue) \in Nat /\ Len(u.queue) = Len(s.queue) + 1
        /\ u.queue[Len(s.queue) + 1] = [msg |-> m, history |-> none]
        /\ \A j \in 1..Len(s.queue) : u.queue[j] = s.queue[j]
        /\ \A j \in 1..Len(u.queue) : j = Len(s.queue) + 1 \/ j \in 1..Len(s.queue)
        /\ \A x \in Nat : InLine(u, x) <=> InLine(s, x) \/ x = m
        /\ \A x \in Nat : InOwn(u, x) <=> InOwn(s, x) \/ OnFile(none, x)
    BY <1>1, <2>2, QueueGrows
  <2>. QED BY <2>3 DEF none, n
<1>4. u.queue[n + 1].msg = m /\ u.queue[n + 1].history = <<>>
  BY <1>3
<1>5. /\ InLine(s, m) => Twice(rec, m)
      /\ InOwn(s, m) /\ m \notin s.beside => Twice(rec, m)
  BY DEF CarryOK
<1>. HIDE DEF m, n
<1>6. /\ \A x \in Nat : InLine(u, x) \/ InOwn(u, x) => OnFile(rec, x)
      /\ \A x \in Nat : InLine(u, x) /\ InOwn(u, x) /\ x \notin u.beside => Twice(rec, x)
  BY <1>1, <1>2, <1>3, <1>5 DEF SessionOK
<1>7. LineOK(u, rec)
  <2>1. ASSUME NEW i \in 1..n, s.queue[i].msg = m PROVE Twice(rec, m)
    BY <1>5, <2>1 DEF InLine, n
  <2>2. ASSUME NEW i \in 1..Len(s.turned), s.turned[i] = m PROVE Twice(rec, m)
    BY <1>5, <2>2 DEF InLine
  <2>3. LineOK(s, rec)
    BY DEF SessionOK
  <2>4. ASSUME NEW i \in 1..Len(u.queue), NEW j \in 1..Len(u.queue), i # j, u.queue[i].msg = u.queue[j].msg
        PROVE  Twice(rec, u.queue[i].msg)
    <3>1. CASE i \in 1..n /\ j \in 1..n
      BY <1>3, <2>3, <2>4, <3>1 DEF LineOK, n
    <3>2. CASE i = n + 1 /\ j \in 1..n
      BY <1>3, <1>4, <2>1, <2>4, <3>2
    <3>3. CASE j = n + 1 /\ i \in 1..n
      BY <1>3, <1>4, <2>1, <2>4, <3>3
    <3>. QED BY <1>3, <2>4, <3>1, <3>2, <3>3
  <2>5. ASSUME NEW i \in 1..Len(u.turned), NEW j \in 1..Len(u.queue), u.turned[i] = u.queue[j].msg
        PROVE  Twice(rec, u.turned[i])
    <3>1. CASE j \in 1..n
      BY <1>3, <2>3, <2>5, <3>1 DEF LineOK, n
    <3>2. CASE j = n + 1
      BY <1>3, <1>4, <2>2, <2>5, <3>2
    <3>. QED BY <1>3, <3>1, <3>2
  <2>. QED BY <1>3, <2>3, <2>4, <2>5 DEF LineOK
<1>8. QuotesOK(u, rec)
  <2>1. ASSUME NEW j \in 1..Len(u.queue), u.queue[j].history # <<>>
        PROVE  Stands(u.queue[j].history, u.queue[j].msg, u.beside, rec, 0)
    <3>1. j \in 1..n
      BY <1>3, <1>4, <2>1
    <3>. QED BY <3>1, <1>3, <2>1 DEF SessionOK, QuotesOK, n
  <2>. QED BY <2>1, <1>3 DEF SessionOK, QuotesOK
<1>. QED BY <1>3, <1>6, <1>7, <1>8 DEF SessionOK

\* A message a task carries starts a session, with what the task remembers.
LEMMA StartKeeps ==
  ASSUME NEW rec \in Seq(Nat), NEW t, HandOK(t, rec), Carries(t), NEW u,
         u = [Queued(NoSession, t.msg, t.history) EXCEPT !.state = "starting", !.room = RoomOf(t.msg),
                                                         !.beside = t.beside]
  PROVE  /\ SessionOK(u, rec) /\ u.state # "none" /\ u.room = RoomOf(t.msg) /\ u.beside = t.beside
         /\ \A x \in Nat : InLine(u, x) => x = t.msg
<1>. DEFINE m == t.msg
            w == Queued(NoSession, m, t.history)
<1>1. /\ m \in Nat /\ t.history \in Seq(Nat) /\ OnFile(rec, m) /\ t.beside \in SUBSET Nat
      /\ RoomOf(m) \in Rooms /\ NoSession \in Session
  BY Messages, NothingRead DEF HandOK, Holding, Carries
<1>2. NoSession.queue = <<>> /\ NoSession.quoted = <<>> /\ NoSession.turned = <<>> /\ NoSession.first
  BY DEF NoSession
<1>3. Len(NoSession.queue) = 0 /\ Len(NoSession.turned) = 0 /\ Len(NoSession.quoted) = 0
  BY <1>2, EmptySeq
<1>4. \A x : ~ InLine(NoSession, x) /\ ~ InOwn(NoSession, x)
  BY <1>3 DEF InLine, InOwn
<1>5. /\ w \in Session /\ w.first = NoSession.first /\ w.quoted = NoSession.quoted /\ w.turned = NoSession.turned
      /\ Len(w.queue) = 1
      /\ w.queue[1] = [msg |-> m, history |-> t.history]
      /\ \A x \in Nat : InLine(w, x) <=> InLine(NoSession, x) \/ x = m
      /\ \A x \in Nat : InOwn(w, x) <=> InOwn(NoSession, x) \/ OnFile(t.history, x)
  <2>1. w = Queued(NoSession, m, t.history)
    OBVIOUS
  <2>. HIDE DEF m, w
  <2>2. /\ w \in Session /\ w.first = NoSession.first /\ w.quoted = NoSession.quoted /\ w.turned = NoSession.turned
        /\ Len(w.queue) = Len(NoSession.queue) + 1
        /\ w.queue[Len(NoSession.queue) + 1] = [msg |-> m, history |-> t.history]
        /\ \A x \in Nat : InLine(w, x) <=> InLine(NoSession, x) \/ x = m
        /\ \A x \in Nat : InOwn(w, x) <=> InOwn(NoSession, x) \/ OnFile(t.history, x)
    BY <1>1, <2>1, QueueGrows
  <2>. QED BY <1>3, <2>2
<1>6. /\ u \in Session /\ u.state = "starting" /\ u.room = RoomOf(m) /\ u.beside = t.beside
      /\ u.first = w.first /\ u.quoted = w.quoted /\ u.turned = w.turned /\ u.queue = w.queue
  BY <1>1, <1>5 DEF Session
<1>. HIDE DEF w, m
<1>7. \A x : (InLine(u, x) <=> InLine(w, x)) /\ (InOwn(u, x) <=> InOwn(w, x))
  BY <1>6 DEF InLine, InOwn
<1>8. OnFile(t.history, m) => Twice(rec, m)
  BY DEF HandOK, m
<1>9. ASSUME NEW x \in Nat, OnFile(t.history, x) PROVE OnFile(rec, x)
  <2>1. PICK i \in 1..Len(t.history) : t.history[i] = x
    BY <1>9 DEF OnFile
  <2>. DEFINE l == Len(t.history)
              n == Len(rec)
  <2>2. l \in Nat /\ t.history # <<>>
    BY <1>1, <2>1, LenProperties, EmptySeq
  <2>3. Stands(t.history, m, t.beside, rec, 0)
    BY <2>2 DEF HandOK, m
  <2>4. 0 + l + 1 <= n /\ rec[0 + i] = x /\ i \in 1..l
    BY <2>1, <2>3 DEF Stands
  <2>5. n \in Nat /\ 0 + i = i
    BY <2>4, LenProperties
  <2>6. i \in 1..n
    BY <2>2, <2>4, <2>5
  <2>. QED BY <2>4, <2>5, <2>6 DEF OnFile
<1>10. /\ \A x \in Nat : InLine(u, x) \/ InOwn(u, x) => OnFile(rec, x)
       /\ \A x \in Nat : InLine(u, x) /\ InOwn(u, x) /\ x \notin u.beside => Twice(rec, x)
       /\ \A x \in Nat : InLine(u, x) => x = m
  BY <1>1, <1>4, <1>5, <1>7, <1>8, <1>9
<1>11. LineOK(u, rec)
  <2>0. Len(u.queue) = 1
    BY <1>5, <1>6
  <2>1. \A i, j \in 1..1 : i = j
    OBVIOUS
  <2>. QED BY <2>0, <2>1, <1>3, <1>5, <1>6 DEF LineOK
<1>12. QuotesOK(u, rec)
  <2>1. ASSUME NEW j \in 1..Len(u.queue), u.queue[j].history # <<>>
        PROVE  Stands(u.queue[j].history, u.queue[j].msg, u.beside, rec, 0)
    <3>0. Len(u.queue) = 1
      BY <1>5, <1>6
    <3>1. j = 1
      <4>1. \A i \in 1..1 : i = 1
        OBVIOUS
      <4>. QED BY <3>0, <4>1
    <3>2. u.queue[j].history = t.history /\ u.queue[j].msg = m
      BY <3>1, <1>5, <1>6
    <3>. QED BY <2>1, <3>2, <1>6 DEF HandOK, m
  <2>. QED BY <2>1, <1>2, <1>5, <1>6 DEF QuotesOK
<1>. QED BY <1>1, <1>6, <1>10, <1>11, <1>12 DEF SessionOK, m

\* The first message of a queue leaves it.
LEMMA QueueShrinks ==
  ASSUME NEW s \in Session, s.queue # <<>>
  PROVE  LET q == s.queue
             z == Tail(q)
         IN /\ q \in Seq(Pending) /\ Head(q) = q[1] /\ q[1] \in Pending /\ 1 \in 1..Len(q)
            /\ z \in Seq(Pending) /\ Len(q) \in Nat /\ Len(z) \in Nat
            /\ \A j \in 1..Len(z) : z[j] = q[j + 1] /\ j + 1 \in 1..Len(q) /\ 1 # j + 1
<1>. DEFINE q == s.queue
            z == Tail(q)
<1>1. q \in Seq(Pending)
  BY DEF Session
<1>. HIDE DEF q
<1>2. q # <<>>
  BY DEF q
<1>3. Len(q) \in Nat /\ Len(q) > 0 /\ Head(q) = q[1]
  BY <1>1, <1>2, EmptySeq, LenProperties
<1>4. z \in Seq(Pending) /\ Len(z) = Len(q) - 1 /\ \A j \in 1..Len(z) : z[j] = q[j + 1]
  BY <1>1, <1>2, HeadTailProperties
<1>. HIDE DEF z
<1>5. 1 \in 1..Len(q) /\ Len(z) \in Nat /\ \A j \in 1..Len(z) : j + 1 \in 1..Len(q) /\ 1 # j + 1
  BY <1>3, <1>4
<1>6. q[1] \in Pending
  BY <1>1, <1>5, ElementOfSeq
<1>. QED BY <1>1, <1>3, <1>4, <1>5, <1>6 DEF q, z

LEMMA KnowsLess ==
  ASSUME NEW s, NEW t,
         \A i \in 1..Len(t.turned) : InLine(s, t.turned[i]),
         \A j \in 1..Len(t.queue) : InLine(s, t.queue[j].msg),
         \A i \in 1..Len(t.quoted) : InOwn(s, t.quoted[i]),
         \A j \in 1..Len(t.queue) : \A i \in 1..Len(t.queue[j].history) : InOwn(s, t.queue[j].history[i])
  PROVE  \A m \in Nat : (InLine(t, m) => InLine(s, m)) /\ (InOwn(t, m) => InOwn(s, m))
<1>1. ASSUME NEW m \in Nat, InLine(t, m) PROVE InLine(s, m)
  <2>1. \/ \E i \in 1..Len(t.turned) : t.turned[i] = m
        \/ \E j \in 1..Len(t.queue) : t.queue[j].msg = m
    BY <1>1 DEF InLine
  <2>. QED BY <2>1
<1>2. ASSUME NEW m \in Nat, InOwn(t, m) PROVE InOwn(s, m)
  <2>1. \/ \E i \in 1..Len(t.quoted) : t.quoted[i] = m
        \/ \E j \in 1..Len(t.queue) : \E i \in 1..Len(t.queue[j].history) : t.queue[j].history[i] = m
    BY <1>2 DEF InOwn
  <2>. QED BY <2>1
<1>. QED BY <1>1, <1>2

\* A message that leaves the queue without a turn.
LEMMA MissedKeeps ==
  ASSUME NEW rec, NEW s, SessionOK(s, rec), s.state = "live", s.queue # <<>>, NEW t, t = Missed(s)
  PROVE  SessionOK(t, rec) /\ Narrows(t, s) /\ t.state = "live"
<1>. DEFINE q == s.queue
            z == Tail(q)
<1>1. s \in Session /\ s.room \in Rooms
  BY DEF SessionOK
<1>2. /\ z \in Seq(Pending)
      /\ \A j \in 1..Len(z) : z[j] = q[j + 1] /\ j + 1 \in 1..Len(q)
  BY <1>1, QueueShrinks
<1>3. /\ t \in Session /\ t.queue = z /\ t.state = "live" /\ t.room = s.room /\ t.first = s.first
      /\ t.quoted = s.quoted /\ t.turned = s.turned /\ t.beside = s.beside
  BY <1>1, <1>2 DEF Session, Missed
<1>. HIDE DEF z, q
<1>4. \A m \in Nat : (InLine(t, m) => InLine(s, m)) /\ (InOwn(t, m) => InOwn(s, m))
  <2>1. \A i \in 1..Len(s.turned) : InLine(s, s.turned[i])
    BY DEF InLine
  <2>2. \A j \in 1..Len(z) : InLine(s, z[j].msg)
    BY <1>2 DEF InLine, q
  <2>3. \A i \in 1..Len(s.quoted) : InOwn(s, s.quoted[i])
    BY DEF InOwn
  <2>4. \A j \in 1..Len(z) : \A i \in 1..Len(z[j].history) : InOwn(s, z[j].history[i])
    BY <1>2 DEF InOwn, q
  <2>5. t.queue = z /\ t.turned = s.turned /\ t.quoted = s.quoted
    BY <1>3
  <2>. QED BY <2>1, <2>2, <2>3, <2>4, <2>5, KnowsLess
<1>5. LineOK(t, rec)
  <2>1. LineOK(s, rec)
    BY DEF SessionOK
  <2>2. \A i, j \in 1..Len(z) : i # j => i + 1 # j + 1
    OBVIOUS
  <2>3. \A i, j \in 1..Len(z) : i # j /\ z[i].msg = z[j].msg => Twice(rec, z[i].msg)
    BY <1>2, <2>1, <2>2 DEF LineOK, q
  <2>4. \A i \in 1..Len(s.turned), j \in 1..Len(z) : s.turned[i] = z[j].msg => Twice(rec, s.turned[i])
    BY <1>2, <2>1 DEF LineOK, q
  <2>. QED BY <1>3, <2>1, <2>3, <2>4 DEF LineOK
<1>6. QuotesOK(t, rec)
  BY <1>2, <1>3 DEF SessionOK, QuotesOK, q
<1>. QED BY <1>1, <1>3, <1>4, <1>5, <1>6 DEF SessionOK, Narrows

\* A turn: the first one quotes an end of what it brings.
LEMMA TurnKeeps ==
  ASSUME NEW rec, NEW s, SessionOK(s, rec), s.state = "live", s.queue # <<>>, NEW asked,
         asked.history = IF s.first THEN s.queue[1].history ELSE <<>>,
         NEW t, t = Turned(s, s.queue[1].msg, Quoted(asked))
  PROVE  SessionOK(t, rec) /\ Narrows(t, s) /\ t.state = "live"
<1>. DEFINE q == s.queue
            z == Tail(q)
            m == q[1].msg
            c == Quoted(asked)
            n == Len(s.turned)
            turned == Append(s.turned, m)
            quoted == s.quoted \o c
<1>1. s \in Session /\ s.room \in Rooms
  BY DEF SessionOK
<1>2. /\ q[1] \in Pending /\ 1 \in 1..Len(q) /\ z \in Seq(Pending) /\ Len(z) \in Nat
      /\ \A j \in 1..Len(z) : z[j] = q[j + 1] /\ j + 1 \in 1..Len(q) /\ 1 # j + 1
  BY <1>1, QueueShrinks
<1>3. /\ s.turned \in Seq(Nat) /\ s.quoted \in Seq(Nat) /\ m \in Nat /\ q[1].history \in Seq(Nat)
      /\ n \in Nat /\ Len(s.quoted) \in Nat
  BY <1>1, <1>2, LenProperties DEF Session, Pending
<1>4. asked.history \in Seq(Nat) /\ Len(asked.history) \in Nat
  BY <1>3, EmptySeq, LenProperties
<1>5. /\ c \in Seq(Nat) /\ Len(c) \in Nat /\ Len(c) <= Len(asked.history)
      /\ \A i \in 1..Len(c) : c[i] = asked.history[Len(asked.history) - Len(c) + i]
  BY <1>4, QuotesAnEnd, LenProperties
<1>6. turned \in Seq(Nat) /\ Len(turned) = n + 1 /\ turned[n + 1] = m /\ \A i \in 1..n : turned[i] = s.turned[i]
  BY <1>3, AppendProperties
<1>7. /\ quoted \in Seq(Nat) /\ Len(quoted) = Len(s.quoted) + Len(c)
      /\ \A i \in 1..Len(quoted) : quoted[i] = IF i <= Len(s.quoted) THEN s.quoted[i] ELSE c[i - Len(s.quoted)]
  BY <1>3, <1>5, ConcatProperties
<1>8. /\ t \in Session /\ t.queue = z /\ t.state = "live" /\ t.room = s.room /\ t.first = FALSE
      /\ t.quoted = quoted /\ t.turned = turned /\ t.beside = s.beside
  BY <1>1, <1>2, <1>6, <1>7 DEF Session, Turned, Missed
<1>. HIDE DEF turned, quoted, c, z
<1>9. \A i \in 1..(n + 1) : i = n + 1 \/ i \in 1..n
  BY <1>3
<1>10. LineOK(t, rec)
  <2>1. LineOK(s, rec)
    BY DEF SessionOK
  <2>. HIDE DEF q, n, m
  <2>2. \A i \in 1..n : s.turned[i] = m => Twice(rec, m)
    BY <1>2, <2>1 DEF LineOK, m, n, q
  <2>3. ASSUME NEW i \in 1..(n + 1), NEW j \in 1..(n + 1), i # j, turned[i] = turned[j]
        PROVE  Twice(rec, turned[i])
    <3>1. CASE i \in 1..n /\ j \in 1..n
      BY <1>6, <2>1, <2>3, <3>1 DEF LineOK, n
    <3>2. CASE i = n + 1 /\ j \in 1..n
      BY <1>6, <2>2, <2>3, <3>2
    <3>3. CASE j = n + 1 /\ i \in 1..n
      BY <1>6, <2>2, <2>3, <3>3
    <3>. QED BY <1>9, <2>3, <3>1, <3>2, <3>3
  <2>4. ASSUME NEW i \in 1..Len(z), NEW j \in 1..Len(z), i # j, z[i].msg = z[j].msg
        PROVE  Twice(rec, z[i].msg)
    <3>1. i + 1 # j + 1
      BY <2>4
    <3>. QED BY <1>2, <2>1, <2>4, <3>1 DEF LineOK, q
  <2>5. ASSUME NEW i \in 1..(n + 1), NEW j \in 1..Len(z), turned[i] = z[j].msg
        PROVE  Twice(rec, turned[i])
    <3>1. CASE i \in 1..n
      BY <1>2, <1>6, <2>1, <2>5, <3>1 DEF LineOK, n, q
    <3>2. CASE i = n + 1
      <4>1. q[1].msg = q[j + 1].msg => Twice(rec, q[1].msg)
        BY <1>2, <2>1 DEF LineOK, q
      <4>. QED BY <1>2, <1>6, <2>5, <3>2, <4>1 DEF m
    <3>. QED BY <1>9, <3>1, <3>2
  <2>. QED BY <1>6, <1>8, <2>3, <2>4, <2>5 DEF LineOK
<1>11. ASSUME s.first
       PROVE  QuotesOK(t, rec) /\ \A i \in 1..Len(quoted) : InOwn(s, quoted[i])
  <2>1. s.quoted = <<>> /\ s.turned = <<>> /\ n = 0 /\ Len(s.quoted) = 0
    BY <1>11, EmptySeq DEF SessionOK, QuotesOK
  <2>2. quoted = c /\ turned[1] = m /\ asked.history = q[1].history
    BY <1>5, <1>6, <1>11, <2>1, ConcatEmptySeq DEF quoted
  <2>3. \A i \in 1..Len(c) : Len(asked.history) - Len(c) + i \in 1..Len(asked.history)
    <3>1. \A a, b \in Nat : b <= a => \A i \in 1..b : a - b + i \in 1..a
      OBVIOUS
    <3>. QED BY <3>1, <1>4, <1>5
  <2>4. ASSUME NEW i \in 1..Len(c) PROVE \E k \in 1..Len(q[1].history) : q[1].history[k] = c[i]
    BY <1>5, <2>2, <2>3
  <2>5. QuotesOK(t, rec)
    <3>1. quoted # <<>> => \E k \in Nat : Stands(quoted, turned[1], s.beside, rec, k)
      <4>. SUFFICES ASSUME quoted # <<>> PROVE \E k \in Nat : Stands(c, m, s.beside, rec, k)
        BY <2>2
      <4>. DEFINE a == Len(asked.history)
                  b == Len(c)
      <4>1. b > 0 /\ asked.history # <<>>
        BY <1>4, <1>5, <2>2, EmptySeq
      <4>2. Stands(asked.history, m, s.beside, rec, 0)
        BY <1>2, <2>2, <4>1 DEF SessionOK, QuotesOK
      <4>3. a \in Nat /\ b \in Nat /\ b <= a /\ \A i \in 1..b : c[i] = asked.history[a - b + i] /\ a - b + i \in 1..a
        BY <1>4, <1>5, <2>3
      <4>4. 0 + a + 1 <= Len(rec) /\ (s.beside = {} => rec[0 + a + 1] = m) /\ \A i \in 1..a : rec[0 + i] = asked.history[i]
        BY <4>2 DEF Stands
      <4>. HIDE DEF a, b, m, q
      <4>5. a - b \in Nat /\ (a - b) + b + 1 = 0 + a + 1 /\ \A i \in 1..b : (a - b) + i = 0 + (a - b + i)
        BY <4>3
      <4>6. \A i \in 1..b : rec[(a - b) + i] = c[i]
        BY <4>3, <4>4, <4>5
      <4>7. Stands(c, m, s.beside, rec, a - b)
        BY <4>4, <4>5, <4>6 DEF Stands, b
      <4>. QED BY <4>5, <4>7
    <3>2. \A j \in 1..Len(z) : z[j].history # <<>> => Stands(z[j].history, z[j].msg, s.beside, rec, 0)
      BY <1>2 DEF SessionOK, QuotesOK
    <3>3. turned # <<>>
      BY <1>3, <1>6, EmptySeq
    <3>. QED BY <1>8, <3>1, <3>2, <3>3 DEF QuotesOK
  <2>6. \A i \in 1..Len(quoted) : InOwn(s, quoted[i])
    BY <1>2, <2>2, <2>4 DEF InOwn
  <2>. QED BY <2>5, <2>6
<1>12. ASSUME ~ s.first
       PROVE  QuotesOK(t, rec) /\ \A i \in 1..Len(quoted) : InOwn(s, quoted[i])
  <2>1. Len(c) = 0
    BY <1>12, <1>4, <1>5, EmptySeq
  <2>2. c = <<>>
    BY <2>1, <1>5, EmptySeq
  <2>3. quoted = s.quoted
    BY <2>2, <1>3, ConcatEmptySeq DEF quoted
  <2>4. QuotesOK(t, rec)
    <3>1. quoted # <<>> => \E k \in Nat : Stands(quoted, turned[1], s.beside, rec, k)
      <4>. SUFFICES ASSUME quoted # <<>> PROVE \E k \in Nat : Stands(s.quoted, turned[1], s.beside, rec, k)
        BY <2>3
      <4>1. s.turned # <<>> /\ \E k \in Nat : Stands(s.quoted, s.turned[1], s.beside, rec, k)
        BY <2>3 DEF SessionOK, QuotesOK
      <4>2. n \in Nat \ {0}
        BY <4>1, <1>3, EmptySeq
      <4>3. turned[1] = s.turned[1]
        BY <4>2, <1>6
      <4>. QED BY <4>1, <4>3
    <3>2. \A j \in 1..Len(z) : z[j].history # <<>> => Stands(z[j].history, z[j].msg, s.beside, rec, 0)
      BY <1>2 DEF SessionOK, QuotesOK
    <3>3. turned # <<>>
      BY <1>3, <1>6, EmptySeq
    <3>. QED BY <1>8, <3>1, <3>2, <3>3 DEF QuotesOK
  <2>5. \A i \in 1..Len(quoted) : InOwn(s, quoted[i])
    BY <2>3 DEF InOwn
  <2>. QED BY <2>4, <2>5
<1>13. \A x \in Nat : (InLine(t, x) => InLine(s, x)) /\ (InOwn(t, x) => InOwn(s, x))
  <2>1. \A i \in 1..Len(turned) : InLine(s, turned[i])
    BY <1>2, <1>6, <1>9 DEF InLine
  <2>2. \A j \in 1..Len(z) : InLine(s, z[j].msg)
    BY <1>2 DEF InLine
  <2>3. \A i \in 1..Len(quoted) : InOwn(s, quoted[i])
    BY <1>11, <1>12
  <2>4. \A j \in 1..Len(z) : \A i \in 1..Len(z[j].history) : InOwn(s, z[j].history[i])
    BY <1>2 DEF InOwn
  <2>5. t.queue = z /\ t.turned = turned /\ t.quoted = quoted
    BY <1>8
  <2>. HIDE DEF q, n, m
  <2>. QED BY <2>1, <2>2, <2>3, <2>4, <2>5, KnowsLess
<1>14. QuotesOK(t, rec)
  BY <1>11, <1>12
<1>. QED BY <1>1, <1>8, <1>10, <1>13, <1>14 DEF SessionOK, Narrows

\* More tasks beside one that has a message in hand change nothing else about it.
LEMMA MoreBeside ==
  ASSUME NEW rec, NEW t, HandOK(t, rec), NEW u \in Holding, u.step = t.step, u.msg = t.msg,
         u.history = t.history, t.beside \subseteq u.beside
  PROVE  HandOK(u, rec) /\ (Carries(u) <=> Carries(t))
<1>1. u.beside = {} => t.beside = {}
  OBVIOUS
<1>2. Stands(t.history, t.msg, t.beside, rec, 0) => Stands(u.history, u.msg, u.beside, rec, 0)
  BY <1>1 DEF Stands
<1>3. Carries(u) <=> Carries(t)
  BY DEF Carries
<1>. QED BY <1>1, <1>2, <1>3 DEF HandOK

\* A task takes a message up.
LEMMA TakeUpStep ==
  ASSUME ListenOK, NEW h \in Handlers, NEW m \in Message, TakeUp(h, m) PROVE ListenOK'
<1>. DEFINE others == Beside(h, RoomOf(m))
            new == [step |-> "file", msg |-> m, history |-> Snapshot(m), beside |-> {hand[o].msg : o \in others}]
            rec == record[RoomOf(m)]
<1>1. /\ ~ Held(h) /\ UNCHANGED <<record, sender, session>>
      /\ hand' = [g \in Handlers |->
           IF g = h THEN new ELSE IF g \in others THEN [hand[g] EXCEPT !.beside = @ \cup {m}] ELSE hand[g]]
  BY DEF TakeUp
<1>2. m \in Nat /\ RoomOf(m) \in Rooms /\ rec \in Seq(Nat)
  BY Messages DEF ListenOK, ListenTypeOK
<1>3. others \in SUBSET Handlers /\ \A g \in Handlers : hand[g] \in Holding
  BY DEF Beside, ListenOK, ListenTypeOK
<1>4. new \in Holding
  <2>1. Snapshot(m) \in Seq(Nat)
    BY <1>2, EmptySeq DEF Snapshot
  <2>2. {hand[o].msg : o \in others} \in SUBSET Nat
    BY <1>3 DEF Holding
  <2>. HIDE DEF others
  <2>. QED BY <1>2, <2>1, <2>2 DEF Holding
<1>5. \A g \in Handlers : g # h =>
        /\ hand'[g] \in Holding /\ hand'[g].step = hand[g].step /\ hand'[g].msg = hand[g].msg
        /\ hand'[g].history = hand[g].history /\ hand[g].beside \subseteq hand'[g].beside
        /\ g \in others => m \in hand'[g].beside
  <2>. SUFFICES ASSUME NEW g \in Handlers, g # h
                PROVE  /\ hand'[g] \in Holding /\ hand'[g].step = hand[g].step /\ hand'[g].msg = hand[g].msg
                       /\ hand'[g].history = hand[g].history /\ hand[g].beside \subseteq hand'[g].beside
                       /\ g \in others => m \in hand'[g].beside
    OBVIOUS
  <2>1. hand[g] \in Holding
    BY <1>3
  <2>2. hand'[g] = IF g \in others THEN [hand[g] EXCEPT !.beside = @ \cup {m}] ELSE hand[g]
    BY <1>1
  <2>3. ASSUME NEW t \in Holding, NEW u, u = [t EXCEPT !.beside = @ \cup {m}]
        PROVE  /\ u \in Holding /\ u.step = t.step /\ u.msg = t.msg /\ u.history = t.history
               /\ t.beside \subseteq u.beside /\ m \in u.beside
    BY <1>2, <2>3 DEF Holding
  <2>. HIDE DEF others
  <2>. QED BY <2>1, <2>2, <2>3
<1>6. hand'[h] = new
  BY <1>1
<1>7. \A g \in Handlers : g # h /\ hand[g].step # "none" /\ RoomOf(hand[g].msg) = RoomOf(m) => g \in others
  BY DEF Beside, Held
<1>8. new.step = "file" /\ new.msg = m /\ new.history = Snapshot(m) /\ \A g \in others : hand[g].msg \in new.beside
  OBVIOUS
<1>. HIDE DEF new, others, rec
<1>9. HandOK(new, rec)
  <2>1. new.history # <<>> => new.history = rec
    BY <1>8 DEF Snapshot, rec
  <2>2. ~ Carries(new)
    BY <1>8 DEF Carries
  <2>3. Len(rec) \in Nat
    BY <1>2, LenProperties
  <2>. QED BY <1>4, <1>8, <2>1, <2>2, <2>3 DEF HandOK
<1>10. hand' \in [Handlers -> Holding]
  <2>1. \A g \in Handlers : hand'[g] \in Holding
    BY <1>4, <1>5, <1>6
  <2>2. hand' = [g \in Handlers |-> hand'[g]]
    BY <1>1
  <2>. QED BY <2>1, <2>2
<1>11. ASSUME NEW g \in Handlers PROVE HandOK(hand'[g], record[RoomOf(hand'[g].msg)])
  <2>1. CASE g = h
    BY <1>6, <1>8, <1>9, <2>1 DEF rec
  <2>2. CASE g # h
    <3>1. HandOK(hand[g], record[RoomOf(hand[g].msg)])
      BY DEF ListenOK, TasksOK
    <3>. QED BY <1>5, <2>2, <3>1, MoreBeside
  <2>. QED BY <2>1, <2>2
<1>12. ASSUME NEW g \in Handlers, NEW k \in Handlers, g # k
       PROVE  PairOK(hand'[g], hand'[k], record[RoomOf(hand'[k].msg)])
  <2>1. CASE g # h /\ k # h
    <3>1. PairOK(hand[g], hand[k], record[RoomOf(hand[k].msg)])
      BY <1>12 DEF ListenOK, TasksOK
    <3>. QED BY <1>5, <2>1, <3>1 DEF PairOK, Carries
  <2>2. CASE g = h /\ k # h
    <3>1. hand'[k].step # "none" /\ RoomOf(m) = RoomOf(hand'[k].msg) => m \in hand'[k].beside
      BY <1>5, <1>7, <2>2
    <3>. QED BY <1>6, <1>8, <2>2, <3>1 DEF PairOK, Carries
  <2>3. CASE g # h /\ k = h
    <3>1. hand'[g].step # "none" /\ RoomOf(hand'[g].msg) = RoomOf(m) => hand'[g].msg \in new.beside
      BY <1>5, <1>7, <1>8, <2>3
    <3>. QED BY <1>6, <1>8, <2>3, <3>1 DEF PairOK, Carries
  <2>. QED BY <1>12, <2>1, <2>2, <2>3
<1>13. ASSUME NEW g \in Handlers, NEW x \in Sessions PROVE CarryOK(hand'[g], session[x], record[session[x].room])
  <2>1. CASE g = h
    BY <1>6, <1>8, <2>1 DEF CarryOK, Carries
  <2>2. CASE g # h
    <3>1. CarryOK(hand[g], session[x], record[session[x].room])
      BY DEF ListenOK, TalksOK
    <3>. QED BY <1>5, <2>2, <3>1 DEF CarryOK, Carries
  <2>. QED BY <2>1, <2>2
<1>14. TasksOK'
  BY <1>1, <1>11, <1>12 DEF TasksOK
<1>15. TalksOK'
  BY <1>1, <1>13 DEF TalksOK, ListenOK
<1>16. SendersOK' /\ ListenTypeOK'
  BY <1>1, <1>10 DEF SendersOK, ListenTypeOK, ListenOK
<1>. QED BY <1>14, <1>15, <1>16 DEF ListenOK

\* A task files its message.
LEMMA FileStep ==
  ASSUME ListenOK, NEW h \in Handlers, PersistMessage(h) PROVE ListenOK'
<1>. DEFINE t == hand[h]
            m == t.msg
            r == RoomOf(m)
            rec == record[r]
            longer == Append(rec, m)
            u == [t EXCEPT !.step = "route"]
<1>1. /\ t.step = "file" /\ UNCHANGED <<sender, session>>
      /\ record' = [record EXCEPT ![r] = longer] /\ hand' = [hand EXCEPT ![h] = u]
  BY DEF PersistMessage
<1>2. HandOK(t, rec) /\ m \in Message
  <2>1. HandOK(t, rec)
    BY DEF ListenOK, TasksOK
  <2>. QED BY <1>1, <2>1 DEF HandOK
<1>3. m \in Nat /\ r \in Rooms /\ rec \in Seq(Nat) /\ t \in Holding
  BY <1>2, Messages DEF ListenOK, ListenTypeOK
<1>4. /\ HandOK(u, longer) /\ Carries(u) /\ u.msg = m /\ u.beside = t.beside /\ u.step # "none"
      /\ \A s : SessionOK(s, rec) => CarryOK(u, s, longer)
  <2>1. u = [t EXCEPT !.step = "route"]
    OBVIOUS
  <2>. HIDE DEF rec, u, t
  <2>. QED BY <1>1, <1>2, <1>3, <2>1, FiledIs
<1>5. /\ \A x \in Nat : (OnFile(rec, x) => OnFile(longer, x)) /\ (Twice(rec, x) => Twice(longer, x))
      /\ longer \in Seq(Nat) /\ (OnFile(rec, m) => Twice(longer, m))
  BY <1>3, RecordGrows
<1>6. /\ \A w \in Rooms : record'[w] = IF w = r THEN longer ELSE record[w]
      /\ \A w : w # r => record'[w] = record[w]
      /\ hand'[h] = u /\ \A g \in Handlers : g # h => hand'[g] = hand[g]
  BY <1>1 DEF ListenOK, ListenTypeOK
<1>7. u \in Holding
  BY <1>4 DEF HandOK
<1>8. ListenTypeOK'
  <2>1. record' \in [Rooms -> Seq(Nat)]
    BY <1>1, <1>5 DEF ListenOK, ListenTypeOK
  <2>2. hand' \in [Handlers -> Holding]
    BY <1>1, <1>7 DEF ListenOK, ListenTypeOK
  <2>. QED BY <1>1, <2>1, <2>2 DEF ListenOK, ListenTypeOK
<1>. HIDE DEF u, longer
<1>9. ASSUME NEW g \in Handlers, g # h, hand[g].step # "none", RoomOf(hand[g].msg) = r
      PROVE  m \in hand[g].beside
  <2>1. PairOK(t, hand[g], record[RoomOf(hand[g].msg)])
    BY <1>9 DEF ListenOK, TasksOK
  <2>. QED BY <1>1, <1>9, <2>1 DEF PairOK
<1>10. ASSUME NEW g \in Handlers, g # h PROVE HandOK(hand[g], record'[RoomOf(hand[g].msg)])
  <2>1. HandOK(hand[g], record[RoomOf(hand[g].msg)])
    BY DEF ListenOK, TasksOK
  <2>2. CASE hand[g].step = "none"
    BY <2>1, <2>2 DEF HandOK, Carries
  <2>3. CASE RoomOf(hand[g].msg) # r
    BY <1>6, <2>1, <2>3
  <2>4. CASE hand[g].step # "none" /\ RoomOf(hand[g].msg) = r
    <3>1. hand[g].beside # {}
      BY <1>9, <1>10, <2>4
    <3>2. HandOK(hand[g], rec)
      BY <2>1, <2>4
    <3>. HIDE DEF rec, m
    <3>3. HandOK(hand[g], longer)
      BY <1>3, <3>1, <3>2, HandGrows DEF longer
    <3>4. record'[RoomOf(hand[g].msg)] = longer
      BY <1>3, <1>6, <2>4
    <3>. QED BY <3>3, <3>4
  <2>. QED BY <2>2, <2>3, <2>4
<1>11. ASSUME NEW g \in Handlers PROVE HandOK(hand'[g], record'[RoomOf(hand'[g].msg)])
  <2>1. CASE g = h
    BY <1>3, <1>4, <1>6, <2>1
  <2>2. CASE g # h
    BY <1>6, <1>10, <2>2
  <2>. QED BY <2>1, <2>2
<1>12. ASSUME NEW g \in Handlers, g # h, Carries(hand[g]), hand[g].msg = m PROVE Twice(longer, m)
  <2>1. HandOK(hand[g], rec)
    BY <1>12 DEF ListenOK, TasksOK
  <2>. QED BY <1>5, <1>12, <2>1 DEF HandOK
<1>13. ASSUME NEW g \in Handlers, NEW k \in Handlers, g # k
       PROVE  PairOK(hand'[g], hand'[k], record'[RoomOf(hand'[k].msg)])
  <2>0. PairOK(hand[g], hand[k], record[RoomOf(hand[k].msg)])
    BY <1>13 DEF ListenOK, TasksOK
  <2>1. CASE g # h /\ k # h
    <3>1. CASE RoomOf(hand[k].msg) # r
      BY <1>6, <2>0, <2>1, <3>1
    <3>2. CASE RoomOf(hand[k].msg) = r
      <4>1. hand[k].msg \in Nat
        BY DEF ListenOK, ListenTypeOK, Holding
      <4>2. record'[RoomOf(hand[k].msg)] = longer /\ record[RoomOf(hand[k].msg)] = rec
        BY <1>3, <1>6, <3>2
      <4>. QED BY <1>5, <1>6, <2>0, <2>1, <4>1, <4>2 DEF PairOK
    <3>. QED BY <3>1, <3>2
  <2>2. CASE g = h
    <3>1. k # h /\ hand'[g] = u /\ hand'[k] = hand[k]
      BY <1>6, <1>13, <2>2
    <3>2. hand[k].step # "none" /\ RoomOf(hand[k].msg) = r => m \in hand[k].beside
      BY <1>9, <3>1
    <3>3. Carries(hand[k]) /\ hand[k].msg = m => Twice(longer, m)
      BY <1>12, <3>1
    <3>4. RoomOf(hand[k].msg) = r => record'[RoomOf(hand[k].msg)] = longer
      BY <1>3, <1>6
    <3>. QED BY <1>4, <3>1, <3>2, <3>3, <3>4 DEF PairOK
  <2>3. CASE k = h
    <3>1. g # h /\ hand'[k] = u /\ hand'[g] = hand[g]
      BY <1>6, <1>13, <2>3
    <3>2. hand[g].step # "none" /\ RoomOf(hand[g].msg) = r => hand[g].msg \in u.beside
      BY <1>1, <1>4, <2>0, <2>3 DEF PairOK
    <3>3. Carries(hand[g]) /\ hand[g].msg = m => Twice(longer, m)
      BY <1>12, <3>1
    <3>4. record'[RoomOf(u.msg)] = longer
      BY <1>3, <1>4, <1>6
    <3>. QED BY <1>4, <3>1, <3>2, <3>3, <3>4 DEF PairOK
  <2>. QED BY <2>1, <2>2, <2>3
<1>14. ASSUME NEW x \in Sessions
       PROVE  /\ SessionOK(session[x], record'[session[x].room])
              /\ \A g \in Handlers : CarryOK(hand'[g], session[x], record'[session[x].room])
  <2>. DEFINE s == session[x]
  <2>1. SessionOK(s, record[s.room]) /\ \A g \in Handlers : CarryOK(hand[g], s, record[s.room])
    BY DEF ListenOK, TalksOK
  <2>. HIDE DEF s
  <2>2. CASE s.room = r
    <3>1. SessionOK(s, rec) /\ record'[s.room] = longer
      BY <1>3, <1>6, <2>1, <2>2
    <3>2. SessionOK(s, longer)
      <4>. HIDE DEF rec, m
      <4>. QED BY <1>3, <3>1, SessionGrows DEF longer
    <3>3. ASSUME NEW g \in Handlers PROVE CarryOK(hand'[g], s, longer)
      <4>1. CASE g = h
        BY <1>4, <1>6, <3>1, <4>1
      <4>2. CASE g # h
        <5>1. CarryOK(hand[g], s, rec) /\ hand[g].msg \in Nat
          BY <2>1, <2>2 DEF ListenOK, ListenTypeOK, Holding
        <5>. QED BY <1>5, <1>6, <4>2, <5>1 DEF CarryOK
      <4>. QED BY <4>1, <4>2
    <3>. QED BY <3>1, <3>2, <3>3 DEF s
  <2>3. CASE s.room # r
    <3>1. record'[s.room] = record[s.room]
      BY <1>6, <2>3
    <3>2. ASSUME NEW g \in Handlers PROVE CarryOK(hand'[g], s, record[s.room])
      <4>1. CASE g = h
        BY <1>4, <1>6, <2>3, <4>1 DEF CarryOK
      <4>2. CASE g # h
        BY <1>6, <2>1, <4>2
      <4>. QED BY <4>1, <4>2
    <3>. QED BY <2>1, <3>1, <3>2 DEF s
  <2>. QED BY <2>2, <2>3
<1>15. TasksOK'
  BY <1>11, <1>13 DEF TasksOK
<1>16. TalksOK'
  BY <1>1, <1>14 DEF TalksOK
<1>17. SendersOK'
  BY <1>1 DEF SendersOK, ListenOK
<1>. QED BY <1>8, <1>15, <1>16, <1>17 DEF ListenOK

\* A task's hand is empty again, its message with a session, or nobody's.
LEMMA HandsOver ==
  ASSUME ListenOK, NEW h \in Handlers, hand' = [hand EXCEPT ![h] = NoMessage], UNCHANGED record,
         NEW x \in Sessions, NEW t, session' = [session EXCEPT ![x] = t],
         SessionOK(t, record[t.room]), t.state # "none",
         \A g \in Handlers : g # h => CarryOK(hand[g], t, record[t.room]),
         \/ sender' = sender /\ session[x].state # "none" /\ t.room = session[x].room
         \/ sender' = [sender EXCEPT ![t.room] = x] /\ session[x].state = "none"
  PROVE  ListenOK'
<1>1. t \in Session /\ t.room \in Rooms /\ NoMessage \in Holding
  BY NothingRead DEF SessionOK
<1>2. ListenTypeOK'
  <2>1. sender' \in [Rooms -> Sessions \cup {Nobody}]
    BY DEF ListenOK, ListenTypeOK
  <2>. QED BY <1>1, <2>1 DEF ListenOK, ListenTypeOK
<1>3. \A g \in Handlers : hand'[g] = IF g = h THEN NoMessage ELSE hand[g]
  BY DEF ListenOK, ListenTypeOK
<1>4. \A y \in Sessions : session'[y] = IF y = x THEN t ELSE session[y]
  BY DEF ListenOK, ListenTypeOK
<1>5. TasksOK'
  <2>1. ASSUME NEW g \in Handlers PROVE HandOK(hand'[g], record[RoomOf(hand'[g].msg)])
    BY <1>3, NothingRead DEF ListenOK, TasksOK
  <2>2. ASSUME NEW g \in Handlers, NEW k \in Handlers, g # k
        PROVE  PairOK(hand'[g], hand'[k], record[RoomOf(hand'[k].msg)])
    <3>1. CASE g = h \/ k = h
      BY <1>3, <3>1, NothingRead DEF PairOK
    <3>2. CASE g # h /\ k # h
      BY <1>3, <2>2, <3>2 DEF ListenOK, TasksOK
    <3>. QED BY <3>1, <3>2
  <2>. QED BY <2>1, <2>2 DEF TasksOK
<1>6. TalksOK'
  <2>1. ASSUME NEW y \in Sessions PROVE SessionOK(session'[y], record[session'[y].room])
    BY <1>4 DEF ListenOK, TalksOK
  <2>2. ASSUME NEW y \in Sessions, NEW g \in Handlers PROVE CarryOK(hand'[g], session'[y], record[session'[y].room])
    <3>1. CASE g = h
      BY <1>3, <3>1, NothingRead DEF CarryOK
    <3>2. CASE g # h
      BY <1>3, <1>4, <3>2 DEF ListenOK, TalksOK
    <3>. QED BY <3>1, <3>2
  <2>. QED BY <2>1, <2>2 DEF TalksOK
<1>7. SendersOK'
  <2>. SUFFICES ASSUME NEW r \in Rooms, sender'[r] # Nobody
                PROVE  session'[sender'[r]].state # "none" /\ session'[sender'[r]].room = r
    BY DEF SendersOK
  <2>1. sender'[r] \in Sessions
    BY <1>2 DEF ListenTypeOK
  <2>2. sender[r] \in Sessions => session[sender[r]].state # "none" /\ session[sender[r]].room = r
    BY ContextAssumption DEF ListenOK, SendersOK
  <2>3. CASE sender' = sender /\ session[x].state # "none" /\ t.room = session[x].room
    BY <1>4, <2>1, <2>2, <2>3
  <2>4. CASE sender' = [sender EXCEPT ![t.room] = x] /\ session[x].state = "none"
    <3>1. sender'[r] = IF r = t.room THEN x ELSE sender[r]
      BY <2>4 DEF ListenOK, ListenTypeOK
    <3>. QED BY <1>4, <2>1, <2>2, <2>4, <3>1
  <2>. QED BY <2>3, <2>4
<1>. QED BY <1>2, <1>5, <1>6, <1>7 DEF ListenOK

\* What any other task carries, of the room, when one hands its message over.
LEMMA OthersCarry ==
  ASSUME ListenOK, NEW h \in Handlers, Carries(hand[h]), NEW g \in Handlers, g # h, Carries(hand[g]),
         RoomOf(hand[g].msg) = RoomOf(hand[h].msg)
  PROVE  /\ hand[g].msg \in hand[h].beside
         /\ hand[g].msg = hand[h].msg => Twice(record[RoomOf(hand[h].msg)], hand[h].msg)
<1>1. PairOK(hand[g], hand[h], record[RoomOf(hand[h].msg)])
  BY DEF ListenOK, TasksOK
<1>. QED BY <1>1 DEF PairOK, Carries

LEMMA RouteStep == ASSUME ListenOK, NEW h \in Handlers, Route(h) PROVE ListenOK'
<1>. DEFINE t == hand[h]
            m == t.msg
            r == RoomOf(m)
            x == sender[r]
<1>1. t.step = "route" /\ Carries(t) /\ UNCHANGED <<record, sender>>
  BY DEF Route, Carries
<1>2. HandOK(t, record[r]) /\ m \in Message
  <2>1. HandOK(t, record[r])
    BY DEF ListenOK, TasksOK
  <2>. QED BY <1>1, <2>1 DEF HandOK
<1>3. m \in Nat /\ r \in Rooms /\ record[r] \in Seq(Nat) /\ t \in Holding
  BY <1>2, Messages DEF ListenOK, ListenTypeOK
<1>4. CASE Say[m].wakes /\ x # Nobody
  <2>. DEFINE s == session[x]
              u == Queued(s, m, <<>>)
  <2>1. hand' = [hand EXCEPT ![h] = NoMessage] /\ session' = [session EXCEPT ![x] = u]
    BY <1>4 DEF Route
  <2>2. x \in Sessions /\ s.state # "none" /\ s.room = r
    BY <1>3, <1>4 DEF ListenOK, ListenTypeOK, SendersOK
  <2>3. SessionOK(s, record[r]) /\ \A g \in Handlers : CarryOK(hand[g], s, record[r])
    BY <2>2 DEF ListenOK, TalksOK
  <2>4. s \in Session
    BY <2>3 DEF SessionOK
  <2>5. u = Queued(s, m, <<>>) /\ <<>> \in Seq(Nat) /\ Len(<<>>) = 0
    BY EmptySeq
  <2>. DEFINE none == <<>>
  <2>6. /\ u.state = s.state /\ u.room = s.room /\ u.beside = s.beside
        /\ \A y \in Nat : InLine(u, y) <=> InLine(s, y) \/ y = m
        /\ \A y \in Nat : InOwn(u, y) <=> InOwn(s, y) \/ OnFile(none, y)
    <3>1. u = Queued(s, m, none) /\ none \in Seq(Nat)
      BY <2>5
    <3>. HIDE DEF u, none, s, m, x, r, t
    <3>2. u.state = s.state /\ u.room = s.room /\ u.beside = s.beside
      BY <2>4 DEF Queued, Session, u
    <3>3. \A y \in Nat : InLine(u, y) <=> InLine(s, y) \/ y = m
      BY <1>3, <2>4, <3>1, QueueGrows
    <3>4. \A y \in Nat : InOwn(u, y) <=> InOwn(s, y) \/ OnFile(none, y)
      BY <1>3, <2>4, <3>1, QueueGrows
    <3>. QED BY <3>2, <3>3, <3>4
  <2>7. \A y \in Nat : ~ OnFile(none, y)
    BY <2>5 DEF OnFile
  <2>8. SessionOK(u, record[r])
    <3>. HIDE DEF s, t, x
    <3>. QED BY <1>1, <1>2, <2>2, <2>3, RouteKeeps DEF t
  <2>. HIDE DEF u, none
  <2>9. ASSUME NEW g \in Handlers, g # h PROVE CarryOK(hand[g], u, record[r])
    <3>1. CASE ~ Carries(hand[g]) \/ RoomOf(hand[g].msg) # r
      BY <2>2, <2>6, <3>1 DEF CarryOK
    <3>2. CASE Carries(hand[g]) /\ RoomOf(hand[g].msg) = r
      <4>1. hand[g].msg \in Nat
        BY DEF ListenOK, ListenTypeOK, Holding
      <4>2. hand[g].msg = m => Twice(record[r], m)
        BY <1>1, <2>9, <3>2, OthersCarry
      <4>3. CarryOK(hand[g], s, record[r])
        BY <2>3
      <4>. HIDE DEF s, m, r
      <4>. QED BY <2>2, <2>6, <2>7, <3>2, <4>1, <4>2, <4>3 DEF CarryOK
    <3>. QED BY <3>1, <3>2
  <2>10. u.room = r /\ u.state # "none"
    BY <2>2, <2>6
  <2>. HIDE DEF r, m, x
  <2>. QED BY <1>1, <2>1, <2>2, <2>8, <2>9, <2>10, HandsOver
<1>5. CASE Say[m].wakes /\ x = Nobody
  <2>. DEFINE u == [t EXCEPT !.step = "start"]
  <2>1. hand' = [hand EXCEPT ![h] = u] /\ UNCHANGED session
    BY <1>5 DEF Route
  <2>2. /\ u \in Holding /\ u.step = "start" /\ Carries(u) /\ u.msg = t.msg /\ u.history = t.history /\ u.beside = t.beside
    BY <1>3 DEF Holding, Carries
  <2>. HIDE DEF u
  <2>3. \A g \in Handlers : hand'[g] = IF g = h THEN u ELSE hand[g]
    BY <2>1 DEF ListenOK, ListenTypeOK
  <2>4. HandOK(u, record[r])
    BY <1>1, <1>2, <2>2 DEF HandOK
  <2>5. TasksOK'
    <3>1. ASSUME NEW g \in Handlers PROVE HandOK(hand'[g], record[RoomOf(hand'[g].msg)])
      BY <2>2, <2>3, <2>4 DEF ListenOK, TasksOK
    <3>2. ASSUME NEW g \in Handlers, NEW k \in Handlers, g # k
          PROVE  PairOK(hand'[g], hand'[k], record[RoomOf(hand'[k].msg)])
      <4>1. PairOK(hand[g], hand[k], record[RoomOf(hand[k].msg)])
        BY <3>2 DEF ListenOK, TasksOK
      <4>2. \A k_ \in Handlers : /\ hand'[k_].msg = hand[k_].msg /\ hand'[k_].beside = hand[k_].beside
                                 /\ hand'[k_].step # "none" <=> hand[k_].step # "none"
                                 /\ Carries(hand'[k_]) <=> Carries(hand[k_])
        BY <1>1, <2>2, <2>3
      <4>. QED BY <4>1, <4>2 DEF PairOK
    <3>. QED BY <1>1, <3>1, <3>2 DEF TasksOK
  <2>6. TalksOK'
    <3>1. ASSUME NEW g \in Handlers, NEW y \in Sessions PROVE CarryOK(hand'[g], session[y], record[session[y].room])
      <4>1. CarryOK(hand[g], session[y], record[session[y].room])
        BY DEF ListenOK, TalksOK
      <4>2. hand'[g].msg = hand[g].msg /\ (Carries(hand'[g]) <=> Carries(hand[g]))
        BY <1>1, <2>2, <2>3
      <4>. QED BY <4>1, <4>2 DEF CarryOK
    <3>. QED BY <1>1, <2>1, <3>1 DEF TalksOK, ListenOK
  <2>7. ListenTypeOK' /\ SendersOK'
    BY <1>1, <2>1, <2>2 DEF ListenOK, ListenTypeOK, SendersOK
  <2>. QED BY <2>5, <2>6, <2>7 DEF ListenOK
<1>6. CASE ~ Say[m].wakes
  <2>1. hand' = [hand EXCEPT ![h] = NoMessage] /\ UNCHANGED session
    BY <1>6 DEF Route
  <2>2. \A g \in Handlers : hand'[g] = IF g = h THEN NoMessage ELSE hand[g]
    BY <2>1 DEF ListenOK, ListenTypeOK
  <2>3. ASSUME NEW g \in Handlers PROVE HandOK(hand'[g], record[RoomOf(hand'[g].msg)])
    BY <2>2, NothingRead DEF ListenOK, TasksOK
  <2>4. ASSUME NEW g \in Handlers, NEW k \in Handlers, g # k
        PROVE  PairOK(hand'[g], hand'[k], record[RoomOf(hand'[k].msg)])
    <3>1. CASE g = h \/ k = h
      BY <2>2, <3>1, NothingRead DEF PairOK
    <3>2. CASE g # h /\ k # h
      BY <2>2, <2>4, <3>2 DEF ListenOK, TasksOK
    <3>. QED BY <3>1, <3>2
  <2>5. ASSUME NEW y \in Sessions, NEW g \in Handlers PROVE CarryOK(hand'[g], session[y], record[session[y].room])
    BY <2>2, NothingRead DEF ListenOK, TalksOK, CarryOK
  <2>6. NoMessage \in Holding
    BY NothingRead
  <2>7. ListenTypeOK' /\ SendersOK'
    BY <1>1, <2>1, <2>6 DEF ListenOK, ListenTypeOK, SendersOK
  <2>8. TasksOK'
    BY <1>1, <2>3, <2>4 DEF TasksOK
  <2>9. TalksOK'
    BY <1>1, <2>1, <2>5 DEF TalksOK, ListenOK
  <2>. QED BY <2>7, <2>8, <2>9 DEF ListenOK
<1>. QED BY <1>4, <1>5, <1>6

LEMMA StartStep == ASSUME ListenOK, NEW h \in Handlers, StartSession(h) PROVE ListenOK'
<1>. DEFINE t == hand[h]
            m == t.msg
            r == RoomOf(m)
            u == [Queued(NoSession, m, t.history) EXCEPT !.state = "starting", !.room = RoomOf(m), !.beside = t.beside]
<1>1. t.step = "start" /\ Carries(t) /\ UNCHANGED record /\ hand' = [hand EXCEPT ![h] = NoMessage]
  BY DEF StartSession, Carries
<1>2. PICK x \in Sessions : /\ session[x].state = "none" /\ session' = [session EXCEPT ![x] = u]
                            /\ sender' = [sender EXCEPT ![r] = x]
  BY DEF StartSession
<1>3. HandOK(t, record[r]) /\ m \in Message
  <2>1. HandOK(t, record[r])
    BY DEF ListenOK, TasksOK
  <2>. QED BY <1>1, <2>1 DEF HandOK
<1>4. r \in Rooms /\ record[r] \in Seq(Nat)
  BY <1>3, Messages DEF ListenOK, ListenTypeOK
<1>5. /\ SessionOK(u, record[r]) /\ u.state # "none" /\ u.room = r /\ u.beside = t.beside
      /\ \A y \in Nat : InLine(u, y) => y = m
  <2>. HIDE DEF t
  <2>. QED BY <1>1, <1>3, <1>4, StartKeeps
<1>. HIDE DEF u
<1>6. ASSUME NEW g \in Handlers, g # h PROVE CarryOK(hand[g], u, record[r])
  <2>1. CASE ~ Carries(hand[g]) \/ RoomOf(hand[g].msg) # r
    BY <1>5, <2>1 DEF CarryOK
  <2>2. CASE Carries(hand[g]) /\ RoomOf(hand[g].msg) = r
    <3>1. hand[g].msg \in Nat
      BY DEF ListenOK, ListenTypeOK, Holding
    <3>2. hand[g].msg \in t.beside /\ (hand[g].msg = m => Twice(record[r], m))
      BY <1>1, <1>6, <2>2, OthersCarry
    <3>. HIDE DEF t, m, r
    <3>. QED BY <1>5, <2>2, <3>1, <3>2 DEF CarryOK
  <2>. QED BY <2>1, <2>2
<1>. HIDE DEF r, m, t
<1>. QED BY <1>1, <1>2, <1>5, <1>6, HandsOver

\* A session moves by itself.
LEMMA SessionMoves ==
  ASSUME ListenOK, UNCHANGED <<record, hand>>, NEW x \in Sessions, NEW t, session' = [session EXCEPT ![x] = t],
         SessionOK(t, record[t.room]), Narrows(t, session[x]),
         \/ sender' = sender /\ t.state # "none"
         \/ sender' = [r \in Rooms |-> IF sender[r] = x THEN Nobody ELSE sender[r]]
  PROVE  ListenOK'
<1>1. t \in Session
  BY DEF SessionOK
<1>2. ListenTypeOK'
  <2>1. sender' \in [Rooms -> Sessions \cup {Nobody}]
    BY DEF ListenOK, ListenTypeOK
  <2>. QED BY <1>1, <2>1 DEF ListenOK, ListenTypeOK
<1>3. \A y \in Sessions : session'[y] = IF y = x THEN t ELSE session[y]
  BY DEF ListenOK, ListenTypeOK
<1>4. TasksOK'
  BY DEF ListenOK, TasksOK
<1>5. TalksOK'
  <2>1. ASSUME NEW y \in Sessions PROVE SessionOK(session'[y], record[session'[y].room])
    BY <1>3 DEF ListenOK, TalksOK
  <2>2. ASSUME NEW y \in Sessions, NEW g \in Handlers PROVE CarryOK(hand[g], session'[y], record[session'[y].room])
    <3>1. CarryOK(hand[g], session[y], record[session[y].room]) /\ hand[g].msg \in Nat
      BY DEF ListenOK, ListenTypeOK, TalksOK, Holding
    <3>2. CASE y # x
      BY <1>3, <3>1, <3>2
    <3>3. CASE y = x
      <4>1. CarryOK(hand[g], t, record[t.room])
        BY <3>1, <3>3 DEF CarryOK, Narrows
      <4>. QED BY <1>3, <3>3, <4>1
    <3>. QED BY <3>2, <3>3
  <2>. QED BY <2>1, <2>2 DEF TalksOK
<1>6. SendersOK'
  <2>. SUFFICES ASSUME NEW r \in Rooms, sender'[r] # Nobody
                PROVE  session'[sender'[r]].state # "none" /\ session'[sender'[r]].room = r
    BY DEF SendersOK
  <2>1. sender'[r] = sender[r] /\ sender[r] \in Sessions /\ (sender[r] = x => t.state # "none")
    BY DEF ListenOK, ListenTypeOK
  <2>2. session[sender[r]].state # "none" /\ session[sender[r]].room = r
    BY <2>1 DEF ListenOK, SendersOK
  <2>. QED BY <1>3, <2>1, <2>2 DEF Narrows
<1>. QED BY <1>2, <1>4, <1>5, <1>6 DEF ListenOK

\* A session starts, turns and ends.
LEMMA TalkStep == ASSUME ListenOK, NEW x \in Sessions, Talk(x) PROVE ListenOK'
<1>. DEFINE s == session[x]
            rec == record[s.room]
<1>1. SessionOK(s, rec) /\ s \in Session /\ UNCHANGED <<record, hand>>
  BY DEF Talk, SessionStarts, SessionTurn, SessionEnds, ListenOK, ListenTypeOK, TalksOK
<1>2. CASE Over(x)
  <2>1. SessionOK(NoSession, record[NoSession.room]) /\ NoSession.state = "none"
    BY NothingRead
  <2>2. \A m : ~ InLine(NoSession, m) /\ ~ InOwn(NoSession, m)
    <3>1. Len(NoSession.turned) = 0 /\ Len(NoSession.queue) = 0 /\ Len(NoSession.quoted) = 0
      BY EmptySeq DEF NoSession
    <3>. QED BY <3>1 DEF InLine, InOwn
  <2>3. Narrows(NoSession, s)
    BY <2>1, <2>2 DEF Narrows
  <2>. HIDE DEF s
  <2>. QED BY <1>1, <1>2, <2>1, <2>3, SessionMoves DEF Over, s
<1>3. CASE session' = [session EXCEPT ![x].state = "live"] /\ UNCHANGED sender /\ s.state = "starting"
  <2>. DEFINE t == [s EXCEPT !.state = "live"]
  <2>1. /\ t \in Session /\ t.state = "live" /\ t.room = s.room /\ t.queue = s.queue /\ t.first = s.first
        /\ t.quoted = s.quoted /\ t.turned = s.turned /\ t.beside = s.beside
    BY <1>1 DEF Session
  <2>2. session' = [session EXCEPT ![x] = t]
    BY <1>3
  <2>. HIDE DEF t
  <2>3. \A m : (InLine(t, m) <=> InLine(s, m)) /\ (InOwn(t, m) <=> InOwn(s, m))
    BY <2>1, Zenon DEF InLine, InOwn
  <2>4. LineOK(t, rec)
    <3>1. LineOK(s, rec)
      BY <1>1 DEF SessionOK
    <3>. QED BY <2>1, <3>1, Zenon DEF LineOK
  <2>5. QuotesOK(t, rec)
    <3>1. QuotesOK(s, rec)
      BY <1>1 DEF SessionOK
    <3>. QED BY <2>1, <3>1, Zenon DEF QuotesOK
  <2>6. SessionOK(t, rec) /\ Narrows(t, s)
    BY <1>1, <1>3, <2>1, <2>3, <2>4, <2>5 DEF SessionOK, Narrows
  <2>. HIDE DEF s
  <2>. QED BY <1>1, <1>3, <2>1, <2>2, <2>6, SessionMoves DEF s
<1>4. CASE SessionTurn(x)
  <2>. DEFINE next == Head(s.queue)
              asked == TurnOf(s.room, next.msg, IF s.first THEN next.history ELSE <<>>)
              told == Turned(s, next.msg, Quoted(asked))
              missed == Missed(s)
  <2>1. s.state = "live" /\ s.queue # <<>> /\ UNCHANGED sender
    BY <1>4 DEF SessionTurn
  <2>2. \E t \in {told, missed} : session' = [session EXCEPT ![x] = t]
    BY <1>4 DEF SessionTurn
  <2>3. next = s.queue[1]
    BY <1>1, <2>1, QueueShrinks
  <2>4. asked.history = IF s.first THEN s.queue[1].history ELSE <<>>
    BY <2>3 DEF TurnOf, StartOf
  <2>5. SessionOK(told, rec) /\ Narrows(told, s) /\ told.state = "live"
    <3>1. told = Turned(s, s.queue[1].msg, Quoted(asked))
      BY <2>3
    <3>. HIDE DEF told, asked, s, rec, next
    <3>. QED BY <1>1, <2>1, <2>4, <3>1, TurnKeeps
  <2>6. SessionOK(missed, rec) /\ Narrows(missed, s) /\ missed.state = "live"
    <3>1. missed = Missed(s)
      OBVIOUS
    <3>. HIDE DEF missed, s, rec
    <3>. QED BY <1>1, <2>1, <3>1, MissedKeeps
  <2>. HIDE DEF told, missed
  <2>7. ASSUME NEW t \in {told, missed}, session' = [session EXCEPT ![x] = t] PROVE ListenOK'
    <3>1. SessionOK(t, rec) /\ Narrows(t, s) /\ t.state = "live"
      BY <2>5, <2>6, <2>7
    <3>2. t.room = s.room
      BY <3>1 DEF Narrows
    <3>. HIDE DEF s
    <3>. QED BY <1>1, <2>1, <2>7, <3>1, <3>2, SessionMoves DEF s
  <2>. QED BY <2>2, <2>7
<1>5. SessionStarts(x) => \/ Over(x)
                          \/ session' = [session EXCEPT ![x].state = "live"] /\ UNCHANGED sender /\ s.state = "starting"
  BY DEF SessionStarts
<1>6. SessionEnds(x) => Over(x)
  BY DEF SessionEnds
<1>. QED BY <1>2, <1>3, <1>4, <1>5, <1>6 DEF Talk

LEMMA ListenStays == ListenOK /\ [ContextNext]_contextVars => ListenOK'
<1>. SUFFICES ASSUME ListenOK, [ContextNext]_contextVars PROVE ListenOK'
  OBVIOUS
<1>1. CASE UNCHANGED <<record, hand, sender, session>>
  BY <1>1 DEF ListenOK, ListenTypeOK, TasksOK, TalksOK, SendersOK
<1>2. CASE UNCHANGED contextVars
  BY <1>1, <1>2 DEF contextVars, listenVars
<1>3. CASE Edit \/ \E e \in Errands : Errand(e)
  BY <1>1, <1>3 DEF Edit, Errand, listenVars
<1>4. ASSUME NEW h \in Handlers, Listen(h) PROVE ListenOK'
  BY <1>4, TakeUpStep, FileStep, RouteStep, StartStep DEF Listen
<1>. QED BY <1>2, <1>3, <1>4, TalkStep DEF ContextNext

\* What is read twice was filed twice or taken up beside the first message.
LEMMA ReadOnce == ListenOK => NobodyIsQuotedTwice
<1>. SUFFICES ASSUME ListenOK, NEW x \in Sessions
              PROVE  LET s   == session[x]
                         rec == record[s.room]
                         n   == Len(s.quoted)
                     IN /\ s.state # "none" => Repeated(s.quoted \o s.turned) \subseteq s.beside \cup Repeated(rec)
                        /\ n > 0 => \E k \in 0..(Len(rec) - n - 1) :
                                      /\ \A i \in 1..n : rec[k + i] = s.quoted[i]
                                      /\ s.beside = {} => rec[k + n + 1] = s.turned[1]
  BY DEF NobodyIsQuotedTwice
<1>. DEFINE s == session[x]
            rec == record[s.room]
            n == Len(s.quoted)
            l == Len(s.turned)
            read == s.quoted \o s.turned
<1>1. s \in Session /\ SessionOK(s, rec)
  BY DEF ListenOK, ListenTypeOK, TalksOK
<1>2. s.quoted \in Seq(Nat) /\ s.turned \in Seq(Nat) /\ n \in Nat /\ l \in Nat
  BY <1>1, LenProperties DEF Session
<1>3. /\ read \in Seq(Nat) /\ Len(read) = n + l
      /\ \A i \in 1..(n + l) : read[i] = IF i <= n THEN s.quoted[i] ELSE s.turned[i - n]
  BY <1>2, ConcatProperties
<1>4. DOMAIN read = 1..(n + l)
  BY <1>3, LenProperties
<1>5. s.state # "none" => rec \in Seq(Nat)
  BY <1>1 DEF SessionOK, ListenOK, ListenTypeOK
<1>6. n > 0 => s.state # "none" /\ s.turned # <<>> /\ \E k \in Nat : Stands(s.quoted, s.turned[1], s.beside, rec, k)
  <2>1. n > 0 => s.quoted # <<>>
    BY EmptySeq
  <2>2. s.quoted # <<>> => s.state # "none"
    BY <1>1 DEF SessionOK, NoSession
  <2>. QED BY <1>1, <2>1, <2>2 DEF SessionOK, QuotesOK
<1>7. s \in Session /\ \A y \in Nat : Twice(rec, y) /\ rec \in Seq(Nat) => y \in Repeated(rec)
  <2>1. ASSUME NEW y \in Nat, rec \in Seq(Nat), NEW i \in 1..Len(rec), NEW j \in 1..Len(rec), i # j, rec[i] = y, rec[j] = y
        PROVE  y \in Repeated(rec)
    <3>1. DOMAIN rec = 1..Len(rec)
      BY <2>1, LenProperties
    <3>. QED BY <2>1, <3>1 DEF Repeated
  <2>. QED BY <1>1, <2>1 DEF Twice
<1>. HIDE DEF s, rec, n, l, read
<1>8. n > 0 => \E k \in 0..(Len(rec) - n - 1) :
                 /\ \A i \in 1..n : rec[k + i] = s.quoted[i]
                 /\ s.beside = {} => rec[k + n + 1] = s.turned[1]
  <2>. SUFFICES ASSUME n > 0
                PROVE  \E k \in 0..(Len(rec) - n - 1) :
                         /\ \A i \in 1..n : rec[k + i] = s.quoted[i]
                         /\ s.beside = {} => rec[k + n + 1] = s.turned[1]
    OBVIOUS
  <2>1. PICK k \in Nat : Stands(s.quoted, s.turned[1], s.beside, rec, k)
    BY <1>6
  <2>2. k + n + 1 <= Len(rec) /\ Len(rec) \in Nat
    BY <1>5, <1>6, <2>1, LenProperties DEF Stands, n
  <2>3. k \in 0..(Len(rec) - n - 1)
    BY <1>2, <2>2
  <2>. QED BY <2>1, <2>3 DEF Stands, n
<1>9. ASSUME s.state # "none", NEW m \in Repeated(read) PROVE m \in s.beside \cup Repeated(rec)
  <2>1. PICK i \in 1..(n + l), j \in 1..(n + l) : i # j /\ read[i] = m /\ read[j] = m
    BY <1>4, <1>9 DEF Repeated
  <2>2. m \in Nat
    BY <1>3, <1>4, <2>1, ElementOfSeq
  <2>3. m \notin s.beside => Twice(rec, m)
    <3>. SUFFICES ASSUME m \notin s.beside PROVE Twice(rec, m)
      OBVIOUS
    <3>1. ASSUME NEW a \in 1..n, NEW b \in 1..l, s.quoted[a] = m, s.turned[b] = m PROVE Twice(rec, m)
      <4>1. InOwn(s, m) /\ InLine(s, m)
        BY <3>1 DEF InOwn, InLine, n, l
      <4>. QED BY <1>1, <2>2, <4>1 DEF SessionOK
    <3>2. ASSUME NEW a \in 1..l, NEW b \in 1..l, a # b, s.turned[a] = m, s.turned[b] = m PROVE Twice(rec, m)
      BY <1>1, <3>2 DEF SessionOK, LineOK, l
    <3>3. ASSUME NEW a \in 1..n, NEW b \in 1..n, a # b, s.quoted[a] = m, s.quoted[b] = m PROVE Twice(rec, m)
      <4>1. n > 0
        BY <1>2, <3>3
      <4>2. PICK k \in 0..(Len(rec) - n - 1) : \A c \in 1..n : rec[k + c] = s.quoted[c]
        BY <1>8, <4>1
      <4>3. Len(rec) \in Nat
        BY <1>5, <1>9, LenProperties
      <4>4. k + a \in 1..Len(rec) /\ k + b \in 1..Len(rec) /\ k + a # k + b
        BY <1>2, <3>3, <4>2, <4>3
      <4>. QED BY <3>3, <4>2, <4>4 DEF Twice
    <3>4. \A a \in 1..(n + l) : IF a <= n THEN a \in 1..n /\ read[a] = s.quoted[a]
                                ELSE a - n \in 1..l /\ read[a] = s.turned[a - n]
      BY <1>2, <1>3
    <3>5. i - n # j - n
      BY <1>2, <2>1
    <3>. QED BY <2>1, <3>1, <3>2, <3>3, <3>4, <3>5
  <2>. QED BY <1>5, <1>7, <1>9, <2>2, <2>3
<1>. QED BY <1>8, <1>9 DEF s, rec, n, read

(* However messages are said, beside each other or not, and however often one is
   taken up, a session reads a message once unless it was filed twice or was in another
   task's hand, and what it quotes stands together on file before what it answered.    *)
THEOREM QuotesAreOnce == ContextInit /\ [][ContextNext]_contextVars => []NobodyIsQuotedTwice
BY ListenStarts, ListenStays, ReadOnce, PTL

-----------------------------------------------------------------------------
(* The prefix a start shares with others *)

\* What the worker's prefix is made of, and the channel's.
WorkerPrefix(identity, tools) ==
  <<Block("identity", identity, identity), Block("policy", "v1", PolicyChars)>>
  \o If(tools # 0, <<Block("connections", tools, tools)>>)

ChannelPrefix(identity, tools, purpose) ==
  WorkerPrefix(identity, tools) \o <<Block("purpose", purpose, purpose)>>

\* The start that is remembered has the prefixes of its identity, tools and purpose.
StartedOK ==
  \A a \in started :
    /\ a.cache["worker"] = WorkerPrefix(a.of[1], a.of[2])
    /\ a.purpose # 0 => a.cache["channel"] = ChannelPrefix(a.of[1], a.of[2], a.purpose)

\* The beginning of a concatenation.
LEMMA FirstPart ==
  ASSUME NEW S, NEW s \in Seq(S), NEW t \in Seq(S)
  PROVE  SubSeq(s \o t, 1, Len(s)) = s
<1>. DEFINE n == Len(s)
            c == s \o t
<1>1. n \in Nat /\ Len(t) \in Nat
  BY LenProperties
<1>2. c \in Seq(S) /\ Len(c) = n + Len(t) /\ \A i \in 1..(n + Len(t)) : c[i] = IF i <= n THEN s[i] ELSE t[i - n]
  BY ConcatProperties
<1>. HIDE DEF c
<1>3. \A i \in 1..n : c[i] = s[i] /\ c[i] \in S
  <2>1. \A i \in 1..n : c[i] = s[i]
    BY <1>1, <1>2
  <2>2. \A i \in 1..n : s[i] \in S
    BY ElementOfSeq
  <2>. QED BY <2>1, <2>2
<1>4. /\ SubSeq(c, 1, n) \in Seq(S)
      /\ Len(SubSeq(c, 1, n)) = IF 1 <= n THEN n - 1 + 1 ELSE 0
      /\ \A i \in 1..(n - 1 + 1) : SubSeq(c, 1, n)[i] = c[1 + i - 1]
  <2>. HIDE DEF n
  <2>. QED BY <1>1, <1>3, SubSeqProperties
<1>5. Len(SubSeq(c, 1, n)) = n /\ \A i \in 1..n : SubSeq(c, 1, n)[i] = s[i]
  <2>. HIDE DEF n
  <2>1. n - 1 + 1 = n /\ \A i \in 1..n : 1 + i - 1 = i
    BY <1>1
  <2>2. Len(SubSeq(c, 1, n)) = n
    BY <1>1, <1>4
  <2>3. \A i \in 1..n : SubSeq(c, 1, n)[i] = c[i]
    BY <1>4, <2>1
  <2>. QED BY <1>3, <2>2, <2>3
<1>6. SubSeq(c, 1, n) = s
  BY <1>4, <1>5, SeqEqual
<1>. QED BY <1>6 DEF c

\* The cache plan of a class ends with the last block of the class.
LEMMA PlanEndsWithClass ==
  ASSUME NEW S, NEW s \in Seq(S), NEW t \in Seq(S), s # <<>>, NEW class, class # "none",
         Class(s[Len(s)].kind) = class, \A i \in 1..Len(t) : Class(t[i].kind) # class
  PROVE  build_cache_plan(s \o t)[class] = s
<1>. DEFINE n == Len(s)
            c == s \o t
            at == {i \in DOMAIN c : Class(c[i].kind) = class}
<1>1. n \in Nat \ {0} /\ Len(t) \in Nat
  BY EmptySeq, LenProperties
<1>2. c \in Seq(S) /\ Len(c) = n + Len(t) /\ \A i \in 1..(n + Len(t)) : c[i] = IF i <= n THEN s[i] ELSE t[i - n]
  BY ConcatProperties
<1>3. DOMAIN c = 1..(n + Len(t))
  BY <1>2, LenProperties
<1>4. SubSeq(c, 1, n) = s
  BY FirstPart
<1>. HIDE DEF n, c
<1>5. n \in 1..(n + Len(t)) /\ c[n] = s[n]
  BY <1>1, <1>2
<1>6. n \in at
  BY <1>3, <1>5 DEF n
<1>7. \A i \in at : i <= n
  <2>. SUFFICES ASSUME NEW i \in 1..(n + Len(t)), Class(c[i].kind) = class, i > n PROVE FALSE
    BY <1>1, <1>3
  <2>1. i - n \in 1..Len(t) /\ c[i] = t[i - n]
    BY <1>1, <1>2
  <2>. QED BY <2>1
<1>8. at \in SUBSET (0..(n + Len(t)))
  BY <1>1, <1>3
<1>9. Max(at) = n
  <2>. DEFINE b == n + Len(t)
  <2>1. b \in Nat /\ at \in SUBSET (0..b) /\ at # {}
    BY <1>1, <1>6, <1>8
  <2>. HIDE DEF at, b
  <2>2. Max(at) \in at /\ n <= Max(at)
    BY <1>6, <2>1, Greatest
  <2>3. Max(at) \in 0..b
    BY <2>1, <2>2
  <2>4. Max(at) <= n
    BY <1>7, <2>2
  <2>. QED BY <1>1, <2>1, <2>2, <2>3, <2>4
<1>10. class \in {Class(c[i].kind) : i \in DOMAIN c} \ {"none"}
  BY <1>6
<1>11. build_cache_plan(c)[class] = SubSeq(c, 1, Max(at))
  BY <1>10 DEF build_cache_plan
<1>. QED BY <1>4, <1>9, <1>11 DEF c

\* Three sequences are put together in either order.
LEMMA Regroup ==
  ASSUME NEW T, NEW a \in Seq(T), NEW b \in Seq(T), NEW c \in Seq(T)
  PROVE  (a \o b) \o c = a \o (b \o c)
BY ConcatAssociative

\* The prefixes depend on the identity, the connections and the purpose alone.
LEMMA StartPrefixes ==
  ASSUME NEW asked
  PROVE  /\ Prompt(asked).of = <<Identity, world.tools>>
         /\ Prompt(asked).cache["worker"] = WorkerPrefix(Identity, world.tools)
         /\ Prompt(asked).purpose # 0 =>
              Prompt(asked).cache["channel"] = ChannelPrefix(Identity, world.tools, Prompt(asked).purpose)
<1>. DEFINE p == Purpose(asked.room)
            identity == Block("identity", Identity, Identity)
            policy == Block("policy", "v1", PolicyChars)
            tools == Block("connections", world.tools, world.tools)
            purpose == Block("purpose", p, p)
            scope == Block("scope", <<asked.surface, asked.room>>, ScopeChars)
            Blocks == {identity, policy, tools, purpose, scope}
            base == <<identity, policy>>
            ofTools == <<tools>>
            ofPurpose == <<purpose>>
            ofScope == <<scope>>
            granted == If(world.tools # 0, ofTools)
            settled == If(p # 0, ofPurpose)
            worker == base \o granted
            channel == worker \o ofPurpose
            rest == settled \o ofScope
            system == SystemBlocks(asked)
<1>1. system = (worker \o settled) \o ofScope
  BY DEF SystemBlocks
<1>2. /\ Class(policy.kind) = "worker" /\ Class(tools.kind) = "worker"
      /\ Class(purpose.kind) = "channel" /\ Class(scope.kind) = "surface"
  BY DEF Class, Block
<1>3. Prompt(asked).of = <<Identity, world.tools>> /\ Prompt(asked).purpose = p /\ Prompt(asked).cache = build_cache_plan(system)
  BY DEF Prompt
<1>4. worker = WorkerPrefix(Identity, world.tools) /\ channel = ChannelPrefix(Identity, world.tools, p)
  BY DEF WorkerPrefix, ChannelPrefix
<1>. HIDE DEF identity, policy, tools, purpose, scope, system
<1>5. base \in Seq(Blocks) /\ ofTools \in Seq(Blocks) /\ ofPurpose \in Seq(Blocks) /\ ofScope \in Seq(Blocks) /\ <<>> \in Seq(Blocks)
  BY EmptySeq
<1>6. /\ Len(base) = 2 /\ base[2] = policy /\ Len(ofTools) = 1 /\ ofTools[1] = tools
      /\ Len(ofPurpose) = 1 /\ ofPurpose[1] = purpose /\ Len(ofScope) = 1 /\ ofScope[1] = scope
  OBVIOUS
<1>. HIDE DEF base, ofTools, ofPurpose, ofScope, Blocks
<1>7. granted \in Seq(Blocks) /\ settled \in Seq(Blocks) /\ worker \in Seq(Blocks)
  BY <1>5, ConcatProperties DEF If
<1>8. worker # <<>> /\ Class(worker[Len(worker)].kind) = "worker"
  <2>1. CASE world.tools = 0
    <3>1. worker = base
      BY <1>5, <2>1, ConcatEmptySeq DEF If
    <3>. QED BY <1>2, <1>6, <3>1, EmptySeq
  <2>2. CASE world.tools # 0
    <3>1. worker = base \o ofTools
      BY <2>2 DEF If
    <3>2. Len(worker) = 3 /\ worker[3] = tools
      <4>. HIDE DEF worker
      <4>1. /\ Len(worker) = Len(base) + Len(ofTools)
            /\ \A i \in 1..(Len(base) + Len(ofTools)) : worker[i] = IF i <= Len(base) THEN base[i] ELSE ofTools[i - Len(base)]
        BY <1>5, <3>1, ConcatProperties
      <4>. QED BY <1>6, <4>1
    <3>. QED BY <1>2, <3>2, EmptySeq
  <2>. QED BY <2>1, <2>2
<1>9. rest \in Seq(Blocks) /\ \A i \in 1..Len(rest) : Class(rest[i].kind) # "worker"
  <2>1. CASE p = 0
    <3>1. rest = ofScope
      BY <1>5, <2>1, ConcatEmptySeq DEF If
    <3>. HIDE DEF rest
    <3>2. \A i \in 1..1 : i = 1
      OBVIOUS
    <3>. QED BY <1>2, <1>5, <1>6, <3>1, <3>2
  <2>2. CASE p # 0
    <3>1. rest = ofPurpose \o ofScope
      BY <2>2 DEF If
    <3>. HIDE DEF rest
    <3>2. /\ rest \in Seq(Blocks) /\ Len(rest) = Len(ofPurpose) + Len(ofScope)
          /\ \A i \in 1..(Len(ofPurpose) + Len(ofScope)) :
               rest[i] = IF i <= Len(ofPurpose) THEN ofPurpose[i] ELSE ofScope[i - Len(ofPurpose)]
      BY <1>5, <3>1, ConcatProperties
    <3>3. rest[1] = purpose /\ rest[2] = scope /\ Len(rest) = 2
      BY <1>6, <3>2
    <3>4. \A i \in 1..2 : i = 1 \/ i = 2
      OBVIOUS
    <3>. QED BY <1>2, <3>2, <3>3, <3>4
  <2>. QED BY <2>1, <2>2
<1>. HIDE DEF worker, granted, settled
<1>10. Prompt(asked).cache["worker"] = worker
  <2>1. system = worker \o rest
    <3>2. worker \in Seq(Blocks) /\ settled \in Seq(Blocks) /\ ofScope \in Seq(Blocks)
      BY <1>5, <1>7, Zenon
    <3>4. PICK T : T = Blocks
      OBVIOUS
    <3>5. worker \in Seq(T) /\ settled \in Seq(T) /\ ofScope \in Seq(T)
      BY <3>2, <3>4
    <3>6. (worker \o settled) \o ofScope = worker \o (settled \o ofScope)
      BY <3>5, Regroup
    <3>. QED BY <1>1, <3>6
  <2>. HIDE DEF rest
  <2>. QED BY <1>3, <1>7, <1>8, <1>9, <2>1, PlanEndsWithClass
<1>11. ASSUME p # 0
       PROVE  Prompt(asked).cache["channel"] = channel
  <2>1. system = channel \o ofScope
    BY <1>1, <1>11 DEF If, settled
  <2>2. /\ channel \in Seq(Blocks) /\ Len(channel) = Len(worker) + Len(ofPurpose)
        /\ \A i \in 1..(Len(worker) + Len(ofPurpose)) :
             channel[i] = IF i <= Len(worker) THEN worker[i] ELSE ofPurpose[i - Len(worker)]
    BY <1>5, <1>7, ConcatProperties
  <2>3. Len(worker) \in Nat
    BY <1>7, LenProperties
  <2>. HIDE DEF channel
  <2>4. Len(channel) = Len(worker) + 1 /\ channel[Len(worker) + 1] = purpose
    BY <1>6, <2>2, <2>3
  <2>5. channel # <<>> /\ Class(channel[Len(channel)].kind) = "channel"
    BY <1>2, <2>3, <2>4, EmptySeq
  <2>6. \A i \in 1..Len(ofScope) : Class(ofScope[i].kind) # "channel"
    BY <1>2, <1>6
  <2>7. ASSUME NEW c \in Seq(Blocks), c # <<>>, Class(c[Len(c)].kind) = "channel"
        PROVE  build_cache_plan(c \o ofScope)["channel"] = c
    BY <1>5, <2>6, <2>7, PlanEndsWithClass
  <2>. QED BY <1>3, <2>1, <2>2, <2>5, <2>7
<1>. QED BY <1>3, <1>4, <1>10, <1>11

\* Only a start is remembered.
LEMMA StartedStays == StartedOK /\ [ContextNext]_contextVars => StartedOK'
<1>. SUFFICES ASSUME StartedOK, [ContextNext]_contextVars PROVE StartedOK'
  OBVIOUS
<1>1. ASSUME UNCHANGED started PROVE StartedOK'
  BY <1>1 DEF StartedOK
<1>2. ASSUME NEW asked, NEW traced \in BOOLEAN, Starting(asked, traced) PROVE StartedOK'
  <2>1. started' = started \/ started' = {Prompt(asked)}
    BY <1>2 DEF Starting
  <2>. DEFINE a == Prompt(asked)
  <2>2. /\ a.cache["worker"] = WorkerPrefix(a.of[1], a.of[2])
        /\ a.purpose # 0 => a.cache["channel"] = ChannelPrefix(a.of[1], a.of[2], a.purpose)
    BY StartPrefixes
  <2>. HIDE DEF a
  <2>. QED BY <1>1, <2>1, <2>2 DEF StartedOK, a
<1>3. CASE UNCHANGED contextVars
  BY <1>1, <1>3 DEF contextVars
<1>4. CASE Edit
  BY <1>1, <1>4 DEF Edit
<1>5. ASSUME NEW h \in Handlers, Listen(h) PROVE StartedOK'
  <2>1. UNCHANGED started
    BY <1>5 DEF Listen, TakeUp, PersistMessage, Route, StartSession
  <2>. QED BY <1>1, <2>1
<1>6. ASSUME NEW x \in Sessions, Talk(x) PROVE StartedOK'
  <2>1. CASE SessionStarts(x)
    BY <1>2, <2>1 DEF SessionStarts
  <2>2. CASE SessionTurn(x) \/ SessionEnds(x)
    BY <1>1, <2>2 DEF SessionTurn, SessionEnds
  <2>. QED BY <1>6, <2>1, <2>2 DEF Talk
<1>7. ASSUME NEW e \in Errands, Errand(e) PROVE StartedOK'
  BY <1>2, <1>7 DEF Errand
<1>. QED BY <1>3, <1>4, <1>5, <1>6, <1>7 DEF ContextNext

(* However starts, edits and failures follow one another, a worker's starts share
   the prefixes that its identity, connections and purpose make.               *)
THEOREM PrefixesAreStable == ContextInit /\ [][ContextNext]_contextVars => []PrefixIsStable
<1>1. ContextInit => StartedOK
  BY DEF ContextInit, StartedOK
<1>2. StartedOK => PrefixIsStable
  <2>. SUFFICES ASSUME StartedOK, NEW a \in started, NEW asked, a.of = Prompt(asked).of
                PROVE  /\ a.cache["worker"] = Prompt(asked).cache["worker"]
                       /\ a.purpose = Prompt(asked).purpose /\ a.purpose # 0
                            => a.cache["channel"] = Prompt(asked).cache["channel"]
    BY DEF PrefixIsStable
  <2>. DEFINE b == Prompt(asked)
  <2>1. /\ b.cache["worker"] = WorkerPrefix(b.of[1], b.of[2])
        /\ b.purpose # 0 => b.cache["channel"] = ChannelPrefix(b.of[1], b.of[2], b.purpose)
    BY StartPrefixes
  <2>. HIDE DEF b
  <2>. QED BY <2>1 DEF StartedOK, b
<1>. QED BY <1>1, <1>2, StartedStays, PTL

-----------------------------------------------------------------------------
(* The briefing *)

\* A rendered list is its items' sizes and what is put around them.
LEMMA TotalIsSum ==
  ASSUME NEW chars
  PROVE  Total(chars) = SumOf(chars, DOMAIN chars)
BY DEF Total, FoldSeq, FoldFunction, FoldFunctionOnSet, MapThenFoldSet, SumOf, Iterates, One

Priced == [chars : Nat]

\* The size of a beginning of a list is a sum over the whole list's sizes.
LEMMA Beginning ==
  ASSUME NEW items \in Seq(Priced), NEW n \in 0..Len(items)
  PROVE  /\ Total(Sizes(SubSeq(items, 1, n))) = SumOf(Sizes(items), 1..n)
         /\ IsFiniteSet(1..n)
<1>1. Len(items) \in Nat /\ n \in Nat /\ n <= Len(items)
  BY LenProperties
<1>2. SubSeq(items, 1, n) = [i \in 1..n |-> items[i]]
  BY <1>1 DEF Priced
<1>. DEFINE a == Sizes(SubSeq(items, 1, n))
            b == Sizes(items)
<1>3. DOMAIN a = 1..n /\ \A i \in 1..n : a[i] = items[i].chars
  BY <1>2 DEF Sizes
<1>4. \A i \in 1..n : b[i] = items[i].chars
  BY <1>1 DEF Sizes
<1>5. IsFiniteSet(1..n)
  BY <1>1, FS_Interval
<1>. HIDE DEF a, b
<1>6. \A i \in 1..n : a[i] = b[i]
  BY <1>3, <1>4
<1>7. SumOf(a, 1..n) = SumOf(b, 1..n)
  BY <1>5, <1>6, SumSame
<1>. QED BY <1>3, <1>5, <1>7, TotalIsSum DEF a, b

\* A longer beginning is no smaller.
LEMMA LongerIsLarger ==
  ASSUME NEW items \in Seq(Priced), NEW n \in 0..Len(items), NEW k \in 0..n
  PROVE  /\ Total(Sizes(SubSeq(items, 1, k))) \in Nat
         /\ Total(Sizes(SubSeq(items, 1, n))) \in Nat
         /\ Total(Sizes(SubSeq(items, 1, k))) <= Total(Sizes(SubSeq(items, 1, n)))
<1>. DEFINE f == Sizes(items)
<1>1. Len(items) \in Nat /\ n \in Nat /\ k \in 0..Len(items) /\ k <= n
  BY LenProperties
<1>2. \A i \in 1..n : f[i] \in Nat
  <2>1. ASSUME NEW i \in 1..n PROVE f[i] \in Nat
    <3>1. i \in 1..Len(items)
      BY <1>1
    <3>2. items[i] \in Priced
      BY <3>1
    <3>3. f[i] = items[i].chars
      BY <3>1 DEF Sizes
    <3>. QED BY <3>2, <3>3 DEF Priced
  <2>. QED BY <2>1
<1>. HIDE DEF f
<1>3. /\ Total(Sizes(SubSeq(items, 1, k))) = SumOf(f, 1..k) /\ IsFiniteSet(1..k)
      /\ Total(Sizes(SubSeq(items, 1, n))) = SumOf(f, 1..n) /\ IsFiniteSet(1..n)
  BY <1>1, Beginning DEF f
<1>4. 1..k \in SUBSET (1..n) /\ \A i \in 1..k : f[i] \in Nat
  BY <1>1, <1>2
<1>5. SumOf(f, 1..k) \in Nat
  BY <1>3, <1>4, SumNat
<1>6. SumOf(f, 1..n) \in Nat
  BY <1>2, <1>3, SumNat
<1>7. SumOf(f, 1..k) <= SumOf(f, 1..n)
  BY <1>2, <1>3, <1>4, SumMono
<1>. QED BY <1>3, <1>5, <1>6, <1>7

Fits(items, n) == briefing_json(SubSeq(items, 1, n), Len(items) - n) <= Limit.briefing

\* What fits with the count of the others is never cut by the loop that counts nothing
\* yet: the count of none is the shortest.
LEMMA NothingIsCutEarly ==
  ASSUME NEW items \in Seq(Priced), 0..Len(items) \subseteq DOMAIN Digits
  PROVE  \A n \in 0..Len(items) : Fits(items, n) => n \in 0..Kept(items)
<1>. DEFINE L == Len(items)
            T(i) == Total(Sizes(SubSeq(items, 1, i)))
            K == {i \in 0..L : \A k \in 1..i : briefing_json(SubSeq(items, 1, k), 0) <= Limit.briefing}
<1>1. L \in Nat
  BY LenProperties
<1>2. /\ Envelope \in Nat /\ Limit.briefing \in Nat
      /\ \A n \in 0..L : Digits[n] \in Nat /\ Digits[0] <= Digits[n]
  BY ContextAssumption
<1>3. \A n \in 0..L : \A k \in 0..n : T(k) \in Nat /\ T(n) \in Nat /\ T(k) <= T(n)
  BY LongerIsLarger
<1>4. \A n, j : briefing_json(SubSeq(items, 1, n), j) = Envelope + T(n) + Digits[j]
  BY DEF briefing_json, Rendered
<1>5. ASSUME NEW n \in 0..L, Fits(items, n) PROVE n \in K
  <2>1. Envelope + T(n) + Digits[L - n] <= Limit.briefing /\ L - n \in 0..L /\ 0 \in 0..L
    BY <1>1, <1>4, <1>5 DEF Fits
  <2>. HIDE DEF T
  <2>2. ASSUME NEW k \in 1..n PROVE Envelope + T(k) + Digits[0] <= Limit.briefing
    <3>1. k \in 0..n /\ k \in 0..L
      BY <1>1
    <3>2. T(k) \in Nat /\ T(n) \in Nat /\ T(k) <= T(n)
      BY <1>3, <3>1
    <3>3. Digits[L - n] \in Nat /\ Digits[0] \in Nat /\ Digits[0] <= Digits[L - n]
      BY <1>2, <2>1
    <3>. HIDE DEF L
    <3>. QED BY <1>2, <2>1, <3>2, <3>3
  <2>3. ASSUME NEW k \in 1..n PROVE briefing_json(SubSeq(items, 1, k), 0) <= Limit.briefing
    <3>1. k \in 0..L
      BY <1>1
    <3>. QED BY <1>4, <2>2, <3>1
  <2>. QED BY <2>3
<1>6. K \in SUBSET (0..L) /\ 0 \in K
  BY <1>1
<1>7. Kept(items) = Max(K)
  BY DEF Kept
<1>. HIDE DEF K
<1>8. Max(K) \in K /\ \A x \in K : x <= Max(K)
  BY <1>1, <1>6, Greatest
<1>9. Max(K) \in 0..L
  BY <1>6, <1>8
<1>. QED BY <1>1, <1>5, <1>7, <1>8, <1>9

\* The matters that wait, and how many they can become.
MattersOK ==
  /\ edits \in 0..MaxEdits
  /\ DOMAIN world = {"identity", "charter", "purpose", "tools", "notes", "gates", "parked"}
  /\ world.gates \in Seq(Nat) /\ world.parked \in Seq(Nat)
  /\ 0..(1 + Len(world.gates) + Len(world.parked) + (MaxEdits - edits)) \subseteq DOMAIN Digits

\* A matter gone is one fewer, of the same kind.
LEMMA RemovedIs ==
  ASSUME NEW s \in Seq(Nat), NEW i \in DOMAIN s
  PROVE  RemoveAt(s, i) \in Seq(Nat) /\ Len(RemoveAt(s, i)) = Len(s) - 1
<1>1. i \in 1..Len(s) /\ Len(s) \in Nat
  BY LenProperties
<1>2. SubSeq(s, 1, i - 1) \in Seq(Nat) /\ Len(SubSeq(s, 1, i - 1)) = i - 1
  BY <1>1
<1>3. SubSeq(s, i + 1, Len(s)) \in Seq(Nat) /\ Len(SubSeq(s, i + 1, Len(s))) = Len(s) - i
  BY <1>1
<1>4. RemoveAt(s, i) = SubSeq(s, 1, i - 1) \o SubSeq(s, i + 1, Len(s))
  BY DEF RemoveAt
<1>. HIDE DEF RemoveAt
<1>. DEFINE a == SubSeq(s, 1, i - 1)
            b == SubSeq(s, i + 1, Len(s))
<1>5. a \in Seq(Nat) /\ Len(a) = i - 1 /\ b \in Seq(Nat) /\ Len(b) = Len(s) - i /\ RemoveAt(s, i) = a \o b
  BY <1>2, <1>3, <1>4
<1>. HIDE DEF a, b
<1>6. a \o b \in Seq(Nat) /\ Len(a \o b) = Len(a) + Len(b)
  BY <1>5, ConcatProperties
<1>. QED BY <1>1, <1>5, <1>6

\* An edit files at most one matter.
LEMMA MattersStay == MattersOK /\ [ContextNext]_contextVars => MattersOK'
<1>. SUFFICES ASSUME MattersOK, [ContextNext]_contextVars PROVE MattersOK'
  OBVIOUS
<1>1. ASSUME UNCHANGED <<world, edits>> PROVE MattersOK'
  BY <1>1 DEF MattersOK
<1>2. MaxEdits \in Nat /\ edits \in Nat /\ Len(world.gates) \in Nat /\ Len(world.parked) \in Nat
  BY ContextAssumption, LenProperties DEF MattersOK
<1>3. CASE Edit
  <2>1. edits < MaxEdits /\ edits' = edits + 1
    BY <1>3 DEF Edit
  <2>2. ASSUME DOMAIN world' = DOMAIN world,
               world'.gates \in Seq(Nat), world'.parked \in Seq(Nat),
               Len(world'.gates) + Len(world'.parked) <= Len(world.gates) + Len(world.parked) + 1
        PROVE  MattersOK'
    <3>1. Len(world'.gates) \in Nat /\ Len(world'.parked) \in Nat
      BY <2>2, LenProperties
    <3>. DEFINE x == 1 + Len(world'.gates) + Len(world'.parked) + (MaxEdits - edits')
                y == 1 + Len(world.gates) + Len(world.parked) + (MaxEdits - edits)
    <3>3. x \in Int /\ y \in Int /\ x <= y
      <4>1. \A a, b, c, d, m, k \in Nat : a + b <= c + d + 1 =>
              /\ 1 + a + b + (m - (k + 1)) \in Int /\ 1 + c + d + (m - k) \in Int
              /\ 1 + a + b + (m - (k + 1)) <= 1 + c + d + (m - k)
        OBVIOUS
      <4>2. /\ 1 + Len(world'.gates) + Len(world'.parked) + (MaxEdits - (edits + 1)) \in Int /\ y \in Int
            /\ 1 + Len(world'.gates) + Len(world'.parked) + (MaxEdits - (edits + 1)) <= y
        BY <1>2, <2>2, <3>1, <4>1
      <4>. QED BY <2>1, <4>2
    <3>4. 0..y \subseteq DOMAIN Digits
      BY DEF MattersOK
    <3>. HIDE DEF x, y
    <3>5. 0..x \subseteq DOMAIN Digits
      BY <3>3, <3>4
    <3>. QED BY <1>2, <2>1, <2>2, <3>5 DEF MattersOK, x
  <2>3. ASSUME DOMAIN world' = DOMAIN world, world'.gates = world.gates, world'.parked = world.parked
        PROVE  MattersOK'
    BY <1>2, <2>2, <2>3 DEF MattersOK
  <2>4. CASE \E n \in {w.identity : w \in Worlds} : world' = [world EXCEPT !.identity = n]
    BY <2>3, <2>4 DEF MattersOK
  <2>5. CASE \E r \in Rooms : \E n \in {w.purpose[r] : w \in Worlds} : world' = [world EXCEPT !.purpose[r] = n]
    BY <2>3, <2>5 DEF MattersOK
  <2>6. CASE \E n \in {w.tools : w \in Worlds} : world' = [world EXCEPT !.tools = n]
    BY <2>3, <2>6 DEF MattersOK
  <2>7. CASE \E line \in Notes : world' = [world EXCEPT !.notes = Append(@, line)]
    BY <2>3, <2>7 DEF MattersOK
  <2>8. CASE \E n \in 1..2 : world' = [world EXCEPT !.gates = Append(@, n)]
    <3>1. PICK n \in 1..2 : world' = [world EXCEPT !.gates = Append(@, n)]
      BY <2>8
    <3>2. /\ DOMAIN world' = DOMAIN world /\ world'.parked = world.parked
          /\ world'.gates = Append(world.gates, n)
      BY <3>1 DEF MattersOK
    <3>3. Append(world.gates, n) \in Seq(Nat) /\ Len(Append(world.gates, n)) = Len(world.gates) + 1
      BY AppendProperties DEF MattersOK
    <3>4. Len(world'.gates) + Len(world'.parked) <= Len(world.gates) + Len(world.parked) + 1
      <4>1. \A a, b \in Nat : a + 1 + b <= a + b + 1 /\ a - 1 + b <= a + b + 1
        OBVIOUS
      <4>. QED BY <1>2, <3>2, <3>3, <4>1
    <3>. QED BY <2>2, <3>2, <3>3, <3>4 DEF MattersOK
  <2>9. CASE \E i \in DOMAIN world.gates : world' = [world EXCEPT !.gates = RemoveAt(@, i)]
    <3>1. PICK i \in DOMAIN world.gates : world' = [world EXCEPT !.gates = RemoveAt(@, i)]
      BY <2>9
    <3>2. /\ DOMAIN world' = DOMAIN world /\ world'.parked = world.parked
          /\ world'.gates = RemoveAt(world.gates, i)
      BY <3>1 DEF MattersOK
    <3>3. RemoveAt(world.gates, i) \in Seq(Nat) /\ Len(RemoveAt(world.gates, i)) = Len(world.gates) - 1
      BY RemovedIs DEF MattersOK
    <3>4. Len(world'.gates) + Len(world'.parked) <= Len(world.gates) + Len(world.parked) + 1
      <4>1. \A a, b \in Nat : a + 1 + b <= a + b + 1 /\ a - 1 + b <= a + b + 1
        OBVIOUS
      <4>. QED BY <1>2, <3>2, <3>3, <4>1
    <3>. QED BY <2>2, <3>2, <3>3, <3>4 DEF MattersOK
  <2>10. CASE world' = [world EXCEPT !.parked = Append(@, 1)]
    <3>1. /\ DOMAIN world' = DOMAIN world /\ world'.gates = world.gates
          /\ world'.parked = Append(world.parked, 1)
      BY <2>10 DEF MattersOK
    <3>2. Append(world.parked, 1) \in Seq(Nat) /\ Len(Append(world.parked, 1)) = Len(world.parked) + 1
      BY AppendProperties DEF MattersOK
    <3>3. Len(world'.gates) + Len(world'.parked) <= Len(world.gates) + Len(world.parked) + 1
      <4>1. \A a, b \in Nat : a + (b + 1) <= a + b + 1
        OBVIOUS
      <4>. QED BY <1>2, <3>1, <3>2, <4>1
    <3>. QED BY <2>2, <3>1, <3>2, <3>3 DEF MattersOK
  <2>. QED BY <1>3, <2>4, <2>5, <2>6, <2>7, <2>8, <2>9, <2>10 DEF Edit
<1>4. CASE UNCHANGED contextVars
  BY <1>1, <1>4 DEF contextVars
<1>5. ASSUME NEW h \in Handlers, Listen(h) PROVE MattersOK'
  <2>1. UNCHANGED <<world, edits>>
    BY <1>5 DEF Listen, TakeUp, PersistMessage, Route, StartSession
  <2>. QED BY <1>1, <2>1
<1>6. ASSUME NEW x \in Sessions, Talk(x) PROVE MattersOK'
  <2>1. UNCHANGED <<world, edits>>
    BY <1>6 DEF Talk, SessionStarts, SessionTurn, SessionEnds
  <2>. QED BY <1>1, <2>1
<1>7. ASSUME NEW e \in Errands, Errand(e) PROVE MattersOK'
  BY <1>1, <1>7 DEF Errand
<1>. QED BY <1>3, <1>4, <1>5, <1>6, <1>7 DEF ContextNext

\* The matters of a run are priced, and their number has its digits.
LEMMA MattersAre ==
  ASSUME MattersOK, NEW e \in Errands
  PROVE  /\ Matters(e.carry) \in Seq(Priced)
         /\ 0..Len(Matters(e.carry)) \subseteq DOMAIN Digits
<1>. DEFINE c == IF e.carry = 0 THEN <<>> ELSE <<e.carry>>
            g == world.gates
            p == world.parked
            all == c \o g \o p
            count == Len(c) + Len(g) + Len(p)
            D == DOMAIN Digits
<1>1. c \in Seq(Nat) /\ Len(c) \in 0..1
  BY ContextAssumption
<1>2. /\ g \in Seq(Nat) /\ p \in Seq(Nat)
      /\ edits \in 0..MaxEdits /\ MaxEdits \in Nat
      /\ 0..(1 + Len(g) + Len(p) + (MaxEdits - edits)) \subseteq D
  BY ContextAssumption DEF MattersOK
<1>3. Matters(e.carry) = [i \in 1..count |-> [chars |-> all[i]]]
  BY DEF Matters
<1>. HIDE DEF c, g, p, D
<1>4. Len(g) \in Nat /\ Len(p) \in Nat
  BY <1>2, LenProperties
<1>5. c \o g \in Seq(Nat) /\ Len(c \o g) = Len(c) + Len(g)
  BY <1>1, <1>2, ConcatProperties
<1>6. all \in Seq(Nat) /\ Len(all) = count
  BY <1>2, <1>5, ConcatProperties
<1>. HIDE DEF all
<1>7. count \in Nat /\ \A i \in 1..count : all[i] \in Nat
  BY <1>1, <1>4, <1>6
<1>8. count <= 1 + Len(g) + Len(p) + (MaxEdits - edits)
  <2>1. \A a \in 0..1, b, d, m \in Nat : \A k \in 0..m : a + b + d <= 1 + b + d + (m - k)
    OBVIOUS
  <2>. QED BY <1>1, <1>2, <1>4, <2>1
<1>9. 1 + Len(g) + Len(p) + (MaxEdits - edits) \in Int
  BY <1>2, <1>4
<1>. DEFINE y == 1 + Len(g) + Len(p) + (MaxEdits - edits)
<1>. HIDE DEF count, y
<1>10. 0..count \subseteq D
  BY <1>2, <1>7, <1>8, <1>9 DEF y
<1>. DEFINE m == [i \in 1..count |-> [chars |-> all[i]]]
<1>11. m \in Seq(Priced) /\ Len(m) = count
  <2>1. m \in [1..count -> Priced]
    BY <1>7 DEF Priced
  <2>. HIDE DEF m
  <2>. QED BY <1>7, <2>1
<1>. QED BY <1>3, <1>10, <1>11 DEF D

(* Whatever the files hold and however edits follow, the briefing a run is given is   *)
(* the longest beginning of its matters that fits together with the count of the      *)
(* others: the loop that fills it, before the count is known, cuts nothing the count  *)
(* would have let stay.                                                                *)
THEOREM BriefingsAreLongest == ContextInit /\ [][ContextNext]_contextVars => []BriefingIsLongest
<1>1. ContextInit => MattersOK
  <2>. SUFFICES ASSUME ContextInit PROVE MattersOK
    OBVIOUS
  <2>1. world \in Worlds /\ edits = 0
    BY DEF ContextInit
  <2>2. MaxEdits \in Nat /\ MaxEdits - edits = MaxEdits /\ edits \in 0..MaxEdits
    BY <2>1, ContextAssumption
  <2>3. /\ DOMAIN world = {"identity", "charter", "purpose", "tools", "notes", "gates", "parked"}
        /\ world.gates \in Seq(Nat) /\ world.parked \in Seq(Nat)
        /\ 0..(1 + Len(world.gates) + Len(world.parked) + MaxEdits) \subseteq DOMAIN Digits
    BY <2>1, ContextAssumption
  <2>. QED BY <2>2, <2>3 DEF MattersOK
<1>2. MattersOK => BriefingIsLongest
  <2>. SUFFICES ASSUME MattersOK, NEW e \in Errands
                PROVE  LET items == Matters(e.carry)
                           fits  == {n \in 0..Len(items) :
                                       briefing_json(SubSeq(items, 1, n), Len(items) - n) <= Limit.briefing}
                           given == build_briefing(e.carry)
                       IN items # <<>> =>
                            IF fits = {} THEN given = <<>>
                            ELSE given # <<>> /\ given[1].text = SubSeq(items, 1, Max(fits))
    BY DEF BriefingIsLongest
  <2>. DEFINE items == Matters(e.carry)
              fits == {n \in 0..Len(items) :
                         briefing_json(SubSeq(items, 1, n), Len(items) - n) <= Limit.briefing}
              some == {n \in 0..Kept(items) :
                         briefing_json(SubSeq(items, 1, n), Len(items) - n) <= Limit.briefing}
              given == build_briefing(e.carry)
  <2>1. items \in Seq(Priced) /\ 0..Len(items) \subseteq DOMAIN Digits
    BY MattersAre
  <2>2. given = IF items = <<>> \/ some = {} THEN <<>>
                ELSE <<Block("briefing", SubSeq(items, 1, Max(some)),
                             briefing_json(SubSeq(items, 1, Max(some)), Len(items) - Max(some)))>>
    BY DEF build_briefing
  <2>. HIDE DEF items, given
  <2>3. \A n \in 0..Len(items) : Fits(items, n) => n \in 0..Kept(items)
    BY <2>1, NothingIsCutEarly
  <2>4. Kept(items) \in 0..Len(items) /\ Len(items) \in Nat
    <3>. DEFINE K == {n \in 0..Len(items) :
                        \A k \in 1..n : briefing_json(SubSeq(items, 1, k), 0) <= Limit.briefing}
    <3>1. Len(items) \in Nat
      BY <2>1, LenProperties
    <3>2. K \in SUBSET (0..Len(items)) /\ 0 \in K
      BY <3>1
    <3>3. Kept(items) = Max(K)
      BY DEF Kept
    <3>. HIDE DEF K
    <3>4. Max(K) \in K
      BY <3>1, <3>2, Greatest
    <3>. QED BY <3>1, <3>2, <3>3, <3>4
  <2>5. fits = some
    <3>1. fits \subseteq some
      BY <2>3 DEF Fits
    <3>2. 0..Kept(items) \subseteq 0..Len(items)
      BY <2>4
    <3>. QED BY <3>1, <3>2
  <2>. HIDE DEF fits, some
  <2>6. items # <<>> => IF fits = {} THEN given = <<>>
                        ELSE given # <<>> /\ given[1].text = SubSeq(items, 1, Max(fits))
    BY <2>2, <2>5 DEF Block
  <2>. QED BY <2>6 DEF items, fits, given
<1>. QED BY <1>1, <1>2, MattersStay, PTL

-----------------------------------------------------------------------------
(* Who decides: the first rule that applies and matches *)

Hits(rule, w, asks) == Applies(rule.who, w) /\ Matches(rule, asks)

\* The first of the rules of s that decides is `rule`.
Leads(s, rule, w, asks) ==
  \E i \in 1..Len(s) : /\ s[i] = rule /\ Hits(s[i], w, asks)
                       /\ \A j \in 1..(i - 1) : ~ Hits(s[j], w, asks)

\* No rule of s decides.
Silent(s, w, asks) == \A i \in 1..Len(s) : ~ Hits(s[i], w, asks)

\* The judge takes the first that decides.
LEMMA JudgeTakesFirst ==
  ASSUME NEW S, NEW s \in Seq(S), NEW rule, NEW w, NEW asks, Leads(s, rule, w, asks)
  PROVE  judge(s, w, asks) = rule
<1>. DEFINE I == {i \in 1..Len(s) : Applies(s[i].who, w) /\ Matches(s[i], asks)}
<1>1. PICK i \in 1..Len(s) : /\ s[i] = rule /\ Hits(s[i], w, asks)
                             /\ \A j \in 1..(i - 1) : ~ Hits(s[j], w, asks)
  BY DEF Leads
<1>2. Len(s) \in Nat
  BY LenProperties
<1>3. i \in I /\ I \subseteq Nat
  BY <1>1, <1>2 DEF Hits
<1>4. \A j \in I : i <= j
  <2>. SUFFICES ASSUME NEW j \in I, j < i PROVE FALSE
    BY <1>2
  <2>1. j \in 1..(i - 1)
    BY <1>2
  <2>. QED BY <1>1, <2>1 DEF Hits
<1>5. judge(s, w, asks) = s[Min(I)]
  BY <1>3 DEF judge, SelectInSeq
<1>. HIDE DEF I
<1>6. Min(I) = i
  <2>. DEFINE m == CHOOSE x \in I : \A y \in I : x <= y
  <2>1. m \in I /\ \A y \in I : m <= y
    BY <1>3, <1>4
  <2>2. Min(I) = m
    BY Zenon DEF Min
  <2>. HIDE DEF m
  <2>3. m <= i /\ i <= m /\ m \in Nat /\ i \in Nat
    BY <1>3, <1>4, <2>1
  <2>. QED BY <2>2, <2>3
<1>. QED BY <1>1, <1>5, <1>6

\* What leads a list leads it with more behind, or with silent rules before.
LEMMA LeadsTogether ==
  ASSUME NEW S, NEW a \in Seq(S), NEW b \in Seq(S), NEW rule, NEW w, NEW asks,
         Leads(a, rule, w, asks) \/ (Silent(a, w, asks) /\ Leads(b, rule, w, asks))
  PROVE  Leads(a \o b, rule, w, asks)
<1>. DEFINE c == a \o b
<1>1. /\ Len(a) \in Nat /\ Len(b) \in Nat /\ Len(c) = Len(a) + Len(b)
      /\ \A i \in 1..(Len(a) + Len(b)) : c[i] = IF i <= Len(a) THEN a[i] ELSE b[i - Len(a)]
  BY LenProperties, ConcatProperties
<1>. HIDE DEF c
<1>2. CASE Leads(a, rule, w, asks)
  <2>1. PICK i \in 1..Len(a) : /\ a[i] = rule /\ Hits(a[i], w, asks)
                               /\ \A j \in 1..(i - 1) : ~ Hits(a[j], w, asks)
    BY <1>2 DEF Leads
  <2>2. i \in 1..Len(c) /\ c[i] = a[i]
    BY <1>1
  <2>3. \A j \in 1..(i - 1) : c[j] = a[j]
    BY <1>1
  <2>4. \A j \in 1..(i - 1) : ~ Hits(c[j], w, asks)
    BY <2>1, <2>3
  <2>. QED BY <2>1, <2>2, <2>4 DEF Leads, c
<1>3. CASE Silent(a, w, asks) /\ Leads(b, rule, w, asks)
  <2>1. PICK i \in 1..Len(b) : /\ b[i] = rule /\ Hits(b[i], w, asks)
                               /\ \A j \in 1..(i - 1) : ~ Hits(b[j], w, asks)
    BY <1>3 DEF Leads
  <2>. DEFINE k == Len(a) + i
  <2>2. k \in 1..Len(c) /\ c[k] = b[i]
    BY <1>1
  <2>3. ASSUME NEW j \in 1..(k - 1) PROVE ~ Hits(c[j], w, asks)
    <3>1. CASE j <= Len(a)
      <4>1. j \in 1..Len(a) /\ c[j] = a[j]
        BY <1>1, <3>1
      <4>. QED BY <1>3, <4>1 DEF Silent
    <3>2. CASE ~ (j <= Len(a))
      <4>1. j - Len(a) \in 1..(i - 1) /\ c[j] = b[j - Len(a)]
        BY <1>1, <3>2
      <4>. QED BY <2>1, <4>1
    <3>. QED BY <3>1, <3>2
  <2>. HIDE DEF k
  <2>. QED BY <2>1, <2>2, <2>3 DEF Leads, c
<1>. QED BY <1>2, <1>3

\* Silent rules stay silent together.
LEMMA SilentTogether ==
  ASSUME NEW S, NEW a \in Seq(S), NEW b \in Seq(S), NEW w, NEW asks,
         Silent(a, w, asks), Silent(b, w, asks)
  PROVE  Silent(a \o b, w, asks)
<1>. DEFINE c == a \o b
<1>1. /\ Len(a) \in Nat /\ Len(b) \in Nat /\ Len(c) = Len(a) + Len(b)
      /\ \A i \in 1..(Len(a) + Len(b)) : c[i] = IF i <= Len(a) THEN a[i] ELSE b[i - Len(a)]
  BY LenProperties, ConcatProperties
<1>. HIDE DEF c
<1>2. ASSUME NEW j \in 1..Len(c) PROVE ~ Hits(c[j], w, asks)
  <2>1. CASE j <= Len(a)
    <3>1. j \in 1..Len(a) /\ c[j] = a[j]
      BY <1>1, <2>1
    <3>. QED BY <3>1 DEF Silent
  <2>2. CASE ~ (j <= Len(a))
    <3>1. j - Len(a) \in 1..Len(b) /\ c[j] = b[j - Len(a)]
      BY <1>1, <2>2
    <3>. QED BY <3>1 DEF Silent
  <2>. QED BY <2>1, <2>2
<1>. QED BY <1>2 DEF Silent, c

\* f joins the first lists of ss, one more at each number.
Joins(f, ss, n) == f = [i \in 1..n |-> IF i = 1 THEN ss[i] ELSE f[i - 1] \o ss[i]]

\* However many there are, there is such an f.
LEMMA JoinExists ==
  ASSUME NEW ss, NEW n \in Nat
  PROVE  \E f : Joins(f, ss, n)
<1>. DEFINE T == {m \in Nat : ~ \E f : Joins(f, ss, m)}
<1>1. SUFFICES ASSUME T # {} PROVE FALSE
  OBVIOUS
<1>2. PICK m \in T : \A k \in T : m <= k
  BY <1>1, Least
<1>3. m # 0
  <2>1. Joins([i \in 1..0 |-> ss], ss, 0)
    BY DEF Joins
  <2>. QED BY <1>2, <2>1
<1>4. m - 1 \in Nat /\ m - 1 \notin T
  BY <1>2, <1>3
<1>5. PICK g : Joins(g, ss, m - 1)
  BY <1>4
<1>. DEFINE f == [i \in 1..m |-> IF i = 1 THEN ss[i] ELSE g[i - 1] \o ss[i]]
<1>6. \A i \in 1..m : i # m => f[i] = g[i]
  <2>. SUFFICES ASSUME NEW i \in 1..m, i # m PROVE f[i] = g[i]
    OBVIOUS
  <2>1. i \in 1..(m - 1)
    BY <1>2
  <2>2. g[i] = IF i = 1 THEN ss[i] ELSE g[i - 1] \o ss[i]
    BY <1>5, <2>1, Zenon DEF Joins
  <2>. QED BY <2>2
<1>7. \A i \in 1..m : i # 1 => i - 1 \in 1..m /\ i - 1 # m
  BY <1>2
<1>8. \A i \in 1..m : i # 1 => f[i - 1] = g[i - 1]
  <2>. HIDE DEF f
  <2>. QED BY <1>6, <1>7
<1>9. Joins(f, ss, m)
  <2>1. [i \in 1..m |-> IF i = 1 THEN ss[i] ELSE g[i - 1] \o ss[i]] =
        [i \in 1..m |-> IF i = 1 THEN ss[i] ELSE f[i - 1] \o ss[i]]
    <3>. HIDE DEF f
    <3>. QED BY <1>8
  <2>. QED BY <2>1 DEF Joins
<1>. QED BY <1>2, <1>9

\* The rules of a list of lists: the first list that is not silent leads them all.
LEMMA JoinedLead ==
  ASSUME NEW S, NEW ss \in Seq(Seq(S)), NEW w, NEW asks, NEW rule,
         NEW i \in 1..(Len(ss) + 1),
         \A j \in 1..(i - 1) : Silent(ss[j], w, asks),
         i <= Len(ss) => Leads(ss[i], rule, w, asks)
  PROVE  /\ FlattenSeq(ss) \in Seq(S)
         /\ i <= Len(ss) => Leads(FlattenSeq(ss), rule, w, asks)
         /\ i > Len(ss) => Silent(FlattenSeq(ss), w, asks)
<1>. DEFINE n == Len(ss)
            f == CHOOSE g : Joins(g, ss, n)
            Good(k) == /\ f[k] \in Seq(S)
                       /\ k < i => Silent(f[k], w, asks)
                       /\ k >= i => Leads(f[k], rule, w, asks)
            T == {k \in 1..n : ~ Good(k)}
<1>1. n \in Nat
  BY LenProperties
<1>2. CASE n = 0
  <2>0. Len(ss) = 0
    BY <1>2
  <2>1. ss = <<>>
    BY <2>0, EmptySeq
  <2>2. FlattenSeq(ss) = ss
    <3>. HIDE DEF n, f
    <3>. QED BY <2>0, Zenon DEF FlattenSeq
  <2>3. ss \in Seq(S)
    BY <2>1, EmptySeq
  <2>4. Silent(ss, w, asks)
    BY <2>0 DEF Silent
  <2>5. ~ (i <= Len(ss))
    BY <2>0
  <2>. QED BY <2>2, <2>3, <2>4, <2>5
<1>3. CASE n # 0
  <2>1. FlattenSeq(ss) = f[n]
    BY <1>3 DEF FlattenSeq, Joins
  <2>2. Joins(f, ss, n)
    BY <1>1, JoinExists
  <2>. HIDE DEF f
  <2>3. \A k \in 1..n : f[k] = IF k = 1 THEN ss[k] ELSE f[k - 1] \o ss[k]
    BY <2>2, Zenon DEF Joins
  <2>4. \A k \in 1..n : ss[k] \in Seq(S)
    BY <1>1
  <2>5. ASSUME NEW k \in 1..n, k = 1 \/ Good(k - 1) PROVE Good(k)
    <3>1. CASE k = 1
      <4>1. f[k] = ss[k] /\ ss[k] \in Seq(S)
        BY <2>3, <2>4, <3>1
      <4>2. CASE i = 1
        BY <1>1, <3>1, <4>1, <4>2
      <4>3. CASE i # 1
        <5>1. k \in 1..(i - 1) /\ ~ (k >= i)
          BY <1>1, <3>1, <4>3
        <5>. QED BY <4>1, <5>1
      <4>. QED BY <4>2, <4>3
    <3>2. CASE k # 1
      <4>. DEFINE a == f[k - 1]
                  b == ss[k]
      <4>1. /\ f[k] = a \o b /\ a \in Seq(S) /\ b \in Seq(S)
            /\ k - 1 < i => Silent(a, w, asks)
            /\ k - 1 >= i => Leads(a, rule, w, asks)
        BY <2>3, <2>4, <2>5, <3>2
      <4>2. k < i => k \in 1..(i - 1) /\ k - 1 < i
        BY <1>1
      <4>3. k < i => Silent(b, w, asks)
        BY <4>2
      <4>4. k = i => Leads(b, rule, w, asks) /\ k - 1 < i
        BY <1>1
      <4>5. k > i => k - 1 >= i
        BY <1>1
      <4>. HIDE DEF a, b
      <4>6. a \o b \in Seq(S)
        BY <4>1, ConcatProperties
      <4>7. k < i => Silent(a \o b, w, asks)
        BY <4>1, <4>2, <4>3, SilentTogether
      <4>8. k = i => Leads(a \o b, rule, w, asks)
        BY <4>1, <4>4, LeadsTogether
      <4>9. k > i => Leads(a \o b, rule, w, asks)
        BY <4>1, <4>5, LeadsTogether
      <4>10. k >= i => k = i \/ k > i
        BY <1>1
      <4>. QED BY <4>1, <4>6, <4>7, <4>8, <4>9, <4>10
    <3>. QED BY <3>1, <3>2
  <2>. HIDE DEF Good
  <2>6. \A k \in 1..n : Good(k)
    <3>. SUFFICES ASSUME T # {} PROVE FALSE
      OBVIOUS
    <3>1. T \subseteq Nat
      BY <1>1
    <3>2. PICK k \in T : \A l \in T : k <= l
      BY <3>1, Least
    <3>3. k \in 1..n /\ ~ Good(k)
      OBVIOUS
    <3>4. k # 1 => k - 1 \in 1..n /\ k - 1 \notin T
      BY <1>1, <3>2, <3>3
    <3>. QED BY <2>5, <3>3, <3>4
  <2>7. Good(n) /\ (i <= n => n >= i) /\ (i > n => n < i)
    BY <1>1, <1>3, <2>6
  <2>. QED BY <2>1, <2>7 DEF Good
<1>. QED BY <1>2, <1>3

-----------------------------------------------------------------------------
(* What the rules of a file decide *)

RuleSet == [conn : Conns \cup {None}, who : Who,
            on : {"channel", "server", "class", "channels", "servers", "host", "web"},
            ids : SUBSET (Channels \cup Servers \cup Classes), allow : BOOLEAN]

\* A call no rule of a channel is for.
Broad(asks) == asks.kind = "host" \/ ~ asks.spelt

\* The edge lets a channel through.
Passes(c, scope, s) ==
  \/ Kind[c] # "scoped" \/ scope = Open
  \/ Listed(scope.surfaces \ Classes, s) \/ scope.servers # {} \/ scope.surfaces = {}
  \/ ClassOf[s] \in AdmittedClasses(scope.surfaces)

\* A list of one rule.
LEMMA Single ==
  ASSUME NEW rule \in RuleSet, NEW w, NEW asks
  PROVE  /\ <<rule>> \in Seq(RuleSet)
         /\ Hits(rule, w, asks) => Leads(<<rule>>, rule, w, asks)
         /\ ~ Hits(rule, w, asks) => Silent(<<rule>>, w, asks)
<1>1. Len(<<rule>>) = 1 /\ <<rule>>[1] = rule /\ <<rule>> \in Seq(RuleSet)
  OBVIOUS
<1>2. Hits(rule, w, asks) => Leads(<<rule>>, rule, w, asks)
  BY <1>1 DEF Leads
<1>3. ~ Hits(rule, w, asks) => Silent(<<rule>>, w, asks)
  BY <1>1 DEF Silent
<1>. QED BY <1>1, <1>2, <1>3

\* A list of two: the first that hits leads.
LEMMA Pair ==
  ASSUME NEW a \in RuleSet, NEW b \in RuleSet, NEW w, NEW asks
  PROVE  /\ <<a, b>> \in Seq(RuleSet)
         /\ Hits(a, w, asks) => Leads(<<a, b>>, a, w, asks)
         /\ ~ Hits(a, w, asks) /\ Hits(b, w, asks) => Leads(<<a, b>>, b, w, asks)
         /\ ~ Hits(a, w, asks) /\ ~ Hits(b, w, asks) => Silent(<<a, b>>, w, asks)
<1>. DEFINE s == <<a, b>>
<1>1. Len(s) = 2 /\ s[1] = a /\ s[2] = b /\ s \in Seq(RuleSet)
  OBVIOUS
<1>2. (\A i \in 1..2 : i = 1 \/ i = 2) /\ 1 \in 1..2 /\ 2 \in 1..2 /\ 1..(1 - 1) = {}
  OBVIOUS
<1>3. \A j \in 1..(2 - 1) : j = 1
  OBVIOUS
<1>. HIDE DEF s
<1>4. Hits(a, w, asks) => Leads(s, a, w, asks)
  BY <1>1, <1>2 DEF Leads
<1>5. ~ Hits(a, w, asks) /\ Hits(b, w, asks) => Leads(s, b, w, asks)
  <2>. SUFFICES ASSUME ~ Hits(a, w, asks), Hits(b, w, asks)
                PROVE  s[2] = b /\ Hits(s[2], w, asks) /\ \A j \in 1..(2 - 1) : ~ Hits(s[j], w, asks)
    BY <1>1, <1>2 DEF Leads
  <2>. QED BY <1>1, <1>3
<1>6. ~ Hits(a, w, asks) /\ ~ Hits(b, w, asks) => Silent(s, w, asks)
  BY <1>1, <1>2 DEF Silent
<1>. QED BY <1>1, <1>4, <1>5, <1>6 DEF s

\* Nothing is silent.
LEMMA NoRules ==
  ASSUME NEW w, NEW asks
  PROVE  <<>> \in Seq(RuleSet) /\ Silent(<<>>, w, asks)
BY EmptySeq DEF Silent

\* The rules an edge compiles into.
LEMMA RulesAreTyped ==
  ASSUME NEW c \in Conns, NEW who \in Who, NEW scope \in Scope
  PROVE  /\ Allow(c, who, "channel", scope.surfaces \ Classes) \in RuleSet
         /\ Allow(c, who, "server", scope.servers) \in RuleSet
         /\ Allow(c, who, "class", AdmittedClasses(scope.surfaces)) \in RuleSet
         /\ Deny(c, who, "channels") \in RuleSet /\ Deny(c, who, "servers") \in RuleSet
         /\ Allow(c, who, "host", {}) \in RuleSet
<1>1. scope.surfaces \subseteq Channels \cup Classes /\ scope.servers \subseteq Servers
  BY DEF Scope
<1>2. AdmittedClasses(scope.surfaces) \subseteq Classes
  BY DEF AdmittedClasses, Classes
<1>. QED BY <1>1, <1>2 DEF RuleSet, Allow, Deny

\* An edge of somebody else, or for another host, decides nothing.
LEMMA ForeignEdge ==
  ASSUME NEW c \in Conns, NEW who \in Who, NEW scope \in Scope, NEW w, NEW asks,
         ~ Applies(who, w) \/ Host[c] # asks.host
  PROVE  EdgeRules(c, who, scope) \in Seq(RuleSet) /\ Silent(EdgeRules(c, who, scope), w, asks)
<1>. DEFINE a == Allow(c, who, "channel", scope.surfaces \ Classes)
            b == Allow(c, who, "server", scope.servers)
            d == Allow(c, who, "class", AdmittedClasses(scope.surfaces))
            e == Deny(c, who, "channels")
            f == Deny(c, who, "servers")
            h == Allow(c, who, "host", {})
            p == <<a, b>>
            q == IF scope.surfaces # {} /\ scope.servers = {} THEN <<d, e>> ELSE <<>>
            t == <<f>>
            u == <<h>>
            v == IF Kind[c] # "scoped" \/ scope = Open THEN <<>> ELSE p \o q \o t
<1>1. EdgeRules(c, who, scope) = v \o u
  BY Zenon DEF EdgeRules
<1>2. a \in RuleSet /\ b \in RuleSet /\ d \in RuleSet /\ e \in RuleSet /\ f \in RuleSet /\ h \in RuleSet
  BY RulesAreTyped
<1>3. \A r \in {a, b, d, e, f, h} : r.who = who /\ r.conn = c /\ r.on # "web"
  BY DEF Allow, Deny
<1>. HIDE DEF a, b, d, e, f, h
<1>4. \A r \in {a, b, d, e, f, h} : ~ Hits(r, w, asks)
  BY <1>3 DEF Hits, Matches
<1>5. p \in Seq(RuleSet) /\ Silent(p, w, asks)
  BY <1>2, <1>4, Pair
<1>6. q \in Seq(RuleSet) /\ Silent(q, w, asks)
  BY <1>2, <1>4, Pair, NoRules
<1>7. t \in Seq(RuleSet) /\ Silent(t, w, asks) /\ u \in Seq(RuleSet) /\ Silent(u, w, asks)
  BY <1>2, <1>4, Single
<1>. HIDE DEF p, q, t, u
<1>8. p \o q \in Seq(RuleSet) /\ Silent(p \o q, w, asks)
  BY <1>5, <1>6, ConcatProperties, SilentTogether
<1>. DEFINE pq == p \o q
<1>9. pq \o t \in Seq(RuleSet) /\ Silent(pq \o t, w, asks)
  <2>. HIDE DEF pq
  <2>. QED BY <1>7, <1>8, ConcatProperties, SilentTogether DEF pq
<1>10. v \in Seq(RuleSet) /\ Silent(v, w, asks)
  BY <1>9, NoRules
<1>. HIDE DEF v
<1>11. v \o u \in Seq(RuleSet) /\ Silent(v \o u, w, asks)
  BY <1>7, <1>10, ConcatProperties, SilentTogether
<1>. QED BY <1>1, <1>11

\* An edge that applies decides every asks to its host: a channel as it passes, the
\* rest by the credential.
LEMMA OwnEdge ==
  ASSUME NEW c \in Conns, NEW who \in Who, NEW scope \in Scope, NEW w, Applies(who, w),
         NEW asks, asks.host = Host[c],
         asks.kind = "host" \/ (asks.kind = "channel" /\ asks.id \in Channels)
  PROVE  /\ EdgeRules(c, who, scope) \in Seq(RuleSet)
         /\ \E rule \in RuleSet :
              /\ Leads(EdgeRules(c, who, scope), rule, w, asks)
              /\ rule.conn = c
              /\ rule.allow = (Broad(asks) \/ Passes(c, scope, asks.id))
<1>. DEFINE a == Allow(c, who, "channel", scope.surfaces \ Classes)
            b == Allow(c, who, "server", scope.servers)
            d == Allow(c, who, "class", AdmittedClasses(scope.surfaces))
            e == Deny(c, who, "channels")
            f == Deny(c, who, "servers")
            h == Allow(c, who, "host", {})
            p == <<a, b>>
            q == IF scope.surfaces # {} /\ scope.servers = {} THEN <<d, e>> ELSE <<>>
            t == <<f>>
            u == <<h>>
            v == IF Kind[c] # "scoped" \/ scope = Open THEN <<>> ELSE p \o q \o t
            onChannel == asks.kind = "channel" /\ asks.spelt
            listed == onChannel /\ Listed(scope.surfaces \ Classes, asks.id)
            narrow == scope.surfaces # {} /\ scope.servers = {}
            classed == onChannel /\ ClassOf[asks.id] \in AdmittedClasses(scope.surfaces)
<1>1. EdgeRules(c, who, scope) = v \o u
  BY Zenon DEF EdgeRules
<1>2. a \in RuleSet /\ b \in RuleSet /\ d \in RuleSet /\ e \in RuleSet /\ f \in RuleSet /\ h \in RuleSet
  BY RulesAreTyped
<1>3. /\ a.allow = TRUE /\ d.allow = TRUE /\ h.allow = TRUE /\ e.allow = FALSE
      /\ a.conn = c /\ d.conn = c /\ e.conn = c /\ h.conn = c
  BY DEF Allow, Deny
<1>4. /\ Hits(a, w, asks) <=> listed
      /\ ~ Hits(b, w, asks) /\ ~ Hits(f, w, asks)
      /\ Hits(d, w, asks) <=> classed
      /\ Hits(e, w, asks) <=> onChannel
      /\ Hits(h, w, asks)
  BY DEF Hits, Matches, Allow, Deny
<1>5. onChannel => (Listed(scope.surfaces \ Classes, asks.id) <=> listed)
  OBVIOUS
<1>. HIDE DEF a, b, d, e, f, h, listed, classed
<1>6. /\ p \in Seq(RuleSet) /\ (listed => Leads(p, a, w, asks)) /\ (~ listed => Silent(p, w, asks))
  BY <1>2, <1>4, Pair
<1>7. /\ q \in Seq(RuleSet)
      /\ narrow /\ onChannel /\ classed => Leads(q, d, w, asks)
      /\ narrow /\ onChannel /\ ~ classed => Leads(q, e, w, asks)
      /\ ~ narrow \/ ~ onChannel => Silent(q, w, asks)
  <2>1. classed => onChannel
    BY DEF classed
  <2>. QED BY <1>2, <1>4, <2>1, Pair, NoRules
<1>8. t \in Seq(RuleSet) /\ Silent(t, w, asks) /\ u \in Seq(RuleSet) /\ Leads(u, h, w, asks)
  BY <1>2, <1>4, Single
<1>. HIDE DEF p, q, t, u, narrow
<1>. DEFINE pq == p \o q
            pqt == pq \o t
<1>9. /\ pq \in Seq(RuleSet)
      /\ listed => Leads(pq, a, w, asks)
      /\ ~ listed /\ narrow /\ onChannel /\ classed => Leads(pq, d, w, asks)
      /\ ~ listed /\ narrow /\ onChannel /\ ~ classed => Leads(pq, e, w, asks)
      /\ ~ listed /\ (~ narrow \/ ~ onChannel) => Silent(pq, w, asks)
  BY <1>6, <1>7, ConcatProperties, LeadsTogether, SilentTogether
<1>. HIDE DEF pq
<1>10. /\ pqt \in Seq(RuleSet)
       /\ listed => Leads(pqt, a, w, asks)
       /\ ~ listed /\ narrow /\ onChannel /\ classed => Leads(pqt, d, w, asks)
       /\ ~ listed /\ narrow /\ onChannel /\ ~ classed => Leads(pqt, e, w, asks)
       /\ ~ listed /\ (~ narrow \/ ~ onChannel) => Silent(pqt, w, asks)
  BY <1>8, <1>9, ConcatProperties, LeadsTogether, SilentTogether
<1>. HIDE DEF pqt
<1>. DEFINE free == Kind[c] # "scoped" \/ scope = Open
<1>11. v = IF free THEN <<>> ELSE pqt
  BY DEF pqt, pq
<1>. HIDE DEF v, free
<1>12. /\ v \in Seq(RuleSet)
       /\ free => Silent(v, w, asks)
       /\ ~ free /\ listed => Leads(v, a, w, asks)
       /\ ~ free /\ ~ listed /\ narrow /\ onChannel /\ classed => Leads(v, d, w, asks)
       /\ ~ free /\ ~ listed /\ narrow /\ onChannel /\ ~ classed => Leads(v, e, w, asks)
       /\ ~ free /\ ~ listed /\ (~ narrow \/ ~ onChannel) => Silent(v, w, asks)
  BY <1>10, <1>11, NoRules
<1>13. v \o u \in Seq(RuleSet)
  BY <1>8, <1>12, ConcatProperties
<1>14. \A r \in RuleSet : Leads(v, r, w, asks) => Leads(v \o u, r, w, asks)
  BY <1>8, <1>12, LeadsTogether
<1>15. Silent(v, w, asks) => Leads(v \o u, h, w, asks)
  BY <1>8, <1>12, LeadsTogether
<1>16. onChannel => (Passes(c, scope, asks.id) <=> free \/ listed \/ classed \/ ~ narrow)
  BY <1>5 DEF Passes, free, classed, narrow
<1>17. listed => onChannel
  BY DEF listed
<1>18. onChannel \/ Broad(asks)
  BY DEF Broad
<1>19. onChannel => ~ Broad(asks)
  BY DEF Broad
<1>. HIDE DEF onChannel
<1>20. CASE ~ onChannel
  <2>1. Silent(v, w, asks)
    BY <1>12, <1>17, <1>20
  <2>2. Leads(v \o u, h, w, asks)
    BY <1>15, <2>1
  <2>. QED BY <1>1, <1>2, <1>3, <1>13, <1>18, <1>20, <2>2
<1>21. CASE onChannel /\ (free \/ (~ listed /\ ~ narrow))
  <2>1. Silent(v, w, asks)
    BY <1>12, <1>21
  <2>2. Leads(v \o u, h, w, asks) /\ Passes(c, scope, asks.id)
    BY <1>15, <1>16, <1>21, <2>1
  <2>. QED BY <1>1, <1>2, <1>3, <1>13, <2>2
<1>22. CASE onChannel /\ ~ free /\ listed
  <2>1. Leads(v \o u, a, w, asks) /\ Passes(c, scope, asks.id)
    BY <1>2, <1>12, <1>14, <1>16, <1>22
  <2>. QED BY <1>1, <1>2, <1>3, <1>13, <2>1
<1>23. CASE onChannel /\ ~ free /\ ~ listed /\ narrow /\ classed
  <2>1. Leads(v \o u, d, w, asks) /\ Passes(c, scope, asks.id)
    BY <1>2, <1>12, <1>14, <1>16, <1>23
  <2>. QED BY <1>1, <1>2, <1>3, <1>13, <2>1
<1>24. CASE onChannel /\ ~ free /\ ~ listed /\ narrow /\ ~ classed
  <2>1. Leads(v \o u, e, w, asks) /\ ~ Passes(c, scope, asks.id) /\ ~ Broad(asks)
    BY <1>2, <1>12, <1>14, <1>16, <1>19, <1>24
  <2>. QED BY <1>1, <1>2, <1>3, <1>13, <2>1
<1>. QED BY <1>20, <1>21, <1>22, <1>23, <1>24

\* The rules of an edge, on their own.
LEMMA AnyEdge ==
  ASSUME NEW c \in Conns, NEW who \in Who, NEW scope \in Scope
  PROVE  EdgeRules(c, who, scope) \in Seq(RuleSet)
<1>. DEFINE asks == [host |-> Host[c], kind |-> "host", id |-> None]
<1>1. asks.host = Host[c] /\ asks.kind = "host"
  OBVIOUS
<1>. HIDE DEF asks
<1>2. CASE Applies(who, who)
  BY <1>1, <1>2, OwnEdge
<1>3. CASE ~ Applies(who, who)
  BY <1>3, ForeignEdge
<1>. QED BY <1>2, <1>3

\* A configuration as the disk can hold it.
Typed(conf) ==
  /\ conf.files \in [Conns -> File \cup {None}]
  /\ conf.secrets \in SUBSET Conns

\* The edges of an enabled connection.
LEMMA EnabledIs ==
  ASSUME NEW conf, Typed(conf), NEW c \in Enabled(conf)
  PROVE  /\ c \in Conns /\ Kind[c] # "mount"
         /\ EdgesOf(conf, c) \in EdgeTable
         /\ DOMAIN EdgesOf(conf, c) \in SUBSET Who
         /\ \A who \in DOMAIN EdgesOf(conf, c) : EdgesOf(conf, c)[who] \in Scope
<1>1. c \in Conns /\ Kind[c] # "mount" /\ conf.files[c] \in File
  BY DEF Enabled, Present, Typed
<1>2. EdgesOf(conf, c) \in EdgeTable
  BY <1>1, EdgesAreTyped DEF EdgesOf
<1>. QED BY <1>1, <1>2, TableHas

\* The lists a file's rules are made of, one for each name of the order.
Chapters(conf, c) ==
  [i \in DOMAIN WhoOrder |->
     IF WhoOrder[i] \in DOMAIN EdgesOf(conf, c)
     THEN EdgeRules(c, WhoOrder[i], EdgesOf(conf, c)[WhoOrder[i]]) ELSE <<>>]

\* There is one for each name, and flattened they are the rules of the file.
LEMMA ChaptersAre ==
  ASSUME NEW conf, Typed(conf), NEW c \in Enabled(conf)
  PROVE  /\ Chapters(conf, c) \in Seq(Seq(RuleSet))
         /\ Len(Chapters(conf, c)) = Len(WhoOrder) /\ Len(WhoOrder) \in Nat
         /\ FileRules(conf, c) = FlattenSeq(Chapters(conf, c))
         /\ \A i \in 1..Len(WhoOrder) :
              /\ WhoOrder[i] \in Who
              /\ Chapters(conf, c)[i] = IF WhoOrder[i] \in DOMAIN EdgesOf(conf, c)
                                        THEN EdgeRules(c, WhoOrder[i], EdgesOf(conf, c)[WhoOrder[i]])
                                        ELSE <<>>
<1>. DEFINE n == Len(WhoOrder)
            E == EdgesOf(conf, c)
            ss == Chapters(conf, c)
<1>1. n \in Nat /\ DOMAIN WhoOrder = 1..n /\ \A i \in 1..n : WhoOrder[i] \in Who
  BY GrantsAssumption, LenProperties
<1>2. FileRules(conf, c) = FlattenSeq(ss)
  BY DEF FileRules, Chapters
<1>3. c \in Conns /\ \A who \in DOMAIN E : E[who] \in Scope
  BY EnabledIs
<1>4. \A i \in 1..n : ss[i] = IF WhoOrder[i] \in DOMAIN E THEN EdgeRules(c, WhoOrder[i], E[WhoOrder[i]]) ELSE <<>>
  BY <1>1 DEF Chapters
<1>5. DOMAIN ss = 1..n /\ ss = [i \in 1..n |-> ss[i]]
  BY <1>1 DEF Chapters
<1>. HIDE DEF n, E, ss
<1>6. \A i \in 1..n : ss[i] \in Seq(RuleSet)
  BY <1>1, <1>3, <1>4, AnyEdge, NoRules
<1>7. ss \in [1..n -> Seq(RuleSet)]
  BY <1>5, <1>6
<1>8. ss \in Seq(Seq(RuleSet)) /\ Len(ss) = n
  BY <1>1, <1>7
<1>. QED BY <1>1, <1>2, <1>4, <1>8 DEF n, E, ss

\* A connection the worker has no edge of, or of another host, decides nothing.
LEMMA ForeignFile ==
  ASSUME NEW conf, Typed(conf), NEW c \in Conns, NEW w \in Workers, NEW asks,
         c \in Enabled(conf) => ~ HasEdge(conf, c, w) \/ Host[c] # asks.host
  PROVE  FileRules(conf, c) \in Seq(RuleSet) /\ Silent(FileRules(conf, c), w, asks)
<1>1. CASE c \notin Enabled(conf)
  <2>1. FileRules(conf, c) = <<>>
    BY <1>1 DEF FileRules
  <2>. QED BY <2>1, NoRules
<1>2. CASE c \in Enabled(conf)
  <2>. DEFINE n == Len(WhoOrder)
              ss == Chapters(conf, c)
              E == EdgesOf(conf, c)
  <2>1. /\ ss \in Seq(Seq(RuleSet)) /\ Len(ss) = n /\ n \in Nat /\ FileRules(conf, c) = FlattenSeq(ss)
        /\ \A i \in 1..n : /\ WhoOrder[i] \in Who
                           /\ ss[i] = IF WhoOrder[i] \in DOMAIN E
                                      THEN EdgeRules(c, WhoOrder[i], E[WhoOrder[i]]) ELSE <<>>
    BY <1>2, ChaptersAre
  <2>2. \A who \in DOMAIN E : E[who] \in Scope /\ (~ Applies(who, w) \/ Host[c] # asks.host)
    BY <1>2, EnabledIs DEF HasEdge
  <2>. HIDE DEF ss, E
  <2>3. \A i \in 1..n : Silent(ss[i], w, asks)
    BY <2>1, <2>2, ForeignEdge, NoRules
  <2>4. n + 1 \in 1..(Len(ss) + 1) /\ (n + 1) - 1 = n /\ ~ (n + 1 <= Len(ss)) /\ n + 1 > Len(ss)
    BY <2>1
  <2>. HIDE DEF n
  <2>5. \A j \in 1..((n + 1) - 1) : Silent(ss[j], w, asks)
    BY <2>3, <2>4
  <2>6. FlattenSeq(ss) \in Seq(RuleSet) /\ Silent(FlattenSeq(ss), w, asks)
    BY <2>1, <2>4, <2>5, JoinedLead
  <2>. QED BY <2>1, <2>6
<1>. QED BY <1>1, <1>2

\* The one edge of a connection that applies to a worker decides for its file.
LEMMA OwnFile ==
  ASSUME NEW conf, Typed(conf), NEW c \in Enabled(conf), NEW w \in Workers, NEW asks,
         asks.host = Host[c],
         asks.kind = "host" \/ (asks.kind = "channel" /\ asks.id \in Channels),
         NEW who \in DOMAIN EdgesOf(conf, c), Applies(who, w),
         \A x \in DOMAIN EdgesOf(conf, c) : Applies(x, w) => x = who
  PROVE  /\ FileRules(conf, c) \in Seq(RuleSet)
         /\ \E rule \in RuleSet :
              /\ Leads(FileRules(conf, c), rule, w, asks)
              /\ rule.conn = c
              /\ rule.allow = (Broad(asks) \/ Passes(c, EdgesOf(conf, c)[who], asks.id))
<1>. DEFINE n == Len(WhoOrder)
            ss == Chapters(conf, c)
            E == EdgesOf(conf, c)
<1>1. /\ ss \in Seq(Seq(RuleSet)) /\ Len(ss) = n /\ n \in Nat /\ FileRules(conf, c) = FlattenSeq(ss)
      /\ \A i \in 1..n : /\ WhoOrder[i] \in Who
                         /\ ss[i] = IF WhoOrder[i] \in DOMAIN E
                                    THEN EdgeRules(c, WhoOrder[i], E[WhoOrder[i]]) ELSE <<>>
  BY ChaptersAre
<1>2. c \in Conns /\ DOMAIN E \subseteq Who /\ \A x \in DOMAIN E : E[x] \in Scope
  BY EnabledIs
<1>3. PICK i \in 1..n : WhoOrder[i] = who
  <2>1. who \in ToSet(WhoOrder) /\ DOMAIN WhoOrder = 1..n
    BY <1>2, GrantsAssumption, LenProperties
  <2>. QED BY <2>1 DEF ToSet
<1>4. \A j \in 1..(i - 1) : j \in 1..n /\ WhoOrder[j] # who
  <2>1. \A j, k \in 1..n : WhoOrder[j] = WhoOrder[k] => j = k
    BY GrantsAssumption, LenProperties DEF IsInjective
  <2>2. \A j \in 1..(i - 1) : j \in 1..n /\ j # i
    BY <1>1
  <2>. HIDE DEF n
  <2>. QED BY <1>3, <2>1, <2>2
<1>5. PICK rule \in RuleSet :
              /\ Leads(EdgeRules(c, who, E[who]), rule, w, asks)
              /\ rule.conn = c
              /\ rule.allow = (Broad(asks) \/ Passes(c, E[who], asks.id))
  <2>1. who \in Who /\ E[who] \in Scope
    BY <1>2
  <2>. HIDE DEF E
  <2>. QED BY <1>2, <2>1, OwnEdge
<1>6. \A x \in DOMAIN E : x # who => ~ Applies(x, w)
  OBVIOUS
<1>7. who \in DOMAIN E
  OBVIOUS
<1>. HIDE DEF ss, E
<1>8. \A j \in 1..(i - 1) : Silent(ss[j], w, asks)
  <2>. SUFFICES ASSUME NEW j \in 1..(i - 1) PROVE Silent(ss[j], w, asks)
    OBVIOUS
  <2>1. j \in 1..n /\ WhoOrder[j] # who
    BY <1>4
  <2>2. CASE WhoOrder[j] \in DOMAIN E
    <3>1. ~ Applies(WhoOrder[j], w) /\ E[WhoOrder[j]] \in Scope /\ WhoOrder[j] \in Who
      BY <1>1, <1>2, <1>6, <2>1, <2>2
    <3>2. Silent(EdgeRules(c, WhoOrder[j], E[WhoOrder[j]]), w, asks)
      BY <1>2, <3>1, ForeignEdge
    <3>. QED BY <1>1, <2>1, <2>2, <3>2
  <2>3. CASE WhoOrder[j] \notin DOMAIN E
    BY <1>1, <2>1, <2>3, NoRules
  <2>. QED BY <2>2, <2>3
<1>9. Leads(ss[i], rule, w, asks)
  BY <1>1, <1>3, <1>5, <1>7
<1>10. i \in 1..(Len(ss) + 1) /\ i <= Len(ss)
  BY <1>1
<1>. HIDE DEF n
<1>11. FlattenSeq(ss) \in Seq(RuleSet) /\ Leads(FlattenSeq(ss), rule, w, asks)
  BY <1>1, <1>8, <1>9, <1>10, JoinedLead
<1>. QED BY <1>1, <1>5, <1>11 DEF E

\* A configuration that loads gives no worker two edges of a connection with a stand-in.
LEMMA OneEdgeApplies ==
  ASSUME NEW conf, Typed(conf), EnvsDistinct(conf), NEW c \in Enabled(conf), Env[c] # None,
         NEW w \in Workers, NEW x \in DOMAIN EdgesOf(conf, c), NEW y \in DOMAIN EdgesOf(conf, c),
         Applies(x, w), Applies(y, w)
  PROVE  x = y
<1>. SUFFICES ASSUME x # y PROVE FALSE
  OBVIOUS
<1>. DEFINE a == [who |-> x, conn |-> c]
            b == [who |-> y, conn |-> c]
<1>1. a \in Exposed(conf) /\ b \in Exposed(conf)
  BY DEF Exposed
<1>2. a # b /\ a.conn = c /\ b.conn = c /\ a.who = x /\ b.who = y
  OBVIOUS
<1>3. Overlap(a, b)
  BY <1>2 DEF Overlap, Applies
<1>. HIDE DEF a, b
<1>. QED BY <1>1, <1>2, <1>3 DEF EnvsDistinct

\* The listener's edge is the one that applies.
LEMMA GrantIsTheEdge ==
  ASSUME NEW conf, Typed(conf), EnvsDistinct(conf), NEW c \in Enabled(conf), Env[c] # None,
         NEW w \in Workers, HasEdge(conf, c, w)
  PROVE  \E who \in DOMAIN EdgesOf(conf, c) :
           /\ Applies(who, w)
           /\ \A x \in DOMAIN EdgesOf(conf, c) : Applies(x, w) => x = who
           /\ grant_for(conf, c, w) = EdgesOf(conf, c)[who]
           /\ EdgesOf(conf, c)[who] \in Scope
<1>1. PICK who \in DOMAIN EdgesOf(conf, c) : Applies(who, w)
  BY DEF HasEdge
<1>2. \A x \in DOMAIN EdgesOf(conf, c) : Applies(x, w) => x = who
  BY <1>1, OneEdgeApplies
<1>3. EdgesOf(conf, c)[who] \in Scope
  BY EnabledIs
<1>4. grant_for(conf, c, w) = EdgesOf(conf, c)[who]
  <2>1. CASE w \in DOMAIN EdgesOf(conf, c)
    <3>1. w = who
      BY <1>2, <2>1 DEF Applies
    <3>. QED BY <2>1, <3>1 DEF grant_for
  <2>2. CASE w \notin DOMAIN EdgesOf(conf, c)
    <3>1. who = "org"
      BY <1>1, <2>2 DEF Applies
    <3>. QED BY <2>2, <3>1 DEF grant_for
  <2>. QED BY <2>1, <2>2
<1>. QED BY <1>1, <1>2, <1>3, <1>4

\* The rules of all files, one list for each.
Books(conf) == [i \in DOMAIN ConnOrder |-> FileRules(conf, ConnOrder[i])]

\* The hand-written rule decides every call, for no connection.
LEMMA WebFetchIs ==
  ASSUME NEW w, NEW asks
  PROVE  /\ <<WebFetch>> \in Seq(RuleSet) /\ WebFetch.conn = None /\ None \notin Conns
         /\ Leads(<<WebFetch>>, WebFetch, w, asks)
<1>1. WebFetch \in RuleSet
  BY DEF WebFetch, RuleSet, Who
<1>2. WebFetch.conn = None /\ None \notin Conns
  BY GrantsAssumption DEF WebFetch
<1>3. Hits(WebFetch, w, asks)
  BY DEF Hits, Applies, Matches, WebFetch
<1>. QED BY <1>1, <1>2, <1>3, Single

\* There is one for each connection, and flattened they come before the hand-written rule.
LEMMA BooksAre ==
  ASSUME NEW conf, \A c \in Conns : FileRules(conf, c) \in Seq(RuleSet)
  PROVE  /\ Books(conf) \in Seq(Seq(RuleSet))
         /\ Len(Books(conf)) = Len(ConnOrder) /\ Len(ConnOrder) \in Nat
         /\ Rules(conf) = FlattenSeq(Books(conf)) \o <<WebFetch>>
         /\ \A i \in 1..Len(ConnOrder) : /\ ConnOrder[i] \in Conns
                                         /\ Books(conf)[i] = FileRules(conf, ConnOrder[i])
<1>. DEFINE n == Len(ConnOrder)
            ss == Books(conf)
<1>1. n \in Nat /\ DOMAIN ConnOrder = 1..n /\ \A i \in 1..n : ConnOrder[i] \in Conns
  BY ConnectionsAssumption, LenProperties
<1>2. Rules(conf) = FlattenSeq(ss) \o <<WebFetch>>
  BY DEF Rules, Books
<1>3. DOMAIN ss = 1..n /\ ss = [i \in 1..n |-> ss[i]] /\ \A i \in 1..n : ss[i] = FileRules(conf, ConnOrder[i])
  BY <1>1 DEF Books
<1>. HIDE DEF n, ss
<1>4. \A i \in 1..n : ss[i] \in Seq(RuleSet)
  BY <1>1, <1>3
<1>5. ss \in [1..n -> Seq(RuleSet)]
  BY <1>3, <1>4
<1>6. ss \in Seq(Seq(RuleSet)) /\ Len(ss) = n
  BY <1>1, <1>5
<1>. QED BY <1>1, <1>2, <1>3, <1>6 DEF n, ss

\* Where one file decides and no other does, the judge takes its rule.
LEMMA FileDecides ==
  ASSUME NEW conf, Typed(conf), NEW w \in Workers, NEW asks, NEW c \in Conns, NEW rule,
         FileRules(conf, c) \in Seq(RuleSet), Leads(FileRules(conf, c), rule, w, asks),
         \A d \in Conns \ {c} : d \in Enabled(conf) => ~ HasEdge(conf, d, w) \/ Host[d] # asks.host
  PROVE  judge(Rules(conf), w, asks) = rule
<1>. DEFINE n == Len(ConnOrder)
            ss == Books(conf)
<1>1. \A d \in Conns \ {c} : FileRules(conf, d) \in Seq(RuleSet) /\ Silent(FileRules(conf, d), w, asks)
  BY ForeignFile
<1>2. \A d \in Conns : FileRules(conf, d) \in Seq(RuleSet)
  BY <1>1
<1>3. /\ ss \in Seq(Seq(RuleSet)) /\ Len(ss) = n /\ n \in Nat
      /\ Rules(conf) = FlattenSeq(ss) \o <<WebFetch>>
      /\ \A i \in 1..n : ConnOrder[i] \in Conns /\ ss[i] = FileRules(conf, ConnOrder[i])
  BY <1>2, BooksAre
<1>4. PICK i \in 1..n : ConnOrder[i] = c
  <2>1. c \in ToSet(ConnOrder) /\ DOMAIN ConnOrder = 1..n
    BY ConnectionsAssumption, LenProperties DEF Conns
  <2>. QED BY <2>1 DEF ToSet
<1>5. \A j \in 1..(i - 1) : j \in 1..n /\ ConnOrder[j] # c
  <2>1. \A j, k \in 1..n : ConnOrder[j] = ConnOrder[k] => j = k
    BY ConnectionsAssumption, LenProperties DEF IsInjective
  <2>2. \A j \in 1..(i - 1) : j \in 1..n /\ j # i
    BY <1>3, SMTT(30)
  <2>. HIDE DEF n
  <2>. QED BY <1>4, <2>1, <2>2
<1>. HIDE DEF ss
<1>6. \A j \in 1..(i - 1) : Silent(ss[j], w, asks)
  BY <1>1, <1>3, <1>5
<1>7. Leads(ss[i], rule, w, asks)
  BY <1>3, <1>4
<1>8. i \in 1..(Len(ss) + 1) /\ i <= Len(ss)
  BY <1>3
<1>. HIDE DEF n
<1>9. FlattenSeq(ss) \in Seq(RuleSet) /\ Leads(FlattenSeq(ss), rule, w, asks)
  BY <1>3, <1>6, <1>7, <1>8, JoinedLead
<1>10. <<WebFetch>> \in Seq(RuleSet)
  BY WebFetchIs
<1>. DEFINE all == FlattenSeq(ss)
            last == <<WebFetch>>
<1>11. all \in Seq(RuleSet) /\ last \in Seq(RuleSet) /\ Leads(all, rule, w, asks) /\ Rules(conf) = all \o last
  BY <1>3, <1>9, <1>10
<1>. HIDE DEF all, last
<1>12. all \o last \in Seq(RuleSet)
  BY <1>11, ConcatProperties
<1>13. Leads(all \o last, rule, w, asks)
  BY <1>11, LeadsTogether
<1>. DEFINE whole == all \o last
<1>14. whole \in Seq(RuleSet) /\ Leads(whole, rule, w, asks) /\ Rules(conf) = whole
  BY <1>11, <1>12, <1>13
<1>. HIDE DEF whole
<1>15. judge(whole, w, asks) = rule
  BY <1>14, JudgeTakesFirst
<1>. QED BY <1>14, <1>15

\* Where no file decides, no connection acts.
LEMMA NobodyDecides ==
  ASSUME NEW conf, Typed(conf), NEW w \in Workers, NEW asks,
         \A d \in Conns : d \in Enabled(conf) => ~ HasEdge(conf, d, w) \/ Host[d] # asks.host
  PROVE  judge(Rules(conf), w, asks) = WebFetch
<1>. DEFINE n == Len(ConnOrder)
            ss == Books(conf)
<1>1. \A d \in Conns : FileRules(conf, d) \in Seq(RuleSet) /\ Silent(FileRules(conf, d), w, asks)
  BY ForeignFile
<1>2. /\ ss \in Seq(Seq(RuleSet)) /\ Len(ss) = n /\ n \in Nat
      /\ Rules(conf) = FlattenSeq(ss) \o <<WebFetch>>
      /\ \A i \in 1..n : ConnOrder[i] \in Conns /\ ss[i] = FileRules(conf, ConnOrder[i])
  BY <1>1, BooksAre
<1>. HIDE DEF ss
<1>3. \A j \in 1..n : Silent(ss[j], w, asks)
  BY <1>1, <1>2
<1>4. n + 1 \in 1..(Len(ss) + 1) /\ (n + 1) - 1 = n /\ ~ (n + 1 <= Len(ss)) /\ n + 1 > Len(ss)
  BY <1>2
<1>. HIDE DEF n
<1>5. \A j \in 1..((n + 1) - 1) : Silent(ss[j], w, asks)
  BY <1>3, <1>4
<1>6. FlattenSeq(ss) \in Seq(RuleSet) /\ Silent(FlattenSeq(ss), w, asks)
  BY <1>2, <1>4, <1>5, JoinedLead
<1>. DEFINE all == FlattenSeq(ss)
            last == <<WebFetch>>
<1>7. /\ all \in Seq(RuleSet) /\ last \in Seq(RuleSet) /\ Silent(all, w, asks)
      /\ Leads(last, WebFetch, w, asks) /\ Rules(conf) = all \o last
  BY <1>2, <1>6, WebFetchIs
<1>. HIDE DEF all, last
<1>8. all \o last \in Seq(RuleSet)
  BY <1>7, ConcatProperties
<1>9. Leads(all \o last, WebFetch, w, asks)
  BY <1>7, LeadsTogether
<1>. DEFINE whole == all \o last
<1>10. whole \in Seq(RuleSet) /\ Leads(whole, WebFetch, w, asks) /\ Rules(conf) = whole
  BY <1>7, <1>8, <1>9
<1>. HIDE DEF whole
<1>11. judge(whole, w, asks) = WebFetch
  BY <1>10, JudgeTakesFirst
<1>. QED BY <1>10, <1>11

\* A call to the host of a connection that is the worker's only one for it goes out as
\* the connection if its edge lets it.
LEMMA ActsByItsEdge ==
  ASSUME NEW conf, Typed(conf), EnvsDistinct(conf), NEW c \in Enabled(conf), Env[c] # None,
         NEW w \in Workers, HasEdge(conf, c, w), Alone(conf, c, w), NEW asks,
         asks.host = Host[c],
         asks.kind = "host" \/ (asks.kind = "channel" /\ asks.id \in Channels)
  PROVE  /\ grant_for(conf, c, w) \in Scope
         /\ ActsAs(Rules(conf), c, w, asks) <=>
              (Broad(asks) \/ Passes(c, grant_for(conf, c, w), asks.id))
<1>1. PICK who \in DOMAIN EdgesOf(conf, c) :
           /\ Applies(who, w)
           /\ \A x \in DOMAIN EdgesOf(conf, c) : Applies(x, w) => x = who
           /\ grant_for(conf, c, w) = EdgesOf(conf, c)[who]
           /\ EdgesOf(conf, c)[who] \in Scope
  BY GrantIsTheEdge
<1>2. /\ FileRules(conf, c) \in Seq(RuleSet)
      /\ \E rule \in RuleSet :
              /\ Leads(FileRules(conf, c), rule, w, asks)
              /\ rule.conn = c
              /\ rule.allow = (Broad(asks) \/ Passes(c, EdgesOf(conf, c)[who], asks.id))
  BY <1>1, OwnFile
<1>3. PICK rule \in RuleSet :
              /\ Leads(FileRules(conf, c), rule, w, asks)
              /\ rule.conn = c
              /\ rule.allow = (Broad(asks) \/ Passes(c, EdgesOf(conf, c)[who], asks.id))
  BY <1>2
<1>4. c \in Conns
  BY EnabledIs
<1>5. \A d \in Conns \ {c} : d \in Enabled(conf) => ~ HasEdge(conf, d, w) \/ Host[d] # asks.host
  BY DEF Alone
<1>6. judge(Rules(conf), w, asks) = rule
  BY <1>2, <1>3, <1>4, <1>5, FileDecides
<1>. QED BY <1>1, <1>3, <1>6 DEF ActsAs

\* Without an edge no call goes out as the connection.
LEMMA NoEdgeNoAct ==
  ASSUME NEW conf, Typed(conf), NEW c \in Enabled(conf), NEW w \in Workers,
         ~ HasEdge(conf, c, w), Alone(conf, c, w), NEW asks, asks.host = Host[c]
  PROVE  ~ ActsAs(Rules(conf), c, w, asks)
<1>1. c \in Conns
  BY EnabledIs
<1>2. \A d \in Conns : d \in Enabled(conf) => ~ HasEdge(conf, d, w) \/ Host[d] # asks.host
  BY DEF Alone
<1>3. judge(Rules(conf), w, asks) = WebFetch
  BY <1>2, NobodyDecides
<1>. QED BY <1>1, <1>3, WebFetchIs DEF ActsAs

\* The listener admits what the gateway passes, but where the rules are coarser.
LEMMA AdmittedPasses ==
  ASSUME NEW c \in Conns, NEW scope \in Scope, NEW s \in Channels, Kind[c] = "scoped",
         ServerOf[s] = None => ClassOf[s] = "dm"
  PROVE  /\ Admits(scope, s) => Passes(c, scope, s)
         /\ Passes(c, scope, s) => Admits(scope, s) \/ Coarse(scope, s)
<1>. DEFINE classes == scope.surfaces \cap Classes
<1>1. ListenerClass(s) = ClassOf[s]
  BY DEF ListenerClass
<1>2. scope.surfaces = {} /\ scope.servers = {} => scope = Open
  BY DEF Scope, Open
<1>3. Open.surfaces = {}
  BY DEF Open
<1>4. AdmittedClasses(scope.surfaces) = IF classes = {} THEN {"dm"} ELSE classes
  BY DEF AdmittedClasses
<1>5. Admits(scope, s) <=> \/ s \in scope.surfaces
                           \/ ClassOf[s] = "dm" /\ (classes = {} \/ "dm" \in classes)
                           \/ /\ ClassOf[s] # "dm"
                              /\ scope = Open \/ ClassOf[s] \in classes \/ ServerOf[s] \in scope.servers
  BY <1>1 DEF Admits
<1>6. scope = Open => classes = {}
  BY <1>3
<1>7. /\ s \in scope.surfaces => Listed(scope.surfaces \ Classes, s)
      /\ Listed(scope.surfaces \ Classes, s) => s \in scope.surfaces \/ Coarse(scope, s)
      /\ scope.servers # {} => Coarse(scope, s)
  BY GrantsAssumption DEF Listed, Coarse
<1>. HIDE DEF classes
<1>. QED BY <1>2, <1>4, <1>5, <1>6, <1>7 DEF Passes

\* The disk is such a configuration.
LEMMA DiskIsTyped == ASSUME FilesTyped PROVE Typed(Disk)
BY DEF FilesTyped, DiskTypeOK, Typed, Disk

\* The gateway lets a call to a channel out, the path spelling it or not.
LEMMA ChannelActs ==
  ASSUME FilesTyped, Loads(Disk), NEW c \in Enabled(Disk), NEW w \in Workers, NEW s \in Channels,
         Kind[c] = "scoped", Alone(Disk, c, w), NEW spelt \in BOOLEAN
  PROVE  /\ HasEdge(Disk, c, w) => /\ grant_for(Disk, c, w) \in Scope
                                  /\ ActsAs(Rules(Disk), c, w, CallTo(c, s, spelt)) <=>
                                       ~ spelt \/ Passes(c, grant_for(Disk, c, w), s)
         /\ ~ HasEdge(Disk, c, w) => ~ ActsAs(Rules(Disk), c, w, CallTo(c, s, spelt))
<1>. DEFINE asks == CallTo(c, s, spelt)
<1>1. Typed(Disk) /\ EnvsDistinct(Disk)
  BY DiskIsTyped DEF Loads
<1>2. c \in Conns /\ Env[c] # None
  BY <1>1, EnabledIs, GrantsAssumption
<1>3. asks.host = Host[c] /\ asks.kind = "channel" /\ asks.id = s /\ (Broad(asks) <=> ~ spelt)
  BY DEF CallTo, Broad
<1>. HIDE DEF asks
<1>4. ASSUME HasEdge(Disk, c, w)
      PROVE  /\ grant_for(Disk, c, w) \in Scope
             /\ ActsAs(Rules(Disk), c, w, asks) <=> (Broad(asks) \/ Passes(c, grant_for(Disk, c, w), asks.id))
  BY <1>1, <1>2, <1>3, <1>4, ActsByItsEdge
<1>5. ASSUME ~ HasEdge(Disk, c, w) PROVE ~ ActsAs(Rules(Disk), c, w, asks)
  BY <1>1, <1>3, <1>5, NoEdgeNoAct
<1>. QED BY <1>3, <1>4, <1>5 DEF asks

\* The listener and the gateway agree on whatever loads.
LEMMA OneScope == ASSUME FilesTyped PROVE OneScopeEverywhere
<1>. SUFFICES ASSUME Loads(Disk), NEW c \in Enabled(Disk), NEW w \in Workers, NEW s \in Channels,
                     Kind[c] = "scoped", Alone(Disk, c, w), ServerOf[s] = None => ClassOf[s] = "dm"
              PROVE  LET reach(spelt) == ActsAs(Rules(Disk), c, w, CallTo(c, s, spelt))
                         admitted == allows_surface(Disk, c, w, s)
                     IN /\ admitted => reach(TRUE) /\ reach(FALSE)
                        /\ reach(TRUE) => admitted \/ (HasEdge(Disk, c, w) /\ Coarse(grant_for(Disk, c, w), s))
  BY Zenon DEF OneScopeEverywhere
<1>1. c \in Conns
  BY DiskIsTyped, EnabledIs
<1>. DEFINE scope == grant_for(Disk, c, w)
            plain == ActsAs(Rules(Disk), c, w, CallTo(c, s, TRUE))
            other == ActsAs(Rules(Disk), c, w, CallTo(c, s, FALSE))
<1>2. /\ HasEdge(Disk, c, w) => scope \in Scope /\ (plain <=> Passes(c, scope, s)) /\ other
      /\ ~ HasEdge(Disk, c, w) => ~ plain
  BY ChannelActs
<1>3. allows_surface(Disk, c, w, s) <=> HasEdge(Disk, c, w) /\ Admits(scope, s)
  BY DEF allows_surface
<1>. HIDE DEF scope, plain, other
<1>4. HasEdge(Disk, c, w) => /\ Admits(scope, s) => Passes(c, scope, s)
                             /\ Passes(c, scope, s) => Admits(scope, s) \/ Coarse(scope, s)
  BY <1>1, <1>2, AdmittedPasses
<1>5. /\ allows_surface(Disk, c, w, s) => plain /\ other
      /\ plain => allows_surface(Disk, c, w, s) \/ (HasEdge(Disk, c, w) /\ Coarse(scope, s))
  BY <1>2, <1>3, <1>4
<1>. QED BY <1>5 DEF scope, plain, other

\* What a worker is told it has, its box is given, and it works.
LEMMA ToldGiven == ASSUME FilesTyped PROVE ToldIsGiven
<1>. SUFFICES ASSUME Loads(Disk), NEW w \in Workers
              PROVE  /\ Told(Disk, w) = BoxEnv(Disk, w)
                     /\ \A c, d \in BoxEnv(Disk, w) : Env[c] = Env[d] => c = d
                     /\ \A c \in Told(Disk, w) : Alone(Disk, c, w) =>
                          ActsAs(Rules(Disk), c, w, [host |-> Host[c], kind |-> "host", id |-> None, spelt |-> TRUE])
  BY Zenon DEF ToldIsGiven
<1>1. Typed(Disk) /\ EnvsDistinct(Disk)
  BY DiskIsTyped DEF Loads
<1>2. \A e \in Exposed(Disk) : /\ e.conn \in Enabled(Disk) /\ Env[e.conn] # None
                               /\ e.who \in DOMAIN EdgesOf(Disk, e.conn)
  BY DEF Exposed
<1>3. \A c \in Enabled(Disk) : Env[c] # None =>
        \A who \in DOMAIN EdgesOf(Disk, c) : [who |-> who, conn |-> c] \in Exposed(Disk)
  BY DEF Exposed
<1>4. ASSUME NEW c \in Told(Disk, w) PROVE c \in BoxEnv(Disk, w)
  <2>1. c \in Enabled(Disk) /\ Env[c] # None /\ HasEdge(Disk, c, w)
    BY DEF Told
  <2>2. PICK who \in DOMAIN EdgesOf(Disk, c) : Applies(who, w)
    BY <2>1 DEF HasEdge
  <2>3. [who |-> who, conn |-> c] \in Exposed(Disk)
    BY <1>3, <2>1
  <2>. QED BY <2>2, <2>3 DEF BoxEnv
<1>5. ASSUME NEW c \in BoxEnv(Disk, w) PROVE c \in Told(Disk, w)
  <2>1. PICK e \in Exposed(Disk) : Applies(e.who, w) /\ e.conn = c
    BY DEF BoxEnv
  <2>. QED BY <1>2, <2>1 DEF Told, HasEdge
<1>6. ASSUME NEW c \in BoxEnv(Disk, w), NEW d \in BoxEnv(Disk, w), Env[c] = Env[d] PROVE c = d
  <2>1. PICK x \in Exposed(Disk) : Applies(x.who, w) /\ x.conn = c
    BY DEF BoxEnv
  <2>2. PICK y \in Exposed(Disk) : Applies(y.who, w) /\ y.conn = d
    BY DEF BoxEnv
  <2>3. Overlap(x, y)
    BY <2>1, <2>2 DEF Overlap, Applies
  <2>4. ~ (x # y)
    BY <1>1, <1>6, <2>1, <2>2, <2>3 DEF EnvsDistinct
  <2>. QED BY <2>1, <2>2, <2>4
<1>7. ASSUME NEW c \in Told(Disk, w), Alone(Disk, c, w)
      PROVE  ActsAs(Rules(Disk), c, w, [host |-> Host[c], kind |-> "host", id |-> None, spelt |-> TRUE])
  <2>. DEFINE asks == [host |-> Host[c], kind |-> "host", id |-> None, spelt |-> TRUE]
  <2>1. c \in Enabled(Disk) /\ Env[c] # None /\ HasEdge(Disk, c, w)
    BY DEF Told
  <2>2. asks.host = Host[c] /\ asks.kind = "host"
    OBVIOUS
  <2>. HIDE DEF asks
  <2>3. ActsAs(Rules(Disk), c, w, asks)
    BY <1>1, <1>7, <2>1, <2>2, ActsByItsEdge DEF Broad
  <2>. QED BY <2>3 DEF asks
<1>. QED BY <1>4, <1>5, <1>6, <1>7

(* The files mean one thing, whoever reads them, for any workers, connections, *)
(* scopes, channels and files that load: a channel a worker's listener admits  *)
(* its box's gateway lets it call, by whatever path; a channel it lets it call *)
(* by the path the rules are written for, the listener admits (but for a       *)
(* servers dimension and for ids that begin with a listed one's); and what the *)
(* briefing tells it that it has is in its box, under an env of its own, and   *)
(* is what a call goes out with (config.rs, judge.rs).                         *)
THEOREM GrantsAgree == ConnInit /\ [][ConnNext]_connVars => []GrantsReadTheSame
<1>1. ConnInv => GrantsReadTheSame
  <2>1. ConnInv => FilesTyped
    BY DEF ConnInv
  <2>. QED BY <2>1, OneScope, ToldGiven DEF GrantsReadTheSame
<1>. QED BY <1>1, InitConn, ConnStays, PTL
===============================================================================
