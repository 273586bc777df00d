------------------------------ MODULE RunProofs ------------------------------
(***************************************************************************)
(* Proofs about what starts a run and about the runs themselves: the       *)
(* occurrences of recurring tasks, for any templates, periods and windows, *)
(* the search for a cycle of dependencies, for any graph, and the boxes    *)
(* and their calls, for any runs, workers, host mounts, connections and    *)
(* bounds; the daemon may die or be stopped between any two steps.         *)
(*                                                                         *)
(* The boxes.  A box has its token, unless a stopping daemon let go of it  *)
(* (Tokens), so a connection made with the token is the run's own or       *)
(* nobody's (Calling), so the refusals noted for a run are                 *)
(* those of its box: what its box was answered is in the tally, and what   *)
(* is in the tally was recorded, each with the lines that stand in between *)
(* counted (Tallied).  Once the run is attested its box is gone, and nothing that  *)
(* it hears is added (Attested).  A daemon that ends forgets the tallies,  *)
(* but those of runs that are not cut: they had no box yet (NotHeard).     *)
(*                                                                         *)
(* The schedule and the search are below the boxes, each with its          *)
(* invariant; where an induction is needed it is a least counterexample.   *)
(***************************************************************************)
EXTENDS Boxes, Recurrence, AcyclicCheck,
        SequenceTheorems, FiniteSetTheorems, WellFoundedInduction, TLAPS

Early == {"new", "provisioning", "minted", "composed"}
Minted == {"minted", "composed", "up"}
Stages == Early \cup {"up", "done", "failed", "attested", "lost", "orphaned", "adopted", "waited"}
Steps == {"idle", "open", "piped", "credential", "budget", "sent", "refused", "noted"}

Connection == [step : Steps, by : Runs \cup {NoRun}, auth : {"none", "token", "junk"},
               who : {Worker[r] : r \in Runs} \cup {"org", Nobody},
               as : Runs \cup {NoRun}, ws : BOOLEAN]

TypeOK ==
  /\ stage \in [Runs -> Stages]
  /\ box \in SUBSET Runs /\ identity \in SUBSET Runs
  /\ cut \in SUBSET Runs /\ spilt \in SUBSET Runs
  /\ spared \in SUBSET Runs /\ stopping \in BOOLEAN
  /\ line \in [Lines -> Connection]
  /\ tally \in [Runs -> Nat] /\ denied \in [Runs -> Nat]
  /\ heard \in [Runs -> Nat] /\ taken \in [Runs -> Nat]

\* Who has a box has a token, or was let go of; there is no box before the spawn, nor
\* after the end.  What a stopping daemon holds on to is what it spares.
Tokens ==
  /\ \A r \in box : r \in identity \/ r \in spared \cap cut
  /\ stopping => \A r \in box : stage[r] = "up" => r \in spared
  /\ \A r \in Runs : stage[r] \in Minted => r \in identity
  /\ \A r \in Runs : stage[r] \in Early \cup {"done", "attested"} => r \notin box
  /\ \A r \in Runs : stage[r] = "waited" => r \notin box

TokenEnds == \A r \in identity : stage[r] \in Minted \/ r \in cut \cup spilt

\* A connection speaks for the box that opened it, or for no run.
Calling == \A c \in Lines :
  /\ line[c].as \in {NoRun, line[c].by}
  /\ line[c].auth = "token" =>
       \/ line[c].who = Worker[line[c].by] /\ line[c].as = line[c].by
       \/ line[c].who = Nobody /\ line[c].by \in spared \cap cut

\* The lines of a run that stand at a step.
At(r, step) == {c \in Lines : line[c].step = step /\ line[c].as = r}

FewLines == \A r \in Runs : IsFiniteSet(At(r, "noted")) /\ IsFiniteSet(At(r, "refused"))

\* The run's tally is this daemon's, and nobody has taken it.
Counted(r) == r \notin cut /\ stage[r] # "attested"

Tallied == \A r \in Runs : Counted(r) =>
  /\ heard[r] + Cardinality(At(r, "noted")) <= tally[r]
  /\ tally[r] + Cardinality(At(r, "refused")) <= denied[r]

Attested == \A r \in Runs : stage[r] = "attested" /\ r \notin cut =>
  heard[r] <= taken[r] /\ taken[r] <= denied[r]

\* Who has never had a box has heard nothing; who is left over is known for it.
NotHeard == \A r \in Runs : stage[r] \in Early \cup {"failed"} => heard[r] = 0 /\ r \notin box
LeftOver == \A r \in Runs : stage[r] \in {"lost", "orphaned", "adopted", "waited"} => r \in cut

\* A box has what its run's configuration gave it, and nothing before that.
Composed == \A r \in Runs :
  \/ mounted[r] = {}
  \/ \E granted \in SUBSET HostMounts, rw \in BOOLEAN :
       mounted[r] = OwnMounts(r) \cup HostMountsOf(r, granted, rw) \cup ChannelMounts(r)

CountsOK == NotHeard /\ FewLines /\ Tallied /\ Attested

IInv == /\ TypeOK
        /\ Tokens /\ TokenEnds /\ Calling
        /\ LeftOver /\ CountsOK
        /\ Composed

-----------------------------------------------------------------------------
(* Domains *)

LEMMA InitTypeOK == BoxesInit => TypeOK
<1>1. Free \in Connection BY DEF Connection, Free, Steps
<1> SUFFICES ASSUME BoxesInit PROVE TypeOK
  OBVIOUS
<1>2. line \in [Lines -> Connection] BY <1>1 DEF BoxesInit
<1>3. stage \in [Runs -> Stages] BY DEF BoxesInit, Stages, Early
<1> QED BY <1>2, <1>3 DEF BoxesInit, TypeOK

LEMMA IdentityIsTyped ==
  ASSUME NEW r \in Runs, NEW auth \in {"none", "token", "junk"}
  PROVE  /\ resolve_identity(r, auth).who \in {Worker[q] : q \in Runs} \cup {"org", Nobody}
         /\ resolve_identity(r, auth).as \in {NoRun, r}
         /\ auth = "token" /\ r \in identity =>
              resolve_identity(r, auth).who = Worker[r] /\ resolve_identity(r, auth).as = r
<1>1. CASE auth = "none" BY <1>1 DEF resolve_identity
<1>2. CASE auth = "token" /\ r \in identity BY <1>2 DEF resolve_identity
<1>3. CASE auth # "none" /\ ~(auth = "token" /\ r \in identity)
  BY <1>3 DEF resolve_identity
<1> QED BY <1>1, <1>2, <1>3

\* The counter of the run a connection is attributed to goes up by one, no other.
LEMMA PlusCounts ==
  ASSUME NEW f \in [Runs -> Nat], NEW c \in Lines, line[c].as \in Runs \cup {NoRun}
  PROVE  /\ Plus(f, c) \in [Runs -> Nat]
         /\ \A r \in Runs : Plus(f, c)[r] = IF line[c].as = r THEN f[r] + 1 ELSE f[r]
  BY BoxesAssumption DEF Plus

LEMMA ConnectOpens ==
  ASSUME TypeOK, NEW c \in Lines, NEW r \in Runs, NEW auth \in {"none", "token", "junk"},
         NEW pipe \in BOOLEAN, Connect(c, r, auth, pipe)
  PROVE  /\ line' \in [Lines -> Connection]
         /\ \A d \in Lines : d # c => line'[d] = line[d]
         /\ line'[c].step \in {"open", "piped"} /\ r \in box
         /\ line'[c].by = r /\ line'[c].auth = auth
         /\ line'[c].who = resolve_identity(r, auth).who
         /\ line'[c].as = resolve_identity(r, auth).as
<1> DEFINE id == resolve_identity(r, auth)
<1> DEFINE step == IF pipe THEN "piped" ELSE "open"
<1> DEFINE new == [Free EXCEPT !.step = step, !.by = r, !.auth = auth, !.who = id.who, !.as = id.as]
<1>1. id.who \in {Worker[q] : q \in Runs} \cup {"org", Nobody} /\ id.as \in Runs \cup {NoRun}
  BY IdentityIsTyped
<1>2. line' = [line EXCEPT ![c] = new] /\ r \in box
  BY DEF Connect
<1>3. step \in Steps /\ step \in {"open", "piped"}
  BY DEF Steps
<1>4. Free \in Connection
  BY DEF Free, Connection, Steps
<1> DEFINE who == id.who
<1> DEFINE as == id.as
<1> HIDE DEF step, id
<1>5. who \in {Worker[q] : q \in Runs} \cup {"org", Nobody} /\ as \in Runs \cup {NoRun}
  BY <1>1
<1> HIDE DEF who, as
<1>6. /\ [Free EXCEPT !.step = step, !.by = r, !.auth = auth, !.who = who, !.as = as] \in Connection
      /\ [Free EXCEPT !.step = step, !.by = r, !.auth = auth, !.who = who, !.as = as].step = step
      /\ [Free EXCEPT !.step = step, !.by = r, !.auth = auth, !.who = who, !.as = as].by = r
      /\ [Free EXCEPT !.step = step, !.by = r, !.auth = auth, !.who = who, !.as = as].auth = auth
      /\ [Free EXCEPT !.step = step, !.by = r, !.auth = auth, !.who = who, !.as = as].who = who
      /\ [Free EXCEPT !.step = step, !.by = r, !.auth = auth, !.who = who, !.as = as].as = as
  BY <1>3, <1>4, <1>5 DEF Connection
<1>7. /\ new \in Connection /\ new.step = step /\ new.by = r /\ new.auth = auth
      /\ new.who = id.who /\ new.as = id.as
  BY <1>6 DEF who, as
<1> HIDE DEF new
<1>8. line' \in [Lines -> Connection] /\ line'[c] = new /\ \A d \in Lines : d # c => line'[d] = line[d]
  BY <1>2, <1>7 DEF TypeOK
<1> QED BY <1>2, <1>3, <1>7, <1>8 DEF id

\* The other steps of a call move the connection from step to step; only its end
\* changes whose it is.
Moves(c, from, to) ==
  /\ line[c].step \in from
  /\ line' \in [Lines -> Connection]
  /\ \A d \in Lines : d # c => line'[d] = line[d]
  /\ line'[c].step \in to
  /\ line'[c].by = line[c].by /\ line'[c].auth = line[c].auth
  /\ line'[c].who = line[c].who /\ line'[c].as = line[c].as

LEMMA ToMoves ==
  ASSUME TypeOK, NEW c \in Lines, NEW step \in Steps, To(c, step)
  PROVE  Moves(c, {line[c].step}, {step})
  BY DEF TypeOK, To, Moves, Connection

Recorded == UNCHANGED <<tally, heard, taken>>

LEMMA JudgedMoves ==
  ASSUME TypeOK, NEW c \in Lines, NEW ws \in BOOLEAN, NEW ruling, Judged(c, ws, ruling)
  PROVE  /\ Recorded
         /\ \/ Moves(c, {"open"}, {"credential"}) /\ UNCHANGED denied
            \/ Moves(c, {"open"}, {"refused"}) /\ denied' = Plus(denied, c)
<1> DEFINE to == IF ruling = "allow" THEN "credential" ELSE "refused"
<1>1. to \in Steps BY DEF Steps
<1>2. line' = [line EXCEPT ![c].ws = ws, ![c].step = to] /\ line[c].step = "open" /\ Recorded
  BY DEF Judged, Counters, Recorded
<1> HIDE DEF to
<1>3. Moves(c, {"open"}, {to})
  BY <1>1, <1>2 DEF TypeOK, Moves, Connection
<1>4. denied' = IF ruling = "allow" THEN denied ELSE Plus(denied, c)
  BY DEF Judged
<1> QED BY <1>2, <1>3, <1>4 DEF to

LEMMA RefuseMoves ==
  ASSUME TypeOK, NEW c \in Lines, Refuse(c)
  PROVE  Moves(c, {line[c].step}, {"refused"}) /\ denied' = Plus(denied, c)
  BY ToMoves DEF Refuse, Steps

Waiting == {"open", "credential", "budget"}
Passed == {"open", "credential", "budget", "sent"}

LEMMA JudgingMoves ==
  ASSUME TypeOK, NEW c \in Lines, JudgedBatch(c) \/ Inject(c) \/ Settle(c)
  PROVE  /\ Recorded
         /\ \/ Moves(c, Waiting, Passed) /\ UNCHANGED denied
            \/ Moves(c, Waiting, {"refused"}) /\ denied' = Plus(denied, c)
<1>1. Recorded BY DEF JudgedBatch, Inject, Settle, Recorded, Counters
<1>2. line[c].step \in Waiting BY DEF JudgedBatch, Inject, Settle, Waiting
<1>3. CASE Refuse(c)
  BY <1>1, <1>2, <1>3, RefuseMoves DEF Moves
<1>4. CASE To(c, "budget") /\ UNCHANGED denied
  BY <1>1, <1>2, <1>4, ToMoves DEF Moves, Steps, Passed
<1>5. CASE To(c, "sent") /\ UNCHANGED denied
  BY <1>1, <1>2, <1>5, ToMoves DEF Moves, Steps, Passed
<1> QED BY <1>3, <1>4, <1>5 DEF JudgedBatch, Inject, Settle

LEMMA AnswerMoves ==
  ASSUME TypeOK, NEW c \in Lines, Answer(c)
  PROVE  /\ Moves(c, {"noted", "sent"}, {"open"}) /\ line[c].by \in box
         /\ heard' = IF line[c].step = "noted" THEN Plus(heard, c) ELSE heard
         /\ UNCHANGED <<tally, denied, taken>>
<1>1. line' = [line EXCEPT ![c].step = "open", ![c].ws = FALSE] /\ line[c].step \in {"noted", "sent"}
  BY DEF Answer
<1>2. Moves(c, {"noted", "sent"}, {"open"})
  <2> DEFINE k == [line[c] EXCEPT !.step = "open", !.ws = FALSE]
  <2>1. line \in [Lines -> Connection] /\ line[c] \in Connection BY DEF TypeOK
  <2>2. line' = [line EXCEPT ![c] = k] BY <1>1, <2>1
  <2>3. k \in Connection BY <2>1 DEF Connection, Steps
  <2>4. /\ k.step = "open" /\ k.by = line[c].by /\ k.auth = line[c].auth
        /\ k.who = line[c].who /\ k.as = line[c].as
    BY <2>1 DEF Connection
  <2> HIDE DEF k
  <2>5. /\ line' \in [Lines -> Connection] /\ line'[c] = k
        /\ \A d \in Lines : d # c => line'[d] = line[d]
    BY <2>1, <2>2, <2>3
  <2> QED BY <1>1, <2>4, <2>5 DEF Moves
<1> QED BY <1>2 DEF Answer

LEMMA NoteMoves ==
  ASSUME TypeOK, NEW c \in Lines, note_refusal(c)
  PROVE  /\ Moves(c, {"refused"}, {"noted"}) /\ tally' = Plus(tally, c)
         /\ UNCHANGED <<denied, heard, taken>>
<1>1. line[c].step = "refused" /\ To(c, "noted") BY DEF note_refusal
<1>2. Moves(c, {line[c].step}, {"noted"}) BY <1>1, ToMoves DEF Steps
<1> QED BY <1>1, <1>2 DEF note_refusal, Noted, Moves

LEMMA HangUpFrees ==
  ASSUME TypeOK, NEW c \in Lines, HangUp(c)
  PROVE  /\ line' \in [Lines -> Connection]
         /\ \A d \in Lines : d # c => line'[d] = line[d]
         /\ line'[c] = Free /\ line[c].step # "refused"
         /\ UNCHANGED Counters
  BY DEF HangUp, TypeOK, Connection, Free, Steps

\* Nothing a call does starts or ends a box.
LEMMA CallsLeaveLives == ASSUME NEW c \in Lines, Call(c) PROVE UNCHANGED <<Lives, stopping>>
<1>1. CASE \E r \in Runs, auth \in {"token", "none", "junk"}, pipe \in BOOLEAN : Connect(c, r, auth, pipe)
  BY <1>1 DEF Connect
<1>2. CASE \E ws \in BOOLEAN, ruling \in {"allow", "deny", "tunnel"} : Judged(c, ws, ruling)
  BY <1>2 DEF Judged
<1>3. CASE JudgedBatch(c) \/ Inject(c) \/ Settle(c) BY <1>3 DEF JudgedBatch, Inject, Settle
<1>4. CASE note_refusal(c) \/ Answer(c) \/ HangUp(c) BY <1>4 DEF note_refusal, Answer, HangUp
<1> QED BY <1>1, <1>2, <1>3, <1>4 DEF Call

\* Nothing in the life of a run touches a connection.
LEMMA LivesLeaveLines ==
  ASSUME NEW r \in Runs, Life(r, SUBSET HostMounts)
  PROVE  /\ UNCHANGED <<line, stopping>>
         /\ UNCHANGED Counters \/ Attest(r)
         /\ UNCHANGED cut /\ spared \subseteq spared'
<1>1. CASE Attest(r) BY <1>1 DEF Attest, Elsewhere
<1>2. CASE ~Attest(r)
  BY <1>2 DEF Life, StartRun, ProvisionFails, Mint, ComposeFails, Spawn, SpawnFails, BoxEnds,
              Returns, Reclaim, AdoptReturns, Compose, Elsewhere
<1> QED BY <1>1, <1>2

-----------------------------------------------------------------------------
(* Domains are kept *)

\* A step is one of a run's life, of a call, or the end of a daemon.
LEMMA CallKeepsTypes == ASSUME TypeOK, NEW c \in Lines, Call(c) PROVE TypeOK'
<1>1. UNCHANGED <<Lives, stopping>> BY CallsLeaveLives
<1>2. line[c].as \in Runs \cup {NoRun}
  BY DEF TypeOK, Connection
<1>3. /\ Plus(denied, c) \in [Runs -> Nat] /\ Plus(heard, c) \in [Runs -> Nat]
      /\ Plus(tally, c) \in [Runs -> Nat]
  BY <1>2, PlusCounts DEF TypeOK
<1> SUFFICES /\ line' \in [Lines -> Connection]
             /\ tally' \in [Runs -> Nat] /\ denied' \in [Runs -> Nat]
             /\ heard' \in [Runs -> Nat] /\ taken' \in [Runs -> Nat]
  BY <1>1 DEF TypeOK, Lives
<1>4. ASSUME NEW r \in Runs, NEW auth \in {"token", "none", "junk"}, NEW pipe \in BOOLEAN,
             Connect(c, r, auth, pipe)
      PROVE  line' \in [Lines -> Connection] /\ UNCHANGED Counters
  BY <1>4, ConnectOpens DEF Connect
<1>5. ASSUME NEW ws \in BOOLEAN, NEW ruling, Judged(c, ws, ruling)
      PROVE  line' \in [Lines -> Connection] /\ denied' \in {denied, Plus(denied, c)} /\ Recorded
  BY <1>5, JudgedMoves DEF Moves
<1>6. ASSUME JudgedBatch(c) \/ Inject(c) \/ Settle(c)
      PROVE  line' \in [Lines -> Connection] /\ denied' \in {denied, Plus(denied, c)} /\ Recorded
  BY <1>6, JudgingMoves DEF Moves
<1>7. ASSUME note_refusal(c)
      PROVE  line' \in [Lines -> Connection] /\ tally' = Plus(tally, c) /\ UNCHANGED <<denied, heard, taken>>
  BY <1>7, NoteMoves DEF Moves
<1>8. ASSUME Answer(c)
      PROVE  line' \in [Lines -> Connection] /\ heard' \in {heard, Plus(heard, c)} /\ UNCHANGED <<denied, tally, taken>>
  BY <1>8, AnswerMoves DEF Moves
<1>9. ASSUME HangUp(c) PROVE line' \in [Lines -> Connection] /\ UNCHANGED Counters
  BY <1>9, HangUpFrees
<1> QED BY <1>3, <1>4, <1>5, <1>6, <1>7, <1>8, <1>9 DEF Call, TypeOK, Counters, Recorded

LEMMA LifeKeepsTypes ==
  ASSUME TypeOK, NEW r \in Runs, Life(r, SUBSET HostMounts) PROVE TypeOK'
<1>1. UNCHANGED <<line, stopping>> /\ (UNCHANGED Counters \/ Attest(r)) BY LivesLeaveLines
<1>2. /\ tally' \in [Runs -> Nat] /\ denied' \in [Runs -> Nat]
      /\ heard' \in [Runs -> Nat] /\ taken' \in [Runs -> Nat]
  BY <1>1 DEF TypeOK, Counters, Attest
<1>3. /\ stage' \in [Runs -> Stages] /\ box' \in SUBSET Runs /\ identity' \in SUBSET Runs
      /\ cut' \in SUBSET Runs /\ spilt' \in SUBSET Runs /\ spared' \in SUBSET Runs
  <2>1. CASE StartRun(r) \/ ProvisionFails(r) \/ Mint(r) \/ ComposeFails(r)
    BY <2>1 DEF TypeOK, Stages, Early, Stage, StartRun, ProvisionFails, Mint, ComposeFails
  <2>2. CASE Spawn(r) \/ SpawnFails(r) \/ BoxEnds(r) \/ Returns(r)
    BY <2>2 DEF TypeOK, Stages, Early, Stage, Spawn, SpawnFails, BoxEnds, Returns
  <2>3. CASE Attest(r) \/ Reclaim(r) \/ AdoptReturns(r)
    BY <2>3 DEF TypeOK, Stages, Early, Stage, Attest, Reclaim, AdoptReturns
  <2>4. CASE \E granted \in SUBSET HostMounts, rw \in BOOLEAN : Compose(r, granted, rw)
    BY <2>4 DEF TypeOK, Stages, Early, Stage, Compose
  <2> QED BY <2>1, <2>2, <2>3, <2>4 DEF Life
<1> QED BY <1>1, <1>2, <1>3 DEF TypeOK

\* What the end of a daemon leaves.
LEMMA ForgottenLeaves ==
  ASSUME TypeOK, Forgotten
  PROVE  /\ stage' \in [Runs -> Stages] /\ ~ stopping'
         /\ \A r \in Runs : /\ stage[r] \in Busy => r \in cut' /\ stage'[r] = "orphaned"
                            /\ stage[r] \notin Busy => stage'[r] = stage[r]
         /\ cut' = cut \cup {r \in Runs : stage[r] \in Busy}
         /\ line' = [c \in Lines |-> Free] /\ tally' = [r \in Runs |-> 0]
         /\ UNCHANGED <<box, mounted, spilt, spared, denied, heard, taken>>
  BY DEF TypeOK, Forgotten, Stages, Early

\* The signal ends boxes and touches nothing else.
LEMMA SignalLeaves ==
  ASSUME DaemonSignalled
  PROVE  /\ stopping' /\ box' = box \ {r \in Runs \ Chats : stage[r] = "up"}
         /\ spared' = spared \cup {r \in Chats : stage[r] = "up"}
         /\ UNCHANGED <<stage, identity, mounted, cut, spilt, line, tally, denied, heard, taken>>
  BY DEF DaemonSignalled, Counters

LEMMA DaemonKeepsTypes ==
  ASSUME TypeOK, DaemonDies \/ DaemonSignalled \/ DaemonStops PROVE TypeOK'
<1>1. CASE DaemonSignalled
  <2>1. box' \in SUBSET Runs /\ spared' \in SUBSET Runs /\ stopping' \in BOOLEAN
    BY <1>1, SignalLeaves, BoxesAssumption DEF TypeOK, DaemonSignalled
  <2> QED BY <1>1, <2>1, SignalLeaves DEF TypeOK
<1>2. CASE DaemonDies \/ DaemonStops
  <2>1. Forgotten /\ identity' \in SUBSET Runs /\ stopping' \in BOOLEAN
    BY <1>2 DEF TypeOK, DaemonDies, DaemonStops, Forgotten
  <2>2. Free \in Connection
    BY DEF Free, Connection, Steps
  <2> QED BY <2>1, <2>2, ForgottenLeaves DEF TypeOK
<1> QED BY <1>1, <1>2

LEMMA NextKeepsTypes == TypeOK /\ [BoxesNext]_boxVars => TypeOK'
<1> SUFFICES ASSUME TypeOK, [BoxesNext]_boxVars PROVE TypeOK'
  OBVIOUS
<1>1. CASE UNCHANGED boxVars BY <1>1 DEF TypeOK, boxVars
<1>2. CASE BoxesNext BY <1>2, CallKeepsTypes, LifeKeepsTypes, DaemonKeepsTypes DEF BoxesNext
<1> QED BY <1>1, <1>2

-----------------------------------------------------------------------------
(* Boxes and their tokens *)

LEMMA DaemonKeepsTokens ==
  ASSUME TypeOK, Tokens, TokenEnds, LeftOver, DaemonDies \/ DaemonSignalled \/ DaemonStops
  PROVE  Tokens' /\ TokenEnds' /\ LeftOver'
<1>1. CASE DaemonSignalled
  <2>1. Tokens'
    BY <1>1, SignalLeaves DEF TypeOK, Tokens
  <2> QED BY <1>1, <2>1, SignalLeaves DEF TokenEnds, LeftOver
<1>2. CASE DaemonDies \/ DaemonStops
  <2>1. /\ \A r \in Runs : /\ stage[r] \in Busy => r \in cut' /\ stage'[r] = "orphaned"
                           /\ stage[r] \notin Busy => stage'[r] = stage[r]
        /\ cut' = cut \cup {r \in Runs : stage[r] \in Busy} /\ UNCHANGED <<box, spilt, spared>> /\ ~ stopping'
    BY <1>2, ForgottenLeaves DEF DaemonDies, DaemonStops
  <2>2. \/ UNCHANGED identity
        \/ stopping /\ identity' = identity \ {r \in Runs : stage[r] = "up"}
    BY <1>2 DEF DaemonDies, DaemonStops
  <2>3. \A r \in box : r \in identity' \/ r \in spared' \cap cut'
    BY <2>1, <2>2 DEF TypeOK, Tokens, Busy
  <2>4. Tokens'
    BY <2>1, <2>3 DEF TypeOK, Tokens, Busy, Minted, Early
  <2>5. TokenEnds'
    BY <2>1, <2>2 DEF TypeOK, TokenEnds, Busy, Minted, Early
  <2>6. LeftOver'
    BY <2>1 DEF TypeOK, LeftOver, Busy
  <2> QED BY <2>4, <2>5, <2>6
<1> QED BY <1>1, <1>2

LEMMA LifeKeepsTokens ==
  ASSUME TypeOK, Tokens, TokenEnds, LeftOver, NEW r \in Runs, Life(r, SUBSET HostMounts)
  PROVE  Tokens' /\ TokenEnds' /\ LeftOver'
<1> USE DEF TypeOK, Tokens, TokenEnds, LeftOver, Minted, Early, Stage
<1>0. UNCHANGED stopping BY LivesLeaveLines
<1>1. CASE StartRun(r) \/ ProvisionFails(r) \/ Mint(r) \/ ComposeFails(r)
  BY <1>0, <1>1 DEF StartRun, ProvisionFails, Mint, ComposeFails
<1>2. CASE Spawn(r) \/ SpawnFails(r)
  BY <1>0, <1>2 DEF Spawn, SpawnFails
<1>3. CASE BoxEnds(r) \/ Returns(r)
  BY <1>0, <1>3 DEF BoxEnds, Returns
<1>4. CASE Attest(r) \/ AdoptReturns(r)
  BY <1>0, <1>4 DEF Attest, AdoptReturns
<1>5. CASE Reclaim(r)
  BY <1>0, <1>5 DEF Reclaim
<1>6. CASE \E granted \in SUBSET HostMounts, rw \in BOOLEAN : Compose(r, granted, rw)
  BY <1>0, <1>6 DEF Compose
<1> QED BY <1>1, <1>2, <1>3, <1>4, <1>5, <1>6 DEF Life

LEMMA NextKeepsTokens ==
  TypeOK /\ Tokens /\ TokenEnds /\ LeftOver /\ [BoxesNext]_boxVars
    => Tokens' /\ TokenEnds' /\ LeftOver'
<1> SUFFICES ASSUME TypeOK, Tokens, TokenEnds, LeftOver, [BoxesNext]_boxVars
             PROVE  Tokens' /\ TokenEnds' /\ LeftOver'
  OBVIOUS
<1>1. CASE UNCHANGED boxVars BY <1>1 DEF Tokens, TokenEnds, LeftOver, boxVars
<1>2. ASSUME NEW c \in Lines, Call(c) PROVE Tokens' /\ TokenEnds' /\ LeftOver'
  <2>1. UNCHANGED <<Lives, stopping>> BY <1>2, CallsLeaveLives
  <2> QED BY <2>1 DEF Lives, Tokens, TokenEnds, LeftOver
<1> QED BY <1>1, <1>2, LifeKeepsTokens, DaemonKeepsTokens DEF BoxesNext

-----------------------------------------------------------------------------
(* Whose connection it is *)

LEMMA NextKeepsCalling ==
  TypeOK /\ Tokens /\ Calling /\ [BoxesNext]_boxVars => Calling'
<1> SUFFICES ASSUME TypeOK, Tokens, Calling, [BoxesNext]_boxVars PROVE Calling'
  OBVIOUS
<1>1. CASE UNCHANGED <<line, cut>> /\ spared \subseteq spared' BY <1>1 DEF Calling
<1>2. CASE line' = [c \in Lines |-> Free] BY <1>2 DEF Calling, Free
<1>3. ASSUME NEW c \in Lines, NEW from, NEW to, Moves(c, from, to), UNCHANGED <<cut, spared>>
      PROVE  Calling'
  BY <1>3 DEF Calling, Moves
<1>4. ASSUME NEW c \in Lines, HangUp(c) PROVE Calling'
  <2>1. UNCHANGED <<cut, spared>> BY <1>4 DEF HangUp, Lives
  <2> QED BY <1>4, <2>1, HangUpFrees DEF Calling, Free
<1>5. ASSUME NEW c \in Lines, NEW r \in Runs, NEW auth \in {"token", "none", "junk"},
             NEW pipe \in BOOLEAN, Connect(c, r, auth, pipe)
      PROVE  Calling'
  <2>1. /\ \A d \in Lines : d # c => line'[d] = line[d]
        /\ line'[c].by = r /\ line'[c].auth = auth
        /\ line'[c].who = resolve_identity(r, auth).who
        /\ line'[c].as = resolve_identity(r, auth).as
    BY <1>5, ConnectOpens
  <2>2. UNCHANGED <<cut, spared>> /\ (r \in identity \/ r \in spared \cap cut)
    BY <1>5 DEF Connect, Tokens, Lives
  <2>3. r \notin identity /\ auth = "token" => resolve_identity(r, auth).who = Nobody
    BY DEF resolve_identity
  <2> QED BY <2>1, <2>2, <2>3, IdentityIsTyped DEF Calling
<1>6. ASSUME NEW c \in Lines, Call(c) PROVE Calling'
  <2>0. UNCHANGED <<cut, spared>> BY <1>6, CallsLeaveLives DEF Lives
  <2>1. CASE \E ws \in BOOLEAN, ruling \in {"allow", "deny", "tunnel"} : Judged(c, ws, ruling)
    BY <2>0, <2>1, <1>3, JudgedMoves
  <2>2. CASE JudgedBatch(c) \/ Inject(c) \/ Settle(c) BY <2>0, <2>2, <1>3, JudgingMoves
  <2>3. CASE note_refusal(c) BY <2>0, <2>3, <1>3, NoteMoves
  <2>4. CASE Answer(c) BY <2>0, <2>4, <1>3, AnswerMoves
  <2> QED BY <1>6, <1>4, <1>5, <2>1, <2>2, <2>3, <2>4 DEF Call
<1>7. ASSUME NEW r \in Runs, Life(r, SUBSET HostMounts) PROVE Calling'
  BY <1>1, <1>7, LivesLeaveLines
<1>8. ASSUME DaemonDies \/ DaemonSignalled \/ DaemonStops PROVE Calling'
  BY <1>1, <1>2, <1>8, SignalLeaves DEF DaemonDies, DaemonStops, Forgotten
<1> QED BY <1>1, <1>6, <1>7, <1>8 DEF BoxesNext, boxVars

-----------------------------------------------------------------------------
(* Refusals under way *)

LEMMA OneLess ==
  ASSUME NEW S, IsFiniteSet(S), NEW c, NEW T, T = S \ {c}
  PROVE  /\ IsFiniteSet(T) /\ Cardinality(S) \in Nat /\ Cardinality(T) \in Nat
         /\ Cardinality(T) <= Cardinality(S)
         /\ c \in S => Cardinality(T) + 1 <= Cardinality(S)
<1>1. /\ IsFiniteSet(T)
      /\ Cardinality(T) = IF c \in S THEN Cardinality(S) - 1 ELSE Cardinality(S)
  BY FS_RemoveElement
<1>2. Cardinality(S) \in Nat /\ Cardinality(T) \in Nat BY <1>1, FS_CardinalityType
<1> QED BY <1>1, <1>2

LEMMA OneMore ==
  ASSUME NEW S, IsFiniteSet(S), NEW c, NEW T, T = S \cup {c}
  PROVE  /\ IsFiniteSet(T) /\ Cardinality(S) \in Nat /\ Cardinality(T) \in Nat
         /\ Cardinality(T) <= Cardinality(S) + 1
<1>1. /\ IsFiniteSet(T)
      /\ Cardinality(T) = IF c \in S THEN Cardinality(S) ELSE Cardinality(S) + 1
  BY FS_AddElement
<1>2. Cardinality(S) \in Nat /\ Cardinality(T) \in Nat BY <1>1, FS_CardinalityType
<1> QED BY <1>1, <1>2

LEMMA AtLeaves ==
  ASSUME NEW c \in Lines, \A d \in Lines : d # c => line'[d] = line[d],
         NEW step, line'[c].step # step
  PROVE  \A r \in Runs : At(r, step)' = At(r, step) \ {c}
  BY DEF At

LEMMA AtEnters ==
  ASSUME NEW c \in Lines, NEW from, NEW step, Moves(c, from, {step})
  PROVE  \A r \in Runs : At(r, step)' = IF line[c].as = r THEN At(r, step) \cup {c}
                                                         ELSE At(r, step) \ {c}
  BY DEF At, Moves

\* What a call may do to the counts of a run: of what is heard, noted or on its way to
\* be noted nothing comes from nowhere, and only the box itself hears more.
Conserves ==
  /\ FewLines'
  /\ \A r \in Runs :
       /\ heard'[r] + Cardinality(At(r, "noted")') + tally[r]
            <= heard[r] + Cardinality(At(r, "noted")) + tally'[r]
       /\ tally'[r] + Cardinality(At(r, "refused")') + denied[r]
            <= tally[r] + Cardinality(At(r, "refused")) + denied'[r]
       /\ denied[r] <= denied'[r]
       /\ heard'[r] # heard[r] => \E c \in Lines : line[c].as = r /\ line[c].by \in box
  /\ UNCHANGED taken

LEMMA PassingConserves ==
  ASSUME TypeOK, FewLines, NEW c \in Lines, \A d \in Lines : d # c => line'[d] = line[d],
         line'[c].step \notin {"noted", "refused"}, line[c].step # "refused",
         UNCHANGED Counters
  PROVE  Conserves
<1>1. \A r \in Runs : /\ At(r, "noted")' = At(r, "noted") \ {c}
                      /\ At(r, "refused")' = At(r, "refused") \ {c}
  BY AtLeaves
<1>2. ASSUME NEW r \in Runs
     PROVE  /\ IsFiniteSet(At(r, "noted")') /\ IsFiniteSet(At(r, "refused")')
            /\ heard'[r] + Cardinality(At(r, "noted")') + tally[r]
                 <= heard[r] + Cardinality(At(r, "noted")) + tally'[r]
            /\ tally'[r] + Cardinality(At(r, "refused")') + denied[r]
                 <= tally[r] + Cardinality(At(r, "refused")) + denied'[r]
            /\ denied[r] <= denied'[r]
            /\ heard'[r] # heard[r] => \E d \in Lines : line[d].as = r /\ line[d].by \in box
  <2> DEFINE noted == At(r, "noted")
             refused == At(r, "refused")
             notedNext == At(r, "noted")'
             refusedNext == At(r, "refused")'
  <2>1. IsFiniteSet(noted) /\ IsFiniteSet(refused)
    BY DEF FewLines
  <2>2. heard[r] \in Nat /\ tally[r] \in Nat /\ denied[r] \in Nat
    BY DEF TypeOK
  <2>3. notedNext = noted \ {c}
    BY <1>1
  <2>4. refusedNext = refused \ {c}
    BY <1>1
  <2> HIDE DEF noted, refused, notedNext, refusedNext
  <2>5. /\ IsFiniteSet(notedNext) /\ Cardinality(noted) \in Nat /\ Cardinality(notedNext) \in Nat
        /\ Cardinality(notedNext) <= Cardinality(noted)
    BY <2>1, <2>3, OneLess
  <2>6. /\ IsFiniteSet(refusedNext) /\ Cardinality(refused) \in Nat /\ Cardinality(refusedNext) \in Nat
        /\ Cardinality(refusedNext) <= Cardinality(refused)
    BY <2>1, <2>4, OneLess
  <2>7. UNCHANGED <<heard, tally, denied>>
    BY DEF Counters
  <2> QED BY <2>2, <2>5, <2>6, <2>7 DEF noted, refused, notedNext, refusedNext
<1> QED BY <1>2 DEF Conserves, FewLines, Counters

LEMMA RefusingConserves ==
  ASSUME TypeOK, FewLines, NEW c \in Lines, NEW from, Moves(c, from, {"refused"}),
         "refused" \notin from,
         denied' = Plus(denied, c), Recorded
  PROVE  Conserves
<1>1. /\ \A r \in Runs : At(r, "noted")' = At(r, "noted") \ {c}
      /\ \A r \in Runs : At(r, "refused")' = IF line[c].as = r THEN At(r, "refused") \cup {c}
                                                                ELSE At(r, "refused") \ {c}
  BY AtLeaves, AtEnters DEF Moves
<1>2. \A r \in Runs : denied'[r] = IF line[c].as = r THEN denied[r] + 1 ELSE denied[r]
  BY PlusCounts DEF TypeOK, Connection
<1>3. ASSUME NEW r \in Runs
     PROVE  /\ IsFiniteSet(At(r, "noted")') /\ IsFiniteSet(At(r, "refused")')
            /\ heard'[r] + Cardinality(At(r, "noted")') + tally[r]
                 <= heard[r] + Cardinality(At(r, "noted")) + tally'[r]
            /\ tally'[r] + Cardinality(At(r, "refused")') + denied[r]
                 <= tally[r] + Cardinality(At(r, "refused")) + denied'[r]
            /\ denied[r] <= denied'[r]
            /\ heard'[r] # heard[r] => \E d \in Lines : line[d].as = r /\ line[d].by \in box
  <2> DEFINE noted == At(r, "noted")
             refused == At(r, "refused")
             notedNext == At(r, "noted")'
             refusedNext == At(r, "refused")'
  <2>1. IsFiniteSet(noted) /\ IsFiniteSet(refused)
    BY DEF FewLines
  <2>2. heard[r] \in Nat /\ tally[r] \in Nat /\ denied[r] \in Nat
    BY DEF TypeOK
  <2>3. notedNext = noted \ {c}
    BY <1>1
  <2>4. refusedNext = IF line[c].as = r THEN refused \cup {c} ELSE refused \ {c}
    BY <1>1
  <2> HIDE DEF noted, refused, notedNext, refusedNext
  <2>5. /\ IsFiniteSet(notedNext) /\ Cardinality(noted) \in Nat /\ Cardinality(notedNext) \in Nat
        /\ Cardinality(notedNext) <= Cardinality(noted)
    BY <2>1, <2>3, OneLess
  <2>6. /\ IsFiniteSet(refusedNext) /\ Cardinality(refused) \in Nat /\ Cardinality(refusedNext) \in Nat
        /\ line[c].as = r => Cardinality(refusedNext) <= Cardinality(refused) + 1
        /\ line[c].as # r => Cardinality(refusedNext) <= Cardinality(refused)
    <3>1. ASSUME line[c].as = r
          PROVE  /\ IsFiniteSet(refusedNext) /\ Cardinality(refused) \in Nat /\ Cardinality(refusedNext) \in Nat
                 /\ Cardinality(refusedNext) <= Cardinality(refused) + 1
      <4>1. refusedNext = refused \cup {c} BY <3>1, <2>4
      <4> QED BY ONLY <2>1, <4>1, OneMore
    <3>2. ASSUME line[c].as # r
          PROVE  /\ IsFiniteSet(refusedNext) /\ Cardinality(refused) \in Nat /\ Cardinality(refusedNext) \in Nat
                 /\ Cardinality(refusedNext) <= Cardinality(refused)
      <4>1. refusedNext = refused \ {c} BY <3>2, <2>4
      <4> QED BY ONLY <2>1, <4>1, OneLess
    <3> QED BY <3>1, <3>2
  <2>7. UNCHANGED <<heard, tally>>
    BY DEF Recorded
  <2>8. denied'[r] = IF line[c].as = r THEN denied[r] + 1 ELSE denied[r]
    BY <1>2
  <2> QED BY <2>2, <2>5, <2>6, <2>7, <2>8 DEF noted, refused, notedNext, refusedNext
<1> QED BY <1>3 DEF Conserves, FewLines, Recorded

LEMMA NotingConserves ==
  ASSUME TypeOK, FewLines, NEW c \in Lines, note_refusal(c)
  PROVE  Conserves
<1>1. Moves(c, {"refused"}, {"noted"}) /\ tally' = Plus(tally, c) /\ UNCHANGED <<denied, heard, taken>>
  BY NoteMoves
<1>2. /\ \A r \in Runs : At(r, "refused")' = At(r, "refused") \ {c}
      /\ \A r \in Runs : At(r, "noted")' = IF line[c].as = r THEN At(r, "noted") \cup {c}
                                                              ELSE At(r, "noted") \ {c}
  BY <1>1, AtLeaves, AtEnters DEF Moves
<1>3. \A r \in Runs : tally'[r] = IF line[c].as = r THEN tally[r] + 1 ELSE tally[r]
  BY <1>1, PlusCounts DEF TypeOK, Connection
<1>4. ASSUME NEW r \in Runs
     PROVE  /\ IsFiniteSet(At(r, "noted")') /\ IsFiniteSet(At(r, "refused")')
            /\ heard'[r] + Cardinality(At(r, "noted")') + tally[r]
                 <= heard[r] + Cardinality(At(r, "noted")) + tally'[r]
            /\ tally'[r] + Cardinality(At(r, "refused")') + denied[r]
                 <= tally[r] + Cardinality(At(r, "refused")) + denied'[r]
            /\ denied[r] <= denied'[r]
            /\ heard'[r] # heard[r] => \E d \in Lines : line[d].as = r /\ line[d].by \in box
  <2> DEFINE noted == At(r, "noted")
             refused == At(r, "refused")
             notedNext == At(r, "noted")'
             refusedNext == At(r, "refused")'
  <2>1. IsFiniteSet(noted) /\ IsFiniteSet(refused)
    BY DEF FewLines
  <2>2. heard[r] \in Nat /\ tally[r] \in Nat /\ denied[r] \in Nat
    BY DEF TypeOK
  <2>3. notedNext = IF line[c].as = r THEN noted \cup {c} ELSE noted \ {c}
    BY <1>2
  <2>4. refusedNext = refused \ {c}
    BY <1>2
  <2>5. line[c].as = r => c \in refused
    BY <1>1 DEF Moves, At
  <2> HIDE DEF noted, refused, notedNext, refusedNext
  <2>6. /\ IsFiniteSet(notedNext) /\ Cardinality(noted) \in Nat /\ Cardinality(notedNext) \in Nat
        /\ line[c].as = r => Cardinality(notedNext) <= Cardinality(noted) + 1
        /\ line[c].as # r => Cardinality(notedNext) <= Cardinality(noted)
    <3>1. ASSUME line[c].as = r
          PROVE  /\ IsFiniteSet(notedNext) /\ Cardinality(noted) \in Nat /\ Cardinality(notedNext) \in Nat
                 /\ Cardinality(notedNext) <= Cardinality(noted) + 1
      <4>1. notedNext = noted \cup {c} BY <3>1, <2>3
      <4> QED BY ONLY <2>1, <4>1, OneMore
    <3>2. ASSUME line[c].as # r
          PROVE  /\ IsFiniteSet(notedNext) /\ Cardinality(noted) \in Nat /\ Cardinality(notedNext) \in Nat
                 /\ Cardinality(notedNext) <= Cardinality(noted)
      <4>1. notedNext = noted \ {c} BY <3>2, <2>3
      <4> QED BY ONLY <2>1, <4>1, OneLess
    <3> QED BY <3>1, <3>2
  <2>7. /\ IsFiniteSet(refusedNext) /\ Cardinality(refused) \in Nat /\ Cardinality(refusedNext) \in Nat
        /\ Cardinality(refusedNext) <= Cardinality(refused)
        /\ line[c].as = r => Cardinality(refusedNext) + 1 <= Cardinality(refused)
    BY <2>1, <2>4, <2>5, OneLess
  <2>8. UNCHANGED <<heard, denied>>
    BY <1>1
  <2>9. tally'[r] = IF line[c].as = r THEN tally[r] + 1 ELSE tally[r]
    BY <1>3
  <2> QED BY <2>2, <2>6, <2>7, <2>8, <2>9 DEF noted, refused, notedNext, refusedNext
<1> QED BY <1>1, <1>4 DEF Conserves, FewLines

LEMMA AnsweringConserves ==
  ASSUME TypeOK, FewLines, NEW c \in Lines, Answer(c)
  PROVE  Conserves
<1>1. /\ Moves(c, {"noted", "sent"}, {"open"}) /\ line[c].by \in box
      /\ heard' = IF line[c].step = "noted" THEN Plus(heard, c) ELSE heard
      /\ UNCHANGED <<tally, denied, taken>>
  BY AnswerMoves
<1>2. /\ \A r \in Runs : At(r, "refused")' = At(r, "refused") \ {c}
      /\ \A r \in Runs : At(r, "noted")' = At(r, "noted") \ {c}
  BY <1>1, AtLeaves DEF Moves
<1>3. \A r \in Runs : heard'[r] = IF line[c].step = "noted" /\ line[c].as = r
                                   THEN heard[r] + 1 ELSE heard[r]
  BY <1>1, PlusCounts DEF TypeOK, Connection
<1>4. ASSUME NEW r \in Runs
     PROVE  /\ IsFiniteSet(At(r, "noted")') /\ IsFiniteSet(At(r, "refused")')
            /\ heard'[r] + Cardinality(At(r, "noted")') + tally[r]
                 <= heard[r] + Cardinality(At(r, "noted")) + tally'[r]
            /\ tally'[r] + Cardinality(At(r, "refused")') + denied[r]
                 <= tally[r] + Cardinality(At(r, "refused")) + denied'[r]
            /\ denied[r] <= denied'[r]
            /\ heard'[r] # heard[r] => \E d \in Lines : line[d].as = r /\ line[d].by \in box
  <2> DEFINE noted == At(r, "noted")
             refused == At(r, "refused")
             notedNext == At(r, "noted")'
             refusedNext == At(r, "refused")'
  <2>1. IsFiniteSet(noted) /\ IsFiniteSet(refused)
    BY DEF FewLines
  <2>2. heard[r] \in Nat /\ tally[r] \in Nat /\ denied[r] \in Nat
    BY DEF TypeOK
  <2>3. notedNext = noted \ {c}
    BY <1>2
  <2>4. line[c].step = "noted" /\ line[c].as = r => c \in noted
    BY DEF At
  <2>5. refusedNext = refused \ {c}
    BY <1>2
  <2> HIDE DEF noted, refused, notedNext, refusedNext
  <2>6. /\ IsFiniteSet(notedNext) /\ Cardinality(noted) \in Nat /\ Cardinality(notedNext) \in Nat
        /\ Cardinality(notedNext) <= Cardinality(noted)
        /\ line[c].step = "noted" /\ line[c].as = r => Cardinality(notedNext) + 1 <= Cardinality(noted)
    BY <2>1, <2>3, <2>4, OneLess
  <2>7. /\ IsFiniteSet(refusedNext) /\ Cardinality(refused) \in Nat /\ Cardinality(refusedNext) \in Nat
        /\ Cardinality(refusedNext) <= Cardinality(refused)
    BY <2>1, <2>5, OneLess
  <2>8. UNCHANGED <<tally, denied>>
    BY <1>1
  <2>9. heard'[r] = IF line[c].step = "noted" /\ line[c].as = r THEN heard[r] + 1 ELSE heard[r]
    BY <1>3
  <2>10. heard'[r] # heard[r] => \E d \in Lines : line[d].as = r /\ line[d].by \in box
    BY <1>1, <2>9
  <2> QED BY <2>2, <2>6, <2>7, <2>8, <2>9, <2>10 DEF noted, refused, notedNext, refusedNext
<1> QED BY <1>1, <1>4 DEF Conserves, FewLines

LEMMA CallConserves == ASSUME TypeOK, FewLines, NEW c \in Lines, Call(c) PROVE Conserves
<1>1. ASSUME NEW from, NEW to, Moves(c, from, to), from \cap {"refused"} = {},
             to \cap {"noted", "refused"} = {}, UNCHANGED Counters
      PROVE  Conserves
  <2>1. /\ line'[c].step \notin {"noted", "refused"} /\ line[c].step # "refused"
        /\ \A d \in Lines : d # c => line'[d] = line[d]
    BY <1>1 DEF Moves
  <2> QED BY <1>1, <2>1, PassingConserves
<1>2. ASSUME NEW r \in Runs, NEW auth \in {"token", "none", "junk"}, NEW pipe \in BOOLEAN,
             Connect(c, r, auth, pipe)
      PROVE  Conserves
  <2>1. /\ line'[c].step \notin {"noted", "refused"}
        /\ \A d \in Lines : d # c => line'[d] = line[d]
    BY <1>2, ConnectOpens
  <2>2. line[c].step # "refused" /\ UNCHANGED Counters BY <1>2 DEF Connect
  <2> QED BY <2>1, <2>2, PassingConserves
<1>3. ASSUME HangUp(c) PROVE Conserves
  BY <1>3, HangUpFrees, PassingConserves DEF Free
<1>4. ASSUME NEW ws \in BOOLEAN, NEW ruling, Judged(c, ws, ruling) PROVE Conserves
  <2>1. CASE Recorded /\ Moves(c, {"open"}, {"credential"}) /\ UNCHANGED denied
    BY <2>1, <1>1 DEF Recorded, Counters
  <2>2. CASE Recorded /\ Moves(c, {"open"}, {"refused"}) /\ denied' = Plus(denied, c)
    BY <2>2, RefusingConserves
  <2> QED BY <1>4, <2>1, <2>2, JudgedMoves
<1>5. ASSUME JudgedBatch(c) \/ Inject(c) \/ Settle(c) PROVE Conserves
  <2>1. CASE Recorded /\ Moves(c, Waiting, Passed) /\ UNCHANGED denied
    <3>1. Waiting \cap {"refused"} = {} /\ Passed \cap {"noted", "refused"} = {}
      BY DEF Waiting, Passed
    <3> QED BY <2>1, <3>1, <1>1 DEF Recorded, Counters
  <2>2. CASE Recorded /\ Moves(c, Waiting, {"refused"}) /\ denied' = Plus(denied, c)
    BY <2>2, RefusingConserves DEF Waiting
  <2> QED BY <1>5, <2>1, <2>2, JudgingMoves
<1> QED BY <1>2, <1>3, <1>4, <1>5, NotingConserves, AnsweringConserves DEF Call

-----------------------------------------------------------------------------
(* The tally and the records *)

\* A box that has been attested, or was never there, makes no call: what it heard stays.
LEMMA CallKeepsCounts ==
  ASSUME TypeOK, Tokens, Calling, CountsOK, NEW c \in Lines, Call(c)
  PROVE  CountsOK'
<1>1. UNCHANGED Lives BY CallsLeaveLives
<1>2. Conserves BY CallConserves DEF CountsOK
<1>3. ASSUME NEW r \in Runs, r \notin box PROVE heard'[r] = heard[r]
  BY <1>2, <1>3, BoxesAssumption DEF Conserves, Calling
<1>4. NotHeard'
  BY <1>1, <1>3 DEF CountsOK, NotHeard, Lives
<1>5. Attested'
  <2> SUFFICES ASSUME NEW r \in Runs, stage[r] = "attested", r \notin cut
               PROVE  heard'[r] <= taken'[r] /\ taken'[r] <= denied'[r]
    BY <1>1 DEF Attested, Lives
  <2>1. r \notin box BY DEF Tokens
  <2>2. heard[r] <= taken[r] /\ taken[r] <= denied[r]
    BY DEF CountsOK, Attested
  <2>3. heard'[r] = heard[r] /\ taken'[r] = taken[r] /\ denied[r] <= denied'[r]
    BY <1>2, <1>3, <2>1 DEF Conserves
  <2>4. denied'[r] \in Nat /\ denied[r] \in Nat /\ taken[r] \in Nat
    BY CallKeepsTypes DEF TypeOK
  <2> QED BY <2>2, <2>3, <2>4
<1>6. Tallied'
  <2> SUFFICES ASSUME NEW r \in Runs, Counted(r)
               PROVE  /\ heard'[r] + Cardinality(At(r, "noted")') <= tally'[r]
                      /\ tally'[r] + Cardinality(At(r, "refused")') <= denied'[r]
    BY <1>1 DEF Tallied, Counted, Lives
  <2>1. /\ heard[r] + Cardinality(At(r, "noted")) <= tally[r]
        /\ tally[r] + Cardinality(At(r, "refused")) <= denied[r]
    BY DEF CountsOK, Tallied
  <2>2. /\ heard'[r] + Cardinality(At(r, "noted")') + tally[r]
             <= heard[r] + Cardinality(At(r, "noted")) + tally'[r]
        /\ tally'[r] + Cardinality(At(r, "refused")') + denied[r]
             <= tally[r] + Cardinality(At(r, "refused")) + denied'[r]
    BY <1>2 DEF Conserves
  <2>3. /\ IsFiniteSet(At(r, "noted")) /\ IsFiniteSet(At(r, "refused"))
        /\ IsFiniteSet(At(r, "noted")') /\ IsFiniteSet(At(r, "refused")')
    BY <1>2 DEF CountsOK, FewLines, Conserves
  <2>4. /\ Cardinality(At(r, "noted")) \in Nat /\ Cardinality(At(r, "refused")) \in Nat
        /\ Cardinality(At(r, "noted")') \in Nat /\ Cardinality(At(r, "refused")') \in Nat
    BY <2>3, FS_CardinalityType
  <2>5. /\ heard[r] \in Nat /\ tally[r] \in Nat /\ denied[r] \in Nat
        /\ heard'[r] \in Nat /\ tally'[r] \in Nat /\ denied'[r] \in Nat
    BY CallKeepsTypes DEF TypeOK
  <2> QED BY <2>1, <2>2, <2>4, <2>5
<1> QED BY <1>2, <1>4, <1>5, <1>6 DEF CountsOK, Conserves

LEMMA LifeKeepsCounts ==
  ASSUME TypeOK, Tokens, LeftOver, CountsOK, NEW r \in Runs, Life(r, SUBSET HostMounts)
  PROVE  CountsOK'
<1>1. UNCHANGED line /\ (UNCHANGED Counters \/ Attest(r)) BY LivesLeaveLines
<1>2. \A q \in Runs : At(q, "noted")' = At(q, "noted") /\ At(q, "refused")' = At(q, "refused")
  BY <1>1 DEF At
<1>3. /\ \A q \in Runs : /\ stage'[q] \in Early \cup {"failed"} =>
                              stage[q] \in Early \cup {"failed"} /\ (q \in box' => q \in box)
                         /\ stage'[q] = "attested" => stage[q] = "attested" \/ (q = r /\ Attest(r))
                         /\ stage[q] = "attested" => stage'[q] = "attested"
      /\ UNCHANGED cut
  <2> USE DEF TypeOK, Early, Stage
  <2>1. CASE StartRun(r) \/ ProvisionFails(r) \/ Mint(r) \/ ComposeFails(r)
    BY <2>1 DEF StartRun, ProvisionFails, Mint, ComposeFails
  <2>2. CASE Spawn(r) \/ SpawnFails(r)
    BY <2>2 DEF Spawn, SpawnFails
  <2>3. CASE BoxEnds(r) \/ Returns(r)
    BY <2>3 DEF BoxEnds, Returns
  <2>4. CASE Attest(r) \/ AdoptReturns(r)
    BY <2>4 DEF Attest, AdoptReturns
  <2>5. CASE Reclaim(r)
    BY <2>5 DEF Reclaim
  <2>6. CASE \E granted \in SUBSET HostMounts, rw \in BOOLEAN : Compose(r, granted, rw)
    BY <2>6 DEF Compose
  <2> QED BY <2>1, <2>2, <2>3, <2>4, <2>5, <2>6 DEF Life
<1>4. UNCHANGED heard BY <1>1 DEF Counters, Attest
<1>5. NotHeard'
  BY <1>3, <1>4 DEF CountsOK, NotHeard
<1>6. FewLines'
  BY <1>2 DEF CountsOK, FewLines
<1>7. CASE UNCHANGED Counters /\ ~Attest(r)
  <2>1. Tallied'
    BY <1>2, <1>3, <1>7 DEF CountsOK, Tallied, Counted, Counters
  <2>2. Attested'
    BY <1>3, <1>7 DEF CountsOK, Attested, Counters
  <2> QED BY <1>5, <1>6, <2>1, <2>2 DEF CountsOK
<1>8. CASE Attest(r)
  <2>1. /\ stage[r] \in {"done", "waited"} /\ stage'[r] = "attested"
        /\ taken'[r] = tally[r]
        /\ \A q \in Runs : q # r => stage'[q] = stage[q] /\ taken'[q] = taken[q] /\ tally'[q] = tally[q]
        /\ UNCHANGED <<denied, heard>>
    BY <1>8 DEF Attest, Stage, TypeOK
  <2>2. Tallied'
    BY <1>2, <1>3, <2>1 DEF CountsOK, Tallied, Counted
  <2>3. r \notin cut => heard[r] <= tally[r] /\ tally[r] <= denied[r]
    <3>1. IsFiniteSet(At(r, "noted")) /\ IsFiniteSet(At(r, "refused"))
      BY DEF CountsOK, FewLines
    <3>2. Cardinality(At(r, "noted")) \in Nat /\ Cardinality(At(r, "refused")) \in Nat
      BY <3>1, FS_CardinalityType
    <3>3. heard[r] \in Nat /\ tally[r] \in Nat /\ denied[r] \in Nat
      BY DEF TypeOK
    <3> QED BY <2>1, <3>2, <3>3 DEF CountsOK, Tallied, Counted
  <2>4. Attested'
    BY <1>3, <2>1, <2>3 DEF CountsOK, Attested
  <2> QED BY <1>5, <1>6, <2>2, <2>4 DEF CountsOK
<1> QED BY <1>1, <1>7, <1>8

LEMMA DaemonKeepsCounts ==
  ASSUME TypeOK, LeftOver, CountsOK, DaemonDies \/ DaemonStops
  PROVE  CountsOK'
<1>1. Forgotten
  BY DEF DaemonDies, DaemonStops
<1>2. /\ \A r \in Runs : /\ stage[r] \in Busy => r \in cut' /\ stage'[r] = "orphaned"
                         /\ stage[r] \notin Busy => stage'[r] = stage[r]
      /\ cut' = cut \cup {r \in Runs : stage[r] \in Busy}
      /\ line' = [c \in Lines |-> Free] /\ tally' = [r \in Runs |-> 0]
      /\ UNCHANGED <<box, mounted, spilt, denied, heard, taken>>
  BY <1>1, ForgottenLeaves
<1>3. \A r \in Runs : At(r, "noted")' = {} /\ At(r, "refused")' = {}
  BY <1>2 DEF At, Free
<1>4. FewLines'
  BY <1>3, FS_EmptySet DEF FewLines
<1>5. NotHeard'
  BY <1>1, <1>2 DEF CountsOK, NotHeard, Busy, Early
<1>6. Attested'
  BY <1>2 DEF CountsOK, Attested, Busy
<1>7. Tallied'
  <2> SUFFICES ASSUME NEW r \in Runs, Counted(r)'
               PROVE  /\ heard'[r] + Cardinality(At(r, "noted")') <= tally'[r]
                      /\ tally'[r] + Cardinality(At(r, "refused")') <= denied'[r]
    BY DEF Tallied
  <2>1. stage[r] \in Early \cup {"failed"}
    BY <1>2 DEF Counted, TypeOK, Stages, Early, Busy, LeftOver
  <2>2. heard'[r] = 0 /\ tally'[r] = 0 /\ denied'[r] \in Nat
    BY <1>2, <2>1 DEF CountsOK, NotHeard, TypeOK
  <2>3. Cardinality(At(r, "noted")') = 0 /\ Cardinality(At(r, "refused")') = 0
    BY <1>3, FS_EmptySet
  <2> QED BY <2>2, <2>3
<1> QED BY <1>4, <1>5, <1>6, <1>7 DEF CountsOK

LEMMA NextKeepsCounts ==
  TypeOK /\ Tokens /\ Calling /\ LeftOver /\ CountsOK /\ [BoxesNext]_boxVars => CountsOK'
<1> SUFFICES ASSUME TypeOK, Tokens, Calling, LeftOver, CountsOK, [BoxesNext]_boxVars
             PROVE  CountsOK'
  OBVIOUS
<1>1. CASE UNCHANGED boxVars
  BY <1>1 DEF CountsOK, NotHeard, FewLines, Tallied, Attested, Counted, At, boxVars
<1>2. CASE DaemonSignalled
  <2>1. UNCHANGED <<stage, cut, line, tally, denied, heard, taken>> /\ \A r \in box' : r \in box
    BY <1>2, SignalLeaves
  <2>2. \A r \in Runs : At(r, "noted")' = At(r, "noted") /\ At(r, "refused")' = At(r, "refused")
    BY <2>1 DEF At
  <2>3. NotHeard' BY <2>1 DEF CountsOK, NotHeard
  <2>4. FewLines' BY <2>2 DEF CountsOK, FewLines
  <2>5. Tallied' BY <2>1, <2>2 DEF CountsOK, Tallied, Counted
  <2>6. Attested' BY <2>1 DEF CountsOK, Attested
  <2> QED BY <2>3, <2>4, <2>5, <2>6 DEF CountsOK
<1> QED BY <1>1, <1>2, CallKeepsCounts, LifeKeepsCounts, DaemonKeepsCounts DEF BoxesNext

-----------------------------------------------------------------------------
(* The mounts *)

LEMMA NextKeepsComposed == TypeOK /\ Composed /\ [BoxesNext]_boxVars => Composed'
<1> SUFFICES ASSUME TypeOK, Composed, [BoxesNext]_boxVars PROVE Composed'
  OBVIOUS
<1>1. CASE UNCHANGED mounted BY <1>1 DEF Composed
<1>2. ASSUME NEW c \in Lines, Call(c) PROVE UNCHANGED mounted
  BY <1>2, CallsLeaveLives DEF Lives
<1>3. ASSUME DaemonDies \/ DaemonSignalled \/ DaemonStops PROVE UNCHANGED mounted
  BY <1>3, SignalLeaves DEF DaemonDies, DaemonStops, Forgotten
<1>4. ASSUME NEW r \in Runs, Life(r, SUBSET HostMounts) PROVE Composed'
  <2>1. CASE \E granted \in SUBSET HostMounts, rw \in BOOLEAN : Compose(r, granted, rw)
    <3>1. PICK granted \in SUBSET HostMounts, rw \in BOOLEAN :
            mounted' = [mounted EXCEPT ![r] = OwnMounts(r) \cup HostMountsOf(r, granted, rw) \cup ChannelMounts(r)]
      BY <2>1 DEF Compose
    <3> QED BY <3>1 DEF Composed
  <2>2. CASE ~ \E granted \in SUBSET HostMounts, rw \in BOOLEAN : Compose(r, granted, rw)
    BY <1>1, <1>4, <2>2 DEF Life, StartRun, ProvisionFails, Mint, ComposeFails, Spawn, SpawnFails,
                            BoxEnds, Returns, Attest, Reclaim, AdoptReturns
  <2> QED BY <2>1, <2>2
<1> QED BY <1>1, <1>2, <1>3, <1>4 DEF BoxesNext, boxVars

\* Where a mount leads: by its first component, whose it is.
OfRun(r, path) == path[1] \in {"home", "clone"} /\ path[2] = r
OfWorker(r, path) == path[1] \in {"store", "channel store"} /\ path[2] = Worker[r]
Footprint(r, path) == path[1] \in {"config", "runs", "journal", "tasks"} /\ path[2] = Worker[r]
Common(path) == path[1] \in {"bare", "channel"}

LEMMA OwnMountsLead ==
  ASSUME NEW r \in Runs, NEW x \in OwnMounts(r)
  PROVE  OfRun(r, x.path) \/ OfWorker(r, x.path) \/ (Footprint(r, x.path) /\ ~x.rw)
<1>1. CASE x = Rw(<<"home", r>>) BY <1>1 DEF Rw, OfRun
<1>2. CASE x = Rw(<<"store", Worker[r]>>) BY <1>2 DEF Rw, OfWorker
<1>3. CASE x \in {Ro(<<what, Worker[r]>>) : what \in {"config", "runs", "journal", "tasks"}}
  <2>1. PICK what \in {"config", "runs", "journal", "tasks"} : x = Ro(<<what, Worker[r]>>)
    BY <1>3
  <2> QED BY <2>1 DEF Ro, Footprint
<1> QED BY <1>1, <1>2, <1>3 DEF OwnMounts

LEMMA HostMountsLead ==
  ASSUME NEW r \in Runs, NEW granted \in SUBSET HostMounts, NEW rw \in BOOLEAN,
         NEW x \in HostMountsOf(r, granted, rw)
  PROVE  x.path[1] = "host" \/ OfRun(r, x.path) \/ (Common(x.path) /\ ~x.rw)
<1> DEFINE binds(m) ==
      CASE MountKind[m] = "dir"   -> {Ro(<<"host", m>>)}
        [] MountKind[m] = "rwdir" -> {Rw(<<"host", m>>)}
        [] MountKind[m] = "repo"  -> {Ro(<<"host", m>>)}
        [] MountKind[m] = "gated" -> {[path |-> <<"clone", r>>, rw |-> rw], Ro(<<"bare", m>>)}
<1>1. PICK m \in granted : x \in binds(m)
  BY DEF HostMountsOf
<1>2. MountKind[m] \in {"dir", "rwdir", "repo", "gated"}
  BY BoxesAssumption
<1>3. CASE MountKind[m] \in {"dir", "rwdir", "repo"}
  BY <1>1, <1>3 DEF Ro, Rw
<1>4. CASE MountKind[m] = "gated"
  <2>1. x = [path |-> <<"clone", r>>, rw |-> rw] \/ x = Ro(<<"bare", m>>)
    BY <1>1, <1>4
  <2>2. CASE x = [path |-> <<"clone", r>>, rw |-> rw] BY <2>2 DEF OfRun
  <2>3. CASE x = Ro(<<"bare", m>>) BY <2>3 DEF Ro, Common
  <2> QED BY <2>1, <2>2, <2>3
<1> QED BY <1>2, <1>3, <1>4

LEMMA ChannelMountsLead ==
  ASSUME NEW r \in Runs, NEW x \in ChannelMounts(r)
  PROVE  OfWorker(r, x.path) \/ (Common(x.path) /\ ~x.rw)
<1>1. CASE x = Ro(<<"channel", Channel[r]>>) BY <1>1 DEF Ro, Common
<1>2. CASE x = Rw(<<"channel store", Worker[r], Channel[r]>>) BY <1>2 DEF Rw, OfWorker
<1> QED BY <1>1, <1>2 DEF ChannelMounts

\* What a box can write is its own, its worker's, or the host's; beside that it sees
\* what tells of its worker, or is common.
LEMMA MountsLead ==
  ASSUME Composed, NEW r \in Runs, NEW x \in mounted[r]
  PROVE  \/ OfRun(r, x.path) \/ OfWorker(r, x.path) \/ x.path[1] = "host"
         \/ ~x.rw /\ (Footprint(r, x.path) \/ Common(x.path))
<1>1. PICK granted \in SUBSET HostMounts, rw \in BOOLEAN :
        x \in OwnMounts(r) \cup HostMountsOf(r, granted, rw) \cup ChannelMounts(r)
  BY DEF Composed
<1>2. CASE x \in OwnMounts(r) BY <1>2, OwnMountsLead
<1>3. CASE x \in HostMountsOf(r, granted, rw) BY <1>3, HostMountsLead
<1>4. CASE x \in ChannelMounts(r) BY <1>4, ChannelMountsLead
<1> QED BY <1>1, <1>2, <1>3, <1>4

LEMMA ComposedSuffices == TypeOK /\ Composed => WritesStayHome
<1> SUFFICES ASSUME TypeOK, Composed,
                    NEW a \in box, NEW b \in box, NEW x \in mounted[a], NEW y \in mounted[b],
                    x.rw, Holds(y.path, x.path), Worker[a] # Worker[b]
             PROVE  x.path[1] = "host"
  BY DEF WritesStayHome
<1>1. a \in Runs /\ b \in Runs BY DEF TypeOK
<1>2. OfRun(a, x.path) \/ OfWorker(a, x.path) \/ x.path[1] = "host"
  BY <1>1, MountsLead
<1>3. \/ OfRun(b, y.path) \/ OfWorker(b, y.path) \/ y.path[1] = "host"
      \/ Footprint(b, y.path) \/ Common(y.path)
  BY <1>1, MountsLead
<1>4. CASE y.path = x.path
  BY <1>2, <1>3, <1>4 DEF OfRun, OfWorker, Footprint, Common
<1>5. CASE /\ y.path[1] = "runs" /\ x.path[1] \in {"home", "clone"}
           /\ y.path[2] = Worker[x.path[2]]
  BY <1>2, <1>3, <1>5 DEF OfRun, OfWorker, Footprint, Common
<1> QED BY <1>4, <1>5 DEF Holds

-----------------------------------------------------------------------------
(* The invariant and its theorems *)

LEMMA InitIInv == BoxesInit => IInv
<1> SUFFICES ASSUME BoxesInit PROVE IInv
  OBVIOUS
<1>1. TypeOK BY InitTypeOK
<1>2. Tokens /\ TokenEnds /\ Calling /\ LeftOver
  BY DEF BoxesInit, Tokens, TokenEnds, Calling, LeftOver, Free, Minted, Early
<1>3. \A r \in Runs : At(r, "noted") = {} /\ At(r, "refused") = {}
  BY DEF BoxesInit, At, Free
<1>4. NotHeard /\ Attested BY DEF BoxesInit, NotHeard, Attested
<1>5. FewLines BY <1>3, FS_EmptySet DEF FewLines
<1>6. Tallied
  <2> SUFFICES ASSUME NEW r \in Runs
               PROVE  /\ heard[r] + Cardinality(At(r, "noted")) <= tally[r]
                      /\ tally[r] + Cardinality(At(r, "refused")) <= denied[r]
    BY DEF Tallied
  <2>1. heard[r] = 0 /\ tally[r] = 0 /\ denied[r] = 0 BY DEF BoxesInit
  <2>2. Cardinality(At(r, "noted")) = 0 /\ Cardinality(At(r, "refused")) = 0
    BY <1>3, FS_EmptySet
  <2> QED BY <2>1, <2>2
<1>7. Composed BY DEF BoxesInit, Composed
<1> QED BY <1>1, <1>2, <1>4, <1>5, <1>6, <1>7 DEF IInv, CountsOK

\* The invariant of the boxes, whatever daemons and calls do.
THEOREM Invariant == BoxesSpec => []IInv
<1>1. IInv /\ [BoxesNext]_boxVars => IInv'
  BY NextKeepsTypes, NextKeepsTokens, NextKeepsCalling, NextKeepsCounts, NextKeepsComposed DEF IInv
<1> QED BY InitIInv, <1>1, PTL DEF BoxesSpec

\* Through any ends of daemons, a connection made with a run's token is that run's and
\* its worker's, or nobody's where a stopping daemon let go of the box: but for that the
\* token outlives the box, and it goes with the run (boxed.rs:700).
THEOREM TokensOutliveBoxes == BoxesSpec => []IdentityFollowsTheBox
<1>1. IInv => IdentityFollowsTheBox
  BY DEF IInv, Calling, TokenEnds, Minted, IdentityFollowsTheBox
<1> QED BY Invariant, <1>1, PTL

\* A run that no daemon ended under is attested with no fewer refusals than its box was
\* answered, and no more than were recorded (dispatch.rs:250).
THEOREM AttestationsHear == BoxesSpec => []RefusalsAreEvidence
<1>1. IInv => RefusalsAreEvidence
  <2> SUFFICES ASSUME IInv, NEW r \in Runs, stage[r] = "attested", r \notin cut
               PROVE  taken[r] \in heard[r]..denied[r]
    BY DEF RefusalsAreEvidence
  <2>1. heard[r] \in Nat /\ taken[r] \in Nat /\ denied[r] \in Nat
    BY DEF IInv, TypeOK
  <2> QED BY <2>1 DEF IInv, CountsOK, Attested
<1> QED BY Invariant, <1>1, PTL

\* What a box can write no box of another worker sees, but for a host directory that
\* both are granted (boxed.rs:920).
THEOREM StoresAreApart == BoxesSpec => []WritesStayHome
<1>1. IInv => WritesStayHome BY ComposedSuffices DEF IInv
<1> QED BY Invariant, <1>1, PTL

-----------------------------------------------------------------------------
(* The schedule *)

RecurrenceTypeOK ==
  /\ clock \in Minute
  /\ recurring \subseteq Templates /\ spawning \subseteq Templates
  /\ cursors \in [Templates -> Nat] /\ open \in [Templates -> Nat]
  /\ added \in [Templates -> Nat] /\ fired \in [Templates -> Seq(Nat)]
  /\ skipped \in [Templates -> SUBSET Nat] /\ ran \in [Templates -> SUBSET Nat]

\* The schedule of t comes round after `before` and by `now`.
IsDue(t, before, now) ==
  IF t \in Every THEN now - before >= Period[t] ELSE \E m \in (before + 1)..now : Slot(t, m)

\* The last child of t, or what the first one is counted from.
LastFire(t) == IF fired[t] = <<>> THEN added[t] ELSE fired[t][Len(fired[t])]

\* A cursor is at the last child or later, and never in the future.
CursorsOK ==
  \A t \in Templates :
    /\ added[t] <= clock
    /\ t \in recurring => added[t] # 0
    /\ cursors[t] <= clock
    /\ cursors[t] # 0 => added[t] # 0 /\ LastFire(t) <= cursors[t]
    /\ cursors[t] = 0 => fired[t] = <<>> /\ t \notin spawning /\ ran[t] = {}

\* A child that is still to be saved is due, and the one it would be next to is closed.
SpawningIsDue ==
  \A t \in spawning :
    /\ IsDue(t, LastFire(t), cursors[t])
    /\ t \in Skipping => open[t] = 0

\* The minutes answered: by a child, by the policy, or by one still to be saved.
Answers(t) == ToSet(fired[t]) \cup skipped[t] \cup (IF t \in spawning THEN {cursors[t]} ELSE {})

\* A cursor is at an answer, or where the first tick adopted the template.
CursorsAnswer ==
  \A t \in Templates : \A a \in ran[t] :
    /\ a <= clock
    /\ a < cursors[t] => cursors[t] \in Answers(t)

\* SlotsAreAnswered, of a tick between its two writes too.
RunsAnswer ==
  \A t \in Templates \ Every : \A a, d \in ran[t] : \A m \in (a + 1)..d :
    Slot(t, m) /\ d < m + Horizon => \E f \in Answers(t) : m <= f /\ f <= d

RecurrenceInv ==
  /\ RecurrenceTypeOK /\ CursorsOK /\ SpawningIsDue /\ FiresAreDue
  /\ CursorsAnswer /\ RunsAnswer /\ OneOpenChild

\* Nothing was put, fired or answered yet.
LEMMA RecurrenceStarts == RecurrenceInit => RecurrenceInv
<1>. SUFFICES ASSUME RecurrenceInit PROVE RecurrenceInv
  OBVIOUS
<1>. USE RecurrenceAssumption DEF RecurrenceInit
<1>1. RecurrenceTypeOK
  BY DEF RecurrenceTypeOK, Minute
<1>2. CursorsOK /\ SpawningIsDue /\ CursorsAnswer /\ RunsAnswer /\ OneOpenChild
  BY DEF CursorsOK, SpawningIsDue, CursorsAnswer, RunsAnswer, OneOpenChild
<1>3. FiresAreDue
  BY DEF FiresAreDue
<1>. QED BY <1>1, <1>2, <1>3 DEF RecurrenceInv

\* Steps that only move the clock, the membership or close a child.
LEMMA IdleStep ==
  ASSUME RecurrenceInv, RecurrenceTypeOK',
         clock' >= clock,
         UNCHANGED <<cursors, spawning, fired, skipped, ran>>,
         \A t \in Templates :
           /\ open'[t] <= open[t]
           /\ added'[t] = added[t] \/ (added[t] = 0 /\ added'[t] = clock)
           /\ t \in recurring' => added'[t] # 0
  PROVE  RecurrenceInv'
<1>. USE DEF RecurrenceInv
<1>1. \A t \in Templates : /\ added[t] \in Nat /\ added'[t] \in Nat /\ cursors[t] \in Nat
                           /\ open[t] \in Nat /\ open'[t] \in Nat
                           /\ fired[t] \in Seq(Nat) /\ ran[t] \subseteq Nat
                           /\ clock \in Nat /\ clock' \in Nat
  BY DEF RecurrenceTypeOK, Minute
<1>2. \A t \in Templates : cursors[t] # 0 => added'[t] = added[t] /\ LastFire(t)' = LastFire(t)
  BY DEF CursorsOK, LastFire
<1>3. \A t \in Templates : fired[t] # <<>> => cursors[t] # 0
  BY DEF CursorsOK
<1>4. CursorsOK'
  BY <1>1, <1>2 DEF CursorsOK
<1>5. SpawningIsDue'
  <2>1. \A t \in spawning : t \in Templates /\ cursors[t] # 0
    BY DEF CursorsOK, RecurrenceTypeOK
  <2>. QED BY <1>1, <1>2, <2>1 DEF SpawningIsDue, IsDue, Slot
<1>6. FiresAreDue'
  <2>1. \A t \in Templates : \A i \in 1..Len(fired[t]) : added'[t] = added[t]
    <3>1. \A t \in Templates : fired[t] = <<>> => Len(fired[t]) = 0
      OBVIOUS
    <3>. QED BY <1>2, <1>3, <3>1
  <2>. QED BY <2>1 DEF FiresAreDue, Slot
<1>7. \A t \in Templates : Answers(t)' = Answers(t)
  BY DEF Answers, ToSet
<1>8. CursorsAnswer'
  BY <1>1, <1>7 DEF CursorsAnswer
<1>9. RunsAnswer'
  BY <1>7 DEF RunsAnswer, Slot
<1>10. OneOpenChild'
  <2>1. \A t \in Skipping : t \in Templates
    BY RecurrenceAssumption
  <2>. QED BY <1>1, <2>1 DEF OneOpenChild
<1>. QED BY <1>4, <1>5, <1>6, <1>8, <1>9, <1>10

\* The clock, a template put or retired, a child closed.
LEMMA IdleSteps ==
  ASSUME RecurrenceInv,
         \/ Tick \/ UNCHANGED recurrenceVars
         \/ \E t \in Templates : Put(t) \/ Retire(t) \/ Close(t)
  PROVE  RecurrenceInv'
<1>. USE RecurrenceAssumption DEF RecurrenceInv
<1>0. clock \in Nat /\ clock # 0 /\ clock \in Minute /\ \A t \in Templates : open[t] \in Nat
  BY DEF RecurrenceTypeOK, Minute
<1>1. CASE Tick
  <2>1. RecurrenceTypeOK'
    BY <1>1 DEF Tick, RecurrenceTypeOK, Minute, history
  <2>. QED BY <1>0, <1>1, <2>1, IdleStep DEF Tick, CursorsOK, history
<1>2. CASE UNCHANGED recurrenceVars
  <2>1. RecurrenceTypeOK'
    BY <1>2 DEF recurrenceVars, history, RecurrenceTypeOK
  <2>. QED BY <1>0, <1>2, <2>1, IdleStep DEF recurrenceVars, CursorsOK, history
<1>3. ASSUME NEW t \in Templates, Put(t)
      PROVE  RecurrenceInv'
  <2>1. RecurrenceTypeOK'
    BY <1>0, <1>3 DEF Put, RecurrenceTypeOK
  <2>2. \A u \in Templates : /\ added'[u] = added[u] \/ (added[u] = 0 /\ added'[u] = clock)
                             /\ u \in recurring' => added'[u] # 0
    BY <1>0, <1>3 DEF Put, RecurrenceTypeOK, CursorsOK
  <2>. QED BY <1>0, <1>3, <2>1, <2>2, IdleStep DEF Put
<1>4. ASSUME NEW t \in Templates, Retire(t)
      PROVE  RecurrenceInv'
  <2>1. RecurrenceTypeOK'
    BY <1>4 DEF Retire, RecurrenceTypeOK, history
  <2>. QED BY <1>0, <1>4, <2>1, IdleStep DEF Retire, CursorsOK, history
<1>5. ASSUME NEW t \in Templates, Close(t)
      PROVE  RecurrenceInv'
  <2>1. RecurrenceTypeOK'
    BY <1>0, <1>5 DEF Close, RecurrenceTypeOK, history
  <2>2. \A u \in Templates : open'[u] <= open[u]
    BY <1>0, <1>5 DEF Close, RecurrenceTypeOK
  <2>. QED BY <1>0, <1>5, <2>1, <2>2, IdleStep DEF Close, CursorsOK, history
<1>. QED BY <1>1, <1>2, <1>3, <1>4, <1>5

\* A tick moves the cursors of those it asks, and what it asks for is due.
LEMMA DueStep ==
  ASSUME RecurrenceInv, DueTick
  PROVE  RecurrenceInv'
<1>. USE DEF RecurrenceInv
<1>. DEFINE inWindow == {t \in recurring : Open(t)}
            asking == {t \in inWindow : Asks(t)}
            Moved(t) == t \in asking \/ (t \in inWindow /\ cursors[t] = 0)
<1>1. /\ spawning = {} /\ UNCHANGED <<clock, recurring, open, added, fired, lost>>
      /\ cursors' = [t \in Templates |-> IF Moved(t) THEN clock ELSE cursors[t]]
      /\ spawning' = {t \in asking : ~Barred(t)}
      /\ skipped' = [t \in Templates |->
              IF t \in asking /\ Barred(t) THEN skipped[t] \cup {clock} ELSE skipped[t]]
      /\ ran' = [t \in Templates |->
              IF t \in inWindow THEN ran[t] \cup {clock} ELSE ran[t]]
  BY DEF DueTick, Unlocked
<1>2. /\ clock \in Nat /\ clock # 0 /\ clock \in Minute /\ inWindow \subseteq Templates
      /\ \A t \in Templates : /\ added[t] \in Nat /\ cursors[t] \in Nat /\ open[t] \in Nat
                              /\ fired[t] \in Seq(Nat) /\ ran[t] \subseteq Nat
                              /\ skipped[t] \subseteq Nat
  BY DEF RecurrenceTypeOK, Minute
<1>3. RecurrenceTypeOK'
  BY <1>1, <1>2 DEF RecurrenceTypeOK
<1>4. \A t \in Templates : cursors'[t] = IF Moved(t) THEN clock ELSE cursors[t]
  BY <1>1
<1>5. \A t \in asking : t \in Templates /\ cursors[t] # 0
  BY <1>2 DEF Asks
<1>. HIDE DEF inWindow, asking
<1>6. \A t \in Templates : LastFire(t)' = LastFire(t) /\ LastFire(t) \in Nat
  <2>1. \A t \in Templates : fired[t] # <<>> => Len(fired[t]) \in 1..Len(fired[t])
    BY <1>2, EmptySeq, LenProperties
  <2>. QED BY <1>1, <1>2, <2>1, ElementOfSeq DEF LastFire
<1>7. CursorsOK'
  <2>. SUFFICES ASSUME NEW t \in Templates
                PROVE  /\ added[t] <= clock
                       /\ t \in recurring => added[t] # 0
                       /\ cursors'[t] <= clock
                       /\ cursors'[t] # 0 => added[t] # 0 /\ LastFire(t) <= cursors'[t]
                       /\ cursors'[t] = 0 => fired[t] = <<>> /\ t \notin spawning' /\ ran'[t] = {}
    BY <1>1, <1>6 DEF CursorsOK
  <2>1. CASE Moved(t)
    <3>1. cursors'[t] = clock /\ t \in recurring
      BY <1>4, <2>1 DEF inWindow, asking
    <3>2. LastFire(t) <= clock
      BY <1>2, <1>6, <3>1 DEF CursorsOK, LastFire
    <3>. QED BY <1>2, <3>1, <3>2 DEF CursorsOK
  <2>2. CASE ~ Moved(t)
    <3>1. cursors'[t] = cursors[t] /\ t \notin spawning'
      BY <1>1, <1>4, <2>2
    <3>2. cursors[t] = 0 => ran'[t] = {}
      BY <1>1, <2>2 DEF CursorsOK
    <3>. QED BY <3>1, <3>2 DEF CursorsOK
  <2>. QED BY <2>1, <2>2
<1>8. SpawningIsDue'
  <2>. SUFFICES ASSUME NEW t \in spawning'
                PROVE  IsDue(t, LastFire(t), clock) /\ (t \in Skipping => open[t] = 0)
    BY <1>1, <1>4, <1>5, <1>6 DEF SpawningIsDue, IsDue, Slot
  <2>1. t \in Templates /\ cursors[t] # 0 /\ Asks(t) /\ ~ Barred(t)
    BY <1>1, <1>5 DEF asking
  <2>2. LastFire(t) <= cursors[t]
    BY <2>1 DEF CursorsOK
  <2>3. IsDue(t, LastFire(t), clock)
    <3>1. CASE t \in Every
      <4>1. Period[t] \in Nat
        BY <2>1, RecurrenceAssumption
      <4>. QED BY <3>1, <4>1, <2>1, <2>2, <1>2, <1>6 DEF IsDue, Asks
    <3>2. CASE t \notin Every
      <4>1. PICK m \in Minute : cursors[t] < m /\ m <= clock /\ Slot(t, m)
        BY <3>2, <2>1 DEF Asks, Matched
      <4>2. m \in (LastFire(t) + 1)..clock
        BY <4>1, <2>1, <2>2, <1>2, <1>6 DEF Minute
      <4>. QED BY <3>2, <4>1, <4>2 DEF IsDue
    <3>. QED BY <3>1, <3>2
  <2>. QED BY <2>1, <2>3, <1>2 DEF Barred
<1>9. FiresAreDue'
  BY <1>1 DEF FiresAreDue, Slot
<1>10. \A t \in Templates : Answers(t) \subseteq Answers(t)'
  BY <1>1 DEF Answers, ToSet
<1>11. \A t \in Templates : t \in asking => clock \in Answers(t)'
  <2>. SUFFICES ASSUME NEW t \in Templates, t \in asking PROVE clock \in Answers(t)'
    OBVIOUS
  <2>1. cursors'[t] = clock
    BY <1>4
  <2>2. CASE Barred(t)
    BY <1>1, <2>2 DEF Answers
  <2>3. CASE ~ Barred(t)
    BY <1>1, <2>1, <2>3 DEF Answers
  <2>. QED BY <2>2, <2>3
<1>12. CursorsAnswer'
  <2>. SUFFICES ASSUME NEW t \in Templates, NEW a \in ran'[t]
                PROVE  a <= clock /\ (a < cursors'[t] => cursors'[t] \in Answers(t)')
    BY <1>1 DEF CursorsAnswer
  <2>1. CASE a \notin ran[t]
    <3>1. a = clock
      BY <1>1, <2>1
    <3>. QED BY <3>1, <1>2, <1>4 DEF CursorsOK
  <2>2. CASE a \in ran[t] /\ Moved(t)
    <3>1. t \in asking
      BY <2>2 DEF CursorsOK
    <3>. QED BY <2>2, <3>1, <1>4, <1>11 DEF CursorsAnswer
  <2>3. CASE a \in ran[t] /\ ~ Moved(t)
    BY <2>3, <1>4, <1>10 DEF CursorsAnswer
  <2>. QED BY <2>1, <2>2, <2>3
<1>13. RunsAnswer'
  <2>. SUFFICES ASSUME NEW t \in Templates \ Every, NEW a \in ran'[t], NEW d \in ran'[t],
                       NEW m \in (a + 1)..d, Slot(t, m), d < m + Horizon
                PROVE  \E f \in Answers(t)' : m <= f /\ f <= d
    BY DEF RunsAnswer, Slot
  <2>1. t \in Templates /\ a \in Nat /\ d \in Nat /\ a < m /\ m <= d /\ m \in Nat /\ a <= clock /\ d <= clock
    BY <1>1, <1>2, <1>3, <1>12 DEF RecurrenceTypeOK, CursorsAnswer
  <2>2. a \in ran[t]
    BY <1>1, <1>2, <2>1
  <2>3. CASE d \in ran[t]
    BY <2>1, <2>2, <2>3, <1>10 DEF RunsAnswer
  <2>4. CASE d \notin ran[t]
    <3>1. d = clock /\ t \in inWindow
      BY <1>1, <2>1, <2>4
    <3>2. CASE t \in asking
      BY <3>1, <3>2, <2>1, <1>11
    <3>3. CASE t \notin asking
      <4>1. cursors[t] # 0 /\ ~ Matched(t, cursors[t])
        BY <2>1, <2>2, <3>1, <3>3 DEF asking, Asks, CursorsOK
      <4>2. m \in Minute /\ clock < m + Horizon /\ m <= clock
        BY <1>2, <2>1, <3>1, RecurrenceAssumption DEF Minute
      <4>3. m <= cursors[t]
        BY <1>2, <2>1, <4>1, <4>2 DEF Matched
      <4>4. cursors[t] \in Answers(t) /\ cursors[t] <= clock
        BY <1>2, <2>1, <2>2, <4>3 DEF CursorsAnswer, CursorsOK
      <4>. QED BY <1>10, <2>1, <3>1, <4>3, <4>4
    <3>. QED BY <3>2, <3>3
  <2>. QED BY <2>3, <2>4
<1>14. OneOpenChild'
  BY <1>1 DEF OneOpenChild
<1>. QED BY <1>3, <1>7, <1>8, <1>9, <1>12, <1>13, <1>14

\* One more element at the end of a list.
LEMMA Appended ==
  ASSUME NEW s \in Seq(Nat), NEW x \in Nat
  PROVE  /\ Len(s) \in Nat /\ Len(Append(s, x)) = Len(s) + 1 /\ Append(s, x) # <<>>
         /\ Append(s, x)[Len(s) + 1] = x
         /\ \A k \in 1..Len(s) : Append(s, x)[k] = s[k]
         /\ ToSet(Append(s, x)) = ToSet(s) \cup {x}
         /\ s = <<>> <=> Len(s) = 0
<1>. DEFINE r == Append(s, x)
<1>1. Len(s) \in Nat /\ Len(r) = Len(s) + 1 /\ r \in Seq(Nat) /\ r # <<>>
  BY LenProperties, AppendProperties
<1>2. r[Len(s) + 1] = x /\ \A k \in 1..Len(s) : r[k] = s[k]
  BY AppendProperties
<1>3. DOMAIN s = 1..Len(s) /\ DOMAIN r = 1..Len(r)
  BY <1>1, LenProperties
<1>4. s = <<>> <=> Len(s) = 0
  BY EmptySeq
<1>5. ToSet(r) = ToSet(s) \cup {x}
  <2>. HIDE DEF r
  <2>. QED BY <1>1, <1>2, <1>3 DEF ToSet
<1>. QED BY <1>1, <1>2, <1>4, <1>5

\* The children appear where their cursors are.
LEMMA SaveStep ==
  ASSUME RecurrenceInv, SaveTick
  PROVE  RecurrenceInv'
<1>. USE DEF RecurrenceInv
<1>1. /\ open' = [t \in Templates |-> IF t \in spawning THEN open[t] + 1 ELSE open[t]]
      /\ fired' = [t \in Templates |->
                     IF t \in spawning THEN Append(fired[t], cursors[t]) ELSE fired[t]]
      /\ recurring' \subseteq recurring /\ spawning' = {}
      /\ UNCHANGED <<clock, cursors, added, skipped, ran, lost>>
  BY DEF SaveTick
<1>2. /\ clock \in Nat /\ spawning \subseteq Templates
      /\ \A t \in Templates : /\ added[t] \in Nat /\ cursors[t] \in Nat /\ open[t] \in Nat
                              /\ fired[t] \in Seq(Nat) /\ ran[t] \subseteq Nat
  BY DEF RecurrenceTypeOK, Minute
<1>3. \A t \in Templates : fired'[t] = IF t \in spawning THEN Append(fired[t], cursors[t]) ELSE fired[t]
  BY <1>1
<1>4. RecurrenceTypeOK'
  <2>1. fired' \in [Templates -> Seq(Nat)]
    BY <1>1, <1>2, AppendProperties
  <2>. QED BY <1>1, <1>2, <2>1 DEF RecurrenceTypeOK
<1>a. ASSUME NEW t \in spawning
      PROVE  /\ Len(fired[t]) \in Nat /\ Len(fired'[t]) = Len(fired[t]) + 1 /\ fired'[t] # <<>>
             /\ fired'[t][Len(fired[t]) + 1] = cursors[t]
             /\ \A k \in 1..Len(fired[t]) : fired'[t][k] = fired[t][k]
             /\ ToSet(fired'[t]) = ToSet(fired[t]) \cup {cursors[t]}
             /\ fired[t] = <<>> <=> Len(fired[t]) = 0
  <2>1. fired'[t] = Append(fired[t], cursors[t]) /\ fired[t] \in Seq(Nat) /\ cursors[t] \in Nat
    BY <1>2, <1>3
  <2>. DEFINE s == fired[t]
              r == fired'[t]
              x == cursors[t]
  <2>2. s \in Seq(Nat) /\ x \in Nat /\ r = Append(s, x)
    BY <2>1
  <2>. HIDE DEF s, r, x
  <2>3. /\ Len(s) \in Nat /\ Len(r) = Len(s) + 1 /\ r # <<>>
        /\ r[Len(s) + 1] = x /\ \A k \in 1..Len(s) : r[k] = s[k]
        /\ ToSet(r) = ToSet(s) \cup {x} /\ (s = <<>> <=> Len(s) = 0)
    <3>1. Len(s) \in Nat /\ Len(Append(s, x)) = Len(s) + 1
      BY <2>2, Appended
    <3>2. Append(s, x) # <<>>
      BY <2>2, Appended
    <3>3. Append(s, x)[Len(s) + 1] = x /\ \A k \in 1..Len(s) : Append(s, x)[k] = s[k]
      BY <2>2, Appended
    <3>4. ToSet(Append(s, x)) = ToSet(s) \cup {x}
      BY <2>2, Appended
    <3>5. s = <<>> <=> Len(s) = 0
      BY <2>2, Appended
    <3>. QED BY <2>2, <3>1, <3>2, <3>3, <3>4, <3>5
  <2>. QED BY <2>3 DEF s, r, x
<1>5. \A t \in spawning : LastFire(t)' = cursors[t] /\ fired'[t] # <<>> /\ cursors[t] # 0
  <2>. SUFFICES ASSUME NEW t \in spawning
                PROVE  LastFire(t)' = cursors[t] /\ fired'[t] # <<>> /\ cursors[t] # 0
    OBVIOUS
  <2>1. cursors[t] # 0
    BY <1>2 DEF CursorsOK
  <2>2. fired'[t] # <<>> /\ fired'[t][Len(fired'[t])] = cursors[t]
    BY <1>a
  <2>. QED BY <2>1, <2>2 DEF LastFire
<1>6. \A t \in Templates \ spawning : LastFire(t)' = LastFire(t)
  BY <1>1, <1>3 DEF LastFire
<1>7. CursorsOK'
  <2>. SUFFICES ASSUME NEW t \in Templates
                PROVE  /\ added[t] <= clock
                       /\ t \in recurring => added[t] # 0
                       /\ cursors[t] <= clock
                       /\ cursors[t] # 0 => added[t] # 0 /\ LastFire(t)' <= cursors[t]
                       /\ cursors[t] = 0 => fired'[t] = <<>> /\ ran[t] = {}
    BY <1>1 DEF CursorsOK
  <2>1. CASE t \in spawning
    BY <2>1, <1>2, <1>5 DEF CursorsOK
  <2>2. CASE t \notin spawning
    BY <2>2, <1>3, <1>6 DEF CursorsOK
  <2>. QED BY <2>1, <2>2
<1>8. SpawningIsDue'
  BY <1>1 DEF SpawningIsDue
<1>9. FiresAreDue'
  <2>. SUFFICES ASSUME NEW t \in Templates, NEW i \in 1..Len(fired'[t])
                PROVE  IsDue(t, IF i = 1 THEN added[t] ELSE fired'[t][i - 1], fired'[t][i])
    BY <1>1 DEF FiresAreDue, IsDue, Slot
  <2>1. CASE t \notin spawning
    BY <2>1, <1>3 DEF FiresAreDue, IsDue
  <2>2. CASE t \in spawning
    <3>. DEFINE n == Len(fired[t])
    <3>1. /\ n \in Nat /\ Len(fired'[t]) = n + 1 /\ fired'[t][n + 1] = cursors[t]
          /\ \A k \in 1..n : fired'[t][k] = fired[t][k]
      BY <2>2, <1>a
    <3>2. CASE i = n + 1
      <4>1. LastFire(t) = IF i = 1 THEN added[t] ELSE fired'[t][i - 1]
        <5>1. fired[t] = <<>> <=> n = 0
          BY <2>2, <1>a
        <5>. QED BY <3>1, <3>2, <5>1 DEF LastFire
      <4>. QED BY <2>2, <3>1, <3>2, <4>1 DEF SpawningIsDue
    <3>3. CASE i # n + 1
      <4>1. i \in 1..n /\ fired'[t][i] = fired[t][i] /\ (i # 1 => fired'[t][i - 1] = fired[t][i - 1])
        BY <3>1, <3>3
      <4>. QED BY <4>1 DEF FiresAreDue, IsDue
    <3>. QED BY <3>2, <3>3
  <2>. QED BY <2>1, <2>2
<1>10. \A t \in Templates : Answers(t)' = Answers(t)
  <2>1. \A t \in spawning : ToSet(fired'[t]) = ToSet(fired[t]) \cup {cursors[t]}
    BY <1>a
  <2>. QED BY <1>1, <1>3, <2>1 DEF Answers
<1>11. CursorsAnswer'
  BY <1>1, <1>10 DEF CursorsAnswer
<1>12. RunsAnswer'
  BY <1>1, <1>10 DEF RunsAnswer, Slot
<1>13. OneOpenChild'
  <2>1. Skipping \subseteq Templates
    BY RecurrenceAssumption
  <2>. QED BY <1>1, <1>2, <2>1 DEF OneOpenChild, SpawningIsDue
<1>. QED BY <1>4, <1>7, <1>8, <1>9, <1>11, <1>12, <1>13

\* A lost child counts as one skipped.
LEMMA LoseStep ==
  ASSUME RecurrenceInv, LoseTick
  PROVE  RecurrenceInv'
<1>. USE DEF RecurrenceInv
<1>1. /\ skipped' = [t \in Templates |->
                       IF t \in spawning THEN skipped[t] \cup {cursors[t]} ELSE skipped[t]]
      /\ spawning' = {}
      /\ UNCHANGED <<clock, recurring, cursors, open, added, fired, ran>>
  BY DEF LoseTick
<1>2. spawning \subseteq Templates
  BY DEF RecurrenceTypeOK
<1>3. RecurrenceTypeOK'
  BY <1>1 DEF RecurrenceTypeOK
<1>4. \A t \in Templates : LastFire(t)' = LastFire(t)
  BY <1>1 DEF LastFire
<1>5. CursorsOK'
  BY <1>1, <1>4 DEF CursorsOK
<1>6. SpawningIsDue' /\ FiresAreDue'
  BY <1>1 DEF SpawningIsDue, FiresAreDue, Slot
<1>7. \A t \in Templates : Answers(t)' = Answers(t)
  BY <1>1 DEF Answers, ToSet
<1>8. CursorsAnswer' /\ RunsAnswer'
  BY <1>1, <1>7 DEF CursorsAnswer, RunsAnswer, Slot
<1>9. OneOpenChild'
  BY <1>1 DEF OneOpenChild
<1>. QED BY <1>3, <1>5, <1>6, <1>8, <1>9

(* The schedule is kept for any templates, periods, windows, horizon and
   length of the run, whatever ticks are lost.                               *)
THEOREM ScheduleKept == RecurrenceInit /\ [][RecurrenceNext]_recurrenceVars => []ScheduleIsKept
<1>1. RecurrenceInv /\ [RecurrenceNext]_recurrenceVars => RecurrenceInv'
  BY IdleSteps, DueStep, SaveStep, LoseStep DEF RecurrenceNext
<1>2. RecurrenceInv => ScheduleIsKept
  <2>. SUFFICES ASSUME RecurrenceInv, Unlocked PROVE SlotsAreAnswered
    BY DEF RecurrenceInv, ScheduleIsKept, SlotsAreAnswered
  <2>1. \A t \in Templates : Answers(t) = ToSet(fired[t]) \cup skipped[t]
    BY DEF Answers, Unlocked
  <2>. QED BY <2>1 DEF RecurrenceInv, RunsAnswer, SlotsAreAnswered
<1>. QED BY RecurrenceStarts, <1>1, <1>2, PTL

-----------------------------------------------------------------------------
(* The search for a cycle *)

Outcomes == {"none", "searching", "accepted", "refused"}

CheckTypeOK ==
  /\ verdict \in Outcomes
  /\ roots \subseteq Live(doc)
  /\ marks \in [Tasks -> 0..2]
  /\ stack \in Seq(Live(doc))
  /\ left \in [Tasks -> SUBSET Tasks]

Edges(t) == doc[t].deps \cap Live(doc)

Done == {t \in Tasks : marks[t] = 2}

\* The stack is a path of the graph, of the tasks marked 1, each once.
StackIsPath ==
  /\ \A t \in Tasks : marks[t] = 1 <=> \E k \in 1..Len(stack) : stack[k] = t
  /\ \A i, k \in 1..Len(stack) : stack[i] = stack[k] => i = k
  /\ \A k \in 1..(Len(stack) - 1) : stack[k + 1] \in Edges(stack[k])

\* The edges of a call that are not left were followed, or are being followed.
Followed == verdict # "refused" =>
  \A k \in 1..Len(stack) :
    /\ left[stack[k]] \subseteq Edges(stack[k])
    /\ \A t \in Edges(stack[k]) \ left[stack[k]] :
         marks[t] = 2 \/ (k < Len(stack) /\ t = stack[k + 1])

\* What is done is closed under edges and holds no cycle.
DoneIsAcyclic ==
  /\ Done \subseteq Live(doc)
  /\ \A t \in Done : Edges(t) \subseteq Done
  /\ ~ \E S \in SUBSET Done : S # {} /\ \A t \in S : doc[t].deps \cap S # {}

\* The outer loop has left no task behind.
RootsRemain == verdict # "none" => \A t \in Live(doc) \ roots : marks[t] # 0

CheckInv ==
  /\ CheckTypeOK /\ StackIsPath /\ Followed /\ DoneIsAcyclic /\ RootsRemain
  /\ verdict = "none" => stack = <<>> /\ Done = {} /\ \A t \in Tasks : marks[t] = 0
  /\ SearchIsAcyclic

\* Nothing is visited yet.
LEMMA CheckStarts == CheckInit => CheckInv
<1>. SUFFICES ASSUME CheckInit PROVE CheckInv
  OBVIOUS
<1>. USE DEF CheckInit
<1>1. Live(doc) = {} /\ Done = {} /\ Len(stack) = 0 /\ stack \in Seq(Live(doc))
  BY EmptySeq DEF Live, Empty, Blank, Done
<1>2. CheckTypeOK
  BY <1>1 DEF CheckTypeOK, Outcomes
<1>3. StackIsPath /\ Followed
  BY <1>1 DEF StackIsPath, Followed
<1>4. DoneIsAcyclic /\ RootsRemain /\ SearchIsAcyclic
  BY <1>1 DEF DoneIsAcyclic, RootsRemain, SearchIsAcyclic
<1>. QED BY <1>1, <1>2, <1>3, <1>4 DEF CheckInv

\* A document is offered.
LEMMA OfferStep ==
  ASSUME CheckInv, NEW d, Offer(d)
  PROVE  CheckInv'
<1>. USE DEF CheckInv, Offer
<1>1. /\ stack = <<>> /\ stack' = <<>> /\ Len(stack') = 0 /\ \A t \in Tasks : marks'[t] = 0
      /\ Done' = {} /\ roots' = Live(doc)' /\ stack' \in Seq(Live(doc)')
  BY EmptySeq DEF Done
<1>2. CheckTypeOK'
  BY <1>1 DEF CheckTypeOK, Outcomes
<1>3. StackIsPath' /\ Followed'
  BY <1>1 DEF StackIsPath, Followed
<1>4. DoneIsAcyclic' /\ RootsRemain' /\ SearchIsAcyclic'
  BY <1>1 DEF DoneIsAcyclic, RootsRemain, SearchIsAcyclic
<1>. QED BY <1>1, <1>2, <1>3, <1>4

\* A call of visit, by the outer loop or by the call on top of the stack.
LEMMA VisitStep ==
  ASSUME CheckInv, NEW t \in Tasks, VisitRoot(t) \/ VisitDep(t)
  PROVE  CheckInv'
<1>. USE DEF CheckInv
<1>. DEFINE n == Len(stack)
            rest == [k \in Tasks |-> IF n > 0 /\ k = stack[n] THEN left[k] \ {t} ELSE left[k]]
<1>0. /\ verdict = "searching" /\ UNCHANGED doc /\ n \in Nat /\ stack \in Seq(Live(doc))
      /\ \A k \in 1..n : stack[k] \in Live(doc)
      /\ Live(doc) \subseteq Tasks
  BY LenProperties, ElementOfSeq DEF VisitRoot, VisitDep, CheckTypeOK, Live
<1>1. Edges(t)' = Edges(t) /\ Live(doc)' = Live(doc) /\ \A k : Edges(k)' = Edges(k)
  BY <1>0 DEF Edges, Live
<1>2. /\ Visit(t, rest) /\ t \in Live(doc)
      /\ n > 0 => t \in left[stack[n]] /\ t \in Edges(stack[n])
      /\ n > 0 => roots' = roots
      /\ n = 0 => roots' = roots \ {t}
  <2>1. CASE VisitRoot(t)
    <3>1. n = 0
      BY <2>1, EmptySeq DEF VisitRoot
    <3>2. rest = left
      BY <3>1 DEF CheckTypeOK
    <3>. QED BY <2>1, <3>1, <3>2 DEF VisitRoot, CheckTypeOK
  <2>2. CASE VisitDep(t)
    <3>1. n > 0
      BY <1>0, <2>2, EmptySeq DEF VisitDep
    <3>2. stack[n] \in Tasks
      BY <1>0, <3>1
    <3>3. rest = [left EXCEPT ![Top] = @ \ {t}]
      BY <3>1, <3>2 DEF CheckTypeOK, Top
    <3>4. t \in left[stack[n]] /\ t \in Edges(stack[n])
      BY <1>0, <2>2, <3>1 DEF VisitDep, Top, Followed
    <3>. QED BY <2>2, <3>1, <3>3, <3>4 DEF VisitDep, Edges
  <2>. QED BY <2>1, <2>2
<1>3. rest \in [Tasks -> SUBSET Tasks] /\ \A k \in Tasks : rest[k] \subseteq left[k]
  BY DEF CheckTypeOK
<1>4. \A k \in 1..n : \A u \in Edges(stack[k]) \ rest[stack[k]] :
         u \in left[stack[k]] => k = n /\ u = t
  BY <1>0 DEF StackIsPath
<1>. HIDE DEF n, rest
<1>5. CASE marks[t] = 1
  <2>1. verdict' = "refused" /\ left' = rest /\ UNCHANGED <<marks, stack>>
    BY <1>2, <1>5 DEF Visit
  <2>2. n > 0
    BY <1>0, <1>5 DEF StackIsPath, n
  <2>3. PICK k \in 1..n : stack[k] = t
    BY <1>5 DEF StackIsPath, n
  <2>4. ~ Acyclic(doc)
    <3>. DEFINE S == {stack[i] : i \in k..n}
    <3>1. S \subseteq Live(doc) /\ S # {}
      BY <1>0, <2>3
    <3>2. ASSUME NEW i \in k..n PROVE doc[stack[i]].deps \cap S # {}
      <4>1. CASE i = n
        BY <4>1, <1>2, <2>2, <2>3, <1>0 DEF Edges
      <4>2. CASE i # n
        <5>1. i \in 1..(n - 1) /\ i + 1 \in k..n
          BY <1>0, <2>3, <4>2
        <5>2. stack[i + 1] \in Edges(stack[i])
          BY <5>1 DEF StackIsPath, n
        <5>. QED BY <5>1, <5>2 DEF Edges
      <4>. QED BY <4>1, <4>2
    <3>3. \A x \in S : doc[x].deps \cap S # {}
      BY <3>2
    <3>. HIDE DEF S
    <3>. QED BY <3>1, <3>3 DEF Acyclic
  <2>5. CheckTypeOK'
    BY <1>0, <1>1, <1>2, <1>3, <2>1 DEF CheckTypeOK, Outcomes
  <2>6. StackIsPath' /\ Followed'
    BY <1>1, <2>1 DEF StackIsPath, Followed
  <2>7. DoneIsAcyclic' /\ RootsRemain' /\ SearchIsAcyclic'
    <3>1. DoneIsAcyclic'
      BY <1>0, <1>1, <2>1 DEF DoneIsAcyclic, Done
    <3>2. RootsRemain'
      BY <1>0, <1>1, <1>2, <1>5, <2>1 DEF RootsRemain
    <3>3. SearchIsAcyclic'
      BY <1>0, <2>1, <2>4 DEF SearchIsAcyclic, Acyclic, Live
    <3>. QED BY <3>1, <3>2, <3>3
  <2>. QED BY <2>1, <2>5, <2>6, <2>7
<1>6. CASE marks[t] = 2
  <2>1. left' = rest /\ UNCHANGED <<marks, stack, verdict>>
    BY <1>2, <1>6 DEF Visit
  <2>2. CheckTypeOK'
    BY <1>0, <1>1, <1>2, <1>3, <2>1 DEF CheckTypeOK
  <2>3. StackIsPath'
    BY <1>1, <2>1 DEF StackIsPath
  <2>4. Followed'
    <3>. SUFFICES ASSUME NEW k \in 1..n
                  PROVE  /\ rest[stack[k]] \subseteq Edges(stack[k])
                         /\ \A u \in Edges(stack[k]) \ rest[stack[k]] :
                              marks[u] = 2 \/ (k < n /\ u = stack[k + 1])
      BY <1>1, <2>1 DEF Followed, n
    <3>1. stack[k] \in Tasks
      BY <1>0
    <3>. QED BY <1>0, <1>3, <1>4, <1>6, <3>1 DEF Followed, n
  <2>5. DoneIsAcyclic'
    BY <1>0, <1>1, <2>1 DEF DoneIsAcyclic, Done
  <2>6. RootsRemain' /\ SearchIsAcyclic'
    BY <1>0, <1>1, <1>2, <1>6, <2>1 DEF RootsRemain, SearchIsAcyclic
  <2>. QED BY <1>0, <2>1, <2>2, <2>3, <2>4, <2>5, <2>6
<1>7. CASE marks[t] = 0
  <2>1. /\ marks' = [marks EXCEPT ![t] = 1] /\ stack' = Append(stack, t)
        /\ left' = [rest EXCEPT ![t] = Edges(t)] /\ UNCHANGED verdict
    BY <1>2, <1>7 DEF Visit, Edges
  <2>2. /\ \A k \in Tasks : marks'[k] = IF k = t THEN 1 ELSE marks[k]
        /\ \A k \in Tasks : left'[k] = IF k = t THEN Edges(t) ELSE rest[k]
    BY <1>3, <2>1 DEF CheckTypeOK
  <2>3. /\ stack' \in Seq(Live(doc)) /\ Len(stack') = n + 1 /\ stack'[n + 1] = t
        /\ \A k \in 1..n : stack'[k] = stack[k]
    BY <1>0, <1>2, <2>1, AppendProperties DEF n
  <2>4. \A k \in 1..n : stack[k] # t /\ stack[k] \in Tasks
    BY <1>0, <1>7 DEF StackIsPath, n
  <2>5. CheckTypeOK'
    BY <1>0, <1>1, <1>2, <1>3, <2>1, <2>3 DEF CheckTypeOK, Edges
  <2>6. StackIsPath'
    <3>1. \A u \in Tasks : marks'[u] = 1 <=> \E k \in 1..(n + 1) : stack'[k] = u
      <4>. SUFFICES ASSUME NEW u \in Tasks
                    PROVE  marks'[u] = 1 <=> \E k \in 1..(n + 1) : stack'[k] = u
        OBVIOUS
      <4>1. CASE u = t
        BY <4>1, <1>0, <2>2, <2>3
      <4>2. CASE u # t
        <5>1. marks[u] = 1 <=> \E k \in 1..n : stack[k] = u
          BY DEF StackIsPath, n
        <5>. QED BY <4>2, <5>1, <1>0, <2>2, <2>3
      <4>. QED BY <4>1, <4>2
    <3>2. \A i, k \in 1..(n + 1) : stack'[i] = stack'[k] => i = k
      <4>1. \A i, k \in 1..n : stack[i] = stack[k] => i = k
        BY DEF StackIsPath, n
      <4>. QED BY <4>1, <1>0, <2>3, <2>4
    <3>3. \A k \in 1..n : stack'[k + 1] \in Edges(stack'[k])
      <4>. SUFFICES ASSUME NEW k \in 1..n PROVE stack'[k + 1] \in Edges(stack'[k])
        OBVIOUS
      <4>1. CASE k = n
        BY <4>1, <1>0, <1>2, <2>3
      <4>2. CASE k # n
        <5>1. k \in 1..(n - 1) /\ k + 1 \in 1..n
          BY <4>2, <1>0
        <5>2. stack[k + 1] \in Edges(stack[k])
          BY <5>1 DEF StackIsPath, n
        <5>. QED BY <5>1, <5>2, <2>3
      <4>. QED BY <4>1, <4>2
    <3>. QED BY <1>0, <1>1, <2>3, <3>1, <3>2, <3>3 DEF StackIsPath
  <2>7. Followed'
    <3>. SUFFICES ASSUME NEW k \in 1..(n + 1)
                  PROVE  /\ left'[stack'[k]] \subseteq Edges(stack'[k])
                         /\ \A u \in Edges(stack'[k]) \ left'[stack'[k]] :
                              marks'[u] = 2 \/ (k < n + 1 /\ u = stack'[k + 1])
      BY <1>1, <2>3 DEF Followed
    <3>1. CASE k = n + 1
      BY <3>1, <2>2, <2>3
    <3>2. CASE k # n + 1
      <4>1. /\ k \in 1..n /\ stack'[k] = stack[k] /\ stack[k] # t /\ stack[k] \in Tasks
            /\ left'[stack'[k]] = rest[stack[k]]
        BY <3>2, <1>0, <2>2, <2>3, <2>4
      <4>2. rest[stack[k]] \subseteq Edges(stack[k])
        BY <4>1, <1>0, <1>3 DEF Followed, n
      <4>3. ASSUME NEW u \in Edges(stack[k]) \ rest[stack[k]]
            PROVE  marks'[u] = 2 \/ (k < n + 1 /\ u = stack'[k + 1])
        <5>1. u \in Tasks
          BY <1>0, <4>3 DEF Edges
        <5>2. CASE u \in left[stack[k]]
          BY <5>2, <4>1, <4>3, <1>0, <1>4, <2>3
        <5>3. CASE u \notin left[stack[k]]
          <6>1. marks[u] = 2 \/ (k < n /\ u = stack[k + 1])
            BY <5>3, <4>1, <4>3, <1>0 DEF Followed, n
          <6>2. CASE marks[u] = 2
            BY <6>2, <5>1, <1>7, <2>2
          <6>3. CASE k < n /\ u = stack[k + 1]
            BY <6>3, <4>1, <1>0, <2>3
          <6>. QED BY <6>1, <6>2, <6>3
        <5>. QED BY <5>2, <5>3
      <4>. QED BY <4>1, <4>2, <4>3
    <3>. QED BY <3>1, <3>2
  <2>8. DoneIsAcyclic'
    <3>1. Done' = Done
      BY <1>7, <2>2 DEF Done
    <3>. QED BY <1>0, <1>1, <3>1 DEF DoneIsAcyclic
  <2>9. RootsRemain' /\ SearchIsAcyclic'
    BY <1>0, <1>1, <1>2, <2>1, <2>2 DEF RootsRemain, SearchIsAcyclic
  <2>. QED BY <1>0, <2>1, <2>5, <2>6, <2>7, <2>8, <2>9
<1>. QED
  <2>1. marks[t] \in 0..2
    BY DEF CheckTypeOK
  <2>. QED BY <2>1, <1>5, <1>6, <1>7

\* A call returns: its edges are all done, so a cycle through it would be one of theirs.
LEMMA ReturnStep ==
  ASSUME CheckInv, Return
  PROVE  CheckInv'
<1>. USE DEF CheckInv
<1>. DEFINE n == Len(stack)
            t == stack[n]
<1>0. /\ verdict = "searching" /\ UNCHANGED <<doc, roots, left, verdict>>
      /\ n \in Nat /\ n > 0 /\ stack \in Seq(Live(doc))
      /\ \A k \in 1..n : stack[k] \in Live(doc)
      /\ Live(doc) \subseteq Tasks /\ left[t] = {}
      /\ marks' = [marks EXCEPT ![t] = 2] /\ stack' = SubSeq(stack, 1, n - 1)
  BY EmptySeq, LenProperties, ElementOfSeq DEF Return, Top, CheckTypeOK, Live
<1>1. Live(doc)' = Live(doc) /\ \A k : Edges(k)' = Edges(k)
  BY <1>0 DEF Edges, Live
<1>2. /\ stack' \in Seq(Live(doc)) /\ Len(stack') = n - 1
      /\ \A k \in 1..(n - 1) : stack'[k] = stack[k]
  <2>. HIDE DEF n, t
  <2>1. \A k \in 1..(n - 1) : stack[k] \in Live(doc)
    BY <1>0
  <2>2. /\ SubSeq(stack, 1, n - 1) \in Seq(Live(doc))
        /\ Len(SubSeq(stack, 1, n - 1)) = IF 1 <= n - 1 THEN (n - 1) - 1 + 1 ELSE 0
        /\ \A k \in 1..((n - 1) - 1 + 1) : SubSeq(stack, 1, n - 1)[k] = stack[1 + k - 1]
    BY <1>0, <2>1, SubSeqProperties
  <2>3. (n - 1) - 1 + 1 = n - 1 /\ \A k \in 1..(n - 1) : 1 + k - 1 = k
    BY <1>0
  <2>4. Len(SubSeq(stack, 1, n - 1)) = n - 1
    BY <1>0, <2>2
  <2>. QED BY <1>0, <2>2, <2>3, <2>4
<1>3. t \in Live(doc) /\ t \in Tasks /\ marks[t] = 1
  BY <1>0 DEF StackIsPath
<1>4. \A k \in Tasks : marks'[k] = IF k = t THEN 2 ELSE marks[k]
  BY <1>0 DEF CheckTypeOK
<1>5. Done' = Done \cup {t} /\ t \notin Done
  BY <1>3, <1>4 DEF Done
<1>6. Edges(t) \subseteq Done
  <2>1. \A u \in Edges(t) : marks[u] = 2
    BY <1>0 DEF Followed
  <2>. QED BY <1>0, <2>1 DEF Done, Edges
<1>. HIDE DEF n, t
<1>7. CheckTypeOK'
  <2>1. marks' \in [Tasks -> 0..2]
    BY <1>0, <1>3 DEF CheckTypeOK
  <2>. QED BY <1>0, <1>1, <1>2, <2>1 DEF CheckTypeOK
<1>8. StackIsPath'
  <2>1. \A u \in Tasks : marks'[u] = 1 <=> \E k \in 1..(n - 1) : stack'[k] = u
    <3>1. \A u \in Tasks : marks[u] = 1 <=> \E k \in 1..n : stack[k] = u
      BY DEF StackIsPath, n
    <3>2. \A k \in 1..(n - 1) : stack[k] # t
      BY <1>0 DEF StackIsPath, n, t
    <3>3. \A k \in 1..n : k # n => k \in 1..(n - 1)
      BY <1>0
    <3>. QED BY <3>1, <3>2, <3>3, <1>0, <1>2, <1>4 DEF t
  <2>2. \A i, k \in 1..(n - 1) : stack'[i] = stack'[k] => i = k
    <3>1. \A i, k \in 1..n : stack[i] = stack[k] => i = k
      BY DEF StackIsPath, n
    <3>. QED BY <3>1, <1>0, <1>2
  <2>3. \A k \in 1..(n - 2) : stack'[k + 1] \in Edges(stack'[k])
    <3>1. \A k \in 1..(n - 1) : stack[k + 1] \in Edges(stack[k])
      BY DEF StackIsPath, n
    <3>. QED BY <3>1, <1>0, <1>2
  <2>4. (n - 1) - 1 = n - 2
    BY <1>0
  <2>. QED BY <1>1, <1>2, <2>1, <2>2, <2>3, <2>4 DEF StackIsPath
<1>9. Followed'
  <2>. SUFFICES ASSUME NEW k \in 1..(n - 1)
                PROVE  /\ left'[stack'[k]] \subseteq Edges(stack'[k])
                       /\ \A u \in Edges(stack'[k]) \ left'[stack'[k]] :
                            marks'[u] = 2 \/ (k < n - 1 /\ u = stack'[k + 1])
    BY <1>1, <1>2 DEF Followed
  <2>0. left'[stack'[k]] = left[stack[k]] /\ stack'[k] = stack[k] /\ (k < n - 1 => stack'[k + 1] = stack[k + 1])
    BY <1>0, <1>2
  <2>1. k \in 1..n
    BY <1>0
  <2>2. ASSUME NEW u \in Edges(stack[k]) \ left[stack[k]]
        PROVE  marks'[u] = 2 \/ (k < n - 1 /\ u = stack[k + 1])
    <3>1. u \in Tasks
      BY <1>0, <2>2 DEF Edges
    <3>2. marks[u] = 2 \/ (k < n /\ u = stack[k + 1])
      BY <1>0, <2>1, <2>2 DEF Followed, n
    <3>3. CASE k = n - 1
      BY <3>1, <3>2, <3>3, <1>0, <1>4 DEF t
    <3>4. CASE k # n - 1
      BY <3>1, <3>2, <3>4, <1>0, <1>4
    <3>. QED BY <3>3, <3>4
  <2>3. left[stack[k]] \subseteq Edges(stack[k])
    BY <1>0, <2>1 DEF Followed, n
  <2>. QED BY <2>0, <2>2, <2>3
<1>10. DoneIsAcyclic'
  <2>1. \A u \in Done' : Edges(u) \subseteq Done'
    BY <1>5, <1>6 DEF DoneIsAcyclic
  <2>2. ASSUME NEW S \in SUBSET (Done \cup {t}), S # {}, \A u \in S : doc[u].deps \cap S # {}
        PROVE  FALSE
    <3>1. S \subseteq Live(doc)
      BY <1>3 DEF DoneIsAcyclic
    <3>2. \A u \in S : \E v \in Edges(u) : v \in S
      BY <2>2, <3>1 DEF Edges
    <3>3. \A u \in S : \E v \in Edges(u) : v \in S \ {t}
      BY <3>2, <1>5, <1>6 DEF DoneIsAcyclic
    <3>4. S \ {t} \in SUBSET Done /\ S \ {t} # {}
      BY <2>2, <3>3
    <3>5. \A u \in S \ {t} : doc[u].deps \cap (S \ {t}) # {}
      BY <3>3 DEF Edges
    <3>. QED BY <3>4, <3>5 DEF DoneIsAcyclic
  <2>3. Done' \subseteq Live(doc)
    BY <1>3, <1>5 DEF DoneIsAcyclic
  <2>. QED BY <1>0, <1>1, <1>5, <2>1, <2>2, <2>3 DEF DoneIsAcyclic
<1>11. RootsRemain' /\ SearchIsAcyclic'
  BY <1>0, <1>1, <1>4 DEF RootsRemain, SearchIsAcyclic
<1>. QED BY <1>0, <1>7, <1>8, <1>9, <1>10, <1>11

\* The outer loop ends: every task is done.
LEMMA AcceptStep ==
  ASSUME CheckInv, Accept
  PROVE  CheckInv'
<1>. USE DEF CheckInv
<1>0. /\ verdict = "searching" /\ verdict' = "accepted" /\ stack = <<>> /\ roots = {}
      /\ UNCHANGED <<doc, roots, marks, stack, left>> /\ Len(stack) = 0
  BY EmptySeq DEF Accept
<1>1. Live(doc)' = Live(doc) /\ Done' = Done /\ \A k : Edges(k)' = Edges(k)
  BY <1>0 DEF Edges, Live, Done
<1>2. Live(doc) \subseteq Done
  <2>1. \A t \in Live(doc) : t \in Tasks /\ marks[t] \in 0..2 /\ marks[t] # 0 /\ marks[t] # 1
    BY <1>0 DEF RootsRemain, CheckTypeOK, StackIsPath, Live
  <2>. QED BY <2>1 DEF Done
<1>3. Acyclic(doc)
  BY <1>2 DEF DoneIsAcyclic, Acyclic
<1>4. CheckTypeOK'
  BY <1>0, <1>1 DEF CheckTypeOK, Outcomes
<1>5. StackIsPath' /\ Followed' /\ DoneIsAcyclic' /\ RootsRemain'
  BY <1>0, <1>1 DEF StackIsPath, Followed, DoneIsAcyclic, RootsRemain
<1>6. SearchIsAcyclic'
  BY <1>0, <1>3 DEF SearchIsAcyclic, Acyclic, Live
<1>. QED BY <1>0, <1>4, <1>5, <1>6

(* The search accepts exactly the documents without a cycle, for any tasks and
   edges, in whatever order it takes them.                                   *)
THEOREM SearchDecides == CheckInit /\ [][CheckNext]_checkVars => []SearchIsAcyclic
<1>1. CheckInv /\ [CheckNext]_checkVars => CheckInv'
  <2>. SUFFICES ASSUME CheckInv, [CheckNext]_checkVars PROVE CheckInv'
    OBVIOUS
  <2>1. CASE UNCHANGED checkVars
    <3>1. UNCHANGED <<doc, roots, marks, stack, left, verdict>>
      BY <2>1 DEF checkVars
    <3>2. Live(doc)' = Live(doc) /\ Done' = Done /\ (\A k : Edges(k)' = Edges(k)) /\ Acyclic(doc)' = Acyclic(doc)
      BY <3>1 DEF Edges, Live, Done, Acyclic
    <3>3. CheckTypeOK' /\ StackIsPath'
      BY <3>1, <3>2 DEF CheckInv, CheckTypeOK, StackIsPath
    <3>4. Followed' /\ RootsRemain' /\ DoneIsAcyclic' /\ SearchIsAcyclic'
      BY <3>1, <3>2 DEF CheckInv, Followed, RootsRemain, DoneIsAcyclic, SearchIsAcyclic
    <3>. QED BY <3>1, <3>2, <3>3, <3>4 DEF CheckInv
  <2>2. CASE CheckNext
    BY <2>2, OfferStep, VisitStep, ReturnStep, AcceptStep DEF CheckNext
  <2>. QED BY <2>1, <2>2
<1>. QED BY CheckStarts, <1>1, PTL DEF CheckInv
=============================================================================
