-------------------------------- MODULE Boxes --------------------------------
(***************************************************************************)
(* The life of a box on the host's side (src/run/boxed.rs) and the calls   *)
(* it makes through the gateway (src/gateway/proxy.rs): a run is           *)
(* provisioned, its identity token registered, its mounts composed, the    *)
(* box runs, ends, and is attested (src/work/dispatch.rs); the daemon may  *)
(* die or be stopped under it.                                             *)
(*                                                                         *)
(* What the policy, the vault and the budget answer a call is chosen       *)
(* freely here: Grants, Vault and Ledger say when.                         *)
(***************************************************************************)
EXTENDS Naturals, FiniteSets

CONSTANTS Runs,
          Chats,       \* those of a warm session (run_session); the others are tasks (run_box)
          Worker,      \* [Runs -> worker]
          Channel,     \* [Runs -> channel or NoChannel]
          NoChannel, NoRun, Nobody,
          Lines,       \* connections to the gateway
          HostMounts,  \* host-dir and host-repo connections
          MountKind,   \* [HostMounts -> {"dir", "rwdir", "repo", "gated"}]
          MountFor,    \* [HostMounts -> SUBSET workers]
          MaxAsks,     \* bound: requests in all
          MaxRestarts  \* bound: daemons killed or stopped

ASSUME BoxesAssumption ==
  /\ NoRun \notin Runs /\ Chats \subseteq Runs
  /\ \A r \in Runs : Worker[r] \notin {Nobody, "org"}
  /\ \A m \in HostMounts : MountKind[m] \in {"dir", "rwdir", "repo", "gated"}
  /\ MaxAsks \in Nat /\ MaxRestarts \in Nat

VARIABLES stage,      \* per run: how far the host's function for it is
          box,        \* the runs whose container is running
          identity,   \* the runs with a token file under state/identity
          mounted,    \* per run: what its box has mounted, [path, rw]
          line,       \* per connection: [step, by, auth, who, as, ws]
          tally,      \* per run: refusals, in the daemon's memory
          asks, restarts,
          stopping,   \* the daemon has had its signal and is about to stop
          denied,     \* history, per run: refusals recorded as decisions
          heard,      \* history, per run: refusals whose answer reached the box
          taken,      \* history, per run: the refusals attestation was given
          cut,        \* history: runs a daemon died or stopped under
          spilt,      \* history: runs whose provisioning failed with the token written
          spared      \* history: runs whose box a stopping daemon does not kill

boxVars == <<stage, box, identity, mounted, line, tally, asks, restarts, stopping,
             denied, heard, taken, cut, spilt, spared>>

Counters == <<tally, denied, heard, taken>>
Lives == <<stage, box, identity, mounted, cut, spilt, spared>>

Free == [step |-> "idle", by |-> NoRun, auth |-> "none", who |-> Nobody, as |-> NoRun,
         ws |-> FALSE]

BoxesInit ==
  /\ stage = [r \in Runs |-> "new"]
  /\ box = {} /\ identity = {} /\ cut = {} /\ spilt = {} /\ spared = {}
  /\ mounted = [r \in Runs |-> {}]
  /\ line = [c \in Lines |-> Free]
  /\ tally = [r \in Runs |-> 0] /\ denied = tally /\ heard = tally /\ taken = tally
  /\ asks = 0 /\ restarts = 0 /\ stopping = FALSE

-----------------------------------------------------------------------------
(* What a box has mounted *)

Ro(path) == [path |-> path, rw |-> FALSE]
Rw(path) == [path |-> path, rw |-> TRUE]

\* Its home and its worker's store; its worker's footprint, to read.
OwnMounts(r) ==
  {Rw(<<"home", r>>), Rw(<<"store", Worker[r]>>)}
  \cup {Ro(<<what, Worker[r]>>) : what \in {"config", "runs", "journal", "tasks"}}

\* A gated repository is never bound itself: a clone of the run's own, and the
\* canonical one to read.
HostMountsOf(r, granted, rw) ==
  UNION {CASE MountKind[m] = "dir"   -> {Ro(<<"host", m>>)}
           [] MountKind[m] = "rwdir" -> {Rw(<<"host", m>>)}
           [] MountKind[m] = "repo"  -> {Ro(<<"host", m>>)}
           [] MountKind[m] = "gated" -> {[path |-> <<"clone", r>>, rw |-> rw], Ro(<<"bare", m>>)} :
         m \in {x \in granted : Worker[r] \in MountFor[x]}}

\* Mutant: the channel's store is one for all its workers.
ChannelStoreShared(r) ==
  IF Channel[r] = NoChannel THEN {}
  ELSE {Ro(<<"channel", Channel[r]>>), Rw(<<"channel store", "org", Channel[r]>>)}

\* The active channel's record and the worker's store for it, and no other's.
ChannelMounts(r) ==
  IF Channel[r] = NoChannel THEN {}
  ELSE {Ro(<<"channel", Channel[r]>>), Rw(<<"channel store", Worker[r], Channel[r]>>)}

-----------------------------------------------------------------------------
(* The host's side of a run *)

Stage(r, from, to) == stage[r] \in from /\ stage' = [stage EXCEPT ![r] = to]

Elsewhere == <<line, asks, restarts, stopping>>

\* A daemon that is stopping claims no task any more; its listeners still listen.
StartRun(r) ==
  /\ stopping => r \in Chats
  /\ Stage(r, {"new"}, "provisioning")
  /\ UNCHANGED <<box, identity, mounted, cut, spilt, spared, Counters, Elsewhere>>

\* Configuration, network, image, CA, storage or model credential: nothing written yet.
ProvisionFails(r) ==
  /\ Stage(r, {"provisioning"}, "failed")
  /\ UNCHANGED <<box, identity, mounted, cut, spilt, spared, Counters, Elsewhere>>

\* The token is registered while the mounts are still to be made.
Mint(r) ==
  /\ Stage(r, {"provisioning"}, "minted")
  /\ identity' = identity \cup {r}
  /\ UNCHANGED <<box, mounted, cut, spilt, spared, Counters, Elsewhere>>

\* A directory of a mount cannot be made: nothing owns the token yet.
ComposeFails(r) ==
  /\ Stage(r, {"minted"}, "failed")
  /\ spilt' = spilt \cup {r}
  /\ UNCHANGED <<box, identity, mounted, cut, spared, Counters, Elsewhere>>

\* `granted` are the host mounts of the configuration at this moment.
Compose(r, granted, rw) ==
  /\ Stage(r, {"minted"}, "composed")
  /\ mounted' = [mounted EXCEPT ![r] = OwnMounts(r) \cup HostMountsOf(r, granted, rw) \cup ChannelMounts(r)]
  /\ UNCHANGED <<box, identity, cut, spilt, spared, Counters, Elsewhere>>

\* Mutant: nobody holds the token past the argument list.
SpawnUnheld(r) ==
  /\ Stage(r, {"composed"}, "up")
  /\ box' = box \cup {r} /\ identity' = identity \ {r}
  /\ UNCHANGED <<mounted, cut, spilt, spared, Counters, Elsewhere>>

Spawn(r) ==
  /\ Stage(r, {"composed"}, "up")
  /\ box' = box \cup {r}
  /\ spared' = IF stopping THEN spared \cup {r} ELSE spared
  /\ UNCHANGED <<identity, mounted, cut, spilt, Counters, Elsewhere>>

SpawnFails(r) ==
  /\ Stage(r, {"composed"}, "failed")
  /\ identity' = identity \ {r}
  /\ UNCHANGED <<box, mounted, cut, spilt, spared, Counters, Elsewhere>>

\* By itself, at its ceiling, or its session's end.
BoxEnds(r) ==
  /\ r \in box /\ box' = box \ {r}
  /\ UNCHANGED <<stage, identity, mounted, cut, spilt, spared, Counters, Elsewhere>>

\* `run_box`, `run_session` return: the token goes with the function.
Returns(r) ==
  /\ r \notin box /\ Stage(r, {"up"}, "done")
  /\ identity' = identity \ {r}
  /\ UNCHANGED <<box, mounted, cut, spilt, spared, Counters, Elsewhere>>

\* `finalize` of a task is given what the tally holds, once.
Attest(r) ==
  /\ r \notin Chats
  /\ Stage(r, {"done", "waited"}, "attested")
  /\ taken' = [taken EXCEPT ![r] = tally[r]] /\ tally' = [tally EXCEPT ![r] = 0]
  /\ UNCHANGED <<box, identity, mounted, cut, spilt, spared, denied, heard, Elsewhere>>

Busy == {"provisioning", "minted", "composed", "up", "done", "adopted", "waited"}

\* What the daemon held in memory is gone, connections included.
Forgotten ==
  /\ restarts < MaxRestarts /\ restarts' = restarts + 1
  /\ stopping' = FALSE
  /\ stage' = [r \in Runs |-> IF stage[r] \in Busy THEN "orphaned" ELSE stage[r]]
  /\ cut' = cut \cup {r \in Runs : stage[r] \in Busy}
  /\ line' = [c \in Lines |-> Free]
  /\ tally' = [r \in Runs |-> 0]
  /\ UNCHANGED <<box, mounted, asks, spilt, spared, denied, heard, taken>>

\* The daemon is killed: no destructor runs, its boxes live on.
DaemonDies == Forgotten /\ UNCHANGED identity

\* SIGTERM, Ctrl-C: only `run_box` listens for it, and kills its box.  A session's box
\* and one adopted from another daemon are left alone.
DaemonSignalled ==
  /\ ~ stopping /\ restarts < MaxRestarts
  /\ stopping' = TRUE
  /\ box' = box \ {r \in Runs \ Chats : stage[r] = "up"}
  /\ spared' = spared \cup {r \in Chats : stage[r] = "up"}
  /\ UNCHANGED <<stage, identity, mounted, cut, spilt, Counters, line, asks, restarts>>

\* Two seconds later the runtime drops what still runs, at an await: the token goes,
\* whatever became of the box.  There is no await between the token and the box.
DaemonStops ==
  /\ stopping /\ \A r \in Runs : stage[r] \notin {"minted", "composed"}
  /\ Forgotten
  /\ identity' = identity \ {r \in Runs : stage[r] = "up"}

\* `reclaim`: a task's box that is still there is waited for, any other run is given up.
Reclaim(r) ==
  /\ ~ stopping
  /\ Stage(r, {"orphaned"}, IF r \in box \ Chats THEN "adopted" ELSE "lost")
  /\ UNCHANGED <<box, identity, mounted, cut, spilt, spared, Counters, Elsewhere>>

AdoptReturns(r) ==
  /\ r \notin box /\ Stage(r, {"adopted"}, "waited")
  /\ UNCHANGED <<box, identity, mounted, cut, spilt, spared, Counters, Elsewhere>>

\* `confs` are the configurations there may be when mounts are composed.
Life(r, confs) ==
  \/ StartRun(r) \/ ProvisionFails(r) \/ Mint(r) \/ ComposeFails(r) \/ Spawn(r) \/ SpawnFails(r)
  \/ BoxEnds(r) \/ Returns(r) \/ Attest(r) \/ Reclaim(r) \/ AdoptReturns(r)
  \/ \E granted \in confs, rw \in BOOLEAN : Compose(r, granted, rw)

-----------------------------------------------------------------------------
(* A call through the gateway *)

\* `resolve_identity`: no proxy credential is a caller on the host.
resolve_identity(r, auth) ==
  CASE auth = "none" -> [who |-> "org", as |-> NoRun]
    [] auth = "token" /\ r \in identity -> [who |-> Worker[r], as |-> r]
    [] OTHER -> [who |-> Nobody, as |-> NoRun]

\* No rule applies to a subject that did not resolve.
Verdicts(who) == IF who = Nobody THEN {"deny"} ELSE {"allow", "deny", "tunnel"}

GatewayUp == \A r \in Runs : stage[r] # "orphaned"

\* CONNECT, or a plain-http request: the subject is the connection's from now on.
\* A tunnel is piped without another look.
Connect(c, r, auth, pipe) ==
  LET id == resolve_identity(r, auth) IN
  /\ GatewayUp /\ r \in box /\ line[c].step = "idle"
  /\ pipe => "tunnel" \in Verdicts(id.who)
  /\ line' = [line EXCEPT ![c] = [Free EXCEPT !.step = IF pipe THEN "piped" ELSE "open",
                                    !.by = r, !.auth = auth, !.who = id.who, !.as = id.as]]
  /\ UNCHANGED <<Lives, Counters, asks, restarts, stopping>>

To(c, step) == line' = [line EXCEPT ![c].step = step]

\* The refusals count for the run the connection is attributed to.
Plus(f, c) == IF line[c].as = NoRun THEN f ELSE [f EXCEPT ![line[c].as] = @ + 1]

Refuse(c) == To(c, "refused") /\ denied' = Plus(denied, c)

\* A request arrives and is judged; what goes on waits for its credential.  A tunnel
\* verdict comes too late here and is a refusal, and so is a JSON-RPC batch.
Judged(c, ws, verdict) ==
  /\ line[c].step = "open" /\ asks < MaxAsks
  /\ verdict \in Verdicts(line[c].who)
  /\ asks' = asks + 1
  /\ line' = [line EXCEPT ![c].ws = ws,
                          ![c].step = IF verdict = "allow" THEN "credential" ELSE "refused"]
  /\ denied' = IF verdict = "allow" THEN denied ELSE Plus(denied, c)
  /\ UNCHANGED <<Lives, tally, heard, taken, restarts, stopping>>

JudgedBatch(c) ==
  /\ line[c].step = "open" /\ asks < MaxAsks
  /\ asks' = asks + 1 /\ Refuse(c)
  /\ UNCHANGED <<Lives, tally, heard, taken, restarts, stopping>>

\* The credential is fresh, or the call is an outage.
Inject(c) ==
  /\ line[c].step = "credential"
  /\ \/ To(c, "budget") /\ UNCHANGED denied
     \/ Refuse(c)
  /\ UNCHANGED <<Lives, tally, heard, taken, asks, restarts, stopping>>

\* `reserve`: a used-up window refuses; else the decision is recorded and the call sent.
Settle(c) ==
  /\ line[c].step = "budget"
  /\ \/ To(c, "sent") /\ UNCHANGED denied
     \/ Refuse(c)
  /\ UNCHANGED <<Lives, tally, heard, taken, asks, restarts, stopping>>

\* Mutant: a refused WebSocket handshake is not counted.
NotedUnlessWs(c) == IF line[c].ws THEN tally ELSE Plus(tally, c)

Noted(c) == Plus(tally, c)

\* `handle` notes the refusal before it answers.
note_refusal(c) ==
  /\ line[c].step = "refused" /\ To(c, "noted")
  /\ tally' = Noted(c)
  /\ UNCHANGED <<Lives, denied, heard, taken, asks, restarts, stopping>>

\* The answer reaches the box, refused or from upstream.
Answer(c) ==
  /\ line[c].step \in {"noted", "sent"} /\ line[c].by \in box
  /\ line' = [line EXCEPT ![c].step = "open", ![c].ws = FALSE]
  /\ heard' = IF line[c].step = "noted" THEN Plus(heard, c) ELSE heard
  /\ UNCHANGED <<Lives, tally, denied, taken, asks, restarts, stopping>>

\* A connection ends: the box closes it, or is gone; what was under way is dropped
\* where it waits, and a refusal that is being noted is noted.
HangUp(c) ==
  /\ line[c].step \notin {"idle", "refused", "budget"}
  /\ line' = [line EXCEPT ![c] = Free]
  /\ UNCHANGED <<Lives, Counters, asks, restarts, stopping>>

Call(c) ==
  \/ \E r \in Runs, auth \in {"token", "none", "junk"}, pipe \in BOOLEAN : Connect(c, r, auth, pipe)
  \/ \E ws \in BOOLEAN, verdict \in {"allow", "deny", "tunnel"} : Judged(c, ws, verdict)
  \/ JudgedBatch(c) \/ Inject(c) \/ Settle(c) \/ note_refusal(c) \/ Answer(c) \/ HangUp(c)

BoxesNext ==
  \/ \E r \in Runs : Life(r, SUBSET HostMounts)
  \/ \E c \in Lines : Call(c)
  \/ DaemonDies \/ DaemonSignalled \/ DaemonStops

BoxesSpec == BoxesInit /\ [][BoxesNext]_boxVars

-----------------------------------------------------------------------------
(* Properties *)

\* A box is its worker for as long as it runs, through the death of a daemon too: no
\* call it makes with its token falls to the subject nothing is granted to, unless a
\* daemon that was stopped let go of a box it does not kill, a session's or one spawned
\* after the signal (boxed.rs:358 is in run_box alone); then it is nobody's.  And the
\* token goes with the run (boxed.rs:700), unless a daemon died under it or its
\* provisioning failed half-way.
IdentityFollowsTheBox ==
  /\ \A c \in Lines : line[c].auth = "token" =>
       \/ line[c].who = Worker[line[c].by] /\ line[c].as = line[c].by
       \/ line[c].who = Nobody /\ line[c].by \in spared \cap cut
  /\ \A r \in identity : stage[r] \in {"minted", "composed", "up"} \/ r \in cut \cup spilt

\* What a run is attested with is every refusal its box was answered, and nothing but
\* its own, unless a daemon died or stopped under it (dispatch.rs:250, "ended silently
\* after refused gateway calls is failure").
RefusalsAreEvidence ==
  \A r \in Runs : stage[r] = "attested" /\ r \notin cut => taken[r] \in heard[r]..denied[r]

\* What a box can write, no box of another worker sees, a channel they share included,
\* but for a host directory both are granted (boxed.rs:920, "the channel STORE is the
\* (worker x channel) durable space").
Holds(path, other) ==
  \/ path = other
  \/ /\ path[1] = "runs" /\ other[1] \in {"home", "clone"}
     /\ path[2] = Worker[other[2]]

WritesStayHome ==
  \A a, b \in box : \A x \in mounted[a], y \in mounted[b] :
    x.rw /\ Holds(y.path, x.path) /\ Worker[a] # Worker[b] => x.path[1] = "host"
=============================================================================
