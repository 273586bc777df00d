# impyard: models and proofs

TLA+ models of impyard (`src/`, the `roster` binary), their TLC configurations, and TLAPS
proofs. Every definition is translated from the Rust source; `PROJECT.json` names the lines each
one stands for. Line numbers below are relative to `src/src/`, docs to `src/docs/`.

impyard runs AI *workers*. A daemon dispatches each worker's tasks into Docker *boxes*, a gateway
proxy in the daemon judges, meters and forwards every call a box makes, an approval desk holds
actions that need a human, and chat listeners turn conversations into warm sessions. All durable
state is files; there is no database. Daemon, CLI commands and boxes are separate processes.

## 1. Inventory

For each component: its state; its operations; what is hard; what makes it correct.

### Work

**Approval desk** (`action/gate.rs`, `action/mod.rs`). One JSON file per gate, in
`gates/pending` or `gates/resolved`; the flock `gates`. Operations: `submit`, `execute_gate`
(claim under the lock, run the executor without it, record under it again), `deny_gate`, `save`
(write the new copy, then remove the stale one), `resolve_followup`. Approvers are the daemon and
any number of CLI processes, each of which may die anywhere. Correct when an action happens at
most once, the files tell the truth about it, denials are final, and no command hangs.

**Task management** (`work/tms.rs`). Per worker `tasks.json` (the live tasks and the recurring
templates, with a version), `journal.jsonl`, a rendered view for the agent, and one cursor file.
Operations: `add`, `set_tasks` (the agent replaces the document, by version), `due`, `claim`,
`finish_with`, `requeue`, `run_recurrence`. All are read-modify-writes under the worker's lock,
but the agent's base version, the loop's due list and the record `requeue` found are used after
that lock is gone; journal and document, cursors and document are two writes each. Correct when a
task waits for what it was made to wait for, no task is lost, no write of another is undone,
standing is not smuggled in, and a schedule fires once for each time that it comes round.

**Dispatch loop** (`work/dispatch.rs`) **and box runner** (`run/boxed.rs`, `run/runlog.rs`). The
JoinSet of runs under way, `in_flight`, the containers, `outcome.json`, the identity tokens under
`state/identity`, the mounts. Operations: reclaim at boot (adopt or requeue), claim, provision,
start, wait or time out, `finalize`, attest. The loop decides from what docker, the gates and the
report said some steps before it writes. Correct when completion is host-attested, each claimed
task is tracked and eventually attested, boxes stay within the cap and a task has one; when a box
is its worker for the gateway for as long as it runs, and writes only what is its own.

**State-file primitives** (`statefile.rs`): flock, atomic write. Modelled where they are used.

### The gateway

**Proxy and judge** (`gateway/proxy.rs`, `gateway/judge.rs`). Per connection the identity it
authenticated as; per run a tally of refusals, in memory; the audit log. Operations: CONNECT,
plain requests, WebSocket handshakes, batches, injection of credentials, budget, answer, hang-up.
Correct when what a run is attested with is what its box was refused.

**Configuration** (`config.rs`) **and connection commands** (`cli/connections.rs`,
`cli/channel.rs`). One TOML file per connection with its grants, in a legacy form and a table form
that coexist; bindings of channels; a compiled configuration, cached under a fingerprint of the
files. Operations: connect, grant, revoke, rm, bind and unbind, each an unlocked read-modify-write
of its own process; `snapshot`, `load`. Correct when all readers of a file (gateway, listener,
box environment, briefing) understand the same by it, an edit touches the edge it names, and a
request is judged by nothing older than itself.

**Vault** (`credential/vault.rs`, `credential/connect.rs`). One JSON file per credential.
`get_fresh_credential` refreshes an OAuth login in a lane per name; login and removal by the CLI
know nothing of the lane. Correct when no refresh token is spent twice.

**Budget ledger** (`gateway/ledger.rs`, `gateway/budget.rs`). In-memory counters per limit and
window, `usage.jsonl`. Operations: meter, reserve, record, forward, rehydrate. Correct when no cap
is overrun by more than the call that crosses it, over concurrency, several scopes, windows and
restarts.

### Channels

**Discord listener** (`channel/discord.rs`). Per-channel replay cursor (a file), resume state
(memory), history `messages.jsonl`, the map of live sessions. Operations: connect, resume,
`MESSAGE_CREATE`, `catch_up`, `handle_message`, `route_to_session`. Live events, REST catch-up and
several several connections handle the same messages, each step by step beside the others. Correct when
nothing said is lost or handled twice and answers come in order.

**Slack listener** (`channel/slack.rs`). As above without resume: envelopes are acknowledged and
deduplicated in memory, a hello starts a catch-up over `conversations.history`. Correct when each
post is handled, and the live path handles it once.

**Listener lock** (`channel/listen.rs`). A pid file per worker and platform, taken over when its
owner is dead. Correct when one process listens.

**Links and settings** (`channel/links.rs`, settings in `channel/discord.rs`, `cli/channel.rs`).
A registry of linked surfaces, settings per channel, the histories. `link` writes the registry,
merges the histories surface by surface and absorbs settings, beside a listener that goes on
filing. Correct when a surface's history goes where it goes, complete, in order and unshared.

**Warm sessions** (`run_session` in `run/boxed.rs`, the session maps of both listeners). An mpsc
queue and a pending list, an idle window, a turn and a session ceiling. Correct when messages get
their turns in order, and each gets one or is reported lost.

### The worker

**Context compiler and recall** (`worker/context.rs`, `worker/memory.rs`). No state of its own; it
reads identity, charter, purpose, tools, notes, gates, parked work and history, and writes a trace.
Correct when what must be cut is the least important, the cacheable prefix is stable, and a
session reads each message once.

**Knowledge repos** (`worker/knowledge.rs`). A bare repository per repo, a clone per run, quarantine
refs, `run.json`. Operations: provision, push (validate, lane, compare-and-swap, journal),
backstop. Correct when main only advances, to what passed validation, and unlanded work is parked.

**Store** (`worker/store.rs`). The worker's store and channel stores, snapshots, the flock the
boxes share. Operations: snapshot, prune, restore. Correct when a snapshot is a state there was and
a restore can be undone.

How they interact: listeners and CLI file tasks; the loop turns them into boxes; a box is given a
context, clones and mounts; its calls go through the proxy, which consults the configuration, the
vault and the ledger and files gates at the desk; the desk's outcome goes back to the task
(`resolve_followup`) or into a repository; the agent curates its own tasks.

The hazards this code is exposed to are listed in `PROJECT.json` under `hazards`, each at the line
where it bites and with the properties that would catch it; every component, with what of it is
modelled, is under `components`.

## 2. The modules

| Module | Models | Used by |
|---|---|---|
| `GateLifecycle` | what the desk promises about one gate: its states and its side effect | refined by `Gate` |
| `Gate` | the desk: files, lock, processes, crashes | run `Gate` |
| `Partition` | the documents of the TMS: what each operation makes of them (no state) | `Tms`, `AcyclicCheck` |
| `Tms` | one partition and journal under all their writers | `MCTms` |
| `TaskLifecycle` | the task states of `docs/work.md` | refined by `Dispatch` |
| `Dispatch` | loop, boxes, desk follow-up, requeue | `MCDispatch` |
| `Grants` | what a connection file means to each of its readers (no state) | `Connections` |
| `Connections` | the files, the commands that write them, the cached configuration | `Gateway` |
| `Vault` | refresh of one login against reconnect, removal, restart | `Gateway` |
| `Ledger` | meter, reserve, record, forward, rehydrate | `Gateway` |
| `Boxes` | provisioning, identity, mounts, calls, hang-ups, adoption | `Gateway` |
| `Replay` | Discord listener: connection, cursor, catch-up | `Conversation` |
| `WarmSession` | session map and the loop of a session | `Conversation` |
| `Conversation` | `handle_message` of every task: `Replay` and `WarmSession` composed | `Channels` |
| `Slack` | Socket Mode, acknowledgement, deduplication, catch-up | `Channels` |
| `Links` | registry, merge of histories, settings, beside the listener | `Channels` |
| `Listen` | the listener lock | `Channels` |
| `Knowledge` | clone, push, lane, swap, backstop, quarantine | `WorkerStorage` |
| `Store` | snapshot, prune, restore | `WorkerStorage` |
| `AcyclicCheck` | the depth-first cycle check, step by step | `RunInputs` |
| `Recurrence` | templates, cursors and their children | `RunInputs` |
| `Context` | the context of task runs and sessions | `RunInputs` |

`Gateway`, `Channels`, `WorkerStorage` and `RunInputs` put components of one process side by
side. The members of a group share no file, so their interleavings show nothing that each alone
does not; a variable picks, once, which of them a behaviour is about. What components share *is*
composed: `Conversation` joins listener and sessions through `handle_message`, `Dispatch` joins
loop, boxes, desk and requeue, `Connections` the commands, the cache and the gateway's reads.
The `MC*` modules hold the constants of the instances. The proofs (section 4):

| Module | Proves about |
|---|---|
| `GateProofs` | `Gate`, and that it implements `GateLifecycle` |
| `TmsProofs` | `Tms` and the operators of `Partition` |
| `DispatchProofs` | `Dispatch`, and that it implements `TaskLifecycle` |
| `RunProofs` | `Boxes`, `Recurrence`, `AcyclicCheck` |
| `ChannelProofs` | `Conversation`: `Replay`, `WarmSession` and the step that joins them |
| `ListenProofs` | `Listen`, `Slack`, `Links` |
| `ProvisionProofs` | `Vault`, `Connections` with `Grants`, `Ledger`, `Context` |
| `WorkerStorageProofs` | `Knowledge`, `Store` |

**Gate.** A step is what lies between two points where another process can look at the disk or a
crash leaves another one, so `save` is two (`Write`, `DropStale`). `pc` walks `execute_gate`:
`Approve` (lock, checks, the approved copy), `Claim` and `Unstale` (the executing copy, unlock),
`ExecutorOk`/`ExecutorErr` without the lock, `Record` and `Settle`. `Deny` is `deny_gate`. `sent`
counts the side effect and is no state of the program. `Crash` may hit any step; a failing save
ends a command the same way.

**Partition, Tms.** The partition is a function from ids to records of the scheduler's fields.
`Curate` is `set_tasks` with the agent's stale `base`; `Due` and `Claim` are separate, as in the
loop; `RequeueFind` and `RequeueAct` are the two halves of `requeue`. `FinishCutShort` and
`CurateCutShort` are the crash between journal and save. `granted`, `waits` and `done` are history.
An operation's effect is one operator of `Partition` (`Added`, `Stamped`, `Acceptable`,
`Claimed`, `Finished`, `Refiled`, ...).

**AcyclicCheck.** One call of `visit`, or the return from one, is a step (`VisitRoot`, `VisitDep`,
`Return`); `stack` is the calls that have not returned, `left` the edges each has still to follow.
The order of the document and of `depends_on` is left open. What the search decides is compared
with `Acyclic` of `Partition`, which says what a cycle is and not how to find one.

**Recurrence.** `DueTick` is `run_recurrence` up to `save_cursors`, `SaveTick` the save of the
partition, `LoseTick` its loss. Minutes are the clock's unit, as `cron_due` scans minutes; a cron
schedule is a period, and the 25-hour horizon is the constant `Horizon`. The heartbeat is one of
the templates (`Put`).

**Dispatch.** Every read and every write of `finalize`, `resolve_followup`, `requeue` and
`reclaim` is a step. A box goes from `starting` over `alive` to an exit of 0 (`ok`), another exit
(`bad`), its `ceiling`, or never comes up (`error`); `docker ps` sees only `alive`. `Verdict` is
the decision of `finalize` in its order: host failure, open gates, a blocked no-op, the report.

**Boxes.** `Life` is the host's function for a run, from `StartRun` over `Mint` (the token file),
`Compose` (the mounts, from the worker's directories, the granted host directories and the channel
served) and `Spawn` to `Returns`, which removes the token, and `Attest`, which takes the tally.
`Call` is a connection of a box: `Connect` with its proxy credential, `Judged` or `JudgedBatch`,
`Inject`, `Settle` (the budget), `note_refusal`, `Answer`, `HangUp`. What judge, vault and budget
answer is chosen freely here; `Grants`, `Vault` and `Ledger` say when. `Chats` are the runs that
are sessions, the others are task runs. `DaemonDies` leaves boxes for `Reclaim`. The orderly
shutdown is two steps: at `DaemonSignalled` `run_box` kills its box and `run_session` and `adopt`
do not; until `DaemonStops`, two seconds later, listeners still start sessions, and then every
function that still runs is dropped, with its token. `spared` notes whose box is left.

**Grants, Connections.** A file is its grants: `[grant.*]` tables, or the legacy keys `workers`,
`scope` and `[restrict]`. `Rules` compiles them, in file order and each edge's own order, into the
allow and deny rules that `judge` walks; `allows_surface` is the listener's reading, `BoxEnv` the
box's, `Told` the briefing's. A call to Discord names a channel and is either on a path that begins
as the compiled rules do (`/api/v10/channels/<id>`) or on another one (`spelt`); `Listed` matches
ids by prefix, as the allow rules do. A command is a read (`Grant`, `Revoke`, `Add`, ...) and one or two
writes. A request stats and reads the parts of the configuration one by one (`Stat`, `Read`), and
takes the cached compilation when the fingerprint is the same. `stamp` is the mtime; `since` is
history: every content a part has had since the request began.

**Vault.** A login is a number that stands for an access and a refresh token; the provider rotates
and refuses what is spent. `GetFresh` reads, `EnterLaneOf` takes the lane and reads again, `Ask`
and `Persist` are the provider's answer and the write.

**Ledger.** What a call draws from each limit is a constant; scope and currency are in it.
`Meter` reads the clock and `Reserve` is one hold of the mutex. `Forward` appends to `usage.jsonl`
and forwards; a crash between `Reserve` and it may have written the record or not (`Restart`).

**Replay, WarmSession, Conversation.** Messages are numbers in the order they are said. The read
loop and any number of catch-ups (`Ready` spawns one) are tasks that run side by side. `ReadEvent`
and `Advance` write the cursor and begin `handle_message` (`TakeUp`); `File` appends to the history,
`Deliver` looks for the session once the downloads are done, `Open` puts a new one in its place
under a second hold of the map's lock; `Done` goes on to the next event or message. A session
boots, feeds its queue turn by turn, winds down or fails, and `Returns`. In a channel of mode "all"
every message wakes the worker, in one of mode "mention" none does. `crossed` is history: a
catch-up met a connection, that is, another catch-up or a live event while it ran, or it fetched or
baselined what the connection is still to deliver. `crowded` notes that a queue was found full,
`missed` what a crash or a failed page cut short, and each line of the history knows who filed it.

**Slack.** One channel. `ReadEnvelope` acknowledges (Slack may not hear it), drops what
`already_seen` knows and writes the cursor; `HandleEvent` handles. A catch-up takes the cursor,
fetches pages from the newest, and replays from the oldest. `excused` is what a failed page, the
page limit or a crash left behind, `forgotten` what the bounded id queue has dropped.

**Links.** The registry maps a name to the set of its members; their order decides nothing.
`LinkLoad`, `LinkSave`, then per surface `MergeRead`, `MergeWrite`, `MergeRename`, then
`Absorb`; `UnlinkLoad`, `UnlinkSave`; `Persist` is the listener filing a message. Trust and mode
resolve their id twice, as the code does. `torn` is what was filed under a merge or lost its
command half-way.

**Listen.** `Create` and `WriteRecord` are two steps, since `create_new` and the write are; a lock
that is empty or names a dead process is `RemoveStale`. `raced` notes that two acquisitions
overlapped.

**Knowledge.** A commit is its ancestors and its tree. `Validate` is `push_inner` up to the lane,
`EnterLane` reads main again, `Swap` is `update-ref` with the old value, `Journal` and `Answer`
record. `Compare`, `Park`, `ParkFails` and `Note` are the backstop. `DeskPush` is the approved
push of a CLI process.

**Store.** A pass copies the store, then the channels, lists and prunes, under the flock; a restore
picks a snapshot *before* it has the lock, snapshots what is there (`Undo`) and copies back.

**Context.** A text is its length. `compile` is blocks in order, and limits; `Prompt` is what a
start's system prompt is made of, with its cache plan; `build_briefing` is the two loops that shrink
the advisory tail. A session's first turn quotes the history it was started with, the snapshot that
`handle_message` took. That is a step per place where it awaits or lets go of a lock, for the read
loop and for each catch-up: `TakeUp` (the snapshot), `PersistMessage`, `Route`, `StartSession`.
`SessionTurn` quotes in the first turn only (`Turned`), and a turn that does not compile, or whose
trace cannot be written, drops its message (`Missed`). `beside` is history: what other tasks had in
hand, of the same room, while a message was.

### Named deviations

Four constants switch off a behaviour of the code under which a checked property is false. They
keep the property checkable for everything else, and turning one on reproduces the divergence.

| Constant | Excludes | Otherwise |
|---|---|---|
| `Ledger.Straddle = FALSE` | a window's end between a call's metering and its reserve | `BudgetHolds` fails |
| `Dispatch.LateStart = FALSE` | a container that comes up after a crash, unseen by `docker ps` at reclaim | `OneBoxPerTask` fails with a crash |
| `WarmSession.LateSend = FALSE` | a message to a session that is winding down cleanly, or as its idle timer fires | `EveryMessageIsAnswered` fails |
| `Slack.CursorFirst = TRUE` | an event read before its hello's catch-up has the cursor | `SlackHandlesEach` fails |

Some properties except, through a history variable, what the code does not promise: `~crossed` in
`NothingLost` and `InOrder`, `~crowded` in `InOrder`, `cut` in `RefusalsDecide` and
`RefusalsAreEvidence`, `spared` in `IdentityFollowsTheBox`, `beside` in `NobodyIsQuotedTwice`. The
behaviours excepted are in the model and in the run, and section 5 says what happens in them.

Six definitions state what a doc or comment says, are false of the code, and are in no run:
`Tms.DocAcyclic`, `Links.StaysWithTheRest`, `Links.StartsOver`, `Listen.AlwaysOneListener`,
`Slack.AnsweredOnce` and `Knowledge.EveryEndIsParked`; section 5 says what happens. Four more have
a configuration that is not among the runs: `OwnEdge.cfg` (`Connections.OwnEdgeWins`) and
`Confined.cfg` (`Connections.ChannelsAreConfined`), both of `MCGateway`; `ContextAmbient.cfg`
(`Context.ConversationHoldsTheRest`) and `QuotesRace.cfg` (`Context.QuotesHaveNoRace`), both of
`MCRunInputs`.

## 3. The runs

Deadlock checking is off where the bounds let the model stop: no run has a system that must go on
for ever. Symmetry is used only in runs without liveness properties.

| Run | Instance | Shows |
|---|---|---|
| `Gate` | 2 gates, 3 desk processes, 3 approvals, a crash before and after every file operation | `SentAtMostOnce`, `RecordIsTruthful`, `DenialIsFinal`, `CommandsEnd`, the refinement of `GateLifecycle` (`ImplementsLifecycle`) |
| `Tms` | 2 tasks, times 0 and 1, 4 writes of the document, 1 requeue, 1 crash; the agent may write any edges, either standing, forged states | `DependenciesHonoured`, `OwnerIsGranted`, `OnlyRefilingMakesCycles`, `NoTaskIsLost` |
| `Dispatch` | 2 tasks, 1 slot, 3 runs, 1 gate, 1 crash, no requeue | `CompletionIsEarned`, `RefusalsDecide`, `SlotsAreTracked`, the refinement of `TaskLifecycle` (`FollowsLifecycle`) |
| `DispatchRequeue` | 1 task, 2 gates, 2 slots, 3 runs, 2 requeues, no crash, containers that come up late | `OneBoxPerTask` |
| `DispatchLive` | 2 tasks, 1 slot, 2 runs, no crash, under fairness | `ClaimedIsAttested`, `PendingGetsItsTurn` |
| `Channels` | Discord: 2 messages, pages of 2, 1 fault (a lost connection, a failed page or a restart), the read loop and a catch-up with 2 sessions, or the read loop and 2 catch-ups in a channel that wakes nobody. Slack: 3 posts, pages of 1, 2 pages, 2 troubles, an id queue of 2. Links: a DM, a terminal, a room and one name, 2 messages, 3 commands, 1 kill. Lock: 3 servers, 3 acquisitions | `NothingLost`, `InOrder`, `EveryMessageIsAnswered`; `SlackHandlesEach`; `HistoryFollowsTheConversation`; `OneListener` |
| `Gateway` | 2 workers, 5 connections, 1 command, 2 requests; 2 refreshing calls, 4 logins, 1 fault; 4 calls of different cost, a fleet limit over 2 ticks and a worker's over 4, 1 restart; a task run and a session in one channel, 4 host directories, 1 line, 2 calls, 1 daemon that dies or stops | `GrantsReadTheSame`, `DecisionsAreCurrent`, `EditsTouchOneEdge`; `TokensSpentOnce`; `BudgetHolds`; `IdentityFollowsTheBox`, `RefusalsAreEvidence`, `WritesStayHome` |
| `WorkerStorage` | 2 runs, a clean-room repo of 2 files, one of them barred, 3 commits, no free deletions, 1 crash; a store of 3 items with 1 snapshot kept, 2 passes, 1 restore, 1 death | `MainIsTrusted`, `MainOnlyAdvances`, `NothingLostSilently`; `SnapshotsAreStates`, `RestoreIsUndoable` |
| `RunInputs` | all graphs over 3 ids, any of them missing; a skipping cron template and an interval in a window, 5 minutes, horizon 3, 1 lost write; contexts of 4 errands and 2 sessions in 2 rooms, with 2 messages, 2 edits and 1 fault, or with 3 messages, the read loop and a catch-up, and no edits | `SearchIsAcyclic`; `ScheduleIsKept`; `BriefingIsLongest`, `PrefixIsStable`, `NobodyIsQuotedTwice` |
| `TmsRequeue`, `DispatchReview`, `ConversationOverlap` | as small as shows it | a counterexample each, section 5 |

Why the bounds are enough. Two approvers are needed for every race at the desk and a third lets
one retry after another's failure; two gates show that they do not disturb each other. Two tasks
make every edge, self-edge and 2-cycle, three make the shapes of the search. Three runs are one
crash more than two boxes that overlap. Two commands' writes and two requests around them are every
interleaving of one edit with a stale fingerprint; the five connections are one of each shape: both
grant forms, a channel binding, an environment, a mount, a model, and two that share a host. Two
refreshing calls make one that waits in the lane while the other asks, and four logins leave room
for a reconnect between them. Four budgeted calls are two that fit and two that race at the cap,
with two windows of different length so that one ends inside the other. Two boxes in one channel
share its mounts and line, which is where identity could be mixed up. Two Discord
messages on pages of two are a full page and what follows it, and one that is handled by two tasks
while another passes; three in the contexts are one to quote, one that starts the session and one
that comes between. Two sessions are a session and the one that replaces it. Three surfaces are two to link and one that must not be touched. Three servers are
two that find a lock and one that makes it. Two runs and three commits make a push that is
validated, overtaken and refused, and a commit on top of parked work. What the bounds leave out:
longer chains of failures (two crashes, three requeues), and backlogs over three full pages, which
the code gives up on.

**Fairness.** `Gate`: each command that has begun takes its next step (a process runs on, an
executor returns or times out, `flock` is granted); dying is always allowed. `Dispatch`: the
daemon is started again and polls, docker starts or fails what it was asked to, and the ceiling
timer fires; a box is *not* assumed to end by itself, nor anyone to approve. Weak fairness of
`Claim` per task is what the loop's walk over the due list justifies, once in-flight boxes end.
`Channels` (as `Conversation`): a download ends and its message is routed, a box comes up or
fails, the session loop runs, a turn is cut at its ceiling, and `docker kill` returns. The code sets
no limit to a download (`channel/discord.rs:1498`): one that hangs holds its task, and no message
after it is handled. One of these steps is taken as long as any can be, which is less than what
running tasks give and enough with so few messages. People, boxes that die and lost connections are free.
All other runs check safety only.

**Mutants.** Each property of a passing run has a mutant in `PROJECT.json`: a plausible bug (a
dropped guard, a swapped order, an off-by-one), written beside the definition it replaces and
marked `Mutant:`, under which TLC finds the property violated.

## 4. What is proved

Every theorem holds for any sets of tasks, runs, processes, calls, connections, workers and files
and for any value of the bounds. Each property is also checked by a run on its instance, and every
safety invariant and action property of a passing run has its theorem. The assumptions are those
on the constants, named in each module. Where a property is false of the code in general, the
theorem has a hypothesis that says when it is true, about the model's own bounds, switches or
names, or the property excepts what a history variable has noted; each was seen to be needed: TLC
finds the property violated without it, as section 5 reports.

The induction theorems of the library take an operator as a parameter and cannot be used, so
where a proof needs induction over a number, a list or a finite set it takes a smallest
counterexample (`WFMin` on the naturals) and contradicts it.

**`GateProofs`**, from `GateAssumption` (`None` is no process and no gate):

- `TypeCorrect`: `Spec => []TypeOK`;
- `EffectAtMostOnce`: `Spec => []SentAtMostOnce`;
- `RecordsAreTrue`: `Spec => []RecordIsTruthful`;
- `DenialsAreFinal`: `Spec => []DenialIsFinal`;
- `DeskImplementsLifecycle`: `Spec => ImplementsLifecycle`, the refinement of `GateLifecycle`
  under `state <- Load`, that is, the resolved copy where there is one and else the pending copy.

The lock alone proves none of this, since the executor runs without it. The inductive invariant
`IInv` says what takes its place. `LockOK`: the lock is held exactly by those in a locked step.
`TargetOK`: a command under way names a gate. `StageOK`: what each step may rely on finding on
disk; from the claim until the outcome is recorded it is the executing copy, which `MayExecute`
and `MayDeny` refuse. `Exclusive`: at most one command per gate is between its claim and its
record. `EffectOK`: how far the side effect is, seen from the command that performs it. With
`TypeOK` and the two safety properties themselves these are preserved by every action, one lemma
per action (`SubmitStep` to `CrashStep`) with one step per conjunct; `NextIInv` collects them.
`DenialIsFinal` follows from it without being part of it. `StepImplements` maps each action to a
step of `GateLifecycle` or to a stutter: a crash in an executor leaves `executing` for good.

**`TmsProofs`**, from `TmsAssumption` and `PartitionAssumption` (times and bounds are numbers):

- `DependenciesAreHonoured`: `Spec => []DependenciesHonoured`;
- `OwnersAreGranted`: `Spec => []OwnerIsGranted`;
- `CyclesComeFromRefiling`: `Spec => []OnlyRefilingMakesCycles`;
- `TasksAreNotLost`: `Spec => NoTaskIsLost`, an action property.

The agent's write replaces the whole document, so everything hangs on `ViewIsCurrent`: a view
whose version is current shows the document as it is. With it a curation touches only what the
agent edited. `EdgesRemain`: a live task still has every edge it was given, but for those whose
target completed. `Provenance`: an owner standing was granted wherever a record of it is kept, in
the document, in the journal, or in the hands of a requeue that has read the journal and not yet
written. `NotRefiled`: the document is acyclic until a journaled task is re-filed. The lemmas on
`Partition` (`AcyclicShrinks` and those after it) say what each operation does to edges and
standings.

**`DispatchProofs`**, from `DispatchAssumption` (a gate is one task's, `None` is nothing's name,
there is a slot):

| Theorem | Proves | Provided that |
|---|---|---|
| `CompletionHasEvidence` | `Spec => []CompletedHasEvidence` | |
| `ClaimsAreTracked` | `Spec => []ClaimedIsTracked` | |
| `SlotsTracked` | `Spec => []SlotsAreTracked` | `Tame` |
| `BoxesAreSingle` | `Spec => []OneBoxPerTask` | `Tame` |
| `CompletionsAreEarned` | `Spec => []CompletionIsEarned` | `Orderly` |
| `RefusalsAreDecisive` | `Spec => []RefusalsDecide` | |
| `DispatchFollowsLifecycle` | `Spec => FollowsLifecycle`, the refinement of `TaskLifecycle` | `NoRequeue` |

`NoCrash` is `MaxCrashes = 0`, `NoRequeue` is `MaxRequeues = 0`, `Orderly` adds to `NoRequeue` that
no container comes up behind a restarted daemon's back (`LateStart = FALSE`, or no crash), and
`Tame` is `NoCrash \/ Orderly`. Section 5, items 1, 2 and 5 are what they rule out. `IInv` has
four layers. `Books` (unconditional): the documents, the daemon's memory and docker name only runs
that were started for the task, a run is named once, and every claimed task is waited for, has its
outcome in hand or is still to be reclaimed. `Evidence` (unconditional): what is completed, or
about to be, has a box that exited with 0. `Order`: under `Tame` a box that lives is its task's
current one and counted in a slot; under `NoRequeue` whoever is about to write a state has read
what it still is, and under `Orderly` a decision about gates is still true when it is written.
`Tally`
(unconditional): of a run that no crash cut short the refusals remembered are those there were, and
what was attested was attested by them and by its report; item 7 is what a crash takes away.

**`RunProofs`**, from `BoxesAssumption` (`NoRun` is no run, no worker is named `org` or nobody,
host mounts are of the four kinds of the configuration):

- `TokensOutliveBoxes`: `BoxesSpec => []IdentityFollowsTheBox`;
- `AttestationsHear`: `BoxesSpec => []RefusalsAreEvidence`;
- `StoresAreApart`: `BoxesSpec => []WritesStayHome`.

The daemon may die, or be stopped, between any two steps. `Tokens` and `TokenEnds`: whoever has a
box has a token, from before the spawn until after the end, unless a daemon that stopped left a
session's box, or one spawned after the signal, and took the token (`spared`). So a connection made with a token is
the run's own (`Calling`), and the counts agree: what the box was answered is in the tally once
the line that stands in between is counted, and nothing is in it that was not recorded
(`CountsOK`). `Composed` is what `Compose` put into each kind of directory.

From `RecurrenceAssumption` (periods and the horizon are positive): `ScheduleKept`,
`RecurrenceInit /\ [][RecurrenceNext]_recurrenceVars => []ScheduleIsKept`. A tick writes the cursors
and then the partition, and may die in between. `CursorsAnswer`: a cursor is at an answer, or where
a tick first met the template; `RunsAnswer`: a slot between two ticks, if the horizon reaches it,
has an answer by the second, counting as one what that tick has still to save, which is due
(`SpawningIsDue`).

From `PartitionAssumption`: `SearchDecides`, `CheckInit /\ [][CheckNext]_checkVars =>
[]SearchIsAcyclic`. `StackIsPath`: the tasks marked 1 are the stack, each but the last with an edge
to the next that it has followed, so a task met again there closes a cycle. `DoneIsAcyclic`: the
edges of a task marked 2 lead to tasks marked 2, and no set of those is a cycle. `RootsRemain`: an
unvisited task is still a root, so at `Accept` every live task is marked 2. A cycle is a set of
tasks of which each has an edge into the set (`Acyclic` of `Partition`); no path is ever counted.

**`ChannelProofs`**, from `ReplayAssumption` and `WarmSessionAssumption` (pages are not empty, the
queue holds a message, the read loop is no catch-up, bounds are numbers):

- `CatchUpLosesNothing`: `Spec => []NothingLost`, if `WithinPages`;
- `HistoryGrowsInOrder`: `Spec => []HistoryInOrder`;
- `SessionsAnswerInOrder`: `Spec => []InOrder`.

Any number of catch-ups run beside the read loop, and nothing is assumed of them. `WithinPages`: no
more is said than the three pages of `channel/discord.rs:258` hold. The invariant has three layers.
Always: a task goes through the channel in order, since a page holds what follows the message it is
at (`InStep`, `Numbered`), so what one task files rises, and is no message twice (`FilesInOrder`).
As long as nothing has `crossed`: the tasks take turns at the cursor (`Alone`), the history lies
before the message in hand (`Grows`), and what lies before the cursor is in the history, in hand,
or was cut short (`Covered`); what a catch-up has still to fetch its pages hold (`Pages`). As long
as no queue was found full either: one session is the channel's (`OneSession`), and what waits in
its queue lies between the last turn and the message in hand (`Queued`).

**`ListenProofs`**. From `ListenAssumption` (`NoLock` is no lock record): `ListensAlone`,
`ListenSpec => []OneListener`. The lock file is read, judged and removed in three
steps and so excludes nobody by itself. `IInv` says how far it carries: unless two acquisitions have
overlapped (`raced`), whoever removes a lock as stale removes nobody's (`RemovesNobodys`),
who listens has its own token in the file (`ListensWithLock`), and one process acquires at a time.

From `SlackAssumption` (limits are positive): `SlackCatchesUp`, `SlackInit /\ [][SlackNext]_slack =>
[]SlackHandlesEach`, if `CursorFirst`. `Ahead`: of a post that Slack has shown, either it was
handled or excused, or a pass or the read loop has it in hand, or it lies ahead of the cursor and
of every write of the cursor still to come. Without `CursorFirst` a live event moves the cursor
over what nobody has in hand (item 12).

From `LinksAssumption` (a finite set of surfaces; terminals are no rooms) and `NamesAreFree` (no
channel has the name of a surface; item 13 is what happens otherwise): `HistoriesFollow`,
`LinksInit /\ [][LinksNext]_links => []HistoryFollowsTheConversation`, however commands are killed
and whatever the listener files meanwhile. `Placed`: a message of the surface's story is in the
file of its channel, or, once a link is saved and until the file is merged (`Pending`), in the
surface's own; in both only between the merge's write and its rename (`Doubled`), and once in each.
`Merged`: the lines a merge is about to write are those of both files, unless something was filed
meanwhile, which is `torn`. `InSpokenOrder`: while nothing is torn, files are in order and share no
message. That a merge keeps order and loses no line is `MergeIs`, from `RanksAre`: a line's place
is how many lines are no later than it, and by counting every place is taken once. `SaveOK` ties
what a command read from the registry to what it is about to write.

**`ProvisionProofs`**. From `VaultAssumption` (`Nothing` is no login and no caller; the bounds are
numbers): `SpentOnce`, `VaultSpec => []TokensSpentOnce`. The lane cannot protect the file, which
the CLI writes without it; it protects the provider. `LaneOK`: one call at a time is between asking
and writing. `AskIsFirst`: whoever is about to ask holds a login that nobody has presented, or
that a removal or an overtaken write has orphaned. That needs `FileIsNew` (the file holds a spent
login only while its successor is on the way) and `AnswerIsNew`, which a re-read inside the lane
turns into `AskIsFirst`; without the re-read (mutant `NoReread`) the first step already fails.

From `GrantsAssumption` and `ConnectionsAssumption` (the orders list each name once, a connection with
a secret names an environment variable, as `config.rs:875` demands, no channel is named as a class and
no connection as another part of the configuration, the files at the start are well-formed, `None`
is no file's content):

- `DecisionsStayCurrent`: `ConnInit /\ [][ConnNext]_connVars => []DecisionsAreCurrent`;
- `EditsKeepTheRest`: `ConnInit /\ [][ConnNext]_connVars => EditsTouchOneEdge`, an action property.

A request never sees the disk at one moment: it stats part after part, and then reads part after
part or takes a load of another request, while commands write. `Past`: no fingerprint is of a
write still to come. `Agrees`: a part of a load whose stat still holds is as it was read, since it
was read after it was statted; so, for each connection, is the secret. `Crosses` carries this to
the cache: what a load read of a part that a request under way has statted the same is content the
part has had since the request began, whether it was read before that stat (then it was current
there) or after it (then the request was under way). When the fingerprints are equal in every part
that is `DecisionsAreCurrent`. The mutant `KeyedNow`, a key taken after the load, breaks `Past` and
`Agrees`. For the edits: `MigratedMeansTheSame` says that a legacy file and its migrated form have
the same edges, `GrantTouchesOneEdge` and `RevokeTouchesOneEdge` what is then put in or taken out,
and `WritesEndEdits` that no other step of any process ends an edit.

From the same assumptions: `GrantsAgree`, `ConnInit /\ [][ConnNext]_connVars => []GrantsReadTheSame`.
It is about paths of both kinds: an admitted channel is called by either, another one by none that
begins as the rules do; of the rest the property says nothing (section 5, item 17).
It is a fact about all the files that can be on the disk (`FilesTyped`). A list of rules decides by the
first one that hits (`Leads`) and is `Silent` where none does; lists joined are decided by the first
that is not silent (`JoinedLead`). With `EnvsDistinct`, which a configuration must satisfy to load,
one edge of an environment connection is a worker's (`OneEdgeApplies`), so the other edges of the file
are silent about it (`ForeignEdge`), and so are the other files unless they share the host, which
`ToldIsGiven` excludes. The listener walks edges where the gateway walks rules; `AdmittedPasses` says
that the gateway lets through what the listener does.

From `LedgerAssumption` (draws and caps are numbers, windows positive) and `~Straddle`:
`BudgetIsKept`, `LedgerInit /\ [][LedgerNext]_ledgerVars => []BudgetHolds`. `CounterHolds`: a counter
is of the last window in which something was let through, and holds at least what was. So a call
that reserves finds the spend of its window below the cap, and `WindowsHold`: all but one call of
a window are below it. `Timely` is where the hypothesis enters: between metering and reserving no
window ends, so no counter is set back. Spend is a sum over a set of calls, which the library
leaves without theorems; the lemmas about it (`SumRemove`, `SumMono` and those before them) come
from a smallest set for which they fail. A restart reads the counters from
`usage.jsonl`, whose records `Recorded` compares with the calls let through.

From `ContextAssumption` (sizes are numbers, there is a length for every count in a briefing):

- `QuotesAreOnce`: `ContextInit /\ [][ContextNext]_contextVars => []NobodyIsQuotedTwice`;
- `PrefixesAreStable`: the same for `[]PrefixIsStable`;
- `BriefingsAreLongest`: the same for `[]BriefingIsLongest`.

For the first, any number of tasks handle messages of a room side by side, and the same message too.
`HandOK`: what a task remembers begins the record, and its message, once filed, comes after it; so the
quotes of a session stand together on file (`Stands`), though not always right before the message it
was started for. `SessionOK`: a message that is twice in what a session turned or will turn, or there
and among its quotes, is on file twice or was in hand beside its first message. `CarryOK` says the
same of a message that a task has still to bring to a session that knows it, and `PairOK` of one that
two tasks have in hand; they are where a second hearing can come from. `SendersOK`: the map leads to a
session of the room. One lemma per action (`TakeUpStep`, `FileStep`, `RouteStep`, `StartStep`, `TalkStep`).

For the others: `PlanEndsWithClass`: a cached prefix ends with the last block of its class, and blocks of the
worker come before those of the channel, whatever is empty, so it is a function of identity,
connections and purpose (`StartedOK`). `NothingIsCutEarly`: a longer beginning of the matters is no
smaller, and no count is shorter than that of none, so the first loop, which counts none as left
out, drops nothing that could fit; the second, with the true count, then stops at the longest that
does.

**`WorkerStorageProofs`**. From `RepoAssumption` (the base tree is clean, `None` is no run):

- `MainStaysTrusted`: `RepoSpec => []MainIsTrusted`;
- `MainAdvances`: `RepoSpec => MainOnlyAdvances`, an action property;
- `NothingIsLost`: `RepoSpec => []NothingLostSilently`.

The lane plays no part: a push is validated before it, against a main that others move on, and no
conjunct of `IInv` mentions it. What carries is the compare-and-swap. `History`: ancestors are
closed. `Swaps`: a push about to swap names a main its head descends from, so whatever main does
meanwhile the swap is forward or fails (`SwapIsForward`). `Clean`: the head that passed validation
on top of something clean is clean itself. `Carriers`: under clean-room a run with interaction
content makes no commit at all, by pushing or parking, so none is in any history. `References`:
what a run is answerable for has landed, and stays so since `OnMain` only grows; hence a run that
is found to have nothing unlanded has its files on main, and `Ends` follows.

From `StoreAssumption` (bounds are numbers):

- `SnapshotsWereStates`: `StoreSpec => []SnapshotsAreStates`;
- `RestoresAreUndoable`: `StoreSpec => RestoreIsUndoable`, an action property.

Here the lock does carry. `Locks`: who copies or restores holds it. `CopyIsCurrent`: the half of a
snapshot that is copied is still what the worker's files are, because a box writes only with that lock
(`Store` leaves out one that does not).
`Undoable`: a restore past `Undo` has what it is about to remove in a listed snapshot.

Only model-checked: liveness (`CommandsEnd`, `ClaimedIsAttested`, `PendingGetsItsTurn`,
`EveryMessageIsAnswered`). It rests on fairness, thus on `ENABLED`, about which TLAPS proves nothing.

## 5. Where code and documentation differ

Each of the first three has a run.

1. **A canceled task cannot be requeued** (`TmsRequeue`). `set_tasks` journals it in state
   pending (`work/tms.rs:789`) and `requeue` answers "already pending".
2. **A task can stay in needs-review with no gate left** (`DispatchReview`). `finalize` lists the
   gates, the last one resolves, then needs-review is written (`work/dispatch.rs:290`).
3. **A message said during downtime can be lost** (`ConversationOverlap`): a live message moves
   the cursor before `catch_up` reads it (`channel/discord.rs:551`). The catch-up that READY spawns
   (`channel/discord.rs:487`) runs beside the read loop (line 556) and beside an older catch-up, and
   they share no deduplication. So a message can also be handled twice, filed twice and answered
   twice, and turns can come out of the order of speech: `NothingLost`, `HistoryInOrder` and
   `TurnsInOrder` all fail without `~crossed`.

Reproducible by changing a constant, or by checking the definition named:

4. `requeue` re-files old edges, which may close a cycle (`DocAcyclic` with a requeue and
   `MaxVersion = 7`; `work/tms.rs:992`).
5. A requeue while a box is being provisioned, together with a restart, makes two boxes
   (`OneBoxPerTask` with `MaxCrashes = 1`; `work/tms.rs:1008`); so does a container that comes up
   late (`LateStart = TRUE`).
6. A stale `now` resets a newer window's counter (`BudgetHolds` with `Straddle = TRUE`;
   `gateway/ledger.rs:98`, docs/gateway.md:166).
7. A refused run can complete and a successful one fail after a restart (`RefusalsDecide` without
   `cut`): the tally of refusals is memory and an adopted box's exit is read late
   (`gateway/proxy.rs:211`, `run/boxed.rs:258`), though docs/work.md:73 has a restart mid-flight
   lose nothing.
8. An adopted box has no ceiling (`ClaimedIsAttested` with `MaxCrashes = 1`; `run/boxed.rs:251`,
   docs/work.md:78).
9. A message to a session that winds down cleanly is dropped without a word (`LateSend = TRUE`;
   `channel/discord.rs:951`, `run/boxed.rs:596`).
10. An adopted box is waited for, but its storage is not finalized, so its unpushed work is not
    parked (`EveryEndIsParked`; `run/boxed.rs:251-267`, docs/repos.md:61-63).
11. Two servers can both listen: the lock is created, then written, and one that is found empty
    counts as stale (`AlwaysOneListener`; `channel/listen.rs:164`, against the comment at line 45).
12. Slack redelivers an event that was not acknowledged, and catch-up replays it too; only live
    events are deduplicated, so it is handled twice (`AnsweredOnce`; `channel/slack.rs:356`, whose
    comment says that the replay is suppressed). A live event before catch-up has read the cursor
    loses the gap (`CursorFirst = FALSE`).
13. `unlink` of one of two members dissolves the group, so the member that stays loses the history
    too (`StaysWithTheRest`; `channel/links.rs:225`, docs/channels.md:197). A channel that bears
    the id of a member goes on receiving its messages after `unlink` (`StartsOver`;
    `channel/links.rs:226`). A channel may be given the id of a surface that has not spoken yet
    (`channel/links.rs:124`); when that surface is linked elsewhere, what the channel's members say
    is filed there too, since its id is resolved once more (`HistoryFollowsTheConversation` with
    `Names = {dm, jane}`).
14. An environment connection with both an org and a worker edge fails to load and takes the whole
    configuration with it; `grant` writes such a file first and then reports the error
    (`OwnEdge.cfg`; docs/connections.md:277 has the worker edge win).
15. What people say between two turns without waking the worker is in no later turn of the session,
    though "the conversation itself holds everything since" (`ContextAmbient.cfg`;
    docs/context.md:77).
16. A message that finds its session's queue full (64) starts a second session of the channel,
    which takes the first one's place in the map and may answer before it (`TurnsInOrder` without
    `~crowded` and with `QueueCap = 1`; `channel/discord.rs:946-970`, docs/channels.md:126 has them "serialized in
    order").
17. A `channels` restriction is enforced on the paths its rules are written for: the deny rules are
    the prefix `/api/v10/channels` (`config.rs:992-998`), and a call that names a channel by a path of
    another form falls to the rule of the host, credential included (`Confined.cfg`;
    `config.rs:1008`). The comment at `config.rs:931` has the restriction "fully enforced here". The
    allow rules end without a slash (`config.rs:956`), so an id that begins with a listed one is
    allowed with it; snowflakes of the same length do not begin one another.
18. When the daemon stops, a session's box is left running, and so are an adopted one and one that was
    spawned after the signal: only `run_box` listens for it (`run/boxed.rs:358`), `run_session` is
    dropped (`cli/server.rs:149`), whose comment at line 137 has "in-flight boxes" kill their
    containers. A session's token goes with the function, so what its box still calls is nobody's and
    is refused (`IdentityFollowsTheBox` without `spared`).
19. A message can be quoted in a session's first turn and be a turn of its own: beside `catch_up` the
    history on file is not "exactly the channel before this message [...] no race", as the comment at
    `channel/discord.rs:820-823` has it, since the task awaits the attachments between filing and
    routing (`QuotesRace.cfg`; line 844).

Built into a model as the code does it. Work: an edge to a task that has already completed blocks
for ever (`work/tms.rs:1070`); `claim` does not look at eligibility again (`work/tms.rs:872`); a
crash or a failed save after `save_cursors` skips a recurrence (`work/tms.rs:1176`, against
docs/work.md:23), as does a downtime over the horizon. Desk: a gate whose approver died in the
executor is never resumed (`action/mod.rs:345`, against docs/actions-and-trust.md:68). Boxes: a
refusal that a box provokes without a proxy credential is tallied for nobody; the identity token of
a run that fails half-way through provisioning, or whose daemon died, stays (`run/boxed.rs:698`).
Connections: two connections of one host granted to a worker, the first file's deny rules shadow the
second; a legacy file with nothing but `[restrict]` migrates to `[grant.org]`; commands are unlocked
read-modify-writes; a model connection that is removed is back at the next boot. Vault: `rm` during
a refresh is undone by it (`credential/vault.rs:190`), a reconnect is overwritten by it, and a box
that hangs up meanwhile drops the rotated login. Channels: a failed REST call in `catch_up` leaves
messages for the next live event's cursor to skip (`channel/discord.rs:273`); a Slack backlog over
three pages keeps the newest, and its catch-up may write the cursor backwards; what is filed between
a merge's read and its write is lost, and a command killed half-way leaves histories unmerged; warm
sessions have a ceiling (`run/boxed.rs:437`) though docs/channels.md:129 says they have none.
Repos: a push that has landed reports "push-refused" when its journal line fails, and a later
refusal or backstop clears the commit a run has produced (`run/runlog.rs:166`).

## 6. Abstractions

- Time is a small clock; ids, prompts and payloads are model values or nothing at all. A text is
  its length, a tree the set of its files, an OAuth login a number.
- An operation under one hold of a lock is one step, unless it writes two files.
- `write_atomic` is atomic and durable. A disk that loses or corrupts files is not modelled.
  `std::fs::write`, which `cli/connections.rs` uses, truncates first; a reader of the empty file
  is not modelled.
- The journal is its newest record per id, which is all that is read from it.
- The credential hold, the budget soft stop and the pause switch only delay claims; left out of
  `Dispatch`, so its liveness says "if none of them holds the task back".
- `Tms` keeps tasks in flight on a claim, without boxes; `Dispatch` keeps boxes, without edges and
  versions. A task with no edges left is a pending one in `Dispatch`.
- `Grants` matches calls by host and class, and those to Discord by channel and by whether the path
  begins as the rules do; methods and MCP tool names are further fields of the same rules. For
  `Boxes`, judge, vault and budget answer freely.
- `Connections` gives every write a stamp of its own; the code's fingerprint is mtime and length
  (`config.rs:1389-1457`), so a rewrite of equal length within the clock's resolution passes unseen.
- `Ledger` leaves out the append to `usage.jsonl` that fails, which is only logged
  (`gateway/ledger.rs:164-173`); its spend is gone after a restart.
- `Knowledge` has one set of barred files for a repository; the markers of participants are those of
  the pushing run (`worker/boundary.rs:19`, `worker/knowledge.rs:488`).
- `Context` snapshots the whole record of a room; the code takes the newest 50
  (`channel/discord.rs:901`), of which the policy then takes fewer. In `Context` a catch-up handles
  any messages said before, in order; which ones `Replay` says.
- `WarmSession` leaves out that `run_session` drops a message whose run context cannot be saved or
  compiled (`run/boxed.rs:506`), with a line on stderr only; `resolve_followup`'s continuation task
  is one more task of `Tms`, not of `Dispatch`.
- A panic in a run, and I/O errors other than those named above, are not modelled.
- A server restarted under the pid of its predecessor (as in a container) takes its own stale lock
  for a live one; `Listen` gives each start a new process.

## 7. Not modelled

- **Trust ladder** (`action/trust.rs`): a pure decision over globs and counts. `Gate` lets a
  proposal be held or run either way. Its comment says that a denial resets the privilege
  (lines 33-35) where the code asks for no denial ever (line 52).
- **Terminal chat** (`run/session.rs`): one process that relays a terminal to one box, with the
  session loop that `WarmSession` models.
- **Boundary scan** (`worker/boundary.rs`), **journal and storage report** (`worker/journal.rs`,
  `worker/storage.rs`): text scanning with advisory findings, an append-only log, a listing.
- **Slash commands** (`channel/slash.rs`) and the **other commands** (`cli/`): role checks and
  argument handling around operations that are modelled.
- **CA and TLS**, **SMTP**: cryptographic plumbing and a protocol client; their outcome is one step.
- **Box extensions** (`box/extensions/`): code inside the box, whose calls are steps of `Boxes`
  and `Dispatch`.
- **Paths and utilities**.

Of the components only the credential vault is modelled with every operation; what is left out of
each other one is in its note in `PROJECT.json`. The larger parts: the legacy queue's migration and
`set_tasks`' checks of templates (`work/tms.rs`); network rules, image pulls and pi's own files (`run/boxed.rs`); mentions, the content of attachments and
interactions (`channel/discord.rs`), threads and files (`channel/slack.rs`); interviews, catalog and listings
(`cli/connections.rs`); box, engine, budget and policy sections and the validation of host mounts
(`config.rs`); the wording of a context (`worker/context.rs`).

## 8. Plan

1. Proofs: that a listener catches up without `WithinPages`, as far as its pages reach; the
   ledger with `Straddle`, for the overrun there is.
2. The trust ladder as a pure decision beside `AcyclicCheck`, against its documented rules.
3. The abstract listener that `Replay` and `Slack` both implement: each message handled at least
   once, with the cases where it is not as its assumptions; a second Slack channel and DMs.
4. Host mounts and policy sections of the configuration, as far as `Boxes` reads them.
