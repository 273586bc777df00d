------------------------------- MODULE Context -------------------------------
(***************************************************************************)
(* What a worker is given to read: the compiler of src/worker/context.rs,  *)
(* the recall of src/worker/memory.rs, and the two callers, a task run and *)
(* the sessions of a worker's rooms (src/run/boxed.rs), which a listener   *)
(* feeds (src/channel/discord.rs): its read loop and the catch-ups it      *)
(* spawned, each with one message in hand at a time.                       *)
(*                                                                         *)
(* A text is its number of characters, 0 when the file is missing or blank *)
(* (two texts of a kind that differ have different lengths).  Label and    *)
(* Envelope are what is put around a system block and around a JSON block; *)
(* an item's length includes its own punctuation.                          *)
(***************************************************************************)
EXTENDS Naturals, Sequences, SequencesExt, FiniteSetsExt

CONSTANTS
  Rooms, Outside,         \* channels; a run that serves none
  Say,                    \* per message, numbered as said: [room, chars, wakes]
  Errands,                \* task runs: [room, chars, carry]; carry is the resolved gate, or 0
  ReadLoop, CatchUps,       \* the listener's read loop; catch_up tasks
  Sessions, Nobody,
  Worlds,                 \* the files a behaviour may start with
  Notes,                  \* records a box may append to memory.jsonl
  Limit,                  \* the [context] and [memory] policies
  Label, Envelope,
  Digits,                 \* digits of the count of omitted items
  PolicyChars, ScopeChars,
  MaxEdits,               \* bound: edits of files, notes and gates
  MaxUntraced             \* bound: traces that cannot be written

ASSUME ContextAssumption ==
  /\ Say \in Seq([room : Rooms, chars : Nat, wakes : BOOLEAN])
  /\ ReadLoop \notin CatchUps /\ Nobody \notin Sessions
  /\ \A e \in Errands : e.chars \in Nat /\ e.carry \in Nat
  /\ \A w \in Worlds :
       /\ DOMAIN w = {"identity", "charter", "purpose", "tools", "notes", "gates", "parked"}
       /\ w.gates \in Seq(Nat) /\ w.parked \in Seq(Nat)
       /\ 0..(1 + Len(w.gates) + Len(w.parked) + MaxEdits) \subseteq DOMAIN Digits
  /\ \A n \in DOMAIN Digits : Digits[n] \in Nat /\ Digits[0] <= Digits[n]
  /\ Limit \in [{"injected", "identity", "purpose", "briefing", "task",
                 "messages", "history", "notes", "recall"} -> Nat]
  /\ Envelope \in Nat /\ MaxEdits \in Nat

VARIABLES world,          \* identity, charter, purpose, tools, notes, gates, parked
          record,         \* per room: messages.jsonl
          said,           \* messages said so far
          hand, handled,  \* per task: the message it handles; the last one it took up
          sender,         \* per room: the session that the map leads to
          session,
          started,        \* history: the first system prompt compiled, and what from
          edits, failures

listenVars == <<record, said, hand, handled, sender, session>>
contextVars == <<world, listenVars, started, edits, failures>>

Handlers == CatchUps \cup {ReadLoop}
Message == DOMAIN Say
RoomOf(m) == Say[m].room

\* `beside` is history, here and in a session: what other tasks had in hand, of the
\* same room, at any time while this message was.
NoMessage == [step |-> "none", msg |-> 0, history |-> <<>>, beside |-> {}]
Held(h) == hand[h].step # "none"

NoSession == [state |-> "none", room |-> Outside, queue |-> <<>>, first |-> TRUE, quoted |-> <<>>,
              turned |-> <<>>, beside |-> {}]

ContextInit ==
  /\ world \in Worlds
  /\ record = [r \in Rooms |-> <<>>]
  /\ hand = [h \in Handlers |-> NoMessage] /\ handled = [h \in Handlers |-> 0]
  /\ sender = [r \in Rooms |-> Nobody] /\ session = [x \in Sessions |-> NoSession]
  /\ said = 0 /\ started = {} /\ edits = 0 /\ failures = 0

-----------------------------------------------------------------------------
(* memory.rs *)

Ids(notes) == {notes[i].id : i \in DOMAIN notes}
FirstAt(notes, id) == Min({i \in DOMAIN notes : notes[i].id = id})
Newest(notes, id) == notes[Max({i \in DOMAIN notes : notes[i].id = id})]

\* A later record with the id supersedes in place; pinned first, then newest.
active_notes(notes) ==
  LET Before(a, b) ==
        LET x == Newest(notes, a)
            y == Newest(notes, b)
        IN IF x.pinned # y.pinned THEN x.pinned
           ELSE x.ts > y.ts \/ (x.ts = y.ts /\ FirstAt(notes, a) < FirstAt(notes, b))
      kept == {id \in Ids(notes) : ~ Newest(notes, id).gone}
      ranked == SetToSortSeq(kept, Before)
  IN [i \in DOMAIN ranked |-> Newest(notes, ranked[i])]

-----------------------------------------------------------------------------
(* Blocks *)

Block(kind, text, chars) == [kind |-> kind, text |-> text, chars |-> chars]

Total(chars) == FoldSeq(+, 0, chars)

Sizes(items) == [i \in DOMAIN items |-> items[i].chars]

\* The JSON of a list of items.
Rendered(items) == Envelope + Total(Sizes(items))

\* `memory_block`: the top of the ranking, cut from the bottom until it fits.
memory_block ==
  LET notes == active_notes(world.notes)
      Top(n) == SubSeq(notes, 1, n)
      fits == {n \in 1..Len(notes) : n <= Limit.notes /\ Rendered(Top(n)) <= Limit.recall}
  IN IF fits = {} THEN <<>>
     ELSE <<Block("memory", Top(Max(fits)), Rendered(Top(Max(fits))))>>

Heard(ms) == [i \in DOMAIN ms |-> [msg |-> ms[i], chars |-> Say[ms[i]].chars]]

\* `history_block`: the newest messages, the oldest dropped until it fits.
history_block(snapshot) ==
  LET End(n) == Heard(SubSeq(snapshot, Len(snapshot) - n + 1, Len(snapshot)))
      fits == {n \in 1..Len(snapshot) : n <= Limit.messages /\ Rendered(End(n)) <= Limit.history}
  IN IF fits = {} THEN <<>>
     ELSE <<Block("history", End(Max(fits)), Rendered(End(Max(fits))))>>

\* The outcome this run continues from, the worker's open gates, its parked work.
Matters(carry) ==
  [i \in 1..(Len(IF carry = 0 THEN <<>> ELSE <<carry>>) + Len(world.gates) + Len(world.parked)) |->
     [chars |-> ((IF carry = 0 THEN <<>> ELSE <<carry>>) \o world.gates \o world.parked)[i]]]

briefing_json(items, omitted) == Rendered(items) + Digits[omitted]

\* Mutant: room is kept for the count before it is known.
KeptWithCount(items) ==
  Max({n \in 0..Len(items) :
         \A k \in 1..n : briefing_json(SubSeq(items, 1, k), Len(items)) <= Limit.briefing})

\* The greedy loop of `build_briefing`, which counts nothing as omitted yet.
Kept(items) ==
  Max({n \in 0..Len(items) :
         \A k \in 1..n : briefing_json(SubSeq(items, 1, k), 0) <= Limit.briefing})

\* ... and what is popped once the count is known.
build_briefing(carry) ==
  LET items == Matters(carry)
      JsonOf(n) == briefing_json(SubSeq(items, 1, n), Len(items) - n)
      fits == {n \in 0..Kept(items) : JsonOf(n) <= Limit.briefing}
  IN IF items = <<>> \/ fits = {} THEN <<>>
     ELSE <<Block("briefing", SubSeq(items, 1, Max(fits)), JsonOf(Max(fits)))>>

-----------------------------------------------------------------------------
(* compile *)

StartOf(surface, room) ==
  [phase |-> "start", surface |-> surface, room |-> room, terminal |-> 0, carry |-> 0, history |-> <<>>]

ErrandOf(e) == [StartOf("errand", e.room) EXCEPT !.terminal = e.chars, !.carry = e.carry]

TurnOf(room, m, history) ==
  [phase |-> "turn", surface |-> "session", room |-> room, terminal |-> Say[m].chars,
   carry |-> 0, history |-> history]

\* `read_identity`: the charter is the identity's old name.
Identity == IF world.identity # 0 THEN world.identity ELSE world.charter

Purpose(room) == IF room \in Rooms THEN world.purpose[room] ELSE 0

If(cond, blocks) == IF cond THEN blocks ELSE <<>>

\* Mutant: the runtime scope comes before the purpose.
ScopeFirst(req) ==
  <<Block("identity", Identity, Identity), Block("policy", "v1", PolicyChars)>>
  \o If(world.tools # 0, <<Block("connections", world.tools, world.tools)>>)
  \o <<Block("scope", <<req.surface, req.room>>, ScopeChars)>>
  \o If(Purpose(req.room) # 0, <<Block("purpose", Purpose(req.room), Purpose(req.room))>>)

\* What a start puts before the input, from stable to volatile.
SystemBlocks(req) ==
  <<Block("identity", Identity, Identity), Block("policy", "v1", PolicyChars)>>
  \o If(world.tools # 0, <<Block("connections", world.tools, world.tools)>>)
  \o If(Purpose(req.room) # 0, <<Block("purpose", Purpose(req.room), Purpose(req.room))>>)
  \o <<Block("scope", <<req.surface, req.room>>, ScopeChars)>>

SystemChars(blocks) == Total([i \in DOMAIN blocks |-> Label + blocks[i].chars])

InputBlocks(req) ==
  If(req.terminal # 0, memory_block \o build_briefing(req.carry))
  \o history_block(req.history)
  \o If(req.terminal # 0, <<Block("terminal", req.terminal, Envelope + req.terminal)>>)

\* Whatever must not be cut and does not fit fails the compilation.
compile(req) ==
  LET system == IF req.phase = "start" THEN SystemBlocks(req) ELSE <<>>
      input  == InputBlocks(req)
  IN [ok |-> /\ req.phase = "start" => Identity # 0 /\ Identity <= Limit.identity
                                       /\ Purpose(req.room) <= Limit.purpose
             /\ req.terminal <= Limit.task
             /\ SystemChars(system) <= Limit.injected
             /\ SystemChars(system) + Total(Sizes(input)) <= Limit.injected,
      system |-> system, input |-> input]

Class(kind) == CASE kind \in {"policy", "connections"} -> "worker"
                 [] kind = "purpose" -> "channel"
                 [] kind = "scope"   -> "surface"
                 [] OTHER            -> "none"

\* `build_cache_plan`: per class, the prefix that ends with its last block.
build_cache_plan(system) ==
  [class \in {Class(system[i].kind) : i \in DOMAIN system} \ {"none"} |->
     SubSeq(system, 1, Max({i \in DOMAIN system : Class(system[i].kind) = class}))]

\* `compile_and_trace`: what cannot be traced is an error too.
Compiles(req, traced) == compile(req).ok /\ traced

TraceFails(traced) ==
  /\ traced \/ failures < MaxUntraced
  /\ failures' = IF traced THEN failures ELSE failures + 1

Prompt(req) == [of |-> <<Identity, world.tools>>, purpose |-> Purpose(req.room),
                cache |-> build_cache_plan(SystemBlocks(req))]

Starting(req, traced) ==
  started' = IF Compiles(req, traced) /\ started = {} THEN {Prompt(req)} ELSE started

-----------------------------------------------------------------------------
(* The listener, the sessions and the task runs *)

\* Mutant: the message joins the record before the snapshot is taken.
SnapshotAfter(m) == IF Say[m].wakes THEN Append(record[RoomOf(m)], m) ELSE <<>>

\* What is on file when the task takes a waking message up.
Snapshot(m) == IF Say[m].wakes THEN record[RoomOf(m)] ELSE <<>>

\* What other tasks have in hand, of a room.
Beside(h, r) == {g \in Handlers \ {h} : Held(g) /\ RoomOf(hand[g].msg) = r}

\* `handle_message` begins.  The read loop has the message just said; a catch-up, in
\* their order, messages said before, the read loop's too, or while nobody listened.
TakeUp(h, m) ==
  LET others == Beside(h, RoomOf(m)) IN
  /\ ~ Held(h)
  /\ m \in Message /\ handled[h] < m /\ m <= said + 1 /\ (h = ReadLoop => m = said + 1)
  /\ said' = IF m > said THEN m ELSE said
  /\ handled' = [handled EXCEPT ![h] = m]
  /\ hand' = [g \in Handlers |->
       IF g = h THEN [step |-> "file", msg |-> m, history |-> Snapshot(m),
                      beside |-> {hand[o].msg : o \in others}]
       ELSE IF g \in others THEN [hand[g] EXCEPT !.beside = @ \cup {m}] ELSE hand[g]]
  /\ UNCHANGED <<world, record, sender, session, started, edits, failures>>

\* `persist_message`; then the task awaits the attachments.
PersistMessage(h) ==
  LET m == hand[h].msg IN
  /\ hand[h].step = "file"
  /\ record' = [record EXCEPT ![RoomOf(m)] = Append(@, m)]
  /\ hand' = [hand EXCEPT ![h].step = "route"]
  /\ UNCHANGED <<world, said, handled, sender, session, started, edits, failures>>

Queued(s, m, history) == [s EXCEPT !.queue = Append(@, [msg |-> m, history |-> history])]

\* A waking message goes to the room's session, which has the turns it heard ...
Route(h) ==
  LET m == hand[h].msg
      x == sender[RoomOf(m)] IN
  /\ hand[h].step = "route"
  /\ IF Say[m].wakes /\ x = Nobody
     THEN hand' = [hand EXCEPT ![h].step = "start"] /\ UNCHANGED session
     ELSE /\ hand' = [hand EXCEPT ![h] = NoMessage]
          /\ session' = IF Say[m].wakes THEN [session EXCEPT ![x] = Queued(@, m, <<>>)] ELSE session
  /\ UNCHANGED <<world, record, said, handled, sender, started, edits, failures>>

\* ... or, the map's lock let go and taken again, starts one and brings the snapshot
\* along.  The session of another task's that the map led to by then keeps running.
StartSession(h) ==
  LET m == hand[h].msg IN
  /\ hand[h].step = "start"
  /\ \E x \in Sessions :
       /\ session[x].state = "none"
       /\ session' = [session EXCEPT ![x] =
            [Queued(NoSession, m, hand[h].history) EXCEPT !.state = "starting", !.room = RoomOf(m),
                                                          !.beside = hand[h].beside]]
       /\ sender' = [sender EXCEPT ![RoomOf(m)] = x]
  /\ hand' = [hand EXCEPT ![h] = NoMessage]
  /\ UNCHANGED <<world, record, said, handled, started, edits, failures>>

\* A session is over; the map leads to it no more.
Over(x) ==
  /\ session' = [session EXCEPT ![x] = NoSession]
  /\ sender' = [r \in Rooms |-> IF sender[r] = x THEN Nobody ELSE sender[r]]

\* `run_session` begins; without a context there is no box.
SessionStarts(x) ==
  LET req == StartOf("session", session[x].room) IN
  /\ session[x].state = "starting"
  /\ \E traced \in BOOLEAN :
       /\ TraceFails(traced) /\ Starting(req, traced)
       /\ IF Compiles(req, traced)
          THEN session' = [session EXCEPT ![x].state = "live"] /\ UNCHANGED sender
          ELSE Over(x)
  /\ UNCHANGED <<world, record, said, hand, handled, edits>>

Quoted(req) == LET h == history_block(req.history)
               IN IF h = <<>> THEN <<>> ELSE [i \in DOMAIN h[1].text |-> h[1].text[i].msg]

Missed(s) == [s EXCEPT !.queue = Tail(@)]

Turned(s, m, quotes) ==
  [Missed(s) EXCEPT !.first = FALSE, !.turned = Append(@, m), !.quoted = @ \o quotes]

\* A turn; a message whose context does not compile is not delivered.
SessionTurn(x) ==
  LET next == Head(session[x].queue)
      req  == TurnOf(session[x].room, next.msg, IF session[x].first THEN next.history ELSE <<>>)
  IN /\ session[x].state = "live" /\ session[x].queue # <<>>
     /\ \E traced \in BOOLEAN :
          /\ TraceFails(traced)
          /\ session' = [session EXCEPT ![x] =
               IF Compiles(req, traced) THEN Turned(@, next.msg, Quoted(req)) ELSE Missed(@)]
     /\ UNCHANGED <<world, record, said, hand, handled, sender, started, edits>>

\* Idle, a ceiling or a dead box; the queue goes with it.
SessionEnds(x) ==
  /\ session[x].state = "live" /\ Over(x)
  /\ UNCHANGED <<world, record, said, hand, handled, started, edits, failures>>

\* A task run compiles its start and its input at once.
Errand(e) ==
  /\ \E traced \in BOOLEAN : TraceFails(traced) /\ Starting(ErrandOf(e), traced)
  /\ UNCHANGED <<world, listenVars, edits>>

\* Live edits: the identity moves to its new name, a purpose is set, a connection
\* granted or revoked, a note written, a gate filed or resolved, work parked.
Edit ==
  /\ edits < MaxEdits /\ edits' = edits + 1
  /\ \/ \E n \in {w.identity : w \in Worlds} : world' = [world EXCEPT !.identity = n]
     \/ \E r \in Rooms : \E n \in {w.purpose[r] : w \in Worlds} : world' = [world EXCEPT !.purpose[r] = n]
     \/ \E n \in {w.tools : w \in Worlds} : world' = [world EXCEPT !.tools = n]
     \/ \E line \in Notes : world' = [world EXCEPT !.notes = Append(@, line)]
     \/ \E n \in 1..2 : world' = [world EXCEPT !.gates = Append(@, n)]
     \/ \E i \in DOMAIN world.gates : world' = [world EXCEPT !.gates = RemoveAt(@, i)]
     \/ world' = [world EXCEPT !.parked = Append(@, 1)]
  /\ UNCHANGED <<listenVars, started, failures>>

Listen(h) == (\E m \in Message : TakeUp(h, m)) \/ PersistMessage(h) \/ Route(h) \/ StartSession(h)

Talk(x) == SessionStarts(x) \/ SessionTurn(x) \/ SessionEnds(x)

ContextNext ==
  \/ Edit
  \/ \E h \in Handlers : Listen(h)
  \/ \E x \in Sessions : Talk(x)
  \/ \E e \in Errands : Errand(e)

-----------------------------------------------------------------------------
(* Properties *)

\* docs/context.md:50: the compiler shrinks the advisory tail, most important first,
\* and counts what it omitted.  Whatever the files hold, the briefing of a run is the
\* longest beginning of its matters that fits together with the count of the others.
BriefingIsLongest ==
  \A e \in Errands :
    LET items == Matters(e.carry)
        fits  == {n \in 0..Len(items) :
                    briefing_json(SubSeq(items, 1, n), Len(items) - n) <= Limit.briefing}
        given == build_briefing(e.carry)
    IN items # <<>> =>
         IF fits = {} THEN given = <<>>
         ELSE given # <<>> /\ given[1].text = SubSeq(items, 1, Max(fits))

\* docs/context.md:35 "The order is also the cache order": however surfaces, rooms and
\* edits follow one another, starts of a worker that has the same identity and
\* connections share the worker's prefix, and with the same purpose the channel's.
PrefixIsStable ==
  \A a \in started, req \in {StartOf("session", r) : r \in Rooms} \cup {ErrandOf(e) : e \in Errands} :
    LET b == Prompt(req) IN a.of = b.of =>
    /\ a.cache["worker"] = b.cache["worker"]
    /\ a.purpose = b.purpose /\ a.purpose # 0 => a.cache["channel"] = b.cache["channel"]

Repeated(s) == {s[i] : i \in {i \in DOMAIN s : \E j \in DOMAIN s : j # i /\ s[j] = s[i]}}

\* A session reads a message once: quoted in the history of its first turn or as a turn
\* of its own, unless it is on file twice or another task of the listener had it in hand
\* beside the message answered first.  What is quoted stands together on file, and right
\* before that message unless another of the room's was in hand.  (discord.rs:822 "the
\* listener handles its events one at a time [...] no race" leaves catch_up out.)
NobodyIsQuotedTwice ==
  \A x \in Sessions :
    LET s   == session[x]
        rec == record[s.room]
        n   == Len(s.quoted)
    IN /\ s.state # "none" => Repeated(s.quoted \o s.turned) \subseteq s.beside \cup Repeated(rec)
       /\ n > 0 => \E k \in 0..(Len(rec) - n - 1) :
                     /\ \A i \in 1..n : rec[k + i] = s.quoted[i]
                     /\ s.beside = {} => rec[k + n + 1] = s.turned[1]

\* The comment at discord.rs:820-823 as it stands: what is on file when a message is taken
\* up is "exactly "the channel before this message" -- no id matching, no race".  False
\* of the code while a catch-up runs beside the read loop.
QuotesHaveNoRace ==
  \A x \in Sessions : Repeated(session[x].quoted \o session[x].turned) = {}

\* docs/context.md:77: later turns carry no history, "because by then the conversation
\* itself holds everything since" the first one.
ConversationHoldsTheRest ==
  \A x \in Sessions :
    LET turned == session[x].turned
    IN turned # <<>> => \A m \in ToSet(record[session[x].room]) :
         turned[1] <= m /\ m <= Last(turned) => m \in ToSet(turned)
=============================================================================
