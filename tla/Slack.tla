-------------------------------- MODULE Slack --------------------------------
(***************************************************************************)
(* The Slack listener of one channel, src/channel/slack.rs: the events of  *)
(* the Socket Mode connection, and the catch-up over conversations.history *)
(* that every hello starts beside it.                                      *)
(*                                                                         *)
(* Slack sends a post to the socket that is open, or to none; an envelope  *)
(* whose acknowledgement it has not got it may send again, on any later    *)
(* socket.  Posts are numbered in the order they are made (their ts); all  *)
(* are top-level and none is a bot's.                                      *)
(***************************************************************************)
EXTENDS Naturals, Sequences, SequencesExt

CONSTANTS Tasks,        \* catch-up tasks at once
          HistoryLimit, \* posts per page of conversations.history (100)
          HistoryPages, \* pages per channel and catch-up (3)
          SeenCap,      \* event ids kept (2048)
          CursorFirst,  \* no event is read before a hello's catch-up has the cursor
          MaxPosts,     \* bound: posts
          MaxTroubles   \* bound: lost sockets, repeated envelopes, failed REST calls, restarts

ASSUME SlackAssumption ==
  /\ HistoryLimit \in Nat \ {0} /\ HistoryPages \in Nat \ {0} /\ SeenCap \in Nat \ {0}
  /\ CursorFirst \in BOOLEAN
  /\ MaxPosts \in Nat /\ MaxTroubles \in Nat

VARIABLES posted,    \* posts in the channel
          mark,      \* slack-cursor.json: -1 absent, else the last ts seen
          socket,    \* is one open
          wire,      \* events sent on it, not yet read
          unacked,   \* events Slack may send again
          seenIds,   \* already_seen's queue
          current,   \* the live event being handled; 0 none
          task,      \* per catch-up
          times, again,          \* history: times each post was handled live; posts a catch-up handled
          origin, excused,      \* history: posts before the first cursor; left by a page or a crash
          forgotten,            \* history: event ids the queue has dropped
          troubles

slack == <<posted, mark, socket, wire, unacked, seenIds, current, task, times, again,
           origin, excused, forgotten, troubles>>

Posts == 1..MaxPosts
NoMark == 0 - 1

Resting == [step |-> "idle", oldest |-> 0, below |-> 0, pages |-> 0, got |-> <<>>]

SlackInit ==
  /\ posted = 0
  /\ mark \in {NoMark, 0}
  /\ socket = FALSE /\ wire = <<>> /\ unacked = {} /\ seenIds = <<>> /\ current = 0
  /\ task = [t \in Tasks |-> Resting]
  /\ times = [m \in Posts |-> 0] /\ again = {}
  /\ origin = 0 /\ excused = {} /\ forgotten = {}
  /\ troubles = [sockets |-> 0, repeats |-> 0, outages |-> 0, deaths |-> 0]

Trouble(kind) ==
  /\ troubles.sockets + troubles.repeats + troubles.outages + troubles.deaths < MaxTroubles
  /\ troubles' = [troubles EXCEPT ![kind] = @ + 1]

Tally == <<times, again, forgotten>>

-----------------------------------------------------------------------------
(* Slack *)

Post ==
  /\ posted < MaxPosts
  /\ posted' = posted + 1
  /\ IF socket THEN wire' = Append(wire, posted + 1) /\ unacked' = unacked \cup {posted + 1}
     ELSE UNCHANGED <<wire, unacked>>
  /\ UNCHANGED <<mark, socket, seenIds, current, task, Tally, origin, excused, troubles>>

Redeliver(m) ==
  /\ socket /\ m \in unacked /\ m \notin ToSet(wire) /\ Trouble("repeats")
  /\ wire' = Append(wire, m)
  /\ UNCHANGED <<posted, mark, socket, unacked, seenIds, current, task, Tally, origin, excused>>

-----------------------------------------------------------------------------
(* run_socket_mode, connect_once *)

\* Dialled, and greeted: a catch-up is spawned off the read loop.
Hello(t) ==
  /\ ~ socket /\ task[t] = Resting /\ t = CHOOSE u \in Tasks : task[u] = Resting
  /\ socket' = TRUE
  /\ task' = [task EXCEPT ![t].step = "cursor"]
  /\ UNCHANGED <<posted, mark, wire, unacked, seenIds, current, Tally, origin, excused, troubles>>

\* A disconnect envelope or a lost socket, noticed between two events; the writer is
\* aborted, with whatever acknowledgement it still held.
Disconnect ==
  /\ socket /\ current = 0 /\ Trouble("sockets")
  /\ socket' = FALSE /\ wire' = <<>>
  /\ UNCHANGED <<posted, mark, unacked, seenIds, current, task, Tally, origin, excused>>

\* Mutant: the events a socket has delivered are known to that socket alone.
already_seen_here(m) == m \in ToSet(seenIds) /\ troubles.sockets = 0

already_seen(m) == m \in ToSet(seenIds)

Remembered(m) ==
  LET ids == Append(seenIds, m) IN
  IF Len(ids) > SeenCap THEN seenIds' = Tail(ids) /\ forgotten' = forgotten \cup {Head(ids)}
  ELSE seenIds' = ids /\ UNCHANGED forgotten

\* Acknowledged first, which Slack may not get; a repeat is dropped; the cursor moves.
ReadEnvelope(acked) ==
  LET m == Head(wire) IN
  /\ socket /\ current = 0 /\ wire # <<>>
  /\ CursorFirst => \A t \in Tasks : task[t].step # "cursor"
  /\ wire' = Tail(wire)
  /\ unacked' = IF acked THEN unacked \ {m} ELSE unacked
  /\ IF already_seen(m) THEN UNCHANGED <<seenIds, forgotten, mark, current, origin>>
     ELSE /\ Remembered(m)
          /\ mark' = m /\ current' = m
          /\ origin' = IF mark = NoMark THEN posted ELSE origin
  /\ UNCHANGED <<posted, socket, task, times, again, excused, troubles>>

\* handle_message: recorded in the channel's history, and what wakes, routed.
HandleEvent ==
  /\ current # 0
  /\ times' = [times EXCEPT ![current] = @ + 1] /\ current' = 0
  /\ UNCHANGED <<posted, mark, socket, wire, unacked, seenIds, task, again, forgotten, origin, excused, troubles>>

-----------------------------------------------------------------------------
(* catch_up *)

Replays == <<posted, socket, wire, unacked, seenIds, current, times, forgotten>>

\* A channel of Slack's without a cursor is baselined at its newest post, if REST says.
BaselineAt(t) ==
  /\ task[t].step = "cursor" /\ mark = NoMark
  /\ IF posted > 0 THEN mark' = posted /\ origin' = posted ELSE UNCHANGED <<mark, origin>>
  /\ task' = [task EXCEPT ![t] = Resting]
  /\ UNCHANGED <<Replays, again, excused, troubles>>

TakeCursor(t) ==
  /\ task[t].step = "cursor" /\ mark # NoMark
  /\ task' = [task EXCEPT ![t] = [Resting EXCEPT !.step = "first", !.oldest = mark, !.pages = HistoryPages]]
  /\ UNCHANGED <<Replays, mark, again, origin, excused, troubles>>

\* What is fetched is replayed from the oldest; what is not is passed by.
Replayed(t, got, left) ==
  /\ task' = [task EXCEPT ![t] = IF got = <<>> THEN Resting ELSE [@ EXCEPT !.step = "each", !.got = got]]
  /\ excused' = excused \cup left

\* Newest first: each page is older than the last, down to the cursor the pass began with.
FetchHistory(t) ==
  LET c    == task[t]
      top  == IF c.step = "first" THEN posted ELSE c.below
      low  == IF top - c.oldest > HistoryLimit THEN top - HistoryLimit ELSE c.oldest
      got  == [i \in 1..(top - low) |-> low + i] \o c.got
  IN /\ c.step \in {"first", "page"}
     /\ IF low > c.oldest /\ c.pages > 1
        THEN /\ task' = [task EXCEPT ![t] = [c EXCEPT !.step = "page", !.below = low,
                                              !.pages = @ - 1, !.got = got]]
             /\ UNCHANGED excused
        ELSE Replayed(t, got, (c.oldest + 1)..low)
     /\ UNCHANGED <<Replays, mark, again, origin, troubles>>

Unfetched(c) == (c.oldest + 1)..(IF c.step = "first" THEN posted ELSE c.below)

\* A call that fails ends the paging; a baseline that fails, the catch-up.
HistoryFails(t) ==
  LET c == task[t] IN
  /\ Trouble("outages")
  /\ \/ /\ c.step \in {"first", "page"}
        /\ Replayed(t, c.got, Unfetched(c))
        /\ UNCHANGED origin
     \/ /\ c.step = "cursor" /\ mark = NoMark
        /\ Replayed(t, <<>>, {}) /\ origin' = posted
  /\ UNCHANGED <<Replays, mark, again>>

\* The cursor first ...
PassCursor(t) ==
  /\ task[t].step = "each"
  /\ mark' = Head(task[t].got)
  /\ task' = [task EXCEPT ![t].step = "handle"]
  /\ UNCHANGED <<Replays, again, origin, excused, troubles>>

\* ... then handle_message.
HandleMissed(t) ==
  LET rest == Tail(task[t].got) IN
  /\ task[t].step = "handle"
  /\ again' = again \cup {Head(task[t].got)}
  /\ task' = [task EXCEPT ![t] = IF rest = <<>> THEN Resting ELSE [@ EXCEPT !.step = "each", !.got = rest]]
  /\ UNCHANGED <<Replays, mark, origin, excused, troubles>>

Outstanding(t) == ToSet(task[t].got) \cup Unfetched(task[t])

\* The daemon dies; the cursor file alone remains, which may be past what a catch-up held.
SlackDies ==
  /\ Trouble("deaths")
  /\ socket' = FALSE /\ wire' = <<>> /\ seenIds' = <<>> /\ current' = 0
  /\ task' = [t \in Tasks |-> Resting]
  /\ excused' = excused \cup ({current} \ {0})
                \cup {m \in UNION {Outstanding(t) : t \in Tasks} : m <= mark}
  /\ UNCHANGED <<posted, mark, unacked, times, again, forgotten, origin>>

SlackNext ==
  \/ Post \/ Disconnect \/ HandleEvent \/ SlackDies
  \/ \E m \in Posts : Redeliver(m)
  \/ \E acked \in BOOLEAN : ReadEnvelope(acked)
  \/ \E t \in Tasks : Hello(t) \/ BaselineAt(t) \/ TakeCursor(t) \/ FetchHistory(t)
                      \/ HistoryFails(t) \/ PassCursor(t) \/ HandleMissed(t)

-----------------------------------------------------------------------------
(* Properties *)

CaughtUp == socket /\ wire = <<>> /\ current = 0 /\ \A t \in Tasks : task[t] = Resting

\* Socket Mode replays nothing (slack.rs:344), so the cursor must: a connected listener
\* at rest has handled every post since the channel has one, across lost sockets and
\* restarts, but for what a page limit, a failed page or a crash left.  And no event
\* its process still knows is handled live twice (slack.rs:352), however often Slack
\* sends it.
SlackHandlesEach ==
  /\ CaughtUp => \A m \in (origin + 1)..posted : times[m] > 0 \/ m \in again \cup excused
  /\ \A m \in Posts : m \notin forgotten => times[m] <= 1 + troubles.deaths

\* slack.rs:352, "so the same message isn't handled — and answered — twice".
AnsweredOnce ==
  \A m \in Posts : times[m] <= 1 /\ (times[m] = 1 => m \notin again)
=============================================================================
