------------------------------- MODULE Replay -------------------------------
(***************************************************************************)
(* The Discord listener of one channel, src/channel/discord.rs: the read   *)
(* loop of the gateway connection, and the catch-up over REST that every   *)
(* fresh connection spawns beside it.  Each moves the channel's replay     *)
(* cursor past a message and then handles the message: files it, downloads *)
(* what is attached, and routes it, while the others go on.                *)
(*                                                                         *)
(* Messages are numbered in the order they are said (their ids are         *)
(* ordered).  The cursor is a file; everything else here is memory of the  *)
(* daemon.  No message is out of scope, and none is a bot's.               *)
(***************************************************************************)
EXTENDS Naturals, Sequences

CONSTANTS
  CatchUps,       \* catch-up tasks at once
  Reader,         \* the task of the read loop
  PageSize,       \* messages per REST page
  MaxPages,       \* pages per channel and catch-up
  MaxSaid,        \* bound: messages
  MaxFaults       \* bound: lost connections, REST calls that fail, and restarts

ASSUME ReplayAssumption ==
  /\ Reader \notin CatchUps
  /\ PageSize \in Nat \ {0} /\ MaxPages \in Nat \ {0}
  /\ MaxSaid \in Nat /\ MaxFaults \in Nat

VARIABLES
  said,           \* messages in the channel
  cursor,         \* discord-cursor.json: absent, or the newest message seen
  link,           \* the gateway connection: down, up, or lost with a resume state
  seen,           \* the newest live event read (the gateway's seq)
  hand,           \* per task: the message it handles, and how far it is
  catchUp,        \* per catch-up: its step, its place and its page
  passes,         \* history: catch-ups spawned
  baseline,       \* history: what was said before the channel had a cursor
  missed,         \* history: messages cut short by a crash or left by a failed page
  crossed,        \* history: a catch-up and a connection met in the channel
  faults          \* drops, hiccups, crashes so far

replay == <<said, cursor, link, seen, hand, catchUp, passes, baseline, missed, crossed, faults>>

Handlers == CatchUps \cup {Reader}

Message == 1..MaxSaid
Absent == [at |-> 0, there |-> FALSE]
At(m) == [at |-> m, there |-> TRUE]

Idle == [step |-> "idle", pass |-> 0, after |-> 0, pages |-> 0, full |-> FALSE, msgs |-> <<>>]

Empty == [msg |-> 0, step |-> "none"]

ReplayInit ==
  /\ said = 0
  /\ cursor \in {Absent, At(0)}
  /\ link = "down" /\ seen = 0
  /\ hand = [h \in Handlers |-> Empty]
  /\ catchUp = [c \in CatchUps |-> Idle]
  /\ passes = 0 /\ baseline = 0 /\ missed = {} /\ crossed = FALSE
  /\ faults = [drops |-> 0, hiccups |-> 0, crashes |-> 0]

CatchingUp == \E c \in CatchUps : catchUp[c] # Idle

\* A message REST shows that the connection is still to deliver.
Ahead(m) == link # "down" /\ m > seen

Fault(kind) ==
  /\ faults.drops + faults.hiccups + faults.crashes < MaxFaults
  /\ faults' = [faults EXCEPT ![kind] = @ + 1]

-----------------------------------------------------------------------------
(* The channel *)

Say ==
  /\ said < MaxSaid
  /\ said' = said + 1
  /\ UNCHANGED <<cursor, link, seen, hand, catchUp, passes, baseline, missed, crossed, faults>>

-----------------------------------------------------------------------------
(* The gateway connection *)

Spawned == [Idle EXCEPT !.step = "cursor", !.pass = passes + 1]

\* Mutant: only the first connection catches up.
ReadyOnce(c) ==
  /\ link = "down" /\ catchUp[c] = Idle
  /\ link' = "up" /\ seen' = said
  /\ catchUp' = IF faults.drops = 0 THEN [catchUp EXCEPT ![c] = Spawned] ELSE catchUp
  /\ passes' = passes + 1
  /\ crossed' = (crossed \/ CatchingUp)
  /\ UNCHANGED <<said, cursor, hand, baseline, missed, faults>>

\* A fresh session: live events start now, and a catch-up is spawned, beside any that
\* an earlier connection left running.
Ready(c) ==
  /\ link = "down" /\ catchUp[c] = Idle
  /\ link' = "up" /\ seen' = said
  /\ catchUp' = [catchUp EXCEPT ![c] = Spawned]
  /\ passes' = passes + 1
  /\ crossed' = (crossed \/ CatchingUp)
  /\ UNCHANGED <<said, cursor, hand, baseline, missed, faults>>

\* The read loop notices a lost connection between two events; it dials again
\* with what it needs to resume, or without.
Drop(next) ==
  /\ link = "up" /\ hand[Reader] = Empty /\ next \in {"lost", "down"}
  /\ Fault("drops")
  /\ link' = next
  /\ UNCHANGED <<said, cursor, seen, hand, catchUp, passes, baseline, missed, crossed>>

\* A resume replays every event after seen, or is refused (op 9).
Redial(next) ==
  /\ link = "lost" /\ next \in {"up", "down"}
  /\ link' = next
  /\ UNCHANGED <<said, cursor, seen, hand, catchUp, passes, baseline, missed, crossed, faults>>

TakeUp(h, m) == hand' = [hand EXCEPT ![h] = [msg |-> m, step |-> "file"]]

\* MESSAGE_CREATE: the cursor first, then handle_message; the next event is read when
\* it returns.
ReadEvent ==
  /\ link = "up" /\ hand[Reader] = Empty /\ seen < said
  /\ seen' = seen + 1 /\ TakeUp(Reader, seen + 1)
  /\ cursor' = At(seen + 1)
  /\ crossed' = (crossed \/ CatchingUp)
  /\ UNCHANGED <<said, link, catchUp, passes, baseline, missed, faults>>

-----------------------------------------------------------------------------
(* catch_up *)

Ends(c) == catchUp' = [catchUp EXCEPT ![c] = Idle]

\* A channel without a cursor is baselined at its newest message, if it has
\* one; nothing is replayed.
Baseline(c) ==
  /\ catchUp[c].step = "cursor" /\ ~cursor.there
  /\ IF said > 0 THEN cursor' = At(said) /\ baseline' = said
     ELSE UNCHANGED <<cursor, baseline>>
  /\ crossed' = (crossed \/ Ahead(said))
  /\ Ends(c)
  /\ UNCHANGED <<said, link, seen, hand, passes, missed, faults>>

ReadCursor(c) ==
  /\ catchUp[c].step = "cursor" /\ cursor.there
  /\ catchUp' = [catchUp EXCEPT ![c].step = "page", ![c].after = cursor.at, ![c].pages = MaxPages]
  /\ UNCHANGED <<said, cursor, link, seen, hand, passes, baseline, missed, crossed, faults>>

\* Mutant: the page is handled as REST returns it, newest first.
PageNewestFirst(after) ==
  LET n == IF said - after < PageSize THEN said - after ELSE PageSize
  IN  [i \in 1..n |-> after + n + 1 - i]

\* One REST page: what follows after, oldest first.
Page(after) ==
  LET n == IF said - after < PageSize THEN said - after ELSE PageSize
  IN  [i \in 1..n |-> after + i]

FetchPage(c) ==
  LET k == catchUp[c]
      msgs == Page(k.after)
  IN /\ k.step = "page"
     /\ IF msgs = <<>> THEN Ends(c)
        ELSE catchUp' = [catchUp EXCEPT ![c] =
               [k EXCEPT !.step = "each", !.msgs = msgs, !.pages = k.pages - 1,
                         !.full = Len(msgs) = PageSize]]
     /\ crossed' = (crossed \/ \E i \in 1..Len(msgs) : Ahead(msgs[i]))
     /\ UNCHANGED <<said, cursor, link, seen, hand, passes, baseline, missed, faults>>

\* A REST call fails: the channel is skipped for this catch-up.
Hiccup(c) ==
  /\ catchUp[c].step = "page" \/ (catchUp[c].step = "cursor" /\ ~cursor.there)
  /\ Fault("hiccups")
  /\ missed' = missed \cup (catchUp[c].after + 1)..said
  /\ Ends(c)
  /\ UNCHANGED <<said, cursor, link, seen, hand, passes, baseline, crossed>>

\* The cursor first, then handle_message.
Advance(c) ==
  LET m == Head(catchUp[c].msgs) IN
  /\ catchUp[c].step = "each"
  /\ cursor' = At(m) /\ TakeUp(c, m)
  /\ catchUp' = [catchUp EXCEPT ![c].step = "handle", ![c].after = m]
  /\ UNCHANGED <<said, link, seen, passes, baseline, missed, crossed, faults>>

-----------------------------------------------------------------------------
(* handle_message, as far as its task goes: Conversation has the rest *)

\* Whose a message is: the read loop's, or of which catch-up.
Source(h) == IF h = Reader THEN 0 ELSE catchUp[h].pass

\* On from one step of handle_message to the next.
Moves(h, from, to) ==
  /\ hand[h].step = from
  /\ hand' = [hand EXCEPT ![h].step = to]
  /\ UNCHANGED <<said, cursor, link, seen, catchUp, passes, baseline, missed, crossed, faults>>

\* It returns: a catch-up goes on with its page, and after a full one with the next.
Done(h, from) ==
  LET k == catchUp[h]
      rest == Tail(k.msgs)
  IN /\ hand[h].step = from
     /\ hand' = [hand EXCEPT ![h] = Empty]
     /\ IF h = Reader THEN UNCHANGED catchUp
        ELSE catchUp' = [catchUp EXCEPT ![h] =
               IF rest # <<>> THEN [k EXCEPT !.step = "each", !.msgs = rest]
               ELSE IF k.full /\ k.pages > 0 THEN [k EXCEPT !.step = "page", !.msgs = <<>>]
               ELSE Idle]
     /\ UNCHANGED <<said, cursor, link, seen, passes, baseline, missed, crossed, faults>>

\* The daemon dies and starts again with the cursor file alone.
ReplayCrash ==
  /\ Fault("crashes")
  /\ missed' = missed \cup {hand[h].msg : h \in {x \in Handlers : hand[x].step = "file"}}
  /\ link' = "down" /\ seen' = 0
  /\ hand' = [h \in Handlers |-> Empty]
  /\ catchUp' = [c \in CatchUps |-> Idle]
  /\ UNCHANGED <<said, cursor, passes, baseline, crossed>>

ReplayInternal ==
  \/ Say \/ ReadEvent
  \/ \E next \in {"up", "down", "lost"} : Drop(next) \/ Redial(next)
  \/ \E c \in CatchUps : Ready(c) \/ Baseline(c) \/ ReadCursor(c) \/ FetchPage(c)
                         \/ Hiccup(c) \/ Advance(c)

\* Connected, every live event read and handled, and every catch-up over.
Settled == link = "up" /\ seen = said /\ hand[Reader] = Empty /\ ~CatchingUp
=============================================================================
