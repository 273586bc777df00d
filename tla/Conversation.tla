---------------------------- MODULE Conversation ----------------------------
(***************************************************************************)
(* A channel from what people say to what the worker's boxes hear:         *)
(* handle_message (src/channel/discord.rs) joins the listener of Replay    *)
(* to the sessions of WarmSession.  It appends the message to the          *)
(* channel's history, downloads what is attached and routes a message      *)
(* that wakes the worker to the channel's session.  The read loop and the  *)
(* catch-ups do so side by side.                                           *)
(***************************************************************************)
EXTENDS Replay, WarmSession

VARIABLES
  history,        \* messages.jsonl; who filed a line is kept for the properties
  mode            \* of the channel: "all" messages wake the worker, or none does
                  \* ("mention", and nobody mentions it)

vars == <<replay, sessions, history, mode>>

Init == ReplayInit /\ SessionInit /\ history = <<>> /\ mode \in {"all", "mention"}

\* persist_message; then the downloads are awaited.
File(h) ==
  /\ Moves(h, "file", "route")
  /\ history' = Append(history, [msg |-> hand[h].msg, by |-> Source(h)])
  /\ UNCHANGED <<sessions, mode>>

\* route_to_session: a look-up, and a new session if there was none to take it.
Deliver(h) ==
  /\ \/ mode = "mention" /\ Done(h, "route") /\ UNCHANGED sessions
     \/ mode = "all" /\ Done(h, "route") /\ SendTo(hand[h].msg)
     \/ mode = "all" /\ Moves(h, "route", "open") /\ NoneTakes
  /\ UNCHANGED <<history, mode>>

Open(h) == Done(h, "open") /\ StartWith(hand[h].msg) /\ UNCHANGED <<history, mode>>

Crash == ReplayCrash /\ SessionCrash /\ UNCHANGED <<history, mode>>

Next ==
  \/ ReplayInternal /\ UNCHANGED <<sessions, history, mode>>
  \/ SessionStep /\ UNCHANGED <<replay, history, mode>>
  \/ \E h \in Handlers : File(h) \/ Deliver(h) \/ Open(h)
  \/ Crash

Spec == Init /\ [][Next]_vars

(* What goes on by itself: a download ends, and the message is routed; a session
   goes on.  Nothing makes people speak, boxes die or connections drop.       *)
Proceeds ==
  \/ \E h \in Handlers : Deliver(h) \/ Open(h)
  \/ \E s \in Sessions : GoesOn(s) /\ UNCHANGED <<replay, history, mode>>

(* Tasks and sessions all run; that one of them always goes on is less, and enough
   where messages are bounded.                                                *)
FairSpec == Spec /\ WF_vars(Proceeds)

-----------------------------------------------------------------------------
(* Properties *)

Filed == {history[i].msg : i \in 1..Len(history)}

(* docs/channels.md:40, "Nothing said while the server was down is lost": once
   the listener is connected and has caught up, everything said since the
   channel has a cursor is in its history, across lost connections, refused
   resumes and restarts.  Excepted is what was being handled when the daemon
   died, which the cursor was already past, and what a failed REST call left;
   and a channel in which a catch-up has met a connection, where the code keeps
   no such promise (EverythingIsKept).                                        *)
NothingLost ==
  Settled /\ ~crossed => \A m \in (baseline + 1)..said : m \in missed \cup Filed

\* The same as the docs have it, whatever runs beside a catch-up.
EverythingIsKept ==
  Settled => \A m \in (baseline + 1)..said : m \in missed \cup Filed

(* Whatever runs beside whatever, what the read loop files and what one catch-up
   files is in the order people spoke and no message twice: a message has two
   lines only if a catch-up met the live event, or another catch-up, over it.
   Where none ever met, so is the whole history, whichever mix of live events,
   replays and REST pages brought it ...                                      *)
HistoryInOrder ==
  \A i, j \in 1..Len(history) :
    i < j /\ (history[i].by = history[j].by \/ ~crossed) => history[i].msg < history[j].msg

(* ... and the turns of the sessions follow in that order, no message with two of
   them (docs/channels.md:125-126, "fed to the session turn by turn"), short of
   a queue of 64 that is full, which starts a second session beside the first. *)
TurnsInOrder ==
  ~crossed /\ ~crowded => ~shuffled

InOrder == HistoryInOrder /\ TurnsInOrder

(* A message in the history that wakes the worker gets its turn in a box, or the channel is
   told that it did not; what the daemon's own death takes along is excepted. *)
EveryMessageIsAnswered ==
  \A m \in Message :
    mode = "all" /\ m \in Filed ~> m \in answered \/ faults.crashes > 0
=============================================================================
