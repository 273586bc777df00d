---------------------------- MODULE WarmSession ----------------------------
(***************************************************************************)
(* The warm sessions of one channel: route_to_session of                   *)
(* src/channel/discord.rs and slack.rs, which hands a waking message to    *)
(* the live session or starts one, and run_session of src/run/boxed.rs,    *)
(* which feeds them to a box turn by turn.                                 *)
(*                                                                         *)
(* A session's mpsc queue and its own pending list are one queue: the loop *)
(* moves messages over whenever it runs, so the mpsc's bound bites only    *)
(* outside the loop.  A message that arrives just as the idle timer fires, *)
(* when select! may take either branch, counts as sent to a session that   *)
(* winds down.                                                             *)
(***************************************************************************)
EXTENDS Naturals, Sequences, SequencesExt

CONSTANTS
  Sessions,       \* of the channel at once
  None,
  QueueCap,       \* the mpsc's bound (64)
  LateSend        \* may a message be sent to a session that is winding down

ASSUME WarmSessionAssumption ==
  None \notin Sessions /\ QueueCap \in Nat \ {0} /\ LateSend \in BOOLEAN

VARIABLES
  sender,         \* the channel's entry in the sessions map
  session,        \* [Sessions -> Session]
  turned,         \* history: the message that last got a turn in a box, 0 before
  shuffled,       \* history: a turn followed that of a newer message, or of the same
  answered,       \* history: messages that got a turn, or whose loss the channel was told of
  crowded         \* history: a message found the live session's queue full

sessions == <<sender, session, turned, shuffled, answered, crowded>>

Records == <<turned, shuffled, answered>>

(* none, boxing up, idle, busy with a turn, ending well or badly *)
SessionState == {"free", "booting", "idle", "busy", "ending", "failing"}

FreeSession == [state |-> "free", queue |-> <<>>]

SessionInit ==
  /\ sender = None
  /\ session = [s \in Sessions |-> FreeSession]
  /\ turned = 0 /\ shuffled = FALSE /\ answered = {} /\ crowded = FALSE

Looping(s) == session[s].state \in {"idle", "busy"}

\* try_send succeeds: there is a session, and room in its queue.
Takes(s) ==
  /\ s # None
  /\ Looping(s) \/ Len(session[s].queue) < QueueCap

WindingDown == \E s \in Sessions : s = sender /\ session[s].state = "ending"

\* route_to_session, the first hold of the map's lock: to the live session, if it takes
\* the message.
SendTo(m) ==
  /\ LateSend \/ ~WindingDown
  /\ Takes(sender)
  /\ session' = [session EXCEPT ![sender].queue = Append(@, m)]
  /\ UNCHANGED <<sender, Records, crowded>>

NoneTakes ==
  /\ LateSend \/ ~WindingDown
  /\ ~Takes(sender)
  /\ crowded' = (crowded \/ sender # None)
  /\ UNCHANGED <<sender, session, Records>>

\* The second: a new session's sender takes the place of whatever the map has now.
StartWith(m) ==
  LET s == CHOOSE x \in Sessions : session[x].state = "free" IN
  /\ \E x \in Sessions : session[x].state = "free"
  /\ session' = [session EXCEPT ![s] = [state |-> "booting", queue |-> <<m>>]]
  /\ sender' = s
  /\ UNCHANGED <<Records, crowded>>

Enter(s, from, to) ==
  /\ session[s].state \in from
  /\ session' = [session EXCEPT ![s].state = to]
  /\ UNCHANGED <<sender, Records, crowded>>

\* The box is provisioned and spawned, or is not.
BootOk(s) == Enter(s, {"booting"}, "idle")
BootFails(s) == Enter(s, {"booting"}, "failing")

\* The next message, once the previous turn is done.
Feed(s) ==
  LET m == Head(session[s].queue) IN
  /\ session[s].state = "idle" /\ session[s].queue # <<>>
  /\ session' = [session EXCEPT ![s] = [state |-> "busy", queue |-> Tail(@.queue)]]
  /\ turned' = m /\ answered' = answered \cup {m}
  /\ shuffled' = (shuffled \/ m <= turned)
  /\ UNCHANGED <<sender, crowded>>

TurnEnds(s) == Enter(s, {"busy"}, "idle")

\* The idle window passes, or the session ceiling between turns, or the sender
\* was replaced and the queue is drained.
WindsDown(s) == session[s].queue = <<>> /\ Enter(s, {"idle"}, "ending")

\* The box exits, or a turn or the session runs past its ceiling mid-turn.
BoxDies(s) == Enter(s, {"idle", "busy"}, "failing")
TurnCeiling(s) == Enter(s, {"busy"}, "failing")

\* Mutant: a session that failed says nothing.
ReturnsQuietly(s) ==
  /\ session[s].state \in {"ending", "failing"}
  /\ session' = [session EXCEPT ![s] = FreeSession]
  /\ sender' = IF sender = s THEN None ELSE sender
  /\ UNCHANGED <<Records, crowded>>

(* The box is killed and waited for, run_session returns and drops its queue;
   the entry is removed if it is this session's, and after a failure the
   channel is told.                                                           *)
Returns(s) ==
  /\ session[s].state \in {"ending", "failing"}
  /\ session' = [session EXCEPT ![s] = FreeSession]
  /\ sender' = IF sender = s THEN None ELSE sender
  /\ answered' = answered \cup IF session[s].state = "failing" THEN ToSet(session[s].queue) ELSE {}
  /\ UNCHANGED <<turned, shuffled, crowded>>

\* The daemon dies: its boxes lose their stdin, its queues are gone.
SessionCrash ==
  /\ sender' = None
  /\ session' = [s \in Sessions |-> FreeSession]
  /\ UNCHANGED <<Records, crowded>>

(* What happens by itself: the box comes up or fails to, the loop feeds it and ends
   when nobody can send to it any more, a turn is cut at its ceiling, and docker
   kill returns.  Only one of them can happen at a time.                      *)
GoesOn(s) ==
  \/ BootOk(s) \/ BootFails(s) \/ Feed(s) \/ TurnCeiling(s) \/ Returns(s)
  \/ sender # s /\ WindsDown(s)

SessionStep ==
  \E s \in Sessions : \/ BootOk(s) \/ BootFails(s) \/ Feed(s) \/ TurnEnds(s)
                      \/ WindsDown(s) \/ BoxDies(s) \/ TurnCeiling(s) \/ Returns(s)
=============================================================================
