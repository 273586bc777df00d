------------------------------- MODULE Channels -------------------------------
(***************************************************************************)
(* The channels of a worker: what people say on Discord up to the turn of  *)
(* a warm session (Conversation), in a channel where every message wakes   *)
(* the worker ("discord") or none does ("listener"), the Slack listener    *)
(* (Slack), the lock that keeps a listener alone (Listen), and the         *)
(* operator's links between channels (Links).  `part` picks, once, which   *)
(* of them a behaviour is about; they share no file, and no memory but the *)
(* sessions map.                                                           *)
(***************************************************************************)
EXTENDS Conversation, Slack, Links, Listen

VARIABLE part

channelVars == <<vars, slack, links, listen, part>>

ChannelsInit ==
  /\ part \in {"discord", "listener", "slack", "links", "lock"}
  /\ Init /\ mode = (IF part = "discord" THEN "all" ELSE "mention")
  /\ (part # "listener" => cursor = IF part = "discord" THEN At(0) ELSE Absent)
  /\ SlackInit /\ (part # "slack" => mark = 0)
  /\ LinksInit /\ ListenInit

Rest == <<slack, links, listen, part>>

(* Bound of the part with sessions: one catch-up at a time, always the same. *)
Narrow == LET one == CHOOSE c \in CatchUps : TRUE
          IN  \A c \in CatchUps : c # one => catchUp'[c] = Idle

ChannelsNext ==
  /\ UNCHANGED part
  /\ \/ part = "discord" /\ Next /\ Narrow /\ UNCHANGED <<slack, links, listen>>
     \/ part = "listener" /\ Next /\ UNCHANGED <<slack, links, listen>>
     \/ part = "slack" /\ SlackNext /\ UNCHANGED <<vars, links, listen>>
     \/ part = "links" /\ LinksNext /\ UNCHANGED <<vars, slack, listen>>
     \/ part = "lock" /\ ListenNext /\ UNCHANGED <<vars, slack, links>>

(* The fairness of Conversation's FairSpec, for the part with sessions. *)
ChannelsSpec ==
  /\ ChannelsInit /\ [][ChannelsNext]_channelVars
  /\ WF_channelVars(part = "discord" /\ Proceeds /\ UNCHANGED Rest)
=============================================================================
