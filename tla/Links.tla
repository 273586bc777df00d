-------------------------------- MODULE Links --------------------------------
(***************************************************************************)
(* Linked channels (src/channel/links.rs) and channel settings             *)
(* (src/channel/discord.rs): the operator links surfaces into one channel, *)
(* unlinks and removes them, each command a process of its own that reads  *)
(* the registry, writes it, and then moves files, without a lock.  The     *)
(* listener meanwhile files what people say under the channel the surface  *)
(* belongs to.                                                             *)
(*                                                                         *)
(* One command at a time, which may be killed between two steps.  Messages *)
(* are numbered in the order they are said; files/ and purpose.md, which   *)
(* are moved as messages.jsonl is, are left out.                           *)
(***************************************************************************)
EXTENDS Naturals, Sequences, FiniteSets, SequencesExt

CONSTANTS Surfaces,
          Rooms,        \* the surfaces that are not 1:1
          Terminals,    \* the surfaces that are a terminal's
          Names,        \* names commands may give a linked channel
          NoFile,
          MaxFiled,     \* bound: messages
          MaxCommands,  \* bound: commands
          MaxKills      \* bound: commands killed

ASSUME LinksAssumption ==
  /\ IsFiniteSet(Surfaces) /\ NoFile \notin Seq(Nat)
  /\ Rooms \subseteq Surfaces /\ Terminals \subseteq Surfaces \ Rooms
  /\ MaxFiled \in Nat /\ MaxCommands \in Nat /\ MaxKills \in Nat

Ids == Surfaces \cup Names

VARIABLES registry,  \* links.json: [name -> set of member surfaces], a function on some Ids
          log,       \* per id: messages.jsonl, or NoFile
          old,       \* per id: messages.jsonl.linked, or NoFile
          meta,      \* the surfaces with a meta.json
          settings,  \* settings.json: [trusted, mode] of some Ids
          cmd,       \* the operator's command
          said_on,   \* history: the surface of each message, in order
          torn,      \* history: messages filed under a merge, or under a command that was killed
          since,     \* history, per surface: its messages since it was last by itself
          grants,    \* history: the ids an admin has trusted
          commands, kills

links == <<registry, log, old, meta, settings, cmd, said_on, torn, since, grants, commands, kills>>

NoCommand == [step |-> "idle", name |-> NoFile, fresh |-> <<>>, at |-> 1, reg |-> <<>>, text |-> <<>>]

NoEntry == <<>>

LinksInit ==
  /\ registry = NoEntry /\ settings = NoEntry
  /\ log = [i \in Ids |-> NoFile] /\ old = [i \in Ids |-> NoFile]
  /\ meta = Rooms /\ cmd = NoCommand
  /\ said_on = <<>> /\ torn = {} /\ since = [s \in Surfaces |-> {}] /\ grants = {}
  /\ commands = 0 /\ kills = 0

Text(text) == IF text = NoFile THEN <<>> ELSE text

-----------------------------------------------------------------------------
(* The registry *)

\* The channel a surface belongs to: its own unless a link names it.
logical_of(reg, s) ==
  IF \E n \in DOMAIN reg : s \in reg[n]
  THEN CHOOSE n \in DOMAIN reg : s \in reg[n]
  ELSE s

in_registry(reg, i) == i \in DOMAIN reg \/ \E n \in DOMAIN reg : i \in reg[n]

\* Where an id's conversation is filed: it is resolved once more.
channel_dir(reg, i) == logical_of(reg, i)

With(f, i, x) == [j \in DOMAIN f \cup {i} |-> IF j = i THEN x ELSE f[j]]
Without(f, S) == [j \in DOMAIN f \ S |-> f[j]]

-----------------------------------------------------------------------------
(* settings.json, one locked read-modify-write a step *)

Default == [trusted |-> FALSE, mode |-> "all"]
Entry(i) == IF i \in DOMAIN settings THEN settings[i] ELSE Default

\* The id is resolved, and once more to see whether anything changes.
Trust(i, trusted) ==
  LET c == logical_of(registry, i) IN
  IF Entry(logical_of(registry, c)).trusted = trusted THEN settings
  ELSE With(settings, c, [Entry(c) EXCEPT !.trusted = trusted])

Mode(i, mode) == With(settings, i, [Entry(i) EXCEPT !.mode = mode])

\* The strictest wake mode survives, and a linked channel is trusted.
absorb_settings(name, members) ==
  LET mention == \E i \in members \cup {name} : Entry(i).mode = "mention"
  IN With(Without(settings, members), name, [trusted |-> TRUE, mode |-> IF mention THEN "mention" ELSE Entry(name).mode])

-----------------------------------------------------------------------------
(* The listener *)

\* The steps of a merge between reading a file and replacing it.
Merging(i) == cmd.step \in {"write", "rename"} /\ i \in {cmd.name, cmd.fresh[cmd.at]}

\* handle_message: a DM is trusted by being one; the message goes to the history of
\* the surface's channel.
Persist(s) ==
  LET m == Len(said_on) + 1
      d == channel_dir(registry, logical_of(registry, s))
  IN /\ Len(said_on) < MaxFiled
     /\ said_on' = Append(said_on, s)
     /\ since' = [since EXCEPT ![s] = @ \cup {m}]
     /\ log' = [log EXCEPT ![d] = Append(Text(log[d]), m)]
     /\ torn' = IF Merging(d) THEN torn \cup {m} ELSE torn
     /\ settings' = IF s \in Rooms THEN settings ELSE Trust(s, TRUE)
     /\ meta' = IF s \in Terminals THEN meta ELSE meta \cup {s}
     /\ UNCHANGED <<registry, old, cmd, grants, commands, kills>>

-----------------------------------------------------------------------------
(* roster channel link *)

Issue == commands < MaxCommands /\ commands' = commands + 1

Narrative == <<said_on, torn, since, grants>>

\* The checks, on the registry as it is read.
LinkAllowed(reg, name, sids) ==
  /\ sids # {} /\ sids \subseteq Terminals \cup (meta \ Rooms)
  /\ name \in DOMAIN reg \/ name \notin meta \/ name \in sids
  /\ \A n \in DOMAIN reg \ {name} : sids \cap reg[n] = {}

Members(reg, name) == IF name \in DOMAIN reg THEN reg[name] ELSE {}

LinkLoad(name, sids) ==
  LET fresh == SetToSeq(sids \ Members(registry, name)) IN
  /\ cmd.step = "idle" /\ Issue
  /\ LinkAllowed(registry, name, sids)
  /\ cmd' = [NoCommand EXCEPT !.step = "save", !.name = name, !.fresh = fresh,
                           !.reg = With(registry, name, Members(registry, name) \cup sids)]
  /\ UNCHANGED <<registry, log, old, meta, settings, Narrative, kills>>

Mergeable == {i \in 1..Len(cmd.fresh) : cmd.fresh[i] # cmd.name /\ log[cmd.fresh[i]] # NoFile}

\* The registry; then each newly linked surface's history is merged into the channel's.
LinkSave ==
  /\ cmd.step = "save"
  /\ registry' = cmd.reg
  /\ cmd' = [cmd EXCEPT !.step = "merge", !.reg = NoEntry]
  /\ UNCHANGED <<log, old, meta, settings, Narrative, commands, kills>>

MergeNone ==
  /\ cmd.step = "merge" /\ cmd.at \notin Mergeable
  /\ cmd' = IF cmd.at < Len(cmd.fresh) THEN [cmd EXCEPT !.at = @ + 1] ELSE [cmd EXCEPT !.step = "absorb"]
  /\ UNCHANGED <<registry, log, old, meta, settings, Narrative, commands, kills>>

\* Mutant: the surface's lines after the channel's.
Appended(a, b) == a \o b

\* By the time they were said; a line's place is how many are no later.
Interleaved(a, b) ==
  LET lines == a \o b
      Before(j, i) == lines[j] < lines[i] \/ (lines[j] = lines[i] /\ j <= i)
      Rank(i) == Cardinality({j \in DOMAIN lines : Before(j, i)})
  IN [k \in DOMAIN lines |-> lines[CHOOSE i \in DOMAIN lines : Rank(i) = k]]

MergeRead ==
  /\ cmd.step = "merge" /\ cmd.at \in Mergeable
  /\ cmd' = [cmd EXCEPT !.step = "write",
                        !.text = Interleaved(Text(log[cmd.name]), log[cmd.fresh[cmd.at]])]
  /\ UNCHANGED <<registry, log, old, meta, settings, Narrative, commands, kills>>

MergeWrite ==
  /\ cmd.step = "write"
  /\ log' = [log EXCEPT ![cmd.name] = cmd.text]
  /\ cmd' = [cmd EXCEPT !.step = "rename", !.text = <<>>]
  /\ UNCHANGED <<registry, old, meta, settings, Narrative, commands, kills>>

\* The original is kept beside, over an older one.
MergeRename ==
  LET s == cmd.fresh[cmd.at] IN
  /\ cmd.step = "rename"
  /\ log' = [log EXCEPT ![s] = NoFile] /\ old' = [old EXCEPT ![s] = log[s]]
  /\ cmd' = [cmd EXCEPT !.step = "merge"]
  /\ UNCHANGED <<registry, meta, settings, Narrative, commands, kills>>

Absorb ==
  /\ cmd.step = "absorb"
  /\ settings' = absorb_settings(cmd.name, ToSet(cmd.fresh))
  /\ cmd' = NoCommand
  /\ UNCHANGED <<registry, log, old, meta, Narrative, commands, kills>>

-----------------------------------------------------------------------------
(* roster channel unlink, trust, set mode, rm *)

\* A group left with one member dissolves.
Departed(reg, s) ==
  LET n    == logical_of(reg, s)
      left == reg[n] \ {s}
  IN IF Cardinality(left) <= 1 THEN Without(reg, {n}) ELSE With(reg, n, left)

UnlinkLoad(s) ==
  /\ cmd.step = "idle" /\ Issue
  /\ \E n \in DOMAIN registry : s \in registry[n]
  /\ cmd' = [NoCommand EXCEPT !.step = "unlink", !.reg = Departed(registry, s)]
  /\ UNCHANGED <<registry, log, old, meta, settings, Narrative, kills>>

\* Whoever is by itself again starts over.
UnlinkSave ==
  /\ cmd.step = "unlink"
  /\ registry' = cmd.reg /\ cmd' = NoCommand
  /\ since' = [s \in Surfaces |-> IF logical_of(cmd.reg, s) # logical_of(registry, s) THEN {} ELSE since[s]]
  /\ UNCHANGED <<log, old, meta, settings, said_on, torn, grants, commands, kills>>

set_channel_trust(i, trusted) ==
  /\ cmd.step = "idle" /\ Issue
  /\ settings' = Trust(logical_of(registry, i), trusted)
  /\ grants' = IF trusted THEN grants \cup {logical_of(registry, logical_of(registry, i))} ELSE grants
  /\ UNCHANGED <<registry, log, old, meta, cmd, said_on, torn, since, kills>>

set_channel_mode(i, mode) ==
  /\ cmd.step = "idle" /\ Issue
  /\ settings' = Mode(logical_of(registry, i), mode)
  /\ UNCHANGED <<registry, log, old, meta, cmd, Narrative, kills>>

\* A linked id is refused; the settings go, and the record to the trash.
rm(i) ==
  /\ cmd.step = "idle" /\ Issue
  /\ ~ in_registry(registry, i) /\ ({log[i], old[i]} # {NoFile} \/ i \in meta \cup DOMAIN settings)
  /\ settings' = Without(settings, {i})
  /\ log' = [log EXCEPT ![i] = NoFile] /\ old' = [old EXCEPT ![i] = NoFile]
  /\ meta' = meta \ {i}
  /\ since' = [s \in Surfaces |-> since[s] \ ToSet(Text(log[i]))]
  /\ UNCHANGED <<registry, cmd, said_on, torn, grants, kills>>

\* The command is killed where it is.
Killed ==
  /\ cmd.step # "idle" /\ kills < MaxKills /\ kills' = kills + 1
  /\ torn' = IF cmd.step \in {"save", "unlink"} THEN torn
             ELSE torn \cup UNION {ToSet(Text(log[i])) : i \in {cmd.name} \cup ToSet(cmd.fresh)}
  /\ cmd' = NoCommand
  /\ UNCHANGED <<registry, log, old, meta, settings, said_on, since, grants, commands>>

LinksNext ==
  \/ \E s \in Surfaces : Persist(s) \/ UnlinkLoad(s)
  \/ \E n \in Names, sids \in SUBSET Surfaces : LinkLoad(n, sids)
  \/ LinkSave \/ MergeNone \/ MergeRead \/ MergeWrite \/ MergeRename \/ Absorb \/ UnlinkSave
  \/ \E i \in Ids : \/ \E trusted \in BOOLEAN : set_channel_trust(i, trusted)
                    \/ \E mode \in {"all", "mention"} : set_channel_mode(i, mode)
                    \/ rm(i)
  \/ Killed

-----------------------------------------------------------------------------
(* Properties *)

Times(m, i) == Cardinality({k \in DOMAIN Text(log[i]) : log[i][k] = m})

\* The channel of a surface holds all it said since it was last by itself, once and in
\* the order people spoke, wherever it was linked from and to in between
\* (docs/channels.md:182 "histories interleave"), but for what was filed under a merge
\* or a killed command; a room shares its history with no other surface
\* (docs/channels.md:188); and it is trusted if an admin trusted it, a room above all.
HistoryFollowsTheConversation ==
  /\ cmd.step \in {"idle", "save", "unlink"} =>
       \A s \in Surfaces : \A m \in since[s] \ torn : Times(m, logical_of(registry, s)) = 1
  /\ \A i \in Ids : torn = {} => \A j, k \in DOMAIN Text(log[i]) : j < k => log[i][j] < log[i][k]
  /\ \A s \in Rooms : /\ logical_of(registry, s) = s
                      /\ \A m \in ToSet(Text(log[s])) : said_on[m] = s
                      /\ Entry(s).trusted => s \in grants

\* links.rs:225, "the channel (and its history and store) stays with the remaining
\* members": only the one who leaves changes channel.
StaysWithTheRest ==
  [][cmd.step = "unlink" =>
       Cardinality({s \in Surfaces : logical_of(registry', s) # logical_of(registry, s)}) <= 1]_links

\* links.rs:226, "the departing surface starts over as a fresh singleton".
StartsOver ==
  cmd.step = "idle" /\ torn = {} =>
    \A s, t \in Surfaces : logical_of(registry, s) = s /\ s # t =>
      channel_dir(registry, logical_of(registry, t)) # s
=============================================================================
