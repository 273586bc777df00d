----------------------------- MODULE Connections -----------------------------
(***************************************************************************)
(* The connection files, who writes them and who reads them.  Every CLI    *)
(* command (src/cli/connections.rs) is a process of its own that reads a   *)
(* file, and later writes it, without a lock.  A request of the gateway    *)
(* (src/gateway/proxy.rs) takes the configuration from the daemon's cache  *)
(* (src/config.rs snapshot), or stats and reads the files one by one.      *)
(*                                                                         *)
(* `scene` picks, once, what a behaviour is about: commands on any files,  *)
(* or requests that race commands.                                         *)
(***************************************************************************)
EXTENDS Grants

CONSTANTS Clis, Requests,  \* one command, one request each
          Registered,      \* connections whose name is a provider of the registry
          Scopes,          \* the --restrict scopes commands may give
          StartsOf         \* per scene, the files there may be at the start

ASSUME ConnectionsAssumption ==
  /\ ConnOrder \in Seq(Conns) /\ IsInjective(ConnOrder)
  /\ {"specs", "vault"} \cap Conns = {}
  /\ Scopes \subseteq Scope
  /\ \A sc \in {"commands", "requests"} : \A start \in StartsOf[sc] :
       /\ start \in [Conns -> {start[c] : c \in Conns}]
       /\ \A c \in Conns : start[c] = None \/ WellFormed(start[c])
  /\ \A who \in SUBSET Who : None # who /\ None \notin [who -> Scope]

VARIABLES scene,
          files, secrets, bound, \* the disk: connection files, vault names, [channels] bindings
          stamp,                 \* per part of the disk: which write it holds (its mtime)
          cli,                   \* per command
          cache,                 \* the daemon's last load: [fp, conf], or None
          req,                   \* per request
          since                  \* history, per request: what each part has been since it began

disk == <<files, secrets, bound, stamp>>
connVars == <<scene, disk, cli, cache, req, since>>

Disk == [files |-> files, secrets |-> secrets, bound |-> bound]

\* The order in which `fingerprint` stats and `load` reads.
Parts == <<"specs">> \o ConnOrder \o <<"vault">>

Content(p) == CASE p = "specs" -> bound
                [] p = "vault" -> secrets
                [] OTHER       -> files[p]

Waiting == [step |-> "idle", conn |-> None, who |-> "org", scope |-> Open, text |-> None]

Asking == [step |-> "idle", at |-> 1, fp |-> <<>>, conf |-> None]

ConnInit ==
  /\ scene \in {"commands", "requests"}
  /\ files \in StartsOf[scene]
  /\ secrets \in IF scene = "commands" THEN {{c \in Conns : Kind[c] # "mount"}, {}}
                 ELSE {{c \in Conns : Kind[c] # "mount"}}
  /\ bound \in {[w \in Workers |-> IF w = listener THEN c ELSE None] :
                listener \in Workers, c \in {None} \cup IF scene = "commands" THEN {x \in Conns : Kind[x] = "scoped"} ELSE {}}
  /\ stamp = [p \in ToSet(Parts) |-> 0]
  /\ cli = [p \in Clis |-> Waiting]
  /\ cache = None
  /\ req = [q \in Requests |-> Asking]
  /\ since = [q \in Requests |-> [p \in ToSet(Parts) |-> {}]]

-----------------------------------------------------------------------------
(* Writes *)

UnderWay(q) == req[q].step \in {"stat", "read"}

\* A write of part p; every write has its own mtime.
Stamped(p, new) ==
  /\ stamp' = [stamp EXCEPT ![p] = @ + 1]
  /\ since' = [q \in Requests |-> IF UnderWay(q) THEN [since[q] EXCEPT ![p] = @ \cup {new}]
                                  ELSE since[q]]

WriteFile(c, f) ==
  files' = [files EXCEPT ![c] = f] /\ Stamped(c, f) /\ UNCHANGED <<secrets, bound>>

WriteSecrets(S) == secrets' = S /\ Stamped("vault", S) /\ UNCHANGED <<files, bound>>

WriteSpec(w, c) ==
  /\ bound' = [bound EXCEPT ![w] = c] /\ Stamped("specs", [bound EXCEPT ![w] = c])
  /\ UNCHANGED <<files, secrets>>

KeepDisk == UNCHANGED <<disk, since>>

Become(p, step) == cli' = [cli EXCEPT ![p].step = step]

Daemon == <<scene, cache, req>>

-----------------------------------------------------------------------------
(* roster connection grant / revoke *)

\* `resolve_edge_who` and the read of the file; without one, only the name of a
\* provider with something to grant goes on.
Grant(p, c, who, scope) ==
  /\ cli[p].step = "idle"
  /\ files[c] = None => c \in Registered
  /\ Kind[c] = "scoped" \/ scope = Open
  /\ cli' = [cli EXCEPT ![p] = [step |-> "grant", conn |-> c, who |-> who,
                                scope |-> scope, text |-> files[c]]]
  /\ KeepDisk /\ UNCHANGED Daemon

\* Mutant: every migrated edge becomes the fleet-wide one.
MigratedToOrg(f) == IF Legacy(f) THEN Table([w \in {"org"} |-> Shared(f)]) ELSE f

\* `migrate_legacy_grants`: without workers the one edge is the fleet's.
Migrated(f) ==
  IF ~ Legacy(f) THEN f
  ELSE Table([w \in IF f.workers = None THEN {"org"} ELSE f.workers |-> Shared(f)])

\* `upsert_grant_edge`, on a file with or without tables.
Upserted(f, who, scope) ==
  LET old == IF f.grants = None THEN NoEdges ELSE f.grants
  IN Table([w \in DOMAIN old \cup {who} |-> IF w = who THEN scope ELSE old[w]])

\* The write.  A missing file is scaffolded; a service's scaffold keeps what has
\* appeared in between.
GrantWrite(p) ==
  LET r == cli[p] IN
  /\ r.step = "grant" /\ Become(p, "done")
  /\ IF r.text # None
     THEN WriteFile(r.conn, Upserted(Migrated(r.text), r.who, r.scope))
     ELSE IF Kind[r.conn] # "model" /\ files[r.conn] # None
          THEN KeepDisk
          ELSE WriteFile(r.conn, Upserted(Bare, r.who, r.scope))
  /\ UNCHANGED Daemon

Revoke(p, c, who) ==
  /\ cli[p].step = "idle" /\ files[c] # None
  /\ Migrated(files[c]).grants # None /\ who \in DOMAIN Migrated(files[c]).grants
  /\ cli' = [cli EXCEPT ![p] = [step |-> "revoke", conn |-> c, who |-> who,
                                scope |-> Open, text |-> files[c]]]
  /\ KeepDisk /\ UNCHANGED Daemon

\* Without its last edge a mount keeps an empty [grant]; a service's file, no marker.
Withdrawn(c, f, who) ==
  LET left == [w \in DOMAIN f.grants \ {who} |-> f.grants[w]]
  IN IF DOMAIN left = {} /\ Kind[c] # "mount" THEN Bare ELSE Table(left)

\* The file first, then the worker's listener binding.
RevokeWrite(p) ==
  LET r == cli[p] IN
  /\ r.step = "revoke"
  /\ WriteFile(r.conn, Withdrawn(r.conn, Migrated(r.text), r.who))
  /\ Become(p, IF r.who = "org" THEN "done" ELSE "unbind")
  /\ UNCHANGED Daemon

\* `remove_channel_binding`: the spec is read, then written without the line.
UnbindRead(p) ==
  /\ cli[p].step = "unbind"
  /\ Become(p, IF bound[cli[p].who] = cli[p].conn THEN "unbound" ELSE "done")
  /\ KeepDisk /\ UNCHANGED Daemon

UnbindWrite(p) ==
  /\ cli[p].step = "unbound"
  /\ WriteSpec(cli[p].who, None) /\ Become(p, "done") /\ UNCHANGED Daemon

-----------------------------------------------------------------------------
(* roster connection add / rm *)

\* `connect`: the configuration must load; the edge is a worker's, the fleet's or,
\* when scope is None, nobody's.
Add(p, c, who) ==
  /\ cli[p].step = "idle" /\ Kind[c] # "mount"
  /\ Loads(Disk)
  /\ cli' = [cli EXCEPT ![p] = [step |-> "store", conn |-> c, who |-> who, scope |-> Open, text |-> None]]
  /\ KeepDisk /\ UNCHANGED Daemon

StoreSecret(p) ==
  /\ cli[p].step = "store"
  /\ WriteSecrets(secrets \cup {cli[p].conn}) /\ Become(p, "scaffold") /\ UNCHANGED Daemon

\* `scaffold_connection`, `ensure_model_connection`: a file that is there is kept; a
\* model nobody names a worker for is everyone's.
Scaffold(p) ==
  LET r == cli[p] IN
  /\ r.step = "scaffold"
  /\ Become(p, IF Kind[r.conn] = "scoped" /\ r.who \in Workers THEN "bind" ELSE "done")
  /\ IF files[r.conn] # None THEN KeepDisk
     ELSE WriteFile(r.conn, IF r.who # None THEN Upserted(Bare, r.who, Open)
                            ELSE IF Kind[r.conn] = "model" THEN Upserted(Bare, "org", Open)
                            ELSE Bare)
  /\ UNCHANGED Daemon

\* `bind_channel`: refused when another worker listens with it, or this one with another.
BindRead(p) ==
  LET r == cli[p] IN
  /\ r.step = "bind"
  /\ Become(p, IF bound[r.who] = None /\ \A w \in Workers : bound[w] # r.conn THEN "binding" ELSE "done")
  /\ KeepDisk /\ UNCHANGED Daemon

BindWrite(p) ==
  /\ cli[p].step = "binding"
  /\ WriteSpec(cli[p].who, cli[p].conn) /\ Become(p, "done") /\ UNCHANGED Daemon

\* The secret first; the file if the admin agrees; bindings are reported only.
Rm(p, c) ==
  /\ cli[p].step = "idle"
  /\ c \in secrets \/ files[c] # None \/ \E w \in Workers : bound[w] = c
  /\ cli' = [cli EXCEPT ![p] = [Waiting EXCEPT !.step = "rmfile", !.conn = c]]
  /\ IF c \in secrets THEN WriteSecrets(secrets \ {c}) ELSE KeepDisk
  /\ UNCHANGED Daemon

RmFile(p) ==
  /\ cli[p].step = "rmfile" /\ Become(p, "done")
  /\ \/ KeepDisk
     \/ files[cli[p].conn] # None /\ WriteFile(cli[p].conn, None)
  /\ UNCHANGED Daemon

Command(p) ==
  \/ \E c \in Conns, who \in Who, scope \in Scopes : Grant(p, c, who, scope)
  \/ \E c \in Conns, who \in Who : Revoke(p, c, who)
  \/ \E c \in Conns, who \in Who \cup {None} : Add(p, c, who)
  \/ \E c \in Conns : Rm(p, c)
  \/ GrantWrite(p) \/ RevokeWrite(p) \/ UnbindRead(p) \/ UnbindWrite(p)
  \/ StoreSecret(p) \/ Scaffold(p) \/ BindRead(p) \/ BindWrite(p) \/ RmFile(p)

-----------------------------------------------------------------------------
(* snapshot, and the request that asked for it *)

Reader == <<scene, disk, cli>>

Begin(q) ==
  /\ req[q].step = "idle"
  /\ req' = [req EXCEPT ![q].step = "stat"]
  /\ since' = [since EXCEPT ![q] = [p \in ToSet(Parts) |-> {Content(p)}]]
  /\ UNCHANGED <<Reader, cache>>

\* `fingerprint`, one stat a step; after the last, the cache answers or `load` begins.
Stat(q) ==
  LET r  == req[q]
      fp == Append(r.fp, stamp[Parts[r.at]]) IN
  /\ r.step = "stat"
  /\ req' = [req EXCEPT ![q] =
       IF Len(fp) < Len(Parts) THEN [r EXCEPT !.fp = fp, !.at = r.at + 1]
       ELSE IF cache # None /\ cache.fp = fp
            THEN [r EXCEPT !.fp = fp, !.at = 1, !.conf = cache.conf, !.step = "judge"]
            ELSE [r EXCEPT !.fp = fp, !.at = 1, !.step = "read",
                           !.conf = [files |-> [c \in Conns |-> None], secrets |-> {}, bound |-> bound]]]
  /\ UNCHANGED <<Reader, cache, since>>

\* `load`: the specs, then each file together with whether its secret is there.
Read(q) ==
  LET r    == req[q]
      part == Parts[r.at] IN
  /\ r.step = "read" /\ part # "vault"
  /\ req' = [req EXCEPT ![q] = [r EXCEPT !.at = r.at + 1,
       !.conf = IF part = "specs" THEN [r.conf EXCEPT !.bound = bound]
                ELSE [r.conf EXCEPT !.files[part] = files[part],
                                    !.secrets = r.conf.secrets \cup ({part} \cap secrets)]]]
  /\ UNCHANGED <<Reader, cache, since>>

\* Mutant: the cache is keyed by what the disk is now.
KeyedNow(q) == [i \in DOMAIN Parts |-> stamp[Parts[i]]]

\* The key of a load is the fingerprint taken before it.
Key(q) == req[q].fp

\* `validate_exposes` asks the vault again; an invalid configuration is nobody's.
Loaded(q) ==
  LET conf == req[q].conf IN
  /\ req[q].step = "read" /\ Parts[req[q].at] = "vault"
  /\ IF Loads(conf) /\ \A e \in Exposed(conf) : e.conn \in secrets
     THEN cache' = [fp |-> Key(q), conf |-> conf] /\ req' = [req EXCEPT ![q].step = "judge", ![q].at = 1]
     ELSE cache' = cache /\ req' = [req EXCEPT ![q].step = "refused", ![q].at = 1]
  /\ UNCHANGED <<Reader, since>>

\* `gate`: the call is judged, and the credential of its rule read from the vault.
Judge(q, w, c) ==
  LET rule == judge(Rules(req[q].conf), w, [host |-> Host[c], kind |-> "host", id |-> None, spelt |-> TRUE])
  IN /\ req[q].step = "judge"
     /\ req' = [req EXCEPT ![q].step = IF ~ rule.allow THEN "denied"
                      ELSE IF rule.conn # None /\ rule.conn \notin secrets THEN "outage" ELSE "sent"]
     /\ UNCHANGED <<Reader, cache, since>>

Request(q) ==
  \/ Begin(q) \/ Stat(q) \/ Read(q) \/ Loaded(q)
  \/ \E w \in Workers, c \in {x \in Conns : Kind[x] # "mount"} : Judge(q, w, c)

ConnNext ==
  \/ \E p \in Clis : Command(p)
  \/ scene = "requests" /\ \E q \in Requests : Request(q)

-----------------------------------------------------------------------------
(* Properties *)

CallTo(c, s, spelt) == [host |-> Host[c], kind |-> "channel", id |-> s, spelt |-> spelt]

\* Where the rules of an edge are coarser than what it says of channel s.
Coarse(scope, s) == scope.servers # {} \/ \E x \in scope.surfaces : <<x, s>> \in Begins

\* One scope, two enforcers (config.rs:902, discord.rs: "one scope governs every use"):
\* whatever the commands made of the files, the gateway lets a worker's box call every
\* channel its listener admits, and of the paths that spell a channel as the rules do
\* no other, but for a servers dimension, which is the listener's alone by design, and
\* for a channel whose id begins with a listed one's.
OneScopeEverywhere ==
  scene = "commands" /\ Loads(Disk) => LET rules == Rules(Disk) IN
    \A c \in Enabled(Disk), w \in Workers, s \in Channels :
    Kind[c] = "scoped" /\ Alone(Disk, c, w) /\ (ServerOf[s] = None => ClassOf[s] = "dm") =>
      LET reach(spelt) == ActsAs(rules, c, w, CallTo(c, s, spelt))
          admitted == allows_surface(Disk, c, w, s)
      IN /\ admitted => reach(TRUE) /\ reach(FALSE)
         /\ reach(TRUE) => admitted \/ (HasEdge(Disk, c, w) /\ Coarse(grant_for(Disk, c, w), s))

\* config.rs:931, "A channels restriction IS fully enforced here": of every path by
\* which the service knows a channel.  No run checks it, and it is false: a path the
\* deny rules do not begin falls to the rule of the host.
ChannelsAreConfined ==
  scene = "commands" /\ Loads(Disk) =>
    \A c \in Enabled(Disk), w \in Workers, s \in Channels, spelt \in BOOLEAN :
      Kind[c] = "scoped" /\ Alone(Disk, c, w) /\ HasEdge(Disk, c, w) /\ (ServerOf[s] = None => ClassOf[s] = "dm") =>
        allows_surface(Disk, c, w, s) \/ Coarse(grant_for(Disk, c, w), s)
          \/ ~ ActsAs(Rules(Disk), c, w, CallTo(c, s, spelt))

\* What the briefing tells a worker it has is what its box is given, each env stands
\* for one credential, and a call to the host goes out with it (context.rs:713, boxed.rs:985).
ToldIsGiven ==
  scene = "commands" /\ Loads(Disk) => LET rules == Rules(Disk) IN \A w \in Workers :
    /\ Told(Disk, w) = BoxEnv(Disk, w)
    /\ \A c, d \in BoxEnv(Disk, w) : Env[c] = Env[d] => c = d
    /\ \A c \in Told(Disk, w) :
         Alone(Disk, c, w) => ActsAs(rules, c, w, [host |-> Host[c], kind |-> "host", id |-> None, spelt |-> TRUE])

\* The files mean one thing, whoever reads them: listener, briefing, box and gateway.
GrantsReadTheSame == OneScopeEverywhere /\ ToldIsGiven

\* However stats, reads and writes interleave, no part of the configuration a request
\* is judged by is older than the request (config.rs:1386 "admin edits are live").
DecisionsAreCurrent ==
  \A q \in Requests : req[q].step \in {"judge", "sent", "denied", "outage"} =>
    /\ req[q].conf.bound \in since[q]["specs"]
    /\ \A c \in Conns : /\ req[q].conf.files[c] \in since[q][c]
                        /\ \E S \in since[q]["vault"] : (c \in S) = (c \in req[q].conf.secrets)

Uncontended(p) == cli[p].text # None /\ files[cli[p].conn] = cli[p].text

Restricted(edges, who) == [w \in DOMAIN edges \ {who} |-> edges[w]]

\* A grant or a revoke that nobody raced changes the edge it names and no other, in
\* either form of the file, and leaves a file that loads loading (cli/connections.rs:1300
\* "same meaning, new shape").
EditsTouchOneEdge ==
  [][\A p \in Clis :
       LET c == cli[p].conn
           who == cli[p].who
       IN cli[p].step \in {"grant", "revoke"} /\ cli'[p].step # cli[p].step
            /\ Uncontended(p) /\ FileLoads(c, files[c])
          =>
          /\ Restricted(Edges(files'[c]), who) = Restricted(Edges(files[c]), who)
          /\ (who \in DOMAIN Edges(files'[c])) = (cli[p].step = "grant")
          /\ FileLoads(c, files'[c]) \/ (Kind[c] = "mount" /\ cli[p].step = "grant")]_connVars

\* docs/connections.md:277: "`[grant.org]` is the fleet-wide edge; a worker's own edge
\* wins over it": one good file that has both loads.
OwnEdgeWins ==
  \A c \in Conns, w \in Workers :
    Present(Disk) = {c} /\ FileLoads(c, files[c]) /\ {"org", w} \subseteq DOMAIN Edges(files[c])
      => Loads(Disk)
=============================================================================
