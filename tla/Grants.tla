------------------------------- MODULE Grants -------------------------------
(***************************************************************************)
(* What a connection file means: src/config.rs compiles it into the edges  *)
(* the listeners ask about, the rules the gateway judges by                *)
(* (src/gateway/judge.rs), the stand-ins a box gets in its environment     *)
(* (src/run/boxed.rs) and what its worker is told (src/worker/context.rs). *)
(* No state: operators over the content of the files.  Ids and classes are *)
(* values; a path is the resource it names and whether it spells it as the *)
(* rules do; ports, methods and bodies are left out.                       *)
(***************************************************************************)
EXTENDS Naturals, Sequences, SequencesExt, FiniteSets

CONSTANTS Workers,
          WhoOrder,   \* the workers and "org", in the order of a BTreeMap's keys
          ConnOrder,  \* the connection names, in the order of their files
          Kind,       \* per connection: "scoped" (discord), "plain", "model" or "mount"
          Host, Env,  \* per connection; Env is None where the box sees no stand-in
          Servers, Channels,
          ServerOf,   \* per channel; None for a DM
          ClassOf,    \* per channel, as the listener recorded it; "unknown" if it never did
          Begins,     \* pairs of ids: the digits of the second begin with the first's
          None

Who == Workers \cup {"org"}
Conns == ToSet(ConnOrder)
Classes == {"public", "private", "dm"}

\* A service names the variable its box sees, or its file does not load.
ASSUME GrantsAssumption ==
  /\ WhoOrder \in Seq(Who) /\ ToSet(WhoOrder) = Who /\ IsInjective(WhoOrder)
  /\ "org" \notin Workers /\ None \notin Who \cup Conns
  /\ \A c \in Conns : /\ Kind[c] \in {"scoped", "plain", "model", "mount"}
                      /\ Kind[c] \in {"scoped", "plain"} => Env[c] # None
  /\ Channels \cap Classes = {}
  /\ \A s \in Channels : ServerOf[s] \in Servers \cup {None} /\ ClassOf[s] \in Classes \cup {"unknown"}

\* A dimension that is named has at least one entry: the empty set is its absence.
Open == [servers |-> {}, surfaces |-> {}]

NoEdges == [w \in {} |-> Open]

Scope == [servers : SUBSET Servers, surfaces : SUBSET (Channels \cup Classes)]

\* A file holds [grant.*] tables, or the legacy keys workers, scope and [restrict].
Table(edges) == [grants |-> edges, workers |-> None, org |-> FALSE, restrict |-> None]

Bare == [grants |-> None, workers |-> None, org |-> FALSE, restrict |-> None]

\* The tables and keys a file may hold.
WellFormed(f) ==
  /\ f = [grants |-> f.grants, workers |-> f.workers, org |-> f.org, restrict |-> f.restrict]
  /\ f.grants = None \/ \E who \in SUBSET Who : f.grants \in [who -> Scope]
  /\ f.workers = None \/ f.workers \in SUBSET Workers
  /\ f.org \in BOOLEAN
  /\ f.restrict = None \/ f.restrict \in Scope

Legacy(f) == f.workers # None \/ f.org \/ f.restrict # None

-----------------------------------------------------------------------------
(* config.rs: what loads *)

Shared(f) == IF f.restrict = None THEN Open ELSE f.restrict

\* The availability edges, in either form.
Edges(f) == IF f.grants # None       THEN f.grants
            ELSE IF f.workers # None THEN [w \in f.workers |-> Shared(f)]
            ELSE IF f.org            THEN [w \in {"org"} |-> Shared(f)]
            ELSE NoEdges

Declared(c, scope) == Kind[c] = "scoped" \/ scope = Open

\* `compile_connection` and `compile_host_mount` find nothing wrong with the file.
FileLoads(c, f) ==
  /\ f.grants # None => ~ Legacy(f)
  /\ ~ (f.workers # None /\ f.org)
  /\ f.workers # {}
  /\ f.restrict # None => f.workers # None \/ f.org
  /\ \A w \in DOMAIN Edges(f) : Declared(c, Edges(f)[w])
  /\ Kind[c] = "mount" => /\ f.grants # None \/ Legacy(f)
                          /\ "org" \in DOMAIN Edges(f) => DOMAIN Edges(f) = {"org"}

\* A configuration: the connection files (None where there is none), the
\* credentials in the vault, the channel bindings of the workers' specs.
Present(conf) == {c \in Conns : conf.files[c] # None}

Enabled(conf) == {c \in Present(conf) : Kind[c] # "mount" /\ c \in conf.secrets}

EdgesOf(conf, c) == Edges(conf.files[c])

\* The exposures of the enabled connections: one for each edge.
Exposed(conf) == UNION {{[who |-> w, conn |-> c] : w \in DOMAIN EdgesOf(conf, c)} :
                         c \in {x \in Enabled(conf) : Env[x] # None}}

Overlap(x, y) == x.who = y.who \/ x.who = "org" \/ y.who = "org"

\* `validate_exposes`: no env is claimed twice for overlapping scopes.
EnvsDistinct(conf) ==
  \A x, y \in Exposed(conf) : x # y /\ Env[x.conn] = Env[y.conn] => ~ Overlap(x, y)

\* `load`; one bot cannot serve two listeners.
Loads(conf) ==
  /\ \A c \in Present(conf) : FileLoads(c, conf.files[c])
  /\ EnvsDistinct(conf)
  /\ \A v, w \in Workers : conf.bound[v] = conf.bound[w] /\ conf.bound[v] # None => v = w

-----------------------------------------------------------------------------
(* The rules a file compiles into, and the judge *)

Allow(c, w, on, ids) == [conn |-> c, who |-> w, on |-> on, ids |-> ids, allow |-> TRUE]
Deny(c, w, on) == [conn |-> c, who |-> w, on |-> on, ids |-> {}, allow |-> FALSE]

\* Naming no class leaves DMs admitted.
AdmittedClasses(surfaces) ==
  IF surfaces \cap Classes = {} THEN {"dm"} ELSE surfaces \cap Classes

\* One edge: the scoped surfaces, the denials behind them, the rest of the host.
\* Channel paths do not name their server, so a servers dimension keeps them open.
EdgeRules(c, w, scope) ==
  (IF Kind[c] # "scoped" \/ scope = Open THEN <<>>
   ELSE <<Allow(c, w, "channel", scope.surfaces \ Classes), Allow(c, w, "server", scope.servers)>>
        \o (IF scope.surfaces # {} /\ scope.servers = {}
            THEN <<Allow(c, w, "class", AdmittedClasses(scope.surfaces)), Deny(c, w, "channels")>>
            ELSE <<>>)
        \o <<Deny(c, w, "servers")>>)
  \o <<Allow(c, w, "host", {})>>

FileRules(conf, c) ==
  IF c \notin Enabled(conf) THEN <<>>
  ELSE FlattenSeq([i \in DOMAIN WhoOrder |->
         IF WhoOrder[i] \in DOMAIN EdgesOf(conf, c)
         THEN EdgeRules(c, WhoOrder[i], EdgesOf(conf, c)[WhoOrder[i]]) ELSE <<>>])

\* A hand-written rule of org.toml that lets every worker fetch from any host.
WebFetch == [conn |-> None, who |-> "org", on |-> "web", ids |-> {}, allow |-> TRUE]

\* Mutant: hand-written grants come first.
HandWrittenFirst(conf) ==
  <<WebFetch>> \o FlattenSeq([i \in DOMAIN ConnOrder |-> FileRules(conf, ConnOrder[i])])

\* Connections are spliced before the hand-written grants.
Rules(conf) ==
  FlattenSeq([i \in DOMAIN ConnOrder |-> FileRules(conf, ConnOrder[i])]) \o <<WebFetch>>

\* `scope::applies`, for the subject org/<w>.
Applies(who, w) == who \in {"org", w}

\* `pathPrefix` /api/v10/channels/<id>, with no slash after it.
Listed(ids, id) == \E x \in ids : x = id \/ <<x, id>> \in Begins

\* A call: its host, the channel or the server its path names, if any, and whether the
\* path begins as the rules write it, /api/v10; a service may know it by others too.
Matches(rule, call) ==
  \/ rule.on = "web"
  \/ /\ Host[rule.conn] = call.host
     /\ \/ rule.on = "host"
        \/ /\ call.spelt
           /\ \/ rule.on \in {"channel", "server"} /\ call.kind = rule.on /\ Listed(rule.ids, call.id)
              \/ rule.on = "class" /\ call.kind = "channel" /\ ClassOf[call.id] \in rule.ids
              \/ rule.on = "channels" /\ call.kind = "channel"
              \/ rule.on = "servers" /\ call.kind = "server"

\* The first rule that applies and matches decides; the WebFetch rule is last.
judge(rules, w, call) ==
  rules[SelectInSeq(rules, LAMBDA r : Applies(r.who, w) /\ Matches(r, call))]

\* The call goes out as the connection: allowed, with its credential injected.
ActsAs(rules, c, w, call) ==
  LET rule == judge(rules, w, call) IN rule.allow /\ rule.conn = c

-----------------------------------------------------------------------------
(* The listener, the box and the briefing *)

\* The worker's own edge wins over the org-wide one.
HasEdge(conf, c, w) == \E who \in DOMAIN EdgesOf(conf, c) : Applies(who, w)

grant_for(conf, c, w) ==
  IF w \in DOMAIN EdgesOf(conf, c) THEN EdgesOf(conf, c)[w] ELSE EdgesOf(conf, c)["org"]

\* Outside a guild a message is a DM, recorded or not.
ListenerClass(s) == IF ServerOf[s] = None THEN "dm" ELSE ClassOf[s]

\* Union semantics: a listed id, a listed class, a listed server; DMs by default.
Admits(scope, s) ==
  LET classes == scope.surfaces \cap Classes IN
  \/ s \in scope.surfaces
  \/ ListenerClass(s) = "dm" /\ (classes = {} \/ "dm" \in classes)
  \/ /\ ListenerClass(s) # "dm"
     /\ scope = Open \/ ListenerClass(s) \in classes \/ ServerOf[s] \in scope.servers

allows_surface(conf, c, w, s) == HasEdge(conf, c, w) /\ Admits(grant_for(conf, c, w), s)

\* The credentials whose stand-ins `provision_box` sets for a worker.
BoxEnv(conf, w) == {e.conn : e \in {x \in Exposed(conf) : Applies(x.who, w)}}

\* The connections a worker is told it has.
Told(conf, w) == {c \in Enabled(conf) : Env[c] # None /\ HasEdge(conf, c, w)}

\* No other connection of the worker is for the same host.
Alone(conf, c, w) ==
  \A d \in Enabled(conf) \ {c} : HasEdge(conf, d, w) => Host[d] # Host[c]
=============================================================================
