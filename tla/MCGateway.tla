------------------------------ MODULE MCGateway ------------------------------
(* Connections: two workers; a Discord bot with two servers' channels and a  *)
(* DM, one channel's id beginning another's; two accounts of one service     *)
(* that share an env; a model and a host mount.  A scene of commands starts  *)
(* from every form of file the compiler knows; one of requests from a        *)
(* working setup.                                                            *)
(* Budget: the fleet's limit over a window of two ticks, one worker's over   *)
(* one of four; three calls of the worker, one of them costlier, and one of  *)
(* another worker that draws on the fleet's limit alone.                     *)
(* Boxes: a task run of one worker and a session of the other in the same    *)
(* channel, a shared directory and a gated repository.                       *)
EXTENDS Gateway, TLC

CONSTANTS v, w, fleet, dobby, c1, c2, c3, c4, r1, r2, general

MCWhoOrder == <<"org", v, w>>
MCConnOrder == <<"bot", "gh", "gh2", "llm", "mnt">>
MCKind == [bot |-> "scoped", gh |-> "plain", gh2 |-> "plain", llm |-> "model", mnt |-> "mount"]
MCHost == [bot |-> "discord", gh |-> "github", gh2 |-> "github", llm |-> "model", mnt |-> None]
MCEnv == [bot |-> "DISCORD", gh |-> "GH", gh2 |-> "GH", llm |-> None, mnt |-> None]
MCChannels == {"lobby", "staff", "other", "new", "dm1"}
MCServerOf == [lobby |-> "home", staff |-> "home", other |-> "away", new |-> "home", dm1 |-> None]
MCClassOf == [lobby |-> "public", staff |-> "private", other |-> "public", new |-> "unknown", dm1 |-> "dm"]
MCBegins == {<<"other", "new">>, <<"home", "away">>}
MCRegistered == {"bot", "gh", "llm"}

On(servers, surfaces) == [servers |-> servers, surfaces |-> surfaces]

Restrictions == {On({"home"}, {}), On({}, {"staff"}), On({}, {"public"}), On({}, {"dm", "other"}),
                 On({"home"}, {"other"}), On({"home"}, {"public"})}

MCScopes == {Open} \cup Restrictions

Granted(who, scope) == Table([x \in who |-> scope])

LegacyFile(workers, org, restrict) ==
  [grants |-> None, workers |-> workers, org |-> org, restrict |-> restrict]

AnyForm(scopes) ==
  {None, Bare, LegacyFile(None, FALSE, CHOOSE s \in scopes : TRUE)}
  \cup {Granted(who, s) : who \in {{v}, {"org"}, {v, w}}, s \in scopes}
  \cup {LegacyFile({v}, FALSE, r) : r \in scopes \cup {None}}
  \cup {LegacyFile(None, TRUE, r) : r \in scopes \cup {None}}

Setup(bot, gh, gh2, llm, mnt) == [bot |-> bot, gh |-> gh, gh2 |-> gh2, llm |-> llm, mnt |-> mnt]

MCStartsOf ==
  [commands |-> {Setup(b, g, None, None, None) : b \in AnyForm(Restrictions), g \in {None, Granted({v}, Open)}}
                  \cup {Setup(b, g, h, l, m) : b \in {None, Granted({"org"}, Open)},
                          g \in {None, Granted({v}, Open), LegacyFile(None, TRUE, None)},
                          h \in {None, Granted({w}, Open)}, l \in {None, Granted({v}, Open)},
                          m \in {None, LegacyFile({v}, FALSE, None)}},
   requests |-> {Setup(Granted({v}, On({"home"}, {})), Granted({w}, Open), None, None, None)}]

Draws == c1 :> (fleet :> 1 @@ dobby :> 1) @@ c2 :> (fleet :> 1 @@ dobby :> 1)
      @@ c3 :> (fleet :> 2 @@ dobby :> 1) @@ c4 :> (fleet :> 1 @@ dobby :> 0)
Caps == fleet :> 2 @@ dobby :> 1
Windows == fleet :> 2 @@ dobby :> 4

MCWorker == r1 :> v @@ r2 :> w
MCChannel == r1 :> general @@ r2 :> general
MCMountKind == [drafts |-> "rwdir", docs |-> "dir", site |-> "repo", src |-> "gated"]
MCMountFor == [drafts |-> {v, w}, docs |-> {v, w}, site |-> {w}, src |-> {v}]

Symmetry == Permutations(Requests)
=============================================================================
