-------------------------------- MODULE Vault --------------------------------
(***************************************************************************)
(* The refresh of one OAuth credential (src/credential/vault.rs): callers  *)
(* of the daemon share a lane per name, the CLI reconnects and removes     *)
(* without it, and the provider rotates: a refresh token works once.  A    *)
(* login is a number, in the order the provider issued them; it stands for *)
(* the access token and the refresh token of one answer.                   *)
(***************************************************************************)
EXTENDS Naturals, FiniteSets

CONSTANTS Callers,     \* calls of get_fresh_credential
          MaxLogins,   \* bound: logins the provider ever issues
          MaxFaults,   \* bound: answers lost, writes failed and daemons killed
          Nothing      \* no credential in the vault

ASSUME VaultAssumption ==
  /\ MaxLogins \in Nat \ {0} /\ MaxFaults \in Nat
  /\ Nothing \notin Nat \cup Callers

VARIABLES vault,       \* the login in <name>.json, or Nothing
          issued,      \* the provider: logins issued so far
          expired,     \* every login up to this one has an expired access token
          lane,        \* the caller inside the lane, or Nothing
          call,        \* per caller: [step, login, fresh], fresh what the provider answered
          presented,   \* history: how often a login's refresh token was presented,
                       \* counted up to 2
          orphaned,    \* history: logins whose successor never reached a reader of the vault
          faults

vaultVars == <<vault, issued, expired, lane, call, presented, orphaned, faults>>

Logins == 1..MaxLogins

Idling == [step |-> "idle", login |-> Nothing, fresh |-> Nothing]

VaultInit ==
  /\ vault = 1 /\ issued = 1 /\ expired = 0
  /\ lane = Nothing
  /\ call = [k \in Callers |-> Idling]
  /\ presented = [l \in Logins |-> 0]
  /\ orphaned = {}
  /\ faults = 0

Go(k, step, login) ==
  call' = [call EXCEPT ![k] = [step |-> step, login |-> login, fresh |-> Nothing]]

\* Time passes: the access token of the newest login runs out.
Expire ==
  /\ expired' = issued /\ expired # issued
  /\ UNCHANGED <<vault, issued, lane, call, presented, orphaned, faults>>

needs_refresh(login) == login <= expired

\* The first read: nothing there, or fresh enough, or on to the lane.
GetFresh(k) ==
  /\ call[k].step \in {"idle", "done"} /\ issued < MaxLogins
  /\ Go(k, IF vault = Nothing \/ ~ needs_refresh(vault) THEN "done" ELSE "wait", vault)
  /\ UNCHANGED <<vault, issued, expired, lane, presented, orphaned, faults>>

\* Mutant: what was read before the lane is believed inside it.
NoReread(k) == call[k].login

\* The re-read inside the lane; a file that is gone leaves the old copy in use.
Reread(k) == IF vault = Nothing THEN call[k].login ELSE vault

EnterLaneOf(k) ==
  /\ call[k].step = "wait" /\ lane = Nothing
  /\ IF needs_refresh(Reread(k))
     THEN lane' = k /\ Go(k, "ask", Reread(k))
     ELSE lane' = lane /\ Go(k, "done", Reread(k))
  /\ UNCHANGED <<vault, issued, expired, presented, orphaned, faults>>

\* The provider: the newest login of a line rotates, a spent one is refused.
Spent(login) == presented[login] > 0

Ask(k) ==
  LET login == call[k].login IN
  /\ call[k].step = "ask" /\ issued < MaxLogins
  /\ presented' = [presented EXCEPT ![login] = IF @ < 2 THEN @ + 1 ELSE @]
  /\ IF Spent(login)
     THEN Go(k, "done", Nothing) /\ lane' = Nothing /\ UNCHANGED issued
     ELSE /\ call' = [call EXCEPT ![k] = [step |-> "answered", login |-> login, fresh |-> issued + 1]]
          /\ issued' = issued + 1 /\ UNCHANGED lane
  /\ UNCHANGED <<vault, expired, orphaned, faults>>

\* The answer arrives and is merged into the copy this caller holds.
Persist(k) ==
  /\ call[k].step = "answered"
  /\ vault' = call[k].fresh /\ Go(k, "done", call[k].fresh) /\ lane' = Nothing
  /\ UNCHANGED <<issued, expired, presented, orphaned, faults>>

\* The answer is lost, malformed, or the write fails: the call is denied.
RefreshFails(k) ==
  /\ call[k].step = "answered" /\ faults < MaxFaults
  /\ orphaned' = orphaned \cup {call[k].login} /\ faults' = faults + 1
  /\ Go(k, "done", Nothing) /\ lane' = Nothing
  /\ UNCHANGED <<vault, issued, expired, presented>>

\* The daemon dies with every call under way.
DaemonRestarts ==
  /\ faults < MaxFaults /\ faults' = faults + 1
  /\ orphaned' = orphaned \cup {call[k].login : k \in {x \in Callers : call[x].step = "answered"}}
  /\ call' = [k \in Callers |-> Idling]
  /\ lane' = Nothing
  /\ UNCHANGED <<vault, issued, expired, presented>>

\* `roster connection add`: a new login, written whatever is under way.
Reconnect ==
  /\ issued < MaxLogins
  /\ issued' = issued + 1 /\ vault' = issued + 1
  /\ UNCHANGED <<expired, lane, call, presented, orphaned, faults>>

\* `roster connection rm`: what the vault's login replaced may still be held by a
\* caller that waits for the lane.
RemoveLogin ==
  /\ vault # Nothing /\ vault' = Nothing
  /\ orphaned' = orphaned \cup {call[k].login : k \in {x \in Callers : call[x].step = "wait"}}
  /\ UNCHANGED <<issued, expired, lane, call, presented, faults>>

VaultNext ==
  \/ Expire \/ Reconnect \/ RemoveLogin \/ DaemonRestarts
  \/ \E k \in Callers : GetFresh(k) \/ EnterLaneOf(k) \/ Ask(k) \/ Persist(k) \/ RefreshFails(k)

VaultSpec == VaultInit /\ [][VaultNext]_vaultVars

-----------------------------------------------------------------------------

\* However calls, reconnects and removals interleave, one refresh token is presented
\* twice only when the answer to the first was lost, or when the credential was
\* removed while a caller waited with a copy (vault.rs:157: "share a lock so the
\* second doesn't fail on the token the first rotated").
TokensSpentOnce == \A l \in Logins : presented[l] > 1 => l \in orphaned
=============================================================================
