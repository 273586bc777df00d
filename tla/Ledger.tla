------------------------------- MODULE Ledger -------------------------------
(***************************************************************************)
(* The budget: what `gate` of src/gateway/proxy.rs does to an allowed call *)
(* with src/gateway/ledger.rs, for calls that run concurrently.            *)
(*                                                                         *)
(* A call reads the time and meters itself; then, in one hold of the       *)
(* counters' mutex, every limit that covers it is checked and every one    *)
(* debited (reserve); then the spend is appended to usage.jsonl; then it   *)
(* is forwarded.  The counters are memory: on boot they are rebuilt from   *)
(* the file (rehydrate).  Scopes and currencies are abstracted to what a   *)
(* call draws from each limit; nothing means out of scope or another       *)
(* currency.                                                               *)
(***************************************************************************)
EXTENDS Naturals, FiniteSetsExt

CONSTANTS
  Calls,
  Limits,
  Draw,           \* [Calls -> [Limits -> Nat]]
  Cap,            \* [Limits -> Nat], the limit's max
  Window,         \* [Limits -> Nat], its window's length
  MaxClock,       \* bound: the last reading of the clock
  MaxCrashes,     \* bound: restarts of the daemon
  Straddle        \* may a window end between a call's metering and its reserve

ASSUME LedgerAssumption ==
  /\ Draw \in [Calls -> [Limits -> Nat]]
  /\ Cap \in [Limits -> Nat]
  /\ Window \in [Limits -> Nat \ {0}]
  /\ MaxClock \in Nat /\ MaxCrashes \in Nat
  /\ Straddle \in BOOLEAN

VARIABLES
  clock,          \* now_ms()
  counter,        \* [Limits -> [start, used]], the in-memory counters
  step,           \* per call: new, metered, reserved, forwarded, refused or lost
  now,            \* [Calls -> Nat], the time a call metered itself at
  usage,          \* calls recorded in usage.jsonl
  crashes

ledgerVars == <<clock, counter, step, now, usage, crashes>>

LedgerInit ==
  /\ clock = 0
  /\ counter = [l \in Limits |-> [start |-> 0, used |-> 0]]
  /\ step = [c \in Calls |-> "new"]
  /\ now = [c \in Calls |-> 0]
  /\ usage = {}
  /\ crashes = 0

Covers(c, l) == Draw[c][l] > 0

\* Window::start.
Start(l, t) == t - (t % Window[l])

\* A counter whose window is not the caller's counts for nothing.
Used(l, t) == IF counter[l].start = Start(l, t) THEN counter[l].used ELSE 0

\* Mutant: a limit is breached only once it is exceeded.
BreachedLate(c, t) == \E l \in Limits : Covers(c, l) /\ Used(l, t) > Cap[l]

\* breach: some limit that covers the call is used up.
Breached(c, t) == \E l \in Limits : Covers(c, l) /\ Used(l, t) >= Cap[l]

\* commit_counters: every covering limit, its counter moved to the window of
\* the caller's time first.
Committed(c, t) ==
  [l \in Limits |->
     IF Covers(c, l)
     THEN [start |-> Start(l, t), used |-> Used(l, t) + Draw[c][l]]
     ELSE counter[l]]

\* rehydrate: the recorded spend of each limit's current window.
Rehydrated(lines, t) ==
  [l \in Limits |->
     [start |-> Start(l, t),
      used |-> MapThenSumSet(LAMBDA c : Draw[c][l], {c \in lines : now[c] >= Start(l, t)})]]

-----------------------------------------------------------------------------
\* A call was judged allowed, its credential is at hand: it reads the time.
Meter(c) ==
  /\ step[c] = "new"
  /\ step' = [step EXCEPT ![c] = "metered"]
  /\ now' = [now EXCEPT ![c] = clock]
  /\ UNCHANGED <<clock, counter, usage, crashes>>

\* reserve: check and debit in one lock hold; a refusal (402) debits nothing.
Reserve(c) ==
  /\ step[c] = "metered"
  /\ IF Breached(c, now[c])
     THEN /\ step' = [step EXCEPT ![c] = "refused"]
          /\ UNCHANGED counter
     ELSE /\ step' = [step EXCEPT ![c] = "reserved"]
          /\ counter' = Committed(c, now[c])
  /\ UNCHANGED <<clock, now, usage, crashes>>

\* record_usage, stamped with the call's own time, and only then the forward.
Forward(c) ==
  /\ step[c] = "reserved"
  /\ usage' = usage \cup {c}
  /\ step' = [step EXCEPT ![c] = "forwarded"]
  /\ UNCHANGED <<clock, counter, now, crashes>>

(* The daemon dies and boots.  A call that was not forwarded is lost; its
   record may have been written.                                              *)
Restart ==
  /\ crashes < MaxCrashes
  /\ crashes' = crashes + 1
  /\ \E lines \in SUBSET {c \in Calls : step[c] = "reserved"} :
       /\ usage' = usage \cup lines
       /\ counter' = Rehydrated(usage \cup lines, clock)
  /\ step' = [c \in Calls |-> IF step[c] \in {"metered", "reserved"} THEN "lost"
                              ELSE step[c]]
  /\ UNCHANGED <<clock, now>>

Tick ==
  /\ clock < MaxClock
  /\ clock' = clock + 1
  /\ Straddle \/ \A c \in Calls, l \in Limits :
                   step[c] = "metered" => Start(l, clock') = Start(l, now[c])
  /\ UNCHANGED <<counter, step, now, usage, crashes>>

LedgerNext ==
  \/ \E c \in Calls : Meter(c) \/ Reserve(c) \/ Forward(c)
  \/ Restart \/ Tick

-----------------------------------------------------------------------------
(* Properties *)

Charged == {c \in Calls : step[c] \in {"reserved", "forwarded"}}

SpentBy(l, calls) == MapThenSumSet(LAMBDA c : Draw[c][l], calls)

(* docs/gateway.md:166 "The call that crosses the line completes; the next one
   is refused": in every window of every limit the calls let through are below
   the cap without their costliest one, however many run at once, at every
   scope they roll up to, and across restarts ("rebooting the daemon never
   resets a budget").                                                         *)
CapHolds ==
  \A l \in Limits : \A t \in 0..clock :
    LET calls == {c \in Charged : Covers(c, l) /\ Start(l, now[c]) = Start(l, t)}
    IN  calls # {} => \E c \in calls : SpentBy(l, calls \ {c}) < Cap[l]

(* The counter of the current window holds at least what was let through in
   it: what the status view, the soft stop and the next reserve read never
   understates the spend, after a refusal at another scope or a restart
   either.                                                                    *)
CounterCoversSpend ==
  \A l \in Limits :
    Used(l, clock) >= SpentBy(l, {c \in Charged : Start(l, now[c]) = Start(l, clock)})

(* The budget is held, and the counters that hold it never understate.        *)
BudgetHolds == CapHolds /\ CounterCoversSpend
=============================================================================
