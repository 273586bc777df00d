----------------------------- MODULE Recurrence -----------------------------
(***************************************************************************)
(* Recurring templates, the part of `due` in src/work/tms.rs that spawns   *)
(* their children.  Under the worker's lock a tick evaluates every         *)
(* template against its cursor; then it writes two files, the cursors and  *)
(* the partition, in that order.                                           *)
(*                                                                         *)
(* The clock counts minutes, the resolution of cron_due, and starts at 1:  *)
(* a cursor of 0 is a missing one, in the code as here.  A cron schedule   *)
(* matches every minute that its period divides.                           *)
(***************************************************************************)
EXTENDS Naturals, Sequences, SequencesExt

CONSTANTS
  Templates,
  Every,          \* those on an interval; the others are on cron
  Skipping,       \* those that skip while the previous child is open
  Period,         \* [Templates -> Nat \ {0}]
  From, Until,    \* [Templates -> Nat], the window
  Horizon,        \* how far cron_due looks back (25 hours)
  MaxClock,       \* bound: the last reading of the clock
  MaxOpen,        \* bound: children of one template open at once
  MaxLost         \* bound: partition writes that a crash or an error prevents

ASSUME RecurrenceAssumption ==
  /\ Every \subseteq Templates /\ Skipping \subseteq Templates
  /\ Period \in [Templates -> Nat \ {0}]
  /\ From \in [Templates -> Nat] /\ Until \in [Templates -> Nat]
  /\ Horizon \in Nat \ {0}
  /\ MaxClock \in Nat \ {0} /\ MaxOpen \in Nat /\ MaxLost \in Nat

VARIABLES
  clock,
  recurring,      \* templates in the partition
  cursors,        \* tms-cursors.json: the last spawn or adoption; 0 missing
  open,           \* [Templates -> Nat], live children
  spawning,       \* templates whose child the tick has still to save
  expiring,       \* templates whose removal it has still to save
  added,          \* history: [Templates -> Nat], first put in the partition
  fired,          \* history: [Templates -> Seq(Nat)], when children were spawned
  skipped,        \* history: when the policy skipped, or the save was lost
  ran,            \* history: when a tick found the template in its window
  lost

history == <<added, fired, skipped, ran>>
recurrenceVars == <<clock, recurring, cursors, open, spawning, expiring, history, lost>>

Minute == 1..MaxClock

RecurrenceInit ==
        /\ clock = 1
        /\ recurring = {}
        /\ cursors = [t \in Templates |-> 0]
        /\ open = [t \in Templates |-> 0]
        /\ spawning = {} /\ expiring = {}
        /\ added = [t \in Templates |-> 0]
        /\ fired = [t \in Templates |-> <<>>]
        /\ skipped = [t \in Templates |-> {}]
        /\ ran = [t \in Templates |-> {}]
        /\ lost = 0

\* The worker's lock is free.
Unlocked == spawning = {} /\ expiring = {}

Tick ==
  /\ clock < MaxClock
  /\ clock' = clock + 1
  /\ UNCHANGED <<recurring, cursors, open, spawning, expiring, history, lost>>

\* set_tasks, or ensure_heartbeat for the heartbeat: the cursors are not touched.
Put(t) ==
  /\ Unlocked /\ t \notin recurring
  /\ recurring' = recurring \cup {t}
  /\ added' = [added EXCEPT ![t] = IF @ = 0 THEN clock ELSE @]
  /\ UNCHANGED <<clock, cursors, open, spawning, expiring, fired, skipped, ran, lost>>

Retire(t) ==
  /\ Unlocked /\ t \in recurring
  /\ recurring' = recurring \ {t}
  /\ UNCHANGED <<clock, cursors, open, spawning, expiring, history, lost>>

\* A child is attested or canceled.
Close(t) ==
  /\ Unlocked /\ open[t] > 0
  /\ open' = [open EXCEPT ![t] = @ - 1]
  /\ UNCHANGED <<clock, recurring, cursors, spawning, expiring, history, lost>>

-----------------------------------------------------------------------------
(* run_recurrence *)

Slot(t, m) == m % Period[t] = 0

\* window_state.
Expired(t) == clock > Until[t]

Open(t) == ~Expired(t) /\ clock >= From[t]

\* Mutant: the current minute is left to the next tick.
MatchedBefore(t, since) ==
  \E m \in Minute : since < m /\ clock < m + Horizon /\ m < clock /\ Slot(t, m)

\* cron_due: a matching minute since then, no older than the horizon.
Matched(t, since) ==
  \E m \in Minute : since < m /\ clock < m + Horizon /\ m <= clock /\ Slot(t, m)

\* The schedule asks for a child, unless the cursor is missing.
Asks(t) ==
  /\ cursors[t] # 0
  /\ IF t \in Every THEN clock - cursors[t] >= Period[t] ELSE Matched(t, cursors[t])

Barred(t) == t \in Skipping /\ open[t] > 0

(* One tick.  A missing cursor adopts now, an answered or skipped one moves to
   now; save_cursors writes them, and the partition comes next.               *)
DueTick ==
  /\ Unlocked
  /\ LET inWindow == {t \in recurring : Open(t)}
         asking == {t \in inWindow : Asks(t)}
     IN /\ cursors' = [t \in Templates |->
              IF t \in asking \/ (t \in inWindow /\ cursors[t] = 0) THEN clock
              ELSE cursors[t]]
        /\ spawning' = {t \in asking : ~Barred(t)}
        /\ skipped' = [t \in Templates |->
              IF t \in asking /\ Barred(t) THEN skipped[t] \cup {clock} ELSE skipped[t]]
        /\ ran' = [t \in Templates |->
              IF t \in inWindow THEN ran[t] \cup {clock} ELSE ran[t]]
        /\ \A t \in spawning' : open[t] < MaxOpen
  /\ expiring' = {t \in recurring : Expired(t)}
  /\ UNCHANGED <<clock, recurring, open, added, fired, lost>>

\* save: the children appear and the expired templates go.
SaveTick ==
  /\ ~Unlocked
  /\ open' = [t \in Templates |-> IF t \in spawning THEN open[t] + 1 ELSE open[t]]
  /\ fired' = [t \in Templates |->
                 IF t \in spawning THEN Append(fired[t], cursors[t]) ELSE fired[t]]
  /\ recurring' = recurring \ expiring
  /\ spawning' = {} /\ expiring' = {}
  /\ UNCHANGED <<clock, cursors, added, skipped, ran, lost>>

\* The daemon dies between the two writes, or the second one fails, which due
\* ignores: the cursors have moved, and no child is there.
LoseTick ==
  /\ ~Unlocked /\ lost < MaxLost
  /\ lost' = lost + 1
  /\ skipped' = [t \in Templates |->
                   IF t \in spawning THEN skipped[t] \cup {cursors[t]} ELSE skipped[t]]
  /\ spawning' = {} /\ expiring' = {}
  /\ UNCHANGED <<clock, recurring, cursors, open, added, fired, ran>>

RecurrenceNext ==
        \/ Tick \/ DueTick \/ SaveTick \/ LoseTick
        \/ \E t \in Templates : Put(t) \/ Retire(t) \/ Close(t)

-----------------------------------------------------------------------------
(* Properties *)

(* docs/work.md:23 "a restart neither double-fires": between two children of a
   template, and before its first one, its schedule came round at least once
   (run_recurrence: "never for the past"), whatever ticks, restarts, retirements
   and returns of the template lay between.                                   *)
FiresAreDue ==
  \A t \in Templates : \A i \in 1..Len(fired[t]) :
    LET before == IF i = 1 THEN added[t] ELSE fired[t][i - 1]
        now == fired[t][i]
    IN  IF t \in Every THEN now - before >= Period[t]
        ELSE \E m \in (before + 1)..now : Slot(t, m)

(* ... "nor silently skips": the first tick after a matching minute answers it,
   with a child or because the previous one is open, if the daemon was not down
   for longer than the horizon.  A tick whose partition write was lost counts
   as answered here; that minute is skipped without a word.                   *)
SlotsAreAnswered ==
  Unlocked =>
    \A t \in Templates \ Every : \A a, d \in ran[t] : \A m \in (a + 1)..d :
      Slot(t, m) /\ d < m + Horizon
        => \E f \in ToSet(fired[t]) \cup skipped[t] : m <= f /\ f <= d

(* A template that skips has at most one open child, also when the tick that
   spawns it is lost, the template is retired and comes back, or its children
   close in between.                                                          *)
OneOpenChild == \A t \in Skipping : open[t] <= 1

(* docs/work.md:23: the schedule is kept, in all three respects at once.       *)
ScheduleIsKept == FiresAreDue /\ SlotsAreAnswered /\ OneOpenChild
=============================================================================
