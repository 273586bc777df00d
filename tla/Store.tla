-------------------------------- MODULE Store --------------------------------
(***************************************************************************)
(* The worker's store and its snapshots: src/worker/store.rs.  A pass at   *)
(* the end of a run, or the daily sweep, copies the store and then the     *)
(* channel stores; `restore` takes a snapshot of what it will overwrite    *)
(* and copies an old one back.  Both hold the store's flock, which the     *)
(* boxes' roster-lock takes too; a box that writes without it is outside   *)
(* this model.  rsync is external: a snapshot is the items it copied.      *)
(***************************************************************************)
EXTENDS Naturals, Sequences, FiniteSets

CONSTANTS Keep,       \* store.snapshots of the policy
          MaxItems,   \* bound on what boxes ever write
          MaxPasses, MaxRestores, MaxDeaths

ASSUME StoreAssumption ==
  Keep \in Nat /\ MaxItems \in Nat /\ MaxPasses \in Nat /\ MaxRestores \in Nat /\ MaxDeaths \in Nat

VARIABLES store, channels,   \* the items in the store and in the channel stores
          snaps,             \* the snapshots listed, newest first
          tmp,               \* the copy under its .tmp name
          holder,            \* of the flock .locks/store
          restore,           \* the restore under way
          passes, restores, deaths, items,
          seen               \* history: the states the worker's files were in

storeVars == <<store, channels, snaps, tmp, holder, restore, passes, restores, deaths, items, seen>>

Blank == [step |-> "none", store |-> {}, channels |-> {}]

NoRestore == [step |-> "idle", pick |-> 0, only |-> "all"]

StoreInit ==
  /\ store = {} /\ channels = {} /\ snaps = <<>> /\ tmp = Blank /\ holder = "none"
  /\ restore = NoRestore /\ passes = 0 /\ restores = 0 /\ deaths = 0 /\ items = 0
  /\ seen = {<<{}, {}>>}

Seen == seen' = seen \cup {<<store', channels'>>}

-----------------------------------------------------------------------------
(* A box writes, under roster-lock *)

BoxAdds ==
  /\ holder = "none" /\ items < MaxItems
  /\ items' = items + 1
  /\ \/ store' = store \cup {items'} /\ UNCHANGED channels
     \/ channels' = channels \cup {items'} /\ UNCHANGED store
  /\ Seen /\ UNCHANGED <<snaps, tmp, holder, restore, passes, restores, deaths>>

BoxDeletes ==
  /\ holder = "none"
  /\ \/ \E x \in store : store' = store \ {x} /\ UNCHANGED channels
     \/ \E x \in channels : channels' = channels \ {x} /\ UNCHANGED store
  /\ Seen /\ UNCHANGED <<snaps, tmp, holder, restore, passes, restores, deaths, items>>

-----------------------------------------------------------------------------
(* A snapshot *)

\* Mutant: only a restore takes the lock.
RestoreOnly(p) == IF p = "pass" THEN "none" ELSE p

\* The flock is p's from here on.
Locked(p) == p

\* `snapshot`, unless keep is 0; the store is copied first.
PassBegins ==
  /\ Keep > 0 /\ passes < MaxPasses /\ holder = "none" /\ tmp = Blank
  /\ passes' = passes + 1
  /\ holder' = Locked("pass")
  /\ tmp' = [Blank EXCEPT !.step = "pass", !.store = store]
  /\ UNCHANGED <<store, channels, snaps, restore, restores, deaths, items, seen>>

\* `snapshot_locked` copies the channel stores with a second rsync.
CopyChannels ==
  /\ tmp.step \in {"pass", "undo"}
  /\ tmp' = [tmp EXCEPT !.step = IF @ = "pass" THEN "passed" ELSE "undone", !.channels = channels]
  /\ UNCHANGED <<store, channels, snaps, holder, restore, passes, restores, deaths, items, seen>>

\* The itemized list is empty: nothing new against the newest snapshot.  Whether
\* rsync itemizes the parent of what was only deleted is left open.
Copy == [n |-> IF snaps = <<>> THEN 1 ELSE snaps[1].n + 1,
         store |-> tmp.store, channels |-> tmp.channels]

Unchanged == /\ snaps # <<>>
             /\ Copy.store \subseteq snaps[1].store /\ Copy.channels \subseteq snaps[1].channels

Same == Unchanged /\ Copy.store = snaps[1].store /\ Copy.channels = snaps[1].channels

\* Renamed into place, or discarded as identical.
Listed == \/ ~ Same /\ snaps' = <<Copy>> \o snaps
          \/ Unchanged /\ UNCHANGED snaps

Prune(s) == SubSeq(s, 1, IF Len(s) < Keep THEN Len(s) ELSE Keep)

PassLists ==
  /\ tmp.step = "passed" /\ Listed
  /\ tmp' = [Blank EXCEPT !.step = "listed"]
  /\ UNCHANGED <<store, channels, holder, restore, passes, restores, deaths, items, seen>>

PassPrunes ==
  /\ tmp.step = "listed" /\ snaps' = Prune(snaps) /\ holder' = "none" /\ tmp' = Blank
  /\ UNCHANGED <<store, channels, restore, passes, restores, deaths, items, seen>>

-----------------------------------------------------------------------------
(* Restore *)

\* The snapshot is picked before the lock is taken.
Pick ==
  /\ restore = NoRestore /\ restores < MaxRestores
  /\ restores' = restores + 1
  /\ \E i \in DOMAIN snaps, only \in {"all", "channel"} :
       restore' = [step |-> "wait", pick |-> snaps[i].n, only |-> only]
  /\ UNCHANGED <<store, channels, snaps, tmp, holder, passes, deaths, items, seen>>

\* Mutant: restoring one channel store leaves out the undo snapshot.
UndoOfAll == IF restore.only = "channel" THEN "channels" ELSE "undo"

UndoFirst == "undo"

RestoreLocks ==
  /\ restore.step = "wait" /\ holder = "none"
  /\ holder' = Locked("restore") /\ restore' = [restore EXCEPT !.step = UndoFirst]
  /\ tmp' = IF UndoFirst = "undo" THEN [Blank EXCEPT !.step = "undo", !.store = store] ELSE Blank
  /\ UNCHANGED <<store, channels, snaps, passes, restores, deaths, items, seen>>

Undo ==
  /\ tmp.step = "undone" /\ Listed
  /\ tmp' = Blank /\ restore' = [restore EXCEPT !.step = "channels"]
  /\ UNCHANGED <<store, channels, holder, passes, restores, deaths, items, seen>>

Picked == {i \in DOMAIN snaps : snaps[i].n = restore.pick}

Done == restore' = NoRestore /\ holder' = "none"

\* The channel stores go back first.  A pick that was pruned meanwhile has none.
RestoreChannels ==
  /\ restore.step = "channels"
  /\ channels' = IF Picked = {} THEN channels ELSE snaps[CHOOSE i \in Picked : TRUE].channels
  /\ IF restore.only = "channel" \/ Picked = {}
     THEN Done
     ELSE restore' = [restore EXCEPT !.step = "store"] /\ UNCHANGED holder
  /\ UNCHANGED <<store, snaps, tmp, passes, restores, deaths, items>> /\ Seen

RestoreStore ==
  /\ restore.step = "store"
  /\ store' = snaps[CHOOSE i \in Picked : TRUE].store /\ Done
  /\ UNCHANGED <<channels, snaps, tmp, passes, restores, deaths, items>> /\ Seen

\* The process dies: the kernel frees the lock, a .tmp copy is never listed.
Dies ==
  /\ deaths < MaxDeaths /\ holder # "none" /\ deaths' = deaths + 1
  /\ holder' = "none" /\ tmp' = Blank
  /\ restore' = IF holder = "restore" THEN NoRestore ELSE restore
  /\ UNCHANGED <<store, channels, snaps, passes, restores, items, seen>>

StoreNext == \/ BoxAdds \/ BoxDeletes
             \/ PassBegins \/ CopyChannels \/ PassLists \/ PassPrunes
             \/ Pick \/ RestoreLocks \/ Undo \/ RestoreChannels \/ RestoreStore \/ Dies

StoreSpec == StoreInit /\ [][StoreNext]_storeVars

-----------------------------------------------------------------------------
(* Properties *)

(* "A git repo inside is never captured mid-ref-write", the channel stores
   "ride the same snapshot" and a crash mid-copy leaves nothing that counts as
   history (store.rs:63, 124, 145): every snapshot is a state the worker's files
   were in, though it is copied in two passes.                                *)
SnapshotsAreStates ==
  \A i \in DOMAIN snaps : <<snaps[i].store, snaps[i].channels>> \in seen

(* "The current state is snapshotted first - a restore is always undoable"
   (store.rs:229): what a restore removes is in a snapshot that is still there,
   whatever was pruned or deleted between its pick and its lock.              *)
RestoreIsUndoable ==
  [][holder = "restore" => \A x \in (store \cup channels) \ (store' \cup channels') :
       \E i \in DOMAIN snaps : x \in snaps[i].store \cup snaps[i].channels]_storeVars
=============================================================================
