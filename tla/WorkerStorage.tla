---------------------------- MODULE WorkerStorage ----------------------------
(***************************************************************************)
(* What `provision` gives a run to write and `finalize_storage` looks      *)
(* after when it ends (src/run/boxed.rs): the gated repos and the store.   *)
(* The policy of src/worker/storage.rs may switch either off.  They share  *)
(* no file, so a worker that has both behaves as one with each.            *)
(***************************************************************************)
EXTENDS Knowledge, Store

VARIABLE policy

storageVars == <<repoVars, storeVars, policy>>

Init == RepoInit /\ StoreInit /\ policy \in {"knowledge", "snapshots"}

Next == \/ policy = "knowledge" /\ RepoNext /\ UNCHANGED <<storeVars, policy>>
        \/ policy = "snapshots" /\ StoreNext /\ UNCHANGED <<repoVars, policy>>

Spec == Init /\ [][Next]_storageVars
=============================================================================
