------------------------------- MODULE Gateway -------------------------------
(***************************************************************************)
(* The gateway and what it decides by: the connection files and the        *)
(* configuration compiled from them (Connections), the credential a call   *)
(* goes out with (Vault), the budget it is charged to (Ledger) and the box *)
(* that makes it (Boxes).  `part` picks, once, which of them a behaviour   *)
(* is about; each keeps its state from the others' reach, so a server that *)
(* does all of it behaves as one with each.  Of the boxes, either the      *)
(* mounts or the calls vary.                                               *)
(***************************************************************************)
EXTENDS Connections, Vault, Ledger, Boxes

VARIABLE part

gatewayVars == <<connVars, vaultVars, ledgerVars, boxVars, part>>

Init ==
  /\ part \in {"files", "refresh", "budget", "mounts", "calls"}
  /\ ConnInit /\ (part # "files" => scene = "requests")
  /\ VaultInit /\ LedgerInit /\ BoxesInit

Next ==
  /\ UNCHANGED part
  /\ \/ part = "files" /\ ConnNext /\ UNCHANGED <<vaultVars, ledgerVars, boxVars>>
     \/ part = "refresh" /\ VaultNext /\ UNCHANGED <<connVars, ledgerVars, boxVars>>
     \/ part = "budget" /\ LedgerNext /\ UNCHANGED <<connVars, vaultVars, boxVars>>
     \/ /\ part \in {"mounts", "calls"} /\ UNCHANGED <<connVars, vaultVars, ledgerVars>>
        /\ \/ part = "mounts" /\ \E r \in Runs : Life(r, SUBSET HostMounts)
           \/ part = "calls" /\ \E r \in Runs : Life(r, {{}})
           \/ part = "calls" /\ \E c \in Lines : Call(c)
           \/ DaemonDies \/ DaemonSignalled \/ DaemonStops

Spec == Init /\ [][Next]_gatewayVars
=============================================================================
