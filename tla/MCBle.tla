------------------------------- MODULE MCBle -------------------------------
(***************************************************************************)
(* BleLink and TimeSync for TLC.  They share no state, only the BLE thread *)
(* that reports a connection or a message, never both at once: a behavior  *)
(* of the two is one of each, and which one moves is chosen at the start.  *)
(***************************************************************************)
EXTENDS BleLink, TimeSync

VARIABLE side      (* "link" or "sync"                                      *)

Init == side \in {"link", "sync"} /\ LinkInit /\ SyncInit

Next ==
  \/ side = "link" /\ LinkNext /\ UNCHANGED <<side, syncVars>>
  \/ side = "sync" /\ SyncNext /\ UNCHANGED <<side, linkVars>>

Spec == Init /\ [][Next]_<<side, linkVars, syncVars>>

\* The type invariants of both.
TypeOK == LinkTypeOK /\ SyncTypeOK

=============================================================================
