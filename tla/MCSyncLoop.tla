----------------------------- MODULE MCSyncLoop -----------------------------
(* Instances of SyncLoop for TLC: one service and its endpoints. *)
EXTENDS SyncLoop

CONSTANT a
=============================================================================
