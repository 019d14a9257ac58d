------------------------------ MODULE MCHaproxy ------------------------------
(* Instances of Haproxy for TLC. *)
EXTENDS Haproxy

CONSTANTS conf1, conf2, broken
=============================================================================
