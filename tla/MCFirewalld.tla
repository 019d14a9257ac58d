----------------------------- MODULE MCFirewalld -----------------------------
(* Instances of Firewalld for TLC. *)
EXTENDS Firewalld

CONSTANTS f1, f2
=============================================================================
