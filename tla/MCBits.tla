------------------------------- MODULE MCBits -------------------------------
(* Instances of Bits for TLC: three ordinals in two words of two bits. *)
EXTENDS Bits
=============================================================================
