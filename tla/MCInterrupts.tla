---------------------------- MODULE MCInterrupts ----------------------------
(* Instances of Interrupts with two or three channels for TLC. *)
EXTENDS Interrupts
=============================================================================
