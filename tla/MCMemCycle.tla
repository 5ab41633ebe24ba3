----------------------------- MODULE MCMemCycle -----------------------------
(***************************************************************************)
(* Small instances of MemCycle for TLC, with words of one bit.  NxmDelay   *)
(* stands for 5000 clocks: it is longer than the longest cycle with these  *)
(* waits, and more would not tell more states apart.                       *)
(***************************************************************************)
EXTENDS MemCycle, TLC

Symmetry == Permutations(Core)
=============================================================================
