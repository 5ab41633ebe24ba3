---------------------------- MODULE MCPaperTape -----------------------------
(* Instances of PaperTape for TLC.                                         *)
EXTENDS PaperTape
=============================================================================
