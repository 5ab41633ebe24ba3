---------------------------- MODULE MCHostMemory ----------------------------
(***************************************************************************)
(* A small instance of HostMemory for TLC.                                 *)
(***************************************************************************)
EXTENDS HostMemory
=============================================================================
