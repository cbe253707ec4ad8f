---------------------------- MODULE MCMemoryQueue ----------------------------
(***************************************************************************)
(* Instances of MemoryQueue for TLC.                                       *)
(***************************************************************************)
EXTENDS MemoryQueue

CONSTANTS j1, j2, j3   \* model values
=============================================================================
