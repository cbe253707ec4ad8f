------------------------------ MODULE MCRender ------------------------------
(***************************************************************************)
(* Instances of Render for TLC.                                            *)
(***************************************************************************)
EXTENDS Render

CONSTANTS r1, r2, r3   \* model values
=============================================================================
