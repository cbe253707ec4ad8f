------------------------------ MODULE MCFrontend ------------------------------
(***************************************************************************)
(* An instance of Frontend for TLC.                                        *)
(***************************************************************************)
EXTENDS Frontend

CONSTANTS p1, p2   \* model values

\* Two statuses at work and the review.
ShortPipeline == <<"CREATED", "RENDERING", "IN_REVIEW">>
=============================================================================
