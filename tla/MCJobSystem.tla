---------------------------- MODULE MCJobSystem -----------------------------
(***************************************************************************)
(* The job pipeline for TLC.                                                *)
(***************************************************************************)
EXTENDS JobSystem

CONSTANTS j1, w1, w2, c1   \* model values
=============================================================================
