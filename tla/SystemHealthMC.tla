--------------------------- MODULE SystemHealthMC ---------------------------
(***************************************************************************)
(* SystemHealth for TLC: more systems than one pass takes.                 *)
(***************************************************************************)
EXTENDS SystemHealth

CONSTANTS s1, s2, s3, c1
=============================================================================
