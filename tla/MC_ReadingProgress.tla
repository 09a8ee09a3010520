-------------------------- MODULE MC_ReadingProgress --------------------------
(***************************************************************************)
(* Small instances of ReadingProgress for TLC.                             *)
(***************************************************************************)
EXTENDS ReadingProgress

CONSTANTS r1, r2, r3, r4
=============================================================================
