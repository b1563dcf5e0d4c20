------------------------- MODULE MCCompatibilityMatrix -------------------------
(***************************************************************************)
(* An instance of CompatibilityMatrix for TLC.                             *)
(***************************************************************************)
EXTENDS CompatibilityMatrix
===============================================================================
