---------------------------- MODULE MCEmailFactor ----------------------------
(***************************************************************************)
(* Instances of EmailFactor for TLC.                                       *)
(***************************************************************************)
EXTENDS EmailFactor, TLC

\* Codes, and the sessions that may be forked off, can be renamed.
Symmetry == Permutations(Code) \cup Permutations(Session \ {Root})
===============================================================================
