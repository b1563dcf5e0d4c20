---------------------------- MODULE MCLabLifecycle ----------------------------
(***************************************************************************)
(* Instances of LabLifecycle for TLC.                                      *)
(***************************************************************************)
EXTENDS LabLifecycle, TLC

\* Process ids can be renamed.
Symmetry == Permutations(Pid)
===============================================================================
