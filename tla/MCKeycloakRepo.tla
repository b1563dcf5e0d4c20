---------------------------- MODULE MCKeycloakRepo ----------------------------
(***************************************************************************)
(* Instances of KeycloakRepo for TLC.                                      *)
(***************************************************************************)
EXTENDS KeycloakRepo, TLC

\* Commits that are not pinned can be renamed.
Symmetry == Permutations(Commit \ {Pinned})
===============================================================================
