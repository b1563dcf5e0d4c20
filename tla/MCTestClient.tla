----------------------------- MODULE MCTestClient -----------------------------
(***************************************************************************)
(* Instances of TestClient for TLC.                                        *)
(***************************************************************************)
EXTENDS TestClient, TLC

CONSTANTS b1, b2, t1, t2

\* Both tabs in one browser.
OneBrowser == [t \in {t1, t2} |-> b1]

\* Two users: a tab each in a browser each.
TwoBrowsers == [t \in {t1, t2} |-> IF t = t1 THEN b1 ELSE b2]

\* The names of requests, results and claims don't matter.
IdSymmetry == Permutations(ContextId) \cup Permutations(ResultId)
                \cup Permutations(Claims)

\* Nor do those of the tabs of one browser.
TabSymmetry == IdSymmetry \cup Permutations(Tab)
===============================================================================
