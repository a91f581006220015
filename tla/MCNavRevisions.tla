---------------------------- MODULE MCNavRevisions -----------------------------
(***************************************************************************)
(* Instances of NavRevisions for TLC.                                      *)
(***************************************************************************)
EXTENDS NavRevisions, TLC

CONSTANTS w1, w2, p1, a1, u, v

Interchangeable == Permutations(Writers) \cup Permutations(Values)
================================================================================
