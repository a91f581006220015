---------------------------- MODULE MCComputeCache -----------------------------
(***************************************************************************)
(* Instances of ComputeCache for TLC.                                      *)
(***************************************************************************)
EXTENDS ComputeCache

CONSTANTS r1, r2, seen, missed

TwiceAndOnce == [r \in Requests |-> IF r = r1 THEN 2 ELSE 1]
================================================================================
