------------------------------ MODULE MCNavSeries ------------------------------
(***************************************************************************)
(* Instances of NavSeries for TLC.                                         *)
(***************************************************************************)
EXTENDS NavSeries

CONSTANTS l1

\* The instance is one on which a restatement is exact, and one on which flows are.
ASSUME Exact == NavsComeInTime /\ FiresSeePrices
ASSUME Known == TradesAreSeen

\* The job alone for three fires, or one fire and one press of a button.
ThreeFiresOrOneAndAClick ==
  {[s \in Sources |-> IF s = "job" THEN 3 ELSE 0], [s \in Sources |-> 1]}
================================================================================
