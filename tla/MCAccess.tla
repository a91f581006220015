------------------------------- MODULE MCAccess --------------------------------
(***************************************************************************)
(* Instances of Access for TLC: two identities of one address, one invite. *)
(***************************************************************************)
EXTENDS Access, TLC

CONSTANTS q1, q2, s1, s2, i1

SameAddress == [s \in Subs |-> "address"]

\* The public beta without a feed; the owner's build with the simulator on and
\* the fallback and the cutover flags set.
Deployed ==
  {[tier |-> "beta", feed |-> FALSE, simulator |-> FALSE, retired |-> FALSE, feedLocked |-> FALSE],
   [tier |-> "personal", feed |-> TRUE, simulator |-> TRUE, retired |-> TRUE, feedLocked |-> TRUE]}

Interchangeable == Permutations(Requests) \cup Permutations(Subs)

\* A route of each kind the guards tell apart (create is guarded as ownEdit is,
\* a global read as one of the household, any other route as an advice one).
RouteKinds == {"household", "advice", "compute", "edit", "ownEdit", "taps"}
================================================================================
