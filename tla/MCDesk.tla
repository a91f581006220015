------------------------------- MODULE MCDesk -------------------------------
(* Two securities: one listed in the base currency, one held in a foreign    *)
(* currency whose symbol also has a stray listing in the base currency with  *)
(* the lower id.                                                             *)
EXTENDS Desk
\* The hypothesis of ReplacementsAreLogged is met here.
ASSUME TakeTurns == JobsTakeTurns
MCListings == <<[symbol |-> "hk", currency |-> "USD"], [symbol |-> "hk", currency |-> "HKD"],
                [symbol |-> "us", currency |-> "USD"],
                [symbol |-> "eu", currency |-> "USD"]>>
MCHeldUnder == [us |-> "USD", eu |-> "USD", hk |-> "HKD"]
MCPublished == [us |-> {1, 2}, hk |-> {1, 2}, eu |-> {1}, HKD |-> {2}]
MCOpening == [us |-> 1, hk |-> 1, eu |-> 1, HKD |-> 2]
MCAlphabet == <<"eu", "hk", "us">>
MCRating == [eu |-> [score |-> 1, eligible |-> TRUE], us |-> [score |-> 1, eligible |-> TRUE], hk |-> [score |-> 2, eligible |-> TRUE]]
MCSector == [eu |-> "tech", us |-> "tech", hk |-> "tech"]
MCLimits == [position |-> 5, sector |-> 7, line |-> 2]
MCYields == [us |-> 3, hk |-> NoYield, eu |-> 1]
MCRuleSets == {[targets |-> <<[symbol |-> "hk", weight |-> 4], [symbol |-> "us", weight |-> 6]>>, cap |-> 5, line |-> 2]}
=============================================================================
