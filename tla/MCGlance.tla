------------------------------- MODULE MCGlance -------------------------------
(* A portfolio of two accounts: two US stocks, one of them in both, a foreign *)
(* stock, one whose currency has no rate, and a fund; a weekend day between    *)
(* two sessions.                                                              *)
EXTENDS Glance
MCProxyOf == [fund |-> "etf"]
MCShares == [a1 |-> [aa |-> 1, bb |-> 2, hk |-> 0, jp |-> 0, fund |-> 1],
             a2 |-> [aa |-> 2, bb |-> 0, hk |-> 2, jp |-> 1, fund |-> 0]]
MCFaults == {<<"aa", "suspect">>, <<"aa", "lagging">>, <<"aa", "scale">>, <<"bb", "missing">>, <<"etf", "lagging">>}
MCRates == [hk |-> 2, jp |-> None]
MCOpening == [aa |-> <<2, 4>>, bb |-> <<2, 2>>, hk |-> <<4, 2>>, jp |-> <<2, 4>>, etf |-> <<2, 4>>, fund |-> <<2>>]
=============================================================================
