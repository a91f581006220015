------------------------- MODULE MCShadowRecompute --------------------------
EXTENDS ShadowRecompute

CONSTANTS ibkr, csv, ofx

\* The two accounts that record their trades are interchangeable.
LedgerAccounts == Permutations({csv, ofx})
=============================================================================
