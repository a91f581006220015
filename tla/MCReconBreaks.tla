----------------------------- MODULE MCReconBreaks -----------------------------
(***************************************************************************)
(* Instances of ReconBreaks for TLC: an account at SnapTrade, whose        *)
(* holdings call may fail, and Flex which the portfolio never connected.   *)
(***************************************************************************)
EXTENDS ReconBreaks

CONSTANTS a1, s1

MCBrokers == <<"ibkr_flex", "snaptrade">>
OnSnapTrade == [a \in Accounts |-> "snaptrade"]

Holding(qty, cost, cash) ==
  [pos |-> [s \in Securities |-> [qty |-> qty, cost |-> cost]], cash |-> cash]
Empty(cash) == [pos |-> [s \in Securities |-> None], cash |-> cash]

\* All cash, or all invested.
CashOrShares == {Empty(1), Holding(1, 1, 0)}

================================================================================
