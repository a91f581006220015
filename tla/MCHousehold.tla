---------------------------- MODULE MCHousehold -----------------------------
(* A taxable account kept by the ledger and a retirement account whose       *)
(* broker reports its positions and closed lots, over three closes.          *)
EXTENDS Household

MCOrder == <<"csv:Taxable", "ibkr:IRA">>
MCSnapshot == {"ibkr:IRA"}
MCTaxedAt == [a \in Accounts |-> IF a = "ibkr:IRA" THEN "tax_deferred" ELSE "taxable"]
MCOpening == [a \in Accounts |-> IF a = "ibkr:IRA" THEN 2 ELSE 0]
MCKinds == [a \in Accounts |->
  IF a = "ibkr:IRA" THEN {"sell", "receive", "deliver", "WITHDRAWAL"}
                    ELSE {"buy", "sell", "bond"}]
MCYearOf(d) == IF d <= 1 THEN 2025 ELSE 2026
MCRates == [short |-> 32, long |-> 15, state |-> 5]
=============================================================================
