------------------------------ MODULE TaxLens -------------------------------
(***************************************************************************)
(* The tax arithmetic over lots and closed parcels: the hypothetical sale  *)
(* (portfolio_analytics/domain/tax.py), the income of a year (realized.py) *)
(* and the realized-lots export (realized_lots_export.py). Years are given *)
(* by YearOf; rates are whole per cents, tax is in hundredths.             *)
(***************************************************************************)
EXTENDS Ledger, FiniteSetsExt

CONSTANTS YearOf(_), Rates   \* Rates: short, long and state per cent

ASSUME RatesAssumption == \A r \in {"short", "long", "state"} : Rates[r] \in 0..100

ClassifyTerm(days) == IF days > LongTermDays THEN "Long-term" ELSE "Short-term"
TaxOnGain(gain, term) ==
  IF gain <= 0 THEN 0 ELSE gain * (IF term = "Long-term" THEN Rates.long ELSE Rates.short)
HarvestableLoss(gain) == IF gain < 0 THEN 0 - gain ELSE 0

\* A loss of one term absorbs gains of the other.
NetCapitalGains(st, lt) ==
  CASE st >= 0 /\ lt >= 0 -> [st |-> st, lt |-> lt]
    [] st < 0 /\ lt < 0   -> [st |-> 0, lt |-> 0]
    [] st < 0 /\ lt >= 0  -> [st |-> 0, lt |-> Positive(lt + st)]
    [] st >= 0 /\ lt < 0  -> [st |-> Positive(st + lt), lt |-> 0]

-----------------------------------------------------------------------------
(* "If sold": a sale of q shares of the given lots *)

\* A pick names a lot by its index and how many of its shares; picks are valid if they
\* are distinct, within their lots, and add up to the sale.
ValidPicks(lots, q, picks) ==
  /\ picks # <<>>
  /\ \A i \in DOMAIN picks :
       /\ picks[i].lot \in DOMAIN lots
       /\ picks[i].qty > 0 /\ picks[i].qty <= lots[picks[i].lot].qty
       /\ \A j \in 1..(i - 1) : picks[j].lot # picks[i].lot
  /\ Total([i \in DOMAIN picks |-> picks[i].qty]) = q

Sellable(lots, q, price) == q > 0 /\ price >= 0 /\ q <= Shares(lots)

\* The lots a sale relieves, in order: by open date, or as picked.
\* mutant: the lots in the order they were listed, newest first
NewestFirst(lots) == Reverse(lots)
FifoOrder(lots) == ByDay(lots)
Picked(lots, picks) == [i \in DOMAIN picks |-> [lots[picks[i].lot] EXCEPT !.qty = picks[i].qty]]

Sale(chosen, q, price, asof) ==
  LET sold == RelieveLots(chosen, q, asof, price).gains
      Of(long) == Total([i \in DOMAIN sold |-> IF LongTerm(sold[i]) = long THEN GainOf(sold[i]) ELSE 0])
      net == NetCapitalGains(Of(FALSE), Of(TRUE))
  IN [sold |-> sold, st |-> Of(FALSE), lt |-> Of(TRUE), taxable |-> net,
      tax |-> TaxOnGain(net.st, "Short-term") + TaxOnGain(net.lt, "Long-term")
              + (net.st + net.lt) * Rates.state,
      proceeds |-> Total([i \in DOMAIN sold |-> sold[i].proceeds]),
      basis |-> Total([i \in DOMAIN sold |-> sold[i].basis])]
HypotheticalSale(lots, q, price, asof) == Sale(FifoOrder(lots), q, price, asof)
SpecificSale(lots, q, price, asof, picks) == Sale(Picked(lots, picks), q, price, asof)
SaleDelta(selected, baseline) ==
  [basis |-> selected.basis - baseline.basis, st |-> selected.st - baseline.st,
   lt |-> selected.lt - baseline.lt, tax |-> selected.tax - baseline.tax]

-----------------------------------------------------------------------------
(* The income of each year, and the export of a year's closed lots *)

YearTotal(entries, year) ==
  Total([i \in DOMAIN entries |-> IF YearOf(entries[i].day) = year THEN entries[i].amount ELSE 0])
YearGains(gains, year, long) ==
  Total([i \in DOMAIN gains |->
    IF YearOf(gains[i].close) = year /\ LongTerm(gains[i]) = long THEN GainOf(gains[i]) ELSE 0])
SummarizeIncome(gains, dividends, interest, distributions, year) ==
  [st |-> YearGains(gains, year, FALSE), lt |-> YearGains(gains, year, TRUE),
   dividends |-> YearTotal(dividends, year), interest |-> YearTotal(interest, year),
   distributions |-> YearTotal(distributions, year)]

Box(long, crypto) ==
  IF crypto THEN (IF long THEN "J" ELSE "G") ELSE (IF long THEN "D" ELSE "A")
LotToRow(gain, crypto) ==
  [acquired |-> gain.open, sold |-> gain.close, proceeds |-> gain.proceeds, basis |-> gain.basis,
   term |-> IF LongTerm(gain) THEN "LONG" ELSE "SHORT", box |-> Box(LongTerm(gain), crypto)]

\* The date a holding's oldest lot was bought, its average age, the shares its lots cover.
HoldingPeriod(lots, held, today) ==
  IF lots = <<>> \/ held <= 0 THEN [known |-> FALSE]
  ELSE [known |-> TRUE, first |-> Min({lots[i].day : i \in DOMAIN lots}),
        age |-> Total([i \in DOMAIN lots |-> lots[i].qty * Positive(today - lots[i].day)]) \div Shares(lots),
        covered |-> Least(held, Shares(lots))]
=============================================================================
