------------------------------- MODULE Ledger -------------------------------
(***************************************************************************)
(* The FIFO tax-lot ledger (portfolio_analytics/domain/ledger.py): the     *)
(* replay of one (account, security) group of transactions, and what the   *)
(* replay should yield, stated share by share.                             *)
(*                                                                         *)
(* Money and shares are integers; an instance chooses prices, fees and     *)
(* split ratios for which every division below is exact, so the float      *)
(* tolerances of the code disappear.                                       *)
(***************************************************************************)
EXTENDS Integers, Sequences, SequencesExt

CONSTANT LongTermDays   \* days after which a holding is long-term (365)

ASSUME LedgerAssumption == LongTermDays \in Nat

Purchases == {"BUY", "REINVESTMENT"}
Transfers == {"TRANSFER_IN", "TRANSFER_OUT"}
Arrivals  == Purchases \cup {"TRANSFER_IN"}
Disposals == {"SELL", "TRANSFER_OUT"}
CashTypes == {"DEPOSIT", "WITHDRAWAL", "DIVIDEND", "INTEREST", "FEE"}
TxnType   == CashTypes \cup Arrivals \cup Disposals \cup {"SPLIT"}

PositionSign(type) ==
  IF type \in Arrivals THEN 1 ELSE IF type \in Disposals THEN -1 ELSE 0

Plus(a, b) == a + b
Total(s) == FoldLeft(Plus, 0, s)
Least(a, b) == IF a < b THEN a ELSE b
Positive(n) == IF n > 0 THEN n ELSE 0

Shares(lots) == Total([i \in DOMAIN lots |-> lots[i].qty])
Basis(lots)  == Total([i \in DOMAIN lots |-> lots[i].qty * lots[i].cost])

\* A singleton makes TLC evaluate a sequence once, and not at each of its uses.
Once(F(_), s) == CHOOSE r \in {F(t) : t \in {s}} : TRUE

\* Chronological, same-day rows in the order given.
Sorted(txns) ==
  LET days == SetToSortSeq({txns[i].day : i \in DOMAIN txns}, <)
  IN FlattenSeq([k \in DOMAIN days |->
       LET OnDay(t) == t.day = days[k] IN SelectSeq(txns, OnDay)])
ByDay(txns) == Once(Sorted, txns)

-----------------------------------------------------------------------------
(* The replay *)

NoLots == [lots |-> <<>>, realized |-> <<>>, cash |-> 0, raised |-> FALSE]

\* A missing price falls back to the amount, which includes the fees.
PurchaseCost(t) ==
  IF t.price > 0 THEN t.price + t.fees \div t.qty
  ELSE IF t.amount > 0 THEN t.amount \div t.qty
  ELSE t.fees \div t.qty
PurchaseCash(t) ==
  IF t.price > 0 THEN t.qty * t.price + t.fees
  ELSE IF t.amount > 0 THEN t.amount
  ELSE t.fees
TransferCost(t) ==
  IF t.price > 0 THEN t.price ELSE IF t.amount > 0 THEN t.amount \div t.qty ELSE 0

\* What closing q shares takes from each lot, in list order, and what is left.
Closed(lots, q) ==
  [i \in DOMAIN lots |-> Least(lots[i].qty, Positive(q - Shares(SubSeq(lots, 1, i - 1))))]
Gain(lot, closed, when, proceeds) ==
  [open |-> lot.day, close |-> when, qty |-> closed,
   proceeds |-> closed * proceeds, basis |-> closed * lot.cost]
RelieveLots(lots, q, when, proceeds) ==
  LET closed == Closed(lots, q)
      Some(g) == g.qty > 0
      Open(l) == l.qty > 0
  IN [gains |-> SelectSeq([i \in DOMAIN lots |-> Gain(lots[i], closed[i], when, proceeds)], Some),
      left  |-> SelectSeq([i \in DOMAIN lots |->
                  [lots[i] EXCEPT !.qty = @ - closed[i]]], Open)]

CashMove(led, t) ==
  [led EXCEPT !.cash = IF t.type \in {"DEPOSIT", "DIVIDEND", "INTEREST"}
                       THEN @ + t.amount ELSE @ - t.amount]
Buy(led, t) ==
  [led EXCEPT !.lots = Append(@, [day |-> t.day, qty |-> t.qty, cost |-> PurchaseCost(t)]),
              !.cash = @ - PurchaseCash(t)]
Sell(led, t) ==
  LET relief == RelieveLots(led.lots, t.qty, t.day, t.price - t.fees \div t.qty)
  IN [led EXCEPT !.lots = relief.left, !.realized = @ \o relief.gains,
                 !.cash = @ + t.qty * t.price - t.fees]
TransferIn(led, t) ==
  [led EXCEPT !.lots = Append(@, [day |-> t.day, qty |-> t.qty, cost |-> TransferCost(t)])]
TransferOut(led, t) ==
  [led EXCEPT !.lots = RelieveLots(@, t.qty, t.day, 0).left]
\* mutant: a split leaves the cost of a share
SplitAtOldCost(led, t) == [led EXCEPT !.lots = [i \in DOMAIN @ |-> [@[i] EXCEPT !.qty = @ * t.qty]]]
Split(led, t) ==
  [led EXCEPT !.lots = [i \in DOMAIN @ |->
     [@[i] EXCEPT !.qty = @ * t.qty, !.cost = @ \div t.qty]]]

\* A disposal of more than is held raises, and the replay is over.
Apply(led, t) ==
  IF led.raised THEN led
  ELSE IF t.type \in CashTypes THEN CashMove(led, t)
  ELSE IF t.qty <= 0 THEN led
  ELSE IF t.type \in Disposals /\ t.qty > Shares(led.lots) THEN [led EXCEPT !.raised = TRUE]
  ELSE CASE t.type \in Purchases      -> Buy(led, t)
         [] t.type = "SELL"           -> Sell(led, t)
         [] t.type = "TRANSFER_IN"    -> TransferIn(led, t)
         [] t.type = "TRANSFER_OUT"   -> TransferOut(led, t)
         [] t.type = "SPLIT"          -> Split(led, t)

Step(led, t) == LET After(l) == Apply(l, t) IN Once(After, led)
BuildLedger(txns) == FoldLeft(Step, NoLots, ByDay(txns))

LongTerm(gain) == gain.close - gain.open > LongTermDays
GainOf(gain) == gain.proceeds - gain.basis

-----------------------------------------------------------------------------
(* The reference: the n-th share to leave is the n-th share that came.     *)
(* Every quantity is expressed in the shares of the end of the history.    *)

\* The product of the splits in positions i..j of a chronological history.
Ratio(h, i, j) ==
  LET Times(acc, k) == IF h[k].type = "SPLIT" /\ h[k].qty > 0 THEN acc * h[k].qty ELSE acc
  IN FoldLeft(Times, 1, [k \in 1..Positive(j - i + 1) |-> i + k - 1])

Final(h, i) == h[i].qty * Ratio(h, i + 1, Len(h))
Moved(h, types, i) ==
  Total([k \in 1..i |-> IF h[k].type \in types /\ h[k].qty > 0 THEN Final(h, k) ELSE 0])
Came(h, i) == Moved(h, Arrivals, i)
Left(h, i) == Moved(h, Disposals, i)

Oversold(h) == \E i \in DOMAIN h : Left(h, i) > Came(h, i) /\ h[i].type \in Disposals

\* How many of the shares that left with entry j had come with entry i.
Matched(h, i, j) ==
  LET from == IF Came(h, i - 1) > Left(h, j - 1) THEN Came(h, i - 1) ELSE Left(h, j - 1)
  IN Positive(Least(Came(h, i), Left(h, j)) - from)

Arriving(h)  == {i \in DOMAIN h : h[i].type \in Arrivals /\ h[i].qty > 0}
Disposing(h) == {j \in DOMAIN h : h[j].type \in Disposals /\ h[j].qty > 0}
Cost(t) == IF t.type \in Purchases THEN PurchaseCost(t) ELSE TransferCost(t)

\* The parcels still open, and the parcels each sale closed.
OpenReference(h) ==
  {[day |-> h[i].day, qty |-> Final(h, i) - Positive(Least(Left(h, Len(h)) - Came(h, i - 1), Final(h, i))),
    cost |-> Cost(h[i]) \div Ratio(h, i + 1, Len(h))] : i \in Arriving(h)}
SaleReference(h) ==
  {[open |-> h[p[1]].day, close |-> h[p[2]].day,
    qty |-> Matched(h, p[1], p[2]) \div Ratio(h, p[2] + 1, Len(h)),
    basis |-> (Matched(h, p[1], p[2]) * Cost(h[p[1]])) \div Ratio(h, p[1] + 1, Len(h))] :
     p \in {p \in Arriving(h) \X Disposing(h) : h[p[2]].type = "SELL" /\ Matched(h, p[1], p[2]) > 0}}

CashReference(h) ==
  Total([i \in DOMAIN h |->
    CASE h[i].type \in {"DEPOSIT", "DIVIDEND", "INTEREST"}     -> h[i].amount
      [] h[i].type \in {"WITHDRAWAL", "FEE"}                   -> 0 - h[i].amount
      [] h[i].type \in Purchases /\ h[i].qty > 0               -> 0 - PurchaseCash(h[i])
      [] h[i].type = "SELL" /\ h[i].qty > 0                    -> h[i].qty * h[i].price - h[i].fees
      [] OTHER                                                 -> 0])

\* A replay raises exactly for a history that disposes of more than came, and otherwise
\* closes and keeps the parcels that oldest-first matching says, for the cash that moved.
AgreesWithReference(txns) ==
  LET h   == ByDay(txns)
      led == BuildLedger(txns)
      Proceedless(g) == [open |-> g.open, close |-> g.close, qty |-> g.qty, basis |-> g.basis]
  IN /\ led.raised <=> Oversold(h)
     /\ ~led.raised =>
          /\ {led.lots[i] : i \in DOMAIN led.lots} = {r \in OpenReference(h) : r.qty > 0}
          /\ {Proceedless(led.realized[i]) : i \in DOMAIN led.realized} = SaleReference(h)
          /\ led.cash = CashReference(h)
          /\ Shares(led.lots) = Came(h, Len(h)) - Left(h, Len(h))
          /\ Total([i \in DOMAIN led.realized |-> led.realized[i].proceeds]) =
               Total([i \in DOMAIN h |-> IF h[i].type = "SELL" /\ h[i].qty > 0
                                         THEN h[i].qty * h[i].price - h[i].fees ELSE 0])
=============================================================================
