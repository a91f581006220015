-------------------------- MODULE AccountPerformance ------------------------
(***************************************************************************)
(* The account-basis engine (portfolio_analytics/domain/                   *)
(* account_performance.py) and its inputs from stored snapshots            *)
(* (api/services/account_basis.py): wealth observations, the wealth        *)
(* identity and the position gate over a period, the rollup of a scope.    *)
(*                                                                         *)
(* Accrued income and financing debit are zero by the declared conventions *)
(* of account_basis.py; corporate-action cash and FX translation have no   *)
(* canonical transaction and never occur. Returns are fractions of the     *)
(* amounts kept here and are left out; what makes them unavailable is not. *)
(***************************************************************************)
EXTENDS Ledger, FiniteSetsExt

CONSTANT Unobserved   \* a component no source reported (None in the code)

ExternalKinds == {"DEPOSIT", "WITHDRAWAL", "TRANSFER_IN", "TRANSFER_OUT"}

\* An account event. A transfer without a market value carries no quantity.
FromTransaction(t) ==
  LET valued == t.amount > 0
  IN CASE t.type \in Purchases \cup {"SELL"} ->
            [day |-> t.day, kind |-> IF t.type = "SELL" THEN "SELL" ELSE "BUY",
             amount |-> t.qty * t.price, fees |-> t.fees, sec |-> t.sec, qty |-> t.qty]
       [] t.type = "SPLIT" ->
            [day |-> t.day, kind |-> "SPLIT", amount |-> 0, fees |-> 0, sec |-> t.sec, qty |-> t.qty]
       [] t.type \in Transfers ->
            [day |-> t.day, kind |-> t.type, amount |-> IF valued THEN t.amount ELSE 0,
             fees |-> t.fees, sec |-> t.sec, qty |-> IF valued THEN t.qty ELSE 0]
       [] OTHER ->
            [day |-> t.day, kind |-> t.type, amount |-> t.amount, fees |-> t.fees,
             sec |-> t.sec, qty |-> 0]

ExternalFlow(e) ==
  CASE e.kind \in {"DEPOSIT", "TRANSFER_IN"}     -> e.amount
    [] e.kind \in {"WITHDRAWAL", "TRANSFER_OUT"} -> 0 - e.amount
    [] OTHER                                     -> 0

-----------------------------------------------------------------------------
(* Observations. A stored row is [day, final, nav, cash, source, held],    *)
(* held a function from the securities of its legs to shares.              *)

Qty(held, s) == IF s \in DOMAIN held THEN held[s] ELSE 0
Wealth(o) == o.nav + o.cash

SumOver(S, Value(_)) == MapThenSumSet(Value, S)

\* Several accounts' rows of one close as one observation.
Combine(row, scope) ==
  LET secs == UNION {DOMAIN row[a].held : a \in scope}
      observed == \A a \in scope : row[a].cash # Unobserved
      Nav(a) == row[a].nav
      Cash(a) == row[a].cash
  IN [day  |-> row[CHOOSE a \in scope : TRUE].day,
      nav  |-> SumOver(scope, Nav),
      cash |-> IF observed THEN SumOver(scope, Cash) ELSE Unobserved,
      \* equal for two days just when no account switched its source
      source |-> IF observed THEN [a \in scope |-> row[a].source] ELSE Unobserved,
      held |-> [s \in secs |-> LET Of(a) == Qty(row[a].held, s) IN SumOver(scope, Of)]]

\* The shares the events of a period lead to from its start, in the order of the events.
Explained(start, events, s) ==
  LET Count(q, e) ==
        IF e.sec # s THEN q
        ELSE IF e.kind = "SPLIT" THEN q * e.qty
        ELSE q + PositionSign(e.kind) * e.qty
  IN FoldLeft(Count, Qty(start.held, s), events)
\* mutant: only new securities are compared
UnexplainedWhenNew(start, end, events) ==
  {s \in DOMAIN end.held \ DOMAIN start.held : Qty(end.held, s) # Explained(start, events, s)}
UnexplainedChanges(start, end, events) ==
  {s \in DOMAIN start.held \cup DOMAIN end.held \cup {events[i].sec : i \in DOMAIN events} :
     Qty(end.held, s) # Explained(start, events, s)}

Within(events, start, end) ==
  LET In(e) == start.day < e.day /\ e.day <= end.day IN SelectSeq(events, In)
Amounts(events, kinds) ==
  Total([i \in DOMAIN events |-> IF events[i].kind \in kinds THEN events[i].amount ELSE 0])
Costs(events) ==
  Amounts(events, {"FEE"}) +
  Total([i \in DOMAIN events |-> IF events[i].kind \in {"BUY", "SELL"} THEN events[i].fees ELSE 0])
External(events) == Total([i \in DOMAIN events |-> ExternalFlow(events[i])])

PricePnL(start, end, evs) ==
  end.nav - start.nav - Amounts(evs, {"BUY"}) + Amounts(evs, {"SELL"})
  - Amounts(evs, {"TRANSFER_IN"}) + Amounts(evs, {"TRANSFER_OUT"})
Residual(start, end, evs) ==
  Wealth(end) - Wealth(start) - External(evs)
  - (PricePnL(start, end, evs) + Amounts(evs, {"DIVIDEND", "INTEREST"}) - Costs(evs))

Unavailable(start, end) ==
  \/ start.cash = Unobserved \/ end.cash = Unobserved
  \/ start.source # end.source

\* The period (start, end]: available, its identity closed, its positions explained.
DecomposePeriod(start, end, events) ==
  LET evs == Within(ByDay(events), start, end)
  IN [start |-> start.day, end |-> end.day,
      status |-> IF Unavailable(start, end) THEN "unavailable"
                 ELSE IF Residual(start, end, evs) = 0 /\ UnexplainedChanges(start, end, evs) = {}
                 THEN "reconciled" ELSE "unreconciled",
      external |-> External(evs),
      pnl |-> IF Unavailable(start, end) THEN Unobserved ELSE PricePnL(start, end, evs),
      costs |-> Costs(evs)]

\* Consecutive observations; a figure of the whole span needs every period reconciled.
Periods(obs, events) ==
  [i \in 1..(Len(obs) - 1) |-> DecomposePeriod(obs[i], obs[i + 1], events)]
-----------------------------------------------------------------------------
(* api/services/account_basis.py: final rows only *)

FinalRows(rows) == LET IsFinal(r) == r.final IN SelectSeq(rows, IsFinal)
AccountPeriods(rows, events) ==
  IF Len(FinalRows(rows)) < 2 THEN <<>> ELSE Periods(FinalRows(rows), events)

FinalDays(rows) == {r.day : r \in {rows[i] : i \in {i \in DOMAIN rows : rows[i].final}}}
RowOf(rows, d) == CHOOSE r \in {rows[i] : i \in DOMAIN rows} : r.day = d

\* Only days on which every account of the scope has a final row count.
CommonDays(rowsOf, scope) ==
  {d \in UNION {FinalDays(rowsOf[a]) : a \in scope} : \A a \in scope : d \in FinalDays(rowsOf[a])}
Combined(rowsOf, scope) ==
  LET days == SetToSortSeq(CommonDays(rowsOf, scope), <)
  IN [i \in DOMAIN days |-> Combine([a \in scope |-> RowOf(rowsOf[a], days[i])], scope)]
\* mutant: the events of the first account
ScopeEventsOfFirst(eventsOf, order) == eventsOf[order[1]]
\* The accounts' events one account after the other.
ScopeEvents(eventsOf, order) == FlattenSeq([i \in DOMAIN order |-> eventsOf[order[i]]])
Rollup(rowsOf, eventsOf, order) ==
  LET scope == {order[i] : i \in DOMAIN order}
      obs == Combined(rowsOf, scope)
  IN IF Len(obs) < 2 THEN <<>> ELSE Periods(obs, ScopeEvents(eventsOf, order))
=============================================================================
