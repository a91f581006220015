------------------------------ MODULE Household -----------------------------
(***************************************************************************)
(* A household of accounts over some days, and everything Metron computes  *)
(* from its record: holdings, cash, realized gains, income, the tax lens   *)
(* and the account-basis performance (api/services/analytics.py, tax.py,   *)
(* account_meta.py, account_basis.py, record_account_snapshots).           *)
(*                                                                         *)
(* log is what happened at the brokers. The record, known, may miss an     *)
(* event or learn it late; a snapshot-sourced account also reports         *)
(* positions, cash and closed lots (synced). All reads are operators of    *)
(* the record. One security, held in base currency and always priced.      *)
(***************************************************************************)
EXTENDS AccountPerformance, TaxLens, FiniteSets

CONSTANTS
  Order,        \* the accounts, in the order the code lists them
  Snapshot,     \* accounts whose broker reports positions (Flex, SnapTrade)
  Authoritative,\* those whose broker reports closed lots too (Flex)
  TaxedAt,      \* account -> "taxable", "tax_deferred" or "tax_exempt"
  Opening,      \* account -> shares held before the record begins
  Kinds,        \* account -> the kinds of events that may happen there
  Sec,          \* the security
  InitPrice, Rise, MaxEvents, MaxHidden, LastDay   \* bounds of the world

Accounts == {Order[i] : i \in DOMAIN Order}

ASSUME HouseholdAssumption ==
  /\ Authoritative \subseteq Snapshot /\ Snapshot \subseteq Accounts
  /\ TaxedAt \in [Accounts -> {"taxable", "tax_deferred", "tax_exempt"}]
  /\ Opening \in [Accounts -> Nat]
  /\ \A a \in Accounts \ Snapshot : Opening[a] = 0

VARIABLES
  day, price,
  log,       \* account -> what happened there, oldest first, as its broker writes it
  known,     \* account -> indices into its log: the recorded transactions, as imported
  synced,    \* snapshot account -> [qty, basis, cash, closed] of the last sync
  rows,      \* account -> account_nav_snapshots; gain: the true price gain so far, if synced
  earned     \* account -> the true price gain so far
vars == <<day, price, log, known, synced, rows, earned>>

-----------------------------------------------------------------------------
(* Reads: api/services/analytics.py *)

\* A bond trade recorded at face value is brought to units of 100 par.
NormalizeBondQuantity(t) ==
  LET value == t.qty * t.price
  IN IF /\ t.type \in Purchases \cup {"SELL"} /\ t.qty > 0 /\ t.price > 0 /\ t.amount > 0
        /\ 5 * value >= 400 * t.amount /\ 4 * value <= 500 * t.amount
     THEN t.qty \div 100 ELSE t.qty
ToEngineTxn(t) == [t EXCEPT !.qty = NormalizeBondQuantity(t)]
Record(a) == [i \in DOMAIN known[a] |-> log[a][known[a][i]]]
EngineTransactions(a) == [i \in DOMAIN Record(a) |-> ToEngineTxn(Record(a)[i])]

\* The groups of an account: its security's transactions, and cash alone.
Group(a, s) == LET In(t) == t.sec = s IN SelectSeq(EngineTransactions(a), In)
Groups == {Sec, ""}
Replayed(a, s) == BuildLedger(Group(a, s))
Incomplete(scope) == {<<a, s>> \in scope \X Groups : Replayed(a, s).raised}

InOrder(scope) == LET In(a) == a \in scope IN SelectSeq(Order, In)
\* Per account and security, merged; a group that cannot be replayed is left out alone.
Merged(scope, Part(_)) ==
  FlattenSeq([i \in DOMAIN InOrder(scope) |->
    LET led == Replayed(InOrder(scope)[i], Sec) IN IF led.raised THEN <<>> ELSE Part(led)])
LedgerLots(scope) == LET Lots(led) == led.lots IN ByDay(Merged(scope, Lots))
ByClose(gains) ==
  LET Dated == ByDay([i \in DOMAIN gains |-> [day |-> gains[i].close, gain |-> gains[i]]])
  IN [i \in DOMAIN Dated |-> Dated[i].gain]
LedgerRealized(scope) == LET Gains(led) == led.realized IN ByClose(Merged(scope, Gains))
LedgerCash(a) ==
  Total([i \in 1..2 |-> LET led == Replayed(a, <<Sec, "">>[i]) IN IF led.raised THEN 0 ELSE led.cash])

\* One account, one source of current holdings.
\* mutant: reported positions are added to a replay of the same account
LedgerSourcedAll(scope) == scope
LedgerSourced(scope) == scope \ Snapshot
Summed(sync, scope, lots) ==
  LET Held(a) == sync[a].qty
      Paid(a) == sync[a].basis
      reported == {a \in scope \cap Snapshot : sync[a].qty > 0}
  IN [qty |-> Shares(lots) + SumOver(reported, Held),
      basis |-> Basis(lots) + SumOver(reported, Paid)]
HoldingsGiven(sync, scope) == Summed(sync, scope, LedgerLots(LedgerSourced(scope)))
Holdings(scope) == HoldingsGiven(synced, scope)
CashGiven(sync, a) ==
  CASE a \notin Snapshot           -> [amount |-> LedgerCash(a), source |-> "ledger"]
    [] sync[a].cash = Unobserved   -> [amount |-> Unobserved, source |-> Unobserved]
    [] OTHER                       -> [amount |-> sync[a].cash, source |-> "custodian"]
CashOf(a) == CashGiven(synced, a).amount
GainOn(held) == held.qty * price - held.basis
UnrealizedGain(scope) == GainOn(Holdings(scope))

\* Closed lots the broker reports replace a replay of that account.
Stored(a) == IF a \in Snapshot THEN synced[a].closed ELSE <<>>
Reporting(scope) == {a \in scope : Stored(a) # <<>>}
Realized(scope) ==
  ByClose(FlattenSeq([i \in DOMAIN InOrder(scope) |-> Stored(InOrder(scope)[i])])
          \o LedgerRealized(scope \ Reporting(scope)))

\* api/services/account_meta.py
IsTaxable(a) == TaxedAt[a] = "taxable"
TaxableAccounts == {a \in Accounts : IsTaxable(a)}
DeferredAccounts == {a \in Accounts : TaxedAt[a] = "tax_deferred"}

CashEntries(scope, type) ==
  FlattenSeq([i \in DOMAIN InOrder(scope) |->
    LET Of(t) == t.type = type IN SelectSeq(Record(InOrder(scope)[i]), Of)])
Income(scope, deferred, year) ==
  SummarizeIncome(Realized(scope), CashEntries(scope, "DIVIDEND"), CashEntries(scope, "INTEREST"),
                  CashEntries(deferred, "WITHDRAWAL"), year)

\* api/services/tax.py: the taxable-only rule wins over a selection.
TaxScope(selected, taxableOnly) == IF taxableOnly THEN selected \cap TaxableAccounts ELSE selected
TaxLots(scope) ==
  LET lots == LedgerLots(scope)
  IN [i \in DOMAIN lots |->
       [term |-> ClassifyTerm(day - lots[i].day), gain |-> lots[i].qty * (price - lots[i].cost)]]
\* The figures of the tax tab, over taxable accounts unless all are asked for.
TaxFigures(scope, lots) ==
  LET Of(term) == Total([i \in DOMAIN lots |-> IF lots[i].term = term THEN lots[i].gain ELSE 0])
  IN [st |-> Of("Short-term"), lt |-> Of("Long-term"), positions |-> UnrealizedGain(scope),
      harvest |-> Total([i \in DOMAIN lots |-> HarvestableLoss(lots[i].gain)]),
      incomplete |-> {p[2] : p \in Incomplete(scope)} \ {""}]
FiguresOf(scope) == TaxFigures(scope, TaxLots(scope))
TaxSummary(selected, taxableOnly) == FiguresOf(TaxScope(selected, taxableOnly))
IfSoldPreview(scope, q) == HypotheticalSale(LedgerLots(scope), q, price, day)

RealizedExport(year) ==
  LET gains == Realized(TaxableAccounts)
      InYear(g) == YearOf(g.close) = year
      kept == SelectSeq(gains, InYear)
  IN [i \in DOMAIN kept |-> LotToRow(kept[i], FALSE)]

\* api/services/account_basis.py
Events(a) == [i \in DOMAIN known[a] |-> FromTransaction(EngineTransactions(a)[i])]
EventsOf == [a \in Accounts |-> Events(a)]

-----------------------------------------------------------------------------
(* The world, and the nightly run *)

\* The position and cash of an account at its broker.
Start(a) ==
  [NoLots EXCEPT !.lots =
     IF Opening[a] = 0 THEN <<>> ELSE <<[day |-> 0, qty |-> Opening[a], cost |-> InitPrice]>>]
Truth(a, events) ==
  FoldLeft(Step, Start(a), [i \in DOMAIN events |-> [events[i] EXCEPT !.qty = events[i].units]])
Position(a) == Truth(a, log[a])

Unknown(a) == DOMAIN log[a] \ Range(known[a])
Happened == Total([i \in DOMAIN Order |-> Len(log[Order[i]])])

Entry(type, qty, at, amount, fees) ==
  [day |-> day, type |-> type, sec |-> IF qty > 0 THEN Sec ELSE "", qty |-> qty,
   units |-> qty, price |-> at, amount |-> amount, fees |-> fees]
\* The events of a kind, as a broker writes them: a bond trade at face value (units: the
\* shares it brings), a sweep purchase without a price, a transfer with and without the
\* market value.
Written(kind) ==
  CASE kind = "buy"      -> {Entry("BUY", 2, price, 2 * price + 4, 4)}
    [] kind = "bond"     -> {[Entry("BUY", 200, price, 2 * price, 0) EXCEPT !.units = 2]}
    [] kind = "sweep"    -> {Entry("BUY", 2, 0, 2 * price, 0)}
    [] kind = "reinvest" -> {Entry("REINVESTMENT", 2, price, 2 * price, 0)}
    [] kind = "sell"     -> {Entry("SELL", q, price, q * price, 2 * q) : q \in {1, 3}}
    [] kind = "receive"  -> {Entry("TRANSFER_IN", 2, price, v, 0) : v \in {2 * price, 0}}
    [] kind = "deliver"  -> {Entry("TRANSFER_OUT", 2, price, 2 * price, 0)}
    [] kind \in CashTypes -> {Entry(kind, 0, 0, 6, 0)}

\* An event happens; its account's feed reports it at once, or not yet.
Happen(a) ==
  /\ Happened < MaxEvents /\ day < LastDay
  /\ \E kind \in Kinds[a] : \E t \in Written(kind), seen \in BOOLEAN :
       /\ seen \/ Cardinality(UNION {{<<b, i>> : i \in Unknown(b)} : b \in Accounts}) < MaxHidden
       /\ ~Truth(a, Append(log[a], t)).raised
       /\ log' = [log EXCEPT ![a] = Append(@, t)]
       /\ known' = IF seen THEN [known EXCEPT ![a] = Append(@, Len(log[a]) + 1)] ELSE known
  /\ UNCHANGED <<day, price, synced, rows, earned>>

\* A two-for-one split: every account holding the security is given its SPLIT.
Split2 ==
  /\ Happened < MaxEvents /\ day < LastDay
  /\ \A a \in Accounts : \A i \in DOMAIN log[a] : log[a][i].type # "SPLIT"
  /\ \E seen \in SUBSET Accounts :
       LET holders == {a \in Accounts : Shares(Position(a).lots) > 0}
           t == Entry("SPLIT", 2, 0, 0, 0)
       IN /\ holders # {} /\ seen \subseteq holders /\ Cardinality(holders \ seen) <= MaxHidden
          /\ log' = [a \in Accounts |-> IF a \in holders THEN Append(log[a], t) ELSE log[a]]
          /\ known' = [a \in Accounts |-> IF a \in seen THEN Append(known[a], Len(log[a]) + 1)
                                          ELSE known[a]]
  /\ price' = price \div 2
  /\ UNCHANGED <<day, synced, rows, earned>>

\* A later import brings what the feed had left out of earlier days.
Learn(a) ==
  LET late == {i \in Unknown(a) : log[a][i].day < day}
  IN /\ late # {}
     /\ known' = [known EXCEPT ![a] = @ \o SetToSortSeq(late, <)]
  /\ UNCHANGED <<day, price, log, synced, rows, earned>>

\* What a snapshot account's broker reports.
Report(a) ==
  LET p == Position(a)
  IN [qty |-> Shares(p.lots), basis |-> Basis(p.lots), cash |-> p.cash,
      closed |-> IF a \in Authoritative THEN p.realized ELSE <<>>]
\* record_account_snapshots: an account without a priced holding has no row.
Valued(at, final, held, cash, gain) ==
  IF held <= 0 THEN <<>>
  ELSE <<[day |-> day, final |-> final, nav |-> held * at, cash |-> cash.amount,
          source |-> cash.source, held |-> [s \in {Sec} |-> held], gain |-> gain]>>
Recorded(a, at, final, sync, gain) ==
  Valued(at, final, HoldingsGiven(sync, {a}).qty, CashGiven(sync, a), gain)
\* The close: the brokers are synced, those that answer, and every account is valued and
\* recorded. A row is final unless a leg had no close for the day yet.
Close ==
  /\ day < LastDay
  /\ \E final \in {Accounts, LedgerSourced(Accounts)}, answers \in {Snapshot, {}} :
     \E sync \in {[a \in Snapshot |-> IF a \in answers THEN Report(a) ELSE synced[a]]},
        gain \in {[a \in Accounts |-> Shares(Position(a).lots)]} :
       /\ answers = Snapshot \/ final = Accounts   \* one of the two mishaps at a time
       /\ price' = price + Rise
       /\ synced' = sync
       /\ earned' = [a \in Accounts |-> earned[a] + gain[a] * Rise]
       /\ rows' = [a \in Accounts |->
            rows[a] \o Recorded(a, price + Rise, a \in final, sync,
              IF a \in Snapshot \ answers THEN Unobserved ELSE earned[a] + gain[a] * Rise)]
  /\ day' = day + 1
  /\ UNCHANGED <<log, known>>

Init ==
  /\ day = 1 /\ price = InitPrice
  /\ log = [a \in Accounts |-> <<>>]
  /\ known = [a \in Accounts |-> <<>>]
  /\ synced = [a \in Snapshot |-> [Report(a) EXCEPT !.cash = Unobserved]]
  /\ rows = [a \in Accounts |-> <<>>]
  /\ earned = [a \in Accounts |-> 0]
Next == (\E a \in Accounts : Happen(a) \/ Learn(a)) \/ Split2 \/ Close
Spec == Init /\ [][Next]_vars

-----------------------------------------------------------------------------
(* Properties *)

\* Whatever the record of an account has, in whatever order it was learnt, the replay
\* (ledger.py build_ledger) keeps and closes the parcels that matching the n-th share out
\* with the n-th share in says, through fees, splits, transfers and partial lots.
ReplayIsFifo == \A a \in Accounts : \A s \in Groups : AgreesWithReference(Group(a, s))

CaughtUp(a) == IF a \in Snapshot THEN synced[a] = Report(a) ELSE ByDay(Record(a)) = log[a]
\* Once the brokers are synced and the feeds have caught up, the household's holdings,
\* cash and realized gains are those of its brokers, every account counted from one
\* source (analytics.py get_holdings, get_realized_gains, cash_with_source_by_account).
HoldingsAreHeld ==
  (\A a \in Accounts : CaughtUp(a)) =>
    LET TrueShares(a) == Shares(Position(a).lots)
        TrueBasis(a) == Basis(Position(a).lots)
        Gains(gains) == Total([i \in DOMAIN gains |-> GainOf(gains[i])])
        TrueGains(a) == Gains(Position(a).realized)
        listed == Authoritative \cup (Accounts \ Snapshot)
    IN /\ Holdings(Accounts).qty = SumOver(Accounts, TrueShares)
       /\ Holdings(Accounts).basis = SumOver(Accounts, TrueBasis)
       /\ \A a \in Accounts : CashOf(a) = Position(a).cash
       /\ Gains(Realized(listed)) = SumOver(listed, TrueGains)

\* The ledger of every account, and the household read from them, are what its brokers hold.
HouseholdIsHeld == ReplayIsFifo /\ HoldingsAreHeld

\* A day's events were learnt in the order in which they happened.
DaysInOrder(a) ==
  \A i, j \in DOMAIN known[a] :
    i < j /\ Record(a)[i].day = Record(a)[j].day => known[a][i] < known[a][j]
\* A period between two syncs that the gate passes reports the price gain that there was,
\* although one event of it is missing from the record: the wealth identity or the position gate
\* catches any single omission (account_performance.py decompose_period).
GateIsSound ==
  \A a \in Snapshot : DaysInOrder(a) =>
    LET periods == AccountPeriods(rows[a], Events(a))
        gainAt(d) == RowOf(rows[a], d).gain
        Missing(p) == {i \in Unknown(a) : p.start < log[a][i].day /\ log[a][i].day <= p.end}
    IN \A k \in DOMAIN periods :
         /\ periods[k].status = "reconciled"
         /\ Unobserved \notin {gainAt(periods[k].start), gainAt(periods[k].end)}
         /\ Cardinality(Missing(periods[k])) <= 1
         => periods[k].pnl = gainAt(periods[k].end) - gainAt(periods[k].start)

Reconciled(periods) == \A k \in DOMAIN periods : periods[k].status = "reconciled"
AllReconciled ==
  \A a \in Accounts : LET periods == AccountPeriods(rows[a], Events(a))
                     IN periods # <<>> /\ Reconciled(periods)
SplitRecorded == \E a \in Accounts : \E i \in DOMAIN known[a] : Record(a)[i].type = "SPLIT"
HouseholdPeriods == Rollup(rows, EventsOf, Order)
\* The scope as one book: when every account's periods reconcile, so do the household's,
\* as long as no account has recorded a split.
RollupAgrees == AllReconciled /\ ~SplitRecorded => Reconciled(HouseholdPeriods)
PeriodsReconcile == GateIsSound /\ RollupAgrees

\* What "if sold" shows of an account is what its ledger realizes when that sale is
\* recorded: the same parcels, and tax on the gain that remains of both terms together;
\* choosing lots changes what is sold, never how much it brings (domain/tax.py).
PreviewIsTheSale ==
  \A a \in Accounts : \A q \in 1..3, before \in {Replayed(a, Sec)} :
    ~before.raised /\ Sellable(before.lots, q, price) =>
      \A shown \in {IfSoldPreview({a}, q)} :
        /\ BuildLedger(Append(Group(a, Sec), Entry("SELL", q, price, 0, 0))).realized
             = before.realized \o shown.sold
        /\ shown.taxable.st + shown.taxable.lt = Positive(shown.st + shown.lt)
        /\ \A i \in DOMAIN before.lots : q <= before.lots[i].qty =>
             \A picks \in {<<[lot |-> i, qty |-> q]>>} :
             \A chosen \in {SpecificSale(before.lots, q, price, day, picks)} :
               /\ ValidPicks(before.lots, q, picks)
               /\ chosen.proceeds = shown.proceeds
               /\ SaleDelta(chosen, shown).basis + SaleDelta(chosen, shown).st
                     + SaleDelta(chosen, shown).lt = 0

Years == {YearOf(d) : d \in 0..LastDay}
\* Every parcel closed in a taxable account is exported in the year whose income it is
\* part of, and a retirement account's parcel in none (realized_lots_export.py,
\* analytics.py income). Once the ledger accounts have caught up, the tax tab's short- and
\* long-term gains are the gain of the positions, its losses cover any net loss, and the
\* holding period is that of every share held (tax.py tax_lots, holding_period.py).
TaxFiguresAgree ==
  /\ \A y \in Years :
       \A exported \in {RealizedExport(y)}, income \in {Income(TaxableAccounts, DeferredAccounts, y)} :
         LET Of(term) == Total([i \in DOMAIN exported |->
               IF exported[i].term = term THEN exported[i].proceeds - exported[i].basis ELSE 0])
         IN income.st = Of("SHORT") /\ income.lt = Of("LONG")
  /\ (\A a \in TaxableAccounts : CaughtUp(a)) =>
       \A tab \in {TaxSummary(Accounts, TRUE)}, held \in {Holdings(TaxableAccounts).qty} :
         /\ tab.incomplete = {} /\ tab.st + tab.lt = tab.positions
         /\ tab.harvest >= 0 - (tab.st + tab.lt)
         /\ \A period \in {HoldingPeriod(LedgerLots(TaxableAccounts), held, day)} :
              /\ period.known <=> held > 0
              /\ period.known => period.covered = held

\* The tax tab, the preview of a sale and the exported lots are all of one ledger.
TaxViewsAgree == PreviewIsTheSale /\ TaxFiguresAgree
=============================================================================
