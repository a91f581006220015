----------------------------- MODULE BookReturns ----------------------------
(***************************************************************************)
(* A book of accounts that trade one security at its close, the NAV rows   *)
(* recorded of it (record_snapshot, record_account_snapshots), and every   *)
(* performance figure read from those rows or from the lots.               *)
(*                                                                         *)
(* The broker of a lot-reporting account states positions and lots, and no *)
(* purchase or sale: its trades are in the NAV of a row and in the lines   *)
(* rebuilt from lots, and in no flow of a recorded row.                    *)
(*                                                                         *)
(* The night may be missed, a trade may be entered after its day was       *)
(* recorded, and the portfolio's row may be wrong by Err: a fault of the   *)
(* aggregation, which the shadow recompute exists to find.                 *)
(***************************************************************************)
EXTENDS Returns

CONSTANTS
  Accounts,
  Brokers,     \* accounts whose broker reports lots (IBKR Flex); the others record trades
  InitPrice, Prices,   \* the first close, and the closes a later session may have
  Buys, Sells,         \* the sizes of trades
  Err, LastDay, MaxTrades, MaxWrong   \* bounds of the world

ASSUME BookReturnsAssumption ==
  /\ Brokers \subseteq Accounts
  /\ Prices \cup {InitPrice} \cup Buys \cup Sells \subseteq Nat \ {0} /\ 1 \notin Weekends

VARIABLES
  day,
  bars,      \* session -> close of the security
  trades,    \* what was bought and sold in all accounts, oldest first
  prow,      \* day -> [nav, flow], the portfolio's rows
  arow       \* account -> day -> [nav, flow]
book == <<day, bars, trades, prow, arow>>

Session(d) == d \notin Weekends
TradesOf(a) == LET Of(t) == t.acct = a IN SelectSeq(trades, Of)
\* The trades that are transaction rows: a Flex report's rows are its cash movements.
Stated(txns) == LET Row(t) == t.acct \notin Brokers IN SelectSeq(txns, Row)
Signed(t) == PositionSign(t.type) * t.qty
HeldAfter(txns, d) ==
  Total([i \in DOMAIN txns |-> IF txns[i].day <= d THEN Signed(txns[i]) ELSE 0])

AtClose(a, type, qty) ==
  [acct |-> a, day |-> day, type |-> type, qty |-> qty,
   price |-> bars[day], fees |-> 0, amount |-> qty * bars[day]]
Trade(a, type, qty) ==
  /\ Session(day) /\ day < LastDay /\ Len(trades) < MaxTrades
  /\ type = "SELL" => qty <= HeldAfter(TradesOf(a), day)
  /\ trades' = Append(trades, AtClose(a, type, qty))
  /\ UNCHANGED <<day, bars, prow, arow>>

LastRow(rows, d) == Max({0} \cup {e \in DOMAIN rows : e < d})
RowFor(rows, txns, d) ==
  [nav |-> HeldAfter(txns, d) * AsOfClose(bars, d),
   flow |-> NetPurchases(Stated(txns), LastRow(rows, d), d)]
Upsert(rows, d, row) == [e \in DOMAIN rows \cup {d} |-> IF e = d THEN row ELSE rows[e]]
\* Nothing priced, no row.
Recorded(rows, txns, row) == IF HeldAfter(txns, day) = 0 THEN rows ELSE Upsert(rows, day, row)

\* The navs of up to seven rows before the day, and twice their median.
RecentNavs(rows, d) ==
  LET days == SetToSortSeq({e \in DOMAIN rows : e < d}, >)
  IN [i \in 1..Least(7, Len(days)) |-> rows[days[i]].nav]
TwiceMedian(navs) ==
  LET sorted == SortSeq(navs, <)
  IN sorted[(Len(navs) + 1) \div 2] + sorted[Len(navs) \div 2 + 1]
\* More than three times, or less than a third of, the baseline plus the flow.
Implausible(row, navs) ==
  /\ navs # <<>> /\ TwiceMedian(navs) > 0
  /\ LET expected == TwiceMedian(navs) + 2 * row.flow
     IN expected > 0 /\ (2 * row.nav > 3 * expected \/ 6 * row.nav < expected)
\* Only the portfolio's row is guarded: a jump no flow explains is not recorded.
RecordedUnlessJump(rows, txns, row) ==
  IF Implausible(row, RecentNavs(rows, day)) THEN rows ELSE Recorded(rows, txns, row)

RightNav(d) == prow[d].nav = HeldAfter(trades, d) * AsOfClose(bars, d)
WrongDays == {d \in DOMAIN prow : ~RightNav(d)}

\* The refresh of a night, or a user's: the day's rows, written or overwritten.
Record ==
  \E err \in {0, Err} :
    /\ err > 0 => Cardinality(WrongDays) < MaxWrong
    /\ prow' = RecordedUnlessJump(prow, trades, [RowFor(prow, trades, day) EXCEPT !.nav = @ + err])
    /\ arow' = [a \in Accounts |->
                  Recorded(arow[a], TradesOf(a), RowFor(arow[a], TradesOf(a), day))]
    /\ UNCHANGED <<day, bars, trades>>

\* Once the fault is fixed, a row is written again.
Repair(d) ==
  /\ prow' = Upsert(prow, d, RowFor(prow, trades, d))
  /\ UNCHANGED <<day, bars, trades, arow>>

Advance ==
  /\ day < LastDay /\ day' = day + 1
  /\ IF Session(day + 1)
     THEN \E p \in Prices : bars' = Upsert(bars, day + 1, p)
     ELSE UNCHANGED bars
  /\ UNCHANGED <<trades, prow, arow>>

BookInit ==
  /\ day = 1 /\ prow = <<>> /\ arow = [a \in Accounts |-> <<>>]
  /\ bars = [d \in {1} |-> InitPrice]
  /\ \E a \in Accounts, q \in Buys : trades = <<AtClose(a, "BUY", q)>>
BookNext ==
  \/ \E a \in Accounts : (\E q \in Buys : Trade(a, "BUY", q)) \/ (\E q \in Sells : Trade(a, "SELL", q))
  \/ Record
  \/ \E d \in WrongDays : Repair(d)

-----------------------------------------------------------------------------
(* Reads *)

Points(rows) ==
  LET days == SetToSortSeq(DOMAIN rows, <)
  IN [i \in DOMAIN days |-> [day |-> days[i], nav |-> rows[days[i]].nav, flow |-> rows[days[i]].flow]]
RowsOf(scope) ==
  UNION {{[acct |-> a, day |-> d, nav |-> arow[a][d].nav, flow |-> arow[a][d].flow] :
            d \in DOMAIN arow[a]} : a \in scope}

\* What the broker reports of its account, or what is replayed for a ledger account.
Source(a) ==
  IF a \in Brokers
  THEN LET led == BuildLedger(TradesOf(a)) IN [open |-> led.lots, closed |-> led.realized, txns |-> <<>>]
  ELSE [open |-> <<>>, closed |-> <<>>, txns |-> TradesOf(a)]
LineOf(a) == AccountLine(Source(a), bars, day, RowsOf({a}))

LastClosed(closed) ==
  IF closed /\ Session(day) THEN day ELSE PreviousSession(day)

-----------------------------------------------------------------------------
(* The reference: a book of one security grows with its price.             *)

\* held is a function from 0..day to shares.
HeldFrom(txns) == [d \in 0..day |-> HeldAfter(txns, d)]
TrueGrowth(held, from, to) ==
  LET Day(g, k) == IF held[k] > 0
                   THEN Times(g, [n |-> AsOfClose(bars, k + 1), d |-> AsOfClose(bars, k)]) ELSE g
  IN FoldLeft(Day, Unit, [i \in 1..(to - from) |-> from + i - 1])
TrueGain(held, from, to) ==
  Total([i \in 1..(to - from) |->
    held[from + i - 1] * (AsOfClose(bars, from + i) - AsOfClose(bars, from + i - 1))])

\* Every row is worth what was held, and its flow is every purchase since the row before:
\* so no lot-reporting account has bought or sold since the first row. And nothing was
\* traded on a night that was missed, unless it left nothing to record.
RowsRight(points, txns) ==
  \A i \in DOMAIN points :
    /\ points[i].nav = HeldAfter(txns, points[i].day) * AsOfClose(bars, points[i].day)
    /\ i > 1 => points[i].flow = NetPurchases(txns, points[i - 1].day, points[i].day)
NightsKept(points, txns) ==
  \A i \in 2..Len(points) : \A t \in DOMAIN txns :
    points[i - 1].day < txns[t].day /\ txns[t].day < points[i].day
      => HeldAfter(txns, txns[t].day) = 0

SameLine(points, held) ==
  \A i \in DOMAIN points :
    SameGrowth(points[i].g, TrueGrowth(held, points[1].day, points[i].day))
SameTile(window, held) ==
  \A from \in {window[1].day}, to \in {Last(window).day}, growth \in {WindowTwr(window)} :
    /\ SameGrowth(growth, TrueGrowth(held, from, to))
    \* the market's return over the window, while something is held
    /\ (\A k \in from..to : held[k] > 0) => SameGrowth(growth, BenchReturn(bars, window))
    \* a day to check by hand is a day on which the price moved
    /\ \A d \in SuspectDays(window) : \E e \in from..d : AsOfClose(bars, e) # AsOfClose(bars, d)
Tiles(points) ==
  {TileWindow(points, p, day, LastClosed(c)) : p \in TilePeriods, c \in BOOLEAN} \ {<<>>}

ScopeTxns(scope) == LET In(t) == t.acct \in scope IN SelectSeq(trades, In)
\* The series read from the rows, with the trades it is about.
SeriesRead ==
  {<<Points(prow), trades>>} \cup
  {<<CohortSeries(RowsOf(S)), ScopeTxns(S)>> : S \in SUBSET Accounts \ {{}}}

\* Buying, selling, moving in and out at the close of an account that records its trades is
\* never performance, beside a lot-reporting account that holds: the headline figure, the chart line and each tile report the price return of
\* the days on which something was held, and a tile of a book that holds the market has
\* no alpha (performance.py performance, period_tiles, _growth_index, tile_basis).
FlowsAreNoReturns ==
  \A s \in SeriesRead :
    RowsRight(s[1], s[2]) /\ NightsKept(s[1], s[2]) /\ s[1] # <<>> =>
      \A held \in {HeldFrom(s[2])} :
        /\ SameLine(GrowthIndex(s[1]), held)
        /\ \A w \in Tiles(s[1]) : SameTile(w, held)

\* A tile's gain is what the shares held earned, to the cent, although nights are missed,
\* where the rows' flows are all that was bought and sold, and the money-weighted return discounts exactly that gain (period_tiles, _window_mwr).
GainIsEarned ==
  \A s \in SeriesRead : RowsRight(s[1], s[2]) =>
    \A w \in Tiles(s[1]) :
      /\ WindowGain(w) = TrueGain(HeldFrom(s[2]), w[1].day, Last(w).day)
      /\ Total(MwrFlows(w)) = WindowGain(w)

\* An account whose broker reports lots has its whole history at any time, with no row
\* recorded: its line, and its year figures, are the price return of the days it held
\* something (_reconstruct_nav_points, _period_from_growth).
LotLineIsPriceReturn ==
  \A a \in Brokers : \A line \in {LineOf(a)} :
    line.coverage = "reconstructed" =>
      \A held \in {HeldFrom(TradesOf(a))} :
        /\ SameLine(line.points, held)
        /\ \A start \in 1..day : \A p \in {PeriodFromGrowth(line.points, start)} :
             p # NoWindow => SameGrowth(p, TrueGrowth(held, p.from, Last(line.points).day))
=============================================================================
