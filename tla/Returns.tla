------------------------------- MODULE Returns ------------------------------
(***************************************************************************)
(* The performance reads (api/services/performance.py) as functions of a   *)
(* series of points [day, nav, flow]: flow-neutralized returns and what is *)
(* linked from them, the windows of the Overview tiles, the series of a    *)
(* selection of accounts, an account's line reconstructed from its lots or *)
(* its ledger, and the benchmark beside them.                              *)
(*                                                                         *)
(* A growth is a fraction [n, d]; a return is its growth minus one.        *)
(* Annualized figures and risk ratios are functions of these and left out. *)
(***************************************************************************)
EXTENDS Ledger, FiniteSetsExt

CONSTANTS
  Weekends,    \* days without a session: no bar, no trade
  MonthEnds,   \* last days of their month
  YearEnds,    \* last days of their year
  LtmDays,     \* the days of the trailing year (365)
  NoWindow     \* a figure that cannot be formed (None in the code)

Unit == [n |-> 1, d |-> 1]
Times(f, g) == [n |-> f.n * g.n, d |-> f.d * g.d]
SameGrowth(f, g) == f.n * g.d = g.n * f.d

PreviousSession(d) == Max({0} \cup {s \in 1..(d - 1) : s \notin Weekends})

\* The latest bar on or before a day; bars is a function from days to closes.
AsOfClose(bars, d) == bars[Max({b \in DOMAIN bars : b <= d})]

-----------------------------------------------------------------------------
(* Linked returns *)

\* The steps of a window, but for those without a positive prior NAV.
Steps(points) ==
  LET Countable(s) == s[1].nav > 0
  IN SelectSeq([i \in 1..(Len(points) - 1) |-> <<points[i], points[i + 1]>>], Countable)
StepGrowth(step) == [n |-> step[2].nav - step[2].flow, d |-> step[1].nav]
Linked(steps) ==
  LET Link(g, s) == Times(g, StepGrowth(s)) IN FoldLeft(Link, Unit, steps)
WindowTwr(points) == Linked(Steps(points))
GrowthIndex(points) ==
  [i \in DOMAIN points |-> [day |-> points[i].day, g |-> WindowTwr(SubSeq(points, 1, i))]]

\* mutant: the flow of the base counts as a flow of the window
NetFlowsFromBase(window) == Total([i \in DOMAIN window |-> window[i].flow])
NetFlows(window) == Total([i \in 1..(Len(window) - 1) |-> window[i + 1].flow])
WindowGain(window) == Last(window).nav - window[1].nav - NetFlows(window)
\* The cash flows whose rate is the money-weighted return.
MwrFlows(window) ==
  <<0 - window[1].nav>> \o [i \in 1..(Len(window) - 1) |-> 0 - window[i + 1].flow]
    \o <<Last(window).nav>>
\* A step of more than 8 % is shown as one to check by hand.
Suspect(step) == LET g == StepGrowth(step) IN 100 * g.n > 108 * g.d \/ 100 * g.n < 92 * g.d
SuspectDays(window) ==
  {Steps(window)[i][2].day : i \in {i \in DOMAIN Steps(window) : Suspect(Steps(window)[i])}}

-----------------------------------------------------------------------------
(* The windows of the tiles *)

\* The last point of one of these days.
LastIndex(points, days) == Max({0} \cup {i \in DOMAIN points : points[i].day \in days})
\* Rows stamped on a weekend carry the session before forward and are no session.
OnSession(points, s) == LastIndex(points, (1..s) \ Weekends)
\* The last point before the month, the year or the trailing year; else the first point.
FromFirst(i) == IF i = 0 THEN 1 ELSE i
BaseIndex(points, period, today, lcd) ==
  LET end == Last(points).day
      Before(ends) == 1..Max({0} \cup {e \in ends : e < end})
  IN CASE period = "today" -> OnSession(points, PreviousSession(lcd))
       [] period = "mtd"   -> FromFirst(LastIndex(points, Before(MonthEnds)))
       [] period = "ytd"   -> FromFirst(LastIndex(points, Before(YearEnds)))
       [] period = "ltm"   -> FromFirst(LastIndex(points, 1..(today - LtmDays)))
EndIndex(points, period, lcd) ==
  IF period = "today" THEN OnSession(points, lcd) ELSE Len(points)
Slice(points, base, end) ==
  IF base = 0 \/ base >= end THEN <<>> ELSE SubSeq(points, base, end)
\* lcd is the last session that has closed.
TileWindow(points, period, today, lcd) ==
  IF Len(points) < 2 THEN <<>>
  ELSE Slice(points, BaseIndex(points, period, today, lcd), EndIndex(points, period, lcd))
TilePeriods == {"today", "mtd", "ytd", "ltm"}

BenchReturn(bars, window) ==
  [n |-> AsOfClose(bars, Last(window).day), d |-> AsOfClose(bars, window[1].day)]

\* From the first point of the period on, if the line reaches back that far.
PeriodFrom(line, start) ==
  LET ref == line[Min({i \in DOMAIN line : line[i].day >= start})]
  IN [n |-> Last(line).g.n * ref.g.d, d |-> Last(line).g.d * ref.g.n, from |-> ref.day]
PeriodFromGrowth(line, start) ==
  IF Len(line) < 2 \/ line[1].day > start \/ Last(line).day < start THEN NoWindow
  ELSE PeriodFrom(line, start)

-----------------------------------------------------------------------------
(* A selection of accounts. rows is a set of [acct, day, nav, flow].       *)

On(rows, d) == {r \in rows : r.day = d}
Reporting(rows) == {r.acct : r \in rows}
\* Once every account of the selection has reported, the days on which all of them do.
CohortDays(rows) ==
  LET First(a) == Min({r.day : r \in {r \in rows : r.acct = a}})
      start == Max({First(a) : a \in Reporting(rows)})
  IN {d \in {r.day : r \in rows} : d >= start /\ Reporting(On(rows, d)) = Reporting(rows)}
CohortPoint(rows, d) ==
  LET Nav(r) == r.nav
      Flow(r) == r.flow
  IN [day |-> d, nav |-> MapThenSumSet(Nav, rows), flow |-> MapThenSumSet(Flow, rows)]
CohortSeries(rows) ==
  LET days == IF rows = {} THEN <<>> ELSE SetToSortSeq(CohortDays(rows), <)
  IN [i \in DOMAIN days |-> CohortPoint(On(rows, days[i]), days[i])]

-----------------------------------------------------------------------------
(* A line reconstructed from the lots of a broker or the trades of a       *)
(* ledger account. src is [open, closed, txns]: open lots, closed lots     *)
(* and the ledger's transactions, of one account.                          *)

\* mutant: a lot still counts on the day it was closed
LotSharesThroughClose(src, d) ==
  Total([i \in DOMAIN src.open |-> IF src.open[i].day <= d THEN src.open[i].qty ELSE 0])
  + Total([i \in DOMAIN src.closed |->
      IF src.closed[i].open <= d /\ d <= src.closed[i].close THEN src.closed[i].qty ELSE 0])
\* A lot counts from its opening to the day before its closing.
LotShares(src, d) ==
  Total([i \in DOMAIN src.open |-> IF src.open[i].day <= d THEN src.open[i].qty ELSE 0])
  + Total([i \in DOMAIN src.closed |->
      IF src.closed[i].open <= d /\ d < src.closed[i].close THEN src.closed[i].qty ELSE 0])
Through(txns, d) == LET Done(t) == t.day <= d IN SelectSeq(txns, Done)
SharesAsOf(src, d) == LotShares(src, d) + Shares(BuildLedger(Through(src.txns, d)).lots)

LotOpens(src) ==
  [i \in DOMAIN src.open |-> [day |-> src.open[i].day, qty |-> src.open[i].qty]]
  \o [i \in DOMAIN src.closed |-> [day |-> src.closed[i].open, qty |-> src.closed[i].qty]]
LotCloses(src) ==
  [i \in DOMAIN src.closed |-> [day |-> src.closed[i].close, qty |-> src.closed[i].qty]]
DaysOf(events) == {events[i].day : i \in DOMAIN events}

ValuationDates(src, today) ==
  LET first == Min(DaysOf(LotOpens(src)) \cup DaysOf(src.txns) \cup {today})
  IN {first, today} \cup {m \in MonthEnds : first <= m /\ m <= today}
       \cup DaysOf(LotOpens(src)) \cup DaysOf(LotCloses(src))

\* A lot event moves the flow by the market value of its shares on its own day; a trade of
\* the ledger by its amount.
EventValue(bars, events, lo, hi) ==
  Total([i \in DOMAIN events |->
    IF lo < events[i].day /\ events[i].day <= hi
    THEN events[i].qty * AsOfClose(bars, events[i].day) ELSE 0])
NetPurchases(txns, lo, hi) ==
  Total([i \in DOMAIN txns |->
    IF lo < txns[i].day /\ txns[i].day <= hi
    THEN PositionSign(txns[i].type) * txns[i].amount ELSE 0])
FlowIn(src, bars, lo, hi) ==
  EventValue(bars, LotOpens(src), lo, hi) - EventValue(bars, LotCloses(src), lo, hi)
  + NetPurchases(src.txns, lo, hi)

\* The days on which something is held; a flow reaches back to the point before.
ReconstructDays(src, today) ==
  SetToSortSeq({d \in ValuationDates(src, today) : SharesAsOf(src, d) > 0}, <)
PointsOn(src, bars, days) ==
  [i \in DOMAIN days |->
    [day |-> days[i], nav |-> SharesAsOf(src, days[i]) * AsOfClose(bars, days[i]),
     flow |-> FlowIn(src, bars, IF i = 1 THEN 0 ELSE days[i - 1], days[i])]]
ReconstructPoints(src, bars, today) ==
  IF src.open = <<>> /\ src.closed = <<>> /\ src.txns = <<>> THEN <<>>
  ELSE PointsOn(src, bars, ReconstructDays(src, today))

\* The account's line in the Holdings chart, and what backs it.
LineFrom(recon, forward) ==
  IF Len(recon) >= 2 THEN [coverage |-> "reconstructed", points |-> GrowthIndex(recon)]
  ELSE IF Len(forward) >= 2 THEN [coverage |-> "forward", points |-> GrowthIndex(forward)]
  ELSE [coverage |-> "none", points |-> <<>>]
AccountLine(src, bars, today, rows) ==
  LineFrom(ReconstructPoints(src, bars, today), CohortSeries(rows))
=============================================================================
