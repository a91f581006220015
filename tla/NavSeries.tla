------------------------------- MODULE NavSeries -------------------------------
(***************************************************************************)
(* The dated NAV series of one portfolio: api/services/performance.py, as  *)
(* the nightly job (api/maintenance.py daily_refresh, up to three fires an *)
(* evening) and the interactive routes drive it.                           *)
(*                                                                         *)
(* Four writers share the rows of nav_snapshots: the live record of a day, *)
(* the reconstruction from dated lots, the restatement of provisional rows *)
(* and the reader's buttons, which run the same functions.  A price is     *)
(* represented by the day of the bar it was read from and a NAV by the     *)
(* legs it sums, so that a row shows what it was valued from.              *)
(***************************************************************************)
EXTENDS Integers, Sequences, FiniteSets

CONSTANTS
  Last,        \* bound: days are 1 .. Last; day 0 is before the first
  Sessions,    \* the trading days
  Weekends,    \* the other days are holidays, which the freshness gate does not know
  MonthEnds,
  Lots,        \* lots of the stock that are bought and sold
  LotSourced,  \* TRUE: positions from broker lots; FALSE: replayed from a ledger
  Lag,         \* how many days after it a trade may become known
  FundLag,     \* sessions a fund NAV may be behind when a session's closes publish
  Window,      \* _RECONCILE_WINDOW_DAYS
  Fails,       \* best-effort steps that may fail, and "probe", the freshness probe
  Buttons,     \* the interactive requests: "refresh", "build"
  Budgets,     \* bound: how many requests each source may begin, alternatives
  None

Days  == 1 .. Last
Dates == 0 .. Last
Stock == "stock"
Fund  == "fund"
Tickers  == {Stock, Fund}
Sources  == {"job", "user"}

ASSUME NavAssumption ==
  /\ Last \in Nat \ {0} /\ Lag \in Nat /\ FundLag \in Nat /\ Window \in Nat
  /\ Budgets # {} /\ Budgets \subseteq [Sources -> Nat]
  /\ Sessions \subseteq Days /\ MonthEnds \subseteq Days
  /\ Weekends \subseteq Days \ Sessions
  /\ IsFiniteSet(Lots) /\ LotSourced \in BOOLEAN
  /\ None \notin Days

VARIABLES
  today,     \* the calendar day in New York
  spine,     \* per ticker, the newest bar the data spine has published
  bars,      \* price_bars: per ticker, the days of the cached closes
  lots,      \* per lot of the stock, and for the fund's one, what is known of it:
             \* [open, close], 0 for "not yet"
  rows,      \* nav_snapshots: per day, its row or None
  todo,      \* per source, the steps its request has still to run
  asof,      \* per source, the date its request calls today
  loaded,    \* per source, the rows its current step has read
  pending,   \* per source, the rows its current step will write, or None
  requests,  \* bound: requests each source has begun
  uptodate   \* observation: per source, and for the series, the day up to which its last
             \* reconstruction knew the lots as they are and could price them

vars == <<today, spine, bars, lots, rows, todo, asof, loaded, pending, requests, uptodate>>

Legs == [qty : 0 .. Cardinality(Lots), stock : Dates, fund : Dates]
Composition == [legs : Legs, stale : BOOLEAN]      \* stale: of the fund leg
Flows == -Cardinality(Lots) .. Cardinality(Lots)
NavSnapshot ==
  [nav : Legs, flow : Flows, provisional : BOOLEAN, composition : Composition \cup {None},
   estimated : BOOLEAN]      \* whether estimated_inputs is set
Series == [Days -> NavSnapshot \cup {None}]

ASSUME NoneAssumption == None \notin NavSnapshot \cup Composition

Steps == {"refresh", "reconcile", "backfill", "reconstruct", "record"}

WithinBudget(r) == \E b \in Budgets : \A s \in Sources : r[s] <= b[s]

TypeOK ==
  /\ today \in Days
  /\ spine \in [Tickers -> Dates]
  /\ bars \in [Tickers -> SUBSET Dates]
  /\ lots \in [Lots \cup {Fund} -> [open : Dates, close : Dates]]
  /\ rows \in Series
  /\ todo \in [Sources -> Seq(Steps)]
  /\ asof \in [Sources -> Days]
  /\ loaded \in [Sources -> Series \cup {None}]
  /\ pending \in [Sources -> Series \cup {None}]
  /\ requests \in [Sources -> Nat] /\ WithinBudget(requests)
  /\ uptodate \in [Sources \cup {"series"} -> Dates]
------------------------------------------------------------------------------
(***************************************************************************)
(* Positions and flows.  One lot is one share.  The fund is held all the   *)
(* time, since a lot of day 1 or as a position without lots or trades.     *)
(***************************************************************************)
Largest(S) == CHOOSE m \in S : \A n \in S : n <= m
Smallest(S) == CHOOSE m \in S : \A n \in S : n >= m

Opened(l) == lots[l].open # 0
Closed(l) == lots[l].close # 0
Placed == Opened(Fund)

HeldNow == {l \in Lots : Opened(l) /\ ~Closed(l)}

\* Mutant of HeldOn: a lot still counts on the day it closes.
HeldThrough(d) == {l \in Lots : /\ Opened(l) /\ lots[l].open <= d
                                /\ Closed(l) => d <= lots[l].close}

\* A lot counts from its open date up to, and not on, its close date.
HeldOn(d) == {l \in Lots : /\ Opened(l) /\ lots[l].open <= d
                           /\ Closed(l) => d < lots[l].close}

\* The shares that came in on some days, less those that left.
Flow(days) == Cardinality({l \in Lots : Opened(l) /\ lots[l].open \in days})
              - Cardinality({l \in Lots : Closed(l) /\ lots[l].close \in days})

\* The most recent row strictly before a day; 0 when there is none.
LastSnapshotDate(d) == Largest({0} \cup {e \in Days : e < d /\ rows[e] # None})

DatesOf(S) == {lots[l].open : l \in {m \in S : Opened(m)}}
                \cup {lots[l].close : l \in {m \in S : Closed(m)}}
TradeDates == DatesOf(Lots)
LotDates   == DatesOf(Lots \cup {Fund})

\* Month-ends, flow dates and both endpoints.  A lot's dates are flow dates; a buy or
\* sell of the ledger is not.
First(d) == Smallest({d} \cup LotDates)

ValuationDates(d) ==
  LET flows == IF LotSourced THEN LotDates ELSE {}
  IN {First(d), d} \cup {e \in MonthEnds \cup flows : First(d) <= e /\ e <= d}

PriorValuation(e, d) == Largest({0} \cup {v \in ValuationDates(d) : v < e})
------------------------------------------------------------------------------
(***************************************************************************)
(* Prices.  The live record takes the newest close.  A reconstruction up   *)
(* to day d reads the closes since its first day and values day e at the   *)
(* last one up to e; without one at the price of what is held now.         *)
(***************************************************************************)
LatestBar(t) == Largest(bars[t])

Seen(t, e, d) == {b \in bars[t] : First(d) <= b /\ b <= e}
AsOfBar(t, e, d) == IF Seen(t, e, d) = {} THEN LatestBar(t) ELSE Largest(Seen(t, e, d))

\* Of a stock that is sold out there is no present price: its leg, and what came in or
\* left that day, is left out.
Priced(e, d) == Seen(Stock, e, d) # {} \/ HeldNow # {}
AllPriced(d) == \A e \in TradeDates : Priced(e, d)

\* Today's price stands in on a past date.
Guessed(t, e, d) == e < d /\ Seen(t, e, d) = {}

\* Mutant of Estimated: holdings without lots are carried back without a stamp.
EstimatedLots(e, d) ==
  \/ Placed /\ Guessed(Fund, e, d)
  \/ HeldOn(e) # {} /\ Priced(e, d) /\ Guessed(Stock, e, d)

\* A row is stamped for a guess in its legs or its flow, and for the holdings without
\* lots, which are carried back at their current value.
Estimated(e, d) ==
  \/ ~Placed /\ e < d
  \/ Placed /\ Guessed(Fund, e, d)
  \/ /\ HeldOn(e) # {} \/ (LotSourced /\ e \in TradeDates)
     /\ Priced(e, d) /\ Guessed(Stock, e, d)
------------------------------------------------------------------------------
(***************************************************************************)
(* What each writer writes.                                                *)
(***************************************************************************)
LegsOf(qty, stock, fund) == [qty |-> qty, stock |-> IF qty = 0 THEN 0 ELSE stock, fund |-> fund]

\* record_snapshot: the positions of the moment at the newest cached close.
LiveLegs == LegsOf(Cardinality(HeldNow), LatestBar(Stock), LatestBar(Fund))

\* _net_purchases: of an account that reports lots no trade has a transaction row.
LiveFlow(d) == IF LotSourced THEN 0 ELSE Flow(LastSnapshotDate(d) + 1 .. d)

Recorded(d) ==
  LET stale == LatestBar(Fund) < d
  IN [nav |-> LiveLegs, flow |-> LiveFlow(d), provisional |-> stale,
      composition |-> [legs |-> LiveLegs, stale |-> stale], estimated |-> FALSE]

RecordRow(d) == [e \in Days |-> IF e = d THEN Recorded(d) ELSE None]

\* reconstruct_snapshots: every valuation date up to d, from its own positions and
\* as-of closes.  The row's composition is left as it was.
AsOfLegs(e, d) ==
  LegsOf(IF Priced(e, d) THEN Cardinality(HeldOn(e)) ELSE 0, AsOfBar(Stock, e, d),
         IF Placed THEN AsOfBar(Fund, e, d) ELSE LatestBar(Fund))

RebuiltFlow(e, d) ==
  Flow({x \in PriorValuation(e, d) + 1 .. e : LotSourced => Priced(x, d)})

Rebuilt(e, d) ==
  [nav |-> AsOfLegs(e, d), flow |-> RebuiltFlow(e, d), provisional |-> FALSE,
   composition |-> IF rows[e] = None THEN None ELSE rows[e].composition,
   estimated |-> Estimated(e, d)]

Rebuildable(d) == IF LotDates = {} THEN {} ELSE ValuationDates(d) \cap Days

\* Mutant of ReconstructRows: the rebuilt row stays provisional if it was.
ReconstructKeepingFlag(d) ==
  [e \in Days |->
     IF e \notin Rebuildable(d) THEN None
     ELSE [Rebuilt(e, d) EXCEPT !.provisional = rows[e] # None /\ rows[e].provisional]]

ReconstructRows(d) == [e \in Days |-> IF e \in Rebuildable(d) THEN Rebuilt(e, d) ELSE None]

\* Mutant of Struck: a NAV struck after the row's day will do.
StruckEver(row, d) == {b \in bars[Fund] : row.composition.legs.fund < b}

\* _restate_provisional: the newest cached fund NAV after the recorded one and not
\* after the row's own day, swapped into the stale leg.
Struck(row, d) == {b \in bars[Fund] : row.composition.legs.fund < b /\ b <= d}

Restatable(row, d) ==
  /\ row # None
  /\ row.provisional /\ row.composition # None
  /\ row.composition.stale /\ Struck(row, d) # {}

Restated(row, d) ==
  LET legs == [row.composition.legs EXCEPT !.fund = Largest(Struck(row, d))]
  IN [row EXCEPT !.nav = legs, !.provisional = FALSE,
                 !.composition = [legs |-> legs, stale |-> FALSE]]

ReconcileRows(d) ==
  [e \in Days |-> IF e >= d - Window /\ Restatable(rows[e], e) THEN Restated(rows[e], e) ELSE None]
------------------------------------------------------------------------------
(***************************************************************************)
(* One request: its steps in order, each a transaction of its own.  The    *)
(* writers read the series and later flush the rows whose columns changed. *)
(***************************************************************************)
Running(s, step) == todo[s] # << >> /\ Head(todo[s]) = step
Pop(s) == todo' = [todo EXCEPT ![s] = Tail(@)]

\* refresh_latest_prices: the newest close of each ticker.
RefreshPrices(s) ==
  /\ Running(s, "refresh") /\ Pop(s)
  /\ bars' = [t \in Tickers |-> bars[t] \cup {spine[t]}]
  /\ UNCHANGED <<today, spine, lots, rows, asof, loaded, pending, requests, uptodate>>

\* backfill_prices, the first transaction of a reconstruction: the closes since its first
\* day of what is in lots or traded.
Replayed(t) == IF t = Fund THEN Placed ELSE TradeDates # {}

BackfillPrices(s) ==
  /\ Running(s, "backfill") /\ Pop(s)
  /\ bars' = [t \in Tickers |->
                bars[t] \cup {b \in Sessions : /\ Replayed(t) /\ First(asof[s]) <= b
                                             /\ b <= spine[t] /\ b <= asof[s]}]
  /\ UNCHANGED <<today, spine, lots, rows, asof, loaded, pending, requests, uptodate>>

Compute(s, step, written) ==
  /\ Running(s, step) /\ pending[s] = None
  /\ loaded' = [loaded EXCEPT ![s] = rows]
  /\ pending' = [pending EXCEPT ![s] = written]
  /\ uptodate' = IF step # "reconstruct" THEN uptodate
                 ELSE [uptodate EXCEPT ![s] = IF AllPriced(asof[s]) THEN asof[s] ELSE 0]
  /\ UNCHANGED <<today, spine, bars, lots, rows, todo, asof, requests>>

ReconcileSnapshots(s)   == Compute(s, "reconcile", ReconcileRows(asof[s]))
ReconstructSnapshots(s) == Compute(s, "reconstruct", ReconstructRows(asof[s]))
RecordSnapshot(s)       == Compute(s, "record", RecordRow(asof[s]))

\* The flush: an UPDATE of the columns that changed, an INSERT of a row that was not
\* there, which the unique day makes fail if another session has put it there since.
Touched(s) == {d \in Days : pending[s][d] # None}
Duplicates(s) == {d \in Touched(s) : loaded[s][d] = None /\ rows[d] # None}

Merged(now, old, new) ==
  [nav         |-> IF new.nav = old.nav THEN now.nav ELSE new.nav,
   flow        |-> IF new.flow = old.flow THEN now.flow ELSE new.flow,
   provisional |-> IF new.provisional = old.provisional THEN now.provisional ELSE new.provisional,
   composition |-> IF new.composition = old.composition THEN now.composition ELSE new.composition,
   estimated   |-> IF new.estimated = old.estimated THEN now.estimated ELSE new.estimated]

Quit(s) ==
  /\ loaded' = [loaded EXCEPT ![s] = None]
  /\ pending' = [pending EXCEPT ![s] = None]
  /\ UNCHANGED <<today, spine, bars, lots, asof, requests>>

Commit(s) ==
  /\ pending[s] # None /\ Duplicates(s) = {}
  /\ rows' = [d \in Days |-> IF d \notin Touched(s) THEN rows[d]
                             ELSE IF loaded[s][d] = None THEN pending[s][d]
                             ELSE Merged(rows[d], loaded[s][d], pending[s][d])]
  /\ uptodate' = IF Running(s, "reconstruct")
                 THEN [uptodate EXCEPT !["series"] = uptodate[s]] ELSE uptodate
  /\ Pop(s)
  /\ Quit(s)

\* A best-effort step of the job that raises is rolled back and the job goes on.
Skip(s) ==
  /\ s = "job" /\ todo[s] # << >> /\ Head(todo[s]) \in Fails
  /\ Pop(s)
  /\ UNCHANGED <<rows, uptodate>>
  /\ Quit(s)

\* The step writes nothing (nothing priced, an implausible jump), or the request ends
\* here: it raised, or the process died.
End(s) ==
  /\ todo[s] # << >>
  /\ todo' = [todo EXCEPT ![s] = << >>]
  /\ UNCHANGED <<rows, uptodate>>
  /\ Quit(s)
------------------------------------------------------------------------------
(***************************************************************************)
(* Requests and the world around them.                                     *)
(***************************************************************************)
\* _market_closes_published, asked once per fire.
Published == today \in Weekends \/ spine[Stock] >= today

Start(s, d, steps) ==
  /\ todo[s] = << >>
  /\ requests' = [requests EXCEPT ![s] = @ + 1]
  /\ WithinBudget(requests')
  /\ todo' = [todo EXCEPT ![s] = steps]
  /\ asof' = [asof EXCEPT ![s] = d]
  /\ UNCHANGED <<today, spine, bars, lots, rows, loaded, pending, uptodate>>

DailyRefresh ==
  \E gate \in {Published} \cup (IF "probe" \in Fails THEN {TRUE} ELSE {}) :
    Start("job", today, <<"refresh", "reconcile", "backfill", "reconstruct">>
                          \o (IF gate THEN <<"record">> ELSE << >>))

\* The routes date their request by the UTC calendar, tomorrow's in the evening.
UtcToday == {d \in Days : d \in {today, today + 1}}

RefreshButton ==
  /\ "refresh" \in Buttons
  /\ \E d \in UtcToday : Start("user", d, <<"refresh", "record">>)

BuildHistoryButton ==
  /\ "build" \in Buttons
  /\ \E d \in UtcToday : Start("user", d, <<"backfill", "reconstruct">>)

\* A broker sync or an import learns of a trade (module PersistSnapshot).
Learn(l, d) ==
  /\ d \in Days /\ d <= today /\ today - d <= Lag
  /\ \/ ~Opened(l) /\ lots' = [lots EXCEPT ![l].open = d]
     \/ /\ Opened(l) /\ ~Closed(l) /\ lots[l].open <= d
        /\ lots' = [lots EXCEPT ![l].close = d]
  /\ uptodate' = [x \in DOMAIN uptodate |-> IF d < uptodate[x] THEN d ELSE uptodate[x]]
  /\ UNCHANGED <<today, spine, bars, rows, todo, asof, loaded, pending, requests>>

\* The session's closes reach the spine in the evening, fund NAVs hours or days later.
Unstruck == {d \in Sessions : spine[Fund] < d /\ d <= today}

PublishCloses ==
  /\ today \in Sessions /\ spine[Stock] < today
  /\ Cardinality(Unstruck) <= FundLag
  /\ spine' = [spine EXCEPT ![Stock] = today]
  /\ UNCHANGED <<today, bars, lots, rows, todo, asof, loaded, pending, requests, uptodate>>

StrikeFund ==
  /\ Unstruck # {} /\ (Smallest(Unstruck) = today => spine[Stock] = today)
  /\ spine' = [spine EXCEPT ![Fund] = Smallest(Unstruck)]
  /\ UNCHANGED <<today, bars, lots, rows, todo, asof, loaded, pending, requests, uptodate>>

NextDay ==
  /\ today < Last /\ \A s \in Sources : todo[s] = << >>
  /\ today' = today + 1
  /\ UNCHANGED <<spine, bars, lots, rows, todo, asof, loaded, pending, requests, uptodate>>
------------------------------------------------------------------------------
Init ==
  /\ today = 1
  /\ spine = [t \in Tickers |-> 0]
  /\ bars = [t \in Tickers |-> {0}]
  /\ \E since \in {0, 1} :
       lots = [l \in Lots \cup {Fund} |-> [open |-> IF l = Fund THEN since ELSE 0, close |-> 0]]
  /\ rows = [d \in Days |-> None]
  /\ todo = [s \in Sources |-> << >>]
  /\ asof = [s \in Sources |-> 1]
  /\ loaded = [s \in Sources |-> None]
  /\ pending = [s \in Sources |-> None]
  /\ requests = [s \in Sources |-> 0]
  /\ uptodate = [x \in Sources \cup {"series"} |-> 0]

Work(s) ==
  \/ RefreshPrices(s) \/ BackfillPrices(s)
  \/ ReconcileSnapshots(s) \/ ReconstructSnapshots(s) \/ RecordSnapshot(s)
  \/ Commit(s) \/ Skip(s) \/ End(s)

World ==
  \/ \E l \in Lots, d \in Days : Learn(l, d)
  \/ PublishCloses \/ StrikeFund \/ NextDay

Next == DailyRefresh \/ RefreshButton \/ BuildHistoryButton \/ World \/ \E s \in Sources : Work(s)

Spec == Init /\ [][Next]_vars
------------------------------------------------------------------------------
(***************************************************************************)
(* Where restating a row is exact, and where flows are.                    *)
(***************************************************************************)

\* A fund NAV is struck before the closes of the session after the next one publish.
NavsComeInTime == FundLag <= 1

\* A fire that records has read the newest prices, and the gate has seen the closes.
FiresSeePrices == "refresh" \notin Fails /\ "probe" \notin Fails

\* Positions come from lots, and every trade is known on its day.
TradesAreSeen == LotSourced /\ Lag = 0
------------------------------------------------------------------------------
(***************************************************************************)
(* Properties.                                                             *)
(***************************************************************************)

\* Where a row holds a price from after its own day, its estimated_inputs say so, whoever
\* wrote or restated it last: a rebuilt past day without a close, a holding without lots
\* carried back, a day that is rebuilt exactly later.  For a series only the nightly job
\* writes: a button pressed while the job computes leaves a row with columns of both.
LookAheadIsStamped ==
  requests["user"] = 0 =>
    \A d \in Days : rows[d] # None /\ (rows[d].nav.stock > d \/ rows[d].nav.fund > d)
                      => rows[d].estimated

\* Before the day of the last reconstruction, if it knew the lots as they are and had a price
\* for every trade, the flow of each row accounts for the whole change of position since the
\* row before it: with prices standing still no period shows a gain or a loss, whatever order
\* fires, deferrals and aborted fires came in.  A live row of an account that reports lots has
\* no flow, so on the day of a trade this waits for a fire on a later day.  For a series only
\* the nightly job writes: a row the refresh button records on a day without a fire is never
\* rebuilt.
FlowsExplainMoves ==
  requests["user"] = 0 =>
    \A d, e \in Days :
      /\ e < d /\ d < uptodate["series"] /\ rows[d] # None /\ rows[e] # None
      /\ \A f \in e + 1 .. d - 1 : rows[f] = None
      => rows[d].nav.qty - rows[d].flow = rows[e].nav.qty

\* A row still open to restatement is the sum of the legs it recorded, one of them
\* stale: restating it replaces that leg and nothing else, even after a reconstruction
\* has rebuilt the row in between.  For a series only the nightly job writes: a button
\* pressed while the job computes leaves a row with columns of both.
ProvisionalIsItsLegs ==
  \A d \in Days :
    rows[d] # None /\ rows[d].provisional /\ requests["user"] = 0 =>
      /\ rows[d].composition # None
      /\ rows[d].composition.stale
      /\ rows[d].nav = rows[d].composition.legs

\* A restatement makes a row final only at the fund NAV of the row's own session.
RestatedAtOwnSession ==
  [][\A d \in Days, s \in Sources :
       /\ requests["user"] = 0 /\ Running(s, "reconcile")
       /\ rows[d] # rows'[d] /\ d \in Sessions
       => rows'[d].nav.fund = d]_vars
===============================================================================
