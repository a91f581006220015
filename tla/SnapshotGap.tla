----------------------------- MODULE SnapshotGap -------------------------------
(***************************************************************************)
(* The operator's command backfill-snapshot-gap: api/services/             *)
(* snapshot_gap.py and _backfill_snapshot_gap of api/maintenance.py.  It   *)
(* plans rows for the days a series misses, applies the plan in one        *)
(* transaction, and undoes in two: stashes first, then rows.  The nightly  *)
(* job may rewrite the portfolio's rows between any two steps.             *)
(*                                                                         *)
(* A value is what it was computed from: the quantity of each leg and the  *)
(* day of the close it was priced with.                                    *)
(***************************************************************************)
EXTENDS GapPricing

CONSTANTS
  Last, None,
  Accounts, Portfolio,   \* the series: one per account, and the portfolio's
  Traded, Fund,          \* the leg that trades and the fund
  Markets, Settings,     \* markets and options of the instance
  Present, Histories,    \* rows each series starts with; purchases of the accounts
  MaxRuns                \* bound: runs applied

Days   == 1..Last
Series == Accounts \cup {Portfolio}

ASSUME GapAssumption ==
  /\ Last \in Nat /\ Portfolio \notin Accounts /\ Fund \in Legs
  /\ IsFiniteSet(Accounts) /\ Markets \subseteq Market(Days)
  /\ Present \subseteq [Series -> SUBSET Days] /\ Histories \subseteq [Accounts -> SUBSET Days]
  /\ \A S \in SUBSET Legs : None # S

\* Nor is None a new flow with its old one, or a range.
ASSUME NoneAssumption == None \notin [flow : Nat, was : Nat] \cup [lo : Nat, hi : Nat]

\* The cache has every close of a dollar share: the live writer marks only a fund's leg
\* as older than its day.
SharesCloseEverySession ==
  \A m \in Markets : \A k \in Legs \ ({Fund} \cup m.foreign) :
    Listed(m, k) => m.sessions \subseteq m.closes[k]

VARIABLES
  market, records,  \* what the tool reads; records: {"ledger", "lots"} or fewer
  bought,           \* per account, the days it bought one share of Traded
  rows,             \* per series, its rows by day
  plan,             \* what a run has planned, or None
  undoing,          \* the range whose stashes are restored and rows still there, or None
  \* bound and observation
  applied,          \* the runs applied, each with the days of its range not undone yet
  runs,
  base,             \* the rows as they would be had the tool never run
  crossed,          \* a stash no longer holds what the tool met: the job has rewritten a row
                    \* the tool had planned from or stashed, or a later run has stashed over it
  loose             \* flows may not add up: the job has filled a day of a gap that a run left
                    \* out, an applied plan has an overlooked flow, a run was undone in part
                    \* or under a later one, or after its stash was crossed

vars == <<market, records, bought, rows, plan, undoing, applied, runs, base, crossed, loose>>
world == <<market, records, bought>>

Value == [qty : [Legs -> Nat], at : [Legs -> 0..Last]]
----------------------------------------------------------------------------
Bought(s, after, through) ==
  LET of == [a \in Accounts |-> Cardinality({d \in bought[a] : after < d /\ d <= through})]
  IN IF s = Portfolio THEN SumFunction(of) ELSE of[s]

\* _net_purchases, _account_net_purchases: the ledger's purchases.
Flow(s, after, through) == IF "ledger" \in records THEN Bought(s, after, through) ELSE 0

Quantities(s, d) == [k \in Legs |->
  (IF s = Portfolio THEN Cardinality(Accounts) ELSE 1) * market.start[k]
  + IF k = Traded THEN Bought(s, 0, d) ELSE 0]

RowsOf(t) == DOMAIN t
NoStash == [kept |-> FALSE]

\* The rows that bracket a range; 0: there is none.
Anchors(t, lo, hi) ==
  LET before == {d \in RowsOf(t) : d < lo}  after == {d \in RowsOf(t) : d > hi}
  IN [a |-> IF before = {} THEN 0 ELSE Max(before), b |-> IF after = {} THEN 0 ELSE Min(after)]

\* _restate_anchor: _restate_provisional with the prior state kept for the stash.
Struck(r, d) == {x \in market.closes[Fund] : r.legs.at[Fund] < x /\ x <= d}
Restated(r, d, gap) ==
  IF ~r.prov \/ r.legs = None \/ Struck(r, d) = {} THEN r
  ELSE LET v == [r.legs EXCEPT !.at[Fund] = Max(Struck(r, d))] IN
       [r EXCEPT !.nav = v, !.legs = v, !.prov = FALSE,
                 !.restate = [kept |-> TRUE, gap |-> gap, nav |-> r.nav, legs |-> r.legs]]

DaysOf(range) == range.lo..range.hi
Gap(missing) == [lo |-> Min(missing), hi |-> Max(missing)]
Skip == [points |-> {}]
Inside(t, p) == {d \in RowsOf(t) : p.a < d /\ d < p.b}
----------------------------------------------------------------------------
\* Mutant of Settled: inserted rows carry flows and the row after keeps its own.
SettledNot(s, t, p) == p

\* _settle_flows: what the inserted rows take, the row after the gap gives up, to
\* the cent, or the series is skipped; so is one whose flow an existing row counts.
Settled(s, t, p) ==
  LET inside == Inside(t, p)
      last == {d \in p.points : \A x \in inside : x < d}
      rebased == Flow(s, Max(last), p.b)
      inserted == SumFunction([d \in last |-> p.rows[d].flow])
  IN IF \E d \in p.points : /\ p.rows[d].flow # 0
                            /\ \E x \in inside : x > d /\ ~\E y \in p.points : d < y /\ y < x THEN Skip
     ELSE IF last = {} THEN p
     ELSE IF inserted + rebased # t[p.b].flow THEN Skip
     ELSE [p EXCEPT !.rebase = IF rebased = t[p.b].flow THEN None ELSE [flow |-> rebased, was |-> t[p.b].flow]]

\* What _settle_flows overlooks, as it looks one day ahead: a planned flow, then another
\* planned day, then an existing row, whose flow counts the purchase as well.
Overlooked(t, p) == \E d \in p.points : p.rows[d].flow # 0 /\ \E x \in Inside(t, p) : d < x

\* _trade_flows: the live writer's flow, purchases since the row before.
FlowOn(s, t, p, d) ==
  Flow(s, Max({x \in Inside(t, p) \cup p.points \cup {p.a} : x < d}), d)

\* What _plan_series_core works with: the quantities of each day from A to B, and how
\* each leg of a day is priced.
Ends(t, gap) == [qa |-> t[gap.a].legs.qty, qb |-> t[gap.b].legs.qty]
Believed(s, gap) == records # {} /\ Bought(s, gap.a, gap.b) > 0
LedgerTrades(s, gap) == [k \in Legs |-> IF k = Traded /\ Believed(s, gap) THEN Bought(s, gap.a, gap.b) ELSE 0]
QtyOn(s, t, gap, d) ==
  LET qa == Ends(t, gap).qa  qb == Ends(t, gap).qb IN
  IF qa = qb \/ d = gap.b THEN qb
  ELSE IF d = gap.a THEN qa
  ELSE [k \in Legs |->
    IF k = Traded /\ Believed(s, gap) THEN qa[k] + Bought(s, gap.a, d)
    ELSE IF qa[k] = qb[k] \/ Adjustment(market, k, qa[k], qb[k], gap.a) <= d THEN qb[k] ELSE qa[k]]
PricesOn(t, missing, gap, o, d) ==
  LET both == Held(Ends(t, gap).qa) \cap Held(Ends(t, gap).qb)
      interp == Verdicts(market, o, both, missing, "interpolate")
  IN [k \in Legs |-> Price(market, o, k, d, d \notin missing, interp, both, gap.a)]
Unlike == market.miss > SelfCheck

\* A day of the gap: its value, and the legs that are guesses.
PlannedRow(s, t, missing, gap, o, d) ==
  LET q == QtyOn(s, t, gap, d)  p == PricesOn(t, missing, gap, o, d) IN
  [value |-> [qty |-> q, at |-> [k \in Legs |-> p[k].at]], flow |-> 0,
   flagged |-> IF Unlike THEN Legs ELSE {k \in Held(q) : p[k].how # "none"}]

\* Why a series is left as it is.
Refused(s, t, missing, gap, o) ==
  LET qa == Ends(t, gap).qa  qb == Ends(t, gap).qb
      Fails(d) == \E k \in Held(QtyOn(s, t, gap, d)) : PricesOn(t, missing, gap, o, d)[k].cause # 0
      Found(d, how) == {k \in Held(QtyOn(s, t, gap, d)) : PricesOn(t, missing, gap, o, d)[k].how = how}
  IN \/ t[gap.a].legs = None \/ t[gap.b].legs = None
     \/ qa # qb /\ ~(o.aware /\ Reconciles(market, LedgerTrades(s, gap), qa, qb, gap.a))
     \/ Verdicts(market, o, Held(qa) \cap Held(qb), missing, "refuse") # {}
     \/ \E d \in missing \cup {gap.a, gap.b} : Fails(d)
     \/ Unlike /\ (~o.anchor \/ market.miss > AnchorMaxError)
     \/ \E d \in missing : \/ WeightOf(market, Found(d, "carry")) > CarryCap
                           \/ WeightOf(market, Found(d, "proxy-bridge")) > BridgeCap

\* _plan_series_core for one series; t is its rows with the anchors restated.
PlanSeries(s, t, missing, gap, o) ==
  LET planned == [points |-> missing, a |-> gap.a, b |-> gap.b, rebase |-> None,
                  rows |-> [d \in missing |-> PlannedRow(s, t, missing, gap, o, d)]]
  IN IF Refused(s, t, missing, gap, o) THEN Skip
     ELSE IF Ends(t, gap).qa = Ends(t, gap).qb THEN planned
     ELSE Settled(s, t, [planned EXCEPT !.rows = [d \in missing |->
            [@[d] EXCEPT !.flow = FlowOn(s, t, planned, d)]]])

\* _cohort_identity: a row that was rebuilt no longer is the sum of its legs.
Target(r) == IF r.legs = None THEN r.nav ELSE r.legs

\* The sum of values: a leg is as old as the oldest price an account that holds it has.
Holders(vs, k) == {a \in DOMAIN vs : vs[a].qty[k] # 0}
Total(vs) == [qty |-> [k \in Legs |-> SumFunction([a \in DOMAIN vs |-> vs[a].qty[k]])],
              at  |-> [k \in Legs |-> LET from == IF Holders(vs, k) = {} THEN DOMAIN vs ELSE Holders(vs, k)
                                       IN Min({vs[a].at[k] : a \in from})]]

\* What a recorded row brings along: the legs its mark names as estimated, and the
\* stale flag its fund leg carries.
FlagsOf(r) == (IF r.mark = None THEN {} ELSE r.mark) \cup IF r.prov THEN {Fund} ELSE {}

\* _plan_from_accounts: the sum of the accounts, if the same accounts have rows at
\* both ends and on every missing day, and add up to the portfolio at both ends.
PlanFromAccounts(ts, plans, missing, gap) ==
  LET t == ts[Portfolio]
      On(a, d) == IF d \in RowsOf(ts[a])
                  THEN [value |-> ts[a][d].nav, flow |-> ts[a][d].flow, flagged |-> FlagsOf(ts[a][d])]
                  ELSE plans[a].rows[d]
      Cohort(d) == {a \in Accounts : d \in RowsOf(ts[a]) \cup plans[a].points}
      SumOn(d) == Total([a \in Cohort(d) |-> On(a, d).value])
  IN IF Cohort(gap.a) = {} \/ \E d \in missing \cup {gap.b} : Cohort(d) # Cohort(gap.a) THEN Skip
     ELSE IF \E d \in {gap.a, gap.b} : SumOn(d) # Target(t[d]) THEN Skip
     ELSE Settled(Portfolio, t, [points |-> missing, a |-> gap.a, b |-> gap.b, rebase |-> None,
            rows |-> [d \in missing |->
              [value |-> SumOn(d), flagged |-> UNION {On(a, d).flagged : a \in Cohort(d)},
               flow |-> SumFunction([a \in Cohort(d) |-> On(a, d).flow])]]])
----------------------------------------------------------------------------
Selected(o) == {s \in Series : s \in o.only}
Missing(s, range) == DaysOf(range) \ RowsOf(rows[s])
AnchorsOf(s, range) == Anchors(rows[s], range.lo, range.hi)
Gapped(o, range) ==
  {s \in Selected(o) : /\ Missing(s, range) # {}
                       /\ AnchorsOf(s, range).a # 0 /\ AnchorsOf(s, range).b # 0}

\* The rows with every anchor of the run restated, in memory.
RestatedRows(o, range) ==
  LET gapped == Gapped(o, range)
      ends(s) == {AnchorsOf(s, range).a, AnchorsOf(s, range).b}
      touched(s) == (IF s \in gapped THEN ends(s) ELSE {})
                    \cup (IF o.accounts /\ Portfolio \in gapped /\ s \in Accounts THEN ends(Portfolio) ELSE {})
      gap(s) == Gap(Missing(IF s \in gapped THEN s ELSE Portfolio, range))
  IN [s \in Series |-> [d \in RowsOf(rows[s]) |->
       IF o.restate /\ d \in touched(s) THEN Restated(rows[s][d], d, gap(s)) ELSE rows[s][d]]]

Error(o, range) ==
  \E s \in Gapped(o, range) :
    LET t == rows[s]  gap == AnchorsOf(s, range)
        held(d) == IF t[d].legs = None THEN {} ELSE Held(t[d].legs.qty)
    IN LegPricesError(market, o, held(gap.a) \cap held(gap.b), Missing(s, range))

\* plan_gap.  Read only: the restated anchors reach the database with the apply.
PlanGap(o, range) ==
  /\ plan = None /\ undoing = None /\ runs < MaxRuns
  /\ Gapped(o, range) # {} /\ ~Error(o, range)
  /\ LET ts == RestatedRows(o, range)
         Of(s) == PlanSeries(s, ts[s], Missing(s, range), AnchorsOf(s, range), o)
         accounts == [a \in Accounts |-> IF a \in Gapped(o, range) THEN Of(a) ELSE Skip]
         portfolio == IF Portfolio \notin Gapped(o, range) THEN Skip
                      ELSE IF o.accounts
                           THEN PlanFromAccounts(ts, accounts, Missing(Portfolio, range), AnchorsOf(Portfolio, range))
                           ELSE Of(Portfolio)
     IN plan' = [range |-> range, ts |-> ts, of |-> [s \in Series |-> IF s = Portfolio THEN portfolio ELSE accounts[s]]]
  /\ UNCHANGED <<world, rows, undoing, applied, runs, base, crossed, loose>>

\* A dry run, or an error: the session is rolled back.
DropPlan ==
  /\ plan # None
  /\ plan' = None
  /\ UNCHANGED <<world, rows, undoing, applied, runs, base, crossed, loose>>

Inserted(p, d) == [nav |-> p.rows[d].value, legs |-> p.rows[d].value, flow |-> p.rows[d].flow,
                   prov |-> FALSE, mark |-> p.rows[d].flagged, restate |-> NoStash, rebase |-> NoStash]

\* A series whose flows were planned is written whole or not at all; of one
\* without flows, the days nobody filled since.
Writable(p, taken) ==
  IF taken # {} /\ (p.rebase # None \/ \E d \in p.points : p.rows[d].flow # 0) THEN {}
  ELSE p.points \ taken

\* What the flush of one row writes: the columns the tool changed.
Flushed(s, d, writable) ==
  LET r == rows[s][d]  t == plan.ts[s][d]  p == plan.of[s]
      restated == IF d \in RowsOf(plan.ts[s]) /\ t.restate.kept
                  THEN [r EXCEPT !.nav = t.nav, !.legs = t.legs, !.prov = FALSE, !.restate = t.restate]
                  ELSE r
  IN IF d \in writable THEN Inserted(p, d)
     ELSE IF writable # {} /\ p.rebase # None /\ d = p.b
          THEN [restated EXCEPT !.flow = p.rebase.flow,
                  !.rebase = [kept |-> TRUE, gap |-> Gap(p.points), flow |-> p.rebase.was]]
     ELSE restated

WritableOf(s) == LET p == plan.of[s] IN
  IF p.points = {} THEN {} ELSE Writable(p, p.points \cap RowsOf(rows[s]))

\* The row after the gap has a flow of an earlier run in its stash, which is lost.
StashesOver(s) == LET p == plan.of[s] IN
  WritableOf(s) # {} /\ p.rebase # None /\ rows[s][p.b].rebase.kept

\* apply_plan: one transaction.
ApplyPlan ==
  /\ plan # None
  /\ rows' = [s \in Series |-> [d \in RowsOf(rows[s]) \cup WritableOf(s) |-> Flushed(s, d, WritableOf(s))]]
  /\ plan' = None /\ runs' = runs + 1 /\ applied' = applied \cup {[number |-> runs, days |-> DaysOf(plan.range)]}
  /\ loose' = (loose \/ \E s \in Series : WritableOf(s) # {} /\ Overlooked(plan.ts[s], plan.of[s]))
  /\ crossed' = (crossed \/ \E s \in Series : StashesOver(s))
  /\ UNCHANGED <<world, undoing, base>>
----------------------------------------------------------------------------
Overlap(r, q) == r.lo <= q.hi /\ q.lo <= r.hi

\* Mutant of Unstash: the flow is restored, the anchor is not.
UnstashFlowOnly(r, range) ==
  IF r.rebase.kept /\ Overlap(r.rebase.gap, range)
  THEN [r EXCEPT !.flow = r.rebase.flow, !.rebase = NoStash] ELSE r

Unstash(r, range) ==
  LET q == IF r.restate.kept /\ Overlap(r.restate.gap, range)
           THEN [r EXCEPT !.nav = r.restate.nav, !.legs = r.restate.legs, !.prov = TRUE, !.restate = NoStash]
           ELSE r
  IN IF q.rebase.kept /\ Overlap(q.rebase.gap, range)
     THEN [q EXCEPT !.flow = q.rebase.flow, !.rebase = NoStash] ELSE q

\* The days of a range hold each run whole or not at all, and with a run all later ones.
\* Half a run's rows keep their flows, and a later run's rows hang on deleted ones.
Latest(range) == \A i \in applied : i.days \cap DaysOf(range) # {} =>
  /\ i.days \subseteq DaysOf(range)
  /\ \A j \in applied : i.number <= j.number => j.days \cap DaysOf(range) # {}

\* Undo, first transaction: restore_stashes, for any range.
RestoreStashes(range) ==
  /\ plan = None /\ applied # {} /\ undoing \in {None, range}
  /\ rows' = [s \in Series |-> [d \in RowsOf(rows[s]) |-> Unstash(rows[s][d], range)]]
  /\ undoing' = range
  /\ loose' = (loose \/ ~Latest(range))
  /\ UNCHANGED <<world, plan, applied, runs, base, crossed>>

\* Second transaction: undo.  A command that dies between the two is run again.
Marked(t, range) == {d \in RowsOf(t) : d \in DaysOf(range) /\ t[d].mark # None}
Remaining(range) == {[r EXCEPT !.days = @ \ DaysOf(range)] : r \in applied}
DeleteMarked ==
  /\ undoing # None
  /\ rows' = [s \in Series |-> [d \in RowsOf(rows[s]) \ Marked(rows[s], undoing) |-> rows[s][d]]]
  /\ applied' = {r \in Remaining(undoing) : r.days # {}}
  /\ undoing' = None /\ loose' = (loose \/ crossed)
  /\ UNCHANGED <<world, plan, runs, base, crossed>>
----------------------------------------------------------------------------
\* Live values; a leg without closes has the price its broker gave that day.
Closing(s, d) == [qty |-> Quantities(s, d),
                  at |-> [k \in Legs |-> IF Listed(market, k) THEN AsOf(market.closes[k], d) ELSE d]]
Blank(s, d) == [nav |-> Closing(s, d), legs |-> None, flow |-> 0, prov |-> FALSE,
                mark |-> None, restate |-> NoStash, rebase |-> NoStash]
TradeDays == UNION {bought[a] : a \in Accounts}

\* The nightly reconstruction of the portfolio's series: it upserts the day of
\* every lot and leaves a composition alone.
Rebuilt(t) == [d \in RowsOf(t) \cup TradeDays |->
  IF d \in TradeDays
  THEN [(IF d \in RowsOf(t) THEN t[d] ELSE Blank(Portfolio, d)) EXCEPT
          !.nav = Closing(Portfolio, d), !.flow = Bought(Portfolio, d - 1, d), !.prov = FALSE]
  ELSE t[d]]

\* A row of day d that the tool marked, stashed, or is about to.
Rewrites(d) ==
  LET r == rows[Portfolio][d]
  IN \/ /\ d \in RowsOf(rows[Portfolio])
        /\ r.mark # None \/ r.restate.kept \/ r.rebase.kept
     \/ /\ plan # None
        /\ \/ d \in RowsOf(plan.ts[Portfolio]) /\ plan.ts[Portfolio][d] # r
           \/ LET p == plan.of[Portfolio] IN p.points # {} /\ p.rebase # None /\ p.b = d
\* A new row between two rows whose flows the tool has settled, or is about to.
Unseen(d) == /\ d \notin RowsOf(rows[Portfolio])
             /\ \/ applied # {}
                \/ plan # None /\ d \notin plan.of[Portfolio].points

Rebuild ==
  /\ records = {"ledger", "lots"}
  /\ rows' = [rows EXCEPT ![Portfolio] = Rebuilt(@)]
  /\ base' = [base EXCEPT ![Portfolio] = Rebuilt(@)]
  /\ crossed' = (crossed \/ \E d \in TradeDays : Rewrites(d))
  /\ loose' = (loose \/ \E d \in TradeDays : Unseen(d))
  /\ UNCHANGED <<world, plan, undoing, applied, runs>>

\* Rows as the live writer recorded them; on a day of `late` the fund's was missing.
LiveRow(s, d, days, late) ==
  LET before == {x \in days : x < d}
      v == [Closing(s, d) EXCEPT !.at[Fund] = IF d \in late THEN AsOf(market.closes[Fund], d - 1) ELSE @]
  IN [nav |-> v, legs |-> v, flow |-> IF before = {} THEN 0 ELSE Flow(s, Max(before), d),
      prov |-> v.at[Fund] # d, mark |-> None, restate |-> NoStash, rebase |-> NoStash]

Init ==
  /\ market \in Markets /\ records \in {{}, {"lots"}, {"ledger", "lots"}}
  /\ bought \in Histories
  /\ \E present \in Present, late \in {{}, {Last}} :
       rows = [s \in Series |-> [d \in present[s] |-> LiveRow(s, d, present[s], late)]]
  /\ plan = None /\ undoing = None /\ applied = {} /\ runs = 0
  /\ base = rows /\ crossed = FALSE /\ loose = FALSE

Ranges == {r \in [lo : 2..Last - 1, hi : 2..Last - 1] : r.lo <= r.hi}
Command == (\E o \in Settings, range \in Ranges : PlanGap(o, range)) \/ DropPlan \/ ApplyPlan
Undo == (\E range \in Ranges : RestoreStashes(range)) \/ DeleteMarked

Next == Command \/ Undo \/ Rebuild

Spec == Init /\ [][Next]_vars
----------------------------------------------------------------------------
FlowTotal(t) == SumFunction([d \in RowsOf(t) |-> t[d].flow])

\* No purchase is lost, and none is counted twice that the job alone would not
\* count twice: the flows of a series lie between the purchases from any of its rows
\* to any other and what the job would have left, whatever was inserted, rebased,
\* undone, or not written because the job had filled one of its days in between.
\* (What adds up no more is `loose`: see the hazards.)
FlowsAddUp ==
  undoing = None /\ ~loose => \A s \in Series :
    /\ \A d, e \in RowsOf(base[s]) : Flow(s, d, e) <= FlowTotal(rows[s])
    /\ FlowTotal(rows[s]) <= FlowTotal(base[s])

\* "undo deletes exactly what this wrote and nothing a live refresh wrote", and puts
\* back every flow and anchor: once the days of all runs have been undone, in whatever
\* pieces and order, the series is the one the job alone would have left.  (Not so when
\* a later run has stashed over an earlier one's flow: see the hazards.)
UndoLeavesNoTrace ==
  undoing = None /\ applied = {} /\ ~crossed => rows = base

\* "Nothing is copied forward": in a row the tool wrote, a leg not flagged as
\* estimated was priced with the day's own close or has one price throughout; when no
\* market was open, and for a foreign leg even when one was, its close is the last one
\* before.  Flags survive the summing of accounts, in one run or over several.
EstimatesAreFlagged ==
  \A s \in Series : \A d \in RowsOf(rows[s]) :
    LET r == rows[s][d] IN
    r.mark # None =>
      \A k \in Held(r.legs.qty) \ r.mark :
        IF Listed(market, k)
        THEN /\ r.legs.at[k] = AsOf(market.closes[k], d)
             /\ d \in market.sessions /\ k \notin market.foreign => r.legs.at[k] = d
        ELSE r.legs.at[k] = d \/ market.moved[k] = 0

\* A filled row is honest: its flow is counted once, its guesses are marked.
FilledRowsAreHonest == FlowsAddUp /\ EstimatesAreFlagged
================================================================================
