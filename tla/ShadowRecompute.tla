--------------------------- MODULE ShadowRecompute --------------------------
(***************************************************************************)
(* The shadow recompute (api/services/shadow_recompute.py) over a book of  *)
(* accounts: one ledger replayed from every account's transactions pooled  *)
(* together (a lot-reporting account has none to replay), its NAV compared *)
(* with the recorded rows and its return with the Performance page's, the  *)
(* divergences kept as break rows and alerted.                             *)
(*                                                                         *)
(* Tolerances are zero: Err is beyond them. One security, always priced    *)
(* from its first session; realized P&L is not compared by the code.       *)
(***************************************************************************)
EXTENDS BookReturns

CONSTANT JobDays   \* the days whose nightly job runs (bound)

VARIABLES
  phase,     \* where the nightly job of the portfolio is
  read,      \* the rows it read first: day -> [nav, flow]
  found,     \* what it compared and found
  open       \* the <<metric, day>> of the unresolved break rows
job == <<phase, read, found, open>>
vars == <<book, job>>

NoFinding == [compared |-> {}, keys |-> {}, partial |-> {}, twr |-> FALSE]

-----------------------------------------------------------------------------
(* The replay *)

TxnFlow(t) == PositionSign(t.type) * t.amount
DayFlow(txns, d) == Total([i \in DOMAIN txns |-> IF txns[i].day = d THEN TxnFlow(txns[i]) ELSE 0])
\* One ledger of every account's transactions.
Pooled(txns) == BuildLedger(txns)
ShadowNav(txns, d) == Shares(Pooled(Through(txns, d)).lots) * AsOfClose(bars, d)

TradeDays(txns) == SetToSortSeq(DaysOf(txns), <)
TradePoints(txns, days) ==
  [i \in DOMAIN days |->
    [day |-> days[i], nav |-> ShadowNav(txns, days[i]), flow |-> DayFlow(txns, days[i])]]
\* One point more, on the last recorded day, when nothing was traded since.
ValuePoint(txns, last, through) ==
  IF last < through THEN <<[day |-> through, nav |-> ShadowNav(txns, through), flow |-> 0]>> ELSE <<>>
\* A security whose history starts mid-position is left out of the walk; every point is
\* partial while there is one.
ShadowPoints(txns, through) ==
  IF txns = <<>> THEN <<>>
  ELSE TradePoints(txns, TradeDays(txns)) \o ValuePoint(txns, Max(DaysOf(txns)), through)

-----------------------------------------------------------------------------
(* The comparison *)

PointDays(points) == {points[i].day : i \in DOMAIN points}
NavAt(points, d) == points[CHOOSE i \in DOMAIN points : points[i].day = d].nav
Shared(rows, points) == DOMAIN rows \cap PointDays(points)
\* mutant: the first shared day is skipped
NavDivergencesButFirst(rows, points) ==
  {<<"nav", d>> : d \in {d \in Shared(rows, points) \ {points[i].day : i \in DOMAIN points \cap {1}} : rows[d].nav # NavAt(points, d)}}
NavDivergences(rows, points) ==
  {<<"nav", d>> : d \in {d \in Shared(rows, points) : rows[d].nav # NavAt(points, d)}}

\* Cumulative figures, so only from the same first day, to the last day both cover.
LatestShared(rows, points) == Least(Last(points).day, Max(DOMAIN rows))
TwrCompared(rows, points) ==
  /\ points # <<>> /\ DOMAIN rows # {}
  /\ points[1].day = Min(DOMAIN rows)
UpTo(points, d) == LET Before(p) == p.day <= d IN SelectSeq(points, Before)
ReturnsDiffer(served, shadow) ==
  Steps(served) # <<>> /\ Steps(shadow) # <<>> /\ ~SameGrowth(WindowTwr(served), WindowTwr(shadow))
\* Production's figure is that of the Performance page, from the rows as they are now.
TwrDivergences(rows, points) ==
  IF TwrCompared(rows, points)
     /\ ReturnsDiffer(Points(prow), UpTo(points, LatestShared(rows, points)))
  THEN {<<"twr", LatestShared(rows, points)>>} ELSE {}

\* partial: the record has a delivery of a security it never saw come in, so that the NAV
\* is short on every day; nothing is compared.
Finding(points, partial) ==
  [compared |-> IF partial THEN {} ELSE Shared(read, points),
   keys |-> IF partial THEN {}
            ELSE NavDivergences(read, points) \cup TwrDivergences(read, points),
   partial |-> IF partial THEN PointDays(points) ELSE {},
   twr |-> ~partial /\ TwrCompared(read, points)]

-----------------------------------------------------------------------------
(* The job *)

Begin ==
  /\ phase = "idle" /\ day \in JobDays
  /\ phase' = "read" /\ read' = prow
  /\ UNCHANGED <<book, found, open>>

\* A NAV break on a day whose point was partial, or a TWR break when none was compared, was
\* not examined; every other break that did not reproduce is closed.
NotExamined(finding, k) ==
  \/ k[1] = "nav" /\ k[2] \in finding.partial
  \/ k[1] = "twr" /\ ~finding.twr
StillOpen(finding) == {k \in open : NotExamined(finding, k)}
\* Compared and committed in one: only this job reads or writes the break rows.
ComparePersist ==
  /\ phase = "read" /\ phase' = "done"
  /\ \E partial \in BOOLEAN :
     \E finding \in {Finding(ShadowPoints(Stated(trades), Max({0} \cup DOMAIN read)), partial)} :
       /\ found' = finding
       /\ open' = finding.keys \cup StillOpen(finding)
  /\ UNCHANGED <<book, read>>

\* The job ends, or the process dies before: what was committed stays.
Leave ==
  /\ phase # "idle" /\ phase' = "idle" /\ read' = <<>> /\ found' = NoFinding
  /\ UNCHANGED <<book, open>>

Init ==
  /\ BookInit
  /\ phase = "idle" /\ read = <<>> /\ found = NoFinding /\ open = {}
JobNext == Begin \/ ComparePersist \/ Leave
NewDay == phase = "idle" /\ Advance /\ UNCHANGED <<phase, read, found, open>>
\* What follows the commit changes nothing the job still reads.
Next == (phase # "done" /\ BookNext /\ UNCHANGED job) \/ NewDay \/ JobNext
Spec == Init /\ [][Next]_vars

-----------------------------------------------------------------------------
(* Properties *)

\* The reads of the book do not depend on the job: they are checked where it has not run.
Undisturbed == phase = "idle" /\ open = {}
FiguresArePriceReturns == Undisturbed => FlowsAreNoReturns /\ GainIsEarned /\ LotLineIsPriceReturn

\* The days on which no lot-reporting account holds anything: the transaction rows are
\* then the whole position.
Replayable(d) == HeldAfter(trades, d) = HeldAfter(Stated(trades), d)
Clean ==
  \A points \in {Points(prow)} :
    /\ RowsRight(points, trades) /\ NightsKept(points, trades) /\ Stated(trades) = trades
    /\ \A i \in DOMAIN trades : trades[i].day <= Max({0} \cup DOMAIN prow)
\* A run over a book that stands still leaves a NAV break open on exactly the compared days
\* whose row is wrong, of those on which no lot-reporting account holds anything; on the
\* others a break is open unless the row is worth the replayed shares alone, so that a
\* right book has one. And on a book recorded right every night whose accounts all record
\* their trades, whatever was bought and sold in which of them, no break at all: one pooled
\* ledger replayed forward and production's rows are the same NAV and link to the same
\* return (shadow_recompute.py shadow_nav_series, diff_nav_series, diff_twr).
ShadowFindsWrongRows ==
  phase = "done" /\ read = prow =>
    /\ \A d \in found.compared :
         IF Replayable(d) THEN <<"nav", d>> \in open <=> ~RightNav(d)
         ELSE RightNav(d) => <<"nav", d>> \in open
    /\ Clean /\ found.twr => open = {}

=============================================================================
