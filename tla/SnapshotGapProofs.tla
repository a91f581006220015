--------------------------- MODULE SnapshotGapProofs ----------------------------
(***************************************************************************)
(* Proofs about SnapshotGap, for any series, markets, options and history  *)
(* of runs.  The undo leaves no trace: while the job touches no row the    *)
(* tool marked, stashed or is about to, every row carries what is needed   *)
(* to find the row the tool met.  And no guess is passed off as a price:   *)
(* in a row the tool inserts a leg without a flag has its own close.       *)
(***************************************************************************)
EXTENDS SnapshotGap, FiniteSetTheorems, TLAPS
USE GapAssumption DEF GapAssumption

\* A row has exactly the columns of the table.
Columns(r) == r = [nav |-> r.nav, legs |-> r.legs, flow |-> r.flow, prov |-> r.prov,
                   mark |-> r.mark, restate |-> r.restate, rebase |-> r.rebase]

\* A gap of missing days within a run's range.
Within(gap, range) ==
  /\ gap.lo \in Int /\ gap.hi \in Int
  /\ range.lo <= gap.lo /\ gap.lo <= gap.hi /\ gap.hi <= range.hi

\* A stash names a gap of days of a run that are not undone, a mark is on one; A is the
\* set of the runs.
Traced(gap, A) == \E q \in A : /\ gap.lo \in Int /\ gap.hi \in Int /\ gap.lo <= gap.hi
                               /\ gap.lo..gap.hi \subseteq q.days
Covered(d, A) == \E q \in A : d \in q.days

\* A row of day d: stashes and marks come from a run that is still applied, and a
\* row with an anchor stash is final.
RowOK(r, d, A) ==
  /\ Columns(r) /\ r.prov \in BOOLEAN /\ r.mark \in (SUBSET Legs) \cup {None}
  /\ r.restate.kept \in BOOLEAN /\ (~r.restate.kept => r.restate = NoStash)
  /\ r.rebase.kept \in BOOLEAN /\ (~r.rebase.kept => r.rebase = NoStash)
  /\ r.restate.kept => ~r.prov /\ Traced(r.restate.gap, A)
  /\ r.rebase.kept => Traced(r.rebase.gap, A)
  /\ r.mark # None => Covered(d, A)

\* The row as the tool met it, from its stashes, and a whole series so.
Untooled(r) ==
  [nav |-> IF r.restate.kept THEN r.restate.nav ELSE r.nav,
   legs |-> IF r.restate.kept THEN r.restate.legs ELSE r.legs,
   flow |-> IF r.rebase.kept THEN r.rebase.flow ELSE r.flow,
   prov |-> r.restate.kept \/ r.prov, mark |-> None, restate |-> NoStash, rebase |-> NoStash]
Plain(t) == {d \in DOMAIN t : t[d].mark = None}
View(t) == [d \in Plain(t) |-> Untooled(t[d])]

\* The shapes of the variables, whatever the job does.
ShapeInv ==
  /\ rows = [s \in Series |-> [d \in DOMAIN rows[s] |-> rows[s][d]]]
  /\ base = [s \in Series |-> base[s]]
  /\ bought \in Histories /\ crossed \in BOOLEAN
  /\ \A q \in applied : q = [number |-> q.number, days |-> q.days] /\ q.days \subseteq Days
  /\ undoing # None => undoing \in Ranges
  /\ plan # None => plan.range \in Ranges

\* Every row is explained.
RowsInv == \A s \in Series :
  /\ DOMAIN rows[s] \subseteq Days
  /\ \A d \in DOMAIN rows[s] : RowOK(rows[s][d], d, applied)

\* Without the tool's rows and stashes the series are those the job alone would have left.
BaseInv == \A s \in Series : base[s] = View(rows[s])

\* What a plan will write on the row r: nothing that it does not stash.
Anchored(r, t, range) ==
  /\ t.restate.kept \in BOOLEAN
  /\ t.restate.kept =>
       \/ t = r
       \/ /\ r.prov /\ ~r.restate.kept
          /\ t.restate.nav = r.nav /\ t.restate.legs = r.legs /\ Within(t.restate.gap, range)

\* The plan of a series against its rows: the rows it read are there, as it read them
\* where it rewrites, and the flow it gives up is the one the row has.
SeriesPlanned(u, t, p, range) ==
  /\ DOMAIN t \subseteq DOMAIN u
  /\ \A d \in DOMAIN t : Anchored(u[d], t[d], range)
  /\ p.points \subseteq range.lo..range.hi
  /\ \A d \in p.points : p.rows[d].flagged \subseteq Legs
  /\ p.points # {} /\ p.rebase # None =>
       /\ p.b \in DOMAIN u \ p.points
       /\ u[p.b].flow = p.rebase.was

\* So it is for every series of the pending plan.
PlanInv == plan # None =>
  \A s \in Series : SeriesPlanned(rows[s], plan.ts[s], plan.of[s], plan.range)

\* Between the two transactions of an undo no stash of its range is left.
Unhanded(r, range) == /\ r.restate.kept => ~Overlap(r.restate.gap, range)
                      /\ r.rebase.kept => ~Overlap(r.rebase.gap, range)

\* And no plan is pending then.
UndoInv == undoing # None =>
  /\ plan = None
  /\ \A s \in Series : \A d \in DOMAIN rows[s] : Unhanded(rows[s][d], undoing)

\* The inductive invariant.
Inv == ShapeInv /\ (~crossed => RowsInv /\ BaseInv /\ PlanInv /\ UndoInv)
----------------------------------------------------------------------------
\* A bounded set of days has a highest one, and Max is it.
LEMMA HighestDay ==
  ASSUME NEW S \in SUBSET Nat, NEW b \in Nat, \A d \in S : d <= b, S # {}
  PROVE  Max(S) \in S /\ \A d \in S : d <= Max(S)
  <1> DEFINE Above(m) == {k \in S : m < k}
  <1>1. IsFiniteSet(S)
    BY FS_BoundedSetOfNaturals
  <1>2. IsWellFoundedOn(StrictSubsetOrdering(S), SUBSET S)
    BY <1>1, FS_StrictSubsetOrderingWellFounded, FS_FiniteSubsetsOfFinite
  <1>3. {Above(m) : m \in S} \subseteq SUBSET S /\ {Above(m) : m \in S} # {}
    <2>1. \A m \in S : Above(m) \in SUBSET S
      OBVIOUS
    <2> HIDE DEF Above
    <2>2. PICK m : m \in S
      OBVIOUS
    <2>3. Above(m) \in {Above(k) : k \in S}
      BY <2>2
    <2>4. QED
      BY <2>1, <2>3
  <1>4. PICK T \in {Above(m) : m \in S} :
          \A U \in {Above(m) : m \in S} : <<U, T>> \notin StrictSubsetOrdering(S)
    BY <1>2, <1>3, WFMin
  <1>5. PICK m \in S : T = Above(m)
    BY <1>4
  <1>6. ASSUME NEW n \in S, ~(m >= n) PROVE FALSE
    <2>1. n \in Nat /\ m \in Nat /\ m < n
      BY <1>6
    <2>2. n \in Above(m) /\ n \notin Above(n)
      BY <2>1
    <2>3. ASSUME NEW k \in Above(n) PROVE k \in Above(m)
      BY <2>1
    <2>4. <<Above(n), T>> \in StrictSubsetOrdering(S)
      BY <2>2, <2>3, <1>5 DEF StrictSubsetOrdering
    <2>5. QED
      BY <2>4, <1>4
  <1>7. \E x \in S : \A y \in S : x >= y
    BY <1>6
  <1>8. Max(S) = CHOOSE x \in S : \A y \in S : x >= y
    BY DEF Max
  <1>9. Max(S) \in S /\ \A y \in S : Max(S) >= y
    BY <1>7, <1>8
  <1>10. QED
    BY <1>9

\* So has a set of days a lowest one, and Min is it.
LEMMA LowestDay ==
  ASSUME NEW S \in SUBSET Nat, S # {}
  PROVE  Min(S) \in S /\ \A d \in S : Min(S) <= d
  <1>1. PICK m : m \in S
    OBVIOUS
  <1> DEFINE T == {n \in 0..m : m - n \in S}
  <1>2. T \in SUBSET Nat /\ 0 \in T /\ \A n \in T : n <= m
    BY <1>1
  <1> HIDE DEF T
  <1>3. PICK n \in T : \A k \in T : k <= n
    BY <1>1, <1>2, HighestDay
  <1>4. m - n \in S /\ n \in 0..m
    BY DEF T
  <1>5. ASSUME NEW d \in S PROVE m - n <= d
    <2>1. d < m => m - d \in T
      BY <1>1 DEF T
    <2>2. QED
      BY <1>1, <1>3, <1>4, <2>1
  <1>6. \E x \in S : \A y \in S : x <= y
    BY <1>4, <1>5
  <1>7. QED
    BY <1>6 DEF Min

\* The gap a stash names lies within the range of its run.
LEMMA GapWithin ==
  ASSUME NEW range \in Ranges, NEW missing, missing \subseteq range.lo..range.hi, missing # {}
  PROVE  Within(Gap(missing), range)
  <1>1. range.lo \in Nat /\ range.hi \in Nat /\ missing \in SUBSET Nat /\ \A d \in missing : d <= range.hi
    BY DEF Ranges
  <1>2. Min(missing) \in missing /\ \A d \in missing : Min(missing) <= d
    BY <1>1, LowestDay
  <1>3. Max(missing) \in missing
    BY <1>1, HighestDay
  <1>4. Min(missing) \in Int /\ Max(missing) \in Int /\ range.lo <= Min(missing)
        /\ Min(missing) <= Max(missing) /\ Max(missing) <= range.hi
    <2>1. PICK m : m = Min(missing)
      OBVIOUS
    <2>2. PICK n : n = Max(missing)
      OBVIOUS
    <2>3. m \in range.lo..range.hi /\ n \in range.lo..range.hi /\ m <= n
      BY <1>2, <1>3, <2>1, <2>2
    <2>4. QED
      BY <1>1, <2>1, <2>2, <2>3
  <1>5. Gap(missing).lo = Min(missing) /\ Gap(missing).hi = Max(missing)
    BY DEF Gap
  <1>6. QED
    BY <1>4, <1>5 DEF Within
----------------------------------------------------------------------------
\* A row that _restate_anchor makes final in memory is one the tool can put back.
LEMMA RestatedRow ==
  ASSUME NEW r, NEW d, NEW A, NEW gap, NEW range, RowOK(r, d, A), Within(gap, range)
  PROVE  /\ Anchored(r, Restated(r, d, gap), range) /\ Anchored(r, r, range)
         /\ Restated(r, d, gap).flow = r.flow /\ Restated(r, d, gap).mark = r.mark
  <1>1. CASE ~r.prov \/ r.legs = None \/ Struck(r, d) = {}
    BY <1>1 DEF Restated, Anchored, RowOK
  <1>2. CASE ~(~r.prov \/ r.legs = None \/ Struck(r, d) = {})
    <2>1. PICK v : Restated(r, d, gap) =
            [r EXCEPT !.nav = v, !.legs = v, !.prov = FALSE,
                      !.restate = [kept |-> TRUE, gap |-> gap, nav |-> r.nav, legs |-> r.legs]]
      BY <1>2 DEF Restated
    <2>2. PICK t : t = Restated(r, d, gap)
      OBVIOUS
    <2>3. Columns(r) /\ ~r.restate.kept
      BY <1>2 DEF RowOK
    <2>4. t.flow = r.flow /\ t.mark = r.mark
          /\ t.restate = [kept |-> TRUE, gap |-> gap, nav |-> r.nav, legs |-> r.legs]
      BY <2>1, <2>2, <2>3 DEF Columns
    <2>5. QED
      BY <1>2, <2>2, <2>3, <2>4 DEF Anchored, RowOK
  <1>3. QED
    BY <1>1, <1>2

\* A gap within a range is traced to the run that has all of its days.
LEMMA WithinTraced ==
  ASSUME NEW gap, NEW range \in Ranges, Within(gap, range), NEW A, \E q \in A : q.days = DaysOf(range)
  PROVE  Traced(gap, A)
  <1>1. PICK q \in A : q.days = DaysOf(range)
    OBVIOUS
  <1>2. range.lo \in Int /\ range.hi \in Int
    BY DEF Ranges
  <1>3. gap.lo..gap.hi \subseteq range.lo..range.hi
    BY <1>2 DEF Within
  <1>4. QED
    BY <1>1, <1>3 DEF Traced, Within, DaysOf

\* A larger set of applied runs explains what a smaller one does.
LEMMA TracedMore ==
  ASSUME NEW A, NEW B, A \subseteq B, NEW gap, Traced(gap, A)
  PROVE  Traced(gap, B)
  BY DEF Traced

\* And a row that is explained stays so.
LEMMA RowMore ==
  ASSUME NEW A, NEW B, A \subseteq B, NEW r, NEW d, RowOK(r, d, A)
  PROVE  RowOK(r, d, B)
  <1>1. r.restate.kept => Traced(r.restate.gap, B)
    BY TracedMore DEF RowOK
  <1>2. r.rebase.kept => Traced(r.rebase.gap, B)
    BY TracedMore DEF RowOK
  <1>3. r.mark # None => Covered(d, B)
    BY DEF RowOK, Covered
  <1>4. QED
    BY <1>1, <1>2, <1>3 DEF RowOK

\* What the flush writes on an anchor that was restated in memory, and on the row after
\* a gap: the two parts of Flushed.
AnchorWrite(r, t) ==
  IF t.restate.kept
  THEN [r EXCEPT !.nav = t.nav, !.legs = t.legs, !.prov = FALSE, !.restate = t.restate]
  ELSE r
RebaseWrite(r, gap, f, was) ==
  [r EXCEPT !.flow = f, !.rebase = [kept |-> TRUE, gap |-> gap, flow |-> was]]

\* The flush of an anchor leaves the row explained, and the row the tool met readable.
LEMMA AnchorFlush ==
  ASSUME NEW r, NEW d, NEW A, NEW t, NEW range \in Ranges, NEW u, RowOK(r, d, A), Anchored(r, t, range),
         \E q \in A : q.days = DaysOf(range), u = AnchorWrite(r, t)
  PROVE  /\ RowOK(u, d, A) /\ Untooled(u) = Untooled(r)
         /\ u.flow = r.flow /\ u.mark = r.mark /\ u.rebase = r.rebase
  <1>1. CASE ~t.restate.kept
    BY <1>1 DEF AnchorWrite
  <1>2. CASE t.restate.kept /\ t = r
    <2>1. Columns(r) /\ r.prov = FALSE
      BY <1>2 DEF RowOK
    <2>2. [r EXCEPT !.nav = r.nav, !.legs = r.legs, !.prov = FALSE, !.restate = r.restate] = r
      BY <2>1 DEF Columns
    <2>3. u = r
      BY <1>2, <2>2 DEF AnchorWrite
    <2>4. QED
      BY <2>3
  <1>3. CASE t.restate.kept /\ t # r
    <2>1. /\ r.prov /\ ~r.restate.kept /\ Columns(r)
          /\ t.restate.nav = r.nav /\ t.restate.legs = r.legs /\ Within(t.restate.gap, range)
      BY <1>3 DEF Anchored, RowOK
    <2>2. u = [nav |-> t.nav, legs |-> t.legs, flow |-> r.flow, prov |-> FALSE,
               mark |-> r.mark, restate |-> t.restate, rebase |-> r.rebase]
      BY <1>3, <2>1 DEF AnchorWrite, Columns
    <2>3. /\ u.nav = t.nav /\ u.legs = t.legs /\ u.flow = r.flow /\ u.prov = FALSE
          /\ u.mark = r.mark /\ u.restate = t.restate /\ u.rebase = r.rebase
      BY <2>2
    <2>4. Columns(u)
      BY <2>2, <2>3 DEF Columns
    <2>5. Traced(u.restate.gap, A)
      BY <2>1, <2>3, WithinTraced
    <2>6. RowOK(u, d, A)
      BY <1>3, <2>3, <2>4, <2>5 DEF RowOK, Anchored
    <2>7. Untooled(u) = Untooled(r)
      <3>1. r.prov = TRUE
        BY <2>1 DEF RowOK
      <3>2. QED
        BY <1>3, <2>1, <2>3, <3>1 DEF Untooled, Anchored
    <2>8. QED
      BY <2>3, <2>6, <2>7
  <1>4. QED
    BY <1>1, <1>2, <1>3

\* So does the flush of the row after a gap.
LEMMA RebaseFlush ==
  ASSUME NEW r, NEW d, NEW A, NEW u, NEW f, NEW gap, RowOK(r, d, A), ~r.rebase.kept,
         Traced(gap, A), u = RebaseWrite(r, gap, f, r.flow)
  PROVE  RowOK(u, d, A) /\ Untooled(u) = Untooled(r) /\ u.mark = r.mark
  <1>1. Columns(r)
    BY DEF RowOK
  <1>2. u = [nav |-> r.nav, legs |-> r.legs, flow |-> f, prov |-> r.prov, mark |-> r.mark,
             restate |-> r.restate, rebase |-> [kept |-> TRUE, gap |-> gap, flow |-> r.flow]]
    BY <1>1 DEF RebaseWrite, Columns
  <1>3. /\ u.nav = r.nav /\ u.legs = r.legs /\ u.flow = f /\ u.prov = r.prov /\ u.mark = r.mark
        /\ u.restate = r.restate /\ u.rebase.kept = TRUE /\ u.rebase.gap = gap /\ u.rebase.flow = r.flow
    BY <1>2
  <1>4. Columns(u)
    BY <1>2 DEF Columns
  <1>5. Traced(u.rebase.gap, A)
    BY <1>3
  <1>6. RowOK(u, d, A)
    BY <1>3, <1>4, <1>5 DEF RowOK
  <1>7. Untooled(u) = Untooled(r)
    BY <1>3 DEF Untooled
  <1>8. QED
    BY <1>3, <1>6, <1>7

\* What it inserts.
LEMMA InsertedRow ==
  ASSUME NEW p, NEW d, NEW A, p.rows[d].flagged \subseteq Legs, Covered(d, A)
  PROVE  RowOK(Inserted(p, d), d, A) /\ Inserted(p, d).mark # None
  <1>1. PICK u : u = Inserted(p, d)
    OBVIOUS
  <1>2. u = [nav |-> p.rows[d].value, legs |-> p.rows[d].value, flow |-> p.rows[d].flow, prov |-> FALSE,
             mark |-> p.rows[d].flagged, restate |-> NoStash, rebase |-> NoStash]
    BY <1>1 DEF Inserted
  <1>3. /\ u.nav = p.rows[d].value /\ u.legs = p.rows[d].value /\ u.flow = p.rows[d].flow /\ u.prov = FALSE
        /\ u.mark = p.rows[d].flagged /\ u.restate = NoStash /\ u.rebase = NoStash
    BY <1>2
  <1>4. Columns(u)
    BY <1>2, <1>3 DEF Columns
  <1>5. NoStash.kept = FALSE
    BY DEF NoStash
  <1>6. QED
    BY <1>1, <1>3, <1>4, <1>5 DEF RowOK

\* The undo of one row: what was there is back, and no stash of the range is left.
LEMMA UnstashedRow ==
  ASSUME NEW r, NEW d, NEW A, NEW range, RowOK(r, d, A)
  PROVE  LET u == Unstash(r, range) IN
         RowOK(u, d, A) /\ Untooled(u) = Untooled(r) /\ u.mark = r.mark /\ Unhanded(u, range)
  <1>1. PICK q : q = IF r.restate.kept /\ Overlap(r.restate.gap, range)
           THEN [r EXCEPT !.nav = r.restate.nav, !.legs = r.restate.legs, !.prov = TRUE, !.restate = NoStash]
           ELSE r
    OBVIOUS
  <1>2. NoStash.kept = FALSE
    BY DEF NoStash
  <1>3. /\ RowOK(q, d, A) /\ Untooled(q) = Untooled(r) /\ q.mark = r.mark
        /\ q.restate.kept => ~Overlap(q.restate.gap, range)
    <2>1. CASE r.restate.kept /\ Overlap(r.restate.gap, range)
      <3>1. q = [nav |-> r.restate.nav, legs |-> r.restate.legs, flow |-> r.flow, prov |-> TRUE,
                 mark |-> r.mark, restate |-> NoStash, rebase |-> r.rebase]
        BY <1>1, <2>1 DEF RowOK, Columns
      <3>2. /\ q.nav = r.restate.nav /\ q.legs = r.restate.legs /\ q.flow = r.flow /\ q.prov = TRUE
            /\ q.mark = r.mark /\ q.restate = NoStash /\ q.rebase = r.rebase
        BY <3>1
      <3>3. Columns(q)
        BY <3>1, <3>2 DEF Columns
      <3>4. RowOK(q, d, A)
        BY <1>2, <3>2, <3>3 DEF RowOK
      <3>5. Untooled(q) = Untooled(r)
        <4>1. r.restate.kept = TRUE
          BY <2>1 DEF RowOK
        <4>2. QED
          BY <1>2, <3>2, <4>1 DEF Untooled
      <3>6. QED
        BY <1>2, <3>2, <3>4, <3>5
    <2>2. CASE ~(r.restate.kept /\ Overlap(r.restate.gap, range))
      BY <1>1, <2>2
    <2>3. QED
      BY <2>1, <2>2
  <1>4. PICK u : u = Unstash(r, range)
    OBVIOUS
  <1>5. u = IF q.rebase.kept /\ Overlap(q.rebase.gap, range)
            THEN [q EXCEPT !.flow = q.rebase.flow, !.rebase = NoStash] ELSE q
    BY <1>1, <1>4 DEF Unstash
  <1>6. CASE q.rebase.kept /\ Overlap(q.rebase.gap, range)
    <2>1. u = [nav |-> q.nav, legs |-> q.legs, flow |-> q.rebase.flow, prov |-> q.prov,
               mark |-> q.mark, restate |-> q.restate, rebase |-> NoStash]
      BY <1>3, <1>5, <1>6 DEF RowOK, Columns
    <2>2. /\ u.nav = q.nav /\ u.legs = q.legs /\ u.flow = q.rebase.flow /\ u.prov = q.prov
          /\ u.mark = q.mark /\ u.restate = q.restate /\ u.rebase = NoStash
      BY <2>1
    <2>3. Columns(u)
      BY <2>1, <2>2 DEF Columns
    <2>4. RowOK(u, d, A)
      BY <1>2, <1>3, <2>2, <2>3 DEF RowOK
    <2>5. Untooled(u) = Untooled(q)
      BY <1>2, <1>6, <2>2 DEF Untooled
    <2>6. QED
      BY <1>2, <1>3, <1>4, <2>2, <2>4, <2>5 DEF Unhanded
  <1>7. CASE ~(q.rebase.kept /\ Overlap(q.rebase.gap, range))
    <2>1. u = q
      BY <1>5, <1>7
    <2>2. QED
      BY <1>3, <1>4, <1>7, <2>1 DEF Unhanded
  <1>8. QED
    BY <1>6, <1>7

\* A row without mark or stash is the row the tool met.
LEMMA CleanRow ==
  ASSUME NEW r, NEW d, NEW A, RowOK(r, d, A), ~r.restate.kept, ~r.rebase.kept, r.mark = None
  PROVE  Untooled(r) = r
  <1>1. r.restate.kept = FALSE /\ r.restate = NoStash /\ r.rebase = NoStash /\ r.rebase.kept = FALSE
    BY DEF RowOK
  <1>2. Untooled(r) = [nav |-> r.nav, legs |-> r.legs, flow |-> r.flow, prov |-> r.prov,
                       mark |-> r.mark, restate |-> r.restate, rebase |-> r.rebase]
    BY <1>1 DEF Untooled, RowOK
  <1>3. QED
    BY <1>2 DEF RowOK, Columns

\* Series with the same unmarked rows, up to what the tool wrote on them, have the same view.
LEMMA SameView ==
  ASSUME NEW t, NEW u, Plain(u) = Plain(t), \A d \in Plain(t) : Untooled(u[d]) = Untooled(t[d])
  PROVE  View(u) = View(t)
  <1> HIDE DEF Untooled, Plain
  <1>1. QED
    BY DEF View
----------------------------------------------------------------------------
\* What a plan is, whoever made it: the missing days, their flags, and the flow of the
\* row after, if the plan changes it.
PlanOK(p, t, missing, b) ==
  p = Skip \/ /\ p.points = missing /\ p.b = b
              /\ p.rebase = None \/ p.rebase.was = t[b].flow
              /\ \A d \in missing : p.rows[d].flagged \subseteq Legs

\* _settle_flows skips the series, or keeps its plan and perhaps gives the row after
\* the gap another flow.
LEMMA SettledShape ==
  ASSUME NEW s, NEW t, NEW missing, NEW a, NEW b, NEW qs, NEW p,
         p = [points |-> missing, a |-> a, b |-> b, rebase |-> None, rows |-> qs],
         \A d \in missing : qs[d].flagged \subseteq Legs
  PROVE  PlanOK(Settled(s, t, p), t, missing, b)
  <1>1. \/ Settled(s, t, p) = Skip \/ Settled(s, t, p) = p
        \/ Settled(s, t, p) = [p EXCEPT !.rebase = None]
        \/ \E f : Settled(s, t, p) = [p EXCEPT !.rebase = [flow |-> f, was |-> t[p.b].flow]]
    BY Zenon DEF Settled
  <1>2. p.points = missing /\ p.b = b /\ p.rebase = None /\ p.rows = qs
    OBVIOUS
  <1>3. PlanOK(p, t, missing, b)
    BY <1>2 DEF PlanOK
  <1>4. [p EXCEPT !.rebase = None] = p
    OBVIOUS
  <1>5. ASSUME NEW f, NEW q, q = [p EXCEPT !.rebase = [flow |-> f, was |-> t[p.b].flow]]
        PROVE  PlanOK(q, t, missing, b)
    <2>1. q.points = missing /\ q.b = b /\ q.rebase.was = t[b].flow /\ q.rows = qs
      BY <1>2, <1>5
    <2>2. QED
      BY <2>1 DEF PlanOK
  <1>6. PlanOK(Skip, t, missing, b)
    BY DEF PlanOK
  <1>7. QED
    BY <1>1, <1>3, <1>4, <1>5, <1>6

\* The plan of one series flags legs.
LEMMA PlanSeriesShape ==
  ASSUME NEW s, NEW t, NEW missing, NEW gap, NEW o
  PROVE  PlanOK(PlanSeries(s, t, missing, gap, o), t, missing, gap.b)
  <1>1. ASSUME NEW d PROVE PlannedRow(s, t, missing, gap, o, d).flagged \subseteq Legs
    <2>1. PICK q, w : q = QtyOn(s, t, gap, d) /\ w = PricesOn(t, missing, gap, o, d)
      OBVIOUS
    <2>2. PlannedRow(s, t, missing, gap, o, d) =
            [value |-> [qty |-> q, at |-> [k \in Legs |-> w[k].at]], flow |-> 0,
             flagged |-> IF Unlike THEN Legs ELSE {k \in Held(q) : w[k].how # "none"}]
      BY <2>1 DEF PlannedRow
    <2>3. QED
      BY <2>2 DEF Held
  <1> DEFINE qs == [d \in missing |-> PlannedRow(s, t, missing, gap, o, d)]
             planned == [points |-> missing, a |-> gap.a, b |-> gap.b, rebase |-> None, rows |-> qs]
             rs == [d \in missing |-> [qs[d] EXCEPT !.flow = FlowOn(s, t, planned, d)]]
             settled == [points |-> missing, a |-> gap.a, b |-> gap.b, rebase |-> None, rows |-> rs]
  <1>2. \A d \in missing : qs[d].flagged \subseteq Legs
    BY <1>1
  <1>3. PlanOK(planned, t, missing, gap.b)
    BY <1>2 DEF PlanOK
  <1>4. \A d \in missing : rs[d].flagged \subseteq Legs
    <2>1. SUFFICES ASSUME NEW d \in missing PROVE rs[d].flagged \subseteq Legs
      OBVIOUS
    <2>2. PICK r : r = PlannedRow(s, t, missing, gap, o, d)
      OBVIOUS
    <2>3. PICK f : rs[d] = [r EXCEPT !.flow = f]
      BY <2>2
    <2>4. r.flagged \subseteq Legs
      BY <1>1, <2>2
    <2>5. \E v, S : r = [value |-> v, flow |-> 0, flagged |-> S]
      BY <2>2, Zenon DEF PlannedRow
    <2>6. rs[d].flagged = r.flagged
      <3> HIDE DEF rs
      <3>1. QED
        BY <2>3, <2>5
    <2>7. QED
      BY <2>4, <2>6
  <1>5. \/ PlanSeries(s, t, missing, gap, o) = Skip
        \/ PlanSeries(s, t, missing, gap, o) = planned
        \/ PlanSeries(s, t, missing, gap, o) = Settled(s, t, [planned EXCEPT !.rows = rs])
    BY DEF PlanSeries
  <1> HIDE DEF qs, rs
  <1>6. [planned EXCEPT !.rows = rs] = settled
    OBVIOUS
  <1>7. PlanOK(Settled(s, t, settled), t, missing, gap.b)
    <2>1. PICK p : p = settled
      OBVIOUS
    <2> HIDE DEF planned
    <2>2. PlanOK(Settled(s, t, p), t, missing, gap.b)
      BY <1>4, <2>1, SettledShape
    <2>3. QED
      BY <2>1, <2>2
  <1> HIDE DEF planned, settled
  <1>8. QED
    BY <1>3, <1>5, <1>6, <1>7 DEF PlanOK

\* The plan from the accounts flags legs that an account's row or plan flags.
LEMMA PlanFromAccountsShape ==
  ASSUME NEW ts, NEW plans, NEW missing, NEW gap,
         \A x \in Accounts : \A d \in DOMAIN ts[x] : ts[x][d].mark \in (SUBSET Legs) \cup {None},
         \A x \in Accounts : \A d \in plans[x].points : plans[x].rows[d].flagged \subseteq Legs
  PROVE  PlanOK(PlanFromAccounts(ts, plans, missing, gap), ts[Portfolio], missing, gap.b)
  <1> DEFINE On(a, d) == IF d \in RowsOf(ts[a])
                  THEN [value |-> ts[a][d].nav, flow |-> ts[a][d].flow, flagged |-> FlagsOf(ts[a][d])]
                  ELSE plans[a].rows[d]
             Cohort(d) == {a \in Accounts : d \in RowsOf(ts[a]) \cup plans[a].points}
             SumOn(d) == Total([a \in Cohort(d) |-> On(a, d).value])
             FlowSum(d) == SumFunction([a \in Cohort(d) |-> On(a, d).flow])
             Flags(d) == UNION {On(a, d).flagged : a \in Cohort(d)}
             qs == [d \in missing |-> [value |-> SumOn(d), flagged |-> Flags(d), flow |-> FlowSum(d)]]
             p == [points |-> missing, a |-> gap.a, b |-> gap.b, rebase |-> None, rows |-> qs]
  <1>1. ASSUME NEW d, NEW a \in Cohort(d) PROVE On(a, d).flagged \subseteq Legs
    <2>1. CASE d \in RowsOf(ts[a])
      <3>1. FlagsOf(ts[a][d]) \subseteq Legs
        BY <2>1 DEF FlagsOf, RowsOf
      <3>2. QED
        BY <2>1, <3>1
    <2>2. CASE d \notin RowsOf(ts[a])
      BY <2>2
    <2>3. QED
      BY <2>1, <2>2
  <1>2. ASSUME NEW d PROVE Flags(d) \subseteq Legs
    <2> HIDE DEF On, Cohort
    <2>1. QED
      BY <1>1
  <1>3. \A d \in missing : qs[d].flagged \subseteq Legs
    <2> HIDE DEF SumOn, Flags, FlowSum
    <2>1. QED
      BY <1>2
  <1>4. \/ PlanFromAccounts(ts, plans, missing, gap) = Skip
        \/ PlanFromAccounts(ts, plans, missing, gap) = Settled(Portfolio, ts[Portfolio], p)
    BY Zenon DEF PlanFromAccounts
  <1> HIDE DEF qs
  <1>5. PlanOK(Settled(Portfolio, ts[Portfolio], p), ts[Portfolio], missing, gap.b)
    <2>1. PICK x : x = p
      OBVIOUS
    <2> HIDE DEF p
    <2>2. PlanOK(Settled(Portfolio, ts[Portfolio], x), ts[Portfolio], missing, gap.b)
      BY <1>3, <2>1, SettledShape DEF p
    <2>3. QED
      BY <2>1, <2>2
  <1> HIDE DEF p
  <1>6. QED
    BY <1>4, <1>5 DEF PlanOK

----------------------------------------------------------------------------
\* The rows a plan reads are those of the table; where it has restated an anchor,
\* it can be put back.
LEMMA RestatedSeries ==
  ASSUME ShapeInv, RowsInv, NEW o, NEW range \in Ranges, NEW s \in Series
  PROVE  LET t == RestatedRows(o, range)[s] IN
         /\ DOMAIN t = DOMAIN rows[s]
         /\ \A d \in DOMAIN t : /\ Anchored(rows[s][d], t[d], range)
                                /\ t[d].flow = rows[s][d].flow /\ t[d].mark = rows[s][d].mark
  <1> DEFINE gapped == Gapped(o, range)
             ends(x) == {AnchorsOf(x, range).a, AnchorsOf(x, range).b}
             touched == (IF s \in gapped THEN ends(s) ELSE {})
                        \cup (IF o.accounts /\ Portfolio \in gapped /\ s \in Accounts THEN ends(Portfolio) ELSE {})
             gap == Gap(Missing(IF s \in gapped THEN s ELSE Portfolio, range))
  <1>1. PICK t : t = RestatedRows(o, range)[s]
    OBVIOUS
  <1>2. t = [d \in DOMAIN rows[s] |->
               IF o.restate /\ d \in touched THEN Restated(rows[s][d], d, gap) ELSE rows[s][d]]
    BY <1>1 DEF RestatedRows, RowsOf
  <1>3. ASSUME NEW x \in gapped PROVE Within(Gap(Missing(x, range)), range)
    <2>1. Missing(x, range) # {} /\ Missing(x, range) \subseteq range.lo..range.hi
      BY DEF Gapped, Missing, DaysOf
    <2>2. QED
      BY <2>1, GapWithin
  <1>4. touched # {} => Within(gap, range)
    <2> HIDE DEF gapped, ends
    <2>1. s \in gapped => Within(gap, range)
      BY <1>3
    <2>2. s \notin gapped /\ Portfolio \in gapped => Within(gap, range)
      BY <1>3
    <2>3. touched # {} => s \in gapped \/ Portfolio \in gapped
      OBVIOUS
    <2>4. QED
      BY <2>1, <2>2, <2>3
  <1> HIDE DEF touched, gap
  <1>5. ASSUME NEW d \in DOMAIN rows[s]
        PROVE  /\ Anchored(rows[s][d], t[d], range)
               /\ t[d].flow = rows[s][d].flow /\ t[d].mark = rows[s][d].mark
    <2>1. PICK r : r = rows[s][d]
      OBVIOUS
    <2>2. RowOK(r, d, applied)
      BY <2>1 DEF RowsInv
    <2>3. CASE o.restate /\ d \in touched
      <3>1. Within(gap, range) /\ t[d] = Restated(r, d, gap)
        BY <1>2, <1>4, <2>1, <2>3
      <3>2. QED
        BY <2>1, <2>2, <3>1, RestatedRow
    <2>4. CASE ~(o.restate /\ d \in touched)
      <3>1. t[d] = r
        BY <1>2, <2>1, <2>4
      <3>2. QED
        BY <2>1, <2>2, <3>1 DEF Anchored, RowOK
    <2>5. QED
      BY <2>3, <2>4
  <1>6. QED
    BY <1>1, <1>2, <1>5

\* The row after the gap exists and is not one of the missing days.
LEMMA GappedSeries ==
  ASSUME RowsInv, NEW o, NEW range \in Ranges, NEW s \in Series, s \in Gapped(o, range)
  PROVE  /\ AnchorsOf(s, range).b \in DOMAIN rows[s] \ Missing(s, range)
         /\ Missing(s, range) \subseteq range.lo..range.hi
  <1> USE DEF DaysOf
  <1> DEFINE after == {d \in DOMAIN rows[s] : d > range.hi}
  <1>1. PICK b : b = AnchorsOf(s, range).b
    OBVIOUS
  <1>2. b = IF after = {} THEN 0 ELSE Min(after)
    BY <1>1 DEF AnchorsOf, Anchors, RowsOf
  <1>3. b # 0
    BY <1>1 DEF Gapped
  <1>4. after \in SUBSET Nat
    BY DEF RowsInv, Days
  <1>5. b \in after
    <2> HIDE DEF after
    <2>1. QED
      BY <1>2, <1>3, <1>4, LowestDay
  <1>6. QED
    BY <1>1, <1>5 DEF Missing, RowsOf

\* plan_gap plans, for every series, what the apply can stash.
LEMMA PlanKeeps ==
  ASSUME Inv, NEW o, NEW range \in Ranges, PlanGap(o, range)
  PROVE  Inv'
  <1> DEFINE ts == RestatedRows(o, range)
             gapped == Gapped(o, range)
             Of(s) == PlanSeries(s, ts[s], Missing(s, range), AnchorsOf(s, range), o)
             accounts == [a \in Accounts |-> IF a \in gapped THEN Of(a) ELSE Skip]
             portfolio == IF Portfolio \notin gapped THEN Skip
                      ELSE IF o.accounts
                           THEN PlanFromAccounts(ts, accounts, Missing(Portfolio, range), AnchorsOf(Portfolio, range))
                           ELSE Of(Portfolio)
             of == [s \in Series |-> IF s = Portfolio THEN portfolio ELSE accounts[s]]
  <1>1. /\ plan' = [range |-> range, ts |-> ts, of |-> of] /\ undoing = None
        /\ UNCHANGED <<bought, rows, undoing, applied, base, crossed>>
    BY DEF PlanGap, world
  <1>2. plan'.range = range /\ plan'.ts = ts /\ plan'.of = of
    <2> HIDE DEF ts, of
    <2>1. QED
      BY <1>1
  <1>3. Skip.points = {}
    BY DEF Skip
  <1>4. ASSUME NEW s \in Accounts
        PROVE  s \in gapped => PlanOK(accounts[s], ts[s], Missing(s, range), AnchorsOf(s, range).b)
    <2>1. s \in gapped => accounts[s] = Of(s)
      OBVIOUS
    <2> HIDE DEF accounts
    <2>2. QED
      BY <2>1, PlanSeriesShape
  <1>5. ASSUME NEW s \in Accounts PROVE s \notin gapped => accounts[s] = Skip
    OBVIOUS
  <1>6. ASSUME NEW s \in Accounts, NEW d \in accounts[s].points
        PROVE  accounts[s].rows[d].flagged \subseteq Legs
    <2> HIDE DEF accounts, ts, gapped
    <2>1. QED
      BY <1>3, <1>4, <1>5 DEF PlanOK
  <1>7. RowsInv /\ Portfolio \in gapped =>
          PlanOK(portfolio, ts[Portfolio], Missing(Portfolio, range), AnchorsOf(Portfolio, range).b)
    <2>1. RowsInv => \A x \in Accounts : \A d \in DOMAIN ts[x] : ts[x][d].mark \in (SUBSET Legs) \cup {None}
      <3>1. SUFFICES ASSUME RowsInv, NEW x \in Accounts, NEW d \in DOMAIN ts[x]
                     PROVE  ts[x][d].mark \in (SUBSET Legs) \cup {None}
        OBVIOUS
      <3>2. x \in Series /\ d \in DOMAIN rows[x] /\ ts[x][d].mark = rows[x][d].mark
        <4>1. x \in Series
          BY DEF Series
        <4>2. QED
          BY <4>1, <3>1, RestatedSeries DEF Inv
      <3>3. QED
        BY <3>1, <3>2 DEF RowsInv, RowOK
    <2> HIDE DEF ts, gapped, accounts
    <2>2. RowsInv => PlanOK(PlanFromAccounts(ts, accounts, Missing(Portfolio, range), AnchorsOf(Portfolio, range)),
                            ts[Portfolio], Missing(Portfolio, range), AnchorsOf(Portfolio, range).b)
      BY <1>6, <2>1, PlanFromAccountsShape
    <2>3. PlanOK(Of(Portfolio), ts[Portfolio], Missing(Portfolio, range), AnchorsOf(Portfolio, range).b)
      BY PlanSeriesShape
    <2>4. QED
      BY <2>2, <2>3
  <1>8. Portfolio \notin gapped => portfolio = Skip
    OBVIOUS
  <1>9. ASSUME NEW s \in Series
        PROVE  /\ s \notin gapped => of[s] = Skip
               /\ RowsInv /\ s \in gapped => PlanOK(of[s], ts[s], Missing(s, range), AnchorsOf(s, range).b)
    <2> HIDE DEF ts, gapped, accounts, portfolio
    <2>1. s = Portfolio => of[s] = portfolio
      OBVIOUS
    <2>2. s # Portfolio => s \in Accounts /\ of[s] = accounts[s]
      BY DEF Series
    <2>3. QED
      BY <1>4, <1>5, <1>7, <1>8, <2>1, <2>2
  <1> HIDE DEF accounts, portfolio, of
  <1>10. ASSUME RowsInv, NEW s \in Series PROVE SeriesPlanned(rows[s], ts[s], of[s], range)
    <2>1. PICK t, p, u : t = ts[s] /\ p = of[s] /\ u = rows[s]
      OBVIOUS
    <2>2. DOMAIN t = DOMAIN u /\ \A d \in DOMAIN t : Anchored(u[d], t[d], range) /\ t[d].flow = u[d].flow
      BY <1>10, <2>1, RestatedSeries DEF Inv
    <2>3. CASE s \notin gapped
      <3>1. p.points = {}
        BY <1>3, <1>9, <2>1, <2>3
      <3>2. QED
        BY <2>1, <2>2, <3>1 DEF SeriesPlanned
    <2>4. CASE s \in gapped
      <3>1. PICK b, m : b = AnchorsOf(s, range).b /\ m = Missing(s, range)
        OBVIOUS
      <3>2. PlanOK(p, t, m, b)
        BY <1>9, <1>10, <2>1, <2>4, <3>1
      <3>3. b \in DOMAIN u \ m /\ m \subseteq range.lo..range.hi
        BY <1>10, <2>1, <2>4, <3>1, GappedSeries
      <3>5. CASE p = Skip
        <4>1. p.points = {}
          BY <1>3, <3>5
        <4>2. QED
          BY <2>1, <2>2, <4>1 DEF SeriesPlanned
      <3>6. CASE p # Skip
        <4>1. /\ p.points = m /\ p.b = b
              /\ p.rebase = None \/ p.rebase.was = t[b].flow
              /\ \A d \in m : p.rows[d].flagged \subseteq Legs
          BY <3>2, <3>6 DEF PlanOK
        <4>2. p.points # {} /\ p.rebase # None =>
                p.b \in DOMAIN u \ p.points /\ u[p.b].flow = p.rebase.was
          BY <2>2, <3>3, <4>1
        <4>3. QED
          BY <2>1, <2>2, <3>3, <4>1, <4>2 DEF SeriesPlanned
      <3>7. QED
        BY <3>5, <3>6
    <2>5. QED
      BY <2>3, <2>4
  <1> HIDE DEF ts, gapped
  <1>11. RowsInv => PlanInv'
    BY <1>1, <1>2, <1>10 DEF PlanInv
  <1>12. ShapeInv'
    BY <1>1, <1>2 DEF ShapeInv, Inv
  <1>13. RowsInv => RowsInv'
    BY <1>1 DEF RowsInv
  <1>14. BaseInv => BaseInv'
    BY <1>1 DEF BaseInv
  <1>15. UndoInv'
    BY <1>1 DEF UndoInv
  <1>16. QED
    BY <1>1, <1>11, <1>12, <1>13, <1>14, <1>15 DEF Inv

\* A rollback leaves everything as it was.
LEMMA DropKeeps ==
  ASSUME Inv, DropPlan
  PROVE  Inv'
  <1>1. plan' = None /\ UNCHANGED <<bought, rows, undoing, applied, base, crossed>>
    BY DEF DropPlan, world
  <1>2. ShapeInv'
    BY <1>1 DEF ShapeInv, Inv
  <1>3. RowsInv => RowsInv'
    BY <1>1 DEF RowsInv
  <1>4. BaseInv => BaseInv'
    BY <1>1 DEF BaseInv
  <1>5. PlanInv'
    BY <1>1 DEF PlanInv
  <1>6. UndoInv => UndoInv'
    BY <1>1 DEF UndoInv
  <1>7. QED
    BY <1>1, <1>2, <1>3, <1>4, <1>5, <1>6 DEF Inv

\* The rows an apply inserts are planned days that have no row.
LEMMA WritableDays ==
  ASSUME NEW s
  PROVE  WritableOf(s) \subseteq plan.of[s].points \ DOMAIN rows[s]
  BY DEF WritableOf, Writable, RowsOf

\* The apply leaves an existing row as it was, up to what it stashes; B are the runs
\* applied afterwards.
LEMMA FlushedRow ==
  ASSUME Inv, ~crossed, plan # None, NEW s \in Series, NEW d \in DOMAIN rows[s],
         NEW B, applied \subseteq B, \E q \in B : q.days = DaysOf(plan.range), ~StashesOver(s)
  PROVE  LET u == Flushed(s, d, WritableOf(s)) IN
         RowOK(u, d, B) /\ Untooled(u) = Untooled(rows[s][d]) /\ u.mark = rows[s][d].mark
  <1>1. PICK r, t, p, range, W :
          /\ r = rows[s][d] /\ t = plan.ts[s] /\ p = plan.of[s] /\ range = plan.range /\ W = WritableOf(s)
    OBVIOUS
  <1>2. RowOK(r, d, B) /\ d \notin W /\ W \subseteq p.points
    <2>1. RowOK(r, d, applied)
      BY <1>1 DEF Inv, RowsInv
    <2>2. QED
      BY <1>1, <2>1, RowMore, WritableDays
  <1>3. SeriesPlanned(rows[s], t, p, range)
    BY <1>1 DEF Inv, PlanInv
  <1>4. PICK x : x = IF d \in DOMAIN t THEN AnchorWrite(r, t[d]) ELSE r
    OBVIOUS
  <1>5. RowOK(x, d, B) /\ Untooled(x) = Untooled(r) /\ x.flow = r.flow /\ x.mark = r.mark /\ x.rebase = r.rebase
    <2>1. CASE d \in DOMAIN t
      <3>1. Anchored(r, t[d], range)
        BY <1>1, <1>3, <2>1 DEF SeriesPlanned
      <3>2. PICK v : v = t[d]
        OBVIOUS
      <3>3. x = AnchorWrite(r, v)
        BY <1>4, <2>1, <3>2
      <3>4. /\ RowOK(r, d, B) /\ Anchored(r, v, range) /\ \E q \in B : q.days = DaysOf(range)
            /\ range \in Ranges
        BY <1>1, <1>2, <3>1, <3>2 DEF Inv, ShapeInv
      <3>5. QED
        BY <3>3, <3>4, AnchorFlush
    <2>2. CASE d \notin DOMAIN t
      BY <1>2, <1>4, <2>2
    <2>3. QED
      BY <2>1, <2>2
  <1>6. PICK u : u = Flushed(s, d, W)
    OBVIOUS
  <1>7. u = IF W # {} /\ p.rebase # None /\ d = p.b
            THEN RebaseWrite(x, Gap(p.points), p.rebase.flow, p.rebase.was) ELSE x
    BY <1>1, <1>2, <1>4, <1>6 DEF Flushed, RowsOf, AnchorWrite, RebaseWrite
  <1>8. CASE W # {} /\ p.rebase # None /\ d = p.b
    <2>1. r.flow = p.rebase.was /\ ~r.rebase.kept /\ p.points # {} /\ p.points \subseteq range.lo..range.hi
      BY <1>1, <1>2, <1>3, <1>8 DEF SeriesPlanned, StashesOver
    <2>2. range \in Ranges
      BY <1>1 DEF Inv, ShapeInv
    <2>3. Within(Gap(p.points), range)
      BY <2>1, <2>2, GapWithin
    <2>4. PICK gap, f : gap = Gap(p.points) /\ f = p.rebase.flow
      OBVIOUS
    <2>5. u = RebaseWrite(x, gap, f, x.flow)
      BY <1>5, <1>7, <1>8, <2>1, <2>4
    <2>6. RowOK(x, d, B) /\ ~x.rebase.kept /\ Traced(gap, B)
      BY <1>1, <1>5, <2>1, <2>2, <2>3, <2>4, WithinTraced
    <2>7. RowOK(u, d, B) /\ Untooled(u) = Untooled(x) /\ u.mark = x.mark
      BY <2>5, <2>6, RebaseFlush
    <2>8. QED
      BY <1>1, <1>5, <1>6, <2>7
  <1>9. CASE ~(W # {} /\ p.rebase # None /\ d = p.b)
    BY <1>1, <1>5, <1>6, <1>7, <1>9
  <1>10. QED
    BY <1>8, <1>9

\* apply_plan, in one transaction.
LEMMA ApplyKeeps ==
  ASSUME Inv, ApplyPlan
  PROVE  Inv'
  <1>1. /\ plan # None /\ plan' = None
        /\ applied' = applied \cup {[number |-> runs, days |-> DaysOf(plan.range)]}
        /\ rows' = [s \in Series |-> [d \in DOMAIN rows[s] \cup WritableOf(s) |-> Flushed(s, d, WritableOf(s))]]
        /\ crossed' = (crossed \/ \E s \in Series : StashesOver(s))
        /\ UNCHANGED <<bought, undoing, base>>
    BY DEF ApplyPlan, world, RowsOf
  <1>2. PICK B : B = applied'
    OBVIOUS
  <1>3. applied \subseteq B /\ \E q \in B : q.days = DaysOf(plan.range)
    <2>1. PICK q : q = [number |-> runs, days |-> DaysOf(plan.range)]
      OBVIOUS
    <2>2. q.days = DaysOf(plan.range)
      BY <2>1
    <2>3. QED
      BY <1>1, <1>2, <2>1, <2>2
  <1>4. ShapeInv'
    <2>1. \A q \in B : q = [number |-> q.number, days |-> q.days] /\ q.days \subseteq Days
      <3>1. DaysOf(plan.range) \subseteq Days
        BY <1>1 DEF Inv, ShapeInv, Ranges, Days, DaysOf
      <3>2. QED
        BY <1>1, <1>2, <3>1 DEF Inv, ShapeInv
    <2>2. rows' = [s \in Series |-> [d \in DOMAIN rows'[s] |-> rows'[s][d]]]
      <3> DEFINE W(s) == WritableOf(s)
                 F(s, d) == Flushed(s, d, W(s))
      <3>1. rows' = [s \in Series |-> [d \in DOMAIN rows[s] \cup W(s) |-> F(s, d)]]
        BY <1>1
      <3> HIDE DEF W, F
      <3>2. QED
        BY <3>1
    <2>3. QED
      BY <1>1, <1>2, <2>1, <2>2 DEF Inv, ShapeInv
  <1>5. ASSUME ~crossed', NEW s \in Series
        PROVE  /\ DOMAIN rows'[s] \subseteq Days /\ \A d \in DOMAIN rows'[s] : RowOK(rows'[s][d], d, B)
               /\ View(rows'[s]) = View(rows[s])
    <2> ~crossed /\ ~StashesOver(s)
      BY <1>1, <1>5
    <2>1. PICK t, u, W : t = rows[s] /\ u = rows'[s] /\ W = WritableOf(s)
      OBVIOUS
    <2>2. DOMAIN u = DOMAIN t \cup W /\ \A d \in DOMAIN u : u[d] = Flushed(s, d, W)
      BY <1>1, <2>1
    <2>3. SeriesPlanned(t, plan.ts[s], plan.of[s], plan.range) /\ plan.range \in Ranges
      BY <1>1, <1>5, <2>1 DEF Inv, PlanInv, ShapeInv
    <2>4. W \subseteq plan.of[s].points \ DOMAIN t /\ W \subseteq plan.range.lo..plan.range.hi
      BY <2>1, <2>3, WritableDays DEF SeriesPlanned
    <2>5. W \subseteq Days /\ DOMAIN t \subseteq Days
      BY <1>5, <2>1, <2>3, <2>4 DEF Ranges, Days, Inv, RowsInv
    <2>6. ASSUME NEW d \in W PROVE RowOK(u[d], d, B) /\ u[d].mark # None
      <3>1. PICK p : p = plan.of[s]
        OBVIOUS
      <3>2. u[d] = Inserted(p, d)
        BY <2>2, <2>6, <3>1 DEF Flushed
      <3>3. p.rows[d].flagged \subseteq Legs /\ Covered(d, B)
        BY <1>3, <2>3, <2>4, <2>6, <3>1 DEF SeriesPlanned, Covered, DaysOf
      <3>4. RowOK(Inserted(p, d), d, B) /\ Inserted(p, d).mark # None
        BY <3>3, InsertedRow
      <3>5. QED
        BY <3>2, <3>4
    <2>7. ASSUME NEW d \in DOMAIN t
          PROVE  RowOK(u[d], d, B) /\ Untooled(u[d]) = Untooled(t[d]) /\ u[d].mark = t[d].mark
      BY <1>1, <1>3, <1>5, <2>1, <2>2, FlushedRow
    <2>8. Plain(u) = Plain(t)
      BY <2>2, <2>4, <2>6, <2>7 DEF Plain
    <2>9. View(u) = View(t)
      BY <2>7, <2>8, SameView DEF Plain
    <2>10. QED
      BY <2>1, <2>2, <2>5, <2>6, <2>7, <2>9
  <1>6. ~crossed' => RowsInv'
    BY <1>2, <1>5 DEF RowsInv
  <1>7. ~crossed' => BaseInv'
    BY <1>1, <1>5 DEF Inv, BaseInv
  <1>8. PlanInv'
    BY <1>1 DEF PlanInv
  <1>9. ~crossed' => UndoInv'
    BY <1>1 DEF Inv, UndoInv
  <1>10. QED
    BY <1>1, <1>4, <1>6, <1>7, <1>8, <1>9 DEF Inv

\* restore_stashes.
LEMMA RestoreKeeps ==
  ASSUME Inv, NEW range \in Ranges, RestoreStashes(range)
  PROVE  Inv'
  <1>2. /\ plan = None /\ plan' = plan /\ undoing' = range
        /\ rows' = [s \in Series |-> [d \in DOMAIN rows[s] |-> Unstash(rows[s][d], range)]]
        /\ UNCHANGED <<bought, applied, base, crossed>>
    BY DEF RestoreStashes, world, RowsOf
  <1>3. ShapeInv'
    <2>2. rows' = [s \in Series |-> [d \in DOMAIN rows'[s] |-> rows'[s][d]]]
      BY <1>2
    <2>3. QED
      BY <1>2, <2>2 DEF Inv, ShapeInv
  <1>4. ASSUME ~crossed, NEW s \in Series
        PROVE  /\ DOMAIN rows'[s] \subseteq Days
               /\ \A d \in DOMAIN rows'[s] : RowOK(rows'[s][d], d, applied) /\ Unhanded(rows'[s][d], range)
               /\ View(rows'[s]) = View(rows[s])
    <2>1. PICK t, u : t = rows[s] /\ u = rows'[s]
      OBVIOUS
    <2>2. DOMAIN u = DOMAIN t /\ \A d \in DOMAIN t : u[d] = Unstash(t[d], range)
      BY <1>2, <2>1
    <2>3. DOMAIN t \subseteq Days /\ \A d \in DOMAIN t : RowOK(t[d], d, applied)
      BY <1>4, <2>1 DEF Inv, RowsInv
    <2>4. ASSUME NEW d \in DOMAIN t
          PROVE  RowOK(u[d], d, applied) /\ Untooled(u[d]) = Untooled(t[d]) /\ u[d].mark = t[d].mark
                 /\ Unhanded(u[d], range)
      BY <2>2, <2>3, UnstashedRow
    <2>5. Plain(u) = Plain(t)
      BY <2>2, <2>4 DEF Plain
    <2>6. View(u) = View(t)
      BY <2>4, <2>5, SameView DEF Plain
    <2>7. QED
      BY <2>1, <2>2, <2>3, <2>4, <2>6
  <1>5. ~crossed => RowsInv'
    BY <1>2, <1>4 DEF RowsInv
  <1>6. ~crossed => BaseInv'
    BY <1>2, <1>4 DEF Inv, BaseInv
  <1>7. PlanInv'
    BY <1>2 DEF PlanInv
  <1>8. ~crossed => UndoInv'
    BY <1>2, <1>4 DEF UndoInv
  <1>9. QED
    BY <1>2, <1>3, <1>5, <1>6, <1>7, <1>8 DEF Inv

\* A stash that survives the first transaction of an undo names days the second leaves,
\* and so does a mark that survives the second.
LEMMA LeftBehind ==
  ASSUME NEW range \in Ranges, \A q \in applied : q = [number |-> q.number, days |-> q.days],
         NEW B, B = {q \in Remaining(range) : q.days # {}}
  PROVE  /\ \A gap : Traced(gap, applied) /\ ~Overlap(gap, range) => Traced(gap, B)
         /\ \A d \in Days : Covered(d, applied) /\ d \notin DaysOf(range) => Covered(d, B)
  <1>1. ASSUME NEW q \in applied, q.days \ DaysOf(range) # {}
        PROVE  \E p \in B : p.days = q.days \ DaysOf(range)
    <2>1. PICK p, D : p = [q EXCEPT !.days = @ \ DaysOf(range)] /\ D = q.days \ DaysOf(range)
      OBVIOUS
    <2>2. q = [number |-> q.number, days |-> q.days]
      OBVIOUS
    <2>3. p.days = D
      BY <2>1, <2>2
    <2>4. p \in Remaining(range)
      BY <2>1 DEF Remaining
    <2>5. QED
      BY <1>1, <2>1, <2>3, <2>4
  <1>2. ASSUME NEW gap, Traced(gap, applied), ~Overlap(gap, range)
        PROVE  Traced(gap, B)
    <2>1. PICK q \in applied : /\ gap.lo \in Int /\ gap.hi \in Int /\ gap.lo <= gap.hi
                              /\ gap.lo..gap.hi \subseteq q.days
      BY <1>2 DEF Traced
    <2>2. range.lo \in Int /\ range.hi \in Int
      BY DEF Ranges
    <2>3. gap.lo..gap.hi \subseteq q.days \ DaysOf(range) /\ gap.lo \in gap.lo..gap.hi
      BY <1>2, <2>1, <2>2 DEF Overlap, DaysOf
    <2>4. PICK p \in B : p.days = q.days \ DaysOf(range)
      BY <1>1, <2>3
    <2>5. QED
      BY <2>1, <2>3, <2>4 DEF Traced
  <1>3. ASSUME NEW d \in Days, Covered(d, applied), d \notin DaysOf(range)
        PROVE  Covered(d, B)
    <2>1. PICK q \in applied : d \in q.days
      BY <1>3 DEF Covered
    <2>2. PICK p \in B : p.days = q.days \ DaysOf(range)
      BY <1>1, <1>3, <2>1
    <2>3. QED
      BY <1>3, <2>1, <2>2 DEF Covered
  <1>4. QED
    BY <1>2, <1>3

\* undo, the second transaction.
LEMMA DeleteKeeps ==
  ASSUME Inv, DeleteMarked
  PROVE  Inv'
  <1>1. PICK range, B : range = undoing /\ B = {q \in Remaining(range) : q.days # {}}
    OBVIOUS
  <1>2. /\ undoing # None /\ undoing' = None /\ plan' = plan /\ applied' = B
        /\ rows' = [s \in Series |-> [d \in DOMAIN rows[s] \ Marked(rows[s], range) |-> rows[s][d]]]
        /\ UNCHANGED <<bought, base, crossed>>
    BY <1>1 DEF DeleteMarked, world, RowsOf
  <1>3. /\ range \in Ranges
        /\ \A q \in applied : q = [number |-> q.number, days |-> q.days] /\ q.days \subseteq Days
    BY <1>1, <1>2 DEF Inv, ShapeInv
  <1>4. ShapeInv'
    <2>1. rows' = [s \in Series |-> [d \in DOMAIN rows'[s] |-> rows'[s][d]]]
      BY <1>2
    <2>2. \A q \in B : q = [number |-> q.number, days |-> q.days] /\ q.days \subseteq Days
      <3>1. SUFFICES ASSUME NEW q \in applied, NEW p, p = [q EXCEPT !.days = @ \ DaysOf(range)]
                     PROVE  p = [number |-> p.number, days |-> p.days] /\ p.days \subseteq Days
        BY <1>1 DEF Remaining
      <3>2. q = [number |-> q.number, days |-> q.days] /\ q.days \subseteq Days
        BY <1>3
      <3>3. p = [number |-> q.number, days |-> q.days \ DaysOf(range)]
        BY <3>1, <3>2
      <3>4. QED
        BY <3>2, <3>3
    <2>3. QED
      BY <1>2, <2>1, <2>2 DEF Inv, ShapeInv
  <1>5. ASSUME ~crossed, NEW s \in Series
        PROVE  /\ DOMAIN rows'[s] \subseteq Days /\ \A d \in DOMAIN rows'[s] : RowOK(rows'[s][d], d, B)
               /\ View(rows'[s]) = View(rows[s])
    <2>1. PICK t, u : t = rows[s] /\ u = rows'[s]
      OBVIOUS
    <2>2. DOMAIN u = DOMAIN t \ Marked(t, range) /\ \A d \in DOMAIN u : u[d] = t[d]
      BY <1>2, <2>1
    <2>3. DOMAIN t \subseteq Days /\ \A d \in DOMAIN t : RowOK(t[d], d, applied)
      BY <1>5, <2>1 DEF Inv, RowsInv
    <2>4. \A d \in DOMAIN t : Unhanded(t[d], range)
      BY <1>1, <1>2, <1>5, <2>1 DEF Inv, UndoInv
    <2>5. /\ \A gap : Traced(gap, applied) /\ ~Overlap(gap, range) => Traced(gap, B)
          /\ \A d \in Days : Covered(d, applied) /\ d \notin DaysOf(range) => Covered(d, B)
      BY <1>1, <1>3, LeftBehind
    <2>6. ASSUME NEW d \in DOMAIN u PROVE RowOK(u[d], d, B)
      <3>1. d \in DOMAIN t /\ d \in Days /\ u[d] = t[d] /\ RowOK(t[d], d, applied) /\ Unhanded(t[d], range)
        BY <2>2, <2>3, <2>4
      <3>2. t[d].mark # None => d \notin DaysOf(range)
        BY <2>2, <3>1 DEF Marked, RowsOf
      <3>3. /\ t[d].restate.kept => Traced(t[d].restate.gap, B)
            /\ t[d].rebase.kept => Traced(t[d].rebase.gap, B)
            /\ t[d].mark # None => Covered(d, B)
        BY <2>5, <3>1, <3>2 DEF RowOK, Unhanded
      <3>4. QED
        BY <3>1, <3>3 DEF RowOK
    <2>7. Plain(u) = Plain(t)
      BY <2>2 DEF Plain, Marked
    <2>8. \A d \in Plain(t) : u[d] = t[d]
      BY <2>2, <2>7 DEF Plain
    <2>9. View(u) = View(t)
      BY <2>7, <2>8, SameView
    <2>10. QED
      BY <2>1, <2>2, <2>3, <2>6, <2>9
  <1>6. ~crossed => RowsInv'
    BY <1>2, <1>5 DEF RowsInv
  <1>7. ~crossed => BaseInv'
    BY <1>2, <1>5 DEF Inv, BaseInv
  <1>8. ~crossed => PlanInv'
    BY <1>2 DEF Inv, PlanInv, UndoInv
  <1>9. UndoInv'
    BY <1>2 DEF UndoInv
  <1>10. QED
    BY <1>2, <1>4, <1>6, <1>7, <1>8, <1>9 DEF Inv

\* What the job writes on a row: the part of Rebuilt for a day of a lot.
JobWrite(r, v, f) == [r EXCEPT !.nav = v, !.flow = f, !.prov = FALSE]

\* A row the job rewrites, without a mark or stash, has the same view as the job's own.
LEMMA RewrittenRow ==
  ASSUME NEW r, NEW d, NEW A, NEW v, NEW f, RowOK(r, d, A),
         ~r.restate.kept, ~r.rebase.kept, r.mark = None,
         NEW u, u = JobWrite(r, v, f)
  PROVE  /\ RowOK(u, d, A) /\ Untooled(u) = u
         /\ u.mark = None /\ ~u.restate.kept /\ ~u.rebase.kept
  <1>1. u = [nav |-> v, legs |-> r.legs, flow |-> f, prov |-> FALSE,
             mark |-> r.mark, restate |-> r.restate, rebase |-> r.rebase]
    BY DEF RowOK, Columns, JobWrite
  <1>2. /\ u.nav = v /\ u.legs = r.legs /\ u.flow = f /\ u.prov = FALSE /\ u.mark = r.mark
        /\ u.restate = r.restate /\ u.rebase = r.rebase
    BY <1>1
  <1>3. Columns(u)
    BY <1>1, <1>2 DEF Columns
  <1>4. RowOK(u, d, A)
    BY <1>2, <1>3 DEF RowOK
  <1>5. QED
    BY <1>2, <1>4, CleanRow

\* A row no tool has written is clean.
LEMMA BlankRow ==
  ASSUME NEW s, NEW d, NEW A
  PROVE  RowOK(Blank(s, d), d, A) /\ Blank(s, d).mark = None
         /\ ~Blank(s, d).restate.kept /\ ~Blank(s, d).rebase.kept
  <1>1. PICK u, v : u = Blank(s, d) /\ v = Closing(s, d)
    OBVIOUS
  <1>2. u = [nav |-> v, legs |-> None, flow |-> 0, prov |-> FALSE,
             mark |-> None, restate |-> NoStash, rebase |-> NoStash]
    BY <1>1 DEF Blank
  <1>3. /\ u.nav = v /\ u.legs = None /\ u.flow = 0 /\ u.prov = FALSE /\ u.mark = None
        /\ u.restate = NoStash /\ u.rebase = NoStash
    BY <1>2
  <1>4. Columns(u)
    BY <1>2, <1>3 DEF Columns
  <1>5. NoStash.kept = FALSE
    BY DEF NoStash
  <1>6. QED
    BY <1>1, <1>3, <1>4, <1>5 DEF RowOK

\* The nightly rewrite of a series, where it meets no mark and no stash: the row it
\* writes is the one it writes on the view.
LEMMA RebuiltRow ==
  ASSUME NEW t, NEW d, NEW A, d \in DOMAIN t => RowOK(t[d], d, A),
         d \in DOMAIN t /\ d \in TradeDays =>
           t[d].mark = None /\ ~t[d].restate.kept /\ ~t[d].rebase.kept,
         d \in DOMAIN t \cup TradeDays
  PROVE  /\ RowOK(Rebuilt(t)[d], d, A)
         /\ d \in TradeDays => /\ Rebuilt(t)[d].mark = None /\ ~Rebuilt(t)[d].restate.kept
                               /\ ~Rebuilt(t)[d].rebase.kept
                               /\ Untooled(Rebuilt(t)[d]) = Rebuilt(View(t))[d]
         /\ d \notin TradeDays => Rebuilt(t)[d] = t[d]
  <1>1. PICK v, f : v = Closing(Portfolio, d) /\ f = Bought(Portfolio, d - 1, d)
    OBVIOUS
  <1>2. CASE d \notin TradeDays
    BY <1>2 DEF Rebuilt, RowsOf, JobWrite
  <1>3. CASE d \in TradeDays
    <2>1. PICK r : r = IF d \in DOMAIN t THEN t[d] ELSE Blank(Portfolio, d)
      OBVIOUS
    <2>2. Rebuilt(t)[d] = JobWrite(r, v, f)
      BY <1>1, <1>3, <2>1 DEF Rebuilt, RowsOf, JobWrite
    <2>3. RowOK(r, d, A) /\ ~r.restate.kept /\ ~r.rebase.kept /\ r.mark = None
      BY <1>3, <2>1, BlankRow
    <2>4. PICK u : u = JobWrite(r, v, f)
      OBVIOUS
    <2>5. /\ RowOK(u, d, A) /\ Untooled(u) = u /\ u.mark = None /\ ~u.restate.kept /\ ~u.rebase.kept
      BY <2>3, <2>4, RewrittenRow
    <2>6. Rebuilt(View(t))[d] = JobWrite(r, v, f)
      <3>1. CASE d \in DOMAIN t
        <4>1. d \in Plain(t) /\ Untooled(t[d]) = t[d]
          BY <1>3, <3>1, CleanRow DEF Plain
        <4>2. d \in DOMAIN View(t) /\ View(t)[d] = t[d]
          BY <4>1 DEF View
        <4>3. PICK w : w = View(t)
          OBVIOUS
        <4>4. QED
          BY <1>1, <1>3, <2>1, <3>1, <4>2, <4>3 DEF Rebuilt, RowsOf, JobWrite
      <3>2. CASE d \notin DOMAIN t
        <4>1. PICK w : w = View(t)
          OBVIOUS
        <4>2. d \notin DOMAIN w
          BY <3>2, <4>1 DEF View, Plain
        <4>3. QED
          BY <1>1, <1>3, <2>1, <3>2, <4>1, <4>2 DEF Rebuilt, RowsOf, JobWrite
      <3>3. QED
        BY <3>1, <3>2
    <2>7. QED
      BY <1>3, <2>2, <2>4, <2>5, <2>6
  <1>4. QED
    BY <1>2, <1>3

\* A nightly rewrite of the portfolio that touches nothing the tool has planned from,
\* marked or stashed: what it does to the rows it does to their view.
LEMMA RebuildKeeps ==
  ASSUME Inv, Rebuild
  PROVE  Inv'
  <1>1. PICK t, u : t = rows[Portfolio] /\ u = Rebuilt(t)
    OBVIOUS
  <1>2. /\ rows' = [rows EXCEPT ![Portfolio] = u] /\ base' = [base EXCEPT ![Portfolio] = Rebuilt(base[Portfolio])]
        /\ crossed' = (crossed \/ \E d \in TradeDays : Rewrites(d))
        /\ UNCHANGED <<bought, plan, undoing, applied>>
    BY <1>1 DEF Rebuild, world
  <1>3. Portfolio \in Series
    BY DEF Series
  <1>4. DOMAIN u = DOMAIN t \cup TradeDays
    BY <1>1 DEF Rebuilt, RowsOf
  <1>5. rows'[Portfolio] = u /\ \A s \in Series : s # Portfolio => rows'[s] = rows[s] /\ base'[s] = base[s]
    BY <1>2, <1>3 DEF Inv, ShapeInv
  <1>6. ShapeInv'
    <2>1. rows' = [s \in Series |-> rows'[s]] /\ base' = [s \in Series |-> base'[s]]
      BY <1>2 DEF Inv, ShapeInv
    <2>2. u = [d \in DOMAIN u |-> u[d]]
      BY <1>1 DEF Rebuilt
    <2>3. \A s \in Series : rows'[s] = [d \in DOMAIN rows'[s] |-> rows'[s][d]]
      <3>1. \A s \in Series : rows[s] = [d \in DOMAIN rows[s] |-> rows[s][d]]
        BY DEF Inv, ShapeInv
      <3>2. SUFFICES ASSUME NEW s \in Series PROVE rows'[s] = [d \in DOMAIN rows'[s] |-> rows'[s][d]]
        OBVIOUS
      <3>3. PICK x : x = rows'[s]
        OBVIOUS
      <3>4. x = [d \in DOMAIN x |-> x[d]]
        BY <1>5, <2>2, <3>1, <3>3
      <3>5. QED
        BY <3>3, <3>4
    <2>4. rows' = [s \in Series |-> [d \in DOMAIN rows'[s] |-> rows'[s][d]]]
      BY <2>1, <2>3
    <2>5. QED
      BY <1>2, <2>1, <2>4 DEF Inv, ShapeInv
  <1>7. TradeDays \subseteq Days
    BY DEF Inv, ShapeInv, TradeDays
  <1>8. SUFFICES ASSUME ~crossed' PROVE RowsInv' /\ BaseInv' /\ PlanInv' /\ UndoInv'
    BY <1>6 DEF Inv
  <1>9. ~crossed /\ \A d \in TradeDays : ~Rewrites(d)
    BY <1>2, <1>8 DEF Inv, ShapeInv
  <1>10. RowsInv /\ BaseInv /\ PlanInv /\ UndoInv /\ ShapeInv
    BY <1>9 DEF Inv
  <1>11. \A d \in DOMAIN t \cap TradeDays : t[d].mark = None /\ ~t[d].restate.kept /\ ~t[d].rebase.kept
    BY <1>1, <1>9 DEF Rewrites, RowsOf
  <1>12. \A d \in DOMAIN t : d \in Days /\ RowOK(t[d], d, applied)
    BY <1>1, <1>3, <1>10 DEF RowsInv
  <1>13. ASSUME NEW d \in DOMAIN u
         PROVE  /\ RowOK(u[d], d, applied)
                /\ d \in TradeDays => /\ u[d].mark = None /\ ~u[d].restate.kept /\ ~u[d].rebase.kept
                                      /\ Untooled(u[d]) = Rebuilt(View(t))[d]
                /\ d \notin TradeDays => u[d] = t[d]
    <2>1. d \in DOMAIN t => RowOK(t[d], d, applied)
      BY <1>12
    <2>2. d \in DOMAIN t /\ d \in TradeDays =>
            t[d].mark = None /\ ~t[d].restate.kept /\ ~t[d].rebase.kept
      BY <1>11
    <2>3. d \in DOMAIN t \cup TradeDays
      BY <1>4
    <2>4. QED
      BY <1>1, <2>1, <2>2, <2>3, RebuiltRow
  <1>14. RowsInv'
    <2>1. \A s \in Series : /\ DOMAIN rows'[s] \subseteq Days
                            /\ \A d \in DOMAIN rows'[s] : RowOK(rows'[s][d], d, applied)
      BY <1>4, <1>5, <1>7, <1>10, <1>12, <1>13 DEF RowsInv
    <2>2. QED
      BY <1>2, <2>1 DEF RowsInv
  <1>15. View(u) = Rebuilt(View(t))
    <2>1. PICK v, w : v = View(t) /\ w = Rebuilt(v)
      OBVIOUS
    <2>2. DOMAIN v = Plain(t) /\ \A d \in Plain(t) : v[d] = Untooled(t[d])
      BY <2>1 DEF View
    <2>3. w = [d \in Plain(t) \cup TradeDays |-> w[d]]
      BY <2>1, <2>2 DEF Rebuilt, RowsOf
    <2>4. Plain(u) = Plain(t) \cup TradeDays
      BY <1>4, <1>13 DEF Plain
    <2>5. ASSUME NEW d \in Plain(u) PROVE Untooled(u[d]) = w[d]
      <3>1. CASE d \in TradeDays
        BY <1>13, <2>1, <2>5, <3>1 DEF Plain
      <3>2. CASE d \notin TradeDays
        <4>1. d \in Plain(t) /\ u[d] = t[d]
          BY <1>13, <2>4, <2>5, <3>2 DEF Plain
        <4>2. w[d] = v[d]
          BY <2>1, <2>2, <3>2, <4>1 DEF Rebuilt, RowsOf
        <4>3. QED
          BY <2>2, <4>1, <4>2
      <3>3. QED
        BY <3>1, <3>2
    <2>6. View(u) = [d \in Plain(u) |-> w[d]]
      <3> HIDE DEF Untooled, Plain
      <3>1. QED
        BY <2>5 DEF View
    <2>7. QED
      BY <2>1, <2>3, <2>4, <2>6
  <1>16. BaseInv'
    <2>1. base'[Portfolio] = Rebuilt(View(t))
      BY <1>1, <1>2, <1>3, <1>10 DEF BaseInv, ShapeInv
    <2>2. \A s \in Series : base'[s] = View(rows'[s])
      BY <1>5, <1>10, <1>15, <2>1 DEF BaseInv
    <2>3. QED
      BY <2>2 DEF BaseInv
  <1>17. PlanInv'
    <2>1. SUFFICES ASSUME plan # None, NEW s \in Series
                   PROVE  SeriesPlanned(rows'[s], plan.ts[s], plan.of[s], plan.range)
      BY <1>2 DEF PlanInv
    <2>2. SeriesPlanned(rows[s], plan.ts[s], plan.of[s], plan.range)
      BY <1>10, <2>1 DEF PlanInv
    <2>3. CASE s # Portfolio
      BY <1>5, <2>2, <2>3
    <2>4. CASE s = Portfolio
      <3>1. PICK x, p, range : x = plan.ts[s] /\ p = plan.of[s] /\ range = plan.range
        OBVIOUS
      <3>2. SeriesPlanned(t, x, p, range)
        BY <1>1, <2>2, <2>4, <3>1
      <3>3. \A d \in TradeDays : /\ d \in DOMAIN x => x[d] = t[d]
                                 /\ p.points # {} /\ p.rebase # None => p.b # d
        BY <1>1, <1>9, <2>1, <2>4, <3>1 DEF Rewrites, RowsOf
      <3>4. ASSUME NEW d \in DOMAIN x PROVE Anchored(u[d], x[d], range)
        <4>1. d \in DOMAIN t /\ d \in DOMAIN u /\ Anchored(t[d], x[d], range)
          BY <1>4, <3>2, <3>4 DEF SeriesPlanned
        <4>2. CASE d \in TradeDays
          BY <1>11, <3>3, <4>1, <4>2 DEF Anchored
        <4>3. CASE d \notin TradeDays
          BY <1>13, <4>1, <4>3
        <4>4. QED
          BY <4>2, <4>3
      <3>5. p.points # {} /\ p.rebase # None =>
              p.b \in DOMAIN u \ p.points /\ u[p.b].flow = p.rebase.was
        BY <1>4, <1>13, <3>2, <3>3 DEF SeriesPlanned
      <3>6. SeriesPlanned(u, x, p, range)
        BY <1>4, <3>2, <3>4, <3>5 DEF SeriesPlanned
      <3>7. QED
        BY <1>5, <2>4, <3>1, <3>6
    <2>5. QED
      BY <2>3, <2>4
  <1>18. UndoInv'
    <2>1. SUFFICES ASSUME undoing # None
                   PROVE  /\ plan = None
                          /\ \A s \in Series : \A d \in DOMAIN rows'[s] : Unhanded(rows'[s][d], undoing)
      <3>1. QED
        BY <1>2, <2>1 DEF UndoInv
    <2>2. plan = None /\ \A s \in Series : \A d \in DOMAIN rows[s] : Unhanded(rows[s][d], undoing)
      BY <1>10, <2>1 DEF UndoInv
    <2>3. \A d \in DOMAIN u : Unhanded(u[d], undoing)
      <3>1. SUFFICES ASSUME NEW d \in DOMAIN u PROVE Unhanded(u[d], undoing)
        OBVIOUS
      <3>2. d \in TradeDays => Unhanded(u[d], undoing)
        BY <1>13 DEF Unhanded
      <3>3. d \notin TradeDays => Unhanded(u[d], undoing)
        BY <1>1, <1>3, <1>4, <1>13, <2>2
      <3>4. QED
        BY <3>2, <3>3
    <2>4. QED
      BY <1>5, <2>2, <2>3
  <1>19. QED
    BY <1>8, <1>14, <1>16, <1>17, <1>18

\* A row the live writer recorded carries no mark and no stash.
LEMMA RecordedRow ==
  ASSUME NEW s, NEW d, NEW days, NEW late, NEW A
  PROVE  LET r == LiveRow(s, d, days, late) IN
         RowOK(r, d, A) /\ Untooled(r) = r /\ r.mark = None
  <1>1. PICK u : u = LiveRow(s, d, days, late)
    OBVIOUS
  <1>2. PICK v, f : u = [nav |-> v, legs |-> v, flow |-> f, prov |-> v.at[Fund] # d,
                         mark |-> None, restate |-> NoStash, rebase |-> NoStash]
    BY <1>1 DEF LiveRow
  <1>3. /\ u.nav = v /\ u.legs = v /\ u.flow = f /\ u.prov = (v.at[Fund] # d) /\ u.mark = None
        /\ u.restate = NoStash /\ u.rebase = NoStash
    BY <1>2
  <1>4. Columns(u)
    BY <1>2, <1>3 DEF Columns
  <1>5. NoStash.kept = FALSE
    BY DEF NoStash
  <1>6. RowOK(u, d, A)
    BY <1>3, <1>4, <1>5 DEF RowOK
  <1>7. Untooled(u) = u
    BY <1>3, <1>5, <1>6, CleanRow
  <1>8. QED
    BY <1>1, <1>3, <1>6, <1>7

\* Initially no run has been applied and every row is a live one.
LEMMA InitInv == ASSUME Init PROVE Inv
  <1>1. PICK present \in Present, late \in {{}, {Last}} :
          rows = [s \in Series |-> [d \in present[s] |-> LiveRow(s, d, present[s], late)]]
    BY DEF Init
  <1>2. /\ plan = None /\ undoing = None /\ applied = {} /\ base = rows
        /\ crossed = FALSE /\ bought \in Histories
    BY DEF Init
  <1>3. ASSUME NEW s \in Series
        PROVE  /\ DOMAIN rows[s] \subseteq Days /\ \A d \in DOMAIN rows[s] : RowOK(rows[s][d], d, applied)
               /\ View(rows[s]) = rows[s] /\ rows[s] = [d \in DOMAIN rows[s] |-> rows[s][d]]
    <2>1. PICK t, days : t = rows[s] /\ days = present[s]
      OBVIOUS
    <2>2. t = [d \in days |-> LiveRow(s, d, days, late)] /\ days \subseteq Days
      BY <1>1, <2>1
    <2>3. \A d \in days : RowOK(t[d], d, applied) /\ Untooled(t[d]) = t[d] /\ t[d].mark = None
      BY <2>2, RecordedRow
    <2>4. Plain(t) = days
      BY <2>2, <2>3 DEF Plain
    <2>5. t = [d \in DOMAIN t |-> t[d]]
      BY <2>2
    <2>6. View(t) = t
      <3> HIDE DEF Untooled, Plain
      <3>1. DOMAIN t = days
        BY <2>2
      <3>2. QED
        BY <2>3, <2>4, <2>5, <3>1 DEF View
    <2>7. QED
      BY <2>1, <2>2, <2>3, <2>5, <2>6
  <1>4. ShapeInv
    <2>1. rows = [s \in Series |-> rows[s]]
      BY <1>1
    <2>2. rows = [s \in Series |-> [d \in DOMAIN rows[s] |-> rows[s][d]]]
      BY <1>3, <2>1
    <2>3. QED
      BY <1>2, <2>1, <2>2 DEF ShapeInv
  <1>5. RowsInv
    BY <1>3 DEF RowsInv
  <1>6. BaseInv
    BY <1>2, <1>3 DEF BaseInv
  <1>7. QED
    BY <1>2, <1>4, <1>5, <1>6 DEF Inv, PlanInv, UndoInv

\* Every step keeps the invariant.
LEMMA StepInv == ASSUME Inv, [Next]_vars PROVE Inv'
  <1>1. CASE UNCHANGED vars
    <2>1. UNCHANGED <<bought, rows, plan, undoing, applied, base, crossed>>
      BY <1>1 DEF vars
    <2>2. QED
      BY <2>1 DEF Inv, ShapeInv, RowsInv, BaseInv, PlanInv, UndoInv
  <1>2. ASSUME NEW o \in Settings, NEW range \in Ranges, PlanGap(o, range) PROVE Inv'
    BY <1>2, PlanKeeps
  <1>3. CASE DropPlan
    BY <1>3, DropKeeps
  <1>4. CASE ApplyPlan
    BY <1>4, ApplyKeeps
  <1>5. ASSUME NEW range \in Ranges, RestoreStashes(range) PROVE Inv'
    BY <1>5, RestoreKeeps
  <1>6. CASE DeleteMarked
    BY <1>6, DeleteKeeps
  <1>7. CASE Rebuild
    BY <1>7, RebuildKeeps
  <1>8. QED
    BY <1>1, <1>2, <1>3, <1>4, <1>5, <1>6, <1>7 DEF Next, Command, Undo

\* With every run undone no row carries a mark or a stash: each belongs to an applied run.
LEMMA NothingLeft ==
  ASSUME Inv, undoing = None, applied = {}, ~crossed
  PROVE  rows = base
  <1>1. RowsInv /\ BaseInv /\ ShapeInv
    BY DEF Inv
  <1>2. ASSUME NEW s \in Series PROVE View(rows[s]) = rows[s]
    <2>1. PICK t : t = rows[s]
      OBVIOUS
    <2>2. \A d \in DOMAIN t : RowOK(t[d], d, {})
      BY <1>1, <2>1 DEF RowsInv
    <2>3. \A d \in DOMAIN t : ~t[d].restate.kept /\ ~t[d].rebase.kept /\ t[d].mark = None
      BY <2>2 DEF RowOK, Traced, Covered
    <2>4. \A d \in DOMAIN t : Untooled(t[d]) = t[d]
      BY <2>2, <2>3, CleanRow
    <2>5. Plain(t) = DOMAIN t
      BY <2>3 DEF Plain
    <2>6. t = [d \in DOMAIN t |-> t[d]]
      BY <1>1, <2>1 DEF ShapeInv
    <2>7. View(t) = t
      <3> HIDE DEF Untooled, Plain
      <3>1. QED
        BY <2>4, <2>5, <2>6 DEF View
    <2>8. QED
      BY <2>1, <2>7
  <1>3. \A s \in Series : base[s] = rows[s]
    BY <1>1, <1>2 DEF BaseInv
  <1>4. QED
    BY <1>1, <1>3 DEF ShapeInv

\* snapshot_gap.py: "undo deletes exactly what this wrote", and puts back every flow and
\* anchor.  While the nightly job rewrites no row the tool marked, stashed or is about to,
\* and no run stashes over an earlier one's flow, the series are those the job alone would
\* have left once the days of every run are undone, in whatever pieces.
THEOREM UndoRestores == Spec => []UndoLeavesNoTrace
  <1>1. Init => Inv
    BY InitInv
  <1>2. Inv /\ [Next]_vars => Inv'
    BY StepInv
  <1>3. Inv => UndoLeavesNoTrace
    BY NothingLeft DEF UndoLeavesNoTrace
  <1>4. QED
    BY <1>1, <1>2, <1>3, PTL DEF Spec
----------------------------------------------------------------------------
\* A price that need not be flagged: the day's own close, the last one where no market
\* was open or the leg is foreign, or a price that is the same at both ends.
Good(m, k, at, d) ==
  IF Listed(m, k) THEN at = AsOf(m.closes[k], d) /\ (d \in m.sessions /\ k \notin m.foreign => at = d)
  ELSE at = d \/ m.moved[k] = 0
Honest(m, v, F, d) == \A k \in Held(v.qty) \ F : Good(m, k, v.at[k], d)

\* A value whose fund leg has missed no close but the day's own.
Caught(m, v, d) == \A x \in m.closes[Fund] : x < d => ~(v.at[Fund] < x)
Legged(v) == v = [qty |-> v.qty, at |-> v.at] /\ v.at = [k \in Legs |-> v.at[k]]

\* The stash of a restated row holds a value whose fund leg alone was late.
StashHonest(m, q, d) ==
  /\ Legged(q.legs) /\ q.nav = q.legs /\ Honest(m, q.legs, {Fund}, d) /\ Caught(m, q.legs, d)

\* Any row: what the tool inserted is flagged and final.
RowFlagged(m, r, d) ==
  /\ Columns(r) /\ r.prov \in BOOLEAN /\ r.restate.kept \in BOOLEAN
  /\ r.mark \in (SUBSET Legs) \cup {None}
  /\ r.mark # None => Honest(m, r.legs, r.mark, d) /\ ~r.prov /\ ~r.restate.kept
  /\ r.restate.kept => ~r.prov

\* An account's row, which the sum of the accounts reads with the flags it carries.
AccountFlagged(m, r, d) ==
  /\ Legged(r.legs) /\ r.nav = r.legs /\ Honest(m, r.legs, FlagsOf(r), d)
  /\ r.prov => Caught(m, r.legs, d)
  /\ r.restate.kept => StashHonest(m, r.restate, d)

RowsFlagged == \A s \in Series : \A d \in DOMAIN rows[s] :
  /\ d \in Days /\ RowFlagged(market, rows[s][d], d)
  /\ s \in Accounts => AccountFlagged(market, rows[s][d], d)

\* The days a series' plan inserts: every guess is flagged.
Proposed(m, p) == \A d \in p.points :
  /\ d \in Days /\ Legged(p.rows[d].value) /\ Honest(m, p.rows[d].value, p.rows[d].flagged, d)

\* What a pending plan will write.
PlanFlagged == plan # None =>
  /\ undoing = None
  /\ \A s \in Series :
       /\ DOMAIN plan.ts[s] \subseteq DOMAIN rows[s]
       /\ \A d \in DOMAIN plan.ts[s] :
            /\ plan.ts[s][d].mark = rows[s][d].mark
            /\ RowFlagged(market, plan.ts[s][d], d)
            /\ s \in Accounts => AccountFlagged(market, plan.ts[s][d], d)
       /\ Proposed(market, plan.of[s])
       /\ \A d \in plan.of[s].points : plan.of[s].rows[d].flagged \subseteq Legs

FlagInv == market \in Markets /\ RowsFlagged /\ PlanFlagged
----------------------------------------------------------------------------
\* The markets of an instance have days for closes.
LEMMA Closes ==
  ASSUME NEW m \in Markets, NEW k \in Legs
  PROVE  m.closes[k] \in SUBSET Days /\ Days \in SUBSET Nat
  <1>1. m \in Market(Days)
    OBVIOUS
  <1>2. m.closes \in [Legs -> SUBSET Days]
    BY <1>1 DEF Market
  <1>3. QED
    BY <1>2 DEF Days

\* AsOf is the latest of a set of days up to a day.
LEMMA AsOfIsLatest ==
  ASSUME NEW S \in SUBSET Nat, NEW e \in Nat
  PROVE  /\ AsOf(S, e) \in Nat /\ AsOf(S, e) <= e
         /\ \A x \in S : x <= e => x <= AsOf(S, e)
         /\ e \in S => AsOf(S, e) = e
  <1> DEFINE past == {x \in S : x <= e}
  <1>1. AsOf(S, e) = IF past = {} THEN 0 ELSE Max(past)
    BY DEF AsOf
  <1>2. past # {} => Max(past) \in past /\ \A x \in past : x <= Max(past)
    <2>1. past \in SUBSET Nat /\ \A x \in past : x <= e
      OBVIOUS
    <2> HIDE DEF past
    <2>2. QED
      BY <2>1, HighestDay
  <1>3. CASE past = {}
    BY <1>1, <1>3
  <1>4. CASE past # {}
    <2>1. PICK n : n = AsOf(S, e)
      OBVIOUS
    <2>2. n \in past /\ \A x \in past : x <= n
      BY <1>1, <1>2, <1>4, <2>1
    <2>3. n \in Nat /\ n <= e
      BY <2>2
    <2>4. \A x \in S : x <= e => x <= n
      BY <2>2
    <2>5. e \in S => n = e
      BY <2>3, <2>4
    <2>6. QED
      BY <2>1, <2>3, <2>4, <2>5
  <1>5. QED
    BY <1>3, <1>4

\* The one close a late fund leg can be struck at is that of its own day.
LEMMA StruckAtItsDay ==
  ASSUME market \in Markets, NEW r, NEW d \in Days, Caught(market, r.legs, d), Struck(r, d) # {}
  PROVE  Max(Struck(r, d)) = d /\ d \in market.closes[Fund]
  <1>1. market.closes[Fund] \in SUBSET Nat /\ d \in Nat
    BY Closes
  <1>2. \A x \in Struck(r, d) : x \in market.closes[Fund] /\ x <= d /\ ~(x < d)
    BY DEF Struck, Caught
  <1>3. \A x \in Struck(r, d) : x = d
    BY <1>1, <1>2
  <1>4. Struck(r, d) \in SUBSET Nat /\ \A x \in Struck(r, d) : x <= d
    BY <1>1, <1>2
  <1>5. Max(Struck(r, d)) \in Struck(r, d)
    BY <1>1, <1>4, HighestDay
  <1>6. QED
    BY <1>2, <1>3, <1>5

WithFund(v, d) == [v EXCEPT !.at[Fund] = d]

\* A value with its fund leg at the day's own close needs no flag for it.
LEMMA FundCaughtUp ==
  ASSUME market \in Markets, NEW v, NEW d \in Days, d \in market.closes[Fund],
         Legged(v), Honest(market, v, {Fund}, d), NEW w, w = WithFund(v, d)
  PROVE  Legged(w) /\ Honest(market, w, {}, d)
  <1>1. PICK q, a : q = v.qty /\ a = v.at
    OBVIOUS
  <1>2. v = [qty |-> q, at |-> a] /\ a = [k \in Legs |-> a[k]]
    BY <1>1 DEF Legged
  <1>3. w = [qty |-> q, at |-> [a EXCEPT ![Fund] = d]]
    BY <1>2 DEF WithFund
  <1>4. PICK b : b = [a EXCEPT ![Fund] = d] /\ w = [qty |-> q, at |-> b]
    BY <1>3
  <1>5. b = [k \in Legs |-> IF k = Fund THEN d ELSE a[k]]
    BY <1>2, <1>4
  <1>6. w.qty = q /\ w.at = b /\ w = [qty |-> q, at |-> b]
    BY <1>4
  <1>7. Legged(w)
    BY <1>5, <1>6 DEF Legged
  <1>8. market.closes[Fund] \in SUBSET Nat /\ d \in Nat
    BY Closes
  <1>9. AsOf(market.closes[Fund], d) = d
    BY <1>8, AsOfIsLatest
  <1>10. Good(market, Fund, d, d)
    BY <1>9 DEF Good
  <1>11. ASSUME NEW k \in Held(q) PROVE Good(market, k, b[k], d)
    <2>1. k \in Legs
      BY DEF Held
    <2>2. CASE k = Fund
      BY <1>5, <1>10, <2>1, <2>2
    <2>3. CASE k # Fund
      BY <1>1, <1>5, <2>1, <2>3 DEF Honest
    <2>4. QED
      BY <2>2, <2>3
  <1>12. QED
    BY <1>6, <1>7, <1>11 DEF Honest

\* _restate_anchor keeps a row flagged: the fund leg it was marked late for is on time.
LEMMA RestatedFlagged ==
  ASSUME market \in Markets, NEW r, NEW d \in Days, NEW gap, RowFlagged(market, r, d),
         NEW q, q = Restated(r, d, gap)
  PROVE  /\ q.mark = r.mark /\ RowFlagged(market, q, d)
         /\ AccountFlagged(market, r, d) => AccountFlagged(market, q, d)
  <1>1. CASE ~r.prov \/ r.legs = None \/ Struck(r, d) = {}
    BY <1>1 DEF Restated
  <1>2. CASE ~(~r.prov \/ r.legs = None \/ Struck(r, d) = {})
    <2>1. PICK w : w = [r.legs EXCEPT !.at[Fund] = Max(Struck(r, d))]
      OBVIOUS
    <2>2. q = [r EXCEPT !.nav = w, !.legs = w, !.prov = FALSE,
                        !.restate = [kept |-> TRUE, gap |-> gap, nav |-> r.nav, legs |-> r.legs]]
      BY <1>2, <2>1 DEF Restated
    <2>3. Columns(r) /\ r.mark = None
      BY <1>2 DEF RowFlagged
    <2>4. PICK stash : stash = [kept |-> TRUE, gap |-> gap, nav |-> r.nav, legs |-> r.legs]
      OBVIOUS
    <2>5. q = [nav |-> w, legs |-> w, flow |-> r.flow, prov |-> FALSE, mark |-> None,
               restate |-> stash, rebase |-> r.rebase]
      BY <2>2, <2>3, <2>4 DEF Columns
    <2>6. /\ q.nav = w /\ q.legs = w /\ q.prov = FALSE /\ q.mark = None
          /\ q.restate = stash /\ q.rebase = r.rebase /\ q.flow = r.flow
      BY <2>5
    <2>7. Columns(q)
      BY <2>5, <2>6 DEF Columns
    <2>8. stash.kept = TRUE /\ stash.nav = r.nav /\ stash.legs = r.legs
      BY <2>4
    <2>9. RowFlagged(market, q, d)
      BY <2>3, <2>6, <2>7, <2>8 DEF RowFlagged
    <2>10. ASSUME AccountFlagged(market, r, d) PROVE AccountFlagged(market, q, d)
      <3>1. Legged(r.legs) /\ r.nav = r.legs /\ Caught(market, r.legs, d)
        BY <1>2, <2>10 DEF AccountFlagged
      <3>2. FlagsOf(r) = {Fund}
        BY <1>2, <2>3 DEF FlagsOf
      <3>3. Honest(market, r.legs, {Fund}, d)
        BY <2>10, <3>2 DEF AccountFlagged
      <3>4. Max(Struck(r, d)) = d /\ d \in market.closes[Fund]
        BY <1>2, <3>1, StruckAtItsDay
      <3>5. Legged(w) /\ Honest(market, w, {}, d)
        <4>1. PICK v : v = r.legs
          OBVIOUS
        <4>2. w = WithFund(v, d)
          BY <2>1, <3>4, <4>1 DEF WithFund
        <4>3. QED
          BY <3>1, <3>3, <3>4, <4>1, <4>2, FundCaughtUp
      <3>6. FlagsOf(q) = {}
        BY <2>6 DEF FlagsOf
      <3>7. StashHonest(market, stash, d)
        BY <2>8, <3>1, <3>3 DEF StashHonest
      <3>8. QED
        BY <2>6, <3>5, <3>6, <3>7 DEF AccountFlagged
    <2>11. QED
      BY <2>3, <2>6, <2>9, <2>10
  <1>3. QED
    BY <1>1, <1>2
----------------------------------------------------------------------------
\* What _Valuer prices between the ends is the day's own close, a price that stood, an
\* estimate it names, or a cause to leave the series.
LEMMA PricedOrNamed ==
  ASSUME NEW o, NEW k \in Legs, NEW d, NEW interp, NEW both, NEW a, NEW p,
         p = Price(market, o, k, d, FALSE, interp, both, a), p.cause = 0, p.how = "none"
  PROVE  Good(market, k, p.at, d)
  <1> DEFINE found == IF Uses(market, o, k) THEN OperatorPrice(market, k, d, FALSE, interp, a)
                      ELSE IF Listed(market, k) THEN ListedPrice(market, o, k, d, FALSE)
                      ELSE BrokerPrice(market, o, k, d, FALSE, interp, both, a)
  <1>1. PICK b : b = found
    OBVIOUS
  <1>2. p = b \/ p = Unpriced(5)
    BY <1>1 DEF Price
  <1>3. Unpriced(2).cause # 0 /\ Unpriced(3).cause # 0 /\ Unpriced(4).cause # 0 /\ Unpriced(5).cause # 0
    BY DEF Unpriced
  <1>4. p = b
    BY <1>2, <1>3, Zenon
  <1>5. ASSUME NEW at, NEW how PROVE /\ Priced(at, how).at = at /\ Priced(at, how).how = how
    BY DEF Priced
  <1>6. CASE Uses(market, o, k)
    <2>1. b.how = "operator-price" \/ b.how = "interpolated"
      BY <1>1, <1>5, <1>6 DEF OperatorPrice
    <2>2. QED
      BY <1>4, <2>1
  <1>7. CASE ~Uses(market, o, k) /\ Listed(market, k)
    <2>1. PICK bar : bar = AsOf(market.closes[k], d)
      OBVIOUS
    <2>2. b = ListedPrice(market, o, k, d, FALSE)
      BY <1>1, <1>7
    <2>3. b = Unpriced(3) \/ b = Unpriced(4) \/ b = Priced(bar, "carry")
          \/ (b = Priced(bar, "none") /\ ~(k \notin market.foreign /\ d \in market.sessions /\ bar # d))
      BY <2>1, <2>2 DEF ListedPrice
    <2>4. Priced(bar, "carry").how # "none"
      BY DEF Priced
    <2>5. b = Priced(bar, "none") /\ ~(k \notin market.foreign /\ d \in market.sessions /\ bar # d)
      BY <1>3, <1>4, <2>3, <2>4, Zenon
    <2>6. p.at = bar
      BY <1>4, <1>5, <2>5
    <2>7. QED
      BY <1>7, <2>1, <2>5, <2>6 DEF Good
  <1>8. CASE ~Uses(market, o, k) /\ ~Listed(market, k)
    <2>1. b = BrokerPrice(market, o, k, d, FALSE, interp, both, a)
      BY <1>1, <1>8
    <2>2. b = Unpriced(2) \/ market.moved[k] = 0 \/ b = Priced(0, "interpolated") \/ b = Priced(0, "proxy-bridge")
      BY <2>1 DEF BrokerPrice
    <2>3. Priced(0, "interpolated").how # "none" /\ Priced(0, "proxy-bridge").how # "none"
      BY DEF Priced
    <2>4. market.moved[k] = 0
      BY <1>3, <1>4, <2>2, <2>3, Zenon
    <2>5. QED
      BY <1>8, <2>4 DEF Good
  <1>9. QED
    BY <1>6, <1>7, <1>8

\* A planned day of a series flags every leg that is a guess.
LEMMA PlannedHonest ==
  ASSUME NEW s, NEW t, NEW missing, NEW gap, NEW o, ~Refused(s, t, missing, gap, o),
         NEW d \in missing, NEW r, r = PlannedRow(s, t, missing, gap, o, d)
  PROVE  Legged(r.value) /\ Honest(market, r.value, r.flagged, d)
  <1>1. PICK q, w : q = QtyOn(s, t, gap, d) /\ w = PricesOn(t, missing, gap, o, d)
    OBVIOUS
  <1>2. PICK at : at = [k \in Legs |-> w[k].at]
    OBVIOUS
  <1>3. PICK S : S = IF Unlike THEN Legs ELSE {k \in Held(q) : w[k].how # "none"}
    OBVIOUS
  <1>4. r = [value |-> [qty |-> q, at |-> at], flow |-> 0, flagged |-> S]
    BY <1>1, <1>2, <1>3 DEF PlannedRow
  <1>5. PICK v : v = [qty |-> q, at |-> at]
    OBVIOUS
  <1>6. r.value = v /\ r.flagged = S /\ v.qty = q /\ v.at = at
    BY <1>4, <1>5
  <1>7. Legged(v)
    BY <1>2, <1>5, <1>6 DEF Legged
  <1>8. \A k \in Held(q) : w[k].cause = 0
    BY <1>1 DEF Refused
  <1>9. PICK interp, both : w = [k \in Legs |-> Price(market, o, k, d, FALSE, interp, both, gap.a)]
    BY <1>1 DEF PricesOn
  <1>10. ASSUME NEW k \in Held(q) \ S PROVE Good(market, k, at[k], d)
    <2>1. k \in Legs
      BY DEF Held
    <2>2. w[k].cause = 0 /\ w[k].how = "none"
      BY <1>3, <1>8, <2>1
    <2>3. PICK p : p = w[k]
      OBVIOUS
    <2>4. p = Price(market, o, k, d, FALSE, interp, both, gap.a)
      BY <1>9, <2>1, <2>3
    <2>5. Good(market, k, p.at, d)
      BY <2>1, <2>2, <2>3, <2>4, PricedOrNamed
    <2>6. QED
      BY <1>2, <2>1, <2>3, <2>5
  <1>11. QED
    BY <1>6, <1>7, <1>10 DEF Honest
----------------------------------------------------------------------------
\* Some set of subsets that is not empty has a smallest element.
LEMMA SmallestSubset ==
  ASSUME NEW S, IsFiniteSet(S), NEW W, W \subseteq SUBSET S, W # {}
  PROVE  \E T \in W : \A U \in W : U \subseteq T => U = T
  <1>1. IsWellFoundedOn(StrictSubsetOrdering(S), SUBSET S)
    BY FS_StrictSubsetOrderingWellFounded, FS_FiniteSubsetsOfFinite
  <1>2. PICK T \in W : \A U \in W : <<U, T>> \notin StrictSubsetOrdering(S)
    BY <1>1, WFMin
  <1>3. ASSUME NEW U \in W, U \subseteq T, U # T PROVE FALSE
    BY <1>2, <1>3 DEF StrictSubsetOrdering
  <1>4. QED
    BY <1>2, <1>3

\* A number is a column of so many pairs, and a sum the pairs of all its columns.
Column(f, x) == {x} \X (1..f[x])
Stack(f, S) == UNION {Column(f, x) : x \in S}

\* One column more is its number more.
LEMMA StackGrows ==
  ASSUME NEW f, NEW S, IsFiniteSet(S), \A x \in S : f[x] \in Nat
  PROVE  /\ IsFiniteSet(Stack(f, S)) /\ Cardinality(Stack(f, S)) \in Nat
         /\ S = {} => Cardinality(Stack(f, S)) = 0
         /\ \A x \in S : Cardinality(Stack(f, S)) = f[x] + Cardinality(Stack(f, S \ {x}))
  <1>1. ASSUME NEW x \in S PROVE IsFiniteSet(Column(f, x)) /\ Cardinality(Column(f, x)) = f[x]
    <2>1. f[x] \in Nat
      OBVIOUS
    <2>2. IsFiniteSet(1..f[x]) /\ Cardinality(1..f[x]) = f[x]
      BY <2>1, FS_Interval
    <2>3. IsFiniteSet({x}) /\ Cardinality({x}) = 1
      BY FS_Singleton
    <2>4. PICK A, B : A = {x} /\ B = 1..f[x]
      OBVIOUS
    <2>5. IsFiniteSet(A \X B) /\ Cardinality(A \X B) = 1 * f[x]
      BY <2>2, <2>3, <2>4, FS_Product
    <2>6. QED
      BY <2>1, <2>4, <2>5 DEF Column
  <1>2. ASSUME NEW T \in SUBSET S PROVE IsFiniteSet(Stack(f, T))
    <2>1. PICK F : F = [x \in T |-> Column(f, x)]
      OBVIOUS
    <2>2. PICK R : R = {Column(f, x) : x \in T}
      OBVIOUS
    <2>3. F \in Surjection(T, R)
      BY <2>1, <2>2 DEF Surjection
    <2>4. IsFiniteSet(T)
      BY FS_Subset
    <2>5. IsFiniteSet(R)
      BY <2>3, <2>4, FS_Surjection
    <2>6. \A C \in R : IsFiniteSet(C)
      BY <1>1, <2>2
    <2>7. QED
      BY <2>2, <2>5, <2>6, FS_UNION DEF Stack
  <1>3. ASSUME NEW x \in S
        PROVE  Cardinality(Stack(f, S)) = f[x] + Cardinality(Stack(f, S \ {x}))
    <2>1. PICK A, B : A = Column(f, x) /\ B = Stack(f, S \ {x})
      OBVIOUS
    <2>2. Stack(f, S) = A \cup B
      BY <2>1 DEF Stack
    <2>3. A \cap B = {}
      BY <2>1 DEF Stack, Column
    <2>4. IsFiniteSet(A) /\ IsFiniteSet(B) /\ Cardinality(A) = f[x]
      BY <1>1, <1>2, <2>1
    <2>5. Cardinality(A \cap B) = 0
      BY <2>3, FS_EmptySet
    <2>6. Cardinality(B) \in Nat /\ f[x] \in Nat
      BY <2>4, FS_CardinalityType
    <2>7. Cardinality(A \cup B) = Cardinality(A) + Cardinality(B) - Cardinality(A \cap B)
      BY <2>4, FS_Union
    <2>8. Cardinality(A \cup B) = f[x] + Cardinality(B)
      BY <2>4, <2>5, <2>6, <2>7
    <2>9. QED
      BY <2>1, <2>2, <2>8
  <1>4. Cardinality(Stack(f, S)) \in Nat
    BY <1>2, FS_CardinalityType
  <1>5. S = {} => Stack(f, S) = {}
    BY DEF Stack
  <1>6. QED
    BY <1>2, <1>3, <1>4, <1>5, FS_EmptySet

\* The library's sum is that of the stack: the smallest set on which its fold were not
\* would have an element to take away.
LEMMA SumIsStack ==
  ASSUME NEW f, NEW S, IsFiniteSet(S), \A x \in S : f[x] \in Nat
  PROVE  SumFunctionOnSet(f, S) = Cardinality(Stack(f, S))
  <1> DEFINE Folds(g) == g = [s \in SUBSET S |->
               IF s = {} THEN 0
               ELSE LET x == CHOOSE x \in s : TRUE IN f[x] + g[s \ {x}]]
             it == CHOOSE g : Folds(g)
             count == [s \in SUBSET S |-> Cardinality(Stack(f, s))]
  <1>1. SumFunctionOnSet(f, S) = it[S]
    BY Zenon DEF SumFunctionOnSet, FoldFunctionOnSet, MapThenFoldSet
  <1>2. ASSUME NEW s \in SUBSET S
        PROVE  /\ s = {} => Cardinality(Stack(f, s)) = 0
               /\ \A x \in s : Cardinality(Stack(f, s)) = f[x] + Cardinality(Stack(f, s \ {x}))
    <2>1. IsFiniteSet(s)
      BY FS_Subset
    <2>2. QED
      BY <2>1, StackGrows
  <1>3. Folds(count)
    <2>1. ASSUME NEW s \in SUBSET S
          PROVE  count[s] = IF s = {} THEN 0
                            ELSE LET x == CHOOSE x \in s : TRUE IN f[x] + count[s \ {x}]
      <3>1. CASE s = {}
        BY <1>2, <3>1
      <3>2. CASE s # {}
        <4>1. PICK x : x = CHOOSE y \in s : TRUE
          OBVIOUS
        <4>2. x \in s /\ s \ {x} \in SUBSET S
          BY <3>2, <4>1
        <4>3. count[s] = f[x] + count[s \ {x}]
          BY <1>2, <4>2
        <4>4. QED
          BY <3>2, <4>1, <4>3
      <3>3. QED
        BY <3>1, <3>2
    <2> HIDE DEF count
    <2>2. count = [s \in SUBSET S |-> count[s]]
      BY DEF count
    <2>3. QED
      BY <2>1, <2>2
  <1>4. Folds(it)
    <2> HIDE DEF Folds, count
    <2> QED
      BY <1>3
  <1> HIDE DEF it
  <1> DEFINE Wrong == {T \in SUBSET S : it[T] # Cardinality(Stack(f, T))}
  <1>5. ASSUME Wrong # {} PROVE FALSE
    <2>1. PICK T \in Wrong : \A U \in Wrong : U \subseteq T => U = T
      <3> HIDE DEF it, Folds
      <3>1. Wrong \subseteq SUBSET S
        OBVIOUS
      <3> HIDE DEF Wrong
      <3>2. QED
        BY <1>5, <3>1, SmallestSubset
    <2>2. T # {}
      BY <1>2, <1>4
    <2>3. PICK x : x = CHOOSE y \in T : TRUE
      OBVIOUS
    <2>4. x \in T /\ T \in SUBSET S /\ T \ {x} \in SUBSET S /\ T \ {x} # T
      BY <2>2, <2>3
    <2>5. it[T] = f[x] + it[T \ {x}]
      BY <1>4, <2>2, <2>3, <2>4
    <2>6. it[T \ {x}] = Cardinality(Stack(f, T \ {x}))
      BY <2>1, <2>4
    <2>7. QED
      BY <1>2, <2>4, <2>5, <2>6
  <1>6. S \in SUBSET S
    OBVIOUS
  <1>7. QED
    BY <1>1, <1>5, <1>6

\* So a sum is a number, 0 over nothing, and can be taken term by term in any order.
LEMMA SumSplit ==
  ASSUME NEW f, NEW S, IsFiniteSet(S), \A x \in S : f[x] \in Nat
  PROVE  /\ SumFunctionOnSet(f, S) \in Nat
         /\ S = {} => SumFunctionOnSet(f, S) = 0
         /\ \A x \in S : /\ SumFunctionOnSet(f, S \ {x}) \in Nat
                         /\ SumFunctionOnSet(f, S) = f[x] + SumFunctionOnSet(f, S \ {x})
  <1>1. SumFunctionOnSet(f, S) = Cardinality(Stack(f, S))
    BY SumIsStack
  <1>2. ASSUME NEW x \in S
        PROVE  /\ SumFunctionOnSet(f, S \ {x}) = Cardinality(Stack(f, S \ {x}))
               /\ Cardinality(Stack(f, S \ {x})) \in Nat
    <2>1. PICK T : T = S \ {x}
      OBVIOUS
    <2>2. IsFiniteSet(T) /\ \A y \in T : f[y] \in Nat
      BY <2>1, FS_Subset
    <2>3. SumFunctionOnSet(f, T) = Cardinality(Stack(f, T)) /\ Cardinality(Stack(f, T)) \in Nat
      BY <2>2, SumIsStack, StackGrows
    <2>4. QED
      BY <2>1, <2>3
  <1>3. QED
    BY <1>1, <1>2, StackGrows

\* Induction over the subsets of a finite set: P are those of which a claim holds.
LEMMA SubsetInduction ==
  ASSUME NEW S, IsFiniteSet(S), NEW P, {} \in P,
         \A T \in SUBSET S : \A x \in T : T \ {x} \in P => T \in P
  PROVE  S \in P
  <1> DEFINE Wrong == {T \in SUBSET S : T \notin P}
  <1>1. ASSUME Wrong # {} PROVE FALSE
    <2>1. PICK T \in Wrong : \A U \in Wrong : U \subseteq T => U = T
      <3>1. Wrong \subseteq SUBSET S
        OBVIOUS
      <3> HIDE DEF Wrong
      <3>2. QED
        BY <1>1, <3>1, SmallestSubset
    <2>2. PICK x : x \in T
      <3>1. T # {}
        BY <2>1
      <3>2. QED
        BY <3>1
    <2>3. T \ {x} \in SUBSET S /\ T \ {x} # T /\ T \ {x} \subseteq T
      BY <2>2
    <2>4. T \ {x} \in P
      BY <2>1, <2>3
    <2>5. QED
      BY <2>2, <2>4
  <1>2. QED
    BY <1>1

\* Sums of the same terms are the same.
LEMMA SumSame ==
  ASSUME NEW f, NEW g, NEW S, IsFiniteSet(S), \A x \in S : f[x] \in Nat /\ g[x] = f[x]
  PROVE  SumFunctionOnSet(f, S) = SumFunctionOnSet(g, S)
  <1> DEFINE P == {T \in SUBSET S : SumFunctionOnSet(f, T) = SumFunctionOnSet(g, T)}
  <1>1. ASSUME NEW T \in SUBSET S
        PROVE  /\ IsFiniteSet(T) /\ (\A x \in T : f[x] \in Nat) /\ (\A x \in T : g[x] \in Nat)
    BY FS_Subset
  <1>2. {} \in P
    BY <1>1, SumSplit
  <1>3. ASSUME NEW T \in SUBSET S, NEW x \in T, T \ {x} \in P PROVE T \in P
    <2>1. SumFunctionOnSet(f, T) = f[x] + SumFunctionOnSet(f, T \ {x})
      BY <1>1, SumSplit
    <2>2. SumFunctionOnSet(g, T) = g[x] + SumFunctionOnSet(g, T \ {x})
      BY <1>1, SumSplit
    <2>3. QED
      BY <1>3, <2>1, <2>2
  <1> HIDE DEF P
  <1>4. S \in P
    BY <1>2, <1>3, SubsetInduction
  <1>5. QED
    BY <1>4 DEF P

\* The sum of sums, term by term, is the sum of both.
LEMMA SumPlus ==
  ASSUME NEW f, NEW g, NEW h, NEW S, IsFiniteSet(S),
         \A x \in S : f[x] \in Nat /\ g[x] \in Nat /\ h[x] = f[x] + g[x]
  PROVE  SumFunctionOnSet(h, S) = SumFunctionOnSet(f, S) + SumFunctionOnSet(g, S)
  <1> DEFINE P == {T \in SUBSET S :
                     SumFunctionOnSet(h, T) = SumFunctionOnSet(f, T) + SumFunctionOnSet(g, T)}
  <1>1. ASSUME NEW T \in SUBSET S
        PROVE  /\ IsFiniteSet(T) /\ (\A x \in T : f[x] \in Nat) /\ (\A x \in T : g[x] \in Nat)
               /\ \A x \in T : h[x] \in Nat
    BY FS_Subset
  <1>2. {} \in P
    BY <1>1, SumSplit
  <1>3. ASSUME NEW T \in SUBSET S, NEW x \in T, T \ {x} \in P PROVE T \in P
    <2>1. PICK a, b, c : /\ a = SumFunctionOnSet(f, T \ {x}) /\ b = SumFunctionOnSet(g, T \ {x})
                         /\ c = SumFunctionOnSet(h, T \ {x})
      OBVIOUS
    <2>2. SumFunctionOnSet(f, T) = f[x] + a /\ a \in Nat
      BY <1>1, <2>1, SumSplit
    <2>3. SumFunctionOnSet(g, T) = g[x] + b /\ b \in Nat
      BY <1>1, <2>1, SumSplit
    <2>4. SumFunctionOnSet(h, T) = h[x] + c
      BY <1>1, <2>1, SumSplit
    <2>5. c = a + b /\ f[x] \in Nat /\ g[x] \in Nat /\ h[x] = f[x] + g[x]
      BY <1>3, <2>1
    <2>6. SumFunctionOnSet(h, T) = SumFunctionOnSet(f, T) + SumFunctionOnSet(g, T)
      BY <2>2, <2>3, <2>4, <2>5
    <2>7. QED
      BY <2>6
  <1> HIDE DEF P
  <1>4. S \in P
    BY <1>2, <1>3, SubsetInduction
  <1>5. QED
    BY <1>4 DEF P

\* A sum over two disjoint sets is that of their sums.
LEMMA SumUnion ==
  ASSUME NEW f, NEW S, NEW T, IsFiniteSet(S), IsFiniteSet(T), S \cap T = {},
         \A x \in S \cup T : f[x] \in Nat
  PROVE  SumFunctionOnSet(f, S \cup T) = SumFunctionOnSet(f, S) + SumFunctionOnSet(f, T)
  <1> DEFINE Sum(U) == SumFunctionOnSet(f, U)
             P == {U \in SUBSET S : Sum(U \cup T) = Sum(U) + Sum(T)}
  <1>1. ASSUME NEW U \in SUBSET S
        PROVE  /\ IsFiniteSet(U) /\ IsFiniteSet(U \cup T)
               /\ (\A x \in U : f[x] \in Nat) /\ (\A x \in U \cup T : f[x] \in Nat)
    BY FS_Subset, FS_Union
  <1>2. Sum(T) \in Nat
    BY SumSplit
  <1>3. {} \in P
    <2>1. Sum({}) = 0 /\ {} \cup T = T
      BY <1>1, SumSplit
    <2> HIDE DEF Sum
    <2>2. QED
      BY <1>2, <2>1
  <1>4. ASSUME NEW U \in SUBSET S, NEW x \in U, U \ {x} \in P PROVE U \in P
    <2>1. Sum(U) = f[x] + Sum(U \ {x}) /\ Sum(U \ {x}) \in Nat
      BY <1>1, SumSplit
    <2>2. Sum(U \cup T) = f[x] + Sum((U \cup T) \ {x})
      <3>1. PICK V : V = U \cup T
        OBVIOUS
      <3>2. IsFiniteSet(V) /\ x \in V /\ \A y \in V : f[y] \in Nat
        BY <1>1, <3>1
      <3>3. Sum(V) = f[x] + Sum(V \ {x})
        BY <3>2, SumSplit
      <3>4. QED
        BY <3>1, <3>3
    <2>3. (U \cup T) \ {x} = (U \ {x}) \cup T /\ f[x] \in Nat
      BY <1>4
    <2> HIDE DEF Sum
    <2>4. Sum((U \ {x}) \cup T) = Sum(U \ {x}) + Sum(T)
      BY <1>4
    <2>5. Sum(U \cup T) = Sum(U) + Sum(T)
      <3>1. PICK a, b : a = Sum(U \ {x}) /\ b = Sum(T)
        OBVIOUS
      <3>2. Sum(U \cup T) = f[x] + (a + b)
        BY <2>2, <2>3, <2>4, <3>1
      <3>3. Sum(U) = f[x] + a /\ a \in Nat /\ b \in Nat /\ f[x] \in Nat
        BY <1>2, <2>1, <2>3, <3>1
      <3>4. QED
        BY <3>1, <3>2, <3>3
    <2>6. QED
      BY <2>5
  <1> HIDE DEF P, Sum
  <1>5. S \in P
    BY <1>3, <1>4, SubsetInduction
  <1>6. QED
    BY <1>5 DEF P, Sum

\* A sum is 0 if, and only if, all its terms are.
LEMMA SumZero ==
  ASSUME NEW f, NEW S, IsFiniteSet(S), \A x \in S : f[x] \in Nat
  PROVE  SumFunctionOnSet(f, S) = 0 <=> \A x \in S : f[x] = 0
  <1>1. ASSUME SumFunctionOnSet(f, S) = 0, NEW x \in S PROVE f[x] = 0
    <2>1. PICK n : n = SumFunctionOnSet(f, S \ {x})
      OBVIOUS
    <2>2. n \in Nat /\ 0 = f[x] + n /\ f[x] \in Nat
      BY <1>1, <2>1, SumSplit
    <2>3. QED
      BY <2>2
  <1>2. ASSUME \A x \in S : f[x] = 0 PROVE SumFunctionOnSet(f, S) = 0
    <2> DEFINE P == {T \in SUBSET S : SumFunctionOnSet(f, T) = 0}
    <2>1. ASSUME NEW T \in SUBSET S PROVE IsFiniteSet(T) /\ \A x \in T : f[x] \in Nat
      BY FS_Subset
    <2>2. {} \in P
      BY <2>1, SumSplit
    <2>3. ASSUME NEW T \in SUBSET S, NEW x \in T, T \ {x} \in P PROVE T \in P
      <3>1. SumFunctionOnSet(f, T) = f[x] + SumFunctionOnSet(f, T \ {x})
        BY <2>1, SumSplit
      <3>2. f[x] = 0
        BY <1>2, <2>3
      <3>3. QED
        BY <2>3, <3>1, <3>2
    <2> HIDE DEF P
    <2>4. S \in P
      BY <2>2, <2>3, SubsetInduction
    <2>5. QED
      BY <2>4 DEF P
  <1>3. QED
    BY <1>1, <1>2

\* A sum over more terms is no smaller, and equal if the others are 0.
LEMMA SumPart ==
  ASSUME NEW f, NEW S, IsFiniteSet(S), NEW T \in SUBSET S, \A x \in S : f[x] \in Nat
  PROVE  /\ SumFunctionOnSet(f, T) <= SumFunctionOnSet(f, S)
         /\ (\A x \in S \ T : f[x] = 0) => SumFunctionOnSet(f, T) = SumFunctionOnSet(f, S)
  <1>1. PICK U : U = S \ T
    OBVIOUS
  <1>2. IsFiniteSet(T) /\ IsFiniteSet(U) /\ T \cap U = {} /\ S = T \cup U
    BY <1>1, FS_Subset
  <1>3. SumFunctionOnSet(f, S) = SumFunctionOnSet(f, T) + SumFunctionOnSet(f, U)
    BY <1>2, SumUnion
  <1>4. SumFunctionOnSet(f, T) \in Nat
    BY <1>2, SumSplit
  <1>5. SumFunctionOnSet(f, U) \in Nat
    BY <1>2, SumSplit
  <1>6. (\A x \in U : f[x] = 0) => SumFunctionOnSet(f, U) = 0
    BY <1>2, SumZero
  <1>7. QED
    BY <1>1, <1>3, <1>4, <1>5, <1>6
----------------------------------------------------------------------------
\* The quantity of a leg that all accounts hold together: 0, if none holds it.
QtySum(vs, k) == SumFunction([a \in DOMAIN vs |-> vs[a].qty[k]])

\* A leg nobody holds adds up to nothing.
LEMMA NothingAddsUp ==
  ASSUME NEW vs, NEW k, IsFiniteSet(DOMAIN vs), \A a \in DOMAIN vs : vs[a].qty[k] = 0
  PROVE  QtySum(vs, k) = 0
  <1>1. PICK f : f = [a \in DOMAIN vs |-> vs[a].qty[k]]
    OBVIOUS
  <1>2. DOMAIN f = DOMAIN vs /\ \A a \in DOMAIN vs : f[a] = 0
    BY <1>1
  <1>3. SumFunctionOnSet(f, DOMAIN vs) = 0
    BY <1>2, SumZero
  <1>4. QED
    BY <1>1, <1>2, <1>3, Zenon DEF QtySum, SumFunction

\* The oldest of prices that need no flag needs none.
LEMMA OldestIsGood ==
  ASSUME market \in Markets, NEW k \in Legs, NEW d \in Days, NEW A, A # {},
         \A x \in A : Good(market, k, x, d)
  PROVE  Good(market, k, Min(A), d)
  <1>1. market.closes[k] \in SUBSET Nat /\ d \in Nat
    BY Closes
  <1>2. AsOf(market.closes[k], d) \in Nat
    BY <1>1, AsOfIsLatest
  <1>3. CASE Listed(market, k)
    <2>1. PICK g : g = AsOf(market.closes[k], d)
      OBVIOUS
    <2>2. A \in SUBSET Nat /\ \A x \in A : x = g
      BY <1>2, <1>3, <2>1 DEF Good
    <2>3. Min(A) \in A
      BY <2>2, LowestDay
    <2>4. QED
      BY <2>3
  <1>4. CASE ~Listed(market, k) /\ market.moved[k] # 0
    <2>1. A \in SUBSET Nat
      BY <1>1, <1>4 DEF Good
    <2>2. Min(A) \in A
      BY <2>1, LowestDay
    <2>3. QED
      BY <2>2
  <1>5. CASE ~Listed(market, k) /\ market.moved[k] = 0
    BY <1>5 DEF Good
  <1>6. QED
    BY <1>3, <1>4, <1>5

\* The sum of the accounts is flagged where one of them is.
LEMMA TotalHonest ==
  ASSUME market \in Markets, NEW vs, DOMAIN vs \subseteq Accounts, NEW F, NEW d \in Days,
         \A a \in DOMAIN vs : Honest(market, vs[a], F[a], d),
         NEW w, w = Total(vs)
  PROVE  Legged(w) /\ Honest(market, w, UNION {F[a] : a \in DOMAIN vs}, d)
  <1> DEFINE from(k) == IF Holders(vs, k) = {} THEN DOMAIN vs ELSE Holders(vs, k)
             ages(k) == {vs[a].at[k] : a \in from(k)}
  <1>1. w = [qty |-> [k \in Legs |-> QtySum(vs, k)], at |-> [k \in Legs |-> Min(ages(k))]]
    BY Zenon DEF Total, QtySum
  <1>2. ASSUME NEW k, Holders(vs, k) = {} PROVE QtySum(vs, k) = 0
    <2>1. IsFiniteSet(DOMAIN vs)
      BY FS_Subset
    <2>2. \A a \in DOMAIN vs : vs[a].qty[k] = 0
      BY <1>2 DEF Holders
    <2>3. QED
      BY <2>1, <2>2, NothingAddsUp
  <1>3. PICK q, at : q = [k \in Legs |-> QtySum(vs, k)] /\ at = [k \in Legs |-> Min(ages(k))]
    OBVIOUS
  <1>4. w = [qty |-> q, at |-> at]
    BY <1>1, <1>3
  <1>5. w.qty = q /\ w.at = at
    BY <1>4
  <1>6. Legged(w)
    BY <1>3, <1>4, <1>5 DEF Legged
  <1>7. ASSUME NEW k \in Held(q) \ UNION {F[a] : a \in DOMAIN vs} PROVE Good(market, k, at[k], d)
    <2>1. k \in Legs /\ Holders(vs, k) # {}
      BY <1>2, <1>3 DEF Held
    <2>2. ages(k) = {vs[a].at[k] : a \in Holders(vs, k)} /\ ages(k) # {}
      BY <2>1
    <2>3. ASSUME NEW a \in Holders(vs, k) PROVE Good(market, k, vs[a].at[k], d)
      <3>1. a \in DOMAIN vs /\ k \in Held(vs[a].qty) /\ k \notin F[a]
        BY <1>7, <2>1 DEF Holders, Held
      <3>2. QED
        BY <3>1 DEF Honest
    <2>4. \A x \in ages(k) : Good(market, k, x, d)
      BY <2>2, <2>3
    <2>5. at[k] = Min(ages(k))
      BY <1>3, <2>1
    <2> HIDE DEF ages
    <2>6. Good(market, k, Min(ages(k)), d)
      BY <2>1, <2>2, <2>4, OldestIsGood
    <2>7. QED
      BY <2>5, <2>6
  <1>8. QED
    BY <1>5, <1>6, <1>7 DEF Honest
----------------------------------------------------------------------------
\* _settle_flows changes no value and no flag.
LEMMA SettledFlagged ==
  ASSUME NEW s, NEW t, NEW missing, NEW a, NEW b, NEW qs, NEW p,
         p = [points |-> missing, a |-> a, b |-> b, rebase |-> None, rows |-> qs], Proposed(market, p)
  PROVE  Proposed(market, Settled(s, t, p))
  <1>1. \/ Settled(s, t, p) = Skip \/ Settled(s, t, p) = p
        \/ \E f : Settled(s, t, p) = [p EXCEPT !.rebase = f]
    BY Zenon DEF Settled
  <1>2. Proposed(market, Skip)
    <2>1. Skip.points = {}
      BY DEF Skip
    <2>2. QED
      BY <2>1 DEF Proposed
  <1>3. ASSUME NEW f, NEW q, q = [p EXCEPT !.rebase = f] PROVE Proposed(market, q)
    <2>1. q.points = p.points /\ q.rows = p.rows
      BY <1>3
    <2>2. QED
      BY <2>1 DEF Proposed
  <1>4. QED
    BY <1>1, <1>2, <1>3

\* So the plan of one series flags its guesses.
LEMMA PlanSeriesFlagged ==
  ASSUME NEW s, NEW t, NEW missing \in SUBSET Days, NEW gap, NEW o
  PROVE  Proposed(market, PlanSeries(s, t, missing, gap, o))
  <1> DEFINE qs == [d \in missing |-> PlannedRow(s, t, missing, gap, o, d)]
             planned == [points |-> missing, a |-> gap.a, b |-> gap.b, rebase |-> None, rows |-> qs]
             rs == [d \in missing |-> [qs[d] EXCEPT !.flow = FlowOn(s, t, planned, d)]]
             settled == [points |-> missing, a |-> gap.a, b |-> gap.b, rebase |-> None, rows |-> rs]
  <1>1. \/ PlanSeries(s, t, missing, gap, o) = Skip
        \/ /\ ~Refused(s, t, missing, gap, o)
           /\ \/ PlanSeries(s, t, missing, gap, o) = planned
              \/ PlanSeries(s, t, missing, gap, o) = Settled(s, t, [planned EXCEPT !.rows = rs])
    BY DEF PlanSeries
  <1>2. Proposed(market, Skip)
    <2>1. Skip.points = {}
      BY DEF Skip
    <2>2. QED
      BY <2>1 DEF Proposed
  <1>3. ASSUME ~Refused(s, t, missing, gap, o), NEW d \in missing
        PROVE  /\ Legged(qs[d].value) /\ Honest(market, qs[d].value, qs[d].flagged, d)
               /\ rs[d].value = qs[d].value /\ rs[d].flagged = qs[d].flagged
    <2>1. PICK r : r = PlannedRow(s, t, missing, gap, o, d)
      OBVIOUS
    <2>2. Legged(r.value) /\ Honest(market, r.value, r.flagged, d)
      BY <1>3, <2>1, PlannedHonest
    <2>3. PICK f : rs[d] = [r EXCEPT !.flow = f]
      BY <2>1
    <2>4. qs[d] = r
      BY <2>1
    <2>5. \E v, S : r = [value |-> v, flow |-> 0, flagged |-> S]
      BY <2>1, Zenon DEF PlannedRow
    <2> HIDE DEF rs, qs
    <2>6. rs[d].value = r.value /\ rs[d].flagged = r.flagged
      BY <2>3, <2>5
    <2>7. QED
      BY <2>2, <2>4, <2>6
  <1> HIDE DEF qs, rs
  <1>4. [planned EXCEPT !.rows = rs] = settled
    OBVIOUS
  <1>5. planned.points = missing /\ planned.rows = qs /\ settled.points = missing /\ settled.rows = rs
    OBVIOUS
  <1>6. ~Refused(s, t, missing, gap, o) => Proposed(market, planned)
    <2> HIDE DEF planned
    <2>1. QED
      BY <1>3, <1>5 DEF Proposed
  <1>7. ~Refused(s, t, missing, gap, o) => Proposed(market, settled)
    <2> HIDE DEF settled
    <2>1. QED
      BY <1>3, <1>5 DEF Proposed
  <1>8. ~Refused(s, t, missing, gap, o) => Proposed(market, Settled(s, t, settled))
    <2>1. PICK p : p = settled
      OBVIOUS
    <2>2. Proposed(market, p) => Proposed(market, Settled(s, t, p))
      BY <2>1, SettledFlagged
    <2> HIDE DEF settled
    <2>3. QED
      BY <1>7, <2>1, <2>2
  <1> HIDE DEF planned, settled
  <1>9. QED
    BY <1>1, <1>2, <1>4, <1>6, <1>8

\* And the plan from the accounts flags what their rows and plans do.
LEMMA PlanFromAccountsFlagged ==
  ASSUME market \in Markets, NEW ts, NEW plans, NEW missing \in SUBSET Days, NEW gap,
         \A x \in Accounts : \A d \in DOMAIN ts[x] : AccountFlagged(market, ts[x][d], d),
         \A x \in Accounts : Proposed(market, plans[x])
  PROVE  Proposed(market, PlanFromAccounts(ts, plans, missing, gap))
  <1> DEFINE On(a, d) == IF d \in RowsOf(ts[a])
                  THEN [value |-> ts[a][d].nav, flow |-> ts[a][d].flow, flagged |-> FlagsOf(ts[a][d])]
                  ELSE plans[a].rows[d]
             Cohort(d) == {a \in Accounts : d \in RowsOf(ts[a]) \cup plans[a].points}
             Values(d) == [a \in Cohort(d) |-> On(a, d).value]
             SumOn(d) == Total(Values(d))
             FlowSum(d) == SumFunction([a \in Cohort(d) |-> On(a, d).flow])
             Flags(d) == UNION {On(a, d).flagged : a \in Cohort(d)}
             qs == [d \in missing |-> [value |-> SumOn(d), flagged |-> Flags(d), flow |-> FlowSum(d)]]
             p == [points |-> missing, a |-> gap.a, b |-> gap.b, rebase |-> None, rows |-> qs]
  <1>1. ASSUME NEW d, NEW a \in Cohort(d)
        PROVE  Honest(market, On(a, d).value, On(a, d).flagged, d)
    <2>1. CASE d \in RowsOf(ts[a])
      <3>1. AccountFlagged(market, ts[a][d], d)
        BY <2>1 DEF RowsOf
      <3>2. PICK r : r = ts[a][d]
        OBVIOUS
      <3>3. On(a, d) = [value |-> r.nav, flow |-> r.flow, flagged |-> FlagsOf(r)]
        BY <2>1, <3>2
      <3>4. On(a, d).value = r.nav /\ On(a, d).flagged = FlagsOf(r)
        BY <3>3
      <3>5. Honest(market, r.nav, FlagsOf(r), d)
        BY <3>1, <3>2 DEF AccountFlagged
      <3>6. QED
        BY <3>4, <3>5
    <2>2. CASE d \notin RowsOf(ts[a])
      BY <2>2 DEF Proposed
    <2>3. QED
      BY <2>1, <2>2
  <1>2. ASSUME NEW d \in missing
        PROVE  Legged(SumOn(d)) /\ Honest(market, SumOn(d), Flags(d), d)
    <2> DEFINE F == [a \in Cohort(d) |-> On(a, d).flagged]
    <2>1. DOMAIN Values(d) = Cohort(d) /\ Cohort(d) \subseteq Accounts
      OBVIOUS
    <2>2. \A a \in Cohort(d) : Values(d)[a] = On(a, d).value /\ F[a] = On(a, d).flagged
      OBVIOUS
    <2>3. \A a \in Cohort(d) : Honest(market, Values(d)[a], F[a], d)
      <3> HIDE DEF On, Cohort, Values, F
      <3>1. QED
        BY <1>1, <2>2
    <2>4. Flags(d) = UNION {F[a] : a \in Cohort(d)}
      <3> HIDE DEF On, Cohort
      <3>1. QED
        OBVIOUS
    <2> HIDE DEF On, Cohort, Values, F, Flags
    <2>5. d \in Days
      OBVIOUS
    <2>6. PICK vs, w : vs = Values(d) /\ w = Total(vs)
      OBVIOUS
    <2>7. Legged(w) /\ Honest(market, w, UNION {F[a] : a \in DOMAIN vs}, d)
      BY <2>1, <2>3, <2>5, <2>6, TotalHonest
    <2>8. QED
      BY <2>1, <2>4, <2>6, <2>7
  <1>3. \/ PlanFromAccounts(ts, plans, missing, gap) = Skip
        \/ PlanFromAccounts(ts, plans, missing, gap) = Settled(Portfolio, ts[Portfolio], p)
    BY Zenon DEF PlanFromAccounts
  <1>4. ASSUME NEW d \in missing PROVE qs[d].value = SumOn(d) /\ qs[d].flagged = Flags(d)
    <2> HIDE DEF SumOn, Flags, FlowSum
    <2>1. QED
      OBVIOUS
  <1> HIDE DEF qs, SumOn, Flags
  <1>5. p.points = missing /\ p.rows = qs
    OBVIOUS
  <1>6. Proposed(market, p)
    <2> HIDE DEF p
    <2>1. QED
      BY <1>2, <1>4, <1>5 DEF Proposed
  <1>7. Proposed(market, Settled(Portfolio, ts[Portfolio], p))
    <2>1. PICK x : x = p
      OBVIOUS
    <2> HIDE DEF p
    <2>2. Proposed(market, Settled(Portfolio, ts[Portfolio], x))
      BY <1>6, <2>1, SettledFlagged DEF p
    <2>3. QED
      BY <2>1, <2>2
  <1>8. Skip.points = {}
    BY DEF Skip
  <1> HIDE DEF p
  <1>9. QED
    BY <1>3, <1>7, <1>8 DEF Proposed
----------------------------------------------------------------------------
\* The rows an apply inserts carry the flags of the plan.
LEMMA InsertedFlagged ==
  ASSUME NEW p, NEW d, NEW u, u = Inserted(p, d), Legged(p.rows[d].value),
         Honest(market, p.rows[d].value, p.rows[d].flagged, d), p.rows[d].flagged \subseteq Legs
  PROVE  RowFlagged(market, u, d) /\ AccountFlagged(market, u, d)
  <1>1. PICK v, F : v = p.rows[d].value /\ F = p.rows[d].flagged
    OBVIOUS
  <1>2. u = [nav |-> v, legs |-> v, flow |-> p.rows[d].flow, prov |-> FALSE,
             mark |-> F, restate |-> NoStash, rebase |-> NoStash]
    BY <1>1 DEF Inserted
  <1>3. /\ u.nav = v /\ u.legs = v /\ u.flow = p.rows[d].flow /\ u.prov = FALSE
        /\ u.mark = F /\ u.restate = NoStash /\ u.rebase = NoStash
    BY <1>2
  <1>4. Columns(u)
    BY <1>2, <1>3 DEF Columns
  <1>5. NoStash.kept = FALSE
    BY DEF NoStash
  <1>6. F # None
    BY <1>1
  <1>7. FlagsOf(u) = F
    BY <1>3, <1>6 DEF FlagsOf
  <1>8. QED
    BY <1>1, <1>3, <1>4, <1>5, <1>7 DEF RowFlagged, AccountFlagged

\* A row whose flow and flow stash alone change keeps its flags.
LEMMA FlowWritten ==
  ASSUME NEW r, NEW d, NEW f, NEW b, NEW u, RowFlagged(market, r, d),
         u = [nav |-> r.nav, legs |-> r.legs, flow |-> f, prov |-> r.prov, mark |-> r.mark,
              restate |-> r.restate, rebase |-> b]
  PROVE  /\ RowFlagged(market, u, d)
         /\ AccountFlagged(market, r, d) => AccountFlagged(market, u, d)
  <1>1. /\ u.nav = r.nav /\ u.legs = r.legs /\ u.flow = f /\ u.prov = r.prov /\ u.mark = r.mark
        /\ u.restate = r.restate /\ u.rebase = b
    OBVIOUS
  <1>2. Columns(u)
    BY <1>1 DEF Columns
  <1>3. FlagsOf(u) = FlagsOf(r)
    BY <1>1 DEF FlagsOf
  <1>4. QED
    BY <1>1, <1>2, <1>3 DEF RowFlagged, AccountFlagged

\* The flush of an anchor writes the value the plan has restated.
LEMMA AnchorFlagged ==
  ASSUME NEW r, NEW t, NEW d, NEW u, u = AnchorWrite(r, t), RowFlagged(market, r, d),
         RowFlagged(market, t, d), t.mark = r.mark
  PROVE  /\ RowFlagged(market, u, d)
         /\ AccountFlagged(market, r, d) /\ AccountFlagged(market, t, d) => AccountFlagged(market, u, d)
  <1>1. CASE ~t.restate.kept
    BY <1>1 DEF AnchorWrite
  <1>2. CASE t.restate.kept
    <2>1. Columns(r) /\ r.mark = None /\ t.mark = None /\ ~t.prov
      BY <1>2 DEF RowFlagged
    <2>2. u = [nav |-> t.nav, legs |-> t.legs, flow |-> r.flow, prov |-> FALSE,
               mark |-> None, restate |-> t.restate, rebase |-> r.rebase]
      BY <1>2, <2>1 DEF AnchorWrite, Columns
    <2>3. /\ u.nav = t.nav /\ u.legs = t.legs /\ u.flow = r.flow /\ u.prov = FALSE
          /\ u.mark = None /\ u.restate = t.restate /\ u.rebase = r.rebase
      BY <2>2
    <2>4. Columns(u)
      BY <2>2, <2>3 DEF Columns
    <2>5. FlagsOf(u) = {} /\ FlagsOf(t) = {}
      BY <2>1, <2>3 DEF FlagsOf
    <2>6. RowFlagged(market, u, d)
      BY <1>2, <2>3, <2>4 DEF RowFlagged
    <2>7. QED
      BY <1>2, <2>3, <2>5, <2>6 DEF AccountFlagged
  <1>3. QED
    BY <1>1, <1>2

\* restore_stashes puts the late fund leg back together with its flag.
LEMMA UnstashFlagged ==
  ASSUME NEW r, NEW d, NEW range, NEW u, u = Unstash(r, range), RowFlagged(market, r, d)
  PROVE  /\ RowFlagged(market, u, d)
         /\ AccountFlagged(market, r, d) => AccountFlagged(market, u, d)
  <1>1. Columns(r)
    BY DEF RowFlagged
  <1>2. PICK q : q = IF r.restate.kept /\ Overlap(r.restate.gap, range)
           THEN [r EXCEPT !.nav = r.restate.nav, !.legs = r.restate.legs, !.prov = TRUE, !.restate = NoStash]
           ELSE r
    OBVIOUS
  <1>3. u = IF q.rebase.kept /\ Overlap(q.rebase.gap, range)
            THEN [q EXCEPT !.flow = q.rebase.flow, !.rebase = NoStash] ELSE q
    BY <1>2 DEF Unstash
  <1>4. NoStash.kept = FALSE
    BY DEF NoStash
  <1>5. /\ RowFlagged(market, q, d)
        /\ AccountFlagged(market, r, d) => AccountFlagged(market, q, d)
    <2>1. CASE ~(r.restate.kept /\ Overlap(r.restate.gap, range))
      BY <1>2, <2>1
    <2>2. CASE r.restate.kept /\ Overlap(r.restate.gap, range)
      <3>1. r.mark = None
        BY <2>2 DEF RowFlagged
      <3>2. PICK z : z = r.restate
        OBVIOUS
      <3>3. q = [nav |-> z.nav, legs |-> z.legs, flow |-> r.flow, prov |-> TRUE,
                 mark |-> r.mark, restate |-> NoStash, rebase |-> r.rebase]
        BY <1>1, <1>2, <2>2, <3>2 DEF Columns
      <3>4. /\ q.nav = z.nav /\ q.legs = z.legs /\ q.flow = r.flow /\ q.prov = TRUE
            /\ q.mark = r.mark /\ q.restate = NoStash /\ q.rebase = r.rebase
        BY <3>3
      <3>5. Columns(q)
        BY <3>3, <3>4 DEF Columns
      <3>6. RowFlagged(market, q, d)
        BY <1>4, <3>1, <3>4, <3>5 DEF RowFlagged
      <3>7. FlagsOf(q) = {Fund}
        BY <3>1, <3>4 DEF FlagsOf
      <3>8. AccountFlagged(market, r, d) => StashHonest(market, z, d)
        BY <2>2, <3>2 DEF AccountFlagged
      <3>9. AccountFlagged(market, r, d) => AccountFlagged(market, q, d)
        BY <1>4, <3>4, <3>7, <3>8 DEF AccountFlagged, StashHonest
      <3>10. QED
        BY <3>6, <3>9
    <2>3. QED
      BY <2>1, <2>2
  <1>6. CASE ~(q.rebase.kept /\ Overlap(q.rebase.gap, range))
    BY <1>3, <1>5, <1>6
  <1>7. CASE q.rebase.kept /\ Overlap(q.rebase.gap, range)
    <2>1. Columns(q)
      BY <1>5 DEF RowFlagged
    <2>2. PICK f : f = q.rebase.flow
      OBVIOUS
    <2>3. u = [nav |-> q.nav, legs |-> q.legs, flow |-> f, prov |-> q.prov, mark |-> q.mark,
               restate |-> q.restate, rebase |-> NoStash]
      BY <1>3, <1>7, <2>1, <2>2 DEF Columns
    <2>4. QED
      BY <1>5, <2>3, FlowWritten
  <1>8. QED
    BY <1>6, <1>7

\* The job leaves compositions and marks alone.
LEMMA JobFlagged ==
  ASSUME NEW r, NEW d, NEW v, NEW f, NEW u, u = JobWrite(r, v, f), RowFlagged(market, r, d)
  PROVE  RowFlagged(market, u, d)
  <1>1. Columns(r)
    BY DEF RowFlagged
  <1>2. u = [nav |-> v, legs |-> r.legs, flow |-> f, prov |-> FALSE,
             mark |-> r.mark, restate |-> r.restate, rebase |-> r.rebase]
    BY <1>1 DEF JobWrite, Columns
  <1>3. /\ u.nav = v /\ u.legs = r.legs /\ u.flow = f /\ u.prov = FALSE /\ u.mark = r.mark
        /\ u.restate = r.restate /\ u.rebase = r.rebase
    BY <1>2
  <1>4. Columns(u)
    BY <1>2, <1>3 DEF Columns
  <1>5. QED
    BY <1>3, <1>4 DEF RowFlagged

\* A row the live writer recorded carries a flag where its fund leg is late, and no other
\* leg is.
LEMMA RecordedFlagged ==
  ASSUME SharesCloseEverySession, market \in Markets, NEW s, NEW d \in Days, NEW days, NEW late,
         NEW u, u = LiveRow(s, d, days, late)
  PROVE  RowFlagged(market, u, d) /\ AccountFlagged(market, u, d)
  <1>1. PICK v : v = [Closing(s, d) EXCEPT !.at[Fund] = IF d \in late THEN AsOf(market.closes[Fund], d - 1) ELSE @]
    OBVIOUS
  <1>2. PICK f : u = [nav |-> v, legs |-> v, flow |-> f, prov |-> v.at[Fund] # d,
                      mark |-> None, restate |-> NoStash, rebase |-> NoStash]
    BY <1>1 DEF LiveRow
  <1>3. /\ u.nav = v /\ u.legs = v /\ u.flow = f /\ u.prov = (v.at[Fund] # d) /\ u.mark = None
        /\ u.restate = NoStash /\ u.rebase = NoStash
    BY <1>2
  <1>4. Columns(u) /\ u.prov \in BOOLEAN
    BY <1>2, <1>3 DEF Columns
  <1>5. NoStash.kept = FALSE
    BY DEF NoStash
  <1>6. RowFlagged(market, u, d)
    BY <1>3, <1>4, <1>5 DEF RowFlagged
  <1> DEFINE live == [k \in Legs |-> IF Listed(market, k) THEN AsOf(market.closes[k], d) ELSE d]
  <1>7. PICK q, a, l : /\ q = Quantities(s, d)
                       /\ a = live
                       /\ l = IF d \in late THEN AsOf(market.closes[Fund], d - 1) ELSE live[Fund]
    OBVIOUS
  <1>8. v = [qty |-> q, at |-> [a EXCEPT ![Fund] = l]]
    BY <1>1, <1>7 DEF Closing
  <1>9. PICK b : b = [a EXCEPT ![Fund] = l] /\ v = [qty |-> q, at |-> b]
    BY <1>8
  <1>10. b = [k \in Legs |-> IF k = Fund THEN l ELSE a[k]] /\ v.at = b /\ v.qty = q /\ b[Fund] = l
    BY <1>7, <1>9
  <1>11. Legged(v)
    BY <1>9, <1>10 DEF Legged
  <1>12. ASSUME NEW k \in Legs
         PROVE  market.closes[k] \in SUBSET Nat /\ d \in Nat /\ d - 1 \in Nat
    BY Closes DEF Days
  <1>13. Fund \in Legs /\ a[Fund] = IF Listed(market, Fund) THEN AsOf(market.closes[Fund], d) ELSE d
    BY <1>7
  <1>14. Caught(market, v, d)
    <2>1. SUFFICES ASSUME NEW x \in market.closes[Fund], x < d PROVE ~(l < x)
      BY <1>10 DEF Caught
    <2>2. Listed(market, Fund) /\ x \in Nat /\ x <= d - 1 /\ x <= d
      BY <1>12, <1>13, <2>1 DEF Listed
    <2>3. x <= AsOf(market.closes[Fund], d) /\ x <= AsOf(market.closes[Fund], d - 1)
          /\ AsOf(market.closes[Fund], d) \in Nat /\ AsOf(market.closes[Fund], d - 1) \in Nat
      BY <1>12, <1>13, <2>2, AsOfIsLatest
    <2>4. l = AsOf(market.closes[Fund], d) \/ l = AsOf(market.closes[Fund], d - 1)
      BY <1>7, <1>13, <2>2
    <2>5. QED
      BY <2>2, <2>3, <2>4
  <1>15. ASSUME NEW k \in Legs, k # Fund PROVE Good(market, k, b[k], d)
    <2>1. b[k] = IF Listed(market, k) THEN AsOf(market.closes[k], d) ELSE d
      BY <1>7, <1>10, <1>15
    <2>2. Listed(market, k) /\ d \in market.sessions /\ k \notin market.foreign => d \in market.closes[k]
      BY <1>15 DEF SharesCloseEverySession
    <2>3. d \in market.closes[k] => AsOf(market.closes[k], d) = d
      BY <1>12, AsOfIsLatest
    <2>4. QED
      BY <2>1, <2>2, <2>3 DEF Good
  <1>16. ASSUME l = d PROVE Good(market, Fund, l, d)
    <2>1. CASE ~Listed(market, Fund)
      BY <1>16, <2>1 DEF Good
    <2>2. CASE Listed(market, Fund)
      <3>1. AsOf(market.closes[Fund], d - 1) <= d - 1 /\ AsOf(market.closes[Fund], d - 1) \in Nat
        BY <1>12, <1>13, AsOfIsLatest
      <3>2. AsOf(market.closes[Fund], d - 1) # d
        BY <1>12, <1>13, <3>1
      <3>3. AsOf(market.closes[Fund], d) = d
        BY <1>7, <1>13, <1>16, <2>2, <3>2
      <3>4. QED
        BY <1>16, <2>2, <3>3 DEF Good
    <2>3. QED
      BY <2>1, <2>2
  <1>17. Honest(market, v, FlagsOf(u), d)
    <2>1. SUFFICES ASSUME NEW k \in Held(q) \ FlagsOf(u) PROVE Good(market, k, b[k], d)
      BY <1>10 DEF Honest
    <2>2. k \in Legs
      BY DEF Held
    <2>3. k = Fund => l = d
      BY <1>3, <1>10, <2>1 DEF FlagsOf
    <2>4. QED
      BY <1>10, <1>15, <1>16, <2>2, <2>3
  <1>18. QED
    BY <1>3, <1>5, <1>6, <1>11, <1>14, <1>17 DEF AccountFlagged
----------------------------------------------------------------------------
\* Initially every row is one the live writer recorded.
LEMMA InitFlagged ==
  ASSUME SharesCloseEverySession, Init
  PROVE  FlagInv
  <1>1. PICK present \in Present, late \in {{}, {Last}} :
          rows = [s \in Series |-> [d \in present[s] |-> LiveRow(s, d, present[s], late)]]
    BY DEF Init
  <1>2. plan = None /\ market \in Markets
    BY DEF Init
  <1>3. ASSUME NEW s \in Series, NEW d \in DOMAIN rows[s]
        PROVE  d \in Days /\ RowFlagged(market, rows[s][d], d) /\ AccountFlagged(market, rows[s][d], d)
    <2>1. PICK days : days = present[s]
      OBVIOUS
    <2>2. rows[s] = [x \in days |-> LiveRow(s, x, days, late)] /\ days \subseteq Days
      BY <1>1, <2>1
    <2>3. d \in Days /\ rows[s][d] = LiveRow(s, d, days, late)
      BY <2>2
    <2>4. QED
      BY <1>2, <2>3, RecordedFlagged
  <1>4. QED
    BY <1>2, <1>3 DEF FlagInv, RowsFlagged, PlanFlagged

\* The rows a plan reads keep their flags when their anchors are restated in memory.
LEMMA ReadFlagged ==
  ASSUME FlagInv, NEW o, NEW range, NEW s \in Series
  PROVE  LET t == RestatedRows(o, range)[s] IN
         /\ DOMAIN t = DOMAIN rows[s]
         /\ \A d \in DOMAIN t : /\ t[d].mark = rows[s][d].mark /\ RowFlagged(market, t[d], d)
                                /\ s \in Accounts => AccountFlagged(market, t[d], d)
  <1> DEFINE gapped == Gapped(o, range)
             ends(x) == {AnchorsOf(x, range).a, AnchorsOf(x, range).b}
             touched == (IF s \in gapped THEN ends(s) ELSE {})
                        \cup (IF o.accounts /\ Portfolio \in gapped /\ s \in Accounts THEN ends(Portfolio) ELSE {})
             gap == Gap(Missing(IF s \in gapped THEN s ELSE Portfolio, range))
  <1>1. PICK t : t = RestatedRows(o, range)[s]
    OBVIOUS
  <1>2. t = [d \in DOMAIN rows[s] |->
               IF o.restate /\ d \in touched THEN Restated(rows[s][d], d, gap) ELSE rows[s][d]]
    BY <1>1 DEF RestatedRows, RowsOf
  <1> HIDE DEF touched, gap
  <1>3. ASSUME NEW d \in DOMAIN rows[s]
        PROVE  /\ t[d].mark = rows[s][d].mark /\ RowFlagged(market, t[d], d)
               /\ s \in Accounts => AccountFlagged(market, t[d], d)
    <2>1. PICK r, q : r = rows[s][d] /\ q = Restated(r, d, gap)
      OBVIOUS
    <2>2. /\ market \in Markets /\ d \in Days /\ RowFlagged(market, r, d)
          /\ s \in Accounts => AccountFlagged(market, r, d)
      BY <2>1 DEF FlagInv, RowsFlagged
    <2>3. /\ q.mark = r.mark /\ RowFlagged(market, q, d)
          /\ AccountFlagged(market, r, d) => AccountFlagged(market, q, d)
      BY <2>1, <2>2, RestatedFlagged
    <2>4. t[d] = r \/ t[d] = q
      BY <1>2, <2>1
    <2>5. QED
      BY <2>1, <2>2, <2>3, <2>4
  <1>4. QED
    BY <1>1, <1>2, <1>3

\* plan_gap flags every guess it plans.
LEMMA PlanGapFlagged ==
  ASSUME FlagInv, NEW o, NEW range \in Ranges, PlanGap(o, range)
  PROVE  FlagInv'
  <1> DEFINE ts == RestatedRows(o, range)
             gapped == Gapped(o, range)
             Of(s) == PlanSeries(s, ts[s], Missing(s, range), AnchorsOf(s, range), o)
             accounts == [a \in Accounts |-> IF a \in gapped THEN Of(a) ELSE Skip]
             portfolio == IF Portfolio \notin gapped THEN Skip
                      ELSE IF o.accounts
                           THEN PlanFromAccounts(ts, accounts, Missing(Portfolio, range), AnchorsOf(Portfolio, range))
                           ELSE Of(Portfolio)
             of == [s \in Series |-> IF s = Portfolio THEN portfolio ELSE accounts[s]]
             Flagging(p) == /\ Proposed(market, p)
                            /\ \A d \in p.points : p.rows[d].flagged \subseteq Legs
  <1>1. plan' = [range |-> range, ts |-> ts, of |-> of] /\ undoing = None /\ undoing' = None
        /\ market' = market /\ rows' = rows
    BY DEF PlanGap, world
  <1>2. plan'.ts = ts /\ plan'.of = of
    <2> HIDE DEF ts, of
    <2>1. QED
      BY <1>1
  <1>3. ASSUME NEW s \in Series
        PROVE  /\ DOMAIN ts[s] = DOMAIN rows[s]
               /\ \A d \in DOMAIN ts[s] : /\ ts[s][d].mark = rows[s][d].mark
                                          /\ RowFlagged(market, ts[s][d], d)
                                          /\ s \in Accounts => AccountFlagged(market, ts[s][d], d)
    BY ReadFlagged
  <1>4. Flagging(Skip)
    <2>1. Skip.points = {}
      BY DEF Skip
    <2>2. QED
      BY <2>1 DEF Proposed
  <1>5. ASSUME NEW s PROVE Missing(s, range) \in SUBSET Days
    <2>1. range.lo \in 2..Last - 1 /\ range.hi \in 2..Last - 1
      BY DEF Ranges
    <2>2. range.lo..range.hi \subseteq Days
      BY <2>1 DEF Days
    <2>3. QED
      BY <2>2 DEF Missing, DaysOf
  <1>6. ASSUME NEW p, NEW t, NEW b, NEW missing, PlanOK(p, t, missing, b), Proposed(market, p)
        PROVE  Flagging(p)
    BY <1>4, <1>6 DEF PlanOK
  <1> HIDE DEF Flagging
  <1>7. ASSUME NEW s PROVE Flagging(Of(s))
    <2> HIDE DEF ts
    <2>1. Proposed(market, Of(s))
      BY <1>5, PlanSeriesFlagged
    <2>2. PlanOK(Of(s), ts[s], Missing(s, range), AnchorsOf(s, range).b)
      BY PlanSeriesShape
    <2>3. QED
      BY <1>6, <2>1, <2>2
  <1>8. ASSUME NEW s \in Accounts PROVE Flagging(accounts[s])
    <2>1. accounts[s] = Of(s) \/ accounts[s] = Skip
      OBVIOUS
    <2> HIDE DEF accounts, Of
    <2>2. QED
      BY <1>4, <1>7, <2>1
  <1>9. \A x \in Accounts : x \in Series
    BY DEF Series
  <1>10. Flagging(PlanFromAccounts(ts, accounts, Missing(Portfolio, range), AnchorsOf(Portfolio, range)))
    <2>1. \A x \in Accounts : \A d \in DOMAIN ts[x] :
            AccountFlagged(market, ts[x][d], d) /\ ts[x][d].mark \in (SUBSET Legs) \cup {None}
      <3> HIDE DEF ts
      <3>1. QED
        BY <1>3, <1>9 DEF RowFlagged
    <2> HIDE DEF ts, accounts
    <2>2. \A x \in Accounts : Proposed(market, accounts[x])
      BY <1>8 DEF Flagging
    <2>3. \A x \in Accounts : \A d \in accounts[x].points : accounts[x].rows[d].flagged \subseteq Legs
      BY <1>8 DEF Flagging
    <2>4. market \in Markets
      BY DEF FlagInv
    <2>5. PICK m, gap : m = Missing(Portfolio, range) /\ gap = AnchorsOf(Portfolio, range)
      OBVIOUS
    <2>6. Proposed(market, PlanFromAccounts(ts, accounts, m, gap))
      BY <1>5, <2>1, <2>2, <2>4, <2>5, PlanFromAccountsFlagged
    <2>7. PlanOK(PlanFromAccounts(ts, accounts, m, gap), ts[Portfolio], m, gap.b)
      BY <2>1, <2>3, PlanFromAccountsShape
    <2>8. QED
      BY <1>6, <2>5, <2>6, <2>7
  <1>11. Flagging(portfolio)
    <2>1. \/ portfolio = Skip \/ portfolio = Of(Portfolio)
          \/ portfolio = PlanFromAccounts(ts, accounts, Missing(Portfolio, range), AnchorsOf(Portfolio, range))
      OBVIOUS
    <2> HIDE DEF portfolio, Of, ts, accounts
    <2>2. QED
      BY <1>4, <1>7, <1>10, <2>1
  <1>12. ASSUME NEW s \in Series PROVE Flagging(of[s])
    <2>1. s = Portfolio => of[s] = portfolio
      OBVIOUS
    <2>2. s # Portfolio => s \in Accounts /\ of[s] = accounts[s]
      BY DEF Series
    <2> HIDE DEF of, portfolio, accounts
    <2>3. QED
      BY <1>8, <1>11, <2>1, <2>2
  <1> HIDE DEF ts, of
  <1>13. RowsFlagged' /\ (market \in Markets)'
    BY <1>1 DEF FlagInv, RowsFlagged
  <1>14. PlanFlagged'
    BY <1>1, <1>2, <1>3, <1>12 DEF PlanFlagged, Flagging
  <1>15. QED
    BY <1>13, <1>14 DEF FlagInv

\* What the apply writes on an existing row.
LEMMA FlushFlagged ==
  ASSUME FlagInv, plan # None, NEW s \in Series, NEW d \in DOMAIN rows[s],
         NEW W, d \notin W, NEW u, u = Flushed(s, d, W)
  PROVE  /\ RowFlagged(market, u, d)
         /\ s \in Accounts => AccountFlagged(market, u, d)
  <1>1. PICK r, t, p : r = rows[s][d] /\ t = plan.ts[s] /\ p = plan.of[s]
    OBVIOUS
  <1>2. RowFlagged(market, r, d) /\ (s \in Accounts => AccountFlagged(market, r, d))
    BY <1>1 DEF FlagInv, RowsFlagged
  <1>3. PICK x : x = IF d \in DOMAIN t THEN AnchorWrite(r, t[d]) ELSE r
    OBVIOUS
  <1>4. RowFlagged(market, x, d) /\ (s \in Accounts => AccountFlagged(market, x, d))
    <2>1. CASE d \in DOMAIN t
      <3>1. PICK y : y = t[d]
        OBVIOUS
      <3>2. y.mark = r.mark /\ RowFlagged(market, y, d) /\ (s \in Accounts => AccountFlagged(market, y, d))
        BY <1>1, <2>1, <3>1 DEF FlagInv, PlanFlagged
      <3>3. x = AnchorWrite(r, y)
        BY <1>3, <2>1, <3>1
      <3>4. QED
        BY <1>2, <3>2, <3>3, AnchorFlagged
    <2>2. CASE d \notin DOMAIN t
      BY <1>2, <1>3, <2>2
    <2>3. QED
      BY <2>1, <2>2
  <1>5. u = IF W # {} /\ p.rebase # None /\ d = p.b
            THEN RebaseWrite(x, Gap(p.points), p.rebase.flow, p.rebase.was) ELSE x
    BY <1>1, <1>3 DEF Flushed, RowsOf, AnchorWrite, RebaseWrite
  <1>6. CASE W # {} /\ p.rebase # None /\ d = p.b
    <2>1. PICK f, b : f = p.rebase.flow /\ b = [kept |-> TRUE, gap |-> Gap(p.points), flow |-> p.rebase.was]
      OBVIOUS
    <2>2. u = [x EXCEPT !.flow = f, !.rebase = b]
      BY <1>5, <1>6, <2>1 DEF RebaseWrite
    <2>3. Columns(x)
      BY <1>4 DEF RowFlagged
    <2>4. u = [nav |-> x.nav, legs |-> x.legs, flow |-> f, prov |-> x.prov, mark |-> x.mark,
               restate |-> x.restate, rebase |-> b]
      BY <2>2, <2>3 DEF Columns
    <2>5. QED
      BY <1>4, <2>4, FlowWritten
  <1>7. CASE ~(W # {} /\ p.rebase # None /\ d = p.b)
    BY <1>4, <1>5, <1>7
  <1>8. QED
    BY <1>6, <1>7

\* apply_plan.
LEMMA ApplyFlagged ==
  ASSUME FlagInv, ApplyPlan
  PROVE  FlagInv'
  <1>1. /\ plan # None /\ plan' = None /\ market' = market
        /\ rows' = [s \in Series |-> [d \in DOMAIN rows[s] \cup WritableOf(s) |-> Flushed(s, d, WritableOf(s))]]
    BY DEF ApplyPlan, world, RowsOf
  <1>2. ASSUME NEW s \in Series, NEW d \in DOMAIN rows'[s]
        PROVE  /\ d \in Days /\ RowFlagged(market, rows'[s][d], d)
               /\ s \in Accounts => AccountFlagged(market, rows'[s][d], d)
    <2>1. PICK W, p, u : W = WritableOf(s) /\ p = plan.of[s] /\ u = Flushed(s, d, W)
      OBVIOUS
    <2>2. d \in DOMAIN rows[s] \cup W /\ rows'[s][d] = u
      BY <1>1, <2>1
    <2>3. W \subseteq p.points \ DOMAIN rows[s]
      BY <2>1, WritableDays
    <2>4. CASE d \in W
      <3>1. u = Inserted(p, d)
        BY <2>1, <2>4 DEF Flushed
      <3>2. d \in Days /\ Legged(p.rows[d].value) /\ Honest(market, p.rows[d].value, p.rows[d].flagged, d)
            /\ p.rows[d].flagged \subseteq Legs
        BY <1>1, <2>1, <2>3, <2>4 DEF FlagInv, PlanFlagged, Proposed
      <3>3. QED
        BY <2>2, <3>1, <3>2, InsertedFlagged
    <2>5. CASE d \notin W
      <3>1. d \in Days /\ d \in DOMAIN rows[s]
        BY <2>2, <2>5 DEF FlagInv, RowsFlagged
      <3>2. QED
        BY <1>1, <2>1, <2>2, <2>5, <3>1, FlushFlagged
    <2>6. QED
      BY <2>4, <2>5
  <1>3. RowsFlagged'
    BY <1>1, <1>2 DEF RowsFlagged
  <1>4. QED
    BY <1>1, <1>3 DEF FlagInv, PlanFlagged

\* restore_stashes and undo.
LEMMA UndoFlagged ==
  ASSUME FlagInv, (\E range \in Ranges : RestoreStashes(range)) \/ DeleteMarked
  PROVE  FlagInv'
  <1>1. CASE \E range \in Ranges : RestoreStashes(range)
    <2>1. PICK range : /\ plan = None /\ plan' = plan /\ market' = market
                       /\ rows' = [s \in Series |-> [d \in DOMAIN rows[s] |-> Unstash(rows[s][d], range)]]
      BY <1>1 DEF RestoreStashes, world, RowsOf
    <2>2. ASSUME NEW s \in Series, NEW d \in DOMAIN rows'[s]
          PROVE  /\ d \in Days /\ RowFlagged(market, rows'[s][d], d)
                 /\ s \in Accounts => AccountFlagged(market, rows'[s][d], d)
      <3>1. PICK r, u : r = rows[s][d] /\ u = Unstash(r, range)
        OBVIOUS
      <3>2. d \in DOMAIN rows[s] /\ rows'[s][d] = u
        BY <2>1, <3>1
      <3>3. d \in Days /\ RowFlagged(market, r, d) /\ (s \in Accounts => AccountFlagged(market, r, d))
        BY <3>1, <3>2 DEF FlagInv, RowsFlagged
      <3>4. QED
        BY <3>1, <3>2, <3>3, UnstashFlagged
    <2>3. RowsFlagged'
      BY <2>1, <2>2 DEF RowsFlagged
    <2>4. QED
      BY <2>1, <2>3 DEF FlagInv, PlanFlagged
  <1>2. CASE DeleteMarked
    <2>1. /\ undoing # None /\ plan' = plan /\ market' = market
          /\ rows' = [s \in Series |-> [d \in DOMAIN rows[s] \ Marked(rows[s], undoing) |-> rows[s][d]]]
      BY <1>2 DEF DeleteMarked, world, RowsOf
    <2>2. plan = None
      BY <2>1 DEF FlagInv, PlanFlagged
    <2>3. \A s \in Series : \A d \in DOMAIN rows'[s] : d \in DOMAIN rows[s] /\ rows'[s][d] = rows[s][d]
      BY <2>1
    <2>4. RowsFlagged'
      BY <2>1, <2>3 DEF FlagInv, RowsFlagged
    <2>5. QED
      BY <2>1, <2>2, <2>4 DEF FlagInv, PlanFlagged
  <1>3. QED
    BY <1>1, <1>2

\* The nightly rewrite of the portfolio.
LEMMA RebuildFlagged ==
  ASSUME FlagInv, ShapeInv, Rebuild
  PROVE  FlagInv'
  <1>1. PICK t, u : t = rows[Portfolio] /\ u = Rebuilt(t)
    OBVIOUS
  <1>2. rows' = [rows EXCEPT ![Portfolio] = u] /\ market' = market /\ plan' = plan /\ undoing' = undoing
    BY <1>1 DEF Rebuild, world
  <1>3. Portfolio \in Series /\ Portfolio \notin Accounts
    BY DEF Series
  <1>4. DOMAIN u = DOMAIN t \cup TradeDays
    BY <1>1 DEF Rebuilt, RowsOf
  <1>5. rows'[Portfolio] = u /\ \A s \in Series : s # Portfolio => rows'[s] = rows[s]
    BY <1>2, <1>3 DEF ShapeInv
  <1>6. TradeDays \subseteq Days
    BY DEF ShapeInv, TradeDays
  <1>7. \A d \in DOMAIN t : d \in Days /\ RowFlagged(market, t[d], d)
    BY <1>1, <1>3 DEF FlagInv, RowsFlagged
  <1>8. ASSUME NEW d PROVE RowFlagged(market, Blank(Portfolio, d), d) /\ Blank(Portfolio, d).mark = None
    <2>1. PICK b, v : b = Blank(Portfolio, d) /\ v = Closing(Portfolio, d)
      OBVIOUS
    <2>2. b = [nav |-> v, legs |-> None, flow |-> 0, prov |-> FALSE,
               mark |-> None, restate |-> NoStash, rebase |-> NoStash]
      BY <2>1 DEF Blank
    <2>3. /\ b.nav = v /\ b.legs = None /\ b.flow = 0 /\ b.prov = FALSE /\ b.mark = None
          /\ b.restate = NoStash /\ b.rebase = NoStash
      BY <2>2
    <2>4. Columns(b) /\ NoStash.kept = FALSE
      BY <2>2, <2>3 DEF Columns, NoStash
    <2>5. QED
      BY <2>1, <2>3, <2>4 DEF RowFlagged
  <1>9. ASSUME NEW d \in DOMAIN u
        PROVE  /\ d \in Days /\ RowFlagged(market, u[d], d)
               /\ d \in DOMAIN t => u[d].mark = t[d].mark
    <2>1. d \in Days
      BY <1>4, <1>6, <1>7
    <2>2. CASE d \notin TradeDays
      <3>1. d \in DOMAIN t /\ u[d] = t[d]
        BY <1>1, <1>4, <2>2 DEF Rebuilt, RowsOf
      <3>2. QED
        BY <1>7, <3>1
    <2>3. CASE d \in TradeDays
      <3>1. PICK r, v, f : /\ r = IF d \in DOMAIN t THEN t[d] ELSE Blank(Portfolio, d)
                           /\ v = Closing(Portfolio, d) /\ f = Bought(Portfolio, d - 1, d)
        OBVIOUS
      <3>2. u[d] = JobWrite(r, v, f)
        BY <1>1, <2>3, <3>1 DEF Rebuilt, RowsOf, JobWrite
      <3>3. RowFlagged(market, r, d)
        BY <1>7, <1>8, <3>1
      <3>4. PICK w : w = u[d]
        OBVIOUS
      <3>5. RowFlagged(market, w, d)
        BY <3>2, <3>3, <3>4, JobFlagged
      <3>6. w.mark = r.mark
        <4>1. Columns(r)
          BY <3>3 DEF RowFlagged
        <4>2. w = [nav |-> v, legs |-> r.legs, flow |-> f, prov |-> FALSE,
                   mark |-> r.mark, restate |-> r.restate, rebase |-> r.rebase]
          BY <3>2, <3>4, <4>1 DEF JobWrite, Columns
        <4>3. QED
          BY <4>2
      <3>7. QED
        BY <2>1, <3>1, <3>4, <3>5, <3>6
    <2>4. QED
      BY <2>2, <2>3
  <1>10. RowsFlagged'
    <2>1. ASSUME NEW s \in Series, NEW d \in DOMAIN rows'[s]
          PROVE  /\ d \in Days /\ RowFlagged(market, rows'[s][d], d)
                 /\ s \in Accounts => AccountFlagged(market, rows'[s][d], d)
      <3>1. CASE s = Portfolio
        BY <1>3, <1>5, <1>9, <3>1
      <3>2. CASE s # Portfolio
        BY <1>5, <3>2 DEF FlagInv, RowsFlagged
      <3>3. QED
        BY <3>1, <3>2
    <2>2. QED
      BY <1>2, <2>1 DEF RowsFlagged
  <1>11. PlanFlagged'
    <2>1. SUFFICES ASSUME plan # None
                   PROVE  \A s \in Series : /\ DOMAIN plan.ts[s] \subseteq DOMAIN rows'[s]
                                            /\ \A d \in DOMAIN plan.ts[s] : plan.ts[s][d].mark = rows'[s][d].mark
      BY <1>2 DEF FlagInv, PlanFlagged
    <2>2. \A s \in Series : /\ DOMAIN plan.ts[s] \subseteq DOMAIN rows[s]
                            /\ \A d \in DOMAIN plan.ts[s] : plan.ts[s][d].mark = rows[s][d].mark
      BY <2>1 DEF FlagInv, PlanFlagged
    <2>3. QED
      BY <1>1, <1>3, <1>4, <1>5, <1>9, <2>2
  <1>12. QED
    BY <1>2, <1>10, <1>11 DEF FlagInv

\* Every step keeps the flags.
LEMMA StepFlagged ==
  ASSUME FlagInv, ShapeInv, [Next]_vars
  PROVE  FlagInv'
  <1>1. CASE UNCHANGED vars
    BY <1>1 DEF vars, FlagInv, RowsFlagged, PlanFlagged
  <1>2. ASSUME NEW o \in Settings, NEW range \in Ranges, PlanGap(o, range) PROVE FlagInv'
    BY <1>2, PlanGapFlagged
  <1>3. CASE DropPlan
    BY <1>3 DEF DropPlan, world, FlagInv, RowsFlagged, PlanFlagged
  <1>4. CASE ApplyPlan
    BY <1>4, ApplyFlagged
  <1>5. CASE Undo
    BY <1>5, UndoFlagged DEF Undo
  <1>6. CASE Rebuild
    BY <1>6, RebuildFlagged
  <1>7. QED
    BY <1>1, <1>2, <1>3, <1>4, <1>5, <1>6 DEF Next, Command

\* "Nothing is copied forward": in every row the tool inserts, a leg that is not named as
\* estimated has the close of its own day, the last one where no market was open or the leg
\* is foreign, or one price throughout.  The flags outlive restated anchors, sums over the
\* accounts of one run or several, undos and the nightly job.
THEOREM EstimatesFlagged ==
  ASSUME SharesCloseEverySession
  PROVE  Spec => []EstimatesAreFlagged
  <1>1. Init => Inv /\ FlagInv
    BY InitInv, InitFlagged
  <1>2. Inv /\ FlagInv /\ [Next]_vars => Inv' /\ FlagInv'
    BY StepInv, StepFlagged DEF Inv
  <1>3. FlagInv => EstimatesAreFlagged
    BY DEF FlagInv, RowsFlagged, RowFlagged, Honest, Good, EstimatesAreFlagged, RowsOf
  <1>4. QED
    BY <1>1, <1>2, <1>3, PTL DEF Spec
----------------------------------------------------------------------------
\* What a plan writes adds up: the flows of the inserted rows are those the row after
\* the gap gives up, or there are none.
PlannedFlow(p) == [d \in p.points |-> p.rows[d].flow]
Conserving(t, p) == p.points # {} =>
  /\ IsFiniteSet(p.points) /\ \A d \in p.points : p.rows[d].flow \in Nat
  /\ p.rebase # None => p.rebase.flow \in Nat
  /\ ~Overlooked(t, p) =>
       IF p.rebase = None THEN \A d \in p.points : p.rows[d].flow = 0
       ELSE SumFunctionOnSet(PlannedFlow(p), p.points) + p.rebase.flow = p.rebase.was

\* Purchases are counted.
LEMMA BoughtIsNat ==
  ASSUME bought \in Histories, NEW s \in Series, NEW x, NEW y
  PROVE  Bought(s, x, y) \in Nat /\ Flow(s, x, y) \in Nat
  <1> DEFINE In(a) == {d \in bought[a] : x < d /\ d <= y}
             f == [a \in Accounts |-> Cardinality(In(a))]
  <1>1. Bought(s, x, y) = IF s = Portfolio THEN SumFunction(f) ELSE f[s]
    BY Zenon DEF Bought
  <1>2. ASSUME NEW a \in Accounts PROVE f[a] \in Nat
    <2>1. bought[a] \subseteq Days
      OBVIOUS
    <2>2. IsFiniteSet(Days)
      BY FS_Interval DEF Days
    <2>3. IsFiniteSet(In(a))
      BY <2>1, <2>2, FS_Subset
    <2>4. QED
      BY <2>3, FS_CardinalityType
  <1>3. DOMAIN f = Accounts
    OBVIOUS
  <1> HIDE DEF f
  <1>4. SumFunctionOnSet(f, Accounts) \in Nat
    BY <1>2, SumSplit
  <1>5. SumFunction(f) \in Nat
    BY <1>3, <1>4, Zenon DEF SumFunction
  <1>7. Bought(s, x, y) \in Nat
    BY <1>1, <1>2, <1>5 DEF Series
  <1>8. QED
    BY <1>7 DEF Flow

\* _settle_flows: a plan it lets through adds up, but for an overlooked flow.
LEMMA SettledConserves ==
  ASSUME bought \in Histories, NEW s \in Series, NEW t, NEW missing, NEW a, NEW b, NEW qs, NEW p,
         p = [points |-> missing, a |-> a, b |-> b, rebase |-> None, rows |-> qs],
         missing \subseteq Days \ DOMAIN t, DOMAIN t \subseteq Days,
         t[b].flow \in Nat, \A d \in missing : qs[d].flow \in Nat
  PROVE  Conserving(t, Settled(s, t, p))
  <1> DEFINE inside == Inside(t, p)
             last == {d \in p.points : \A x \in inside : x < d}
             rebased == Flow(s, Max(last), p.b)
             given == [d \in last |-> p.rows[d].flow]
             inserted == SumFunction(given)
             q == Settled(s, t, p)
             f == PlannedFlow(p)
  <1>1. p.points = missing /\ p.b = b /\ p.a = a /\ p.rebase = None /\ p.rows = qs
    OBVIOUS
  <1>2. \/ q = Skip
        \/ last = {} /\ q = p
        \/ /\ last # {} /\ inserted + rebased = t[p.b].flow
           /\ q = [p EXCEPT !.rebase = IF rebased = t[p.b].flow THEN None
                                       ELSE [flow |-> rebased, was |-> t[p.b].flow]]
    BY Zenon DEF Settled
  <1>3. IsFiniteSet(missing) /\ IsFiniteSet(last) /\ last \subseteq missing
    <2>1. IsFiniteSet(Days)
      BY FS_Interval DEF Days
    <2>2. last \subseteq missing /\ missing \subseteq Days
      BY <1>1
    <2> HIDE DEF last
    <2>3. QED
      BY <2>1, <2>2, FS_Subset
  <1>4. \A d \in missing : f[d] = qs[d].flow /\ f[d] \in Nat
    BY <1>1 DEF PlannedFlow
  <1>5. ASSUME ~Overlooked(t, p), NEW d \in missing \ last PROVE f[d] = 0
    <2>1. PICK x \in inside : ~(x < d)
      BY <1>1
    <2>2. x \in DOMAIN t
      BY <2>1 DEF Inside, RowsOf
    <2>3. x \in Nat /\ d \in Nat /\ x # d
      BY <2>2 DEF Days
    <2>4. d < x
      BY <2>1, <2>3
    <2>5. QED
      BY <1>1, <1>4, <1>5, <2>1, <2>4 DEF Overlooked
  <1>6. rebased \in Nat
    BY BoughtIsNat
  <1>7. inserted = SumFunctionOnSet(f, last)
    <2>1. DOMAIN given = last
      OBVIOUS
    <2>2. \A d \in last : given[d] = f[d] /\ f[d] \in Nat
      BY <1>1, <1>3, <1>4
    <2> HIDE DEF given, last, f
    <2>3. SumFunctionOnSet(f, last) = SumFunctionOnSet(given, last)
      BY <1>3, <2>2, SumSame
    <2>4. QED
      BY <2>1, <2>3, Zenon DEF SumFunction
  <1>8. ~Overlooked(t, p) => SumFunctionOnSet(f, last) = SumFunctionOnSet(f, missing)
    <2> HIDE DEF f, last
    <2>1. QED
      BY <1>3, <1>4, <1>5, SumPart
  <1>9. CASE q = Skip
    <2>1. q.points = {}
      BY <1>9 DEF Skip
    <2>2. QED
      BY <2>1 DEF Conserving
  <1> HIDE DEF inserted, rebased
  <1>10. CASE last = {} /\ q = p
    <2>1. ~Overlooked(t, p) => \A d \in p.points : p.rows[d].flow = 0
      BY <1>1, <1>4, <1>5, <1>10
    <2>2. Conserving(t, p)
      BY <1>1, <1>3, <2>1 DEF Conserving
    <2>3. QED
      BY <1>10, <2>2
  <1>11. CASE /\ last # {} /\ inserted + rebased = t[p.b].flow
              /\ q = [p EXCEPT !.rebase = IF rebased = t[p.b].flow THEN None
                                          ELSE [flow |-> rebased, was |-> t[p.b].flow]]
    <2>1. PICK w : w = t[b].flow
      OBVIOUS
    <2>2. PICK n, e : n = rebased /\ e = IF n = w THEN None ELSE [flow |-> n, was |-> w]
      OBVIOUS
    <2>3. PICK k : k = q
      OBVIOUS
    <2>4. k = [points |-> missing, a |-> a, b |-> b, rebase |-> e, rows |-> qs]
      <3>1. k = [p EXCEPT !.rebase = e]
        BY <1>1, <1>11, <2>1, <2>2, <2>3
      <3> HIDE DEF f, q
      <3>2. QED
        BY <3>1
    <2>5. k.points = missing /\ k.a = a /\ k.b = b /\ k.rebase = e /\ k.rows = qs
      BY <2>4
    <2>6. Overlooked(t, k) <=> Overlooked(t, p)
      BY <1>1, <2>5 DEF Overlooked, Inside
    <2>7. PlannedFlow(k) = f
      BY <1>1, <2>5 DEF PlannedFlow
    <2>8. n \in Nat /\ w \in Nat /\ inserted + n = w
      BY <1>1, <1>6, <1>11, <2>1, <2>2
    <2>9. ~Overlooked(t, k) => SumFunctionOnSet(f, missing) + n = w
      BY <1>7, <1>8, <2>6, <2>8
    <2>10. SumFunctionOnSet(f, missing) \in Nat
      <3> HIDE DEF f
      <3>1. QED
        BY <1>3, <1>4, SumSplit
    <2>11. n = w => e = None
      BY <2>2
    <2>12. n # w => e # None /\ e.flow = n /\ e.was = w
      <3>1. ASSUME n # w PROVE e = [flow |-> n, was |-> w]
        BY <2>2, <3>1
      <3>2. n # w => e \in [flow : Nat, was : Nat]
        BY <2>8, <3>1
      <3>3. QED
        BY <3>1, <3>2, NoneAssumption
    <2>13. n = w /\ ~Overlooked(t, k) => \A d \in missing : qs[d].flow = 0
      <3>1. SUFFICES ASSUME n = w, ~Overlooked(t, k) PROVE \A d \in missing : f[d] = 0
        BY <1>4
      <3>2. SumFunctionOnSet(f, missing) = 0
        BY <2>8, <2>9, <2>10, <3>1
      <3> HIDE DEF f
      <3>3. QED
        BY <1>3, <1>4, <3>2, SumZero
    <2> HIDE DEF q, f, last
    <2>14. Conserving(t, k)
      BY <1>3, <1>4, <2>5, <2>7, <2>8, <2>9, <2>11, <2>12, <2>13 DEF Conserving
    <2>15. QED
      BY <2>3, <2>14 DEF q
  <1>12. QED
    BY <1>2, <1>9, <1>10, <1>11

\* A plan of no flows that rebases nothing adds up.
LEMMA PlainConserves ==
  ASSUME NEW t, NEW p, IsFiniteSet(p.points), p.rebase = None, \A d \in p.points : p.rows[d].flow = 0
  PROVE  Conserving(t, p)
  BY DEF Conserving

\* A series that is skipped gets no flow.
LEMMA SkipConserves == ASSUME NEW t PROVE Conserving(t, Skip)
  BY DEF Skip, Conserving

\* So does the plan of one series: its flows are those of the live writer.
LEMMA PlanSeriesConserves ==
  ASSUME bought \in Histories, NEW s \in Series, NEW t, NEW missing, NEW gap, NEW o,
         missing \subseteq Days \ DOMAIN t, DOMAIN t \subseteq Days, t[gap.b].flow \in Nat
  PROVE  Conserving(t, PlanSeries(s, t, missing, gap, o))
  <1> DEFINE qs == [d \in missing |-> PlannedRow(s, t, missing, gap, o, d)]
             planned == [points |-> missing, a |-> gap.a, b |-> gap.b, rebase |-> None, rows |-> qs]
             rs == [d \in missing |-> [qs[d] EXCEPT !.flow = FlowOn(s, t, planned, d)]]
             settled == [points |-> missing, a |-> gap.a, b |-> gap.b, rebase |-> None, rows |-> rs]
  <1>1. ASSUME NEW d PROVE \E v, S : PlannedRow(s, t, missing, gap, o, d) = [value |-> v, flow |-> 0, flagged |-> S]
    BY Zenon DEF PlannedRow
  <1>2. IsFiniteSet(missing)
    <2>1. IsFiniteSet(Days)
      BY FS_Interval DEF Days
    <2>2. QED
      BY <2>1, FS_Subset
  <1>3. Conserving(t, planned)
    <2>1. ASSUME NEW d \in missing PROVE qs[d].flow = 0
      <3>1. PICK r : r = PlannedRow(s, t, missing, gap, o, d)
        OBVIOUS
      <3>2. r.flow = 0
        BY <1>1, <3>1
      <3>3. QED
        BY <3>1, <3>2
    <2>2. PICK p : p = planned
      OBVIOUS
    <2> HIDE DEF qs
    <2>3. p.points = missing /\ p.rebase = None /\ p.rows = qs
      BY <2>2
    <2>4. Conserving(t, p)
      BY <1>2, <2>1, <2>3, PlainConserves
    <2>5. QED
      BY <2>2, <2>4
  <1>4. ASSUME NEW d \in missing PROVE rs[d].flow \in Nat
    <2>1. PICK r, f : r = PlannedRow(s, t, missing, gap, o, d) /\ f = FlowOn(s, t, planned, d)
      OBVIOUS
    <2>2. rs[d] = [r EXCEPT !.flow = f]
      BY <2>1
    <2>3. \E y : f = Flow(s, y, d)
      BY <2>1, Zenon DEF FlowOn
    <2>4. f \in Nat
      BY <2>3, BoughtIsNat
    <2>5. \E v, S : r = [value |-> v, flow |-> 0, flagged |-> S]
      BY <1>1, <2>1
    <2> HIDE DEF rs
    <2>6. rs[d].flow = f
      BY <2>2, <2>5
    <2>7. QED
      BY <2>4, <2>6
  <1>5. \/ PlanSeries(s, t, missing, gap, o) = Skip
        \/ PlanSeries(s, t, missing, gap, o) = planned
        \/ PlanSeries(s, t, missing, gap, o) = Settled(s, t, [planned EXCEPT !.rows = rs])
    BY DEF PlanSeries
  <1> HIDE DEF qs, rs
  <1>6. [planned EXCEPT !.rows = rs] = settled
    OBVIOUS
  <1>7. Conserving(t, Settled(s, t, settled))
    <2>1. PICK p : p = settled
      OBVIOUS
    <2> HIDE DEF planned
    <2>2. Conserving(t, Settled(s, t, p))
      BY <1>4, <2>1, SettledConserves
    <2>3. QED
      BY <2>1, <2>2
  <1> HIDE DEF planned, settled
  <1>8. QED
    BY <1>3, <1>5, <1>6, <1>7, SkipConserves

\* And the portfolio's from the accounts: each flow is the sum of theirs.
LEMMA PlanFromAccountsConserves ==
  ASSUME bought \in Histories, NEW ts, NEW plans, NEW missing, NEW gap,
         \A x \in Accounts : \A d \in DOMAIN ts[x] : ts[x][d].flow \in Nat,
         \A x \in Accounts : \A d \in plans[x].points : plans[x].rows[d].flow \in Nat,
         missing \subseteq Days \ DOMAIN ts[Portfolio], DOMAIN ts[Portfolio] \subseteq Days,
         ts[Portfolio][gap.b].flow \in Nat
  PROVE  Conserving(ts[Portfolio], PlanFromAccounts(ts, plans, missing, gap))
  <1> DEFINE On(a, d) == IF d \in RowsOf(ts[a])
                  THEN [value |-> ts[a][d].nav, flow |-> ts[a][d].flow, flagged |-> FlagsOf(ts[a][d])]
                  ELSE plans[a].rows[d]
             Cohort(d) == {a \in Accounts : d \in RowsOf(ts[a]) \cup plans[a].points}
             SumOn(d) == Total([a \in Cohort(d) |-> On(a, d).value])
             Flows(d) == [a \in Cohort(d) |-> On(a, d).flow]
             FlowSum(d) == SumFunction(Flows(d))
             Flags(d) == UNION {On(a, d).flagged : a \in Cohort(d)}
             qs == [d \in missing |-> [value |-> SumOn(d), flagged |-> Flags(d), flow |-> FlowSum(d)]]
             p == [points |-> missing, a |-> gap.a, b |-> gap.b, rebase |-> None, rows |-> qs]
  <1>1. ASSUME NEW d, NEW a \in Cohort(d) PROVE On(a, d).flow \in Nat
    <2>1. CASE d \in RowsOf(ts[a])
      BY <2>1 DEF RowsOf
    <2>2. CASE d \notin RowsOf(ts[a])
      BY <2>2
    <2>3. QED
      BY <2>1, <2>2
  <1>2. ASSUME NEW d PROVE FlowSum(d) \in Nat
    <2>1. PICK f : f = Flows(d)
      OBVIOUS
    <2>2. IsFiniteSet(Cohort(d))
      BY FS_Subset
    <2> HIDE DEF On, Cohort
    <2>3. DOMAIN f = Cohort(d) /\ \A a \in Cohort(d) : f[a] \in Nat
      BY <1>1, <2>1
    <2>4. SumFunctionOnSet(f, DOMAIN f) \in Nat
      BY <2>2, <2>3, SumSplit
    <2>5. SumFunction(f) \in Nat
      BY <2>4, Zenon DEF SumFunction
    <2>6. QED
      BY <2>1, <2>5
  <1>3. \A d \in missing : qs[d].flow \in Nat
    <2> HIDE DEF SumOn, Flags, FlowSum
    <2>1. QED
      BY <1>2
  <1>4. \/ PlanFromAccounts(ts, plans, missing, gap) = Skip
        \/ PlanFromAccounts(ts, plans, missing, gap) = Settled(Portfolio, ts[Portfolio], p)
    BY Zenon DEF PlanFromAccounts
  <1> HIDE DEF qs
  <1>5. Conserving(ts[Portfolio], Settled(Portfolio, ts[Portfolio], p))
    <2>1. PICK x, t : x = p /\ t = ts[Portfolio]
      OBVIOUS
    <2>2. Portfolio \in Series
      BY DEF Series
    <2> HIDE DEF p
    <2>3. Conserving(t, Settled(Portfolio, t, x))
      BY <1>3, <2>1, <2>2, SettledConserves DEF p
    <2>4. QED
      BY <2>1, <2>3
  <1> HIDE DEF p
  <1>6. QED
    BY <1>4, <1>5, SkipConserves

\* The flows of a series, were the days D undone: the tool's rows on them are gone and the
\* flows it stashed for gaps with one of them are back.
Met(gap, D) == \E d \in D : gap.lo <= d /\ d <= gap.hi
RowFlow(r, d, D) ==
  IF r.mark # None /\ d \in D THEN 0
  ELSE IF r.rebase.kept /\ Met(r.rebase.gap, D) THEN r.rebase.flow ELSE r.flow
UndoneFlow(t, D) == [d \in Days |-> IF d \in DOMAIN t THEN RowFlow(t[d], d, D) ELSE 0]
Undone(t, D) == SumFunctionOnSet(UndoneFlow(t, D), Days)

\* Days that hold runs of A whole, and with a run all later ones: what an undo may cover
\* in one go.  For the days of a range this is Latest.
Hit(q, D) == q.days \cap D # {}
Whole(D, A) == \A q \in A : Hit(q, D) =>
  /\ q.days \subseteq D
  /\ \A j \in A : q.number <= j.number => Hit(j, D)

\* The days whose stashes the undo under way has restored.
Handed(u) == IF u = None THEN {} ELSE DaysOf(u)

\* A row's flows are purchases.
Counted(t) == \A d \in DOMAIN t : t[d].flow \in Nat /\ (t[d].rebase.kept => t[d].rebase.flow \in Nat)

\* Runs are numbered in order and have days left.
RunsInv ==
  /\ runs \in Nat
  /\ \A q \in applied : q.number \in Nat /\ q.number < runs /\ q.days # {}

\* Whatever an undo may cover, the flows add up to what they do now.
Even(t, A, u) == \A D \in SUBSET Days :
  Whole(D, A) /\ Handed(u) \subseteq D => Undone(t, D) = Undone(t, Handed(u))

\* The inductive invariant of the flows.
FlowInv ==
  /\ RunsInv
  /\ ~crossed /\ ~loose /\ undoing # None => Latest(undoing)
  /\ ~crossed => \A s \in Series :
       /\ Counted(rows[s])
       /\ plan # None => Conserving(plan.ts[s], plan.of[s])
       /\ ~loose => Even(rows[s], applied, undoing)

\* The days of a series are finitely many.
LEMMA DaysFinite == IsFiniteSet(Days) /\ Days \in SUBSET Nat /\ {} \in SUBSET Days
  BY FS_Interval DEF Days

\* A range is days of the series.
LEMMA RangeDays ==
  ASSUME NEW R \in Ranges
  PROVE  /\ R.lo \in Int /\ R.hi \in Int /\ R.lo <= R.hi /\ R # None
         /\ DaysOf(R) \in SUBSET Days /\ DaysOf(R) # {}
  <1>1. PICK lo, hi : lo = R.lo /\ hi = R.hi
    OBVIOUS
  <1>2. lo \in 2..Last - 1 /\ hi \in 2..Last - 1 /\ lo <= hi
    BY <1>1 DEF Ranges
  <1>3. lo..hi \in SUBSET Days /\ lo \in lo..hi
    BY <1>2 DEF Days
  <1>4. R # None
    <2>1. R \in [lo : Nat, hi : Nat]
      BY DEF Ranges
    <2>2. QED
      BY <2>1, NoneAssumption
  <1>5. QED
    BY <1>1, <1>2, <1>3, <1>4 DEF DaysOf

\* The flow that is left of a row is a number, and so is the sum.
LEMMA UndoneIsNat ==
  ASSUME NEW t, Counted(t), NEW D
  PROVE  /\ \A d \in Days : UndoneFlow(t, D)[d] \in Nat
         /\ Undone(t, D) \in Nat
  <1>1. \A d \in Days : UndoneFlow(t, D)[d] \in Nat
    BY DEF UndoneFlow, RowFlow, Counted
  <1>2. QED
    BY <1>1, SumSplit, DaysFinite DEF Undone

\* Two series are left the same sum if they are left the same flow on every day.
LEMMA UndoneSame ==
  ASSUME NEW t, NEW D, NEW u, NEW E, Counted(t),
         \A d \in Days : UndoneFlow(t, D)[d] = UndoneFlow(u, E)[d]
  PROVE  Undone(t, D) = Undone(u, E)
  <1>1. \A d \in Days : UndoneFlow(t, D)[d] \in Nat
    BY UndoneIsNat
  <1>2. PICK f, g : f = UndoneFlow(t, D) /\ g = UndoneFlow(u, E)
    OBVIOUS
  <1>3. \A d \in Days : f[d] \in Nat /\ g[d] = f[d]
    BY <1>1, <1>2
  <1>4. SumFunctionOnSet(f, Days) = SumFunctionOnSet(g, Days)
    BY <1>3, SumSame, DaysFinite
  <1>5. QED
    BY <1>2, <1>4 DEF Undone

\* The same row by row.
LEMMA RowsSame ==
  ASSUME NEW t, NEW D, NEW u, NEW E, Counted(t), DOMAIN u = DOMAIN t,
         \A d \in DOMAIN t : RowFlow(t[d], d, D) = RowFlow(u[d], d, E)
  PROVE  Undone(t, D) = Undone(u, E)
  <1>1. \A d \in Days : UndoneFlow(t, D)[d] = UndoneFlow(u, E)[d]
    BY DEF UndoneFlow
  <1>2. QED
    BY <1>1, UndoneSame

\* Days that no run has leave the flows as they are: a stash or a mark is a run's.
LEMMA NoRunMet ==
  ASSUME NEW t, NEW A, NEW D \in SUBSET Days, Counted(t),
         \A d \in DOMAIN t : RowOK(t[d], d, A), \A q \in A : ~Hit(q, D)
  PROVE  Undone(t, D) = Undone(t, {})
  <1>1. SUFFICES ASSUME NEW d \in DOMAIN t PROVE RowFlow(t[d], d, D) = RowFlow(t[d], d, {})
    BY <1>1, RowsSame
  <1>2. PICK r : r = t[d]
    OBVIOUS
  <1>3. RowOK(r, d, A)
    BY <1>2
  <1>4. r.mark # None => d \notin D
    <2>1. SUFFICES ASSUME r.mark # None, d \in D PROVE FALSE
      OBVIOUS
    <2>2. PICK q \in A : d \in q.days
      BY <1>3, <2>1 DEF RowOK, Covered
    <2>3. QED
      BY <2>1, <2>2 DEF Hit
  <1>5. r.rebase.kept => ~Met(r.rebase.gap, D)
    <2>1. SUFFICES ASSUME r.rebase.kept, Met(r.rebase.gap, D) PROVE FALSE
      OBVIOUS
    <2>2. PICK g : g = r.rebase.gap
      OBVIOUS
    <2>3. PICK q \in A : g.lo \in Int /\ g.hi \in Int /\ g.lo..g.hi \subseteq q.days
      BY <1>3, <2>1, <2>2 DEF RowOK, Traced
    <2>4. PICK e \in D : g.lo <= e /\ e <= g.hi
      BY <2>1, <2>2 DEF Met
    <2>5. e \in g.lo..g.hi
      BY <2>3, <2>4 DEF Days
    <2>6. QED
      BY <2>3, <2>5 DEF Hit
  <1>6. ~Met(r.rebase.gap, {})
    BY DEF Met
  <1>7. RowFlow(r, d, D) = RowFlow(r, d, {})
    BY <1>4, <1>5, <1>6 DEF RowFlow
  <1>8. QED
    BY <1>2, <1>7

\* A gap and a range overlap where the gap holds a day of the range.
LEMMA OverlapMet ==
  ASSUME NEW range \in Ranges, NEW g, g.lo \in Int, g.hi \in Int, g.lo <= g.hi
  PROVE  Overlap(g, range) <=> Met(g, DaysOf(range))
  <1>1. PICK a, b, lo, hi : a = g.lo /\ b = g.hi /\ lo = range.lo /\ hi = range.hi
    OBVIOUS
  <1>2. lo \in 2..Last - 1 /\ hi \in 2..Last - 1 /\ lo <= hi
    BY <1>1 DEF Ranges
  <1>3. ASSUME a <= hi, lo <= b PROVE \E e \in Days : lo <= e /\ e <= hi /\ a <= e /\ e <= b
    <2>1. CASE a <= lo
      <3>1. lo \in Days /\ lo <= lo /\ lo <= hi /\ a <= lo /\ lo <= b
        BY <1>2, <1>3, <2>1 DEF Days
      <3>2. QED
        BY <3>1
    <2>2. CASE ~(a <= lo)
      <3>1. a \in Days /\ lo <= a /\ a <= hi /\ a <= a /\ a <= b
        BY <1>1, <1>2, <1>3, <2>2 DEF Days
      <3>2. QED
        BY <3>1
    <2>3. QED
      BY <2>1, <2>2
  <1>4. ASSUME NEW e \in Days, lo <= e, e <= hi, a <= e, e <= b PROVE a <= hi /\ lo <= b
    BY <1>1, <1>2, <1>4 DEF Days
  <1>5. Overlap(g, range) <=> a <= hi /\ lo <= b
    BY <1>1 DEF Overlap
  <1>6. Met(g, DaysOf(range)) <=> \E e \in Days : lo <= e /\ e <= hi /\ a <= e /\ e <= b
    BY <1>1, <1>2 DEF Met, DaysOf, Days
  <1>7. QED
    BY <1>3, <1>4, <1>5, <1>6

\* A range that holds whole runs, the latest.
LEMMA LatestIsWhole ==
  ASSUME NEW range, Latest(range)
  PROVE  Whole(DaysOf(range), applied)
  BY DEF Latest, Whole, Hit

\* restore_stashes, row by row: the flow that is left is the same, if the runs of the
\* range are among those undone.
LEMMA UnstashedFlow ==
  ASSUME NEW range \in Ranges, NEW D \in SUBSET Days, DaysOf(range) \subseteq D,
         NEW r, NEW d, NEW A, RowOK(r, d, A), NEW v, v = Unstash(r, range)
  PROVE  /\ RowFlow(v, d, D) = RowFlow(r, d, D)
         /\ r.flow \in Nat /\ (r.rebase.kept => r.rebase.flow \in Nat) =>
              v.flow \in Nat /\ (v.rebase.kept => v.rebase.flow \in Nat)
  <1>1. PICK g, w : g = r.rebase.gap /\ w = r.rebase
    OBVIOUS
  <1>2. PICK q : q = IF r.restate.kept /\ Overlap(r.restate.gap, range)
                     THEN [r EXCEPT !.nav = r.restate.nav, !.legs = r.restate.legs, !.prov = TRUE, !.restate = NoStash]
                     ELSE r
    OBVIOUS
  <1>3. Columns(r)
    BY DEF RowOK
  <1>4. Columns(q) /\ q.flow = r.flow /\ q.mark = r.mark /\ q.rebase = w
    BY <1>1, <1>2, <1>3 DEF Columns
  <1>5. PICK u : u = IF w.kept /\ Overlap(g, range) THEN [q EXCEPT !.flow = w.flow, !.rebase = NoStash] ELSE q
    OBVIOUS
  <1>6. u = v
    BY <1>1, <1>2, <1>4, <1>5 DEF Unstash
  <1>7. CASE ~(w.kept /\ Overlap(g, range))
    <2>1. u = q
      BY <1>5, <1>7
    <2>2. QED
      BY <1>1, <1>4, <1>6, <2>1 DEF RowFlow
  <1>8. CASE w.kept /\ Overlap(g, range)
    <2>1. u.flow = w.flow /\ u.rebase = NoStash /\ u.mark = r.mark
      <3>1. u = [q EXCEPT !.flow = w.flow, !.rebase = NoStash]
        BY <1>5, <1>8
      <3>2. QED
        BY <1>4, <3>1 DEF Columns
    <2>2. g.lo \in Int /\ g.hi \in Int /\ g.lo <= g.hi
      BY <1>1, <1>8 DEF RowOK, Traced
    <2>3. Met(g, DaysOf(range))
      BY <1>8, <2>2, OverlapMet
    <2>4. Met(g, D)
      BY <2>3 DEF Met
    <2>5. ~NoStash.kept
      BY DEF NoStash
    <2>6. RowFlow(u, d, D) = IF r.mark # None /\ d \in D THEN 0 ELSE w.flow
      BY <2>1, <2>5 DEF RowFlow
    <2>7. RowFlow(r, d, D) = IF r.mark # None /\ d \in D THEN 0 ELSE w.flow
      BY <1>1, <1>8, <2>4 DEF RowFlow
    <2>8. QED
      BY <1>1, <1>6, <1>8, <2>1, <2>5, <2>6, <2>7
  <1>9. QED
    BY <1>7, <1>8

\* The first transaction of an undo: the flows that would be left if the whole range
\* were undone are the same before and after it.
LEMMA RestoreFlows ==
  ASSUME Inv, FlowInv, NEW R \in Ranges, RestoreStashes(R)
  PROVE  FlowInv'
  <1>2. /\ plan = None /\ undoing \in {None, R} /\ loose' = (loose \/ ~Latest(R))
        /\ rows' = [s \in Series |-> [d \in DOMAIN rows[s] |-> Unstash(rows[s][d], R)]]
        /\ undoing' = R /\ plan' = plan /\ applied' = applied /\ runs' = runs
        /\ crossed' = crossed
    BY Zenon DEF RestoreStashes, RowsOf
  <1>3. RunsInv
    BY Zenon DEF FlowInv
  <1>4. RunsInv' /\ (~loose' => Latest(undoing)')
    <2>1. RunsInv'
      BY <1>2, <1>3, Zenon DEF RunsInv
    <2>2. ~loose' => Latest(R)
      BY <1>2
    <2>3. Latest(R) => Latest(undoing)'
      BY <1>2 DEF Latest
    <2>4. QED
      BY <2>1, <2>2, <2>3
  <1>5. SUFFICES ASSUME ~crossed, NEW s \in Series
                 PROVE  /\ Counted(rows'[s]) /\ (~loose' => Even(rows'[s], applied, R))
    BY <1>2, <1>4, Zenon DEF FlowInv
  <1>6. PICK t, u : t = rows[s] /\ u = rows'[s]
    OBVIOUS
  <1>7. DOMAIN u = DOMAIN t /\ \A d \in DOMAIN t : u[d] = Unstash(t[d], R)
    BY <1>2, <1>6
  <1>8. Counted(t) /\ (~loose => Even(t, applied, undoing))
    BY <1>5, <1>6, Zenon DEF FlowInv
  <1>9. \A d \in DOMAIN t : RowOK(t[d], d, applied)
    BY <1>5, <1>6, Zenon DEF Inv, RowsInv
  <1>12. (~loose' => Whole(DaysOf(R), applied) /\ ~loose) /\ DaysOf(R) \in SUBSET Days
    BY <1>2, LatestIsWhole, RangeDays
  <1>13. ASSUME NEW D \in SUBSET Days, DaysOf(R) \subseteq D, NEW d \in DOMAIN t
         PROVE  /\ RowFlow(u[d], d, D) = RowFlow(t[d], d, D)
                /\ u[d].flow \in Nat /\ (u[d].rebase.kept => u[d].rebase.flow \in Nat)
    <2>1. PICK r, v : r = t[d] /\ v = Unstash(r, R) /\ v = u[d]
      BY <1>7
    <2>2. RowOK(r, d, applied) /\ r.flow \in Nat /\ (r.rebase.kept => r.rebase.flow \in Nat)
      BY <1>8, <1>9, <2>1 DEF Counted
    <2>3. /\ RowFlow(v, d, D) = RowFlow(r, d, D)
          /\ v.flow \in Nat /\ (v.rebase.kept => v.rebase.flow \in Nat)
      <3>1. PICK A : A = applied
        OBVIOUS
      <3>2. v = Unstash(r, R) /\ RowOK(r, d, A) /\ R \in Ranges
        BY <2>1, <2>2, <3>1
      <3>3. D \in SUBSET Days /\ DaysOf(R) \subseteq D
        BY <1>13
      <3>4. RowFlow(v, d, D) = RowFlow(r, d, D)
        BY <3>2, <3>3, UnstashedFlow
      <3>5. v.flow \in Nat /\ (v.rebase.kept => v.rebase.flow \in Nat)
        BY <2>2, <3>2, <3>3, UnstashedFlow
      <3>6. QED
        BY <3>4, <3>5
    <2>4. QED
      BY <2>1, <2>3
  <1>14. Counted(u)
    BY <1>7, <1>12, <1>13 DEF Counted
  <1>15. ASSUME NEW D \in SUBSET Days, DaysOf(R) \subseteq D PROVE Undone(u, D) = Undone(t, D)
    BY <1>7, <1>8, <1>13, <1>15, RowsSame
  <1>16. ASSUME ~loose' PROVE Even(u, applied, R)
    <2>1. Handed(R) = DaysOf(R)
      BY RangeDays DEF Handed
    <2>2. SUFFICES ASSUME NEW D \in SUBSET Days, Whole(D, applied), DaysOf(R) \subseteq D
                   PROVE  Undone(u, D) = Undone(u, DaysOf(R))
      BY <2>1 DEF Even
    <2>3. Handed(undoing) \subseteq DaysOf(R)
      BY <1>2 DEF Handed
    <2>4. Undone(t, D) = Undone(t, Handed(undoing)) /\ Undone(t, DaysOf(R)) = Undone(t, Handed(undoing))
      BY <1>8, <1>12, <1>16, <2>2, <2>3 DEF Even
    <2>5. Undone(u, D) = Undone(t, D) /\ Undone(u, DaysOf(R)) = Undone(t, DaysOf(R))
      BY <1>12, <1>15, <2>2
    <2>6. QED
      BY <2>4, <2>5
  <1>17. QED
    BY <1>6, <1>14, <1>16

\* Days with others added to them that hold whole runs, the latest, hold whole runs if
\* they do of the runs that are left.
LEMMA WholeAgain ==
  ASSUME NEW A, NEW W, Whole(W, A), NEW D, Whole(D, {q \in A : ~Hit(q, W)})
  PROVE  Whole(W \cup D, A)
  <1>1. \A q : Hit(q, W \cup D) <=> Hit(q, W) \/ Hit(q, D)
    BY DEF Hit
  <1>2. ASSUME NEW q \in A, Hit(q, W \cup D) PROVE q.days \subseteq W \cup D
    <2>1. CASE Hit(q, W)
      BY <2>1 DEF Whole
    <2>2. CASE ~Hit(q, W)
      BY <1>1, <1>2, <2>2 DEF Whole
    <2>3. QED
      BY <2>1, <2>2
  <1>3. ASSUME NEW q \in A, NEW j \in A, Hit(q, W \cup D), q.number <= j.number
        PROVE  Hit(j, W \cup D)
    <2>1. CASE Hit(j, W)
      BY <1>1, <2>1
    <2>2. CASE ~Hit(j, W)
      <3>1. ~Hit(q, W)
        BY <1>3, <2>2, Zenon DEF Whole
      <3>2. Hit(q, D)
        BY <1>1, <1>3, <3>1
      <3>3. Hit(j, D)
        BY <1>3, <2>2, <3>1, <3>2, Zenon DEF Whole
      <3>4. QED
        BY <1>1, <3>3
    <2>3. QED
      BY <2>1, <2>2
  <1>4. QED
    BY <1>2, <1>3, Zenon DEF Whole

\* The second transaction: the days of the undone range have no more rows, and the
\* flows are those left when they were handed back.
LEMMA DeletedFlow ==
  ASSUME NEW R \in Ranges, NEW D \in SUBSET Days, NEW A,
         NEW t, DOMAIN t \subseteq Days, Counted(t),
         \A d \in DOMAIN t : RowOK(t[d], d, A) /\ Unhanded(t[d], R),
         NEW u, DOMAIN u = DOMAIN t \ Marked(t, R), \A d \in DOMAIN u : u[d] = t[d]
  PROVE  Undone(u, D) = Undone(t, DaysOf(R) \cup D)
  <1>1. PICK W : W = DaysOf(R)
    OBVIOUS
  <1>2. PICK gone : gone = Marked(t, R)
    OBVIOUS
  <1>3. \A d \in Days : d \in gone <=> d \in DOMAIN t /\ d \in W /\ t[d].mark # None
    <2>1. R.lo \in Int /\ R.hi \in Int
      BY DEF Ranges
    <2>3. QED
      BY <1>1, <1>2, <2>1 DEF Marked, RowsOf, DaysOf
  <1>4. DOMAIN u = DOMAIN t \ gone /\ \A d \in DOMAIN u : u[d] = t[d]
    BY <1>2
  <1>5. SUFFICES ASSUME NEW d \in Days
                 PROVE  UndoneFlow(t, W \cup D)[d] = UndoneFlow(u, D)[d]
    <2>1. PICK E : E = W \cup D
      OBVIOUS
    <2>2. Undone(t, E) = Undone(u, D)
      <3>1. \A d \in Days : UndoneFlow(t, E)[d] = UndoneFlow(u, D)[d]
        BY <1>5, <2>1
      <3>2. QED
        BY <3>1, UndoneSame
    <2>3. QED
      BY <1>1, <2>1, <2>2
  <1>6. CASE d \notin DOMAIN t
    BY <1>4, <1>6 DEF UndoneFlow
  <1>7. CASE d \in gone
    BY <1>3, <1>4, <1>7 DEF UndoneFlow, RowFlow
  <1>8. CASE d \in DOMAIN t \ gone
    <2>1. PICK r, g : r = t[d] /\ g = r.rebase.gap
      OBVIOUS
    <2>2. RowOK(r, d, A) /\ Unhanded(r, R)
      BY <1>8, <2>1
    <2>3. r.mark # None => (d \in W \cup D <=> d \in D)
      BY <1>3, <1>8, <2>1
    <2>4. r.rebase.kept => (Met(g, W \cup D) <=> Met(g, D))
      <3>1. SUFFICES ASSUME r.rebase.kept PROVE ~Met(g, W)
        BY DEF Met
      <3>2. ~Overlap(g, R)
        BY <2>1, <2>2, <3>1, Zenon DEF Unhanded
      <3>4. g.lo \in Int /\ g.hi \in Int /\ g.lo <= g.hi
        BY <2>1, <2>2, <3>1 DEF RowOK, Traced
      <3>5. QED
        BY <1>1, <3>2, <3>4, OverlapMet
    <2>5. RowFlow(r, d, W \cup D) = RowFlow(r, d, D)
      BY <2>1, <2>3, <2>4 DEF RowFlow
    <2>6. u[d] = r /\ d \in DOMAIN u
      BY <1>4, <1>8, <2>1
    <2>7. QED
      BY <1>8, <2>1, <2>5, <2>6 DEF UndoneFlow
  <1>9. QED
    BY <1>6, <1>7, <1>8

\* undo, the second transaction.
LEMMA DeleteFlows ==
  ASSUME Inv, FlowInv, DeleteMarked
  PROVE  FlowInv'
  <1>1. PICK R, A, W : R = undoing /\ A = {q \in Remaining(R) : q.days # {}} /\ W = DaysOf(R)
    OBVIOUS
  <1>2. /\ undoing # None /\ undoing' = None /\ plan' = plan /\ runs' = runs
        /\ applied' = A /\ crossed' = crossed /\ loose' = (loose \/ crossed)
        /\ rows' = [s \in Series |-> [d \in DOMAIN rows[s] \ Marked(rows[s], R) |-> rows[s][d]]]
    BY <1>1, Zenon DEF DeleteMarked, RowsOf
  <1>3. RunsInv /\ R \in Ranges
    BY <1>1, <1>2, Zenon DEF FlowInv, Inv, ShapeInv
  <1>4. \A q \in applied : q = [number |-> q.number, days |-> q.days]
    BY DEF Inv, ShapeInv
  <1>5. ASSUME NEW p \in A
        PROVE  \E q \in applied : /\ p = [number |-> q.number, days |-> q.days \ W]
                                  /\ p.number = q.number /\ p.days = q.days \ W /\ p.days # {}
    <2>1. PICK q \in applied : p = [q EXCEPT !.days = @ \ W]
      BY <1>1, <1>5 DEF Remaining
    <2>2. q = [number |-> q.number, days |-> q.days]
      BY <1>4
    <2>3. p = [number |-> q.number, days |-> q.days \ W]
      BY <2>1, <2>2
    <2>4. p.days # {}
      BY <1>1, <1>5
    <2>5. QED
      BY <2>3, <2>4
  <1>6. RunsInv'
    <2>1. \A p \in A : p.number \in Nat /\ p.number < runs /\ p.days # {}
      BY <1>3, <1>5 DEF RunsInv
    <2>2. QED
      BY <1>2, <1>3, <2>1, Zenon DEF RunsInv
  <1>7. CASE crossed
    BY <1>2, <1>6, <1>7, Zenon DEF FlowInv
  <1>8. CASE ~crossed
    <2>1. plan = None
      BY <1>2, <1>8, Zenon DEF Inv, UndoInv
    <2>2. SUFFICES ASSUME NEW s \in Series
                   PROVE  Counted(rows'[s]) /\ (~loose => Even(rows'[s], A, None))
      BY <1>2, <1>6, <1>8, <2>1, Zenon DEF FlowInv
    <2>3. PICK t, u : t = rows[s] /\ u = rows'[s]
      OBVIOUS
    <2>4. DOMAIN u = DOMAIN t \ Marked(t, R) /\ \A d \in DOMAIN u : u[d] = t[d]
      BY <1>2, <2>3
    <2>5. Counted(t) /\ (~loose => Even(t, applied, R))
      BY <1>1, <1>8, <2>3, Zenon DEF FlowInv
    <2>6. DOMAIN t \subseteq Days /\ \A d \in DOMAIN t : RowOK(t[d], d, applied) /\ Unhanded(t[d], R)
      BY <1>1, <1>2, <1>8, <2>3, Zenon DEF Inv, RowsInv, UndoInv
    <2>7. Counted(u)
      BY <2>4, <2>5 DEF Counted
    <2>8. \A D \in SUBSET Days : Undone(u, D) = Undone(t, W \cup D)
      <3>1. ASSUME NEW D \in SUBSET Days PROVE Undone(u, D) = Undone(t, DaysOf(R) \cup D)
        <4>1. PICK B : B = applied
          OBVIOUS
        <4>2. \A d \in DOMAIN t : RowOK(t[d], d, B) /\ Unhanded(t[d], R)
          BY <2>6, <4>1
        <4>3. D \in SUBSET Days
          OBVIOUS
        <4>4. QED
          BY <1>3, <2>4, <2>5, <2>6, <4>2, <4>3, DeletedFlow
      <3>2. QED
        BY <1>1, <3>1
    <2>9. ASSUME ~loose, NEW D \in SUBSET Days, Whole(D, A) PROVE Undone(u, D) = Undone(u, {})
      <3>1. Whole(W, applied)
        BY <1>1, <1>2, <1>8, <2>9, LatestIsWhole DEF FlowInv
      <3>2. A = {q \in applied : ~Hit(q, W)}
        <4>1. ASSUME NEW p \in A PROVE p \in applied /\ ~Hit(p, W)
          <5>1. PICK q \in applied : /\ p = [number |-> q.number, days |-> q.days \ W]
                                    /\ p.days = q.days \ W /\ p.days # {}
            BY <1>5
          <5>2. ~Hit(q, W)
            BY <3>1, <5>1 DEF Whole
          <5>3. q.days \ W = q.days
            BY <5>2 DEF Hit
          <5>4. p = q
            BY <1>4, <5>1, <5>3
          <5>5. QED
            BY <5>2, <5>4
        <4>2. ASSUME NEW q \in applied, ~Hit(q, W) PROVE q \in A
          <5>1. PICK p : p = [q EXCEPT !.days = @ \ W]
            OBVIOUS
          <5>2. q.days \ W = q.days
            BY <4>2 DEF Hit
          <5>3. q = [number |-> q.number, days |-> q.days]
            BY <1>4
          <5>4. p = q
            BY <5>1, <5>2, <5>3
          <5>5. q.days # {}
            BY <1>3 DEF RunsInv
          <5>6. QED
            BY <1>1, <5>1, <5>4, <5>5 DEF Remaining
        <4>3. QED
          BY <4>1, <4>2
      <3>3. Whole(W \cup D, applied)
        BY <2>9, <3>1, <3>2, WholeAgain
      <3>4. W \in SUBSET Days /\ Handed(R) = W
        BY <1>1, <1>2, <1>3, RangeDays DEF Handed
      <3>5. Undone(t, W \cup D) = Undone(t, W)
        BY <2>5, <2>9, <3>3, <3>4 DEF Even
      <3>6. W \cup {} = W
        OBVIOUS
      <3>7. Undone(u, {}) = Undone(t, W \cup {})
        BY <2>8, DaysFinite
      <3>8. Undone(u, D) = Undone(t, W \cup D)
        BY <2>8, <2>9
      <3>9. QED
        BY <3>5, <3>6, <3>7, <3>8
    <2>10. ~loose => Even(u, A, None)
      BY <2>9 DEF Even, Handed
    <2>11. QED
      BY <2>3, <2>7, <2>10
  <1>9. QED
    BY <1>7, <1>8

\* What the apply does to the flow of an existing row, u for r: the row after the gap
\* has its flow stashed and the plan's written, any other keeps its own.
FlowKept(r, u) == u.flow = r.flow /\ u.rebase = r.rebase
FlowMoved(r, u, move, range) ==
  /\ ~r.rebase.kept /\ r.flow = move.was /\ u.flow = move.flow
  /\ u.rebase.kept /\ u.rebase.flow = r.flow /\ Within(u.rebase.gap, range)

\* The apply to a series: W are the days it inserts, all that were planned if flows are
\* among them.
Entered(t, u, p, W, range) ==
  /\ DOMAIN u = DOMAIN t \cup W /\ DOMAIN t \subseteq Days
  /\ W \subseteq p.points \ DOMAIN t /\ W \subseteq DaysOf(range)
  /\ \A d \in W : u[d].mark # None /\ ~u[d].rebase.kept /\ u[d].flow = p.rows[d].flow
  /\ \A d \in DOMAIN t :
       /\ u[d].mark = t[d].mark
       /\ IF W # {} /\ p.rebase # None /\ d = p.b THEN FlowMoved(t[d], u[d], p.rebase, range)
                                                 ELSE FlowKept(t[d], u[d])
  /\ W # {} => W = p.points \/ (p.rebase = None /\ \A d \in p.points : p.rows[d].flow = 0)
  /\ W # {} /\ p.rebase # None => p.b \in DOMAIN t

\* A row that is flushed keeps its flow, unless it is the one the plan rebases.
LEMMA FlushedFlow ==
  ASSUME Inv, ~crossed, plan # None, NEW s \in Series, ~StashesOver(s), NEW d \in DOMAIN rows[s],
         NEW W, W = WritableOf(s), NEW u, u = Flushed(s, d, W)
  PROVE  /\ u.mark = rows[s][d].mark
         /\ IF W # {} /\ plan.of[s].rebase # None /\ d = plan.of[s].b
            THEN FlowMoved(rows[s][d], u, plan.of[s].rebase, plan.range)
            ELSE FlowKept(rows[s][d], u)
  <1>1. PICK r, t, p, range : r = rows[s][d] /\ t = plan.ts[s] /\ p = plan.of[s] /\ range = plan.range
    OBVIOUS
  <1>2. RowOK(r, d, applied) /\ d \notin W /\ W \subseteq p.points
    <2>1. RowOK(r, d, applied)
      BY <1>1 DEF Inv, RowsInv
    <2>2. QED
      BY <1>1, <2>1, WritableDays
  <1>3. SeriesPlanned(rows[s], t, p, range)
    BY <1>1 DEF Inv, PlanInv
  <1>4. PICK x : x = IF d \in DOMAIN t THEN AnchorWrite(r, t[d]) ELSE r
    OBVIOUS
  <1>5. Columns(x) /\ x.flow = r.flow /\ x.mark = r.mark /\ x.rebase = r.rebase
    <2>1. Columns(r)
      BY <1>2 DEF RowOK
    <2>2. PICK v : v = t[d]
      OBVIOUS
    <2>3. x = r \/ x = [r EXCEPT !.nav = v.nav, !.legs = v.legs, !.prov = FALSE, !.restate = v.restate]
      BY <1>4, <2>2 DEF AnchorWrite
    <2>4. QED
      BY <2>1, <2>3 DEF Columns
  <1>6. PICK gap, e : gap = Gap(p.points) /\ e = p.rebase
    OBVIOUS
  <1>7. u = IF W # {} /\ e # None /\ d = p.b
            THEN [x EXCEPT !.flow = e.flow, !.rebase = [kept |-> TRUE, gap |-> gap, flow |-> e.was]] ELSE x
    BY <1>1, <1>2, <1>4, <1>6 DEF Flushed, RowsOf, AnchorWrite
  <1>8. CASE W # {} /\ e # None /\ d = p.b
    <2>1. r.flow = e.was /\ ~r.rebase.kept /\ p.points # {} /\ p.points \subseteq range.lo..range.hi
      BY <1>1, <1>2, <1>3, <1>6, <1>8 DEF SeriesPlanned, StashesOver
    <2>2. range \in Ranges
      BY <1>1 DEF Inv, ShapeInv
    <2>3. Within(gap, range)
      BY <1>6, <2>1, <2>2, GapWithin
    <2>4. PICK stash : stash = [kept |-> TRUE, gap |-> gap, flow |-> e.was]
      OBVIOUS
    <2>5. u = [x EXCEPT !.flow = e.flow, !.rebase = stash]
      BY <1>7, <1>8, <2>4
    <2>6. u.flow = e.flow /\ u.rebase = stash /\ u.mark = x.mark
      BY <1>5, <2>5 DEF Columns
    <2>7. stash.kept /\ stash.gap = gap /\ stash.flow = e.was
      BY <2>4
    <2>8. FlowMoved(r, u, e, range) /\ u.mark = r.mark
      BY <1>5, <2>1, <2>3, <2>6, <2>7 DEF FlowMoved
    <2>9. QED
      BY <1>1, <1>6, <1>8, <2>8
  <1>9. CASE ~(W # {} /\ e # None /\ d = p.b)
    <2>1. u = x
      BY <1>7, <1>9
    <2>2. QED
      BY <1>1, <1>5, <1>6, <1>9, <2>1 DEF FlowKept
  <1>10. QED
    BY <1>8, <1>9

\* Applying a plan is such an apply in every series.
LEMMA ApplyEnters ==
  ASSUME Inv, ~crossed', ApplyPlan, NEW s \in Series
  PROVE  Entered(rows[s], rows'[s], plan.of[s], WritableOf(s), plan.range)
  <1>1. plan # None /\ ~crossed /\ ~StashesOver(s) /\
        rows' = [x \in Series |-> [d \in DOMAIN rows[x] \cup WritableOf(x) |-> Flushed(x, d, WritableOf(x))]]
    BY DEF ApplyPlan, RowsOf
  <1>2. PICK t, u, p, W, range :
          t = rows[s] /\ u = rows'[s] /\ p = plan.of[s] /\ W = WritableOf(s) /\ range = plan.range
    OBVIOUS
  <1>3. DOMAIN u = DOMAIN t \cup W /\ \A d \in DOMAIN u : u[d] = Flushed(s, d, W)
    BY <1>1, <1>2
  <1>4. SeriesPlanned(t, plan.ts[s], p, range)
    BY <1>1, <1>2 DEF Inv, PlanInv
  <1>5. W \subseteq p.points \ DOMAIN t
    BY <1>2, WritableDays
  <1>6. DOMAIN t \subseteq Days
    BY <1>1, <1>2 DEF Inv, RowsInv
  <1>7. W \subseteq DaysOf(range)
    BY <1>4, <1>5 DEF SeriesPlanned, DaysOf
  <1>8. ASSUME NEW d \in W PROVE u[d].mark # None /\ ~u[d].rebase.kept /\ u[d].flow = p.rows[d].flow
    <2>1. u[d] = Inserted(p, d)
      BY <1>2, <1>3, <1>8 DEF Flushed
    <2>2. PICK row, v : row = p.rows[d] /\ v = u[d]
      OBVIOUS
    <2>3. row.flagged \subseteq Legs
      BY <1>4, <1>5, <1>8, <2>2 DEF SeriesPlanned
    <2>4. v.mark = row.flagged /\ v.flow = row.flow /\ v.rebase = NoStash
      BY <2>1, <2>2 DEF Inserted
    <2>5. QED
      BY <2>2, <2>3, <2>4 DEF NoStash
  <1>9. ASSUME NEW d \in DOMAIN t
        PROVE  /\ u[d].mark = t[d].mark
               /\ IF W # {} /\ p.rebase # None /\ d = p.b THEN FlowMoved(t[d], u[d], p.rebase, range)
                                                         ELSE FlowKept(t[d], u[d])
    <2>1. PICK v : v = u[d]
      OBVIOUS
    <2>2. v = Flushed(s, d, W)
      BY <1>3, <1>9, <2>1
    <2>3. d \in DOMAIN rows[s] /\ plan # None /\ ~crossed /\ ~StashesOver(s)
      BY <1>1, <1>2, <1>9
    <2>4. /\ v.mark = rows[s][d].mark
          /\ IF W # {} /\ plan.of[s].rebase # None /\ d = plan.of[s].b
             THEN FlowMoved(rows[s][d], v, plan.of[s].rebase, plan.range)
             ELSE FlowKept(rows[s][d], v)
      BY <1>2, <2>2, <2>3, FlushedFlow
    <2>5. QED
      BY <1>2, <2>1, <2>4
  <1>10. W # {} => W = p.points \/ (p.rebase = None /\ \A d \in p.points : p.rows[d].flow = 0)
    <2>1. PICK taken : taken = p.points \cap DOMAIN t
      OBVIOUS
    <2>2. W = {} \/ W = Writable(p, taken)
      BY <1>2, <2>1, Zenon DEF WritableOf, RowsOf
    <2>3. taken = {} => Writable(p, taken) = p.points
      BY DEF Writable
    <2>4. taken # {} /\ (p.rebase # None \/ \E d \in p.points : p.rows[d].flow # 0) => Writable(p, taken) = {}
      BY DEF Writable
    <2>5. QED
      BY <2>2, <2>3, <2>4
  <1>11. W # {} /\ p.rebase # None => p.b \in DOMAIN t
    BY <1>4, <1>5 DEF SeriesPlanned
  <1>12. Entered(t, u, p, W, range)
    BY <1>3, <1>5, <1>6, <1>7, <1>8, <1>9, <1>10, <1>11, Zenon DEF Entered
  <1>13. QED
    BY <1>2, <1>12

\* The flows after the apply are numbers.
LEMMA EnteredCounts ==
  ASSUME NEW t, NEW u, NEW p, NEW W, NEW range, NEW x,
         Entered(t, u, p, W, range), Counted(t), Conserving(x, p)
  PROVE  Counted(u)
  <1>1. SUFFICES ASSUME NEW d \in DOMAIN u
                 PROVE  u[d].flow \in Nat /\ (u[d].rebase.kept => u[d].rebase.flow \in Nat)
    BY DEF Counted
  <1>2. CASE d \in W
    <2>1. p.points # {} /\ d \in p.points
      BY <1>2 DEF Entered
    <2>2. p.rows[d].flow \in Nat
      BY <2>1 DEF Conserving
    <2>3. QED
      BY <1>2, <2>2 DEF Entered
  <1>3. CASE d \in DOMAIN t
    <2>1. PICK r, v, e : r = t[d] /\ v = u[d] /\ e = p.rebase
      OBVIOUS
    <2>2. (W # {} /\ e # None /\ FlowMoved(r, v, e, range)) \/ FlowKept(r, v)
      BY <1>3, <2>1, Zenon DEF Entered
    <2>3. r.flow \in Nat /\ (r.rebase.kept => r.rebase.flow \in Nat)
      BY <1>3, <2>1 DEF Counted
    <2>4. W # {} /\ e # None => e.flow \in Nat
      BY <2>1 DEF Entered, Conserving
    <2>5. v.flow \in Nat /\ (v.rebase.kept => v.rebase.flow \in Nat)
      BY <2>2, <2>3, <2>4 DEF FlowMoved, FlowKept
    <2>6. QED
      BY <2>1, <2>5
  <1>4. QED
    BY <1>1, <1>2, <1>3 DEF Entered

\* Were the plan's run undone, the flows would be those before it.
LEMMA EnteredUndone ==
  ASSUME NEW t, NEW u, NEW p, NEW W, NEW range \in Ranges, Entered(t, u, p, W, range), Counted(t),
         NEW D \in SUBSET Days, DaysOf(range) \subseteq D
  PROVE  Undone(t, D) = Undone(u, D)
  <1>1. SUFFICES ASSUME NEW d \in Days PROVE UndoneFlow(t, D)[d] = UndoneFlow(u, D)[d]
    <2>1. \A d \in Days : UndoneFlow(t, D)[d] = UndoneFlow(u, D)[d]
      BY <1>1
    <2>2. QED
      BY <2>1, UndoneSame
  <1>2. CASE d \notin DOMAIN t \cup W
    BY <1>2 DEF UndoneFlow, Entered
  <1>3. CASE d \in W
    <2>1. d \notin DOMAIN t /\ d \in DOMAIN u /\ d \in D /\ u[d].mark # None
      BY <1>3 DEF Entered
    <2>2. QED
      BY <2>1 DEF UndoneFlow, RowFlow
  <1>4. CASE d \in DOMAIN t
    <2>1. PICK r, v, e : r = t[d] /\ v = u[d] /\ e = p.rebase
      OBVIOUS
    <2>2. v.mark = r.mark /\ (FlowMoved(r, v, e, range) \/ FlowKept(r, v)) /\ d \in DOMAIN u
      BY <1>4, <2>1, Zenon DEF Entered
    <2>3. CASE FlowKept(r, v)
      <3>1. RowFlow(r, d, D) = RowFlow(v, d, D)
        BY <2>2, <2>3 DEF RowFlow, FlowKept
      <3>2. QED
        BY <1>4, <2>1, <2>2, <3>1 DEF UndoneFlow
    <2>4. CASE FlowMoved(r, v, e, range)
      <3>1. PICK g : g = v.rebase.gap
        OBVIOUS
      <3>2. Within(g, range)
        BY <2>4, <3>1 DEF FlowMoved
      <3>3. Met(g, D)
        <4>1. PICK lo, hi, a, b : lo = range.lo /\ hi = range.hi /\ a = g.lo /\ b = g.hi
          OBVIOUS
        <4>2. lo \in 2..Last - 1 /\ hi \in 2..Last - 1 /\ a \in Int /\ b \in Int /\ lo <= a /\ a <= b /\ b <= hi
          BY <3>2, <4>1 DEF Within, Ranges
        <4>3. a \in Days /\ lo <= a /\ a <= hi /\ a <= a /\ a <= b
          BY <4>2 DEF Days
        <4>4. a \in D
          BY <4>1, <4>2, <4>3 DEF DaysOf
        <4>5. QED
          BY <4>1, <4>3, <4>4 DEF Met
      <3>4. RowFlow(r, d, D) = RowFlow(v, d, D)
        BY <2>2, <2>4, <3>1, <3>3 DEF RowFlow, FlowMoved
      <3>5. QED
        BY <1>4, <2>1, <2>2, <3>4 DEF UndoneFlow
    <2>5. QED
      BY <2>2, <2>3, <2>4
  <1>5. QED
    BY <1>2, <1>3, <1>4

\* The flow of a day as the row has it.
LEMMA NothingUndone ==
  ASSUME NEW t, NEW d \in Days
  PROVE  UndoneFlow(t, {})[d] = IF d \in DOMAIN t THEN t[d].flow ELSE 0
  BY DEF UndoneFlow, RowFlow, Met

\* What the inserted rows take is what the row after the gap gives up.
LEMMA EnteredAddsUp ==
  ASSUME NEW t, NEW u, NEW p, NEW W, NEW range \in Ranges, Entered(t, u, p, W, range), Counted(t),
         NEW x, Conserving(x, p), W # {} => ~Overlooked(x, p)
  PROVE  Undone(t, {}) = Undone(u, {})
  <1>1. PICK f, g, e : f = UndoneFlow(t, {}) /\ g = UndoneFlow(u, {}) /\ e = p.rebase
    OBVIOUS
  <1>2. /\ \A d \in Days : f[d] \in Nat /\ g[d] \in Nat
        /\ \A d \in Days : f[d] = IF d \in DOMAIN t THEN t[d].flow ELSE 0
        /\ \A d \in Days : g[d] = IF d \in DOMAIN u THEN u[d].flow ELSE 0
    BY <1>1, NothingUndone, EnteredCounts, UndoneIsNat
  <1>3. DOMAIN u = DOMAIN t \cup W /\ W \cap DOMAIN t = {} /\ W \subseteq p.points
    BY DEF Entered
  <1>4. \A d \in DOMAIN t : ~(W # {} /\ e # None /\ d = p.b) => u[d].flow = t[d].flow
    BY <1>1, Zenon DEF Entered, FlowKept
  <1>5. CASE W = {} \/ e = None
    <2>1. \A d \in W : u[d].flow = 0
      BY <1>1, <1>3, <1>5 DEF Entered, Conserving
    <2>2. \A d \in Days : g[d] = f[d]
      BY <1>2, <1>3, <1>4, <1>5, <2>1
    <2>3. QED
      BY <1>1, <1>2, <2>2, UndoneSame
  <1>6. CASE W # {} /\ e # None
    <2>1. PICK b, C : b = p.b /\ C = Days \ (W \cup {b})
      OBVIOUS
    <2>2. W = p.points /\ b \in DOMAIN t /\ W \subseteq Days /\ b \in Days /\ b \notin W
      BY <1>1, <1>3, <1>6, <2>1, RangeDays DEF Entered
    <2>3. t[b].flow = e.was /\ u[b].flow = e.flow
      BY <1>1, <1>6, <2>1, <2>2 DEF Entered, FlowMoved
    <2>4. \A d \in W : u[d].flow = p.rows[d].flow
      BY DEF Entered
    <2>5. PICK h : h = PlannedFlow(p)
      OBVIOUS
    <2>6. SumFunctionOnSet(h, W) + e.flow = e.was
      BY <1>1, <1>6, <2>2, <2>5 DEF Conserving
    <2>7. \A d \in W : h[d] = g[d]
      BY <1>2, <1>3, <2>2, <2>4, <2>5 DEF PlannedFlow
    <2>8. IsFiniteSet(W) /\ IsFiniteSet(C) /\ IsFiniteSet({b})
      BY <2>1, <2>2, DaysFinite, FS_Subset, FS_Singleton
    <2>9. SumFunctionOnSet(g, W) = SumFunctionOnSet(h, W)
      BY <1>2, <2>2, <2>7, <2>8, SumSame
    <2>10. SumFunctionOnSet(f, W) = 0
      <3>1. \A d \in W : f[d] = 0 /\ f[d] \in Nat
        BY <1>2, <1>3, <2>2
      <3>2. QED
        BY <2>8, <3>1, SumZero
    <2>11. SumFunctionOnSet(f, C) = SumFunctionOnSet(g, C)
      <3>1. \A d \in C : f[d] \in Nat /\ g[d] = f[d]
        BY <1>2, <1>3, <1>4, <2>1
      <3>2. QED
        BY <2>8, <3>1, SumSame
    <2>12. g[b] = e.flow /\ f[b] = e.was
      BY <1>2, <1>3, <2>2, <2>3
    <2>13. ASSUME NEW k, \A d \in Days : k[d] \in Nat
           PROVE  SumFunctionOnSet(k, Days) = k[b] + SumFunctionOnSet(k, W) + SumFunctionOnSet(k, C)
      <3>1. PICK E : E = W \cup C
        OBVIOUS
      <3>2. Days \ {b} = E /\ IsFiniteSet(E) /\ W \cap C = {} /\ E \subseteq Days
        <4>1. Days \ {b} = E /\ E \subseteq Days /\ W \cap C = {}
          BY <2>1, <2>2, <3>1
        <4>2. QED
          BY <4>1, DaysFinite, FS_Subset
      <3>3. SumFunctionOnSet(k, Days) = k[b] + SumFunctionOnSet(k, Days \ {b})
        BY <2>2, <2>13, DaysFinite, SumSplit
      <3>4. \A d \in W \cup C : k[d] \in Nat
        BY <2>13, <3>1, <3>2
      <3>5. SumFunctionOnSet(k, W \cup C) = SumFunctionOnSet(k, W) + SumFunctionOnSet(k, C)
        BY <2>8, <3>2, <3>4, SumUnion
      <3>6. SumFunctionOnSet(k, W) \in Nat /\ SumFunctionOnSet(k, C) \in Nat /\ k[b] \in Nat
        BY <2>2, <2>8, <2>13, <3>4, SumSplit
      <3>7. SumFunctionOnSet(k, Days \ {b}) = SumFunctionOnSet(k, W) + SumFunctionOnSet(k, C)
        BY <3>1, <3>2, <3>5, Zenon
      <3>8. PICK i, j, l, m : /\ i = SumFunctionOnSet(k, W) /\ j = SumFunctionOnSet(k, C) /\ l = k[b]
                             /\ m = SumFunctionOnSet(k, Days \ {b})
        OBVIOUS
      <3>9. l + m = l + i + j
        BY <3>6, <3>7, <3>8
      <3>10. QED
        BY <3>3, <3>8, <3>9, Zenon
    <2>14. SumFunctionOnSet(f, Days) = e.was + 0 + SumFunctionOnSet(f, C)
      BY <1>2, <2>10, <2>12, <2>13
    <2>15. SumFunctionOnSet(g, Days) = e.flow + SumFunctionOnSet(h, W) + SumFunctionOnSet(g, C)
      BY <1>2, <2>9, <2>12, <2>13
    <2>16. SumFunctionOnSet(h, W) \in Nat /\ e.flow \in Nat /\ SumFunctionOnSet(g, C) \in Nat
      <3>1. \A d \in W : h[d] \in Nat
        BY <1>2, <2>2, <2>7
      <3>2. \A d \in C : g[d] \in Nat
        BY <1>2, <2>1
      <3>3. e.flow \in Nat
        BY <1>2, <2>2, <2>12
      <3>4. QED
        BY <2>8, <3>1, <3>2, <3>3, SumSplit
    <2>17. SumFunctionOnSet(f, Days) = SumFunctionOnSet(g, Days)
      BY <2>6, <2>11, <2>14, <2>15, <2>16
    <2>18. QED
      BY <1>1, <2>17 DEF Undone
  <1>7. QED
    BY <1>5, <1>6

\* apply_plan: whatever an undo may cover afterwards, the flows add up.
LEMMA ApplyFlows ==
  ASSUME Inv, FlowInv, ApplyPlan
  PROVE  FlowInv'
  <1>1. PICK new : new = [number |-> runs, days |-> DaysOf(plan.range)]
    OBVIOUS
  <1>2. /\ plan # None /\ plan' = None /\ runs' = runs + 1 /\ applied' = applied \cup {new}
        /\ undoing' = undoing /\ crossed' = (crossed \/ \E s \in Series : StashesOver(s))
        /\ loose' = (loose \/ \E s \in Series : WritableOf(s) # {} /\ Overlooked(plan.ts[s], plan.of[s]))
    BY <1>1, Zenon DEF ApplyPlan
  <1>3. PICK range : range = plan.range
    OBVIOUS
  <1>4. new.number = runs /\ new.days = DaysOf(range) /\ range \in Ranges
    <2>1. new.number = runs /\ new.days = DaysOf(range)
      BY <1>1, <1>3
    <2>2. range \in Ranges
      BY <1>2, <1>3, Zenon DEF Inv, ShapeInv
    <2>3. QED
      BY <2>1, <2>2
  <1>5. RunsInv'
    <2>1. /\ runs \in Nat /\ \A q \in applied : q.number \in Nat /\ q.number < runs /\ q.days # {}
      BY Zenon DEF FlowInv, RunsInv
    <2>2. \A q \in applied : q.number < runs + 1
      BY <2>1
    <2>3. \A q \in applied \cup {new} : q.number \in Nat /\ q.number < runs + 1 /\ q.days # {}
      BY <1>4, <2>1, <2>2, RangeDays
    <2>4. QED
      BY <1>2, <2>1, <2>3 DEF RunsInv
  <1>6. SUFFICES ASSUME ~crossed', ~crossed, NEW s \in Series
                 PROVE  Counted(rows'[s]) /\ (~loose' => Even(rows'[s], applied', None))
    <2>1. ~crossed => undoing = None
      BY <1>2, Zenon DEF Inv, UndoInv
    <2>2. QED
      BY <1>2, <1>5, <1>6, <2>1, Zenon DEF FlowInv
  <1>7. PICK t, u, p, W, A, x :
          t = rows[s] /\ u = rows'[s] /\ p = plan.of[s] /\ W = WritableOf(s) /\ A = applied' /\ x = plan.ts[s]
    OBVIOUS
  <1>8. Entered(t, u, p, W, range)
    BY <1>3, <1>6, <1>7, ApplyEnters
  <1>9. Counted(t) /\ Conserving(x, p)
    BY <1>2, <1>6, <1>7, Zenon DEF FlowInv
  <1>10. Counted(u)
    BY <1>8, <1>9, EnteredCounts
  <1>11. ASSUME ~loose', NEW D \in SUBSET Days, Whole(D, A) PROVE Undone(u, D) = Undone(u, {})
    <2>1. CASE Hit(new, D)
      <3>1. undoing = None /\ ~loose
        BY <1>2, <1>6, <1>11, Zenon DEF Inv, UndoInv
      <3>2. Even(t, applied, None)
        BY <1>6, <1>7, <3>1, Zenon DEF FlowInv
      <3>3. Whole(D, applied)
        BY <1>2, <1>7, <1>11 DEF Whole
      <3>4. Undone(t, D) = Undone(t, {})
        BY <1>11, <3>2, <3>3 DEF Even, Handed
      <3>5. new \in A
        BY <1>2, <1>7
      <3>6. DaysOf(range) \subseteq D
        BY <1>4, <1>11, <2>1, <3>5 DEF Whole
      <3>7. Undone(t, D) = Undone(u, D)
        <4>1. D \in SUBSET Days /\ range \in Ranges
          BY <1>4, <1>11
        <4>2. QED
          BY <1>8, <1>9, <3>6, <4>1, EnteredUndone
      <3>8. W # {} => ~Overlooked(x, p)
        BY <1>2, <1>7, <1>11
      <3>9. Undone(t, {}) = Undone(u, {})
        BY <1>4, <1>8, <1>9, <3>8, EnteredAddsUp
      <3>10. QED
        BY <3>4, <3>7, <3>9
    <2>2. CASE ~Hit(new, D)
      <3>1. ASSUME NEW q \in A PROVE ~Hit(q, D)
        <4>1. SUFFICES ASSUME q \in applied, Hit(q, D) PROVE FALSE
          BY <1>2, <1>4, <1>7, <2>2, <3>1
        <4>2. q.number < runs /\ q.number \in Nat /\ runs \in Nat
          BY <4>1, Zenon DEF FlowInv, RunsInv
        <4>3. q.number <= new.number /\ new \in A
          BY <1>2, <1>4, <1>7, <4>2
        <4>4. Hit(new, D)
          BY <1>11, <3>1, <4>1, <4>3, Zenon DEF Whole
        <4>5. QED
          BY <1>4, <2>2, <4>4
      <3>2. Inv'
        BY ApplyKeeps
      <3>3. \A d \in DOMAIN u : RowOK(u[d], d, A)
        BY <1>2, <1>6, <1>7, <3>2, Zenon DEF Inv, RowsInv
      <3>5. D \in SUBSET Days
        BY <1>11
      <3>6. QED
        BY <1>10, <3>1, <3>3, <3>5, NoRunMet
    <2>3. QED
      BY <2>1, <2>2
  <1>12. ~loose' => Even(u, A, None)
    BY <1>11 DEF Even, Handed
  <1>13. QED
    BY <1>7, <1>10, <1>12

\* A nightly rewrite that meets no mark and no stash writes the same flow whatever has
\* been undone.
LEMMA RebuiltFlow ==
  ASSUME bought \in Histories, NEW t, NEW u, DOMAIN u = DOMAIN t \cup TradeDays, Counted(t),
         \A d \in TradeDays : u[d].flow = Bought(Portfolio, d - 1, d),
         \A d \in TradeDays : u[d].mark = None /\ ~u[d].rebase.kept,
         \A d \in TradeDays \cap DOMAIN t : t[d].mark = None /\ ~t[d].rebase.kept,
         \A d \in DOMAIN t \ TradeDays : u[d] = t[d]
  PROVE  /\ Counted(u)
         /\ \A D, E \in SUBSET Days : Undone(t, D) = Undone(t, E) => Undone(u, D) = Undone(u, E)
  <1>1. Counted(u)
    <2>1. SUFFICES ASSUME NEW d \in DOMAIN u
                   PROVE  u[d].flow \in Nat /\ (u[d].rebase.kept => u[d].rebase.flow \in Nat)
      BY DEF Counted
    <2>2. Bought(Portfolio, d - 1, d) \in Nat
      BY BoughtIsNat DEF Series
    <2>3. CASE d \in TradeDays
      BY <2>2, <2>3
    <2>4. CASE d \notin TradeDays
      BY <2>4 DEF Counted
    <2>5. QED
      BY <2>3, <2>4
  <1>2. ASSUME NEW D \in SUBSET Days, NEW E \in SUBSET Days, Undone(t, D) = Undone(t, E)
        PROVE  Undone(u, D) = Undone(u, E)
    <2>1. PICK f, g, h, i : /\ f = UndoneFlow(t, D) /\ g = UndoneFlow(t, E)
                            /\ h = UndoneFlow(u, D) /\ i = UndoneFlow(u, E)
      OBVIOUS
    <2>2. \A d \in Days : f[d] \in Nat /\ g[d] \in Nat /\ h[d] \in Nat /\ i[d] \in Nat
      BY <1>1, <2>1, UndoneIsNat
    <2>3. ASSUME NEW d \in Days PROVE (h[d] = f[d] /\ i[d] = g[d]) \/ (h[d] = i[d] /\ f[d] = g[d])
      <3>1. CASE d \in TradeDays
        <4>1. h[d] = u[d].flow /\ i[d] = u[d].flow
          BY <2>1, <3>1 DEF UndoneFlow, RowFlow
        <4>2. d \in DOMAIN t => f[d] = t[d].flow /\ g[d] = t[d].flow
          BY <2>1, <3>1 DEF UndoneFlow, RowFlow
        <4>3. d \notin DOMAIN t => f[d] = 0 /\ g[d] = 0
          BY <2>1 DEF UndoneFlow
        <4>4. QED
          BY <4>1, <4>2, <4>3
      <3>2. CASE d \notin TradeDays
        BY <2>1, <3>2 DEF UndoneFlow
      <3>3. QED
        BY <3>1, <3>2
    <2>4. PICK k : \A d \in Days : k[d] = h[d] + g[d]
      <3>1. PICK j : j = [d \in Days |-> h[d] + g[d]]
        OBVIOUS
      <3>2. \A d \in Days : j[d] = h[d] + g[d]
        BY <3>1
      <3>3. QED
        BY <3>2
    <2>5. \A d \in Days : k[d] = h[d] + g[d] /\ k[d] = i[d] + f[d]
      BY <2>2, <2>3, <2>4
    <2>6. IsFiniteSet(Days)
      BY DaysFinite
    <2>7. SumFunctionOnSet(k, Days) = SumFunctionOnSet(h, Days) + SumFunctionOnSet(g, Days)
      <3>1. \A d \in Days : h[d] \in Nat /\ g[d] \in Nat /\ k[d] = h[d] + g[d]
        BY <2>2, <2>5
      <3>2. QED
        BY <3>1, <2>6, SumPlus
    <2>8. SumFunctionOnSet(k, Days) = SumFunctionOnSet(i, Days) + SumFunctionOnSet(f, Days)
      <3>1. \A d \in Days : i[d] \in Nat /\ f[d] \in Nat /\ k[d] = i[d] + f[d]
        BY <2>2, <2>5
      <3>2. QED
        BY <3>1, <2>6, SumPlus
    <2>9. Undone(t, D) \in Nat /\ Undone(t, E) \in Nat /\ Undone(u, D) \in Nat /\ Undone(u, E) \in Nat
      BY <1>1, UndoneIsNat
    <2>10. Undone(u, D) + Undone(t, E) = Undone(u, E) + Undone(t, D)
      BY <2>1, <2>7, <2>8 DEF Undone
    <2>11. QED
      BY <1>2, <2>9, <2>10
  <1>3. QED
    BY <1>1, <1>2

\* The flow the job writes on the day of a lot: the day's own purchases.
LEMMA RewrittenFlow ==
  ASSUME NEW t, NEW d \in TradeDays, d \in DOMAIN t => Columns(t[d])
  PROVE  d \in DOMAIN Rebuilt(t) /\ Rebuilt(t)[d].flow = Bought(Portfolio, d - 1, d)
  <1>1. PICK v, f, r : /\ v = Closing(Portfolio, d) /\ f = Bought(Portfolio, d - 1, d)
                       /\ r = IF d \in DOMAIN t THEN t[d] ELSE Blank(Portfolio, d)
    OBVIOUS
  <1>2. d \in DOMAIN Rebuilt(t) /\ Rebuilt(t)[d] = JobWrite(r, v, f)
    BY <1>1 DEF Rebuilt, RowsOf, JobWrite
  <1>3. Columns(r)
    <2>1. Columns(Blank(Portfolio, d))
      BY BlankRow DEF RowOK
    <2>2. QED
      BY <1>1, <2>1
  <1>4. PICK u : u = JobWrite(r, v, f)
    OBVIOUS
  <1>5. u.flow = f
    BY <1>3, <1>4 DEF JobWrite, Columns
  <1>6. QED
    BY <1>1, <1>2, <1>4, <1>5

\* The nightly rewrite: a row that no run has written counts for the same in any undo.
LEMMA RebuildFlows ==
  ASSUME Inv, FlowInv, Rebuild
  PROVE  FlowInv'
  <1>1. PICK t, u : t = rows[Portfolio] /\ u = Rebuilt(t)
    OBVIOUS
  <1>2. /\ rows' = [rows EXCEPT ![Portfolio] = u] /\ crossed' = (crossed \/ \E d \in TradeDays : Rewrites(d))
        /\ loose' = (loose \/ \E d \in TradeDays : Unseen(d))
        /\ plan' = plan /\ undoing' = undoing /\ applied' = applied /\ runs' = runs /\ bought' = bought
    BY <1>1 DEF Rebuild, world
  <1>3. Portfolio \in Series
    BY DEF Series
  <1>4. DOMAIN u = DOMAIN t \cup TradeDays
    BY <1>1 DEF Rebuilt, RowsOf
  <1>5. rows'[Portfolio] = u /\ \A s \in Series : s # Portfolio => rows'[s] = rows[s]
    BY <1>2, <1>3 DEF Inv, ShapeInv
  <1>6. RunsInv'
    BY <1>2, Zenon DEF FlowInv, RunsInv
  <1>7. SUFFICES ASSUME ~crossed', NEW s \in Series
                 PROVE  /\ Counted(rows'[s])
                        /\ plan # None => Conserving(plan.ts[s], plan.of[s])
                        /\ ~loose' => Even(rows'[s], applied, undoing)
    <2>1. ~crossed' /\ ~loose' /\ undoing # None => Latest(undoing)'
      BY <1>2 DEF FlowInv, Latest
    <2>2. QED
      BY <1>2, <1>6, <1>7, <2>1, Zenon DEF FlowInv
  <1>8. ~crossed /\ (\A d \in TradeDays : ~Rewrites(d)) /\ (~loose' => ~loose)
    BY <1>2, <1>7 DEF Inv, ShapeInv
  <1>9. /\ Counted(rows[s]) /\ (plan # None => Conserving(plan.ts[s], plan.of[s]))
        /\ ~loose => Even(rows[s], applied, undoing)
    BY <1>7, <1>8, Zenon DEF FlowInv
  <1>10. CASE s # Portfolio
    BY <1>5, <1>7, <1>8, <1>9, <1>10
  <1>11. CASE s = Portfolio
    <2>1. \A d \in DOMAIN t \cap TradeDays : t[d].mark = None /\ ~t[d].restate.kept /\ ~t[d].rebase.kept
      BY <1>1, <1>8 DEF Rewrites, RowsOf
    <2>2. \A d \in DOMAIN t : RowOK(t[d], d, applied)
      BY <1>1, <1>3, <1>8, Zenon DEF Inv, RowsInv
    <2>3. ASSUME NEW d \in DOMAIN u
          PROVE  /\ d \in TradeDays => u[d].mark = None /\ ~u[d].rebase.kept
                 /\ d \notin TradeDays => u[d] = t[d]
      <3>1. d \in DOMAIN t => RowOK(t[d], d, applied)
        BY <2>2
      <3>2. d \in DOMAIN t /\ d \in TradeDays =>
              t[d].mark = None /\ ~t[d].restate.kept /\ ~t[d].rebase.kept
        BY <2>1
      <3>3. d \in DOMAIN t \cup TradeDays
        BY <1>4
      <3>4. QED
        BY <1>1, <3>1, <3>2, <3>3, RebuiltRow
    <2>4. ASSUME NEW d \in TradeDays PROVE u[d].flow = Bought(Portfolio, d - 1, d)
      <3>1. d \in DOMAIN t => Columns(t[d])
        BY <2>2 DEF RowOK
      <3>2. QED
        BY <1>1, <3>1, RewrittenFlow
    <2>5. /\ \A d \in TradeDays : u[d].flow = Bought(Portfolio, d - 1, d)
          /\ \A d \in TradeDays : u[d].mark = None /\ ~u[d].rebase.kept
          /\ \A d \in TradeDays \cap DOMAIN t : t[d].mark = None /\ ~t[d].rebase.kept
          /\ \A d \in DOMAIN t \ TradeDays : u[d] = t[d]
      BY <1>4, <2>1, <2>3, <2>4
    <2>6. Counted(t) /\ bought \in Histories
      BY <1>1, <1>9, <1>11 DEF Inv, ShapeInv
    <2>7. /\ Counted(u)
          /\ \A D, E \in SUBSET Days : Undone(t, D) = Undone(t, E) => Undone(u, D) = Undone(u, E)
      BY <1>4, <2>5, <2>6, RebuiltFlow
    <2>8. ASSUME ~loose' PROVE Even(u, applied, undoing)
      <3>1. Even(t, applied, undoing)
        BY <1>1, <1>8, <1>9, <1>11, <2>8
      <3>2. PICK H : H = Handed(undoing)
        OBVIOUS
      <3>3. H \in SUBSET Days
        BY <1>8, <2>8, <3>2, RangeDays DEF Handed, Inv, ShapeInv
      <3>4. QED
        BY <2>7, <3>1, <3>2, <3>3 DEF Even
    <2>9. QED
      BY <1>5, <1>9, <1>11, <2>7, <2>8
  <1>12. QED
    BY <1>10, <1>11

\* A plan changes no row, and what it will write adds up.
LEMMA PlanFlows ==
  ASSUME Inv, FlowInv, NEW o, NEW range \in Ranges, PlanGap(o, range)
  PROVE  FlowInv'
  <1> DEFINE ts == RestatedRows(o, range)
             Of(x) == PlanSeries(x, ts[x], Missing(x, range), AnchorsOf(x, range), o)
             accounts == [a \in Accounts |-> IF a \in Gapped(o, range) THEN Of(a) ELSE Skip]
             portfolio == IF Portfolio \notin Gapped(o, range) THEN Skip
                          ELSE IF o.accounts
                               THEN PlanFromAccounts(ts, accounts, Missing(Portfolio, range), AnchorsOf(Portfolio, range))
                               ELSE Of(Portfolio)
             of == [x \in Series |-> IF x = Portfolio THEN portfolio ELSE accounts[x]]
  <1>1. /\ plan' = [range |-> range, ts |-> ts, of |-> of]
        /\ plan = None /\ undoing = None
        /\ rows' = rows /\ undoing' = undoing /\ applied' = applied /\ runs' = runs
        /\ crossed' = crossed /\ loose' = loose
    BY Zenon DEF PlanGap
  <1>2. plan'.range = range /\ plan'.ts = ts /\ plan'.of = of
    <2> HIDE DEF ts, of
    <2>1. QED
      BY <1>1
  <1>3. RunsInv'
    <2>1. RunsInv
      BY Zenon DEF FlowInv
    <2>2. QED
      BY <1>1, <1>2, <2>1, Zenon DEF RunsInv
  <1>4. SUFFICES ASSUME ~crossed, NEW s \in Series
                 PROVE  Conserving(ts[s], of[s])
    <2> HIDE DEF ts, of
    <2>1. ~crossed => \A s \in Series : Counted(rows[s]) /\ (~loose => Even(rows[s], applied, undoing))
      BY Zenon DEF FlowInv
    <2>2. ~crossed => \A s \in Series : Conserving(ts[s], of[s])
      BY <1>4
    <2>3. QED
      BY <1>1, <1>2, <1>3, <2>1, <2>2, Zenon DEF FlowInv
  <1>5. ShapeInv /\ RowsInv /\ bought \in Histories
    BY <1>4 DEF Inv, ShapeInv
  <1>6. ASSUME NEW x \in Series
        PROVE  /\ DOMAIN ts[x] = DOMAIN rows[x] /\ DOMAIN ts[x] \subseteq Days
               /\ \A d \in DOMAIN ts[x] : ts[x][d].flow \in Nat
               /\ Missing(x, range) \subseteq Days \ DOMAIN ts[x]
               /\ x \in Gapped(o, range) => ts[x][AnchorsOf(x, range).b].flow \in Nat
    <2>1. PICK t, u, missing, b : t = ts[x] /\ u = rows[x] /\ missing = Missing(x, range) /\ b = AnchorsOf(x, range).b
      OBVIOUS
    <2>2. DOMAIN t = DOMAIN u /\ \A d \in DOMAIN t : t[d].flow = u[d].flow
      <3> HIDE DEF ts
      <3>1. DOMAIN RestatedRows(o, range)[x] = DOMAIN rows[x]
            /\ \A d \in DOMAIN RestatedRows(o, range)[x] : RestatedRows(o, range)[x][d].flow = rows[x][d].flow
        BY <1>5, RestatedSeries
      <3>2. QED
        BY <2>1, <3>1 DEF ts
    <2>3. Counted(u)
      BY <1>4, <2>1, Zenon DEF FlowInv
    <2>4. DOMAIN u \subseteq Days
      BY <1>5, <2>1 DEF RowsInv
    <2>5. missing \subseteq Days \ DOMAIN u
      BY <2>1, RangeDays DEF Missing, RowsOf
    <2>6. x \in Gapped(o, range) => b \in DOMAIN u
      BY <1>5, <2>1, GappedSeries
    <2>7. \A d \in DOMAIN t : t[d].flow \in Nat
      BY <2>2, <2>3 DEF Counted
    <2> HIDE DEF ts
    <2>8. QED
      BY <2>1, <2>2, <2>4, <2>5, <2>6, <2>7
  <1>7. ASSUME NEW x \in Series, x \in Gapped(o, range) PROVE Conserving(ts[x], Of(x))
    <2>1. PICK t, missing, gap : t = ts[x] /\ missing = Missing(x, range) /\ gap = AnchorsOf(x, range)
      OBVIOUS
    <2>2. missing \subseteq Days \ DOMAIN t /\ DOMAIN t \subseteq Days /\ t[gap.b].flow \in Nat
      BY <1>6, <1>7, <2>1
    <2>3. Conserving(t, PlanSeries(x, t, missing, gap, o))
      BY <1>5, <2>2, PlanSeriesConserves
    <2>4. QED
      BY <2>1, <2>3, Zenon
  <1>8. ASSUME NEW x \in Accounts PROVE Conserving(ts[x], accounts[x])
    <2>1. x \in Series
      BY DEF Series
    <2>2. (accounts[x] = Of(x) /\ x \in Gapped(o, range)) \/ accounts[x] = Skip
      <3> HIDE DEF Of
      <3>1. QED
        OBVIOUS
    <2> HIDE DEF accounts, Of, ts
    <2>3. QED
      BY <1>7, <2>1, <2>2, SkipConserves
  <1>9. Portfolio \in Gapped(o, range) =>
          Conserving(ts[Portfolio], PlanFromAccounts(ts, accounts, Missing(Portfolio, range), AnchorsOf(Portfolio, range)))
    <2>1. SUFFICES ASSUME Portfolio \in Gapped(o, range)
                   PROVE  Conserving(ts[Portfolio],
                            PlanFromAccounts(ts, accounts, Missing(Portfolio, range), AnchorsOf(Portfolio, range)))
      OBVIOUS
    <2>2. PICK k, plans, missing, gap : /\ k = ts /\ plans = accounts
                                        /\ missing = Missing(Portfolio, range) /\ gap = AnchorsOf(Portfolio, range)
      OBVIOUS
    <2> HIDE DEF ts, accounts
    <2>3. \A x \in Accounts : \A d \in DOMAIN k[x] : k[x][d].flow \in Nat
      BY <1>6, <2>2 DEF Series
    <2>4. \A x \in Accounts : \A d \in plans[x].points : plans[x].rows[d].flow \in Nat
      <3>1. SUFFICES ASSUME NEW x \in Accounts, NEW d \in plans[x].points PROVE plans[x].rows[d].flow \in Nat
        OBVIOUS
      <3>2. Conserving(k[x], plans[x])
        BY <1>8, <2>2
      <3>3. QED
        BY <3>1, <3>2 DEF Conserving
    <2>5. Portfolio \in Series
      BY DEF Series
    <2>6. /\ missing \subseteq Days \ DOMAIN k[Portfolio] /\ DOMAIN k[Portfolio] \subseteq Days
          /\ k[Portfolio][gap.b].flow \in Nat
      BY <1>6, <2>1, <2>2, <2>5
    <2>7. Conserving(k[Portfolio], PlanFromAccounts(k, plans, missing, gap))
      BY <1>5, <2>3, <2>4, <2>6, PlanFromAccountsConserves
    <2>8. QED
      BY <2>2, <2>7, Zenon
  <1>10. CASE s \in Accounts
    <2>1. s # Portfolio
      BY <1>10
    <2>2. of[s] = accounts[s]
      <3> HIDE DEF accounts, portfolio
      <3>1. QED
        BY <2>1
    <2> HIDE DEF of, accounts, ts
    <2>3. QED
      BY <1>8, <1>10, <2>2
  <1>11. CASE s = Portfolio
    <2>1. Portfolio \in Series
      BY DEF Series
    <2>2. of[s] = portfolio
      <3> HIDE DEF accounts, portfolio
      <3>1. QED
        BY <1>11
    <2> HIDE DEF of, accounts, ts, Of
    <2>3. Conserving(ts[Portfolio], portfolio)
      BY <1>7, <1>9, <2>1, SkipConserves
    <2>4. QED
      BY <1>11, <2>2, <2>3
  <1>12. QED
    BY <1>10, <1>11 DEF Series

\* A live row's flow: the purchases since the row before.
LEMMA RecordedFlow ==
  ASSUME bought \in Histories, NEW s \in Series, NEW d, NEW days, NEW late
  PROVE  LET r == LiveRow(s, d, days, late)
             before == {x \in days : x < d}
         IN r.flow \in Nat /\ (before # {} => r.flow = Flow(s, Max(before), d))
  <1>1. PICK u, before : u = LiveRow(s, d, days, late) /\ before = {x \in days : x < d}
    OBVIOUS
  <1>2. PICK f : f = IF before = {} THEN 0 ELSE Flow(s, Max(before), d)
    OBVIOUS
  <1>3. \E v, p : u = [nav |-> v, legs |-> v, flow |-> f, prov |-> p,
                       mark |-> None, restate |-> NoStash, rebase |-> NoStash]
    BY <1>1, <1>2 DEF LiveRow
  <1>4. u.flow = f
    BY <1>3
  <1>5. f \in Nat
    BY <1>2, BoughtIsNat
  <1>6. QED
    BY <1>1, <1>2, <1>4, <1>5

\* Initially no run could be undone.
LEMMA InitFlows == ASSUME Init PROVE FlowInv
  <1>1. PICK present \in Present, late \in {{}, {Last}} :
          rows = [s \in Series |-> [d \in present[s] |-> LiveRow(s, d, present[s], late)]]
    BY DEF Init
  <1>2. plan = None /\ undoing = None /\ applied = {} /\ runs = 0 /\ bought \in Histories /\ crossed = FALSE
    BY DEF Init
  <1>3. RunsInv
    BY <1>2 DEF RunsInv
  <1>4. ASSUME NEW s \in Series PROVE Counted(rows[s]) /\ Even(rows[s], applied, undoing)
    <2>1. PICK t, days : t = rows[s] /\ days = present[s]
      OBVIOUS
    <2>2. t = [d \in days |-> LiveRow(s, d, days, late)]
      BY <1>1, <2>1
    <2>3. \A d \in DOMAIN t : RowOK(t[d], d, {}) /\ t[d].flow \in Nat
      BY <1>2, <2>2, RecordedRow, RecordedFlow
    <2>4. \A d \in DOMAIN t : ~t[d].rebase.kept
      BY <2>3 DEF RowOK, Traced
    <2>5. Counted(t)
      BY <2>3, <2>4 DEF Counted
    <2>6. ASSUME NEW D \in SUBSET Days PROVE Undone(t, D) = Undone(t, {})
      <3>1. PICK A : A = {}
        OBVIOUS
      <3>2. (\A d \in DOMAIN t : RowOK(t[d], d, A)) /\ \A q \in A : ~Hit(q, D)
        BY <2>3, <3>1
      <3>3. D \in SUBSET Days
        BY <2>6
      <3>4. QED
        BY <2>5, <3>2, <3>3, NoRunMet
    <2>7. QED
      BY <1>2, <2>1, <2>5, <2>6 DEF Even, Handed
  <1>5. QED
    BY <1>2, <1>3, <1>4 DEF FlowInv

\* Every step keeps the flows even.
LEMMA StepFlows == ASSUME Inv, FlowInv, [Next]_vars PROVE FlowInv'
  <1>1. CASE UNCHANGED vars
    <2>1. /\ rows' = rows /\ plan' = plan /\ undoing' = undoing /\ applied' = applied /\ runs' = runs
          /\ crossed' = crossed /\ loose' = loose
      BY <1>1, Zenon DEF vars
    <2>2. Latest(undoing) => Latest(undoing)'
      BY <2>1 DEF Latest
    <2>3. QED
      BY <2>1, <2>2, Zenon DEF FlowInv, RunsInv
  <1>2. ASSUME NEW o \in Settings, NEW range \in Ranges, PlanGap(o, range) PROVE FlowInv'
    BY <1>2, PlanFlows
  <1>3. CASE DropPlan
    <2>1. /\ rows' = rows /\ plan' = None /\ undoing' = undoing /\ applied' = applied /\ runs' = runs
          /\ crossed' = crossed /\ loose' = loose
      BY <1>3, Zenon DEF DropPlan
    <2>2. Latest(undoing) => Latest(undoing)'
      BY <2>1 DEF Latest
    <2>3. QED
      BY <2>1, <2>2, Zenon DEF FlowInv, RunsInv
  <1>4. CASE ApplyPlan
    BY <1>4, ApplyFlows
  <1>5. ASSUME NEW range \in Ranges, RestoreStashes(range) PROVE FlowInv'
    BY <1>5, RestoreFlows
  <1>6. CASE DeleteMarked
    BY <1>6, DeleteFlows
  <1>7. CASE Rebuild
    BY <1>7, RebuildFlows
  <1>8. QED
    BY <1>1, <1>2, <1>3, <1>4, <1>5, <1>6, <1>7 DEF Next, Command, Undo

\* The flows of a series' rows, added up over all days.
LEMMA TotalOverDays ==
  ASSUME NEW t, DOMAIN t \subseteq Days, \A d \in DOMAIN t : t[d].flow \in Nat,
         NEW f, \A d \in Days : f[d] = IF d \in DOMAIN t THEN t[d].flow ELSE 0
  PROVE  FlowTotal(t) = SumFunctionOnSet(f, Days)
  <1>1. PICK S, g : S = DOMAIN t /\ g = [d \in DOMAIN t |-> t[d].flow]
    OBVIOUS
  <1>2. DOMAIN g = S /\ S \in SUBSET Days /\ \A d \in S : g[d] = t[d].flow
    BY <1>1
  <1>3. \A d \in Days : f[d] \in Nat
    BY <1>1
  <1>4. IsFiniteSet(S) /\ IsFiniteSet(Days)
    BY <1>2, DaysFinite, FS_Subset
  <1>5. SumFunctionOnSet(f, S) = SumFunctionOnSet(f, Days)
    <2>1. \A d \in Days \ S : f[d] = 0
      BY <1>1
    <2>2. QED
      BY <1>2, <1>3, <1>4, <2>1, SumPart
  <1>6. SumFunctionOnSet(f, S) = SumFunctionOnSet(g, S)
    <2>1. \A d \in S : f[d] \in Nat /\ g[d] = f[d]
      BY <1>1, <1>2
    <2>2. QED
      BY <1>4, <2>1, SumSame
  <1>7. FlowTotal(t) = SumFunctionOnSet(g, S)
    BY <1>1, <1>2, Zenon DEF FlowTotal, SumFunction, RowsOf
  <1>8. QED
    BY <1>5, <1>6, <1>7

\* The flows that are left when everything is undone are those of the base, which the job
\* alone would have left; and everything may be undone.
LEMMA FlowsKept ==
  ASSUME Inv, FlowInv, undoing = None, ~crossed, ~loose, NEW s \in Series
  PROVE  FlowTotal(rows[s]) = FlowTotal(base[s])
  <1>1. PICK t, b : t = rows[s] /\ b = base[s]
    OBVIOUS
  <1>2. /\ DOMAIN t \subseteq Days /\ \A d \in DOMAIN t : RowOK(t[d], d, applied)
        /\ b = View(t) /\ \A q \in applied : q.days \subseteq Days
    BY <1>1, Zenon DEF Inv, ShapeInv, RowsInv, BaseInv
  <1>3. Counted(t) /\ Even(t, applied, None)
    BY <1>1, Zenon DEF FlowInv
  <1>4. Whole(Days, applied)
    <2>1. \A q \in applied : q.days # {}
      BY DEF FlowInv, RunsInv
    <2>2. QED
      BY <1>2, <2>1 DEF Whole, Hit
  <1>5. Undone(t, Days) = Undone(t, {})
    <2>1. Days \in SUBSET Days /\ {} \subseteq Days
      OBVIOUS
    <2>2. Handed(None) = {}
      BY DEF Handed
    <2>3. QED
      BY <1>3, <1>4, <2>1, <2>2, Zenon DEF Even
  <1>6. FlowTotal(t) = Undone(t, {})
    <2>1. PICK f : f = UndoneFlow(t, {})
      OBVIOUS
    <2>2. \A d \in Days : f[d] = IF d \in DOMAIN t THEN t[d].flow ELSE 0
      BY <2>1, NothingUndone
    <2>3. \A d \in DOMAIN t : t[d].flow \in Nat
      BY <1>3 DEF Counted
    <2>4. FlowTotal(t) = SumFunctionOnSet(f, Days)
      BY <1>2, <2>2, <2>3, TotalOverDays
    <2>5. QED
      BY <2>1, <2>4 DEF Undone
  <1>7. ASSUME NEW d \in DOMAIN t
        PROVE  RowFlow(t[d], d, Days) = IF t[d].mark # None THEN 0
                                        ELSE IF t[d].rebase.kept THEN t[d].rebase.flow ELSE t[d].flow
    <2>1. PICK r, g : r = t[d] /\ g = r.rebase.gap
      OBVIOUS
    <2>2. d \in Days /\ RowOK(r, d, applied)
      BY <1>2, <2>1
    <2>3. r.rebase.kept => Met(g, Days)
      <3>1. SUFFICES ASSUME r.rebase.kept PROVE Met(g, Days)
        OBVIOUS
      <3>2. PICK q \in applied : g.lo \in Int /\ g.hi \in Int /\ g.lo <= g.hi /\ g.lo..g.hi \subseteq q.days
        BY <2>1, <2>2, <3>1 DEF RowOK, Traced
      <3>3. g.lo \in g.lo..g.hi
        BY <3>2
      <3>4. g.lo \in Days
        BY <1>2, <3>2, <3>3
      <3>5. QED
        BY <3>2, <3>4 DEF Met
    <2>4. QED
      BY <2>1, <2>2, <2>3 DEF RowFlow
  <1>8. DOMAIN b = {d \in DOMAIN t : t[d].mark = None} /\ \A d \in DOMAIN b : b[d] = Untooled(t[d])
    BY <1>2 DEF View, Plain
  <1>9. \A r : Untooled(r).flow = IF r.rebase.kept THEN r.rebase.flow ELSE r.flow
    BY DEF Untooled
  <1>10. FlowTotal(b) = Undone(t, Days)
    <2>1. PICK f : f = UndoneFlow(t, Days)
      OBVIOUS
    <2>2. \A d \in Days : f[d] = IF d \in DOMAIN t THEN RowFlow(t[d], d, Days) ELSE 0
      BY <2>1 DEF UndoneFlow
    <2>3. \A d \in DOMAIN b : b[d].flow = RowFlow(t[d], d, Days)
      BY <1>7, <1>8, <1>9
    <2>4. \A d \in DOMAIN t \ DOMAIN b : RowFlow(t[d], d, Days) = 0
      BY <1>7, <1>8
    <2>5. \A d \in Days : f[d] = IF d \in DOMAIN b THEN b[d].flow ELSE 0
      BY <1>8, <2>2, <2>3, <2>4
    <2>6. \A d \in Days : f[d] \in Nat
      BY <1>3, <2>1, UndoneIsNat
    <2>7. DOMAIN b \subseteq Days /\ \A d \in DOMAIN b : b[d].flow \in Nat
      BY <1>2, <1>8, <2>5, <2>6
    <2>8. FlowTotal(b) = SumFunctionOnSet(f, Days)
      BY <2>5, <2>7, TotalOverDays
    <2>9. QED
      BY <2>1, <2>8 DEF Undone
  <1>11. QED
    BY <1>1, <1>5, <1>6, <1>10

\* A row's flow counts at least the purchases since the row before.
Abreast(s, t) ==
  /\ DOMAIN t \subseteq Days /\ \A d \in DOMAIN t : t[d].flow \in Nat /\ Columns(t[d])
  /\ \A d, e \in DOMAIN t :
       e < d /\ (\A x \in DOMAIN t : x <= e \/ d <= x) => Flow(s, e, d) <= t[d].flow
BaseFlowInv == \A s \in Series : Abreast(s, base[s])

\* Purchases up to a day and from it on are the purchases.
LEMMA FlowAdds ==
  ASSUME bought \in Histories, NEW s \in Series, NEW x \in Days, NEW y \in Days, NEW z \in Days
  PROVE  /\ x <= y /\ y <= z => Flow(s, x, z) = Flow(s, x, y) + Flow(s, y, z)
         /\ y <= x => Flow(s, x, y) = 0
  <1> DEFINE In(a, l, h) == {d \in bought[a] : l < d /\ d <= h}
             f(l, h) == [a \in Accounts |-> Cardinality(In(a, l, h))]
  <1>1. ASSUME NEW a \in Accounts, NEW l, NEW h PROVE IsFiniteSet(In(a, l, h)) /\ Cardinality(In(a, l, h)) \in Nat
    <2>1. In(a, l, h) \subseteq Days
      OBVIOUS
    <2> HIDE DEF In
    <2>2. QED
      BY <2>1, DaysFinite, FS_Subset, FS_CardinalityType
  <1>2. ASSUME NEW a \in Accounts, x <= y, y <= z
        PROVE  Cardinality(In(a, x, z)) = Cardinality(In(a, x, y)) + Cardinality(In(a, y, z))
    <2>1. x \in Nat /\ y \in Nat /\ z \in Nat /\ \A d \in bought[a] : d \in Nat
      BY DEF Days
    <2>2. In(a, x, z) = In(a, x, y) \cup In(a, y, z) /\ In(a, x, y) \cap In(a, y, z) = {}
      <3>1. PICK B : B = bought[a] /\ \A d \in B : d \in Nat
        BY <2>1
      <3>2. ASSUME NEW d \in B
            PROVE  /\ x < d /\ d <= z <=> (x < d /\ d <= y) \/ (y < d /\ d <= z)
                   /\ ~((x < d /\ d <= y) /\ (y < d /\ d <= z))
        BY <1>2, <2>1, <3>1
      <3>3. QED
        BY <3>1, <3>2
    <2> HIDE DEF In
    <2>3. Cardinality(In(a, x, y) \cap In(a, y, z)) = 0
      BY <2>2, FS_EmptySet
    <2>4. Cardinality(In(a, x, y) \cup In(a, y, z)) =
            Cardinality(In(a, x, y)) + Cardinality(In(a, y, z)) - Cardinality(In(a, x, y) \cap In(a, y, z))
      BY <1>1, FS_Union
    <2>5. QED
      BY <1>1, <2>2, <2>3, <2>4
  <1>3. ASSUME NEW a \in Accounts, y <= x PROVE Cardinality(In(a, x, y)) = 0
    <2>1. x \in Nat /\ y \in Nat /\ \A d \in bought[a] : d \in Nat
      BY DEF Days
    <2>2. In(a, x, y) = {}
      <3>1. PICK B : B = bought[a] /\ \A d \in B : d \in Nat
        BY <2>1
      <3>2. ASSUME NEW d \in B PROVE ~(x < d /\ d <= y)
        BY <1>3, <2>1, <3>1
      <3>3. QED
        BY <3>1, <3>2
    <2>3. QED
      BY <2>2, FS_EmptySet
  <1>4. ASSUME NEW l, NEW h PROVE Bought(s, l, h) = IF s = Portfolio THEN SumFunction(f(l, h)) ELSE f(l, h)[s]
    BY Zenon DEF Bought
  <1>5. ASSUME NEW l, NEW h
        PROVE  /\ SumFunction(f(l, h)) = SumFunctionOnSet(f(l, h), Accounts)
               /\ \A a \in Accounts : f(l, h)[a] = Cardinality(In(a, l, h)) /\ f(l, h)[a] \in Nat
    <2>1. PICK g : g = f(l, h)
      OBVIOUS
    <2>2. DOMAIN g = Accounts /\ \A a \in Accounts : g[a] = Cardinality(In(a, l, h)) /\ g[a] \in Nat
      <3> HIDE DEF In
      <3>1. QED
        BY <1>1, <2>1
    <2>3. SumFunction(g) = SumFunctionOnSet(g, Accounts)
      BY <2>2, Zenon DEF SumFunction
    <2> HIDE DEF f, In
    <2>4. QED
      BY <2>1, <2>2, <2>3
  <1> HIDE DEF f, In
  <1>6. ASSUME x <= y, y <= z PROVE Bought(s, x, z) = Bought(s, x, y) + Bought(s, y, z)
    <2>1. PICK g, h, k : g = f(x, y) /\ h = f(y, z) /\ k = f(x, z)
      OBVIOUS
    <2>2. \A a \in Accounts : g[a] \in Nat /\ h[a] \in Nat /\ k[a] = g[a] + h[a]
      BY <1>2, <1>5, <1>6, <2>1
    <2>3. SumFunctionOnSet(k, Accounts) = SumFunctionOnSet(g, Accounts) + SumFunctionOnSet(h, Accounts)
      BY <2>2, SumPlus
    <2>4. s # Portfolio => s \in Accounts
      BY DEF Series
    <2>5. QED
      BY <1>4, <1>5, <2>1, <2>2, <2>3, <2>4
  <1>7. ASSUME y <= x PROVE Bought(s, x, y) = 0
    <2>1. PICK g : g = f(x, y)
      OBVIOUS
    <2>2. \A a \in Accounts : g[a] \in Nat /\ g[a] = 0
      BY <1>3, <1>5, <1>7, <2>1
    <2>3. SumFunctionOnSet(g, Accounts) = 0
      BY <2>2, SumZero
    <2>4. s # Portfolio => s \in Accounts
      BY DEF Series
    <2>5. QED
      BY <1>4, <1>5, <2>1, <2>2, <2>3, <2>4
  <1>8. QED
    BY <1>6, <1>7 DEF Flow

\* So the flows of a series count every purchase from one of its rows to any other:
\* the first row up to which they did not would follow one up to which they do.
LEMMA RowsCountPurchases ==
  ASSUME bought \in Histories, NEW s \in Series, NEW t, Abreast(s, t),
         NEW a \in DOMAIN t, NEW b \in DOMAIN t
  PROVE  Flow(s, a, b) <= FlowTotal(t)
  <1>1. PICK f : f = [d \in Days |-> IF d \in DOMAIN t THEN t[d].flow ELSE 0]
    OBVIOUS
  <1>2. \A d \in Days : f[d] \in Nat /\ f[d] = IF d \in DOMAIN t THEN t[d].flow ELSE 0
    BY <1>1 DEF Abreast
  <1>3. FlowTotal(t) = SumFunctionOnSet(f, Days)
    <2>1. DOMAIN t \subseteq Days /\ \A d \in DOMAIN t : t[d].flow \in Nat
      BY DEF Abreast
    <2>2. QED
      BY <1>2, <2>1, TotalOverDays
  <1>4. DOMAIN t \subseteq Days /\ Days \in SUBSET Nat /\ \A x \in DOMAIN t : x \in Nat
    BY DaysFinite DEF Abreast
  <1> DEFINE From(x) == {d \in Days : a < d /\ d <= x}
             Up(x) == SumFunctionOnSet(f, From(x))
             late == {x \in DOMAIN t : a <= x /\ ~(Flow(s, a, x) <= Up(x))}
  <1>5. ASSUME NEW x PROVE IsFiniteSet(From(x)) /\ From(x) \in SUBSET Days /\ Up(x) \in Nat /\ Up(x) <= FlowTotal(t)
    <2>1. From(x) \in SUBSET Days
      OBVIOUS
    <2> HIDE DEF From
    <2>2. IsFiniteSet(From(x)) /\ IsFiniteSet(Days)
      BY <2>1, DaysFinite, FS_Subset
    <2>3. \A d \in From(x) : f[d] \in Nat
      BY <1>2, <2>1
    <2>4. SumFunctionOnSet(f, From(x)) \in Nat
      BY <2>2, <2>3, SumSplit
    <2>5. \A d \in Days : f[d] \in Nat
      BY <1>2
    <2>6. SumFunctionOnSet(f, From(x)) <= SumFunctionOnSet(f, Days)
      BY <2>1, <2>2, <2>5, SumPart
    <2>7. QED
      BY <1>3, <2>1, <2>2, <2>4, <2>6
  <1>6. ASSUME NEW x \in Days, NEW y \in Days PROVE Flow(s, x, y) \in Nat
    BY BoughtIsNat
  <1>7. late = {}
    <2>1. SUFFICES ASSUME late # {} PROVE FALSE
      OBVIOUS
    <2>2. late \in SUBSET Nat /\ late \subseteq DOMAIN t
      BY <1>4
    <2> HIDE DEF late
    <2>3. PICK c : c = Min(late)
      OBVIOUS
    <2>4. c \in late /\ \A x \in late : c <= x
      BY <2>1, <2>2, <2>3, LowestDay
    <2>5. c \in DOMAIN t /\ a <= c /\ ~(Flow(s, a, c) <= Up(c))
      BY <2>4 DEF late
    <2>6. a \in Days /\ c \in Days /\ a \in Nat /\ c \in Nat
      BY <1>4, <2>5
    <2>7. a # c
      <3>1. Flow(s, a, a) = 0
        BY <2>6, FlowAdds
      <3>2. Up(a) \in Nat
        BY <1>5
      <3> HIDE DEF Up
      <3>3. QED
        BY <2>5, <3>1, <3>2
    <2>8. PICK before : before = {x \in DOMAIN t : x < c}
      OBVIOUS
    <2>9. before \in SUBSET Nat /\ a \in before /\ \A x \in before : x <= c
      <3>1. \A x \in before : x \in Nat /\ x < c
        BY <1>4, <2>8
      <3>2. a < c
        BY <2>5, <2>6, <2>7
      <3>3. QED
        BY <2>6, <2>8, <3>1, <3>2
    <2>10. PICK e : e = Max(before)
      OBVIOUS
    <2>11. e \in before /\ \A x \in before : x <= e
      BY <2>6, <2>9, <2>10, HighestDay
    <2>12. e \in DOMAIN t /\ e < c /\ a <= e /\ e \in Days /\ e \in Nat
      BY <1>4, <2>8, <2>9, <2>11
    <2>13. \A x \in DOMAIN t : x <= e \/ c <= x
      <3>1. SUFFICES ASSUME NEW x \in DOMAIN t, ~(c <= x) PROVE x <= e
        OBVIOUS
      <3>2. x < c
        BY <1>4, <2>6, <3>1
      <3>3. QED
        BY <2>8, <2>11, <3>2
    <2>14. Flow(s, e, c) <= t[c].flow /\ t[c].flow = f[c] /\ f[c] \in Nat
      BY <1>2, <2>5, <2>6, <2>12, <2>13 DEF Abreast
    <2>15. e \notin late
      BY <2>4, <2>6, <2>12
    <2>16. Flow(s, a, e) <= Up(e)
      BY <2>12, <2>15 DEF late
    <2>17. Flow(s, a, c) = Flow(s, a, e) + Flow(s, e, c)
      BY <2>6, <2>12, FlowAdds
    <2>18. Up(e) + f[c] <= Up(c)
      <3>1. PICK S : S = From(c)
        OBVIOUS
      <3>2. c \in S /\ IsFiniteSet(S) /\ S \in SUBSET Days
        BY <1>5, <2>5, <2>6, <2>7, <3>1
      <3>3. \A d \in S : f[d] \in Nat
        BY <1>2, <3>2
      <3>4. SumFunctionOnSet(f, S) = f[c] + SumFunctionOnSet(f, S \ {c}) /\ SumFunctionOnSet(f, S \ {c}) \in Nat
        <4>1. PICK x : x = c
          OBVIOUS
        <4>2. x \in S /\ IsFiniteSet(S) /\ \A d \in S : f[d] \in Nat
          BY <3>2, <3>3, <4>1
        <4> HIDE DEF From, Up, late
        <4>3. SumFunctionOnSet(f, S \ {x}) \in Nat
          BY <4>2, SumSplit
        <4>4. SumFunctionOnSet(f, S) = f[x] + SumFunctionOnSet(f, S \ {x})
          BY <4>2, SumSplit
        <4>5. QED
          BY <4>1, <4>3, <4>4
      <3>5. From(e) \subseteq S \ {c}
        BY <2>6, <2>12, <3>1, <1>4
      <3>6. PICK T, U : T = From(e) /\ U = S \ {c}
        OBVIOUS
      <3>7. IsFiniteSet(U) /\ T \in SUBSET U /\ \A d \in U : f[d] \in Nat
        BY <3>2, <3>3, <3>5, <3>6, FS_Subset
      <3>8. SumFunctionOnSet(f, T) <= SumFunctionOnSet(f, U)
        BY <3>7, SumPart
      <3>9. SumFunctionOnSet(f, T) \in Nat
        BY <1>5, <3>6
      <3>10. SumFunctionOnSet(f, T) + f[c] <= SumFunctionOnSet(f, S)
        BY <2>14, <3>4, <3>6, <3>8, <3>9
      <3>11. QED
        BY <3>1, <3>6, <3>10
    <2>19. PICK i, j, k, l, m : /\ i = Flow(s, a, e) /\ j = Flow(s, e, c) /\ k = Up(e) /\ l = f[c] /\ m = Up(c)
      OBVIOUS
    <2>20. i \in Nat /\ j \in Nat /\ k \in Nat /\ l \in Nat /\ m \in Nat
      BY <1>5, <1>6, <2>6, <2>12, <2>14, <2>19
    <2>21. i <= k /\ j <= l /\ k + l <= m /\ ~(i + j <= m)
      BY <2>5, <2>14, <2>16, <2>17, <2>18, <2>19
    <2>22. QED
      BY <2>20, <2>21
  <1>8. a \in Days /\ b \in Days /\ a \in Nat /\ b \in Nat
    BY <1>4
  <1>9. CASE a <= b
    <2>1. Flow(s, a, b) <= Up(b)
      BY <1>7, <1>9
    <2> HIDE DEF Up, late
    <2>2. Up(b) <= FlowTotal(t) /\ Up(b) \in Nat
      BY <1>5
    <2>3. FlowTotal(t) \in Nat
      BY <1>2, <1>3, DaysFinite, SumSplit
    <2>4. Flow(s, a, b) \in Nat
      BY <1>6, <1>8
    <2>5. QED
      BY <2>1, <2>2, <2>3, <2>4
  <1>10. CASE ~(a <= b)
    <2>1. Flow(s, a, b) = 0
      BY <1>8, <1>10, FlowAdds
    <2>2. FlowTotal(t) \in Nat
      BY <1>2, <1>3, DaysFinite, SumSplit
    <2>3. QED
      BY <2>1, <2>2
  <1>11. QED
    BY <1>9, <1>10

\* Purchases are counted by the days they fall on.
LEMMA BoughtSame ==
  ASSUME bought \in Histories, NEW s \in Series, NEW l, NEW h, NEW m, NEW n,
         \A a \in Accounts : \A x \in bought[a] : (l < x /\ x <= h) <=> (m < x /\ x <= n)
  PROVE  Bought(s, l, h) = Bought(s, m, n)
  <1> DEFINE In(a, i, j) == {d \in bought[a] : i < d /\ d <= j}
             f(i, j) == [a \in Accounts |-> Cardinality(In(a, i, j))]
  <1>1. ASSUME NEW i, NEW j PROVE Bought(s, i, j) = IF s = Portfolio THEN SumFunction(f(i, j)) ELSE f(i, j)[s]
    BY Zenon DEF Bought
  <1>2. \A a \in Accounts : In(a, l, h) = In(a, m, n)
    OBVIOUS
  <1> HIDE DEF In
  <1>3. f(l, h) = f(m, n)
    BY <1>2
  <1> HIDE DEF f
  <1>4. QED
    BY <1>1, <1>3

\* The job keeps the flows of the base abreast of the purchases: it writes the day of
\* every lot.
LEMMA RebuiltAbreast ==
  ASSUME bought \in Histories, "ledger" \in records, NEW t, Abreast(Portfolio, t)
  PROVE  Abreast(Portfolio, Rebuilt(t))
  <1>1. PICK u : u = Rebuilt(t)
    OBVIOUS
  <1>2. Portfolio \in Series
    BY DEF Series
  <1>3. DOMAIN u = DOMAIN t \cup TradeDays /\ TradeDays \subseteq Days
    <2>1. DOMAIN u = DOMAIN t \cup TradeDays
      BY <1>1 DEF Rebuilt, RowsOf
    <2>2. TradeDays \subseteq Days
      BY DEF TradeDays
    <2>3. QED
      BY <2>1, <2>2
  <1>4. ASSUME NEW d \in DOMAIN u
        PROVE  /\ Columns(u[d])
               /\ d \in TradeDays => u[d].flow = Bought(Portfolio, d - 1, d)
               /\ d \notin TradeDays => u[d] = t[d]
    <2>1. d \in DOMAIN t => Columns(t[d])
      BY DEF Abreast
    <2>2. CASE d \notin TradeDays
      <3>1. u[d] = t[d]
        BY <1>1, <1>3, <2>2 DEF Rebuilt, RowsOf
      <3>2. QED
        BY <1>3, <2>1, <2>2, <3>1
    <2>3. CASE d \in TradeDays
      <3>1. PICK v, f, r : /\ v = Closing(Portfolio, d) /\ f = Bought(Portfolio, d - 1, d)
                           /\ r = IF d \in DOMAIN t THEN t[d] ELSE Blank(Portfolio, d)
        OBVIOUS
      <3>2. u[d] = JobWrite(r, v, f)
        BY <1>1, <2>3, <3>1 DEF Rebuilt, RowsOf, JobWrite
      <3>3. Columns(r)
        <4>1. Columns(Blank(Portfolio, d))
          BY BlankRow DEF RowOK
        <4>2. QED
          BY <2>1, <3>1, <4>1
      <3>4. PICK w : w = JobWrite(r, v, f)
        OBVIOUS
      <3>5. Columns(w) /\ w.flow = f
        BY <3>3, <3>4 DEF JobWrite, Columns
      <3>6. QED
        BY <2>3, <3>1, <3>2, <3>4, <3>5
    <2>4. QED
      BY <2>2, <2>3
  <1>5. DOMAIN u \subseteq Days /\ \A d \in DOMAIN u : d \in Nat
    <2>1. DOMAIN t \subseteq Days /\ \A d \in Days : d \in Nat
      BY DEF Abreast, Days
    <2>2. QED
      BY <1>3, <2>1
  <1>6. ASSUME NEW d \in DOMAIN u PROVE u[d].flow \in Nat
    <2>1. Bought(Portfolio, d - 1, d) \in Nat
      BY <1>2, BoughtIsNat
    <2>2. QED
      BY <1>3, <1>4, <2>1 DEF Abreast
  <1>7. \A x, y : Flow(Portfolio, x, y) = Bought(Portfolio, x, y)
    BY DEF Flow
  <1>8. ASSUME NEW d \in DOMAIN u, NEW e \in DOMAIN u, e < d, \A x \in DOMAIN u : x <= e \/ d <= x
        PROVE  Flow(Portfolio, e, d) <= u[d].flow
    <2>1. \A a \in Accounts : \A x \in bought[a] : x \in DOMAIN u /\ x \in Nat /\ x \in TradeDays
      BY <1>3, <1>5 DEF TradeDays
    <2>2. d \in Nat /\ e \in Nat /\ d \in Days /\ e \in Days
      BY <1>5
    <2>3. CASE d \in TradeDays
      <3>1. ASSUME NEW a \in Accounts, NEW x \in bought[a]
            PROVE  (e < x /\ x <= d) <=> (d - 1 < x /\ x <= d)
        <4>1. x \in Nat /\ (x <= e \/ d <= x)
          BY <1>8, <2>1
        <4>2. QED
          BY <1>8, <2>2, <4>1
      <3>2. Bought(Portfolio, e, d) = Bought(Portfolio, d - 1, d)
        BY <1>2, <3>1, BoughtSame
      <3>3. Bought(Portfolio, e, d) \in Nat
        BY <1>2, BoughtIsNat
      <3>4. QED
        BY <1>4, <1>7, <2>3, <3>2, <3>3
    <2>4. CASE d \notin TradeDays
      <3>1. ASSUME NEW a \in Accounts, NEW x \in bought[a]
            PROVE  (e < x /\ x <= d) <=> (d < x /\ x <= d)
        <4>1. x \in Nat /\ (x <= e \/ d <= x) /\ x # d
          BY <1>8, <2>1, <2>4
        <4>2. QED
          BY <2>2, <4>1
      <3>2. Bought(Portfolio, e, d) = Bought(Portfolio, d, d)
        BY <1>2, <3>1, BoughtSame
      <3>3. Flow(Portfolio, d, d) = 0
        BY <1>2, <2>2, FlowAdds
      <3>4. u[d].flow \in Nat
        BY <1>6
      <3>5. QED
        BY <1>7, <3>2, <3>3, <3>4
    <2>5. QED
      BY <2>3, <2>4
  <1>9. Abreast(Portfolio, u)
    BY <1>4, <1>5, <1>6, <1>8 DEF Abreast
  <1>10. QED
    BY <1>1, <1>9

\* Initially the rows are live ones, whose flows are the purchases since the row before.
LEMMA InitAbreast == ASSUME Init PROVE BaseFlowInv
  <1>1. PICK present \in Present, late \in {{}, {Last}} :
          rows = [s \in Series |-> [d \in present[s] |-> LiveRow(s, d, present[s], late)]]
    BY DEF Init
  <1>2. base = rows /\ bought \in Histories
    BY DEF Init
  <1>3. SUFFICES ASSUME NEW s \in Series PROVE Abreast(s, rows[s])
    BY <1>2, <1>3 DEF BaseFlowInv
  <1>4. PICK t, days : t = rows[s] /\ days = present[s]
    OBVIOUS
  <1>5. DOMAIN t = days /\ days \subseteq Days /\ \A d \in days : t[d] = LiveRow(s, d, days, late)
    BY <1>1, <1>4
  <1>6. ASSUME NEW d \in days PROVE t[d].flow \in Nat /\ Columns(t[d])
    <2>1. Columns(LiveRow(s, d, days, late))
      BY RecordedRow DEF RowOK
    <2>2. LiveRow(s, d, days, late).flow \in Nat
      BY <1>2, RecordedFlow
    <2>3. QED
      BY <1>5, <2>1, <2>2
  <1>7. ASSUME NEW d \in days, NEW e \in days, e < d, \A x \in days : x <= e \/ d <= x
        PROVE  Flow(s, e, d) <= t[d].flow
    <2>1. PICK before : before = {x \in days : x < d}
      OBVIOUS
    <2>2. d \in Nat /\ e \in before /\ \A x \in before : x \in Nat /\ x <= d /\ x \in days /\ x < d
      BY <1>5, <1>7, <2>1 DEF Days
    <2>3. PICK x : x = Max(before)
      OBVIOUS
    <2>4. x \in before /\ e <= x
      <3>1. before \in SUBSET Nat
        BY <2>2
      <3>2. QED
        BY <2>2, <2>3, <3>1, HighestDay
    <2>5. x = e
      <3>1. x \in Nat /\ e \in Nat /\ x < d /\ (x <= e \/ d <= x)
        BY <1>7, <2>2, <2>4
      <3>2. QED
        BY <2>2, <2>4, <3>1
    <2>6. t[d].flow = Flow(s, x, d)
      <3>1. LET r == LiveRow(s, d, days, late)
                before_1 == {y \in days : y < d}
            IN r.flow \in Nat /\ (before_1 # {} => r.flow = Flow(s, Max(before_1), d))
        BY <1>2, RecordedFlow
      <3>2. QED
        BY <1>5, <2>1, <2>2, <2>3, <3>1
    <2>7. Flow(s, x, d) \in Nat
      BY <1>2, BoughtIsNat
    <2>8. QED
      BY <2>5, <2>6, <2>7
  <1>8. Abreast(s, t)
    BY <1>5, <1>6, <1>7 DEF Abreast
  <1>9. QED
    BY <1>4, <1>8

\* No other step touches the base.
LEMMA StepAbreast == ASSUME Inv, BaseFlowInv, [Next]_vars PROVE BaseFlowInv'
  <1>1. ASSUME base' = base, bought' = bought, records' = records PROVE BaseFlowInv'
    BY <1>1 DEF BaseFlowInv, Abreast, Flow, Bought
  <1>2. CASE UNCHANGED vars
    BY <1>1, <1>2 DEF vars
  <1>3. CASE Command \/ Undo
    BY <1>1, <1>3 DEF Command, Undo, PlanGap, DropPlan, ApplyPlan, RestoreStashes, DeleteMarked, world
  <1>4. CASE Rebuild
    <2>1. PICK u : u = Rebuilt(base[Portfolio])
      OBVIOUS
    <2>2. /\ base' = [base EXCEPT ![Portfolio] = u] /\ bought' = bought /\ records' = records
          /\ "ledger" \in records
      BY <1>4, <2>1 DEF Rebuild, world
    <2>3. base = [s \in Series |-> base[s]] /\ bought \in Histories /\ Portfolio \in Series
      BY DEF Inv, ShapeInv, Series
    <2>4. Abreast(Portfolio, u)
      BY <2>1, <2>2, <2>3, RebuiltAbreast DEF BaseFlowInv
    <2>5. \A s \in Series : Abreast(s, base'[s])
      BY <2>2, <2>3, <2>4 DEF BaseFlowInv
    <2>6. QED
      BY <2>2, <2>5 DEF BaseFlowInv, Abreast, Flow, Bought
  <1>5. QED
    BY <1>2, <1>3, <1>4 DEF Next

\* snapshot_gap.py: what a run does to the flows it can undo, and no more.  While the nightly
\* job rewrites no row the tool marked, stashed or is about to, no run stashes over another's
\* flow, none is undone in part or under a later one, and no flow was overlooked,
\* the flows of a series add up to what they would without the tool, after any runs and undos.
THEOREM FlowsConserved ==
  Spec => [](undoing = None /\ ~crossed /\ ~loose =>
               \A s \in Series : FlowTotal(rows[s]) = FlowTotal(base[s]))
  <1>1. Init => Inv /\ FlowInv
    BY InitInv, InitFlows
  <1>2. Inv /\ FlowInv /\ [Next]_vars => Inv' /\ FlowInv'
    BY StepInv, StepFlows
  <1>3. Inv /\ FlowInv => (undoing = None /\ ~crossed /\ ~loose =>
                           \A s \in Series : FlowTotal(rows[s]) = FlowTotal(base[s]))
    BY FlowsKept
  <1>4. QED
    BY <1>1, <1>2, <1>3, PTL DEF Spec

\* The flows lie between the purchases and what the job alone would have counted.
LEMMA FlowsBetween ==
  ASSUME Inv, FlowInv, BaseFlowInv, ~crossed
  PROVE  FlowsAddUp
  <1>1. SUFFICES ASSUME undoing = None, ~loose, NEW s \in Series
                 PROVE  /\ \A d, e \in DOMAIN base[s] : Flow(s, d, e) <= FlowTotal(rows[s])
                        /\ FlowTotal(rows[s]) <= FlowTotal(base[s])
    BY Zenon DEF FlowsAddUp, RowsOf
  <1>2. PICK t : t = base[s]
    OBVIOUS
  <1>3. Abreast(s, t) /\ bought \in Histories
    BY <1>2 DEF BaseFlowInv, Inv, ShapeInv
  <1>4. FlowTotal(rows[s]) = FlowTotal(t)
    BY <1>1, <1>2, FlowsKept
  <1>5. \A d, e \in DOMAIN t : Flow(s, d, e) <= FlowTotal(t)
    BY <1>3, RowsCountPurchases
  <1>6. FlowTotal(t) \in Nat
    <2>1. PICK f : f = [d \in Days |-> IF d \in DOMAIN t THEN t[d].flow ELSE 0]
      OBVIOUS
    <2>2. DOMAIN t \subseteq Days /\ \A d \in DOMAIN t : t[d].flow \in Nat
      BY <1>3 DEF Abreast
    <2>3. \A d \in Days : f[d] \in Nat /\ f[d] = IF d \in DOMAIN t THEN t[d].flow ELSE 0
      BY <2>1, <2>2
    <2>4. FlowTotal(t) = SumFunctionOnSet(f, Days)
      BY <2>2, <2>3, TotalOverDays
    <2>5. QED
      BY <2>3, <2>4, DaysFinite, SumSplit
  <1>7. QED
    BY <1>2, <1>4, <1>5, <1>6

\* A row the tool filled is honest: its flow is counted once, and its guesses are marked.
\* While the job rewrites no row the tool marked, stashed or is about to and no run stashes
\* over another's flow, no purchase is lost and none counted twice that the job alone would
\* not count twice.
THEOREM FilledHonestly ==
  ASSUME SharesCloseEverySession
  PROVE  Spec => [](~crossed => FilledRowsAreHonest)
  <1>1. Init => Inv /\ FlowInv /\ BaseFlowInv
    BY InitInv, InitFlows, InitAbreast
  <1>2. Inv /\ FlowInv /\ BaseFlowInv /\ [Next]_vars => Inv' /\ FlowInv' /\ BaseFlowInv'
    BY StepInv, StepFlows, StepAbreast
  <1>3. Spec => []EstimatesAreFlagged
    BY EstimatesFlagged
  <1>4. Inv /\ FlowInv /\ BaseFlowInv /\ EstimatesAreFlagged => (~crossed => FilledRowsAreHonest)
    BY FlowsBetween DEF FilledRowsAreHonest
  <1>5. QED
    BY <1>1, <1>2, <1>3, <1>4, PTL DEF Spec
================================================================================
