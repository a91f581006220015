---------------------------- MODULE NavSeriesProofs ----------------------------
(***************************************************************************)
(* Proofs about NavSeries, for every calendar, set of lots, failure and    *)
(* button: its types, that a row with a price from after its day is        *)
(* stamped as estimated, that an open row is the sum of the legs it        *)
(* recorded and is restated at its own session, and that flows explain     *)
(* every move of the position before the last reconstruction.              *)
(***************************************************************************)
EXTENDS NavSeries, FiniteSetTheorems, SequenceTheorems, TLAPS
USE NavAssumption DEF NavAssumption

\* A nonempty set of days has a last one.
LEMMA LargestIsMember ==
  ASSUME NEW S \in SUBSET Dates, S # {}
  PROVE  Largest(S) \in S /\ \A n \in S : n <= Largest(S)
  <1> DEFINE Above(m) == {k \in S : m < k}
  <1>1. IsFiniteSet(S)
    BY FS_Interval, FS_Subset, 0 \in Int, Last \in Int DEF Dates
  <1>2. IsWellFoundedOn(StrictSubsetOrdering(S), SUBSET S)
    BY <1>1, FS_StrictSubsetOrderingWellFounded, FS_FiniteSubsetsOfFinite
  <1>3. {Above(m) : m \in S} \subseteq SUBSET S /\ {Above(m) : m \in S} # {}
    <2>1. \A m \in S : Above(m) \in SUBSET S
      OBVIOUS
    <2> HIDE DEF Above
    <2>2. PICK m : m \in S
      OBVIOUS
    <2>3. Above(m) \in {Above(k) : k \in S}
      BY <2>2
    <2>4. QED
      BY <2>1, <2>3
  <1>4. PICK T \in {Above(m) : m \in S} :
          \A U \in {Above(m) : m \in S} : <<U, T>> \notin StrictSubsetOrdering(S)
    BY <1>2, <1>3, WFMin
  <1>5. PICK m \in S : T = Above(m)
    BY <1>4
  <1>6. ASSUME NEW n \in S, ~(n <= m) PROVE FALSE
    <2>1. n \in Nat /\ m \in Nat /\ S \subseteq Nat
      BY DEF Dates
    <2>2. m < n
      BY <2>1, <1>6
    <2>3. n \in Above(m) /\ n \notin Above(n)
      BY <2>1, <2>2
    <2>4. ASSUME NEW k \in Above(n) PROVE k \in Above(m)
      BY <2>1, <2>2
    <2>5. <<Above(n), T>> \in StrictSubsetOrdering(S)
      BY <2>3, <2>4, <1>5 DEF StrictSubsetOrdering
    <2>6. QED
      BY <2>5, <1>4
  <1>7. QED
    BY <1>5, <1>6 DEF Largest

\* Likewise the first of a set of days.
LEMMA SmallestIsMember ==
  ASSUME NEW S \in SUBSET Dates, S # {}
  PROVE  Smallest(S) \in S /\ \A n \in S : n >= Smallest(S)
  <1> DEFINE Below(m) == {k \in S : k < m}
  <1>1. IsFiniteSet(S)
    BY FS_Interval, FS_Subset, 0 \in Int, Last \in Int DEF Dates
  <1>2. IsWellFoundedOn(StrictSubsetOrdering(S), SUBSET S)
    BY <1>1, FS_StrictSubsetOrderingWellFounded, FS_FiniteSubsetsOfFinite
  <1>3. {Below(m) : m \in S} \subseteq SUBSET S /\ {Below(m) : m \in S} # {}
    <2>1. \A m \in S : Below(m) \in SUBSET S
      OBVIOUS
    <2> HIDE DEF Below
    <2>2. PICK m : m \in S
      OBVIOUS
    <2>3. Below(m) \in {Below(k) : k \in S}
      BY <2>2
    <2>4. QED
      BY <2>1, <2>3
  <1>4. PICK T \in {Below(m) : m \in S} :
          \A U \in {Below(m) : m \in S} : <<U, T>> \notin StrictSubsetOrdering(S)
    BY <1>2, <1>3, WFMin
  <1>5. PICK m \in S : T = Below(m)
    BY <1>4
  <1>6. ASSUME NEW n \in S, ~(n >= m) PROVE FALSE
    <2>1. n \in Nat /\ m \in Nat /\ S \subseteq Nat
      BY DEF Dates
    <2>2. n < m
      BY <2>1, <1>6
    <2>3. n \in Below(m) /\ n \notin Below(n)
      BY <2>1, <2>2
    <2>4. ASSUME NEW k \in Below(n) PROVE k \in Below(m)
      BY <2>1, <2>2
    <2>5. <<Below(n), T>> \in StrictSubsetOrdering(S)
      BY <2>3, <2>4, <1>5 DEF StrictSubsetOrdering
    <2>6. QED
      BY <2>5, <1>4
  <1>7. QED
    BY <1>5, <1>6 DEF Smallest

\* The bars and the spine know nothing from after today, and every ticker has a bar.
BarsInv ==
  \A t \in Tickers : /\ 0 \in bars[t] /\ spine[t] <= today
                     /\ \A b \in bars[t] : b <= today

\* The steps that write rows.
Writers == {"reconcile", "reconstruct", "record"}

\* A request under way is dated today or later; what it will write it computed from
\* rows it had read, none of which has gone since.
SessionInv ==
  \A s \in Sources :
    /\ todo[s] # << >> => today <= asof[s]
    /\ pending[s] # None =>
         /\ todo[s] # << >> /\ Head(todo[s]) \in Writers /\ loaded[s] \in Series
         /\ \A d \in Days : loaded[s][d] # None => rows[d] # None

\* The inductive invariant of the types.
Inv == TypeOK /\ BarsInv /\ SessionInv

\* The newest bar is one, and so is what a reconstruction values a day at: a bar of no later
\* day, or a guess.
LEMMA BarsType ==
  ASSUME TypeOK, BarsInv, NEW t \in Tickers
  PROVE  /\ LatestBar(t) \in bars[t] /\ LatestBar(t) \in Dates /\ LatestBar(t) <= today
         /\ \A e \in Days, d \in Days :
              /\ AsOfBar(t, e, d) \in Dates /\ AsOfBar(t, e, d) <= today
              /\ Seen(t, e, d) # {} => AsOfBar(t, e, d) <= e
  <1>1. bars[t] \in SUBSET Dates /\ 0 \in bars[t]
    BY DEF TypeOK, BarsInv
  <1>2. LatestBar(t) \in bars[t]
    BY <1>1, LargestIsMember DEF LatestBar
  <1>3. ASSUME NEW e \in Days, NEW d \in Days, Seen(t, e, d) # {}
        PROVE  AsOfBar(t, e, d) \in Seen(t, e, d)
    <2>1. Seen(t, e, d) \in SUBSET Dates
      BY <1>1 DEF Seen
    <2>2. AsOfBar(t, e, d) = Largest(Seen(t, e, d))
      BY <1>3 DEF AsOfBar
    <2>3. QED
      BY <1>3, <2>1, <2>2, LargestIsMember
  <1>4. ASSUME NEW e \in Days, NEW d \in Days, NEW b \in Seen(t, e, d)
        PROVE  b \in bars[t] /\ b <= e
    BY <1>4 DEF Seen
  <1>5. ASSUME NEW e \in Days, NEW d \in Days
        PROVE  AsOfBar(t, e, d) \in bars[t] /\ (Seen(t, e, d) # {} => AsOfBar(t, e, d) <= e)
    <2>1. CASE Seen(t, e, d) = {}
      BY <1>2, <2>1 DEF AsOfBar
    <2>2. CASE Seen(t, e, d) # {}
      BY <1>3, <1>4, <2>2
    <2>3. QED
      BY <2>1, <2>2
  <1>6. \A b \in bars[t] : b \in Dates /\ b <= today
    BY <1>1 DEF BarsInv
  <1>7. QED
    BY <1>2, <1>5, <1>6

\* A flow counts lots.
LEMMA FlowType == \A days : Flow(days) \in Flows
  <1> TAKE days
  <1> DEFINE B == {l \in Lots : Opened(l) /\ lots[l].open \in days}
             S == {l \in Lots : Closed(l) /\ lots[l].close \in days}
  <1>1. IsFiniteSet(B) /\ Cardinality(B) <= Cardinality(Lots)
    BY FS_Subset
  <1>2. IsFiniteSet(S) /\ Cardinality(S) <= Cardinality(Lots)
    BY FS_Subset
  <1>3. Cardinality(B) \in Nat /\ Cardinality(S) \in Nat /\ Cardinality(Lots) \in Nat
    BY <1>1, <1>2, FS_CardinalityType
  <1>4. Flow(days) = Cardinality(B) - Cardinality(S)
    BY DEF Flow
  <1> HIDE DEF B, S
  <1>5. QED
    BY <1>1, <1>2, <1>3, <1>4 DEF Flows

\* A count of held lots is a quantity.
LEMMA HeldType ==
  /\ Cardinality(HeldNow) \in 0 .. Cardinality(Lots)
  /\ \A e : Cardinality(HeldOn(e)) \in 0 .. Cardinality(Lots)
  /\ 0 \in 0 .. Cardinality(Lots)
  <1>1. ASSUME NEW H \in SUBSET Lots PROVE Cardinality(H) \in 0 .. Cardinality(Lots)
    BY FS_Subset, FS_CardinalityType
  <1>2. HeldNow \in SUBSET Lots /\ \A e : HeldOn(e) \in SUBSET Lots
    BY DEF HeldNow, HeldOn
  <1>3. 0 \in 0 .. Cardinality(Lots)
    BY FS_CardinalityType
  <1>4. QED
    BY <1>1, <1>2, <1>3

\* Legs of a quantity and two bars.
LEMMA LegsType ==
  ASSUME NEW qty \in 0 .. Cardinality(Lots), NEW stock \in Dates, NEW fund \in Dates
  PROVE  LegsOf(qty, stock, fund) \in Legs
  BY DEF LegsOf, Legs, Dates

\* The rows a live record, a reconstruction and a restatement write are rows.
LEMMA RecordType ==
  ASSUME TypeOK, BarsInv, NEW d \in Days
  PROVE  RecordRow(d) \in Series /\ Recorded(d) \in NavSnapshot /\ LiveLegs \in Legs
  <1>1. LiveLegs \in Legs
    BY BarsType, HeldType, LegsType DEF LiveLegs, Tickers
  <1>2. (LatestBar(Fund) < d) \in BOOLEAN
    BY BarsType DEF Tickers
  <1>3. LiveFlow(d) \in Flows
    <2>1. 0 \in Flows
      BY FS_CardinalityType DEF Flows
    <2>2. QED
      BY <2>1, FlowType DEF LiveFlow
  <1>4. Recorded(d) \in NavSnapshot
    BY <1>1, <1>2, <1>3 DEF Recorded, NavSnapshot, Composition
  <1>5. QED
    BY <1>1, <1>4 DEF RecordRow, Series

\* A rebuilt row is a row.
LEMMA RebuiltType ==
  ASSUME TypeOK, BarsInv, NEW d \in Days, NEW e \in Days
  PROVE  Rebuilt(e, d) \in NavSnapshot
  <1>1. AsOfLegs(e, d) \in Legs
    <2>1. (IF Priced(e, d) THEN Cardinality(HeldOn(e)) ELSE 0) \in 0 .. Cardinality(Lots)
      BY HeldType
    <2>2. AsOfBar(Stock, e, d) \in Dates
      BY BarsType DEF Tickers
    <2>3. (IF Placed THEN AsOfBar(Fund, e, d) ELSE LatestBar(Fund)) \in Dates
      BY BarsType DEF Tickers
    <2>4. QED
      BY <2>1, <2>2, <2>3, LegsType DEF AsOfLegs
  <1>2. (IF rows[e] = None THEN None ELSE rows[e].composition) \in Composition \cup {None}
    BY DEF TypeOK, Series, NavSnapshot
  <1>3. RebuiltFlow(e, d) \in Flows
    BY FlowType DEF RebuiltFlow
  <1>4. Estimated(e, d) \in BOOLEAN
    BY DEF Estimated
  <1>5. QED
    BY <1>1, <1>2, <1>3, <1>4 DEF Rebuilt, NavSnapshot

\* reconstruct_snapshots writes rows.
LEMMA ReconstructType ==
  ASSUME TypeOK, BarsInv, NEW d \in Days
  PROVE  /\ ReconstructRows(d) \in Series
         /\ \A e \in Rebuildable(d) \cap Days :
              ReconstructRows(d)[e] = Rebuilt(e, d) /\ Rebuilt(e, d) \in NavSnapshot
  BY RebuiltType DEF ReconstructRows, Series

\* _restate_provisional replaces the fund leg of a row by a struck NAV and keeps the stock leg it recorded.
LEMMA RestatedType ==
  ASSUME TypeOK, NEW e \in Days, NEW row \in NavSnapshot, Restatable(row, e)
  PROVE  /\ Restated(row, e) \in NavSnapshot
         /\ row.composition \in Composition
         /\ Largest(Struck(row, e)) \in Struck(row, e)
         /\ Restated(row, e).nav.stock = row.composition.legs.stock
         /\ Restated(row, e).nav.fund = Largest(Struck(row, e))
         /\ Restated(row, e).nav = Restated(row, e).composition.legs
         /\ Restated(row, e).provisional = FALSE
         /\ Restated(row, e).nav.qty = row.composition.legs.qty
         /\ Restated(row, e).flow = row.flow
         /\ Restated(row, e).estimated = row.estimated
  <1> DEFINE legs == [row.composition.legs EXCEPT !.fund = Largest(Struck(row, e))]
  <1>1. row.composition \in Composition /\ Struck(row, e) # {}
    BY DEF Restatable, NavSnapshot
  <1>2. Struck(row, e) \in SUBSET Dates
    BY DEF Struck, TypeOK, Tickers
  <1>3. Largest(Struck(row, e)) \in Struck(row, e)
    BY <1>1, <1>2, LargestIsMember
  <1>4. /\ legs \in Legs /\ legs.stock = row.composition.legs.stock
        /\ legs.fund = Largest(Struck(row, e)) /\ legs.qty = row.composition.legs.qty
    BY <1>1, <1>2, <1>3 DEF Composition, Legs
  <1>5. Restated(row, e) = [row EXCEPT !.nav = legs, !.provisional = FALSE,
                                       !.composition = [legs |-> legs, stale |-> FALSE]]
    BY DEF Restated
  <1> HIDE DEF legs
  <1>6. [legs |-> legs, stale |-> FALSE] \in Composition
    BY <1>4 DEF Composition
  <1>7. Restated(row, e) = [nav |-> legs, flow |-> row.flow, provisional |-> FALSE,
                            composition |-> [legs |-> legs, stale |-> FALSE],
                            estimated |-> row.estimated]
    BY <1>5 DEF NavSnapshot
  <1>8. Restated(row, e) \in NavSnapshot
    BY <1>4, <1>6, <1>7 DEF NavSnapshot
  <1>9. QED
    BY <1>1, <1>3, <1>4, <1>7, <1>8

\* The restatement writes rows.
LEMMA ReconcileType ==
  ASSUME TypeOK, NEW d \in Days
  PROVE  ReconcileRows(d) \in Series
  <1>1. ASSUME NEW e \in Days, Restatable(rows[e], e) PROVE Restated(rows[e], e) \in NavSnapshot
    <2>1. rows[e] \in NavSnapshot
      BY <1>1 DEF TypeOK, Series, Restatable
    <2>2. QED
      BY <1>1, <2>1, RestatedType
  <1>2. QED
    BY <1>1 DEF ReconcileRows, Series

\* A merge takes each column from the row as it is or from the one to write.
LEMMA MergedType ==
  ASSUME NEW now \in NavSnapshot, NEW old \in NavSnapshot, NEW new \in NavSnapshot
  PROVE  /\ Merged(now, old, new) \in NavSnapshot
         /\ Merged(now, old, new).nav \in {now.nav, new.nav}
         /\ Merged(now, old, new).composition \in {now.composition, new.composition}
         /\ now = old => Merged(now, old, new) = new
  BY DEF Merged, NavSnapshot

\* Nothing is known and nothing runs.
LEMMA InitInv == Init => Inv
  <1> SUFFICES ASSUME Init PROVE Inv
    OBVIOUS
  <1>1. WithinBudget(requests) /\ requests \in [Sources -> Nat]
    BY DEF Init, WithinBudget
  <1>2. rows \in Series
    BY DEF Init, Series
  <1>3. lots \in [Lots \cup {Fund} -> [open : Dates, close : Dates]]
    BY DEF Init, Dates
  <1>4. uptodate \in [Sources \cup {"series"} -> Dates]
    BY DEF Init, Dates
  <1>5. TypeOK
    BY <1>1, <1>2, <1>3, <1>4, EmptySeq DEF Init, TypeOK, Days, Dates
  <1>6. QED
    BY <1>5 DEF Init, Inv, BarsInv, SessionInv

\* The step at the head of a request is dropped.
LEMMA PopType ==
  ASSUME TypeOK, NEW s \in Sources, todo[s] # << >>, Pop(s)
  PROVE  /\ todo' \in [Sources -> Seq(Steps)]
         /\ \A r \in Sources : r # s => todo'[r] = todo[r]
  <1>1. todo[s] \in Seq(Steps)
    BY DEF TypeOK
  <1>2. Tail(todo[s]) \in Seq(Steps)
    BY <1>1, HeadTailProperties
  <1>3. QED
    BY <1>2 DEF Pop, TypeOK

\* The prices grow by what the spine has published.
LEMMA PricesInv ==
  ASSUME Inv, NEW s \in Sources, RefreshPrices(s) \/ BackfillPrices(s)
  PROVE  Inv'
  <1> USE DEF Inv
  <1>1. todo[s] # << >> /\ Pop(s)
    BY DEF RefreshPrices, BackfillPrices, Running
  <1>2. UNCHANGED <<today, spine, lots, rows, asof, loaded, pending, requests, uptodate>>
    BY DEF RefreshPrices, BackfillPrices
  <1>3. \A t \in Tickers : /\ bars'[t] \in SUBSET Dates /\ bars[t] \subseteq bars'[t]
                           /\ \A b \in bars'[t] : b <= today
    <2>1. \A t \in Tickers : /\ bars[t] \in SUBSET Dates /\ \A b \in bars[t] : b <= today
                             /\ spine[t] \in Dates /\ spine[t] <= today
      BY DEF TypeOK, BarsInv
    <2>2. CASE RefreshPrices(s)
      BY <2>1, <2>2 DEF RefreshPrices
    <2>3. CASE BackfillPrices(s)
      <3>1. \A b \in Sessions : b \in Dates
        BY DEF Days, Dates
      <3>2. today \in Int /\ \A t \in Tickers : spine[t] \in Int
        BY <2>1 DEF TypeOK, Days, Dates
      <3>3. \A t \in Tickers : \A b \in Sessions : b <= spine[t] => b <= today
        BY <2>1, <3>1, <3>2 DEF Dates
      <3>4. ASSUME NEW t \in Tickers
            PROVE  bars[t] \subseteq bars'[t] /\ \A b \in bars'[t] :
                     b \in bars[t] \/ (b \in Sessions /\ b <= spine[t])
        BY <2>3 DEF BackfillPrices
      <3>5. QED
        BY <2>1, <3>1, <3>3, <3>4
    <2>4. QED
      BY <2>2, <2>3
  <1>4. bars' \in [Tickers -> SUBSET Dates]
    <2>1. DOMAIN bars' = Tickers /\ bars' = [t \in Tickers |-> bars'[t]]
      BY DEF RefreshPrices, BackfillPrices
    <2>2. QED
      BY <1>3, <2>1
  <1>5. TypeOK'
    BY <1>1, <1>2, <1>4, PopType DEF TypeOK, WithinBudget
  <1>6. BarsInv'
    BY <1>2, <1>3 DEF BarsInv
  <1>7. pending[s] = None
    BY DEF SessionInv, Writers, RefreshPrices, BackfillPrices, Running
  <1>8. ASSUME NEW r \in Sources
        PROVE  /\ todo'[r] # << >> => today' <= asof'[r]
               /\ pending'[r] # None =>
                    /\ todo'[r] # << >> /\ Head(todo'[r]) \in Writers /\ loaded'[r] \in Series
                    /\ \A d \in Days : loaded'[r][d] # None => rows'[d] # None
    <2>1. todo'[r] # << >> => todo[r] # << >>
      BY <1>1, PopType
    <2>2. pending[r] # None => todo'[r] = todo[r]
      BY <1>1, <1>7, PopType
    <2>3. QED
      BY <1>2, <2>1, <2>2 DEF SessionInv
  <1>9. QED
    BY <1>5, <1>6, <1>8 DEF SessionInv

\* A writer keeps what it read and what it computed.
LEMMA ComputeInv ==
  ASSUME Inv, NEW s \in Sources, NEW step \in Writers, NEW written \in Series,
         Compute(s, step, written)
  PROVE  Inv'
  <1> USE DEF Inv
  <1>1. /\ todo[s] # << >> /\ Head(todo[s]) = step
        /\ UNCHANGED <<today, spine, bars, lots, rows, todo, asof, requests>>
        /\ loaded' = [loaded EXCEPT ![s] = rows] /\ pending' = [pending EXCEPT ![s] = written]
        /\ \E d \in Dates : uptodate' \in {uptodate, [uptodate EXCEPT ![s] = d]}
    <2>1. 0 \in Dates /\ asof[s] \in Dates
      BY DEF TypeOK, Days, Dates
    <2>2. \E d \in Dates : uptodate' \in {uptodate, [uptodate EXCEPT ![s] = d]}
      BY <2>1 DEF Compute
    <2>3. QED
      BY <2>2 DEF Compute, Running
  <1>2. rows \in Series
    BY DEF TypeOK
  <1>3. /\ loaded' \in [Sources -> Series \cup {None}] /\ pending' \in [Sources -> Series \cup {None}]
        /\ uptodate' \in [Sources \cup {"series"} -> Dates]
    <2>1. loaded' \in [Sources -> Series \cup {None}] /\ pending' \in [Sources -> Series \cup {None}]
      BY <1>1, <1>2 DEF TypeOK
    <2>2. PICK d \in Dates : uptodate' \in {uptodate, [uptodate EXCEPT ![s] = d]}
      BY <1>1
    <2>3. uptodate \in [Sources \cup {"series"} -> Dates]
      BY DEF TypeOK
    <2>4. QED
      BY <2>1, <2>2, <2>3
  <1>4. TypeOK'
    BY <1>1, <1>3 DEF TypeOK, WithinBudget
  <1>5. BarsInv'
    BY <1>1 DEF BarsInv
  <1>6. ASSUME NEW r \in Sources
        PROVE  /\ todo'[r] # << >> => today' <= asof'[r]
               /\ pending'[r] # None =>
                    /\ todo'[r] # << >> /\ Head(todo'[r]) \in Writers /\ loaded'[r] \in Series
                    /\ \A d \in Days : loaded'[r][d] # None => rows'[d] # None
    <2>1. CASE r = s
      <3>1. loaded'[s] = rows
        BY <1>1 DEF TypeOK
      <3>2. QED
        BY <1>1, <1>2, <2>1, <3>1 DEF SessionInv
    <2>2. CASE r # s
      <3>1. loaded'[r] = loaded[r] /\ pending'[r] = pending[r]
        BY <1>1, <2>2 DEF TypeOK
      <3>2. QED
        BY <1>1, <3>1 DEF SessionInv
    <2>3. QED
      BY <2>1, <2>2
  <1>7. QED
    BY <1>4, <1>5, <1>6 DEF SessionInv

\* A flush or the end of a step leaves nothing pending and no row gone.
LEMMA QuitInv ==
  ASSUME Inv, NEW s \in Sources, todo[s] # << >>, Quit(s), rows' \in Series,
         \A d \in Days : rows[d] # None => rows'[d] # None,
         Pop(s) \/ todo' = [todo EXCEPT ![s] = << >>],
         uptodate' \in [Sources \cup {"series"} -> Dates]
  PROVE  Inv'
  <1> USE DEF Inv
  <1>1. /\ UNCHANGED <<today, spine, bars, lots, asof, requests>>
        /\ loaded' = [loaded EXCEPT ![s] = None] /\ pending' = [pending EXCEPT ![s] = None]
    BY DEF Quit
  <1>2. /\ todo' \in [Sources -> Seq(Steps)]
        /\ \A r \in Sources : r # s => todo'[r] = todo[r]
    <2>1. CASE Pop(s)
      BY <2>1, PopType
    <2>2. CASE todo' = [todo EXCEPT ![s] = << >>]
      <3>1. << >> \in Seq(Steps)
        BY EmptySeq
      <3>2. QED
        BY <2>2, <3>1 DEF TypeOK
    <2>3. QED
      BY <2>1, <2>2
  <1>3. loaded' \in [Sources -> Series \cup {None}] /\ pending' \in [Sources -> Series \cup {None}]
    BY <1>1 DEF TypeOK
  <1>4. TypeOK'
    BY <1>1, <1>2, <1>3 DEF TypeOK, WithinBudget
  <1>5. BarsInv'
    BY <1>1 DEF BarsInv
  <1>6. ASSUME NEW r \in Sources
        PROVE  /\ todo'[r] # << >> => today' <= asof'[r]
               /\ pending'[r] # None =>
                    /\ todo'[r] # << >> /\ Head(todo'[r]) \in Writers /\ loaded'[r] \in Series
                    /\ \A d \in Days : loaded'[r][d] # None => rows'[d] # None
    <2>1. CASE r = s
      <3>1. pending'[s] = None
        BY <1>1 DEF TypeOK
      <3>2. QED
        BY <1>1, <2>1, <3>1 DEF SessionInv
    <2>2. CASE r # s
      <3>1. loaded'[r] = loaded[r] /\ pending'[r] = pending[r]
        BY <1>1, <2>2 DEF TypeOK
      <3>2. QED
        BY <1>1, <1>2, <2>2, <3>1 DEF SessionInv
    <2>3. QED
      BY <2>1, <2>2
  <1>7. QED
    BY <1>4, <1>5, <1>6 DEF SessionInv

\* What a commit leaves at a day: the row as it was, the pending one, or a merge of both.
LEMMA CommitRow ==
  ASSUME Inv, NEW s \in Sources, Commit(s), NEW d \in Days
  PROVE  /\ rows'[d] \in NavSnapshot \cup {None}
         /\ rows[d] # None => rows'[d] # None
         /\ \/ rows'[d] = rows[d]
            \/ rows'[d] = pending[s][d] /\ pending[s][d] # None
            \/ /\ rows[d] # None /\ pending[s][d] # None /\ loaded[s][d] # None
               /\ rows'[d] = Merged(rows[d], loaded[s][d], pending[s][d])
  <1> USE DEF Inv
  <1>1. /\ pending[s] \in Series /\ loaded[s] \in Series /\ rows \in Series
        /\ loaded[s][d] # None => rows[d] # None
    BY DEF Commit, TypeOK, SessionInv
  <1>2. rows'[d] = IF d \notin Touched(s) THEN rows[d]
                   ELSE IF loaded[s][d] = None THEN pending[s][d]
                   ELSE Merged(rows[d], loaded[s][d], pending[s][d])
    BY DEF Commit
  <1>3. CASE d \notin Touched(s)
    BY <1>1, <1>2, <1>3 DEF Series
  <1>4. CASE d \in Touched(s) /\ loaded[s][d] = None
    BY <1>1, <1>2, <1>4 DEF Series, Touched
  <1>5. CASE d \in Touched(s) /\ loaded[s][d] # None
    <2>1. /\ pending[s][d] \in NavSnapshot /\ pending[s][d] # None
          /\ loaded[s][d] \in NavSnapshot /\ rows[d] \in NavSnapshot /\ rows[d] # None
      BY <1>1, <1>5 DEF Series, Touched
    <2>2. rows'[d] = Merged(rows[d], loaded[s][d], pending[s][d])
      BY <1>2, <1>5
    <2>3. rows'[d] \in NavSnapshot
      BY <2>1, <2>2, MergedType
    <2>4. QED
      BY <2>1, <2>2, <2>3, NoneAssumption
  <1>6. QED
    BY <1>3, <1>4, <1>5

\* Every step of a request.
LEMMA WorkInv ==
  ASSUME Inv, NEW s \in Sources, Work(s)
  PROVE  Inv'
  <1> USE DEF Inv
  <1>1. asof[s] \in Days
    BY DEF TypeOK
  <1>2. CASE RefreshPrices(s) \/ BackfillPrices(s)
    BY <1>2, PricesInv
  <1>3. CASE ReconcileSnapshots(s)
    BY <1>1, <1>3, ReconcileType, ComputeInv DEF ReconcileSnapshots, Writers
  <1>4. CASE ReconstructSnapshots(s)
    BY <1>1, <1>4, ReconstructType, ComputeInv DEF ReconstructSnapshots, Writers
  <1>5. CASE RecordSnapshot(s)
    BY <1>1, <1>5, RecordType, ComputeInv DEF RecordSnapshot, Writers
  <1>6. CASE Commit(s)
    <2>1. rows' \in Series /\ \A d \in Days : rows[d] # None => rows'[d] # None
      <3>1. rows' = [d \in Days |-> rows'[d]]
        BY <1>6 DEF Commit
      <3>2. QED
        BY <1>6, <3>1, CommitRow DEF Series
    <2>2. todo[s] # << >> /\ Quit(s) /\ Pop(s) /\ uptodate' \in [Sources \cup {"series"} -> Dates]
      BY <1>6 DEF Commit, SessionInv, TypeOK
    <2>3. QED
      BY <2>1, <2>2, QuitInv
  <1>7. CASE Skip(s) \/ End(s)
    <2>1. /\ todo[s] # << >> /\ Quit(s) /\ UNCHANGED <<rows, uptodate>>
          /\ Pop(s) \/ todo' = [todo EXCEPT ![s] = << >>]
      BY <1>7 DEF Skip, End
    <2>2. QED
      BY <2>1, QuitInv DEF TypeOK
  <1>8. QED
    BY <1>2, <1>3, <1>4, <1>5, <1>6, <1>7 DEF Work

\* A request begins with no step done, dated today or tomorrow.
LEMMA StartInv ==
  ASSUME Inv, NEW s \in Sources, NEW d \in Days, today <= d, NEW steps \in Seq(Steps),
         Start(s, d, steps)
  PROVE  Inv'
  <1> USE DEF Inv
  <1>1. /\ todo[s] = << >> /\ UNCHANGED <<today, spine, bars, lots, rows, loaded, pending, uptodate>>
        /\ todo' = [todo EXCEPT ![s] = steps] /\ asof' = [asof EXCEPT ![s] = d]
        /\ requests' = [requests EXCEPT ![s] = @ + 1] /\ WithinBudget(requests)'
    BY DEF Start, WithinBudget
  <1>2. /\ todo' \in [Sources -> Seq(Steps)] /\ asof' \in [Sources -> Days]
        /\ requests' \in [Sources -> Nat]
    BY <1>1 DEF TypeOK
  <1>3. TypeOK'
    BY <1>1, <1>2 DEF TypeOK
  <1>4. BarsInv'
    BY <1>1 DEF BarsInv
  <1>5. ASSUME NEW r \in Sources
        PROVE  /\ todo'[r] # << >> => today' <= asof'[r]
               /\ pending'[r] # None =>
                    /\ todo'[r] # << >> /\ Head(todo'[r]) \in Writers /\ loaded'[r] \in Series
                    /\ \A e \in Days : loaded'[r][e] # None => rows'[e] # None
    <2>1. pending[s] = None
      BY <1>1 DEF SessionInv
    <2>2. CASE r = s
      BY <1>1, <2>1, <2>2 DEF TypeOK
    <2>3. CASE r # s
      <3>1. todo'[r] = todo[r] /\ asof'[r] = asof[r]
        BY <1>1, <2>3 DEF TypeOK
      <3>2. QED
        BY <1>1, <3>1 DEF SessionInv
    <2>4. QED
      BY <2>2, <2>3
  <1>6. QED
    BY <1>3, <1>4, <1>5 DEF SessionInv

\* The step lists of the three requests.
LEMMA StepLists ==
  /\ <<"refresh", "reconcile", "backfill", "reconstruct">> \in Seq(Steps)
  /\ <<"record">> \in Seq(Steps) /\ << >> \in Seq(Steps)
  /\ <<"refresh", "record">> \in Seq(Steps) /\ <<"backfill", "reconstruct">> \in Seq(Steps)
  BY DEF Steps


\* A fire of the job or a button is such a start.
LEMMA BeginsStart ==
  ASSUME Inv, DailyRefresh \/ RefreshButton \/ BuildHistoryButton
  PROVE  \E s \in Sources, d \in Days, steps \in Seq(Steps) : today <= d /\ Start(s, d, steps)
  <1> USE DEF Inv
  <1>1. today \in Days /\ today <= today
    BY DEF TypeOK, Days
  <1>2. CASE DailyRefresh
    <2> DEFINE full == <<"refresh", "reconcile", "backfill", "reconstruct">>
    <2>1. PICK gate \in BOOLEAN : Start("job", today, full \o (IF gate THEN <<"record">> ELSE << >>))
      <3>1. Published \in BOOLEAN
        BY DEF Published
      <3>2. QED
        BY <1>2, <3>1 DEF DailyRefresh
    <2>2. full \o (IF gate THEN <<"record">> ELSE << >>) \in Seq(Steps)
      BY StepLists, ConcatProperties
    <2>3. QED
      BY <1>1, <2>1, <2>2 DEF Sources
  <1>3. \A d \in UtcToday : d \in Days /\ today <= d
    BY <1>1 DEF UtcToday, Days
  <1>4. CASE RefreshButton
    BY <1>3, <1>4, StepLists DEF RefreshButton, Sources
  <1>5. CASE BuildHistoryButton
    BY <1>3, <1>5, StepLists DEF BuildHistoryButton, Sources
  <1>6. QED
    BY <1>2, <1>4, <1>5

\* The world moves: trades become known, prices are published, a day begins.
LEMMA WorldInv ==
  ASSUME Inv, World
  PROVE  Inv'
  <1> USE DEF Inv
  <1>1. today \in Days /\ today \in Int /\ spine \in [Tickers -> Dates]
    BY DEF TypeOK, Days
  <1>2. ASSUME NEW l \in Lots, NEW d \in Days, Learn(l, d) PROVE Inv'
    <2>1. lots' \in [Lots \cup {Fund} -> [open : Dates, close : Dates]]
      <3>1. d \in Dates
        BY DEF Days, Dates
      <3>2. lots \in [Lots \cup {Fund} -> [open : Dates, close : Dates]]
        BY DEF TypeOK
      <3>3. CASE lots' = [lots EXCEPT ![l].open = d]
        BY <3>1, <3>2, <3>3
      <3>4. CASE lots' = [lots EXCEPT ![l].close = d]
        BY <3>1, <3>2, <3>4
      <3>5. QED
        BY <1>2, <3>3, <3>4 DEF Learn
    <2>2. /\ UNCHANGED <<today, spine, bars, rows, todo, asof, loaded, pending, requests>>
          /\ uptodate' \in [Sources \cup {"series"} -> Dates]
      <3>1. d \in Dates /\ uptodate \in [Sources \cup {"series"} -> Dates]
        BY DEF TypeOK, Days, Dates
      <3>2. QED
        BY <1>2, <3>1 DEF Learn
    <2>3. TypeOK'
      BY <2>1, <2>2 DEF TypeOK, WithinBudget
    <2>4. QED
      BY <2>2, <2>3 DEF BarsInv, SessionInv
  <1>3. CASE PublishCloses \/ StrikeFund
    <2>1. UNCHANGED <<today, bars, lots, rows, todo, asof, loaded, pending, requests, uptodate>>
      BY <1>3 DEF PublishCloses, StrikeFund
    <2>2. PICK t \in Tickers, d \in Dates : d <= today /\ spine' = [spine EXCEPT ![t] = d]
      <3>1. CASE PublishCloses
        <4>1. Stock \in Tickers /\ today \in Dates /\ today <= today
          BY <1>1 DEF Tickers, Days, Dates
        <4>2. spine' = [spine EXCEPT ![Stock] = today]
          BY <3>1 DEF PublishCloses
        <4>3. QED
          BY <4>1, <4>2
      <3>2. CASE StrikeFund
        <4>1. Unstruck \in SUBSET Dates /\ Unstruck # {}
          <5>1. Sessions \subseteq Dates
            BY DEF Days, Dates
          <5>2. QED
            BY <3>2, <5>1 DEF StrikeFund, Unstruck
        <4>2. Smallest(Unstruck) \in Unstruck
          BY <4>1, SmallestIsMember
        <4>3. Smallest(Unstruck) \in Dates /\ Smallest(Unstruck) <= today
          BY <4>1, <4>2 DEF Unstruck
        <4>4. QED
          BY <3>2, <4>3 DEF StrikeFund, Tickers
      <3>3. QED
        BY <1>3, <3>1, <3>2
    <2>3. spine' \in [Tickers -> Dates] /\ \A u \in Tickers : spine'[u] <= today
      BY <1>1, <2>2 DEF BarsInv
    <2>4. TypeOK'
      BY <2>1, <2>3 DEF TypeOK, WithinBudget
    <2>5. QED
      BY <2>1, <2>3, <2>4 DEF BarsInv, SessionInv
  <1>4. CASE NextDay
    <2>1. /\ today' = today + 1 /\ today' \in Days /\ \A s \in Sources : todo[s] = << >>
          /\ UNCHANGED <<spine, bars, lots, rows, todo, asof, loaded, pending, requests, uptodate>>
      BY <1>1, <1>4 DEF NextDay, Days
    <2>2. TypeOK'
      BY <2>1 DEF TypeOK, WithinBudget
    <2>3. BarsInv'
      <3>1. \A t \in Tickers : bars[t] \in SUBSET Dates /\ spine[t] \in Int
        BY DEF TypeOK, Dates
      <3>2. QED
        BY <1>1, <2>1, <3>1 DEF BarsInv, Dates
    <2>4. SessionInv'
      BY <2>1 DEF SessionInv
    <2>5. QED
      BY <2>2, <2>3, <2>4
  <1>5. QED
    BY <1>2, <1>3, <1>4 DEF World

\* The inductive step.
LEMMA StepInv == Inv /\ [Next]_vars => Inv'
  <1> SUFFICES ASSUME Inv, [Next]_vars PROVE Inv'
    OBVIOUS
  <1>1. CASE DailyRefresh \/ RefreshButton \/ BuildHistoryButton
    BY <1>1, BeginsStart, StartInv
  <1>2. CASE World
    BY <1>2, WorldInv
  <1>3. CASE \E s \in Sources : Work(s)
    BY <1>3, WorkInv
  <1>4. CASE UNCHANGED vars
    BY <1>4 DEF Inv, TypeOK, WithinBudget, BarsInv, SessionInv, vars
  <1>5. QED
    BY <1>1, <1>2, <1>3, <1>4 DEF Next

\* Every variable keeps its type; no bar is from after today, and a writer flushes only
\* over rows that are still there.
THEOREM TypeCorrect == Spec => []TypeOK
  <1>1. Spec => []Inv
    BY InitInv, StepInv, PTL DEF Spec
  <1>2. Inv => TypeOK
    BY DEF Inv
  <1>3. QED
    BY <1>1, <1>2, PTL
------------------------------------------------------------------------------
(***************************************************************************)
(* A series only the job writes: what it flushes is what it computed.      *)
(***************************************************************************)
\* An open row is the sum of the legs it recorded.
OpenIsItsLegs(S) ==
  \A d \in Days : S[d] # None /\ S[d].provisional => /\ S[d].composition # None
                                                     /\ S[d].composition.stale
                                                     /\ S[d].nav = S[d].composition.legs

\* While no button has been pressed only the job has read or computed anything.
AloneInv ==
  requests["user"] = 0 =>
    /\ todo["user"] = << >>
    /\ OpenIsItsLegs(rows)
    /\ pending["job"] # None => loaded["job"] = rows /\ OpenIsItsLegs(pending["job"])

\* An open row is written only by a live record, as the sum of its legs.
LEMMA WritersAreSound ==
  ASSUME Inv, NEW d \in Days
  PROVE  OpenIsItsLegs(RecordRow(d)) /\ OpenIsItsLegs(ReconstructRows(d)) /\ OpenIsItsLegs(ReconcileRows(d))
  <1>1. OpenIsItsLegs(RecordRow(d))
    <2>1. [legs |-> LiveLegs, stale |-> LatestBar(Fund) < d] # None
      <3>1. LiveLegs \in Legs /\ (LatestBar(Fund) < d) \in BOOLEAN
        BY RecordType, BarsType DEF Inv, Tickers
      <3>2. [legs |-> LiveLegs, stale |-> LatestBar(Fund) < d] \in Composition
        BY <3>1 DEF Composition
      <3>3. QED
        BY <3>2, NoneAssumption
    <2>2. QED
      BY <2>1 DEF OpenIsItsLegs, RecordRow, Recorded
  <1>2. OpenIsItsLegs(ReconstructRows(d))
    BY DEF OpenIsItsLegs, ReconstructRows, Rebuilt
  <1>3. OpenIsItsLegs(ReconcileRows(d))
    <2>1. ASSUME NEW e \in Days, Restatable(rows[e], e) PROVE Restated(rows[e], e).provisional = FALSE
      <3>1. rows[e] \in NavSnapshot
        BY <2>1 DEF Restatable, Inv, TypeOK, Series
      <3>2. QED
        BY <2>1, <3>1, RestatedType DEF Inv
    <2>2. QED
      BY <2>1 DEF OpenIsItsLegs, ReconcileRows
  <1>4. QED
    BY <1>1, <1>2, <1>3

\* What the job flushes is the row it computed.
LEMMA AloneCommit ==
  ASSUME Inv, Commit("job"), loaded["job"] = rows, NEW d \in Days
  PROVE  rows'[d] = IF pending["job"][d] = None THEN rows[d] ELSE pending["job"][d]
  <1>1. "job" \in Sources
    BY DEF Sources
  <1>2. rows'[d] = IF pending["job"][d] = None THEN rows[d]
                   ELSE IF rows[d] = None THEN pending["job"][d]
                   ELSE Merged(rows[d], rows[d], pending["job"][d])
    BY DEF Commit, Touched
  <1>3. CASE rows[d] # None /\ pending["job"][d] # None
    <2>1. rows \in Series /\ pending["job"] \in Series
      BY <1>1 DEF Inv, TypeOK, Commit
    <2>2. rows[d] \in NavSnapshot /\ pending["job"][d] \in NavSnapshot
      BY <1>3, <2>1 DEF Series
    <2>3. QED
      BY <1>2, <1>3, <2>2, MergedType
  <1>4. QED
    BY <1>2, <1>3

\* A press of a button is counted, and nothing takes the count back.
LEMMA UntilAPress ==
  ASSUME Inv, [Next]_vars, requests'["user"] = 0
  PROVE  /\ requests["user"] = 0
         /\ ~\E d \in Days, steps \in Seq(Steps) : Start("user", d, steps)
  <1>1. requests["user"] \in Nat /\ requests \in [Sources -> Nat] /\ "user" \in Sources
    BY DEF Inv, TypeOK, Sources
  <1>2. ASSUME NEW s \in Sources, NEW d \in Days, NEW steps \in Seq(Steps), Start(s, d, steps)
        PROVE  s = "job" /\ requests["user"] = 0
    <2>1. requests' = [requests EXCEPT ![s] = requests[s] + 1]
      BY <1>2 DEF Start
    <2>2. QED
      BY <1>1, <2>1 DEF Sources
  <1>3. CASE DailyRefresh \/ RefreshButton \/ BuildHistoryButton
    BY <1>1, <1>2, <1>3, BeginsStart
  <1>4. CASE UNCHANGED requests
    BY <1>1, <1>2, <1>4
  <1>5. CASE World \/ (\E s \in Sources : Work(s)) \/ UNCHANGED vars
    BY <1>4, <1>5
       DEF World, Learn, PublishCloses, StrikeFund, NextDay, Work, RefreshPrices, BackfillPrices,
           ReconcileSnapshots, ReconstructSnapshots, RecordSnapshot, Compute, Commit, Skip, End,
           Quit, vars
  <1>6. QED
    BY <1>3, <1>5 DEF Next

\* Every step keeps the job's series sound until a button is pressed.
LEMMA StepAlone == Inv /\ AloneInv /\ [Next]_vars => AloneInv'
  <1> SUFFICES ASSUME Inv, AloneInv, [Next]_vars, requests'["user"] = 0
               PROVE  /\ todo'["user"] = << >>
                      /\ OpenIsItsLegs(rows')
                      /\ pending'["job"] # None =>
                           loaded'["job"] = rows' /\ OpenIsItsLegs(pending'["job"])
    BY DEF AloneInv, OpenIsItsLegs
  <1>1. /\ todo["user"] = << >> /\ OpenIsItsLegs(rows)
        /\ pending["job"] # None => loaded["job"] = rows /\ OpenIsItsLegs(pending["job"])
    BY UntilAPress DEF AloneInv
  <1>2. pending["user"] = None /\ {"job", "user"} = Sources
    BY <1>1 DEF Inv, SessionInv, Sources
  <1>3. TypeOK
    BY DEF Inv
  <1>4. CASE DailyRefresh \/ RefreshButton \/ BuildHistoryButton
    <2>1. PICK d \in Days, steps \in Seq(Steps) : Start("job", d, steps)
      BY <1>2, <1>4, BeginsStart, UntilAPress
    <2>2. UNCHANGED <<rows, loaded, pending>> /\ todo'["user"] = todo["user"]
      BY <1>2, <1>3, <2>1 DEF Start, TypeOK
    <2>3. QED
      BY <1>1, <2>2
  <1>5. CASE World
    BY <1>1, <1>5 DEF World, Learn, PublishCloses, StrikeFund, NextDay
  <1>6. ASSUME NEW s \in Sources, Work(s)
        PROVE  /\ todo'["user"] = << >>
               /\ OpenIsItsLegs(rows')
               /\ pending'["job"] # None =>
                    loaded'["job"] = rows' /\ OpenIsItsLegs(pending'["job"])
    <2>1. s = "job"
      BY <1>1, <1>2, <1>6
         DEF Work, RefreshPrices, BackfillPrices, ReconcileSnapshots, ReconstructSnapshots,
             RecordSnapshot, Compute, Running, Commit, Skip, End
    <2>2. todo'["user"] = todo["user"]
      BY <1>2, <1>3, <1>6, <2>1
         DEF Work, RefreshPrices, BackfillPrices, ReconcileSnapshots, ReconstructSnapshots,
             RecordSnapshot, Compute, Running, Commit, Skip, End, Pop, TypeOK
    <2>3. CASE RefreshPrices(s) \/ BackfillPrices(s)
      BY <1>1, <2>2, <2>3 DEF RefreshPrices, BackfillPrices
    <2>4. CASE ReconcileSnapshots(s) \/ ReconstructSnapshots(s) \/ RecordSnapshot(s)
      <3>1. asof[s] \in Days
        BY <1>3 DEF TypeOK
      <3>2. PICK written : /\ OpenIsItsLegs(written) /\ UNCHANGED rows
                           /\ loaded' = [loaded EXCEPT ![s] = rows]
                           /\ pending' = [pending EXCEPT ![s] = written]
        BY <2>4, <3>1, WritersAreSound
           DEF ReconcileSnapshots, ReconstructSnapshots, RecordSnapshot, Compute
      <3>3. loaded'["job"] = rows /\ pending'["job"] = written
        BY <1>2, <1>3, <2>1, <3>2 DEF TypeOK
      <3>4. QED
        BY <1>1, <2>2, <3>2, <3>3
    <2>5. CASE Commit(s)
      <3>1. pending'["job"] = None
        BY <1>2, <1>3, <2>1, <2>5 DEF Commit, Quit, TypeOK
      <3>2. \A d \in Days : rows'[d] = rows[d] \/ rows'[d] = pending["job"][d]
        BY <1>1, <2>1, <2>5, AloneCommit DEF Commit
      <3>3. OpenIsItsLegs(pending["job"])
        BY <1>1, <2>1, <2>5 DEF Commit
      <3>4. OpenIsItsLegs(rows')
        BY <1>1, <3>2, <3>3 DEF OpenIsItsLegs
      <3>5. QED
        BY <1>1, <2>2, <3>1, <3>4
    <2>6. CASE Skip(s) \/ End(s)
      <3>1. UNCHANGED rows /\ pending'["job"] = None
        BY <1>2, <1>3, <2>1, <2>6 DEF Skip, End, Quit, TypeOK
      <3>2. QED
        BY <1>1, <2>2, <3>1
    <2>7. QED
      BY <1>6, <2>3, <2>4, <2>5, <2>6 DEF Work
  <1>7. CASE UNCHANGED vars
    BY <1>1, <1>7 DEF vars
  <1>8. QED
    BY <1>4, <1>5, <1>6, <1>7 DEF Next

\* A provisional row the job left is the sum of the legs its composition records, one of
\* them stale, even after a reconstruction has rebuilt it: _restate_provisional replaces
\* that leg and nothing else.
THEOREM OpenRowsAreTheirLegs == Spec => []ProvisionalIsItsLegs
  <1>1. Init => AloneInv
    BY DEF Init, AloneInv, OpenIsItsLegs, Sources
  <1>2. AloneInv => ProvisionalIsItsLegs
    BY DEF AloneInv, OpenIsItsLegs, ProvisionalIsItsLegs
  <1>3. QED
    BY <1>1, <1>2, InitInv, StepInv, StepAlone, PTL DEF Spec
------------------------------------------------------------------------------
(***************************************************************************)
(* Looking ahead is stamped.  A restatement swaps a leg of what the row    *)
(* had recorded and stamps nothing, so that the recorded stock leg must    *)
(* not look ahead at all.                                                  *)
(***************************************************************************)
\* A row valued no later than its day unless it says so, and recorded no later.
Honest(row, d) ==
  /\ row.nav.stock > d \/ row.nav.fund > d => row.estimated
  /\ row.composition # None => row.composition.legs.stock <= d

\* A series of honest rows.
HonestRows(S) == \A d \in Days : S[d] # None => Honest(S[d], d)

\* Of a series only the job writes, the stored rows and those about to be are honest.
LookInv ==
  requests["user"] = 0 =>
    HonestRows(rows) /\ (pending["job"] # None => HonestRows(pending["job"]))

\* A live record takes bars up to today, of a day no earlier.
LEMMA RecordHonest ==
  ASSUME Inv, NEW d \in Days, today <= d
  PROVE  HonestRows(RecordRow(d))
  <1>1. \A t \in Tickers : LatestBar(t) \in Int /\ LatestBar(t) <= today
    BY BarsType DEF Inv, Dates
  <1>2. today \in Int /\ d \in Int /\ 0 <= d
    BY DEF Inv, TypeOK, Days
  <1>3. /\ LiveLegs.stock \in Int /\ LiveLegs.stock <= d
        /\ LiveLegs.fund \in Int /\ LiveLegs.fund <= d
    BY <1>1, <1>2 DEF LiveLegs, LegsOf, Tickers
  <1>4. ~(LiveLegs.stock > d) /\ ~(LiveLegs.fund > d)
    BY <1>2, <1>3
  <1>5. Honest(Recorded(d), d)
    BY <1>3, <1>4 DEF Honest, Recorded
  <1>6. QED
    BY <1>5 DEF HonestRows, RecordRow

\* A reconstruction covers days up to its own.
LEMMA ValuationsUpTo ==
  ASSUME Inv, NEW d \in Days
  PROVE  /\ LotDates \subseteq Dates /\ First(d) \in Dates /\ First(d) <= d
         /\ \A e \in Rebuildable(d) : e \in Days /\ First(d) <= e /\ e <= d
  <1>1. LotDates \subseteq Dates
    BY DEF LotDates, DatesOf, Inv, TypeOK
  <1>2. {d} \cup LotDates \in SUBSET Dates /\ {d} \cup LotDates # {}
    BY <1>1 DEF Days, Dates
  <1>3. First(d) \in {d} \cup LotDates /\ \A n \in {d} \cup LotDates : n >= First(d)
    BY <1>2, SmallestIsMember DEF First
  <1>4. First(d) \in Dates /\ First(d) <= d
    <2>1. PICK f : f = First(d)
      OBVIOUS
    <2>2. f \in Dates
      BY <1>2, <1>3, <2>1
    <2>3. d >= f
      BY <1>3, <2>1
    <2>4. QED
      BY <2>1, <2>2, <2>3 DEF Days, Dates
  <1>5. \A e \in ValuationDates(d) : First(d) <= e /\ e <= d
    BY <1>4 DEF ValuationDates, Days, Dates
  <1>6. QED
    BY <1>1, <1>4, <1>5 DEF Rebuildable

\* A reconstruction values a day at closes up to it or stamps it.
LEMMA ReconstructHonest ==
  ASSUME Inv, HonestRows(rows), NEW d \in Days, today <= d
  PROVE  HonestRows(ReconstructRows(d))
  <1>1. SUFFICES ASSUME NEW e \in Days, ReconstructRows(d)[e] # None
                 PROVE  Honest(ReconstructRows(d)[e], e)
    BY DEF HonestRows
  <1>2. /\ ReconstructRows(d)[e] = Rebuilt(e, d) /\ e \in Rebuildable(d)
    BY <1>1 DEF ReconstructRows
  <1>3. PICK x, row, c : /\ x = AsOfLegs(e, d) /\ row = ReconstructRows(d)[e]
                         /\ c = IF rows[e] = None THEN None ELSE rows[e].composition
    OBVIOUS
  <1>4. row.nav = x /\ row.composition = c /\ row.estimated = Estimated(e, d)
    BY <1>2, <1>3 DEF Rebuilt
  <1>5. e <= d /\ e \in Int /\ d \in Int /\ today \in Int /\ 0 <= e
    BY <1>2, ValuationsUpTo DEF Days, Inv, TypeOK
  <1>6. ASSUME NEW t \in Tickers
        PROVE  /\ LatestBar(t) \in Int /\ LatestBar(t) <= today
               /\ AsOfBar(t, e, d) \in Int /\ (AsOfBar(t, e, d) > e => Guessed(t, e, d))
    <2>1. /\ LatestBar(t) \in Int /\ LatestBar(t) <= today
          /\ AsOfBar(t, e, d) \in Int /\ AsOfBar(t, e, d) <= today
          /\ Seen(t, e, d) # {} => AsOfBar(t, e, d) <= e
      BY BarsType DEF Inv, Dates
    <2>2. AsOfBar(t, e, d) > e => Seen(t, e, d) = {} /\ e # d
      BY <1>5, <2>1
    <2>3. QED
      BY <1>5, <2>1, <2>2 DEF Guessed
  <1>7. x.stock > e => Estimated(e, d)
    <2>1. PICK b, q : /\ b = AsOfBar(Stock, e, d)
                      /\ q = IF Priced(e, d) THEN Cardinality(HeldOn(e)) ELSE 0
      OBVIOUS
    <2>2. x.stock = IF q = 0 THEN 0 ELSE b
      BY <1>3, <2>1 DEF AsOfLegs, LegsOf
    <2>3. SUFFICES ASSUME x.stock > e PROVE Estimated(e, d)
      OBVIOUS
    <2>4. q # 0 /\ b > e
      BY <1>5, <2>2, <2>3
    <2>5. Priced(e, d) /\ HeldOn(e) # {}
      BY <2>1, <2>4, FS_EmptySet
    <2>6. Guessed(Stock, e, d)
      BY <1>6, <2>1, <2>4 DEF Tickers
    <2>7. QED
      BY <2>5, <2>6 DEF Estimated
  <1>8. x.fund > e => Estimated(e, d)
    <2>1. x.fund = IF Placed THEN AsOfBar(Fund, e, d) ELSE LatestBar(Fund)
      BY <1>3 DEF AsOfLegs, LegsOf
    <2>2. SUFFICES ASSUME x.fund > e PROVE Estimated(e, d)
      OBVIOUS
    <2>3. CASE Placed
      BY <1>6, <2>1, <2>2, <2>3 DEF Estimated, Tickers
    <2>4. CASE ~Placed
      <3>1. LatestBar(Fund) > e /\ LatestBar(Fund) \in Int /\ LatestBar(Fund) <= today
        BY <1>6, <2>1, <2>2, <2>4 DEF Tickers
      <3>2. e < d
        BY <1>5, <3>1
      <3>3. QED
        BY <2>4, <3>2 DEF Estimated
    <2>5. QED
      BY <2>3, <2>4
  <1>9. c # None => c.legs.stock <= e
    BY <1>3 DEF HonestRows, Honest
  <1>10. Honest(row, e)
    BY <1>4, <1>7, <1>8, <1>9 DEF Honest
  <1>11. QED
    BY <1>3, <1>10

\* A restatement takes a NAV up to the row's day and the recorded stock leg.
LEMMA ReconcileHonest ==
  ASSUME Inv, HonestRows(rows), NEW d \in Days
  PROVE  HonestRows(ReconcileRows(d))
  <1>1. SUFFICES ASSUME NEW e \in Days, ReconcileRows(d)[e] # None
                 PROVE  Honest(ReconcileRows(d)[e], e)
    BY DEF HonestRows
  <1>2. ReconcileRows(d)[e] = Restated(rows[e], e) /\ Restatable(rows[e], e)
    BY <1>1 DEF ReconcileRows
  <1>3. rows[e] \in NavSnapshot /\ rows[e] # None /\ rows[e].composition # None
    BY <1>2 DEF Restatable, Inv, TypeOK, Series
  <1>4. PICK row, y, b : row = Restated(rows[e], e) /\ y = row.nav.stock /\ b = row.nav.fund
    OBVIOUS
  <1>5. /\ y = rows[e].composition.legs.stock /\ b \in Struck(rows[e], e)
        /\ row.composition.legs = row.nav
    BY <1>2, <1>3, <1>4, RestatedType DEF Inv
  <1>6. y <= e /\ y \in Int /\ e \in Int
    BY <1>3, <1>5 DEF HonestRows, Honest, NavSnapshot, Composition, Legs, Dates, Days
  <1>7. b <= e /\ b \in Int
    BY <1>5 DEF Struck, Inv, TypeOK, Tickers, Dates
  <1>8. ~(y > e) /\ ~(b > e)
    BY <1>6, <1>7
  <1>9. Honest(row, e)
    BY <1>4, <1>5, <1>6, <1>8 DEF Honest
  <1>10. QED
    BY <1>2, <1>4, <1>9

\* Every step keeps the job's series honest until a button is pressed.
LEMMA StepLook == Inv /\ AloneInv /\ LookInv /\ [Next]_vars => LookInv'
  <1> SUFFICES ASSUME Inv, AloneInv, LookInv, [Next]_vars, requests'["user"] = 0
               PROVE  HonestRows(rows') /\ (pending'["job"] # None => HonestRows(pending'["job"]))
    BY DEF LookInv, HonestRows
  <1>1. /\ todo["user"] = << >> /\ (pending["job"] # None => loaded["job"] = rows)
        /\ HonestRows(rows) /\ (pending["job"] # None => HonestRows(pending["job"]))
    BY UntilAPress DEF AloneInv, LookInv
  <1>2. {"job", "user"} = Sources
    BY DEF Sources
  <1>3. TypeOK
    BY DEF Inv
  <1>4. CASE UNCHANGED <<rows, pending>>
    BY <1>1, <1>4
  <1>5. CASE DailyRefresh \/ RefreshButton \/ BuildHistoryButton
    BY <1>4, <1>5, BeginsStart DEF Start
  <1>6. CASE World
    BY <1>4, <1>6 DEF World, Learn, PublishCloses, StrikeFund, NextDay
  <1>7. ASSUME NEW s \in Sources, Work(s)
        PROVE  HonestRows(rows') /\ (pending'["job"] # None => HonestRows(pending'["job"]))
    <2>1. s = "job"
      BY <1>1, <1>2, <1>7
         DEF Work, RefreshPrices, BackfillPrices, ReconcileSnapshots, ReconstructSnapshots,
             RecordSnapshot, Compute, Running, Commit, Skip, End, Inv, SessionInv
    <2>2. CASE RefreshPrices(s) \/ BackfillPrices(s)
      BY <1>4, <2>2 DEF RefreshPrices, BackfillPrices
    <2>3. CASE ReconcileSnapshots(s) \/ ReconstructSnapshots(s) \/ RecordSnapshot(s)
      <3>1. asof[s] \in Days /\ today <= asof[s]
        BY <1>3, <2>3 DEF TypeOK, Inv, SessionInv, ReconcileSnapshots, ReconstructSnapshots,
                         RecordSnapshot, Compute, Running
      <3>2. PICK written : /\ HonestRows(written) /\ UNCHANGED rows
                           /\ pending' = [pending EXCEPT ![s] = written]
        BY <1>1, <2>3, <3>1, RecordHonest, ReconstructHonest, ReconcileHonest
           DEF ReconcileSnapshots, ReconstructSnapshots, RecordSnapshot, Compute
      <3>3. pending'["job"] = written
        BY <1>2, <1>3, <2>1, <3>2 DEF TypeOK
      <3>4. QED
        BY <1>1, <3>2, <3>3
    <2>4. CASE Commit(s)
      <3>1. pending'["job"] = None
        BY <1>2, <1>3, <2>1, <2>4 DEF Commit, Quit, TypeOK
      <3>2. \A d \in Days : rows'[d] = IF pending["job"][d] = None THEN rows[d] ELSE pending["job"][d]
        BY <1>1, <2>1, <2>4, AloneCommit DEF Commit
      <3>3. HonestRows(pending["job"])
        BY <1>1, <2>1, <2>4 DEF Commit
      <3>4. HonestRows(rows')
        BY <1>1, <3>2, <3>3 DEF HonestRows
      <3>5. QED
        BY <3>1, <3>4
    <2>5. CASE Skip(s) \/ End(s)
      <3>1. UNCHANGED rows /\ pending'["job"] = None
        BY <1>2, <1>3, <2>1, <2>5 DEF Skip, End, Quit, TypeOK
      <3>2. QED
        BY <1>1, <3>1
    <2>6. QED
      BY <1>7, <2>2, <2>3, <2>4, <2>5 DEF Work
  <1>8. CASE UNCHANGED vars
    BY <1>4, <1>8 DEF vars
  <1>9. QED
    BY <1>5, <1>6, <1>7, <1>8 DEF Next

\* performance.py: a past day may be priced with today's price, or hold a position without
\* lots carried back, but its estimated_inputs say so; they do as long as a row holds a price
\* from after its day, through later rebuilds, live records and restatements by the job.
THEOREM LookAheadStamped == Spec => []LookAheadIsStamped
  <1>1. Init => AloneInv /\ LookInv
    BY DEF Init, AloneInv, LookInv, HonestRows, OpenIsItsLegs, Sources
  <1>2. LookInv => LookAheadIsStamped
    BY DEF LookInv, HonestRows, Honest, LookAheadIsStamped
  <1>3. QED
    BY <1>1, <1>2, InitInv, StepInv, StepAlone, StepLook, PTL DEF Spec
------------------------------------------------------------------------------
(***************************************************************************)
(* A restatement is exact: the only fund NAV newer than the stale leg and  *)
(* not after the row's day is that of the day itself.                      *)
(***************************************************************************)
\* No session before d is newer than b.
Reaches(b, d) == \A x \in Sessions : x < d => x <= b

\* NAVs are of sessions; once a session's closes are published only its own NAV is open.
FundInv ==
  /\ spine[Fund] \in Sessions \cup {0} /\ bars[Fund] \subseteq Sessions \cup {0}
  /\ today \in Sessions /\ today <= spine[Stock] => Reaches(spine[Fund], today)

\* In a list of steps, the refresh comes first.
RefreshFirst(steps) == \A i \in DOMAIN steps : steps[i] = "refresh" => i = 1
\* A step still to run.
Ahead(step, steps) == \E i \in DOMAIN steps : steps[i] = step

\* A fire that will record was let through on its day, and reads the prices first.
FireInv ==
  /\ RefreshFirst(todo["job"])
  /\ todo["job"] # << >> => asof["job"] = today
  /\ Ahead("record", todo["job"]) /\ today \in Sessions =>
       /\ today <= spine[Stock]
       /\ ~Ahead("refresh", todo["job"]) => \E b \in bars[Fund] : Reaches(b, today)

\* An open row of a session holds the NAV of the session before.
NearRows(S) ==
  \A d \in Sessions : S[d] # None /\ S[d].provisional => /\ S[d].composition # None
                                                         /\ Reaches(S[d].composition.legs.fund, d)
\* Rows valued at the NAV of their own session.
OwnNavs(S) == \A d \in Sessions : S[d] # None => S[d].nav.fund = d

\* The job's rows, and what it is about to write, are near.
NearInv ==
  requests["user"] = 0 =>
    /\ NearRows(rows)
    /\ pending["job"] # None => /\ NearRows(pending["job"])
                                /\ Head(todo["job"]) = "reconcile" => OwnNavs(pending["job"])

\* The closes publish while at most the session's own NAV is open.
LEMMA PublishReaches ==
  ASSUME NavsComeInTime, Inv, PublishCloses
  PROVE  Reaches(spine[Fund], today)
  <1>1. SUFFICES ASSUME NEW x \in Sessions, x < today, ~(x <= spine[Fund]) PROVE FALSE
    BY DEF Reaches
  <1>2. today \in Sessions /\ Cardinality(Unstruck) <= FundLag
    BY DEF PublishCloses
  <1>3. spine[Fund] \in Int /\ today \in Int /\ x \in Int
    BY DEF Inv, TypeOK, Tickers, Dates, Days
  <1>4. {x, today} \subseteq Unstruck /\ x # today
    BY <1>1, <1>2, <1>3 DEF Unstruck
  <1>5. IsFiniteSet(Unstruck)
    <2>1. IsFiniteSet(Days)
      BY FS_Interval, 1 \in Int, Last \in Int DEF Days
    <2>2. Unstruck \in SUBSET Days
      BY DEF Unstruck
    <2>3. QED
      BY <2>1, <2>2, FS_Subset
  <1>6. Cardinality({x, today}) = 2
    <2>1. Cardinality({x}) = 1 /\ IsFiniteSet({x})
      BY FS_Singleton
    <2>2. Cardinality({x} \cup {today}) = 2
      <3>1. today \notin {x}
        BY <1>4
      <3>2. Cardinality({x} \cup {today}) = Cardinality({x}) + 1
        BY <2>1, <3>1, FS_AddElement
      <3>3. QED
        BY <2>1, <3>2
    <2>3. {x} \cup {today} = {x, today}
      OBVIOUS
    <2>4. QED
      BY <2>2, <2>3
  <1>7. 2 <= Cardinality(Unstruck)
    BY <1>4, <1>5, <1>6, FS_Subset
  <1>8. QED
    BY <1>2, <1>7, <1>5, FS_CardinalityType DEF NavsComeInTime

\* Prices move forward, and the NAV that is open is the session's own.
LEMMA StepFund ==
  ASSUME NavsComeInTime, Inv, FundInv, [Next]_vars
  PROVE  FundInv' /\ bars[Fund] \subseteq bars'[Fund] /\ spine[Stock] <= spine'[Stock]
  <1>1. /\ spine \in [Tickers -> Dates] /\ Stock \in Tickers /\ Fund \in Tickers /\ Stock # Fund
        /\ today \in Int /\ spine[Stock] \in Int /\ spine[Fund] \in Int /\ today \in Days
    BY DEF Inv, TypeOK, Tickers, Stock, Fund, Dates, Days
  <1>2. CASE PublishCloses
    <2>1. /\ spine'[Stock] = today /\ spine'[Fund] = spine[Fund] /\ spine[Stock] < today
          /\ UNCHANGED <<today, bars>>
      BY <1>1, <1>2 DEF PublishCloses
    <2>2. Reaches(spine[Fund], today)
      BY <1>2, PublishReaches
    <2>3. QED
      BY <1>1, <2>1, <2>2 DEF FundInv
  <1>3. CASE StrikeFund
    <2>1. /\ spine'[Stock] = spine[Stock] /\ spine'[Fund] = Smallest(Unstruck)
          /\ UNCHANGED <<today, bars>>
      BY <1>1, <1>3 DEF StrikeFund
    <2>2. Smallest(Unstruck) \in Sessions /\ spine[Fund] < Smallest(Unstruck)
      <3>1. Unstruck \in SUBSET Dates /\ Unstruck # {}
        <4>1. Sessions \subseteq Dates
          BY DEF Days, Dates
        <4>2. QED
          BY <1>3, <4>1 DEF StrikeFund, Unstruck
      <3>2. Smallest(Unstruck) \in Unstruck
        BY <3>1, SmallestIsMember
      <3>3. QED
        BY <3>2 DEF Unstruck
    <2>3. Reaches(spine[Fund], today) => Reaches(Smallest(Unstruck), today)
      <3>1. Smallest(Unstruck) \in Int /\ \A x \in Sessions : x \in Int
        <4>1. \A x \in Days : x \in Int
          BY DEF Days
        <4>2. QED
          BY <2>2, <4>1
      <3>2. QED
        BY <1>1, <2>2, <3>1 DEF Reaches
    <2>4. QED
      BY <1>1, <2>1, <2>2, <2>3 DEF FundInv
  <1>4. CASE NextDay
    <2>1. today' = today + 1 /\ UNCHANGED <<spine, bars>>
      BY <1>4 DEF NextDay
    <2>2. spine[Stock] <= today
      BY <1>1 DEF Inv, BarsInv
    <2>3. ~(today' <= spine'[Stock])
      BY <1>1, <2>1, <2>2
    <2>4. QED
      BY <1>1, <2>1, <2>3 DEF FundInv
  <1>5. ASSUME NEW s \in Sources, RefreshPrices(s) \/ BackfillPrices(s)
        PROVE  FundInv' /\ bars[Fund] \subseteq bars'[Fund] /\ spine[Stock] <= spine'[Stock]
    <2>1. UNCHANGED <<today, spine>>
      BY <1>5 DEF RefreshPrices, BackfillPrices
    <2>2. bars[Fund] \subseteq bars'[Fund] /\ bars'[Fund] \subseteq Sessions \cup {0}
      BY <1>1, <1>5 DEF RefreshPrices, BackfillPrices, FundInv
    <2>3. QED
      BY <1>1, <2>1, <2>2 DEF FundInv
  <1>6. CASE UNCHANGED <<today, spine, bars>>
    BY <1>1, <1>6 DEF FundInv
  <1>7. CASE DailyRefresh \/ RefreshButton \/ BuildHistoryButton
    BY <1>6, <1>7, BeginsStart DEF Start
  <1>8. QED
    BY <1>2, <1>3, <1>4, <1>5, <1>6, <1>7
       DEF Next, World, Learn, Work, ReconcileSnapshots, ReconstructSnapshots, RecordSnapshot,
           Compute, Commit, Skip, End, Quit, vars

\* Dropping the head of a list of steps leaves the others in their order.
LEMMA TailSteps ==
  ASSUME NEW steps \in Seq(Steps), steps # << >>, RefreshFirst(steps)
  PROVE  /\ RefreshFirst(Tail(steps)) /\ ~Ahead("refresh", Tail(steps))
         /\ Ahead("refresh", steps) => Head(steps) = "refresh"
         /\ \A step : Ahead(step, Tail(steps)) => Ahead(step, steps)
         /\ Ahead(Head(steps), steps)
  <1>1. /\ Len(steps) \in Nat \ {0} /\ DOMAIN steps = 1 .. Len(steps)
        /\ Head(steps) = steps[1] /\ Tail(steps) \in Seq(Steps) /\ Len(Tail(steps)) = Len(steps) - 1
        /\ \A i \in 1 .. Len(Tail(steps)) : Tail(steps)[i] = steps[i + 1]
    BY EmptySeq, LenProperties, HeadTailProperties
  <1>2. DOMAIN Tail(steps) = 1 .. Len(Tail(steps))
    BY <1>1, LenProperties
  <1>3. \A i \in DOMAIN Tail(steps) : i + 1 \in DOMAIN steps /\ Tail(steps)[i] = steps[i + 1] /\ i + 1 # 1
    BY <1>1, <1>2
  <1>4. 1 \in DOMAIN steps
    BY <1>1
  <1>5. QED
    BY <1>1, <1>3, <1>4 DEF RefreshFirst, Ahead

\* The job's list is as long as its fire was let through.
LEMMA JobSteps ==
  ASSUME NEW gate \in BOOLEAN
  PROVE  LET steps == <<"refresh", "reconcile", "backfill", "reconstruct">>
                        \o (IF gate THEN <<"record">> ELSE << >>)
         IN RefreshFirst(steps) /\ Ahead("refresh", steps) /\ (Ahead("record", steps) => gate)
  <1> DEFINE full == <<"refresh", "reconcile", "backfill", "reconstruct">>
  <1>1. full \in Seq(Steps) /\ Len(full) = 4 /\ DOMAIN full = 1 .. 4
    BY StepLists
  <1>2. CASE gate
    <2> DEFINE all == full \o <<"record">>
    <2>1. /\ DOMAIN all = 1 .. 5
          /\ \A i \in 1 .. 5 : all[i] = IF i <= 4 THEN full[i] ELSE <<"record">>[i - 4]
      <3>1. <<"record">> \in Seq(Steps) /\ Len(<<"record">>) = 1
        BY StepLists
      <3>2. /\ all \in Seq(Steps) /\ Len(all) = 5
            /\ \A i \in 1 .. 4 + 1 : all[i] = IF i <= 4 THEN full[i] ELSE <<"record">>[i - 4]
        BY <1>1, <3>1, ConcatProperties
      <3>3. QED
        BY <3>2, LenProperties
    <2>2. all[1] = "refresh" /\ \A i \in 2 .. 5 : all[i] # "refresh"
      <3>1. \A i \in 2 .. 5 : i = 2 \/ i = 3 \/ i = 4 \/ i = 5
        OBVIOUS
      <3>2. QED
        BY <2>1, <3>1
    <2> HIDE DEF all
    <2>3. QED
      BY <1>2, <2>1, <2>2 DEF RefreshFirst, Ahead, all
  <1>3. CASE ~gate
    <2>1. full \o << >> = full
      BY <1>1, ConcatEmptySeq
    <2>2. QED
      BY <1>1, <1>3, <2>1 DEF RefreshFirst, Ahead
  <1>4. QED
    BY <1>2, <1>3

\* Only the job drops the steps of its fire, and only NextDay changes the day.
LEMMA SameFire ==
  ASSUME Inv, FireInv, NEW steps \in Seq(Steps), todo'["job"] = steps,
         \/ steps = << >>
         \/ steps = todo["job"]
         \/ todo["job"] # << >> /\ steps = Tail(todo["job"]) /\ Head(todo["job"]) # "refresh",
         UNCHANGED <<today, asof>>, bars[Fund] \subseteq bars'[Fund], spine[Stock] <= spine'[Stock],
         spine'[Stock] \in Int
  PROVE  FireInv'
  <1>1. /\ todo["job"] \in Seq(Steps) /\ spine[Stock] \in Int /\ today \in Int
    BY DEF Inv, TypeOK, Sources, Tickers, Dates, Days
  <1>2. RefreshFirst(steps) /\ \A step : Ahead(step, steps) => Ahead(step, todo["job"])
    <2>1. CASE steps = << >>
      BY <2>1 DEF RefreshFirst, Ahead
    <2>2. CASE todo["job"] # << >> /\ steps = Tail(todo["job"])
      BY <1>1, <2>2, TailSteps DEF FireInv
    <2>3. QED
      BY <2>1, <2>2 DEF FireInv
  <1>3. steps # << >> => todo["job"] # << >>
    OBVIOUS
  <1>4. ASSUME Ahead("record", steps), today \in Sessions
        PROVE  /\ today <= spine'[Stock]
               /\ ~Ahead("refresh", steps) => \E b \in bars'[Fund] : Reaches(b, today)
    <2>1. /\ today <= spine[Stock]
          /\ ~Ahead("refresh", todo["job"]) => \E b \in bars[Fund] : Reaches(b, today)
      BY <1>2, <1>4 DEF FireInv
    <2>2. Ahead("refresh", todo["job"]) => Ahead("refresh", steps)
      <3>1. CASE steps = << >>
        BY <1>4, <3>1 DEF Ahead
      <3>2. CASE todo["job"] # << >> /\ steps = Tail(todo["job"]) /\ Head(todo["job"]) # "refresh"
        BY <1>1, <3>2, TailSteps DEF FireInv
      <3>3. QED
        BY <3>1, <3>2
    <2>3. today <= spine'[Stock]
      BY <1>1, <2>1
    <2>4. QED
      BY <2>1, <2>2, <2>3
  <1>5. QED
    BY <1>2, <1>3, <1>4 DEF FireInv

\* The gate lets a fire record once the closes of its session are out.
LEMMA FireBegins ==
  ASSUME FiresSeePrices, Inv, FireInv, DailyRefresh
  PROVE  FireInv'
  <1> DEFINE Rest(gate) == IF gate THEN <<"record">> ELSE << >>
             full == <<"refresh", "reconcile", "backfill", "reconstruct">>
  <1>1. PICK gate \in BOOLEAN : gate = Published /\ Start("job", today, full \o Rest(gate))
    BY DEF DailyRefresh, Published, FiresSeePrices
  <1>2. /\ todo'["job"] = full \o Rest(gate) /\ asof'["job"] = today
        /\ UNCHANGED <<today, spine, bars>>
    BY <1>1 DEF Start, Inv, TypeOK, Sources
  <1>3. /\ RefreshFirst(full \o Rest(gate)) /\ Ahead("refresh", full \o Rest(gate))
        /\ Ahead("record", full \o Rest(gate)) => gate
    BY JobSteps
  <1>4. gate /\ today \in Sessions => today <= spine[Stock]
    <2>1. today \in Sessions => today \notin Weekends
      OBVIOUS
    <2>2. today \in Int /\ spine[Stock] \in Int
      BY DEF Inv, TypeOK, Tickers, Dates, Days
    <2>3. QED
      BY <1>1, <2>1, <2>2 DEF Published
  <1> HIDE DEF full, Rest
  <1>5. QED
    BY <1>2, <1>3, <1>4 DEF FireInv

\* Every step keeps to the order of the fire.
LEMMA StepFire ==
  ASSUME NavsComeInTime, FiresSeePrices, Inv, FundInv, FireInv, [Next]_vars
  PROVE  FireInv'
  <1>1. /\ bars[Fund] \subseteq bars'[Fund] /\ spine[Stock] <= spine'[Stock] /\ spine'[Stock] \in Int
        /\ todo'["job"] \in Seq(Steps) /\ todo["job"] \in Seq(Steps) /\ "job" \in Sources
        /\ todo \in [Sources -> Seq(Steps)] /\ asof \in [Sources -> Days]
    <2>1. Inv'
      BY StepInv
    <2>2. TypeOK /\ TypeOK'
      BY <2>1 DEF Inv
    <2>3. /\ spine'[Stock] \in Int /\ todo \in [Sources -> Seq(Steps)] /\ asof \in [Sources -> Days]
          /\ todo'["job"] \in Seq(Steps) /\ todo["job"] \in Seq(Steps) /\ "job" \in Sources
      BY <2>2 DEF TypeOK, Sources, Tickers, Dates
    <2>4. bars[Fund] \subseteq bars'[Fund] /\ spine[Stock] <= spine'[Stock]
      BY StepFund
    <2>5. QED
      BY <2>3, <2>4
  <1>2. CASE DailyRefresh
    BY <1>2, FireBegins
  <1>3. CASE RefreshButton \/ BuildHistoryButton
    <2>1. todo'["job"] = todo["job"] /\ asof'["job"] = asof["job"] /\ UNCHANGED <<today, spine, bars>>
      BY <1>1, <1>3 DEF RefreshButton, BuildHistoryButton, Start
    <2>2. QED
      BY <1>1, <2>1 DEF FireInv
  <1>4. CASE NextDay
    <2>1. todo["job"] = << >> /\ UNCHANGED todo
      BY <1>1, <1>4 DEF NextDay
    <2>2. QED
      BY <2>1 DEF FireInv, RefreshFirst, Ahead
  <1>5. CASE PublishCloses \/ StrikeFund \/ (\E l \in Lots, d \in Days : Learn(l, d))
    <2>1. UNCHANGED <<todo, asof, today>>
      BY <1>5 DEF PublishCloses, StrikeFund, Learn
    <2>2. QED
      BY <1>1, <2>1, SameFire
  <1>6. ASSUME NEW s \in Sources, Work(s) PROVE FireInv'
    <2>1. UNCHANGED <<today, asof>>
      BY <1>6 DEF Work, RefreshPrices, BackfillPrices, ReconcileSnapshots, ReconstructSnapshots,
                  RecordSnapshot, Compute, Commit, Skip, End, Quit
    <2>2. CASE s = "job" /\ RefreshPrices(s)
      <3>1. /\ todo["job"] # << >> /\ todo'["job"] = Tail(todo["job"]) /\ UNCHANGED spine
            /\ spine[Fund] \in bars'[Fund]
        BY <1>1, <2>2 DEF RefreshPrices, Running, Pop, Tickers
      <3>2. /\ RefreshFirst(todo'["job"])
            /\ Ahead("record", todo'["job"]) => Ahead("record", todo["job"])
        BY <1>1, <3>1, TailSteps DEF FireInv
      <3>3. QED
        BY <2>1, <3>1, <3>2 DEF FireInv, FundInv
    <2>3. CASE s = "job" /\ ~RefreshPrices(s)
      <3>1. CASE BackfillPrices(s) \/ Commit(s) \/ Skip(s)
        <4>1. todo["job"] # << >> /\ todo'["job"] = Tail(todo["job"])
          BY <1>1, <2>3, <3>1 DEF BackfillPrices, Running, Commit, Skip, Pop, Inv, SessionInv
        <4>2. Head(todo["job"]) # "refresh"
          BY <1>1, <2>3, <3>1
             DEF BackfillPrices, Running, Commit, Skip, Inv, SessionInv, Writers, FiresSeePrices
        <4>3. QED
          BY <1>1, <2>1, <4>1, <4>2, SameFire
      <3>2. CASE End(s)
        BY <1>1, <2>1, <2>3, <3>2, SameFire DEF End
      <3>3. CASE ReconcileSnapshots(s) \/ ReconstructSnapshots(s) \/ RecordSnapshot(s)
        BY <1>1, <2>1, <3>3, SameFire
           DEF ReconcileSnapshots, ReconstructSnapshots, RecordSnapshot, Compute
      <3>4. QED
        BY <1>6, <2>3, <3>1, <3>2, <3>3 DEF Work
    <2>4. CASE s # "job"
      <3>1. todo'["job"] = todo["job"]
        BY <1>1, <1>6, <2>4
           DEF Work, RefreshPrices, BackfillPrices, ReconcileSnapshots, ReconstructSnapshots,
               RecordSnapshot, Compute, Commit, Skip, End, Pop
      <3>2. QED
        BY <1>1, <2>1, <3>1, SameFire
    <2>5. QED
      BY <2>2, <2>3, <2>4
  <1>7. CASE UNCHANGED vars
    BY <1>1, <1>7, SameFire DEF vars
  <1>8. QED
    BY <1>2, <1>3, <1>4, <1>5, <1>6, <1>7 DEF Next, World

\* What the job's writers write is near, and a restatement is of the row's own day.
LEMMA RecordNear ==
  ASSUME Inv, FireInv, todo["job"] # << >>, Head(todo["job"]) = "record"
  PROVE  NearRows(RecordRow(asof["job"]))
  <1>1. asof["job"] = today /\ todo["job"] \in Seq(Steps) /\ today \in Days
    BY DEF FireInv, Inv, TypeOK, Sources
  <1>2. Ahead("record", todo["job"]) /\ ~Ahead("refresh", todo["job"])
    BY <1>1, TailSteps DEF FireInv
  <1>3. today \in Sessions => Reaches(LatestBar(Fund), today)
    <2>1. SUFFICES ASSUME today \in Sessions PROVE Reaches(LatestBar(Fund), today)
      OBVIOUS
    <2>2. PICK b \in bars[Fund] : Reaches(b, today)
      BY <1>2, <2>1 DEF FireInv
    <2>3. bars[Fund] \in SUBSET Dates /\ bars[Fund] # {}
      BY <2>2 DEF Inv, TypeOK, Tickers
    <2>4. b <= LatestBar(Fund) /\ LatestBar(Fund) \in bars[Fund]
      BY <2>3, LargestIsMember DEF LatestBar
    <2>5. b \in Int /\ LatestBar(Fund) \in Int
      BY <2>3, <2>4 DEF Dates
    <2>6. \A x \in Sessions : x \in Int
      <3>1. \A x \in Days : x \in Int
        BY DEF Days
      <3>2. QED
        BY <3>1
    <2>7. QED
      BY <2>2, <2>4, <2>5, <2>6 DEF Reaches
  <1>4. Recorded(today).composition = [legs |-> LiveLegs, stale |-> LatestBar(Fund) < today]
    BY DEF Recorded
  <1>5. Recorded(today).composition # None /\ Recorded(today).composition.legs.fund = LatestBar(Fund)
    <2>1. LiveLegs \in Legs /\ (LatestBar(Fund) < today) \in BOOLEAN
      BY <1>1, RecordType, BarsType DEF Inv, Tickers
    <2>2. Recorded(today).composition \in Composition
      BY <1>4, <2>1 DEF Composition
    <2>3. QED
      BY <1>4, <2>2, NoneAssumption DEF LiveLegs, LegsOf
  <1>6. QED
    BY <1>1, <1>3, <1>5 DEF NearRows, RecordRow

\* What the restatement writes is final, at the NAV of the row's session.
LEMMA ReconcileNear ==
  ASSUME Inv, FundInv, NearRows(rows), NEW d \in Days
  PROVE  NearRows(ReconcileRows(d)) /\ OwnNavs(ReconcileRows(d))
  <1>1. ASSUME NEW e \in Sessions, ReconcileRows(d)[e] # None
        PROVE  ReconcileRows(d)[e].provisional = FALSE /\ ReconcileRows(d)[e].nav.fund = e
    <2>1. e \in Days /\ ReconcileRows(d)[e] = Restated(rows[e], e) /\ Restatable(rows[e], e)
      BY <1>1 DEF ReconcileRows
    <2>2. rows[e] \in NavSnapshot
      BY <2>1 DEF Restatable, Inv, TypeOK, Series
    <2>3. /\ Restated(rows[e], e).provisional = FALSE
          /\ Restated(rows[e], e).nav.fund \in Struck(rows[e], e)
          /\ rows[e].composition \in Composition
      BY <2>1, <2>2, RestatedType DEF Inv
    <2>4. Reaches(rows[e].composition.legs.fund, e)
      BY <2>1 DEF NearRows, Restatable
    <2>5. PICK b \in bars[Fund] : /\ b = Restated(rows[e], e).nav.fund
                                  /\ rows[e].composition.legs.fund < b /\ b <= e
      BY <2>3 DEF Struck
    <2>6. /\ b \in Sessions \cup {0} /\ b \in Int /\ e \in Int
          /\ rows[e].composition.legs.fund \in Int /\ 0 <= rows[e].composition.legs.fund
      <3>1. b \in Dates
        BY DEF Inv, TypeOK, Tickers
      <3>2. rows[e].composition.legs.fund \in Dates
        BY <2>3 DEF Composition, Legs
      <3>3. QED
        BY <2>1, <3>1, <3>2 DEF FundInv, Dates, Days
    <2>7. b \in Sessions
      BY <2>5, <2>6
    <2>8. ~(b < e)
      <3>1. b < e => b <= rows[e].composition.legs.fund
        BY <2>4, <2>7 DEF Reaches
      <3>2. QED
        BY <2>5, <2>6, <3>1
    <2>9. b = e
      BY <2>5, <2>6, <2>8
    <2>10. QED
      BY <2>1, <2>3, <2>5, <2>9
  <1>2. QED
    BY <1>1 DEF NearRows, OwnNavs

\* Every step keeps the job's rows near.
LEMMA StepNear ==
  ASSUME Inv, FundInv, FireInv, AloneInv, AloneInv', NearInv, [Next]_vars
  PROVE  NearInv'
  <1> SUFFICES ASSUME requests'["user"] = 0
               PROVE  /\ NearRows(rows')
                      /\ pending'["job"] # None =>
                           /\ NearRows(pending'["job"])
                           /\ Head(todo'["job"]) = "reconcile" => OwnNavs(pending'["job"])
    BY DEF NearInv, NearRows, OwnNavs
  <1>1. /\ todo["user"] = << >> /\ NearRows(rows)
        /\ pending["job"] # None => /\ loaded["job"] = rows /\ NearRows(pending["job"])
                                    /\ Head(todo["job"]) = "reconcile" => OwnNavs(pending["job"])
    BY UntilAPress DEF AloneInv, NearInv
  <1>2. pending["user"] = None /\ {"job", "user"} = Sources /\ TypeOK
    BY <1>1 DEF Inv, SessionInv, Sources
  <1>3. CASE UNCHANGED <<rows, pending, todo>>
    BY <1>1, <1>3
  <1>4. CASE DailyRefresh \/ RefreshButton \/ BuildHistoryButton
    <2>1. PICK d \in Days, steps \in Seq(Steps) : Start("job", d, steps)
      BY <1>2, <1>4, BeginsStart, UntilAPress
    <2>2. UNCHANGED <<rows, pending>> /\ pending["job"] = None
      BY <1>2, <2>1 DEF Start, Inv, SessionInv
    <2>3. QED
      BY <1>1, <2>2
  <1>5. CASE World
    BY <1>3, <1>5 DEF World, Learn, PublishCloses, StrikeFund, NextDay
  <1>6. ASSUME NEW s \in Sources, Work(s)
        PROVE  /\ NearRows(rows')
               /\ pending'["job"] # None =>
                    /\ NearRows(pending'["job"])
                    /\ Head(todo'["job"]) = "reconcile" => OwnNavs(pending'["job"])
    <2>1. s = "job"
      BY <1>1, <1>2, <1>6
         DEF Work, RefreshPrices, BackfillPrices, ReconcileSnapshots, ReconstructSnapshots,
             RecordSnapshot, Compute, Running, Commit, Skip, End
    <2>2. CASE RefreshPrices(s) \/ BackfillPrices(s)
      <3>1. UNCHANGED <<rows, pending>> /\ pending["job"] = None
        BY <1>2, <2>1, <2>2 DEF RefreshPrices, BackfillPrices, Running, Inv, SessionInv, Writers
      <3>2. QED
        BY <1>1, <3>1
    <2>3. CASE ReconcileSnapshots(s) \/ ReconstructSnapshots(s) \/ RecordSnapshot(s)
      <3>1. asof[s] \in Days
        BY <1>2 DEF TypeOK
      <3>2. UNCHANGED <<rows, todo>>
        BY <2>3 DEF ReconcileSnapshots, ReconstructSnapshots, RecordSnapshot, Compute
      <3>3. CASE ReconcileSnapshots(s)
        <4>1. pending'["job"] = ReconcileRows(asof["job"])
          BY <1>2, <2>1, <3>3 DEF ReconcileSnapshots, Compute, TypeOK
        <4>2. QED
          BY <1>1, <2>1, <3>1, <3>2, <4>1, ReconcileNear
      <3>4. CASE ReconstructSnapshots(s)
        <4>1. /\ pending'["job"] = ReconstructRows(asof["job"]) /\ Head(todo["job"]) = "reconstruct"
          BY <1>2, <2>1, <3>4 DEF ReconstructSnapshots, Compute, Running, TypeOK
        <4>2. NearRows(ReconstructRows(asof["job"]))
          BY DEF NearRows, ReconstructRows, Rebuilt
        <4>3. QED
          BY <1>1, <3>2, <4>1, <4>2
      <3>5. CASE RecordSnapshot(s)
        <4>1. /\ pending'["job"] = RecordRow(asof["job"]) /\ todo["job"] # << >>
              /\ Head(todo["job"]) = "record"
          BY <1>2, <2>1, <3>5 DEF RecordSnapshot, Compute, Running, TypeOK
        <4>2. QED
          BY <1>1, <3>2, <4>1, RecordNear
      <3>6. QED
        BY <2>3, <3>3, <3>4, <3>5
    <2>4. CASE Commit(s)
      <3>1. pending'["job"] = None
        BY <1>2, <2>1, <2>4 DEF Commit, Quit, TypeOK
      <3>2. \A d \in Days : \/ rows'[d] = rows[d]
                            \/ rows'[d] = pending["job"][d] /\ pending["job"][d] # None
        BY <1>1, <2>1, <2>4, AloneCommit DEF Commit
      <3>3. NearRows(pending["job"])
        BY <1>1, <2>1, <2>4 DEF Commit
      <3>4. NearRows(rows')
        BY <1>1, <3>2, <3>3 DEF NearRows
      <3>5. QED
        BY <3>1, <3>4
    <2>5. CASE Skip(s) \/ End(s)
      <3>1. UNCHANGED rows /\ pending'["job"] = None
        BY <1>2, <2>1, <2>5 DEF Skip, End, Quit, TypeOK
      <3>2. QED
        BY <1>1, <3>1
    <2>6. QED
      BY <1>6, <2>2, <2>3, <2>4, <2>5 DEF Work
  <1>7. QED
    BY <1>3, <1>4, <1>5, <1>6 DEF Next, vars

\* While the job restates, a row of a session changes only to its own session's NAV.
LEMMA StepRestates ==
  ASSUME Inv, AloneInv, NearInv, [Next]_vars,
         NEW d \in Days, NEW s \in Sources, requests["user"] = 0, Running(s, "reconcile"),
         rows[d] # rows'[d], d \in Sessions
  PROVE  rows'[d].nav.fund = d
  <1>1. todo["user"] = << >> /\ pending["user"] = None /\ {"job", "user"} = Sources
    BY DEF AloneInv, Inv, SessionInv, Sources
  <1>2. s = "job" /\ Head(todo["job"]) = "reconcile"
    BY <1>1 DEF Running
  <1>3. \E r \in Sources : Commit(r)
    BY BeginsStart
       DEF Next, World, Learn, PublishCloses, StrikeFund, NextDay, Start, Work, RefreshPrices,
           BackfillPrices, ReconcileSnapshots, ReconstructSnapshots, RecordSnapshot, Compute,
           Skip, End, vars
  <1>4. Commit("job") /\ pending["job"] # None
    BY <1>1, <1>3 DEF Commit
  <1>5. loaded["job"] = rows /\ OwnNavs(pending["job"])
    BY <1>2, <1>4 DEF AloneInv, NearInv
  <1>6. rows'[d] = pending["job"][d] /\ pending["job"][d] # None
    BY <1>4, <1>5, AloneCommit
  <1>7. QED
    BY <1>5, <1>6 DEF OwnNavs

\* With fund NAVs struck within a session, and no fire recording at prices it could not
\* read, _restate_provisional makes a row final only at the NAV of the row's own session.
THEOREM RestatementsAreExact ==
  ASSUME NavsComeInTime, FiresSeePrices
  PROVE  Spec => RestatedAtOwnSession
  <1>1. Init => FundInv /\ FireInv /\ AloneInv /\ NearInv
    <2>1. Init => FundInv
      BY DEF Init, FundInv, Tickers, Reaches, Fund, Stock
    <2>2. Init => FireInv
      BY DEF Init, FireInv, RefreshFirst, Ahead, Sources
    <2>3. Init => AloneInv /\ NearInv
      BY DEF Init, AloneInv, OpenIsItsLegs, NearInv, NearRows, Sources
    <2>4. QED
      BY <2>1, <2>2, <2>3
  <1>2. Spec => [](Inv /\ FundInv /\ FireInv /\ AloneInv /\ NearInv)
    BY <1>1, InitInv, StepInv, StepFund, StepFire, StepAlone, StepNear, PTL DEF Spec
  <1>3. Inv /\ AloneInv /\ NearInv /\ [Next]_vars =>
          [\A d \in Days, s \in Sources :
             /\ requests["user"] = 0 /\ Running(s, "reconcile")
             /\ rows[d] # rows'[d] /\ d \in Sessions
             => rows'[d].nav.fund = d]_vars
    BY StepRestates
  <1>4. QED
    BY <1>2, <1>3, PTL DEF Spec, RestatedAtOwnSession
------------------------------------------------------------------------------
(***************************************************************************)
(* Flows explain moves.  Trades are known on their day and their days are  *)
(* valuation dates, so once a reconstruction has priced them all every day *)
(* of a trade before it has a row of its own, with the flow of that day.   *)
(***************************************************************************)
\* A lot's dates are past, and it closes after it opened.
LotsInv ==
  \A l \in Lots \cup {Fund} : /\ lots[l].open <= today /\ lots[l].close <= today
                              /\ Closed(l) => Opened(l) /\ lots[l].open <= lots[l].close

\* A row that holds the position of its day, with the flow of that one day.
ExactRow(row, d) ==
  /\ row.nav.qty = Cardinality(HeldOn(d))
  /\ row.flow = Cardinality(HeldOn(d)) - Cardinality(HeldOn(d - 1))

\* A past day every reconstruction rebuilds.
Rebuilds(d) == d \in LotDates \/ (d \in MonthEnds /\ \E v \in LotDates : v <= d)

\* Exact are the rows no reconstruction rebuilds, and before n the others too.
SureRows(S, n) == \A d \in Days : S[d] # None /\ (Rebuilds(d) => d < n) => ExactRow(S[d], d)

\* No row is of a day to come.
NoneAhead(S) == \A d \in Days : S[d] # None => d <= today

\* Every day before n that is rebuilt has its row.
Covered(S, n) == \A d \in Days : Rebuilds(d) /\ d < n => S[d] # None

\* The rows, with the series sure up to n.
RowsMove(S, n) == n <= today /\ NoneAhead(S) /\ SureRows(S, n) /\ Covered(S, n)

\* A restatement leaves quantities and flows alone.
SameMoves(S, new) ==
  \A d \in Days : new[d] # None => /\ S[d] # None
                                   /\ new[d].nav.qty = S[d].nav.qty /\ new[d].flow = S[d].flow

\* What a step is about to write; a reconstruction is sure up to n.
WillMove(S, new, step, n) ==
  /\ NoneAhead(new)
  /\ step = "reconcile" => SameMoves(S, new)
  /\ step = "record" => SureRows(new, today)
  /\ step = "reconstruct" => n <= today /\ SureRows(new, n) /\ Covered(new, n)

\* The inductive invariant: of the lots, and of a series only the job writes.
MovesInv ==
  /\ LotsInv
  /\ requests["user"] = 0 =>
       /\ RowsMove(rows, uptodate["series"])
       /\ todo["job"] # << >> => asof["job"] = today
       /\ pending["job"] # None =>
            WillMove(rows, pending["job"], Head(todo["job"]), uptodate["job"])

\* The days of trades are days past.
LEMMA LotDatesPast ==
  ASSUME TypeOK, LotsInv
  PROVE  LotDates \subseteq Days /\ (\A v \in LotDates : v <= today) /\ TradeDates \subseteq LotDates
  <1>1. ASSUME NEW l \in Lots \cup {Fund} PROVE lots[l].open \in Dates /\ lots[l].close \in Dates
    BY DEF TypeOK
  <1>2. \A n \in Dates : n # 0 => n \in Days
    BY DEF Dates, Days
  <1>3. QED
    BY <1>1, <1>2 DEF LotDates, TradeDates, DatesOf, LotsInv, Opened, Closed

\* Over a span without trades the same lots are held.
LEMMA QuietSpan ==
  ASSUME TypeOK, LotsInv, NEW p \in Dates, NEW q \in Dates, p <= q,
         \A v \in LotDates : ~(p < v /\ v <= q)
  PROVE  HeldOn(p) = HeldOn(q)
  <1>1. ASSUME NEW l \in Lots
        PROVE  /\ lots[l].open \in Int /\ lots[l].close \in Int
               /\ Opened(l) => lots[l].open \in LotDates
               /\ Closed(l) => lots[l].close \in LotDates
    BY DEF TypeOK, Dates, LotDates, DatesOf
  <1>2. p \in Int /\ q \in Int
    BY DEF Dates
  <1>3. ASSUME NEW l \in Lots PROVE l \in HeldOn(p) <=> l \in HeldOn(q)
    <2>1. Opened(l) => (lots[l].open <= p <=> lots[l].open <= q)
      BY <1>1, <1>2
    <2>2. Closed(l) => (p < lots[l].close <=> q < lots[l].close)
      BY <1>1, <1>2
    <2>3. QED
      BY <2>1, <2>2 DEF HeldOn
  <1>4. QED
    BY <1>3 DEF HeldOn

\* From today on, the lots held are those held now.
LEMMA HeldToday ==
  ASSUME TypeOK, LotsInv
  PROVE  HeldNow = HeldOn(today)
  <1>1. today \in Int /\ \A l \in Lots : lots[l].open \in Int /\ lots[l].close \in Int
    BY DEF TypeOK, Dates, Days
  <1>2. QED
    BY <1>1 DEF HeldNow, HeldOn, LotsInv

\* The flow of a span of days is the change of the position across it.
LEMMA FlowIsChange ==
  ASSUME TypeOK, LotsInv, NEW p \in Dates, NEW q \in Dates, p <= q
  PROVE  Flow(p + 1 .. q) = Cardinality(HeldOn(q)) - Cardinality(HeldOn(p))
  <1> DEFINE In(n)  == {l \in Lots : Opened(l) /\ lots[l].open <= n}
             Out(n) == {l \in Lots : Closed(l) /\ lots[l].close <= n}
             B == {l \in Lots : Opened(l) /\ p < lots[l].open /\ lots[l].open <= q}
             S == {l \in Lots : Closed(l) /\ p < lots[l].close /\ lots[l].close <= q}
  <1>1. /\ p \in Int /\ q \in Int
        /\ \A l \in Lots : lots[l].open \in Int /\ lots[l].close \in Int
    BY DEF TypeOK, Dates
  <1>2. ASSUME NEW n \in {p, q}
        PROVE  /\ IsFiniteSet(In(n)) /\ IsFiniteSet(Out(n)) /\ Cardinality(In(n)) \in Nat
               /\ Cardinality(Out(n)) \in Nat
               /\ Cardinality(HeldOn(n)) = Cardinality(In(n)) - Cardinality(Out(n))
    <2>1. IsFiniteSet(In(n)) /\ IsFiniteSet(Out(n))
      <3>1. In(n) \subseteq Lots /\ Out(n) \subseteq Lots
        OBVIOUS
      <3>2. QED
        BY <3>1, FS_Subset
    <2>2. Out(n) \subseteq In(n)
      BY <1>1 DEF LotsInv
    <2>3. HeldOn(n) = In(n) \ Out(n)
      BY <1>1 DEF HeldOn
    <2>4. In(n) \cap Out(n) = Out(n)
      BY <2>2
    <2> HIDE DEF In, Out
    <2>5. Cardinality(In(n) \ Out(n)) = Cardinality(In(n)) - Cardinality(In(n) \cap Out(n))
      BY <2>1, FS_Difference
    <2>6. QED
      BY <2>1, <2>3, <2>4, <2>5, FS_CardinalityType
  <1>3. IsFiniteSet(B) /\ IsFiniteSet(S) /\ Cardinality(B) \in Nat /\ Cardinality(S) \in Nat
    <2>1. B \subseteq Lots /\ S \subseteq Lots
      OBVIOUS
    <2> HIDE DEF B, S
    <2>2. QED
      BY <2>1, FS_Subset, FS_CardinalityType
  <1>4. In(q) = In(p) \cup B /\ In(p) \cap B = {}
    BY <1>1
  <1>5. Out(q) = Out(p) \cup S /\ Out(p) \cap S = {}
    BY <1>1
  <1>6. Flow(p + 1 .. q) = Cardinality(B) - Cardinality(S)
    <2>1. \A n \in Int : (n \in p + 1 .. q) = (p < n /\ n <= q)
      BY <1>1
    <2>2. /\ B = {l \in Lots : Opened(l) /\ lots[l].open \in p + 1 .. q}
          /\ S = {l \in Lots : Closed(l) /\ lots[l].close \in p + 1 .. q}
      BY <1>1, <2>1
    <2> HIDE DEF B, S
    <2>3. QED
      BY <2>2 DEF Flow
  <1> HIDE DEF In, Out, B, S
  <1>7. Cardinality({}) = 0
    BY FS_EmptySet
  <1>8. Cardinality(In(q)) = Cardinality(In(p)) + Cardinality(B)
    <2>1. /\ IsFiniteSet(In(p)) /\ Cardinality(In(p)) \in Nat
          /\ Cardinality(In(p) \cap B) = 0
      BY <1>2, <1>4, <1>7
    <2>2. Cardinality(In(p) \cup B)
            = Cardinality(In(p)) + Cardinality(B) - Cardinality(In(p) \cap B)
      BY <1>3, <2>1, FS_Union
    <2>3. QED
      BY <1>3, <1>4, <2>1, <2>2
  <1>9. Cardinality(Out(q)) = Cardinality(Out(p)) + Cardinality(S)
    <2>1. /\ IsFiniteSet(Out(p)) /\ Cardinality(Out(p)) \in Nat
          /\ Cardinality(Out(p) \cap S) = 0
      BY <1>2, <1>5, <1>7
    <2>2. Cardinality(Out(p) \cup S)
            = Cardinality(Out(p)) + Cardinality(S) - Cardinality(Out(p) \cap S)
      BY <1>3, <2>1, FS_Union
    <2>3. QED
      BY <1>3, <1>5, <2>1, <2>2
  <1>10. QED
    BY <1>2, <1>3, <1>6, <1>8, <1>9

\* Days with the same trades have the same flow.
LEMMA SameFlow ==
  ASSUME NEW X, NEW Y, \A v \in TradeDates : v \in X <=> v \in Y
  PROVE  Flow(X) = Flow(Y)
  <1>1. \A l \in Lots : /\ Opened(l) => lots[l].open \in TradeDates
                        /\ Closed(l) => lots[l].close \in TradeDates
    BY DEF TradeDates, DatesOf
  <1>2. /\ {l \in Lots : Opened(l) /\ lots[l].open \in X}
             = {l \in Lots : Opened(l) /\ lots[l].open \in Y}
        /\ {l \in Lots : Closed(l) /\ lots[l].close \in X}
             = {l \in Lots : Closed(l) /\ lots[l].close \in Y}
    BY <1>1
  <1>3. QED
    BY <1>2 DEF Flow

\* A flow from before a day, with no trade since but on the day, is that day's own.
LEMMA FlowOfDay ==
  ASSUME TypeOK, LotsInv, NEW d \in Days, NEW p \in Dates, p < d,
         \A v \in LotDates : v < d => v <= p
  PROVE  Flow(p + 1 .. d) = Cardinality(HeldOn(d)) - Cardinality(HeldOn(d - 1))
  <1>1. d \in Dates /\ d - 1 \in Dates /\ p <= d - 1 /\ p <= d
    BY DEF Dates, Days
  <1>2. \A v \in LotDates : v \in Int
    BY LotDatesPast DEF Days
  <1>3. \A v \in LotDates : ~(p < v /\ v <= d - 1)
    BY <1>2 DEF Dates, Days
  <1>4. HeldOn(p) = HeldOn(d - 1)
    BY <1>1, <1>3, QuietSpan
  <1>5. QED
    BY <1>1, <1>4, FlowIsChange

\* Of the days so far, the valuation dates are those every reconstruction rebuilds, and today.
LEMMA ValuationsCover ==
  ASSUME TradesAreSeen, TypeOK, LotsInv
  PROVE  /\ ValuationDates(today) \subseteq Days
         /\ \A e \in ValuationDates(today) : e <= today /\ (Rebuilds(e) \/ e = today)
         /\ \A e \in Days : Rebuilds(e) /\ e <= today => e \in ValuationDates(today)
  <1>1. today \in Days /\ LotDates \subseteq Days /\ \A v \in LotDates : v <= today
    BY LotDatesPast DEF TypeOK
  <1>2. {today} \cup LotDates \in SUBSET Dates
    BY <1>1 DEF Days, Dates
  <1>3. /\ First(today) \in {today} \cup LotDates
        /\ \A v \in {today} \cup LotDates : First(today) <= v
    <2>1. First(today) = Smallest({today} \cup LotDates)
      BY DEF First
    <2> DEFINE S == {today} \cup LotDates
    <2>2. S \in SUBSET Dates /\ S # {}
      BY <1>2
    <2>3. First(today) \in Dates /\ \A v \in S : v \in Int
      <3>1. First(today) \in S
        BY <2>1, <2>2, SmallestIsMember
      <3>2. QED
        BY <2>2, <3>1 DEF Dates
    <2> HIDE DEF S
    <2>4. Smallest(S) \in S /\ \A v \in S : v >= Smallest(S)
      BY <2>2, SmallestIsMember
    <2>5. First(today) \in Int /\ First(today) = Smallest(S)
      BY <2>1, <2>3 DEF Dates, S
    <2>6. First(today) \in S /\ \A v \in S : First(today) <= v
      BY <2>3, <2>4, <2>5
    <2>7. QED
      BY <2>6 DEF S
  <1>4. First(today) \in Days /\ First(today) <= today
    BY <1>1, <1>3
  <1>5. ValuationDates(today)
          = {First(today), today} \cup {e \in MonthEnds \cup LotDates : First(today) <= e /\ e <= today}
    <2>1. LotSourced
      BY DEF TradesAreSeen
    <2>2. (IF LotSourced THEN LotDates ELSE {}) = LotDates
      BY <2>1
    <2>3. QED
      BY <2>2 DEF ValuationDates
  <1>6. ASSUME NEW e \in ValuationDates(today)
        PROVE  e \in Days /\ e <= today /\ (Rebuilds(e) \/ e = today)
    <2>1. e \in Days /\ e <= today /\ First(today) <= e
      <3>1. \/ e = First(today) \/ e = today
            \/ e \in MonthEnds \cup LotDates /\ First(today) <= e /\ e <= today
        BY <1>5, <1>6
      <3>2. First(today) \in Int /\ today \in Int
        BY <1>1, <1>4 DEF Days
      <3>3. CASE e = First(today) \/ e = today
        BY <1>1, <1>4, <3>2, <3>3
      <3>4. CASE e \in MonthEnds \cup LotDates /\ First(today) <= e /\ e <= today
        BY <1>1, <3>4
      <3>5. QED
        BY <3>1, <3>3, <3>4
    <2>2. CASE First(today) \in LotDates
      <3>1. e = today \/ e \in LotDates \/ e \in MonthEnds
        BY <1>5, <1>6, <2>2
      <3>2. QED
        BY <2>1, <2>2, <3>1 DEF Rebuilds
    <2>3. CASE First(today) = today
      BY <1>1, <2>1, <2>3 DEF Days
    <2>4. QED
      BY <1>3, <2>1, <2>2, <2>3
  <1>7. ASSUME NEW e \in Days, Rebuilds(e), e <= today PROVE e \in ValuationDates(today)
    <2>1. PICK v \in LotDates : v <= e /\ (e \in LotDates \/ e \in MonthEnds)
      BY <1>1, <1>7 DEF Rebuilds, Days
    <2>2. First(today) <= v
      BY <1>3, <2>1
    <2>3. First(today) <= e
      BY <1>1, <1>4, <2>1, <2>2 DEF Days
    <2>4. QED
      BY <1>5, <1>7, <2>1, <2>3
  <1>8. QED
    BY <1>6, <1>7

\* A rebuilt row is exact, where every trade has a price, or on a day like today without one.
LEMMA RebuiltExact ==
  ASSUME TradesAreSeen, TypeOK, LotsInv, NEW e \in ValuationDates(today),
         AllPriced(today) \/ (e = today /\ ~Rebuilds(today))
  PROVE  ExactRow(Rebuilt(e, today), e)
  <1>1. e \in Days /\ e <= today /\ today \in Days /\ TradeDates \subseteq LotDates /\ LotDates \subseteq Days
    BY ValuationsCover, LotDatesPast DEF TypeOK
  <1>2. Cardinality(HeldOn(e)) \in Int
    BY HeldType
  <1>3. Rebuilt(e, today).nav.qty = Cardinality(HeldOn(e))
    <2>1. Rebuilt(e, today).nav.qty = IF Priced(e, today) THEN Cardinality(HeldOn(e)) ELSE 0
      BY DEF Rebuilt, AsOfLegs, LegsOf
    <2>2. ASSUME ~Priced(e, today) PROVE HeldOn(e) = {}
      <3>1. HeldNow = {} /\ Seen(Stock, e, today) = {}
        BY <2>2 DEF Priced
      <3>2. CASE e = today
        BY <3>1, <3>2, HeldToday
      <3>3. CASE AllPriced(today)
        <4>1. SUFFICES ASSUME NEW l \in HeldOn(e) PROVE FALSE
          OBVIOUS
        <4>2. l \in Lots /\ Opened(l) /\ lots[l].open <= e /\ lots[l].open \in TradeDates
          BY <4>1 DEF HeldOn, TradeDates, DatesOf
        <4>3. Seen(Stock, lots[l].open, today) # {}
          BY <3>1, <3>3, <4>2 DEF AllPriced, Priced
        <4>4. PICK b \in bars[Stock] : First(today) <= b /\ b <= lots[l].open
          BY <4>3 DEF Seen
        <4>5. b \in Int /\ lots[l].open \in Int /\ e \in Int
          BY <1>1, <4>2 DEF TypeOK, Tickers, Dates, Days
        <4>6. b <= e
          BY <4>2, <4>4, <4>5
        <4>7. b \in Seen(Stock, e, today)
          BY <4>4, <4>6 DEF Seen
        <4>8. QED
          BY <3>1, <4>7
      <3>4. QED
        BY <3>2, <3>3
    <2>3. QED
      BY <2>1, <2>2, FS_EmptySet
  <1> DEFINE p == PriorValuation(e, today)
             X == {x \in p + 1 .. e : LotSourced => Priced(x, today)}
  <1>4. Rebuilt(e, today).flow = Flow(X)
    BY DEF Rebuilt, RebuiltFlow
  <1>5. p \in Dates /\ p < e /\ \A v \in LotDates : v < e => v <= p
    <2> DEFINE E == {0} \cup {v \in ValuationDates(today) : v < e}
    <2>1. E \in SUBSET Dates /\ E # {}
      BY ValuationsCover DEF Days, Dates
    <2>2. p = Largest(E)
      BY DEF PriorValuation
    <2>3. \A v \in LotDates : v < e => v \in E
      <3>1. \A v \in LotDates : v \in Days /\ Rebuilds(v) /\ v <= today
        BY <1>1, LotDatesPast DEF Rebuilds
      <3>2. QED
        BY <3>1, ValuationsCover
    <2>4. \A v \in E : v < e
      BY <1>1 DEF Days
    <2> HIDE DEF E, p
    <2>5. Largest(E) \in E /\ \A v \in E : v <= Largest(E)
      BY <2>1, LargestIsMember
    <2>6. QED
      BY <2>1, <2>2, <2>3, <2>4, <2>5
  <1> HIDE DEF p
  <1>6. ASSUME NEW v \in TradeDates PROVE v \in X <=> v \in p + 1 .. e
    <2>1. CASE AllPriced(today)
      BY <2>1, <1>6 DEF AllPriced
    <2>2. CASE e = today /\ ~Rebuilds(today)
      <3>1. v \in LotDates /\ v # e /\ v \in Int
        BY <1>1, <1>6, <2>2 DEF Rebuilds, Days
      <3>2. v < e => v <= p
        BY <1>5, <3>1
      <3>3. v \notin p + 1 .. e
        BY <1>1, <1>5, <3>1, <3>2 DEF Dates, Days
      <3>4. QED
        BY <3>3
    <2>3. QED
      BY <2>1, <2>2
  <1> HIDE DEF X
  <1>7. Flow(X) = Flow(p + 1 .. e)
    BY <1>6, SameFlow
  <1>8. Flow(p + 1 .. e) = Cardinality(HeldOn(e)) - Cardinality(HeldOn(e - 1))
    BY <1>1, <1>5, FlowOfDay
  <1>9. QED
    BY <1>3, <1>4, <1>7, <1>8 DEF ExactRow

\* A reconstruction of today is sure up to today if every trade has a price, and else only of
\* the days no other rebuilds.
LEMMA ReconstructSure ==
  ASSUME TradesAreSeen, TypeOK, BarsInv, LotsInv, NEW n, n = IF AllPriced(today) THEN today ELSE 0
  PROVE  LET new == ReconstructRows(today)
         IN  n <= today /\ NoneAhead(new) /\ SureRows(new, n) /\ Covered(new, n)
  <1> DEFINE new == ReconstructRows(today)
  <1>1. today \in Days /\ n <= today
    BY DEF TypeOK, Days
  <1>2. ASSUME NEW e \in Days, new[e] # None
        PROVE  e \in ValuationDates(today) /\ new[e] = Rebuilt(e, today)
    BY <1>2 DEF ReconstructRows, Rebuildable
  <1>3. NoneAhead(new)
    BY <1>2, ValuationsCover DEF NoneAhead
  <1>4. ASSUME NEW e \in Days, new[e] # None, Rebuilds(e) => e < n PROVE ExactRow(new[e], e)
    <2>1. AllPriced(today) \/ (e = today /\ ~Rebuilds(today))
      <3>1. CASE Rebuilds(e)
        BY <1>4, <3>1 DEF Days
      <3>2. CASE ~Rebuilds(e)
        BY <1>2, <1>4, <3>2, ValuationsCover
      <3>3. QED
        BY <3>1, <3>2
    <2>2. QED
      BY <1>2, <1>4, <2>1, RebuiltExact
  <1>5. ASSUME NEW e \in Days, Rebuilds(e), e < n PROVE new[e] # None
    <2>1. e <= today
      BY <1>1, <1>5 DEF Days
    <2>2. e \in ValuationDates(today) /\ LotDates # {}
      BY <1>5, <2>1, ValuationsCover DEF Rebuilds
    <2>3. e \in Rebuildable(today) \cap Days
      BY <2>2 DEF Rebuildable
    <2>4. new[e] \in NavSnapshot
      BY <1>1, <2>3, ReconstructType
    <2>5. QED
      BY <2>4, NoneAssumption
  <1> HIDE DEF new
  <1>6. QED
    BY <1>1, <1>3, <1>4, <1>5 DEF SureRows, Covered, new

\* A live record of a day without a trade is exact: nothing came in and nothing left.
LEMMA RecordSure ==
  ASSUME TradesAreSeen, TypeOK, LotsInv
  PROVE  NoneAhead(RecordRow(today)) /\ SureRows(RecordRow(today), today)
  <1>1. today \in Days /\ today \in Int /\ today <= today
    BY DEF TypeOK, Days
  <1>2. ASSUME today \notin LotDates PROVE ExactRow(Recorded(today), today)
    <2>1. /\ Recorded(today).flow = 0
          /\ Recorded(today).nav.qty = Cardinality(HeldNow)
      BY DEF Recorded, LiveLegs, LegsOf, LiveFlow, TradesAreSeen
    <2>2. \A v \in LotDates : ~(today - 1 < v /\ v <= today)
      BY <1>1, <1>2, LotDatesPast DEF Days
    <2>3. HeldOn(today - 1) = HeldOn(today)
      <3>1. today \in Dates /\ today - 1 \in Dates /\ today - 1 <= today
        BY <1>1 DEF Days, Dates
      <3>2. QED
        BY <2>2, <3>1, QuietSpan
    <2>4. Cardinality(HeldOn(today)) \in Int
      BY HeldType
    <2>5. QED
      BY <2>1, <2>3, <2>4, HeldToday DEF ExactRow
  <1>3. \A d \in Days : RecordRow(today)[d] # None => d = today /\ RecordRow(today)[d] = Recorded(today)
    BY DEF RecordRow
  <1>4. QED
    BY <1>1, <1>2, <1>3 DEF NoneAhead, SureRows, Rebuilds

\* A restatement of an open row leaves its quantity and its flow alone.
LEMMA ReconcileSame ==
  ASSUME TypeOK, OpenIsItsLegs(rows), NEW d \in Days
  PROVE  SameMoves(rows, ReconcileRows(d))
  <1>1. SUFFICES ASSUME NEW e \in Days, ReconcileRows(d)[e] # None
                 PROVE  /\ rows[e] # None
                        /\ ReconcileRows(d)[e].nav.qty = rows[e].nav.qty
                        /\ ReconcileRows(d)[e].flow = rows[e].flow
    BY DEF SameMoves
  <1>2. ReconcileRows(d)[e] = Restated(rows[e], e) /\ Restatable(rows[e], e)
    BY <1>1 DEF ReconcileRows
  <1>3. rows[e] # None /\ rows[e].provisional /\ rows[e] \in NavSnapshot
    BY <1>2 DEF Restatable, TypeOK, Series
  <1>4. rows[e].nav = rows[e].composition.legs
    BY <1>3 DEF OpenIsItsLegs
  <1>5. /\ Restated(rows[e], e).nav.qty = rows[e].composition.legs.qty
        /\ Restated(rows[e], e).flow = rows[e].flow
    BY <1>2, <1>3, RestatedType
  <1>6. QED
    BY <1>2, <1>3, <1>4, <1>5

\* A trade becomes known on its day, and changes no day before.
LEMMA LearnsToday ==
  ASSUME TradesAreSeen, TypeOK, LotsInv, NEW l \in Lots, NEW d \in Days, Learn(l, d)
  PROVE  /\ d = today /\ LotsInv'
         /\ today \in LotDates' /\ LotDates \subseteq LotDates'
         /\ \A v \in LotDates' : v \in LotDates \/ v = today
         /\ \A x \in Dates : x < today => HeldOn(x)' = HeldOn(x)
  <1> DEFINE All == Lots \cup {Fund}
  <1>1. /\ today \in Int /\ today > 0 /\ UNCHANGED today /\ l \in All
        /\ lots \in [All -> [open : Dates, close : Dates]]
        /\ \A m \in All : lots[m].open \in Int /\ lots[m].close \in Int
    BY DEF TypeOK, Days, Dates, Learn
  <1>2. d = today
    <2>1. d <= today /\ today - d <= 0
      BY DEF Learn, TradesAreSeen
    <2>2. QED
      BY <1>1, <2>1 DEF Days
  <1> HIDE DEF All
  <1>3. ASSUME ~Opened(l), lots' = [lots EXCEPT ![l].open = today]
        PROVE  /\ \A m \in All : m # l => lots'[m] = lots[m]
               /\ lots'[l].open = today /\ lots'[l].close = lots[l].close
    BY <1>1, <1>3
  <1>4. ASSUME Opened(l), lots' = [lots EXCEPT ![l].close = today]
        PROVE  /\ \A m \in All : m # l => lots'[m] = lots[m]
               /\ lots'[l].close = today /\ lots'[l].open = lots[l].open
    BY <1>1, <1>4
  <1>5. /\ \A m \in All : m # l => lots'[m] = lots[m]
        /\ \/ /\ ~Opened(l) /\ ~Closed(l)
              /\ lots'[l].open = today /\ lots'[l].close = lots[l].close
           \/ /\ Opened(l) /\ ~Closed(l) /\ lots[l].open <= today
              /\ lots'[l].close = today /\ lots'[l].open = lots[l].open
    BY <1>2, <1>3, <1>4 DEF Learn, LotsInv, All
  <1>6. ASSUME NEW m \in All
        PROVE  /\ lots'[m].open <= today /\ lots'[m].close <= today
               /\ Closed(m)' => Opened(m)' /\ lots'[m].open <= lots'[m].close
    <2>1. CASE m # l
      BY <1>5, <1>6, <2>1 DEF LotsInv, Opened, Closed, All
    <2>2. CASE m = l
      BY <1>1, <1>5, <1>6, <2>2 DEF LotsInv, Opened, Closed, All
    <2>3. QED
      BY <2>1, <2>2
  <1>7. \A m \in All : /\ Opened(m) => Opened(m)' /\ lots'[m].open = lots[m].open
                       /\ Closed(m) => Closed(m)' /\ lots'[m].close = lots[m].close
                       /\ Opened(m)' => Opened(m) \/ lots'[m].open = today
                       /\ Closed(m)' => Closed(m) \/ lots'[m].close = today
    BY <1>1, <1>5 DEF Opened, Closed
  <1>8. today \in LotDates'
    <2>1. (Opened(l)' /\ lots'[l].open = today) \/ (Closed(l)' /\ lots'[l].close = today)
      BY <1>1, <1>5 DEF Opened, Closed
    <2>2. QED
      BY <1>1, <2>1 DEF LotDates, DatesOf, All
  <1>9. LotDates \subseteq LotDates' /\ \A v \in LotDates' : v \in LotDates \/ v = today
    <2>1. ASSUME NEW v, v \in LotDates PROVE v \in LotDates'
      BY <1>7, <2>1 DEF LotDates, DatesOf, All
    <2>2. ASSUME NEW v, v \in LotDates' PROVE v \in LotDates \/ v = today
      <3>1. PICK m \in All : \/ Opened(m)' /\ v = lots'[m].open
                             \/ Closed(m)' /\ v = lots'[m].close
        BY <2>2 DEF LotDates, DatesOf, All
      <3>2. QED
        BY <1>7, <3>1 DEF LotDates, DatesOf, All
    <2>3. QED
      BY <2>1, <2>2
  <1>10. ASSUME NEW x \in Dates, x < today PROVE HeldOn(x)' = HeldOn(x)
    <2>1. x \in Int
      BY DEF Dates
    <2>2. ASSUME NEW m \in Lots PROVE m \in HeldOn(x)' <=> m \in HeldOn(x)
      <3>1. m \in All
        BY DEF All
      <3>2. CASE m # l
        BY <1>5, <3>1, <3>2 DEF HeldOn, Opened, Closed
      <3>3. CASE m = l
        BY <1>1, <1>5, <1>10, <2>1, <3>3 DEF HeldOn, Opened, Closed
      <3>4. QED
        BY <3>2, <3>3
    <2>3. QED
      BY <2>2 DEF HeldOn
  <1>11. LotsInv'
    BY <1>1, <1>6 DEF LotsInv, All
  <1>12. QED
    BY <1>2, <1>8, <1>9, <1>10, <1>11

\* So what was exact on a day before, or on a day without a trade, still is.
LEMMA SureKept ==
  ASSUME TradesAreSeen, TypeOK, LotsInv, NEW l \in Lots, NEW d \in Days, Learn(l, d),
         NEW e \in Days, e <= today, NEW n \in Dates, n <= today, Rebuilds(e)' => e < n
  PROVE  /\ Rebuilds(e) => e < n
         /\ \A row : ExactRow(row, e) => ExactRow(row, e)'
  <1>1. today \in Days /\ UNCHANGED today
    BY DEF TypeOK, Learn
  <1>2. e # today
    <2>1. Rebuilds(today)'
      BY <1>1, LearnsToday DEF Rebuilds
    <2>2. ~(today < n)
      BY <1>1 DEF Days, Dates
    <2>3. QED
      BY <1>1, <2>1, <2>2
  <1>3. Rebuilds(e) => Rebuilds(e)'
    BY LearnsToday DEF Rebuilds
  <1>4. e \in Dates /\ e - 1 \in Dates /\ e < today /\ e - 1 < today
    BY <1>1, <1>2 DEF Days, Dates
  <1>5. HeldOn(e)' = HeldOn(e) /\ HeldOn(e - 1)' = HeldOn(e - 1)
    BY <1>4, LearnsToday
  <1>6. QED
    BY <1>3, <1>5 DEF ExactRow

\* A trade leaves the rows of other days exact.
LEMMA LearnMoves ==
  ASSUME TradesAreSeen, Inv, MovesInv, NEW l \in Lots, NEW d \in Days, Learn(l, d)
  PROVE  MovesInv'
  <1>1. TypeOK /\ LotsInv /\ {"job", "series"} \subseteq Sources \cup {"series"}
    BY DEF Inv, MovesInv, Sources
  <1>2. /\ UNCHANGED <<today, rows, todo, asof, loaded, pending, requests>>
        /\ LotsInv' /\ d = today /\ today \in Int
        /\ \A v \in LotDates' : v \in LotDates \/ v = today
    <2>1. UNCHANGED <<today, rows, todo, asof, loaded, pending, requests>>
      BY DEF Learn
    <2>2. LotsInv' /\ d = today /\ \A v \in LotDates' : v \in LotDates \/ v = today
      BY <1>1, LearnsToday
    <2>3. today \in Int
      BY <1>1 DEF TypeOK, Days
    <2>4. QED
      BY <2>1, <2>2, <2>3
  <1>3. ASSUME NEW x \in {"job", "series"}, uptodate[x] <= today
        PROVE  uptodate'[x] = uptodate[x] /\ uptodate[x] \in Dates
    <2>1. uptodate[x] \in Dates /\ uptodate[x] \in Int /\ x \in DOMAIN uptodate
      BY <1>1 DEF TypeOK, Dates
    <2>2. ~(today < uptodate[x])
      BY <1>2, <1>3, <2>1
    <2>3. uptodate'[x] = IF d < uptodate[x] THEN d ELSE uptodate[x]
      BY <2>1 DEF Learn
    <2>4. QED
      BY <1>2, <2>1, <2>2, <2>3
  <1>4. SUFFICES ASSUME requests["user"] = 0
                 PROVE  /\ RowsMove(rows, uptodate["series"])'
                        /\ (pending["job"] # None =>
                              WillMove(rows, pending["job"], Head(todo["job"]), uptodate["job"]))'
    BY <1>2 DEF MovesInv
  <1>5. /\ RowsMove(rows, uptodate["series"])
        /\ pending["job"] # None =>
             WillMove(rows, pending["job"], Head(todo["job"]), uptodate["job"])
    BY <1>4 DEF MovesInv
  <1>6. ASSUME NEW e \in Days, e <= today, NEW n \in Dates, n <= today, Rebuilds(e)' => e < n
        PROVE  /\ Rebuilds(e) => e < n
               /\ \A row : ExactRow(row, e) => ExactRow(row, e)'
    BY <1>1, <1>6, SureKept
  <1>7. ASSUME NEW e \in Days, NEW n \in Dates, n <= today, Rebuilds(e)', e < n PROVE Rebuilds(e)
    <2>1. e # today /\ e < today
      BY <1>2, <1>7 DEF Days, Dates
    <2>2. \A v \in LotDates' : v <= e => v \in LotDates
      BY <1>2, <2>1 DEF Days
    <2>3. e \in LotDates' => e \in LotDates
      BY <1>2, <2>1
    <2>4. QED
      BY <1>7, <2>2, <2>3 DEF Rebuilds
  <1>8. RowsMove(rows, uptodate["series"])'
    <2> DEFINE n == uptodate["series"]
    <2>1. n' = n /\ n \in Dates /\ n <= today
      BY <1>3, <1>5 DEF RowsMove
    <2> HIDE DEF n
    <2>2. NoneAhead(rows) /\ SureRows(rows, n) /\ Covered(rows, n)
      BY <1>5 DEF RowsMove, n
    <2>3. NoneAhead(rows)'
      BY <1>2, <2>2 DEF NoneAhead
    <2>4. SureRows(rows, n)'
      <3>1. SUFFICES ASSUME NEW e \in Days, rows[e] # None, Rebuilds(e)' => e < n
                     PROVE  ExactRow(rows[e], e)'
        BY <1>2, <2>1 DEF SureRows
      <3>2. e <= today
        BY <2>2, <3>1 DEF NoneAhead
      <3>3. /\ Rebuilds(e) => e < n
            /\ ExactRow(rows[e], e) => ExactRow(rows[e], e)'
        <4>1. UNCHANGED rows[e]
          BY <1>2
        <4>2. /\ Rebuilds(e) => e < n
              /\ \A row : ExactRow(row, e) => ExactRow(row, e)'
          BY <1>6, <2>1, <3>1, <3>2
        <4>3. QED
          BY <4>1, <4>2 DEF ExactRow
      <3>4. QED
        BY <2>2, <3>1, <3>3 DEF SureRows
    <2>5. Covered(rows, n)'
      BY <1>2, <1>7, <2>1, <2>2 DEF Covered
    <2>6. QED
      BY <1>2, <2>1, <2>3, <2>4, <2>5 DEF RowsMove, n
  <1>9. ASSUME pending["job"] # None
        PROVE  WillMove(rows, pending["job"], Head(todo["job"]), uptodate["job"])'
    <2> DEFINE new == pending["job"]
               n == uptodate["job"]
               step == Head(todo["job"])
    <2>1. UNCHANGED <<new, step, rows, today>> /\ today \in Dates /\ today <= today
      BY <1>1, <1>2 DEF TypeOK, Days, Dates
    <2>2. step = "reconstruct" => n' = n /\ n \in Dates /\ n <= today
      BY <1>3, <1>5, <1>9 DEF WillMove
    <2>3. /\ NoneAhead(new)
          /\ step = "reconcile" => SameMoves(rows, new)
          /\ step = "record" => SureRows(new, today)
          /\ step = "reconstruct" => SureRows(new, n) /\ Covered(new, n)
      BY <1>5, <1>9 DEF WillMove
    <2> HIDE DEF new, n, step
    <2>4. NoneAhead(new)' /\ (step = "reconcile" => SameMoves(rows, new))'
      BY <2>1, <2>3 DEF NoneAhead, SameMoves
    <2>5. ASSUME NEW m \in Dates, m <= today, NEW e \in Days, new[e] # None, Rebuilds(e)' => e < m,
                 \A x \in Days : new[x] # None /\ (Rebuilds(x) => x < m) => ExactRow(new[x], x)
          PROVE  ExactRow(new[e], e)'
      <3>1. e <= today
        BY <2>3, <2>5 DEF NoneAhead
      <3>2. /\ Rebuilds(e) => e < m
            /\ \A row : ExactRow(row, e) => ExactRow(row, e)'
        BY <1>6, <2>5, <3>1
      <3>3. ExactRow(new[e], e)
        BY <2>5, <3>2
      <3>4. UNCHANGED new[e]
        BY <2>1
      <3>5. QED
        BY <3>2, <3>3, <3>4 DEF ExactRow
    <2>6. (step = "record" => SureRows(new, today))'
      BY <2>1, <2>3, <2>5 DEF SureRows
    <2>7. (step = "reconstruct" => n <= today /\ SureRows(new, n) /\ Covered(new, n))'
      <3>1. SUFFICES ASSUME step = "reconstruct"
                     PROVE  (n <= today)' /\ SureRows(new, n)' /\ Covered(new, n)'
        BY <2>1
      <3>2. SureRows(new, n)'
        BY <2>1, <2>2, <2>3, <2>5, <3>1 DEF SureRows
      <3>3. Covered(new, n)'
        BY <1>7, <2>1, <2>2, <2>3, <3>1 DEF Covered
      <3>4. QED
        BY <2>1, <2>2, <3>1, <3>2, <3>3
    <2>8. WillMove(rows, new, step, n)'
      BY <2>4, <2>6, <2>7 DEF WillMove
    <2>9. QED
      BY <2>8 DEF new, step, n
  <1>10. QED
    BY <1>8, <1>9, <1>2

\* Where neither the day nor the lots change, the invariant reads the new rows.
LEMMA Unmoved ==
  ASSUME UNCHANGED <<today, lots>>
  PROVE  /\ LotsInv' <=> LotsInv
         /\ RowsMove(rows, uptodate["series"])' <=> RowsMove(rows', uptodate'["series"])
         /\ WillMove(rows, pending["job"], Head(todo["job"]), uptodate["job"])'
              <=> WillMove(rows', pending'["job"], Head(todo'["job"]), uptodate'["job"])
  BY DEF LotsInv, Opened, Closed, RowsMove, WillMove, NoneAhead, SureRows, Rebuilds,
         ExactRow, Covered, SameMoves, LotDates, DatesOf, HeldOn

\* What the job computes keeps to the day and to the moves of the lots.
LEMMA ComputeMoves ==
  ASSUME TradesAreSeen, Inv, LotsInv, OpenIsItsLegs(rows), RowsMove(rows, uptodate["series"]),
         asof["job"] = today,
         ReconcileSnapshots("job") \/ ReconstructSnapshots("job") \/ RecordSnapshot("job")
  PROVE  WillMove(rows, pending'["job"], Head(todo["job"]), uptodate'["job"])
  <1>1. TypeOK /\ BarsInv /\ "job" \in Sources /\ "job" \in Sources \cup {"series"} /\ today \in Days
    BY DEF Inv, TypeOK, Sources
  <1>2. CASE ReconcileSnapshots("job")
    <2>1. pending'["job"] = ReconcileRows(today) /\ Head(todo["job"]) = "reconcile"
      BY <1>1, <1>2 DEF ReconcileSnapshots, Compute, Running, TypeOK
    <2>2. SameMoves(rows, ReconcileRows(today))
      BY <1>1, ReconcileSame
    <2>3. NoneAhead(ReconcileRows(today))
      BY <2>2 DEF SameMoves, NoneAhead, RowsMove
    <2> QED
      BY <2>1, <2>2, <2>3 DEF WillMove
  <1>3. CASE ReconstructSnapshots("job")
    <2>1. /\ pending'["job"] = ReconstructRows(today) /\ Head(todo["job"]) = "reconstruct"
          /\ uptodate'["job"] = IF AllPriced(today) THEN today ELSE 0
      BY <1>1, <1>3 DEF ReconstructSnapshots, Compute, Running, TypeOK
    <2>2. PICK n : n = uptodate'["job"]
      OBVIOUS
    <2>3. /\ n <= today /\ NoneAhead(ReconstructRows(today))
          /\ SureRows(ReconstructRows(today), n) /\ Covered(ReconstructRows(today), n)
      BY <1>1, <2>1, <2>2, ReconstructSure
    <2>4. WillMove(rows, ReconstructRows(today), "reconstruct", n)
      BY <2>3 DEF WillMove
    <2> QED
      BY <2>1, <2>2, <2>4
  <1>4. CASE RecordSnapshot("job")
    <2>1. pending'["job"] = RecordRow(today) /\ Head(todo["job"]) = "record"
      BY <1>1, <1>4 DEF RecordSnapshot, Compute, Running, TypeOK
    <2>2. NoneAhead(RecordRow(today)) /\ SureRows(RecordRow(today), today)
      BY <1>1, RecordSure
    <2> QED
      BY <2>1, <2>2 DEF WillMove
  <1>5. QED
    BY <1>2, <1>3, <1>4

\* The flush of the job's step: what was exact stays exact, and a reconstruction is sure as
\* far as it was computed.
LEMMA CommitMoves ==
  ASSUME TradesAreSeen, Inv, Commit("job"), loaded["job"] = rows,
         RowsMove(rows, uptodate["series"]),
         WillMove(rows, pending["job"], Head(todo["job"]), uptodate["job"])
  PROVE  RowsMove(rows', uptodate'["series"])
  <1> DEFINE new == pending["job"]
             step == Head(todo["job"])
             n == uptodate["series"]
             m == uptodate'["series"]
  <1>1. step \in Writers
    BY DEF Commit, Inv, SessionInv, Sources
  <1>2. \A d \in Days : rows'[d] = IF new[d] = None THEN rows[d] ELSE new[d]
    BY AloneCommit
  <1>3. today \in Int /\ uptodate \in [Sources \cup {"series"} -> Dates] /\ n \in Int
    BY DEF Inv, TypeOK, Days, Dates
  <1>4. /\ step = "reconstruct" => m = uptodate["job"]
        /\ step # "reconstruct" => m = n
    <2>1. uptodate' = IF step = "reconstruct" THEN [uptodate EXCEPT !["series"] = uptodate["job"]]
                      ELSE uptodate
      <3>1. todo["job"] # << >> /\ (Running("job", "reconstruct") <=> step = "reconstruct")
        BY DEF Commit, Inv, SessionInv, Sources, Running
      <3>2. QED
        BY <3>1 DEF Commit
    <2>2. QED
      BY <1>3, <2>1
  <1>5. /\ n <= today /\ NoneAhead(rows) /\ SureRows(rows, n) /\ Covered(rows, n)
        /\ NoneAhead(new)
        /\ step = "reconcile" => SameMoves(rows, new)
        /\ step = "record" => SureRows(new, today)
        /\ step = "reconstruct" => m <= today /\ SureRows(new, m) /\ Covered(new, m)
    BY <1>4 DEF RowsMove, WillMove
  <1> HIDE DEF new, step, n, m
  <1>6. NoneAhead(rows')
    BY <1>2, <1>5 DEF NoneAhead
  <1>7. CASE step = "reconcile"
    BY <1>2, <1>4, <1>5, <1>6, <1>7 DEF RowsMove, SureRows, Covered, SameMoves, ExactRow, m
  <1>8. CASE step = "record"
    <2>1. \A d \in Days : d < n => d < today
      BY <1>3, <1>5 DEF Days
    <2>2. SureRows(new, n)
      BY <1>5, <1>8, <2>1 DEF SureRows
    <2>3. SureRows(rows', n) /\ Covered(rows', n)
      BY <1>2, <1>5, <2>2 DEF SureRows, Covered
    <2>4. QED
      BY <1>4, <1>5, <1>6, <1>8, <2>3 DEF RowsMove, m
  <1>9. CASE step = "reconstruct"
    <2>1. ASSUME NEW d \in Days, rows'[d] # None, Rebuilds(d) => d < m PROVE ExactRow(rows'[d], d)
      <3>1. CASE new[d] # None
        BY <1>2, <1>5, <1>9, <2>1, <3>1 DEF SureRows
      <3>2. CASE new[d] = None
        <4>1. ~Rebuilds(d) /\ rows'[d] = rows[d]
          BY <1>2, <1>5, <1>9, <2>1, <3>2 DEF Covered
        <4>2. QED
          BY <1>5, <2>1, <4>1 DEF SureRows
      <3>3. QED
        BY <3>1, <3>2
    <2>2. Covered(rows', m)
      BY <1>2, <1>5, <1>9 DEF Covered
    <2>3. SureRows(rows', m)
      BY <2>1 DEF SureRows
    <2>4. QED
      BY <1>5, <1>6, <1>9, <2>2, <2>3 DEF RowsMove, m
  <1>10. QED
    BY <1>1, <1>7, <1>8, <1>9 DEF Writers

\* A step of a request, in a series only the job writes.
LEMMA WorkMoves ==
  ASSUME TradesAreSeen, Inv, AloneInv, MovesInv, requests["user"] = 0,
         NEW s \in Sources, Work(s)
  PROVE  /\ RowsMove(rows', uptodate'["series"])
         /\ todo'["job"] # << >> => asof'["job"] = today
         /\ pending'["job"] # None =>
              WillMove(rows', pending'["job"], Head(todo'["job"]), uptodate'["job"])
  <1>1. /\ LotsInv /\ RowsMove(rows, uptodate["series"])
        /\ todo["job"] # << >> => asof["job"] = today
        /\ pending["job"] # None =>
             /\ loaded["job"] = rows
             /\ WillMove(rows, pending["job"], Head(todo["job"]), uptodate["job"])
        /\ OpenIsItsLegs(rows) /\ todo["user"] = << >>
    BY DEF AloneInv, MovesInv
  <1>2. /\ TypeOK /\ "job" \in Sources /\ pending["user"] = None /\ {"job", "user"} = Sources
    BY <1>1 DEF Inv, SessionInv, Sources
  <1>3. s = "job" /\ todo["job"] # << >>
    <2>1. todo[s] # << >>
      BY DEF Work, RefreshPrices, BackfillPrices, ReconcileSnapshots, ReconstructSnapshots,
             RecordSnapshot, Compute, Running, Commit, Skip, End, Inv, SessionInv
    <2>2. QED
      BY <1>1, <1>2, <2>1
  <1>4. UNCHANGED asof
    BY DEF Work, RefreshPrices, BackfillPrices, ReconcileSnapshots, ReconstructSnapshots,
           RecordSnapshot, Compute, Commit, Skip, End, Quit
  <1>5. CASE RefreshPrices(s) \/ BackfillPrices(s)
    <2>1. /\ UNCHANGED <<rows, pending, uptodate>> /\ Head(todo["job"]) \in {"refresh", "backfill"}
      BY <1>3, <1>5 DEF RefreshPrices, BackfillPrices, Running
    <2>2. pending["job"] = None
      BY <1>2, <2>1 DEF Inv, SessionInv, Writers
    <2>3. QED
      BY <1>1, <1>3, <1>4, <2>1, <2>2
  <1>6. CASE ReconcileSnapshots(s) \/ ReconstructSnapshots(s) \/ RecordSnapshot(s)
    <2>1. UNCHANGED <<rows, todo>> /\ uptodate'["series"] = uptodate["series"]
      <3>1. /\ UNCHANGED <<rows, todo>>
            /\ uptodate' = uptodate
                 \/ uptodate' = [uptodate EXCEPT !["job"] = IF AllPriced(asof["job"]) THEN asof["job"] ELSE 0]
        BY <1>3, <1>6 DEF ReconcileSnapshots, ReconstructSnapshots, RecordSnapshot, Compute
      <3>2. "series" # "job"
        OBVIOUS
      <3>3. QED
        BY <1>2, <3>1, <3>2 DEF TypeOK
    <2>2. WillMove(rows, pending'["job"], Head(todo["job"]), uptodate'["job"])
      BY <1>1, <1>3, <1>6, ComputeMoves
    <2>3. QED
      BY <1>1, <1>3, <1>4, <2>1, <2>2
  <1>7. CASE Commit(s)
    <2>1. pending'["job"] = None /\ pending["job"] # None
      BY <1>2, <1>3, <1>7 DEF Commit, Quit, TypeOK
    <2>2. QED
      BY <1>1, <1>3, <1>4, <1>7, <2>1, CommitMoves
  <1>8. CASE Skip(s) \/ End(s)
    <2>1. UNCHANGED <<rows, uptodate>> /\ pending'["job"] = None
      BY <1>2, <1>3, <1>8 DEF Skip, End, Quit, TypeOK
    <2>2. QED
      BY <1>1, <1>3, <1>4, <2>1
  <1>9. QED
    BY <1>5, <1>6, <1>7, <1>8 DEF Work

\* Every step keeps the flows exact where they must be.
LEMMA StepMoves ==
  ASSUME TradesAreSeen, Inv, AloneInv, MovesInv, [Next]_vars
  PROVE  MovesInv'
  <1>1. ASSUME UNCHANGED <<today, lots>>,
               requests'["user"] = 0 =>
                 /\ RowsMove(rows', uptodate'["series"])
                 /\ todo'["job"] # << >> => asof'["job"] = today
                 /\ pending'["job"] # None =>
                      WillMove(rows', pending'["job"], Head(todo'["job"]), uptodate'["job"])
        PROVE  MovesInv'
    BY <1>1, Unmoved DEF MovesInv
  <1>2. CASE \E s \in Sources : Work(s)
    <2>1. UNCHANGED <<today, lots, requests>>
      BY <1>2 DEF Work, RefreshPrices, BackfillPrices, ReconcileSnapshots, ReconstructSnapshots,
                  RecordSnapshot, Compute, Commit, Skip, End, Quit
    <2>2. QED
      BY <1>1, <1>2, <2>1, WorkMoves
  <1>3. CASE \E l \in Lots, d \in Days : Learn(l, d)
    BY <1>3, LearnMoves
  <1>4. CASE PublishCloses \/ StrikeFund \/ UNCHANGED vars
    <2>1. UNCHANGED <<today, lots, rows, todo, asof, pending, requests, uptodate>>
      BY <1>4 DEF PublishCloses, StrikeFund, vars
    <2>2. QED
      BY <1>1, <2>1 DEF MovesInv
  <1>5. CASE DailyRefresh \/ RefreshButton \/ BuildHistoryButton
    <2>1. UNCHANGED <<today, lots, rows, pending, uptodate>>
      BY <1>5, BeginsStart DEF Start
    <2>2. SUFFICES ASSUME requests'["user"] = 0
                   PROVE  /\ RowsMove(rows', uptodate'["series"])
                          /\ todo'["job"] # << >> => asof'["job"] = today
                          /\ pending'["job"] # None =>
                               WillMove(rows', pending'["job"], Head(todo'["job"]), uptodate'["job"])
      BY <1>1, <2>1
    <2>3. requests["user"] = 0
      BY <2>2, UntilAPress
    <2>4. DailyRefresh
      <3>1. ASSUME NEW d \in UtcToday PROVE d \in Days
        BY DEF UtcToday
      <3>2. QED
        BY <1>5, <2>2, <3>1, UntilAPress, StepLists DEF RefreshButton, BuildHistoryButton
    <2>5. asof'["job"] = today /\ pending["job"] = None
      BY <2>4 DEF DailyRefresh, Start, Inv, TypeOK, SessionInv, Sources
    <2>6. RowsMove(rows, uptodate["series"])
      BY <2>3 DEF MovesInv
    <2>7. QED
      BY <2>1, <2>5, <2>6
  <1>6. CASE NextDay
    <2>1. /\ today' = today + 1 /\ today \in Int /\ \A s \in Sources : todo[s] = << >>
          /\ UNCHANGED <<lots, rows, todo, asof, pending, requests, uptodate>>
      BY <1>6 DEF NextDay, Inv, TypeOK, Days
    <2>2. pending["job"] = None /\ todo["job"] = << >>
      BY <2>1 DEF Inv, SessionInv, Sources
    <2>3. LotsInv'
      <3>1. \A l \in Lots \cup {Fund} : lots[l].open \in Int /\ lots[l].close \in Int
        BY DEF Inv, TypeOK, Dates
      <3>2. QED
        BY <2>1, <3>1 DEF LotsInv, MovesInv, Opened, Closed
    <2>4. SUFFICES ASSUME requests["user"] = 0 PROVE RowsMove(rows, uptodate["series"])'
      BY <2>1, <2>2, <2>3 DEF MovesInv
    <2>5. RowsMove(rows, uptodate["series"]) /\ uptodate["series"] \in Int
      BY <2>4 DEF MovesInv, Inv, TypeOK, Dates
    <2>6. NoneAhead(rows)'
      BY <2>1, <2>5 DEF RowsMove, NoneAhead, Days
    <2>7. (uptodate["series"] <= today)'
      BY <2>1, <2>5 DEF RowsMove
    <2>8. SureRows(rows, uptodate["series"])' /\ Covered(rows, uptodate["series"])'
      BY <2>1, <2>5 DEF RowsMove, SureRows, ExactRow, Covered, Rebuilds, LotDates, DatesOf, HeldOn,
                        Opened, Closed
    <2>9. QED
      BY <2>6, <2>7, <2>8 DEF RowsMove
  <1>7. QED
    BY <1>2, <1>3, <1>4, <1>5, <1>6 DEF Next, World

\* Every trade has its row, so two rows in turn have none between them.
LEMMA MovesAreExplained ==
  ASSUME Inv, MovesInv
  PROVE  FlowsExplainMoves
  <1>1. SUFFICES ASSUME requests["user"] = 0,
                        NEW d \in Days, NEW e \in Days, e < d, d < uptodate["series"],
                        rows[d] # None, rows[e] # None, \A f \in e + 1 .. d - 1 : rows[f] = None
                 PROVE  rows[d].nav.qty - rows[d].flow = rows[e].nav.qty
    BY DEF FlowsExplainMoves
  <1>2. TypeOK /\ LotsInv /\ RowsMove(rows, uptodate["series"]) /\ uptodate["series"] \in Int
    BY <1>1 DEF Inv, MovesInv, TypeOK, Dates
  <1>3. ExactRow(rows[d], d) /\ ExactRow(rows[e], e) /\ Covered(rows, uptodate["series"])
    <2>1. e < uptodate["series"]
      BY <1>1, <1>2 DEF Days
    <2>2. QED
      BY <1>1, <1>2, <2>1 DEF RowsMove, SureRows
  <1>4. \A v \in LotDates : ~(e < v /\ v <= d - 1)
    <2>1. LotDates \subseteq Days
      BY <1>2, LotDatesPast
    <2>2. ASSUME NEW v \in LotDates, e < v, v <= d - 1 PROVE FALSE
      <3>1. v \in Days /\ v \in e + 1 .. d - 1 /\ v < uptodate["series"]
        BY <1>1, <1>2, <2>1, <2>2 DEF Days
      <3>2. QED
        BY <1>1, <1>3, <3>1 DEF Covered, Rebuilds
    <2>3. QED
      BY <2>2
  <1>5. HeldOn(e) = HeldOn(d - 1)
    <2>1. e \in Dates /\ d - 1 \in Dates /\ e <= d - 1
      BY <1>1 DEF Days, Dates
    <2>2. QED
      BY <1>2, <1>4, <2>1, QuietSpan
  <1>6. Cardinality(HeldOn(d)) \in Int /\ Cardinality(HeldOn(d - 1)) \in Int
    BY HeldType
  <1>7. QED
    BY <1>3, <1>5, <1>6 DEF ExactRow

\* Where positions come from lots and every trade is known on its day, the flow of every row
\* the job left before the day of its last reconstruction, if that had a price for every
\* trade, accounts for the whole change of position since the row before it: the live rows,
\* which know no flow of such an account, are rebuilt, whatever order fires, deferrals,
\* failures and aborted fires came in.
THEOREM FlowsExplainEveryMove ==
  ASSUME TradesAreSeen
  PROVE  Spec => []FlowsExplainMoves
  <1>1. Init => MovesInv
    <2>1. ASSUME Init PROVE LotsInv
      <3>1. ASSUME NEW l \in Lots \cup {Fund}
            PROVE  lots[l].open \in {0, 1} /\ lots[l].close = 0 /\ today = 1
        BY <2>1 DEF Init
      <3>2. QED
        BY <3>1 DEF LotsInv, Closed
    <2>2. Init => RowsMove(rows, uptodate["series"])
      BY DEF Init, RowsMove, NoneAhead, SureRows, Covered, Days
    <2>3. Init => todo["job"] = << >> /\ pending["job"] = None
      BY DEF Init, Sources
    <2>4. QED
      BY <2>1, <2>2, <2>3 DEF MovesInv
  <1>2. Init => AloneInv
    BY DEF Init, AloneInv, OpenIsItsLegs, Sources
  <1>3. Inv /\ AloneInv /\ MovesInv /\ [Next]_vars => MovesInv'
    BY StepMoves
  <1>4. QED
    BY <1>1, <1>2, <1>3, MovesAreExplained, InitInv, StepInv, StepAlone, PTL DEF Spec
================================================================================
