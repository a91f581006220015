------------------------------ MODULE DeskProofs -------------------------------
(***************************************************************************)
(* Proofs about Desk, for any listings, sessions and published values: a   *)
(* windowed read answers as the wide one, no value is replaced unlogged    *)
(* while the jobs take turns, a previewed purchase is the book that has    *)
(* it, and the plans for new cash keep their limits and leave nothing they *)
(* could place.                                                            *)
(***************************************************************************)
EXTENDS Desk, FiniteSetTheorems, FunctionTheorems, SequenceTheorems, TLAPS
USE ListingsAssumption DEF ListingsAssumption

\* A cached series holds published values by day.
CacheInv ==
  \A x \in Series : Days(x) \subseteq Nat /\ \A d \in Days(x) : cache[x][d] \in Values

\* The source has published a value for every session so far.
SourceInv ==
  /\ today \in Nat
  /\ source \in [Sources -> Seq(Values)]
  /\ \A x \in Sources : source[x] # <<>>

\* One entry at most per series and day, each a published value.
Entries(es) ==
  /\ \A r \in es : r.series \in Series => r.day \in Nat /\ r.value \in Values
  /\ \A r, q \in es : r.series = q.series /\ r.day = q.day => r = q

\* What a refresh has read: one row per series, and the value it will write.  Rows
\* are not deleted, so one it has loaded is still there.
RefreshRows(rs) ==
  /\ \A r \in rs : /\ r.series \in Series /\ r.day \in Nat /\ r.new \in Values
                   /\ r.old # None => r.day \in Days(r.series)
  /\ \A r, q \in rs : r.series = q.series => r = q

\* What the jobs hold between their reads and their commits.
JobInv ==
  /\ sess = [w \in Writers |-> sess[w]]
  /\ \A w \in Writers : /\ sess[w].job = "refresh" => RefreshRows(sess[w].rows)
                        /\ sess[w].job = "backfill" => Entries(sess[w].rows)

\* The inductive invariant, whoever runs the jobs.
Inv == CacheInv /\ SourceInv /\ JobInv

\* What a session read is what its commit will overwrite.
Fresh(w) ==
  /\ sess[w].job = "refresh" => \A r \in sess[w].rows : r.old = Stored(r.series, r.day)
  /\ sess[w].job = "backfill" =>
       \A r \in sess[w].rows : Stored(r.series, r.day) \notin {None, r.value} =>
         Entry(r.series, r.day, Stored(r.series, r.day)) \in sess[w].logged

\* And the part that holds while they take turns.
FreshInv == \A w \in Writers : Fresh(w)

\* A bounded set of days has a highest one, and Max is it.
LEMMA MaxOfDays ==
  ASSUME NEW S \in SUBSET Nat, NEW b \in Nat, \A d \in S : d <= b, S # {}
  PROVE  Max(S) \in S /\ \A d \in S : d <= Max(S)
  <1> DEFINE Above(m) == {k \in S : m < k}
  <1>1. IsFiniteSet(S)
    BY FS_BoundedSetOfNaturals
  <1>2. IsWellFoundedOn(StrictSubsetOrdering(S), SUBSET S)
    BY <1>1, FS_StrictSubsetOrderingWellFounded, FS_FiniteSubsetsOfFinite
  <1>3. {Above(m) : m \in S} \subseteq SUBSET S /\ {Above(m) : m \in S} # {}
    <2>1. \A m \in S : Above(m) \in SUBSET S
      OBVIOUS
    <2> HIDE DEF Above
    <2>2. PICK m : m \in S
      OBVIOUS
    <2>3. Above(m) \in {Above(k) : k \in S}
      BY <2>2
    <2>4. QED
      BY <2>1, <2>3
  <1>4. PICK T \in {Above(m) : m \in S} :
          \A U \in {Above(m) : m \in S} : <<U, T>> \notin StrictSubsetOrdering(S)
    BY <1>2, <1>3, WFMin
  <1>5. PICK m \in S : T = Above(m)
    BY <1>4
  <1>6. ASSUME NEW n \in S, ~(m >= n) PROVE FALSE
    <2>1. n \in Nat /\ m \in Nat /\ m < n
      BY <1>6
    <2>2. n \in Above(m) /\ n \notin Above(n)
      BY <2>1
    <2>3. ASSUME NEW k \in Above(n) PROVE k \in Above(m)
      BY <2>1
    <2>4. <<Above(n), T>> \in StrictSubsetOrdering(S)
      BY <2>2, <2>3, <1>5 DEF StrictSubsetOrdering
    <2>5. QED
      BY <2>4, <1>4
  <1>7. \E x \in S : \A y \in S : x >= y
    BY <1>6
  <1>8. Max(S) = CHOOSE x \in S : \A y \in S : x >= y
    BY DEF Max
  <1>9. Max(S) \in S /\ \A y \in S : Max(S) >= y
    BY <1>7, <1>8
  <1>10. QED
    BY <1>9

\* The anchor of a listing is its latest bar no later than the window's start.
LEMMA AnchorProperties ==
  ASSUME CacheInv, NEW l \in Series, NEW floor \in Nat, NEW lo \in Nat, floor <= lo
  PROVE  /\ Anchor(l, floor, lo) \in Nat /\ floor <= Anchor(l, floor, lo) /\ Anchor(l, floor, lo) <= lo
         /\ \A d \in Days(l) : floor <= d /\ d <= lo => d <= Anchor(l, floor, lo)
         /\ \A d \in Days(l) : floor <= d /\ d <= lo => Anchor(l, floor, lo) \in Days(l)
  <1> DEFINE ds == {d \in Days(l) : floor <= d /\ d <= lo}
  <1>1. ds \in SUBSET Nat /\ \A d \in ds : d <= lo
    BY DEF CacheInv
  <1>2. Anchor(l, floor, lo) = IF ds = {} THEN lo ELSE Max(ds)
    BY DEF Anchor
  <1>3. CASE ds = {}
    BY <1>2, <1>3
  <1>4. CASE ds # {}
    <2>1. Max(ds) \in ds /\ \A d \in ds : d <= Max(ds)
      <3> HIDE DEF ds
      <3>1. QED
        BY <1>1, <1>4, MaxOfDays
    <2>2. QED
      BY <1>1, <1>2, <1>4, <2>1
  <1>5. QED
    BY <1>3, <1>4

\* A row is read in the window if it is read at all and not before the anchor of
\* its listing.
LEMMA WindowedRows ==
  ASSUME CacheInv, NEW s \in Symbols, NEW lo \in Nat, NEW hi \in Nat, NEW floor \in Nat
  PROVE  /\ Max({lo, floor}) \in Nat /\ lo <= Max({lo, floor}) /\ floor <= Max({lo, floor})
         /\ \A r : r \in WindowHistory(s, lo, hi, floor) <=>
              \E l \in Series : /\ l \in ToSet(Listings) /\ l.symbol = s /\ r \in Rows(l)
                                /\ Anchor(l, floor, Max({lo, floor})) <= r.day /\ r.day <= hi
  <1>1. Max({lo, floor}) \in {lo, floor} /\ \A d \in {lo, floor} : d <= Max({lo, floor})
    <2>1. {lo, floor} \in SUBSET Nat /\ lo + floor \in Nat /\ \A d \in {lo, floor} : d <= lo + floor
      OBVIOUS
    <2>2. QED
      BY <2>1, MaxOfDays
  <1>2. \A l \in ToSet(Listings) : l \in Series
    BY DEF Series
  <1>3. ASSUME NEW r
        PROVE  r \in WindowHistory(s, lo, hi, floor) <=>
                 \E l \in Series : /\ l \in ToSet(Listings) /\ l.symbol = s /\ r \in Rows(l)
                                   /\ Anchor(l, floor, Max({lo, floor})) <= r.day /\ r.day <= hi
    <2> DEFINE from == Max({lo, floor})
               part(l) == {q \in Rows(l) : Anchor(l, floor, from) <= q.day /\ q.day <= hi}
    <2>1. WindowHistory(s, lo, hi, floor) = UNION {part(l) : l \in {m \in ToSet(Listings) : m.symbol = s}}
      BY DEF WindowHistory
    <2> HIDE DEF from
    <2>2. r \in UNION {part(l) : l \in {m \in ToSet(Listings) : m.symbol = s}}
            <=> \E l \in ToSet(Listings) : l.symbol = s /\ r \in part(l)
      BY Zenon
    <2>3. QED
      BY <2>1, <2>2, <1>2 DEF from
  <1>4. QED
    BY <1>1, <1>3

\* The wide read takes every row of the range.
LEMMA WideRows ==
  ASSUME NEW s \in Symbols, NEW hi, NEW floor, NEW r
  PROVE  r \in History(s, floor, hi) <=>
           \E l \in Series : /\ l \in ToSet(Listings) /\ l.symbol = s /\ r \in Rows(l)
                             /\ floor <= r.day /\ r.day <= hi
  <1>1. \A l \in ToSet(Listings) : l \in Series
    BY DEF Series
  <1>2. r \in UNION {Rows(l) : l \in {m \in ToSet(Listings) : m.symbol = s}}
          <=> \E l \in ToSet(Listings) : l.symbol = s /\ r \in Rows(l)
    BY Zenon
  <1>3. QED
    BY <1>1, <1>2 DEF History

\* Every row of a listing has a day it is cached for.
LEMMA RowDays ==
  ASSUME CacheInv, NEW l \in Series
  PROVE  /\ \A r \in Rows(l) : r.day \in Days(l) /\ r.day \in Nat
         /\ \A d \in Days(l) : \E r \in Rows(l) : r.day = d
  <1>1. \A r \in Rows(l) : r.day \in Days(l)
    BY DEF Rows
  <1>2. ASSUME NEW d \in Days(l) PROVE \E r \in Rows(l) : r.day = d
    <2>1. [day |-> d, value |-> cache[l][d]] \in Rows(l)
      BY DEF Rows
    <2>2. QED
      BY <2>1
  <1>3. QED
    BY <1>1, <1>2 DEF CacheInv

\* The latest row before a day of the window is the latest row before it at all.
LEMMA WindowAgrees ==
  ASSUME CacheInv, NEW s \in Symbols, NEW floor \in Nat, NEW lo \in Nat, NEW hi \in Nat,
         NEW d \in Nat, Max({lo, floor}) <= d, d <= hi
  PROVE  AsOf(WindowHistory(s, lo, hi, floor), d) = AsOf(History(s, floor, hi), d)
  <1> DEFINE W == WindowHistory(s, lo, hi, floor)
             H == History(s, floor, hi)
             In(l) == l \in ToSet(Listings) /\ l.symbol = s
             Past(rs) == {r \in rs : r.day <= d}
             LastRows(rs) == {q \in Past(rs) : \A p \in Past(rs) : p.day <= q.day}
  <1>0. PICK from \in Nat : from = Max({lo, floor})
    BY WindowedRows
  <1>1. /\ lo <= from /\ floor <= from /\ from <= d
        /\ \A r : r \in W <=> \E l \in Series : In(l) /\ r \in Rows(l) /\ Anchor(l, floor, from) <= r.day /\ r.day <= hi
        /\ \A r : r \in H <=> \E l \in Series : In(l) /\ r \in Rows(l) /\ floor <= r.day /\ r.day <= hi
    <2>1. lo <= from /\ floor <= from /\ from <= d
      BY <1>0, WindowedRows
    <2>2. ASSUME NEW r
          PROVE  r \in W <=> \E l \in Series : In(l) /\ r \in Rows(l) /\ Anchor(l, floor, from) <= r.day /\ r.day <= hi
      BY <1>0, WindowedRows
    <2>3. ASSUME NEW r
          PROVE  r \in H <=> \E l \in Series : In(l) /\ r \in Rows(l) /\ floor <= r.day /\ r.day <= hi
      BY WideRows
    <2>4. QED
      BY <2>1, <2>2, <2>3
  <1>2. ASSUME NEW l \in Series
        PROVE  /\ Anchor(l, floor, from) \in Nat /\ floor <= Anchor(l, floor, from)
               /\ Anchor(l, floor, from) <= from
               /\ \A x \in Days(l) : floor <= x /\ x <= from => x <= Anchor(l, floor, from)
               /\ \A x \in Days(l) : floor <= x /\ x <= from => Anchor(l, floor, from) \in Days(l)
    BY <1>1, AnchorProperties
  <1> HIDE DEF W, H, In
  <1>3. \A r \in H : r.day \in Nat
    BY <1>1, RowDays
  <1>4. W \subseteq H
    <2>1. ASSUME NEW r \in W PROVE r \in H
      <3>1. PICK l \in Series : In(l) /\ r \in Rows(l) /\ Anchor(l, floor, from) <= r.day /\ r.day <= hi
        BY <1>1
      <3>2. r.day \in Nat
        BY <3>1, RowDays
      <3>3. floor <= r.day
        BY <3>1, <3>2, <1>2
      <3>4. QED
        BY <3>1, <3>3, <1>1
    <2>2. QED
      BY <2>1
  <1>5. ASSUME NEW r \in Past(H)
        PROVE  \E p \in Past(W) : r.day <= p.day /\ (r \notin W => r.day < p.day)
    <2>1. PICK l \in Series : In(l) /\ r \in Rows(l) /\ floor <= r.day /\ r.day <= hi
      BY <1>1
    <2>2. r.day \in Days(l) /\ r.day \in Nat /\ r.day <= d
      BY <2>1, RowDays
    <2>3. CASE Anchor(l, floor, from) <= r.day
      BY <2>1, <2>2, <2>3, <1>1
    <2>4. CASE ~(Anchor(l, floor, from) <= r.day)
      <3>1. r.day < Anchor(l, floor, from) /\ r.day <= from
        BY <2>2, <2>4, <1>2
      <3>2. Anchor(l, floor, from) \in Days(l)
        BY <3>1, <2>1, <2>2, <1>2
      <3>3. PICK p \in Rows(l) : p.day = Anchor(l, floor, from)
        BY <3>2, RowDays
      <3>4. p.day <= d /\ p.day <= hi /\ p.day \in Nat
        BY <3>3, <1>1, <1>2
      <3>5. p \in W
        BY <3>3, <3>4, <2>1, <1>1
      <3>6. QED
        BY <3>1, <3>3, <3>4, <3>5, <2>2
    <2>5. QED
      BY <2>3, <2>4
  <1>6. ASSUME NEW q \in LastRows(H) PROVE q \in LastRows(W)
    <2>1. q \in Past(H) /\ q.day \in Nat
      BY <1>3
    <2>2. q \in W
      <3>1. ASSUME q \notin W PROVE FALSE
        <4>1. PICK p \in Past(W) : q.day < p.day
          BY <2>1, <3>1, <1>5
        <4>2. p \in Past(H) /\ p.day \in Nat
          BY <4>1, <1>3, <1>4
        <4>3. QED
          BY <4>1, <4>2, <2>1
      <3>2. QED
        BY <3>1
    <2>3. QED
      BY <2>1, <2>2, <1>4
  <1>7. ASSUME NEW q \in LastRows(W) PROVE q \in LastRows(H)
    <2>1. q \in Past(H) /\ q.day \in Nat
      BY <1>3, <1>4
    <2>2. ASSUME NEW r \in Past(H) PROVE r.day <= q.day
      <3>1. PICK p \in Past(W) : r.day <= p.day
        BY <1>5
      <3>2. p.day <= q.day /\ p.day \in Nat /\ r.day \in Nat
        BY <3>1, <1>3, <1>4
      <3>3. QED
        BY <3>1, <3>2, <2>1
    <2>3. QED
      BY <2>1, <2>2
  <1>8. LastRows(W) = LastRows(H)
    BY <1>6, <1>7
  <1>9. AsOf(W, d) = {r.value : r \in LastRows(W)} /\ AsOf(H, d) = {r.value : r \in LastRows(H)}
    BY DEF AsOf
  <1>10. QED
    BY <1>8, <1>9 DEF W, H

\* A series is known to the source, which has values for the days up to its newest.
LEMMA SourceType ==
  ASSUME SourceInv, NEW x \in Series
  PROVE  /\ SourceOf(x) \in Sources /\ Newest(x) \in Nat
         /\ \A d \in 0..Newest(x) : d \in Nat /\ Given(x, d) \in Values
  <1>1. SourceOf(x) \in Sources
    BY DEF Sources
  <1>2. source[SourceOf(x)] \in Seq(Values) /\ Len(source[SourceOf(x)]) \in Nat
        /\ Len(source[SourceOf(x)]) # 0
    BY <1>1, EmptySeq, LenProperties DEF SourceInv
  <1>3. Newest(x) \in Nat /\ Newest(x) + 1 = Len(source[SourceOf(x)])
    BY <1>2 DEF Newest
  <1>4. ASSUME NEW d \in 0..Newest(x) PROVE d \in Nat /\ Given(x, d) \in Values
    <2>1. d + 1 \in 1..Len(source[SourceOf(x)])
      BY <1>3
    <2>2. source[SourceOf(x)][d + 1] \in Values
      BY <1>2, <2>1
    <2>3. QED
      BY <2>2, <1>3 DEF Given
  <1>5. QED
    BY <1>1, <1>3, <1>4

\* A cached value is published, a missing one is None.
LEMMA StoredType ==
  ASSUME CacheInv, NEW x \in Series, NEW d
  PROVE  /\ d \in Days(x) => Stored(x, d) = cache[x][d] /\ Stored(x, d) \in Values /\ Stored(x, d) # None
         /\ d \notin Days(x) => Stored(x, d) = None
  BY DEF CacheInv, Stored

\* Values put in replace what they are put over, and nothing else changes.
LEMMA PutProperties ==
  ASSUME CacheInv, NEW es, Entries(es), cache' = Put(es)
  PROVE  /\ CacheInv'
         /\ \A x \in Series : Days(x) \subseteq Days(x)'
         /\ \A x \in Series : \A d \in Days(x) : cache'[x][d] # cache[x][d] =>
              \E r \in es : r.series = x /\ r.day = d /\ r.value # cache[x][d]
  <1> DEFINE new(x) == {r \in es : r.series = x}
             at(x, d) == IF \E r \in new(x) : r.day = d
                         THEN (CHOOSE r \in new(x) : r.day = d).value ELSE cache[x][d]
  <1>1. ASSUME NEW x \in Series
        PROVE  /\ Days(x)' = Days(x) \cup {r.day : r \in new(x)}
               /\ \A d \in Days(x)' : cache'[x][d] = at(x, d)
    <2>1. cache'[x] = [d \in Days(x) \cup {r.day : r \in new(x)} |-> at(x, d)]
      BY DEF Put
    <2> HIDE DEF new, at
    <2>2. Days(x)' = DOMAIN cache'[x]
      BY DEF Days
    <2>3. QED
      BY <2>1, <2>2
  <1>2. ASSUME NEW x \in Series, NEW d, \E r \in new(x) : r.day = d
        PROVE  \E r \in es : r.series = x /\ r.day = d /\ at(x, d) = r.value
    <2> DEFINE c == CHOOSE r \in new(x) : r.day = d
    <2>1. c \in new(x) /\ c.day = d
      BY <1>2
    <2>2. at(x, d) = c.value
      BY <1>2
    <2> HIDE DEF c, at
    <2>3. QED
      BY <2>1, <2>2
  <1>3. ASSUME NEW x \in Series, NEW d, ~\E r \in new(x) : r.day = d
        PROVE  at(x, d) = cache[x][d]
    BY <1>3
  <1>4. \A x \in Series : \A r \in new(x) : r \in es /\ r.series = x /\ r.day \in Nat /\ r.value \in Values
    BY DEF Entries
  <1> HIDE DEF at
  <1>5. ASSUME NEW x \in Series
        PROVE  Days(x)' \subseteq Nat /\ \A d \in Days(x)' : cache'[x][d] \in Values
    <2>1. Days(x)' \subseteq Nat
      BY <1>1, <1>4 DEF CacheInv
    <2>2. ASSUME NEW d \in Days(x)' PROVE cache'[x][d] \in Values
      <3>1. CASE \E r \in new(x) : r.day = d
        <4>1. PICK r \in es : r.series = x /\ r.day = d /\ at(x, d) = r.value
          BY <1>2, <3>1
        <4>2. QED
          BY <4>1, <1>1 DEF Entries
      <3>2. CASE ~\E r \in new(x) : r.day = d
        <4>1. d \in Days(x)
          BY <3>2, <1>1
        <4>2. QED
          BY <4>1, <3>2, <1>1, <1>3 DEF CacheInv
      <3>3. QED
        BY <3>1, <3>2
    <2>3. QED
      BY <2>1, <2>2
  <1>6. ASSUME NEW x \in Series, NEW d \in Days(x), cache'[x][d] # cache[x][d]
        PROVE  \E r \in es : r.series = x /\ r.day = d /\ r.value # cache[x][d]
    <2>1. cache'[x][d] = at(x, d)
      BY <1>1
    <2>2. \E r \in new(x) : r.day = d
      BY <2>1, <1>3, <1>6
    <2>3. QED
      BY <2>1, <2>2, <1>2, <1>6
  <1>7. QED
    BY <1>1, <1>5, <1>6 DEF CacheInv

\* At first nothing is cached and nobody is at work.
LEMMA InitInv == MarketInit => Inv /\ FreshInv
  <1> SUFFICES ASSUME MarketInit PROVE Inv /\ FreshInv
    OBVIOUS
  <1>1. CacheInv
    <2>1. ASSUME NEW x \in Series PROVE Days(x) = {}
      BY DEF MarketInit, Days
    <2>2. QED
      BY <2>1 DEF CacheInv
  <1>2. SourceInv
    <2>1. ASSUME NEW x \in Sources PROVE <<Opening[x]>> \in Seq(Values) /\ <<Opening[x]>> # <<>>
      <3>1. Opening[x] \in Values
        BY DEF Values
      <3>2. QED
        BY <3>1
    <2>2. QED
      BY <2>1 DEF MarketInit, SourceInv
  <1>3. sess = [w \in Writers |-> sess[w]] /\ \A w \in Writers : sess[w].job = "idle"
    BY DEF MarketInit, Idle
  <1>4. QED
    BY <1>1, <1>2, <1>3 DEF Inv, JobInv, FreshInv, Fresh

\* What a step of one session leaves of the others.
LEMMA JobFrame ==
  ASSUME JobInv, NEW w \in Writers, NEW new, sess' = [sess EXCEPT ![w] = new],
         \A x \in Series : Days(x) \subseteq Days(x)',
         new.job = "refresh" => RefreshRows(new.rows)',
         new.job = "backfill" => Entries(new.rows)
  PROVE  JobInv'
  <1>1. sess' = [v \in Writers |-> sess'[v]] /\ sess'[w] = new /\ \A v \in Writers : v # w => sess'[v] = sess[v]
    BY DEF JobInv
  <1>2. ASSUME NEW v \in Writers
        PROVE  /\ sess'[v].job = "refresh" => RefreshRows(sess[v].rows)'
               /\ sess'[v].job = "backfill" => Entries(sess[v].rows)'
    <2>1. CASE v = w
      BY <1>1, <2>1 DEF Entries
    <2>2. CASE v # w
      <3>1. sess'[v] = sess[v]
        BY <1>1, <2>2
      <3>2. sess[v].job = "refresh" => RefreshRows(sess[v].rows)
        BY DEF JobInv
      <3>3. sess[v].job = "backfill" => Entries(sess[v].rows)
        BY DEF JobInv
      <3>4. QED
        BY <3>1, <3>2, <3>3 DEF RefreshRows, Entries
    <2>3. QED
      BY <2>1, <2>2
  <1>3. QED
    BY <1>1, <1>2 DEF JobInv

\* A read leaves the cache and the source alone.
LEMMA ReadFrame ==
  ASSUME Inv, UNCHANGED <<today, source, cache>>
  PROVE  CacheInv' /\ SourceInv' /\ \A x \in Series : Days(x)' = Days(x)
  BY DEF Inv, CacheInv, SourceInv, Days

\* With one job at a time, what it holds is all there is to be fresh.
LEMMA FreshFrame ==
  ASSUME JobInv, JobsTakeTurns, NEW w \in Writers, NEW new, sess' = [sess EXCEPT ![w] = new],
         new.job = "refresh" => \A r \in new.rows : r.old = Stored(r.series, r.day)',
         new.job = "backfill" =>
           \A r \in new.rows : Stored(r.series, r.day)' \notin {None, r.value} =>
             Entry(r.series, r.day, Stored(r.series, r.day)') \in new.logged
  PROVE  FreshInv'
  <1>1. \A v \in Writers : v = w /\ sess'[v] = new
    BY DEF JobInv, JobsTakeTurns
  <1>2. Fresh(w)'
    BY <1>1 DEF Fresh, Entry
  <1>3. QED
    BY <1>1, <1>2 DEF FreshInv

\* refresh_latest_prices and refresh_fx_rates read what they will overwrite.
LEMMA RefreshReadStep ==
  ASSUME Inv, NEW w \in Writers, RefreshRead(w)
  PROVE  Inv' /\ (JobsTakeTurns => FreshInv')
  <1> DEFINE row(x) == [series |-> x, day |-> Newest(x), old |-> Stored(x, Newest(x)), new |-> Given(x, Newest(x))]
  <1>1. PICK S \in {{HeldListing(s) : s \in Symbols}, Foreign} :
          sess' = [sess EXCEPT ![w] = [job |-> "refresh", rows |-> {row(x) : x \in S}]]
    BY DEF RefreshRead
  <1>2. PICK rows : rows = {row(x) : x \in S}
    OBVIOUS
  <1>3. S \subseteq Series
    BY DEF Series
  <1>4. CacheInv /\ SourceInv /\ JobInv /\ UNCHANGED <<today, source, corrected, cache, log>>
    BY DEF Inv, RefreshRead
  <1>5. RefreshRows(rows)
    <2>1. ASSUME NEW x \in S
          PROVE  /\ row(x).series \in Series /\ row(x).day \in Nat /\ row(x).new \in Values
                 /\ row(x).old # None => row(x).day \in Days(row(x).series)
      <3>1. x \in Series /\ Newest(x) \in 0..Newest(x) /\ Newest(x) \in Nat
        BY <1>3, <1>4, SourceType
      <3>2. Given(x, Newest(x)) \in Values
        BY <3>1, <1>4, SourceType
      <3>3. QED
        BY <3>1, <3>2, <1>4, StoredType
    <2>2. \A x \in S : row(x).series = x
      OBVIOUS
    <2> HIDE DEF row
    <2>3. QED
      BY <2>1, <2>2, <1>2 DEF RefreshRows
  <1>6. \A r \in rows : r.old = Stored(r.series, r.day)
    BY <1>2
  <1>7. CacheInv' /\ SourceInv' /\ \A x \in Series : Days(x)' = Days(x)
    BY <1>4, ReadFrame DEF Inv
  <1>8. PICK new : new = [job |-> "refresh", rows |-> rows]
    OBVIOUS
  <1>9. sess' = [sess EXCEPT ![w] = new] /\ new.job = "refresh" /\ new.rows = rows
    BY <1>1, <1>2, <1>8
  <1>10. RefreshRows(new.rows)'
    BY <1>5, <1>7, <1>9 DEF RefreshRows
  <1>11. JobInv'
    BY <1>4, <1>7, <1>9, <1>10, JobFrame
  <1>12. \A r \in new.rows : r.old = Stored(r.series, r.day)'
    BY <1>4, <1>6, <1>9 DEF Stored, Days
  <1>13. JobsTakeTurns => FreshInv'
    BY <1>4, <1>9, <1>12, FreshFrame
  <1>14. QED
    BY <1>7, <1>11, <1>13 DEF Inv

\* backfill_prices notes the bars that differ from the fetched ones.
LEMMA BackfillRecordStep ==
  ASSUME Inv, NEW w \in Writers, BackfillRecord(w)
  PROVE  Inv' /\ (JobsTakeTurns => FreshInv')
  <1> DEFINE old(r) == Entry(r.series, r.day, Stored(r.series, r.day))
  <1>1. PICK start \in 0..today :
          sess' = [sess EXCEPT ![w] = [job |-> "backfill", rows |-> Incoming(start),
                                       logged |-> {old(r) : r \in Differing(Incoming(start))}]]
    BY DEF BackfillRecord
  <1>2. PICK rows, logged : rows = Incoming(start) /\ logged = {old(r) : r \in Differing(rows)}
    OBVIOUS
  <1>3. CacheInv /\ SourceInv /\ JobInv /\ UNCHANGED <<today, source, corrected, cache, log>>
    BY DEF Inv, BackfillRecord
  <1>4. \A r \in rows : \E s \in Symbols : \E d \in start..Newest(FirstListing(s)) :
          r = Entry(FirstListing(s), d, Given(FirstListing(s), d))
    BY <1>2 DEF Incoming
  <1>5. start \in Nat
    BY <1>3 DEF SourceInv
  <1>6. Entries(rows)
    <2>1. ASSUME NEW r \in rows PROVE r.series \in Series => r.day \in Nat /\ r.value \in Values
      <3>0. PICK s \in Symbols : \E d \in start..Newest(FirstListing(s)) :
              r = Entry(FirstListing(s), d, Given(FirstListing(s), d))
        BY <1>4
      <3>1. PICK d \in start..Newest(FirstListing(s)) :
              r = Entry(FirstListing(s), d, Given(FirstListing(s), d))
        BY <3>0
      <3>2. r.series = FirstListing(s) /\ r.day = d /\ r.value = Given(FirstListing(s), d)
        BY <3>1 DEF Entry
      <3>3. ASSUME FirstListing(s) \in Series PROVE d \in Nat /\ Given(FirstListing(s), d) \in Values
        <4>1. Newest(FirstListing(s)) \in Nat
          BY <3>3, <1>3, SourceType
        <4>2. d \in 0..Newest(FirstListing(s))
          BY <4>1, <1>5
        <4>3. QED
          BY <4>2, <3>3, <1>3, SourceType
      <3>4. QED
        BY <3>2, <3>3
    <2>2. \A r \in rows : r = Entry(r.series, r.day, Given(r.series, r.day))
      BY <1>4 DEF Entry
    <2>3. ASSUME NEW r \in rows, NEW q \in rows, r.series = q.series, r.day = q.day PROVE r = q
      <3>1. r = Entry(r.series, r.day, Given(r.series, r.day)) /\ q = Entry(q.series, q.day, Given(q.series, q.day))
        BY <2>2
      <3>2. QED
        BY <3>1, <2>3
    <2>4. QED
      BY <2>1, <2>3 DEF Entries
  <1>7. CacheInv' /\ SourceInv' /\ \A x \in Series : Days(x)' = Days(x)
    BY <1>3, ReadFrame DEF Inv
  <1>8. PICK new : new = [job |-> "backfill", rows |-> rows, logged |-> logged]
    OBVIOUS
  <1>9. sess' = [sess EXCEPT ![w] = new] /\ new.job = "backfill" /\ new.rows = rows /\ new.logged = logged
    BY <1>1, <1>2, <1>8
  <1>10. JobInv'
    BY <1>3, <1>6, <1>7, <1>9, JobFrame DEF Entries
  <1>11. ASSUME NEW r \in rows, Stored(r.series, r.day)' \notin {None, r.value}
         PROVE  Entry(r.series, r.day, Stored(r.series, r.day)') \in logged
    <2>1. Stored(r.series, r.day)' = Stored(r.series, r.day)
      BY <1>3 DEF Stored, Days
    <2>2. QED
      BY <2>1, <1>2, <1>11 DEF Differing
  <1>12. JobsTakeTurns => FreshInv'
    BY <1>3, <1>9, <1>11, FreshFrame
  <1>13. QED
    BY <1>7, <1>10, <1>12 DEF Inv

\* A commit of w leaves it idle.
LEMMA IdleFrame ==
  ASSUME Inv, NEW w \in Writers, sess' = [sess EXCEPT ![w] = Idle], UNCHANGED <<today, source>>,
         CacheInv', \A x \in Series : Days(x) \subseteq Days(x)'
  PROVE  Inv' /\ (JobsTakeTurns => FreshInv')
  <1>1. Idle.job = "idle" /\ JobInv
    BY DEF Idle, Inv
  <1>2. JobInv'
    BY <1>1, JobFrame
  <1>3. JobsTakeTurns => FreshInv'
    BY <1>1, FreshFrame
  <1>4. QED
    BY <1>2, <1>3 DEF Inv, SourceInv

\* What a step of the jobs may replace, and what it must have logged.
Logs == /\ log \subseteq log'
        /\ \A x \in Series : \A d \in Days(x) : cache'[x][d] # cache[x][d] => Entry(x, d, cache[x][d]) \in log'

\* A refresh's commit: the hook logs what was loaded, the flush writes what changed.
LEMMA RefreshCommitStep ==
  ASSUME Inv, NEW w \in Writers, RefreshCommit(w)
  PROVE  Inv' /\ (JobsTakeTurns => FreshInv') /\ (FreshInv => Logs)
  <1>1. CacheInv /\ RefreshRows(sess[w].rows) /\ sess' = [sess EXCEPT ![w] = Idle] /\ UNCHANGED <<today, source>>
    BY DEF Inv, JobInv, RefreshCommit
  <1>2. CASE UNCHANGED <<cache, log>>
    <2>1. CacheInv' /\ \A x \in Series : Days(x)' = Days(x)
      BY <1>1, <1>2, ReadFrame
    <2>2. QED
      BY <2>1, <1>1, <1>2, IdleFrame DEF Logs
  <1>3. CASE /\ cache' = Put({Entry(r.series, r.day, Written(r)) : r \in sess[w].rows})
             /\ log' = log \cup {Entry(r.series, r.day, r.old) : r \in {q \in sess[w].rows : Superseded(q)}}
    <2> DEFINE es == {Entry(r.series, r.day, Written(r)) : r \in sess[w].rows}
    <2>1. \A r \in sess[w].rows : Written(r) \in Values
      <3>1. ASSUME NEW r \in sess[w].rows PROVE Written(r) \in Values
        <4>1. r.series \in Series /\ r.new \in Values /\ (r.old # None => r.day \in Days(r.series))
          BY <1>1 DEF RefreshRows
        <4>2. r.old = r.new => Stored(r.series, r.day) \in Values
          BY <4>1, <1>1, StoredType
        <4>3. QED
          BY <4>1, <4>2 DEF Written, Changed
      <3>2. QED
        BY <3>1
    <2>2. Entries(es)
      <3>1. \A e \in es : \E r \in sess[w].rows : e = Entry(r.series, r.day, Written(r))
        OBVIOUS
      <3>2. ASSUME NEW e \in es PROVE e.day \in Nat /\ e.value \in Values
        BY <3>1, <2>1, <1>1 DEF RefreshRows, Entry
      <3>3. ASSUME NEW e \in es, NEW f \in es, e.series = f.series PROVE e = f
        <4>1. PICK r \in sess[w].rows : e = Entry(r.series, r.day, Written(r))
          BY <3>1
        <4>2. PICK q \in sess[w].rows : f = Entry(q.series, q.day, Written(q))
          BY <3>1
        <4>3. r = q
          BY <4>1, <4>2, <3>3, <1>1 DEF RefreshRows, Entry
        <4>4. QED
          BY <4>1, <4>2, <4>3
      <3>4. QED
        BY <3>2, <3>3 DEF Entries
    <2>3. PICK en : en = es
      OBVIOUS
    <2>4. Entries(en) /\ cache' = Put(en)
      BY <2>2, <2>3, <1>3
    <2>5. /\ CacheInv' /\ \A x \in Series : Days(x) \subseteq Days(x)'
          /\ \A x \in Series : \A d \in Days(x) : cache'[x][d] # cache[x][d] =>
               \E e \in en : e.series = x /\ e.day = d /\ e.value # cache[x][d]
      BY <2>4, <1>1, PutProperties
    <2>6. ASSUME FreshInv PROVE Logs
      <3>1. \A r \in sess[w].rows : r.old = Stored(r.series, r.day)
        BY <2>6 DEF FreshInv, Fresh, RefreshCommit
      <3>2. ASSUME NEW x \in Series, NEW d \in Days(x), cache'[x][d] # cache[x][d]
            PROVE  Entry(x, d, cache[x][d]) \in log'
        <4>1. PICK e \in en : e.series = x /\ e.day = d /\ e.value # cache[x][d]
          BY <2>5, <3>2
        <4>2. PICK r \in sess[w].rows : e = Entry(r.series, r.day, Written(r))
          BY <2>3, <4>1
        <4>3. r.series = x /\ r.day = d /\ Written(r) # cache[x][d]
          BY <4>1, <4>2 DEF Entry
        <4>4. r.old = cache[x][d] /\ r.old # None /\ Stored(x, d) = cache[x][d]
          BY <3>1, <4>3, <1>1, StoredType
        <4>5. Superseded(r)
          BY <4>3, <4>4 DEF Superseded, Changed, Written
        <4>6. QED
          BY <4>3, <4>4, <4>5, <1>3
      <3>3. QED
        BY <3>2, <1>3 DEF Logs
    <2>7. QED
      BY <2>5, <2>6, <1>1, IdleFrame
  <1>4. QED
    BY <1>2, <1>3 DEF RefreshCommit

\* backfill_prices upserts what it fetched after logging what it replaces.
LEMMA BackfillUpsertStep ==
  ASSUME Inv, NEW w \in Writers, BackfillUpsert(w)
  PROVE  Inv' /\ (JobsTakeTurns => FreshInv') /\ (FreshInv => Logs)
  <1>1. /\ CacheInv /\ Entries(sess[w].rows) /\ sess' = [sess EXCEPT ![w] = Idle]
        /\ UNCHANGED <<today, source>> /\ log' = log \cup sess[w].logged
    BY DEF Inv, JobInv, BackfillUpsert
  <1>2. PICK en : en = sess[w].rows
    OBVIOUS
  <1>3. Entries(en) /\ cache' = Put(en)
    BY <1>1, <1>2 DEF BackfillUpsert
  <1>4. /\ CacheInv' /\ \A x \in Series : Days(x) \subseteq Days(x)'
        /\ \A x \in Series : \A d \in Days(x) : cache'[x][d] # cache[x][d] =>
             \E e \in en : e.series = x /\ e.day = d /\ e.value # cache[x][d]
    BY <1>1, <1>3, PutProperties
  <1>5. ASSUME FreshInv, NEW x \in Series, NEW d \in Days(x), cache'[x][d] # cache[x][d]
        PROVE  Entry(x, d, cache[x][d]) \in log'
    <2>1. PICK e \in en : e.series = x /\ e.day = d /\ e.value # cache[x][d]
      BY <1>4, <1>5
    <2>2. Stored(x, d) = cache[x][d] /\ Stored(x, d) # None
      BY <1>1, StoredType
    <2>3. Entry(x, d, cache[x][d]) \in sess[w].logged
      BY <2>1, <2>2, <1>2, <1>5 DEF FreshInv, Fresh, BackfillUpsert
    <2>4. QED
      BY <2>3, <1>1
  <1>6. FreshInv => Logs
    BY <1>1, <1>5 DEF Logs
  <1>7. QED
    BY <1>1, <1>4, <1>6, IdleFrame

\* backfill_fx_rates adds rates and replaces none.
LEMMA BackfillRatesStep ==
  ASSUME Inv, NEW w \in Writers, BackfillRates(w)
  PROVE  Inv' /\ (JobsTakeTurns => FreshInv') /\ Logs
  <1> DEFINE missing == UNION {{Entry(c, d, Given(c, d)) : d \in {e \in 0..Newest(c) : e \notin Days(c)}} : c \in Foreign}
  <1>1. /\ CacheInv /\ SourceInv /\ JobInv /\ UNCHANGED <<today, source, log, sess>>
        /\ cache' = Put(missing) /\ sess[w] = Idle
    BY DEF Inv, BackfillRates
  <1>2. PICK en : en = missing
    OBVIOUS
  <1>3. \A e \in en : /\ e.series \in Series /\ e.day \in 0..Newest(e.series) /\ e.day \notin Days(e.series)
                      /\ e = Entry(e.series, e.day, Given(e.series, e.day))
    <2>1. \A c \in Foreign : c \in Series
      BY DEF Series
    <2>2. QED
      BY <1>2, <2>1 DEF Entry
  <1>4. Entries(en)
    <2>1. ASSUME NEW e \in en PROVE e.day \in Nat /\ e.value \in Values
      <3>1. e.value = Given(e.series, e.day)
        BY <1>3 DEF Entry
      <3>2. QED
        BY <3>1, <1>1, <1>3, SourceType
    <2>2. ASSUME NEW e \in en, NEW f \in en, e.series = f.series, e.day = f.day PROVE e = f
      <3>1. e = Entry(e.series, e.day, Given(e.series, e.day)) /\ f = Entry(f.series, f.day, Given(f.series, f.day))
        BY <1>3
      <3>2. QED
        BY <3>1, <2>2
    <2>3. QED
      BY <2>1, <2>2 DEF Entries
  <1>5. /\ CacheInv' /\ \A x \in Series : Days(x) \subseteq Days(x)'
        /\ \A x \in Series : \A d \in Days(x) : cache'[x][d] # cache[x][d] =>
             \E e \in en : e.series = x /\ e.day = d /\ e.value # cache[x][d]
    BY <1>1, <1>2, <1>4, PutProperties
  <1>6. Logs
    BY <1>1, <1>3, <1>5 DEF Logs
  <1>7. sess' = [sess EXCEPT ![w] = Idle]
    BY <1>1 DEF JobInv
  <1>8. QED
    BY <1>1, <1>5, <1>6, <1>7, IdleFrame

\* The source moves; the cache and the jobs stay as they are.
LEMMA SourceStep ==
  ASSUME Inv, Publish \/ Correct
  PROVE  Inv' /\ (FreshInv => FreshInv') /\ Logs
  <1>1. UNCHANGED <<cache, log, sess>> /\ CacheInv /\ SourceInv /\ JobInv
    BY DEF Publish, Correct, Inv
  <1>2. \A x \in Sources : Published[x] \subseteq Values
    BY DEF Values
  <1>3. SourceInv'
    <2>1. CASE Publish
      <3>1. PICK v \in [Sources -> Values] : source' = [x \in Sources |-> Append(source[x], v[x])]
        BY <2>1 DEF Publish
      <3>2. ASSUME NEW x \in Sources PROVE source'[x] \in Seq(Values) /\ source'[x] # <<>>
        <4>1. source[x] \in Seq(Values) /\ v[x] \in Values
          BY <1>1, <3>1 DEF SourceInv
        <4>2. Append(source[x], v[x]) \in Seq(Values) /\ Append(source[x], v[x]) # <<>>
          BY <4>1, AppendProperties
        <4>3. QED
          BY <3>1, <4>2
      <3>3. today' \in Nat
        BY <2>1, <1>1 DEF Publish, SourceInv
      <3>4. QED
        BY <3>1, <3>2, <3>3 DEF SourceInv
    <2>2. CASE Correct
      <3>1. PICK x \in Sources : \E d \in 1..Len(source[x]) : \E v \in Published[x] \ {source[x][d]} :
                                   source' = [source EXCEPT ![x][d] = v]
        BY <2>2 DEF Correct
      <3>2. PICK d \in 1..Len(source[x]) : \E v \in Published[x] \ {source[x][d]} :
                                   source' = [source EXCEPT ![x][d] = v]
        BY <3>1
      <3>3. PICK v \in Published[x] : source' = [source EXCEPT ![x] = [@ EXCEPT ![d] = v]]
        BY <3>2
      <3>4. v \in Values /\ source[x] \in Seq(Values) /\ source[x] # <<>>
        BY <1>1, <1>2 DEF SourceInv
      <3>5. [source[x] EXCEPT ![d] = v] \in Seq(Values) /\ [source[x] EXCEPT ![d] = v] # <<>>
        <4>1. [source[x] EXCEPT ![d] = v] \in Seq(Values) /\ Len([source[x] EXCEPT ![d] = v]) = Len(source[x])
          BY <3>4, ExceptSeq
        <4>2. QED
          BY <4>1, <3>4, EmptySeq
      <3>6. source' \in [Sources -> Seq(Values)] /\ \A y \in Sources : source'[y] # <<>>
        BY <3>3, <3>5, <1>1 DEF SourceInv
      <3>7. QED
        BY <3>6, <2>2, <1>1 DEF SourceInv, Correct
    <2>3. QED
      BY <2>1, <2>2
  <1>4. CacheInv'
    BY <1>1 DEF CacheInv, Days
  <1>5. JobInv'
    BY <1>1 DEF JobInv, RefreshRows, Entries, Days
  <1>6. FreshInv => FreshInv'
    BY <1>1 DEF FreshInv, Fresh, Stored, Days, Entry
  <1>7. QED
    BY <1>1, <1>3, <1>4, <1>5, <1>6 DEF Inv, Logs

\* Every step of the desk keeps the invariants and logs what it replaces.
LEMMA Step ==
  ASSUME Inv, [Next]_<<vars, book, rules>>
  PROVE  Inv' /\ (JobsTakeTurns /\ FreshInv => FreshInv' /\ (UNCHANGED vars \/ Logs))
  <1>1. CASE UNCHANGED vars
    <2>1. CacheInv' /\ SourceInv'
      BY <1>1 DEF Inv, vars, CacheInv, SourceInv, Days
    <2>2. JobInv'
      BY <1>1 DEF Inv, vars, JobInv, RefreshRows, Entries, Days
    <2>3. FreshInv => FreshInv'
      BY <1>1 DEF vars, FreshInv, Fresh, Stored, Days, Entry
    <2>4. QED
      BY <1>1, <2>1, <2>2, <2>3 DEF Inv
  <1>2. CASE MarketNext
    <2>1. CASE Publish \/ Correct
      BY <2>1, SourceStep
    <2>2. CASE \E w \in Writers : JobStep(w)
      <3>1. PICK w \in Writers : JobStep(w)
        BY <2>2
      <3>2. CASE RefreshRead(w)
        <4>1. Logs
          BY <3>2 DEF RefreshRead, Logs, Days
        <4>2. QED
          BY <3>2, <4>1, RefreshReadStep
      <3>3. CASE RefreshCommit(w)
        BY <3>3, RefreshCommitStep
      <3>4. CASE BackfillRecord(w)
        <4>1. Logs
          BY <3>4 DEF BackfillRecord, Logs, Days
        <4>2. QED
          BY <3>4, <4>1, BackfillRecordStep
      <3>5. CASE BackfillUpsert(w)
        BY <3>5, BackfillUpsertStep
      <3>6. CASE BackfillRates(w)
        BY <3>6, BackfillRatesStep
      <3>7. QED
        BY <3>1, <3>2, <3>3, <3>4, <3>5, <3>6 DEF JobStep
    <2>3. QED
      BY <1>2, <2>1, <2>2 DEF MarketNext
  <1>3. QED
    BY <1>1, <1>2 DEF Next

\* close_history_in_windows: whatever is cached, under however many listings, every
\* as-of lookup inside a window is answered as the wide read answers it.
THEOREM WindowsAgree == Spec => []WindowReadAgrees
  <1>1. Init => Inv
    BY InitInv DEF Init
  <1>2. Inv /\ [Next]_<<vars, book, rules>> => Inv'
    BY Step
  <1>3. Inv => WindowReadAgrees
    <2> SUFFICES ASSUME Inv, NEW s \in Symbols, NEW floor \in 0..today, NEW lo \in 0..today,
                        NEW hi \in lo..today, NEW d \in Max({lo, floor})..hi
                 PROVE  AsOf(WindowHistory(s, lo, hi, floor), d) = AsOf(History(s, floor, hi), d)
      BY DEF WindowReadAgrees
    <2>1. CacheInv /\ today \in Nat
      BY DEF Inv, SourceInv
    <2>2. floor \in Nat /\ lo \in Nat /\ hi \in Nat
      BY <2>1
    <2>3. Max({lo, floor}) \in Nat
      BY <2>1, <2>2, WindowedRows
    <2>4. d \in Nat /\ Max({lo, floor}) <= d /\ d <= hi
      BY <2>2, <2>3
    <2>5. QED
      BY <2>1, <2>2, <2>4, WindowAgrees
  <1>4. QED
    BY <1>1, <1>2, <1>3, PTL DEF Spec

\* MarketInputRevision, "the append-only record of every cached close or FX rate that
\* was REPLACED": nothing is taken out of it, and no value is replaced without it,
\* through refreshes, backfills and corrections by the source in any order, one job at
\* a time.
THEOREM ReplacementsAreLogged ==
  ASSUME JobsTakeTurns
  PROVE  Spec => ReplacedIsLogged
  <1>1. Init => Inv /\ FreshInv
    BY InitInv DEF Init
  <1>2. Inv /\ FreshInv /\ [Next]_<<vars, book, rules>> => (Inv /\ FreshInv)'
    BY Step, JobsTakeTurns
  <1>3. Inv /\ FreshInv /\ [Next]_<<vars, book, rules>> =>
          [/\ log \subseteq log'
           /\ \A x \in Series : \A d \in Days(x) :
                cache'[x][d] # cache[x][d] => Entry(x, d, cache[x][d]) \in log']_vars
    BY Step, JobsTakeTurns DEF Logs
  <1>4. QED
    BY <1>1, <1>2, <1>3, PTL DEF Spec, ReplacedIsLogged
----------------------------------------------------------------------------
\* No value is of a day to come: neither cached, nor on its way to the cache.
BoundInv ==
  /\ \A x \in Sources : Len(source[x]) = today + 1
  /\ \A x \in Series : \A d \in Days(x) : d <= today
  /\ \A w \in Writers : sess[w].job \in {"refresh", "backfill"} =>
       \A r \in sess[w].rows : r.series \in Series => r.day <= today

\* Values of no day to come leave none when they are put in.
LEMMA PutBound ==
  ASSUME BoundInv, NEW es, \A r \in es : r.series \in Series => r.day <= today,
         cache' = Put(es), today' = today
  PROVE  \A x \in Series : \A d \in Days(x)' : d <= today'
  <1>1. ASSUME NEW x \in Series, NEW d \in Days(x)' PROVE d <= today'
    <2>1. PICK new : new = {r \in es : r.series = x}
      OBVIOUS
    <2>2. PICK D : D = Days(x) \cup {r.day : r \in new}
      OBVIOUS
    <2>3. PICK f : cache'[x] = [e \in D |-> f[e]]
      <3>1. PICK g : g = [e \in D |-> IF \E r \in new : r.day = e
                                      THEN (CHOOSE r \in new : r.day = e).value ELSE cache[x][e]]
        OBVIOUS
      <3>2. cache'[x] = g
        BY <2>1, <2>2, <3>1 DEF Put
      <3>3. g = [e \in D |-> g[e]]
        BY <3>1
      <3>4. QED
        BY <3>2, <3>3
    <2>4. Days(x)' = D
      BY <2>3 DEF Days
    <2>5. CASE d \in Days(x)
      BY <2>5 DEF BoundInv
    <2>6. CASE d \notin Days(x)
      BY <2>1, <2>2, <2>4, <2>6
    <2>7. QED
      BY <2>5, <2>6
  <1>2. QED
    BY <1>1

\* The newest value of a series is of the last session.
LEMMA NewestIsToday ==
  ASSUME SourceInv, BoundInv, NEW x \in Series
  PROVE  Newest(x) = today
  <1>1. SourceOf(x) \in Sources /\ today \in Nat
    BY SourceType DEF SourceInv
  <1>2. QED
    BY <1>1 DEF BoundInv, Newest

\* What a session takes on is no more than it read.
LEMMA BoundFrame ==
  ASSUME JobInv, BoundInv, NEW w \in Writers, NEW new, sess' = [sess EXCEPT ![w] = new],
         UNCHANGED <<today, source>>,
         \A x \in Series : \A d \in Days(x)' : d <= today,
         new.job \in {"refresh", "backfill"} => \A r \in new.rows : r.series \in Series => r.day <= today
  PROVE  BoundInv'
  <1>1. \A x \in Sources : Len(source'[x]) = today' + 1
    BY DEF BoundInv
  <1>2. ASSUME NEW v \in Writers, sess'[v].job \in {"refresh", "backfill"}, NEW r \in sess'[v].rows, r.series \in Series
        PROVE  r.day <= today'
    <2>1. CASE v = w
      BY <1>2, <2>1 DEF JobInv
    <2>2. CASE v # w
      BY <1>2, <2>2 DEF JobInv, BoundInv
    <2>3. QED
      BY <2>1, <2>2
  <1>3. QED
    BY <1>1, <1>2 DEF BoundInv

\* Every step of the desk keeps that.
LEMMA StepBound ==
  ASSUME Inv, BoundInv, [Next]_<<vars, book, rules>>
  PROVE  BoundInv'
  <1>1. CacheInv /\ SourceInv /\ JobInv /\ today \in Nat
    BY DEF Inv, SourceInv
  <1>2. CASE UNCHANGED vars
    BY <1>2 DEF BoundInv, vars, Days
  <1>3. CASE Publish
    <2>1. PICK v \in [Sources -> Values] : source' = [x \in Sources |-> Append(source[x], v[x])]
      BY <1>3 DEF Publish
    <2>2. today' = today + 1 /\ UNCHANGED <<cache, sess>>
      BY <1>3 DEF Publish
    <2>3. ASSUME NEW x \in Sources PROVE Len(source'[x]) = today' + 1
      <3>1. source[x] \in Seq(Values) /\ v[x] \in Values /\ Len(source[x]) = today + 1
        BY <1>1 DEF SourceInv, BoundInv
      <3>2. Len(Append(source[x], v[x])) = Len(source[x]) + 1
        BY <3>1, AppendProperties
      <3>3. QED
        BY <2>1, <2>2, <3>1, <3>2
    <2>4. \A x \in Series : \A d \in Days(x)' : d <= today'
      <3>1. ASSUME NEW x \in Series, NEW d \in Days(x)' PROVE d <= today'
        <4>1. d \in Days(x)
          BY <2>2 DEF Days
        <4>2. d \in Nat /\ d <= today
          BY <1>1, <4>1 DEF BoundInv, CacheInv
        <4>3. QED
          BY <1>1, <2>2, <4>2
      <3>2. QED
        BY <3>1
    <2>5. ASSUME NEW w \in Writers, sess[w].job \in {"refresh", "backfill"}, NEW r \in sess[w].rows, r.series \in Series
          PROVE  r.day <= today + 1
      <3>1. r.day <= today
        BY <2>5 DEF BoundInv
      <3>2. r.day \in Int
        BY <1>1, <2>5 DEF JobInv, Entries, RefreshRows
      <3>3. QED
        BY <1>1, <3>1, <3>2
    <2>6. QED
      BY <2>2, <2>3, <2>4, <2>5 DEF BoundInv
  <1>4. CASE Correct
    <2>1. PICK x \in Sources : \E d \in 1..Len(source[x]) : \E v \in Published[x] \ {source[x][d]} :
                                 source' = [source EXCEPT ![x][d] = v]
      BY <1>4 DEF Correct
    <2>2. PICK d \in 1..Len(source[x]) : \E v \in Published[x] \ {source[x][d]} :
                                 source' = [source EXCEPT ![x][d] = v]
      BY <2>1
    <2>3. PICK v \in Published[x] : source' = [source EXCEPT ![x] = [@ EXCEPT ![d] = v]]
      BY <2>2
    <2>4. v \in Values /\ source[x] \in Seq(Values)
      BY <1>1 DEF SourceInv, Values
    <2>5. Len([source[x] EXCEPT ![d] = v]) = Len(source[x])
      BY <2>4, ExceptSeq
    <2>6. ASSUME NEW y \in Sources PROVE Len(source'[y]) = today + 1
      <3>1. CASE y = x
        BY <1>1, <2>3, <2>5, <3>1 DEF SourceInv, BoundInv
      <3>2. CASE y # x
        BY <1>1, <2>3, <3>2 DEF SourceInv, BoundInv
      <3>3. QED
        BY <3>1, <3>2
    <2>7. UNCHANGED <<today, cache, sess>>
      BY <1>4 DEF Correct
    <2>8. QED
      BY <2>6, <2>7 DEF BoundInv, Days
  <1>5. ASSUME NEW w \in Writers, RefreshRead(w) PROVE BoundInv'
    <2> DEFINE row(x) == [series |-> x, day |-> Newest(x), old |-> Stored(x, Newest(x)), new |-> Given(x, Newest(x))]
    <2>1. PICK S \in {{HeldListing(s) : s \in Symbols}, Foreign} :
            sess' = [sess EXCEPT ![w] = [job |-> "refresh", rows |-> {row(x) : x \in S}]]
      BY <1>5 DEF RefreshRead
    <2>2. PICK new : new = [job |-> "refresh", rows |-> {row(x) : x \in S}]
      OBVIOUS
    <2>3. UNCHANGED <<today, source, cache>>
      BY <1>5 DEF RefreshRead
    <2>4. ASSUME NEW r \in new.rows, r.series \in Series PROVE r.day <= today
      <3>1. PICK x \in S : r = row(x)
        BY <2>2
      <3>2. x \in Series /\ r.day = Newest(x)
        BY <2>4, <3>1
      <3>3. QED
        BY <1>1, <3>2, NewestIsToday
    <2>5. \A x \in Series : \A d \in Days(x)' : d <= today
      BY <2>3 DEF BoundInv, Days
    <2>6. sess' = [sess EXCEPT ![w] = new]
      BY <2>1, <2>2
    <2> HIDE DEF row
    <2>7. QED
      BY <1>1, <2>3, <2>4, <2>5, <2>6, BoundFrame
  <1>6. ASSUME NEW w \in Writers, BackfillRecord(w) PROVE BoundInv'
    <2> DEFINE old(r) == Entry(r.series, r.day, Stored(r.series, r.day))
    <2>1. PICK start \in 0..today :
            sess' = [sess EXCEPT ![w] = [job |-> "backfill", rows |-> Incoming(start),
                                         logged |-> {old(r) : r \in Differing(Incoming(start))}]]
      BY <1>6 DEF BackfillRecord
    <2>2. PICK new : new = [job |-> "backfill", rows |-> Incoming(start),
                            logged |-> {old(r) : r \in Differing(Incoming(start))}]
      OBVIOUS
    <2>3. UNCHANGED <<today, source, cache>>
      BY <1>6 DEF BackfillRecord
    <2>4. ASSUME NEW r \in Incoming(start), r.series \in Series PROVE r.day <= today
      <3>1. PICK s \in Symbols : \E d \in start..Newest(FirstListing(s)) :
              r = Entry(FirstListing(s), d, Given(FirstListing(s), d))
        BY DEF Incoming
      <3>2. PICK d \in start..Newest(FirstListing(s)) :
              r = Entry(FirstListing(s), d, Given(FirstListing(s), d))
        BY <3>1
      <3>3. r.series = FirstListing(s) /\ r.day = d
        BY <3>2 DEF Entry
      <3>4. Newest(FirstListing(s)) = today
        BY <1>1, <2>4, <3>3, NewestIsToday
      <3>5. QED
        BY <3>3, <3>4
    <2>5. \A x \in Series : \A d \in Days(x)' : d <= today
      BY <2>3 DEF BoundInv, Days
    <2>6. sess' = [sess EXCEPT ![w] = new] /\ new.rows = Incoming(start)
      BY <2>1, <2>2
    <2>7. QED
      BY <1>1, <2>3, <2>4, <2>5, <2>6, BoundFrame
  <1>7. ASSUME NEW w \in Writers, RefreshCommit(w) \/ BackfillUpsert(w) PROVE BoundInv'
    <2>1. /\ sess' = [sess EXCEPT ![w] = Idle] /\ UNCHANGED <<today, source>>
          /\ sess[w].job \in {"refresh", "backfill"}
      BY <1>7 DEF RefreshCommit, BackfillUpsert
    <2>2. \A r \in sess[w].rows : r.series \in Series => r.day <= today
      BY <2>1 DEF BoundInv
    <2>3. \A x \in Series : \A d \in Days(x)' : d <= today
      <3>1. CASE UNCHANGED cache
        BY <3>1 DEF BoundInv, Days
      <3>2. CASE BackfillUpsert(w)
        <4>1. cache' = Put(sess[w].rows)
          BY <3>2 DEF BackfillUpsert
        <4>2. QED
          BY <2>1, <2>2, <4>1, PutBound
      <3>3. CASE RefreshCommit(w) /\ ~UNCHANGED cache
        <4>1. PICK en : en = {Entry(r.series, r.day, Written(r)) : r \in sess[w].rows}
          OBVIOUS
        <4>2. cache' = Put(en)
          BY <3>3, <4>1 DEF RefreshCommit
        <4>3. \A e \in en : e.series \in Series => e.day <= today
          BY <2>2, <4>1 DEF Entry
        <4>4. QED
          BY <2>1, <4>2, <4>3, PutBound
      <3>4. QED
        BY <1>7, <3>1, <3>2, <3>3
    <2>4. Idle.job = "idle"
      BY DEF Idle
    <2>5. QED
      BY <1>1, <2>1, <2>3, <2>4, BoundFrame
  <1>8. ASSUME NEW w \in Writers, BackfillRates(w) PROVE BoundInv'
    <2> DEFINE missing == UNION {{Entry(c, d, Given(c, d)) : d \in {e \in 0..Newest(c) : e \notin Days(c)}} : c \in Foreign}
    <2>1. cache' = Put(missing) /\ UNCHANGED <<today, source, sess>>
      BY <1>8 DEF BackfillRates
    <2>2. ASSUME NEW e \in missing, e.series \in Series PROVE e.day <= today
      <3>1. PICK c \in Foreign : e \in {Entry(c, d, Given(c, d)) : d \in {x \in 0..Newest(c) : x \notin Days(c)}}
        OBVIOUS
      <3>2. PICK d \in 0..Newest(c) : e = Entry(c, d, Given(c, d))
        BY <3>1
      <3>3. c \in Series /\ e.day = d
        BY <3>2 DEF Series, Entry
      <3>4. QED
        BY <1>1, <3>2, <3>3, NewestIsToday
    <2> HIDE DEF missing
    <2>3. \A x \in Series : \A d \in Days(x)' : d <= today'
      BY <2>1, <2>2, PutBound
    <2>4. QED
      BY <2>1, <2>3 DEF BoundInv
  <1>9. QED
    BY <1>2, <1>3, <1>4, <1>5, <1>6, <1>7, <1>8 DEF Next, MarketNext, JobStep

\* The newest value of a series is published; only an empty series has none.
LEMMA LatestType ==
  ASSUME Inv, BoundInv, NEW x \in Series
  PROVE  Latest(x) = None \/ Latest(x) \in Values
  <1>1. CASE Days(x) = {}
    BY <1>1 DEF Latest
  <1>2. CASE Days(x) # {}
    <2>1. PICK D : D = Days(x)
      OBVIOUS
    <2>2. D \in SUBSET Nat /\ today \in Nat /\ \A d \in D : d <= today
      BY <2>1 DEF Inv, CacheInv, SourceInv, BoundInv
    <2>3. Max(D) \in D
      BY <1>2, <2>1, <2>2, MaxOfDays
    <2>4. QED
      BY <1>2, <2>1, <2>3 DEF Latest, Inv, CacheInv
  <1>3. QED
    BY <1>1, <1>2
----------------------------------------------------------------------------
\* Some set of subsets that is not empty has a smallest element.
LEMMA SmallestSubset ==
  ASSUME NEW S, IsFiniteSet(S), NEW W, W \subseteq SUBSET S, W # {}
  PROVE  \E T \in W : \A U \in W : U \subseteq T => U = T
  <1>1. IsWellFoundedOn(StrictSubsetOrdering(S), SUBSET S)
    BY FS_StrictSubsetOrderingWellFounded, FS_FiniteSubsetsOfFinite
  <1>2. PICK T \in W : \A U \in W : <<U, T>> \notin StrictSubsetOrdering(S)
    BY <1>1, WFMin
  <1>3. ASSUME NEW U \in W, U \subseteq T, U # T PROVE FALSE
    BY <1>2, <1>3 DEF StrictSubsetOrdering
  <1>4. QED
    BY <1>2, <1>3

\* A number is a column of so many pairs, and a sum the pairs of all its columns.
Column(f, x) == {x} \X (1..f[x])
Stack(f, S) == UNION {Column(f, x) : x \in S}

\* One column more is its number more.
LEMMA StackGrows ==
  ASSUME NEW f, NEW S, IsFiniteSet(S), \A x \in S : f[x] \in Nat
  PROVE  /\ IsFiniteSet(Stack(f, S)) /\ Cardinality(Stack(f, S)) \in Nat
         /\ S = {} => Cardinality(Stack(f, S)) = 0
         /\ \A x \in S : Cardinality(Stack(f, S)) = f[x] + Cardinality(Stack(f, S \ {x}))
  <1>1. ASSUME NEW x \in S PROVE IsFiniteSet(Column(f, x)) /\ Cardinality(Column(f, x)) = f[x]
    <2>1. f[x] \in Nat
      OBVIOUS
    <2>7. PICK n : n = f[x]
      OBVIOUS
    <2>8. n \in Int /\ 1 \in Int /\ (IF 1 > n THEN 0 ELSE n - 1 + 1) = n
      BY <2>1, <2>7
    <2>9. IsFiniteSet(1..n) /\ Cardinality(1..n) = n
      BY <2>8, FS_Interval
    <2>2. IsFiniteSet(1..f[x]) /\ Cardinality(1..f[x]) = f[x]
      BY <2>7, <2>9
    <2>3. IsFiniteSet({x}) /\ Cardinality({x}) = 1
      BY FS_Singleton
    <2>4. PICK A, B : A = {x} /\ B = 1..f[x]
      OBVIOUS
    <2>5. IsFiniteSet(A \X B) /\ Cardinality(A \X B) = 1 * f[x]
      BY <2>2, <2>3, <2>4, FS_Product
    <2>6. QED
      BY <2>1, <2>4, <2>5 DEF Column
  <1>2. ASSUME NEW T \in SUBSET S PROVE IsFiniteSet(Stack(f, T))
    <2>1. PICK F : F = [x \in T |-> Column(f, x)]
      OBVIOUS
    <2>2. PICK R : R = {Column(f, x) : x \in T}
      OBVIOUS
    <2>3. F \in Surjection(T, R)
      BY <2>1, <2>2 DEF Surjection
    <2>4. IsFiniteSet(T)
      BY FS_Subset
    <2>5. IsFiniteSet(R)
      BY <2>3, <2>4, FS_Surjection
    <2>6. \A C \in R : IsFiniteSet(C)
      BY <1>1, <2>2
    <2>7. QED
      BY <2>2, <2>5, <2>6, FS_UNION DEF Stack
  <1>3. ASSUME NEW x \in S
        PROVE  Cardinality(Stack(f, S)) = f[x] + Cardinality(Stack(f, S \ {x}))
    <2>1. PICK A, B : A = Column(f, x) /\ B = Stack(f, S \ {x})
      OBVIOUS
    <2>2. Stack(f, S) = A \cup B
      BY <2>1 DEF Stack
    <2>3. A \cap B = {}
      BY <2>1 DEF Stack, Column
    <2>4. IsFiniteSet(A) /\ IsFiniteSet(B) /\ Cardinality(A) = f[x]
      BY <1>1, <1>2, <2>1
    <2>5. Cardinality(A \cap B) = 0
      BY <2>3, FS_EmptySet
    <2>6. Cardinality(B) \in Nat /\ f[x] \in Nat
      BY <2>4, FS_CardinalityType
    <2>7. Cardinality(A \cup B) = Cardinality(A) + Cardinality(B) - Cardinality(A \cap B)
      BY <2>4, FS_Union
    <2>8. Cardinality(A \cup B) = f[x] + Cardinality(B)
      BY <2>4, <2>5, <2>6, <2>7
    <2>9. QED
      BY <2>1, <2>2, <2>8
  <1>4. Cardinality(Stack(f, S)) \in Nat
    BY <1>2, FS_CardinalityType
  <1>5. S = {} => Stack(f, S) = {}
    BY DEF Stack
  <1>6. QED
    BY <1>2, <1>3, <1>4, <1>5, FS_EmptySet

\* The library's sum is that of the stack: the smallest set on which its fold were not
\* would have an element to take away.
LEMMA SumIsStack ==
  ASSUME NEW f, NEW S, IsFiniteSet(S), \A x \in S : f[x] \in Nat
  PROVE  SumFunctionOnSet(f, S) = Cardinality(Stack(f, S))
  <1> DEFINE Folds(g) == g = [s \in SUBSET S |->
               IF s = {} THEN 0
               ELSE LET x == CHOOSE x \in s : TRUE IN f[x] + g[s \ {x}]]
             it == CHOOSE g : Folds(g)
             count == [s \in SUBSET S |-> Cardinality(Stack(f, s))]
  <1>1. SumFunctionOnSet(f, S) = it[S]
    BY Zenon DEF SumFunctionOnSet, FoldFunctionOnSet, MapThenFoldSet
  <1>2. ASSUME NEW s \in SUBSET S
        PROVE  /\ s = {} => Cardinality(Stack(f, s)) = 0
               /\ \A x \in s : Cardinality(Stack(f, s)) = f[x] + Cardinality(Stack(f, s \ {x}))
    <2>1. IsFiniteSet(s)
      BY FS_Subset
    <2>2. QED
      BY <2>1, StackGrows
  <1>3. Folds(count)
    <2>1. ASSUME NEW s \in SUBSET S
          PROVE  count[s] = IF s = {} THEN 0
                            ELSE LET x == CHOOSE x \in s : TRUE IN f[x] + count[s \ {x}]
      <3>1. CASE s = {}
        BY <1>2, <3>1
      <3>2. CASE s # {}
        <4>1. PICK x : x = CHOOSE y \in s : TRUE
          OBVIOUS
        <4>2. x \in s /\ s \ {x} \in SUBSET S
          BY <3>2, <4>1
        <4>3. count[s] = f[x] + count[s \ {x}]
          BY <1>2, <4>2
        <4>4. QED
          BY <3>2, <4>1, <4>3
      <3>3. QED
        BY <3>1, <3>2
    <2> HIDE DEF count
    <2>2. count = [s \in SUBSET S |-> count[s]]
      BY DEF count
    <2>3. QED
      BY <2>1, <2>2
  <1>4. Folds(it)
    <2> HIDE DEF Folds, count
    <2> QED
      BY <1>3
  <1> HIDE DEF it
  <1> DEFINE Wrong == {T \in SUBSET S : it[T] # Cardinality(Stack(f, T))}
  <1>5. ASSUME Wrong # {} PROVE FALSE
    <2>1. PICK T \in Wrong : \A U \in Wrong : U \subseteq T => U = T
      <3> HIDE DEF it, Folds
      <3>1. Wrong \subseteq SUBSET S
        OBVIOUS
      <3> HIDE DEF Wrong
      <3>2. QED
        BY <1>5, <3>1, SmallestSubset
    <2>2. T # {}
      BY <1>2, <1>4
    <2>3. PICK x : x = CHOOSE y \in T : TRUE
      OBVIOUS
    <2>4. x \in T /\ T \in SUBSET S /\ T \ {x} \in SUBSET S /\ T \ {x} # T
      BY <2>2, <2>3
    <2>5. it[T] = f[x] + it[T \ {x}]
      BY <1>4, <2>2, <2>3, <2>4
    <2>6. it[T \ {x}] = Cardinality(Stack(f, T \ {x}))
      BY <2>1, <2>4
    <2>7. QED
      BY <1>2, <2>4, <2>5, <2>6
  <1>6. S \in SUBSET S
    OBVIOUS
  <1>7. QED
    BY <1>1, <1>5, <1>6

\* So a sum is a number, 0 over nothing, and can be taken term by term in any order.
LEMMA SumSplit ==
  ASSUME NEW f, NEW S, IsFiniteSet(S), \A x \in S : f[x] \in Nat
  PROVE  /\ SumFunctionOnSet(f, S) \in Nat
         /\ S = {} => SumFunctionOnSet(f, S) = 0
         /\ \A x \in S : /\ SumFunctionOnSet(f, S \ {x}) \in Nat
                         /\ SumFunctionOnSet(f, S) = f[x] + SumFunctionOnSet(f, S \ {x})
  <1>1. SumFunctionOnSet(f, S) = Cardinality(Stack(f, S))
    BY SumIsStack
  <1>2. ASSUME NEW x \in S
        PROVE  /\ SumFunctionOnSet(f, S \ {x}) = Cardinality(Stack(f, S \ {x}))
               /\ Cardinality(Stack(f, S \ {x})) \in Nat
    <2>1. PICK T : T = S \ {x}
      OBVIOUS
    <2>2. IsFiniteSet(T) /\ \A y \in T : f[y] \in Nat
      BY <2>1, FS_Subset
    <2>3. SumFunctionOnSet(f, T) = Cardinality(Stack(f, T)) /\ Cardinality(Stack(f, T)) \in Nat
      BY <2>2, SumIsStack, StackGrows
    <2>4. QED
      BY <2>1, <2>3
  <1>3. QED
    BY <1>1, <1>2, StackGrows

\* Induction over the subsets of a finite set: P are those of which a claim holds.
LEMMA SubsetInduction ==
  ASSUME NEW S, IsFiniteSet(S), NEW P, {} \in P,
         \A T \in SUBSET S : \A x \in T : T \ {x} \in P => T \in P
  PROVE  S \in P
  <1> DEFINE Wrong == {T \in SUBSET S : T \notin P}
  <1>1. ASSUME Wrong # {} PROVE FALSE
    <2>1. PICK T \in Wrong : \A U \in Wrong : U \subseteq T => U = T
      <3>1. Wrong \subseteq SUBSET S
        OBVIOUS
      <3> HIDE DEF Wrong
      <3>2. QED
        BY <1>1, <3>1, SmallestSubset
    <2>2. PICK x : x \in T
      <3>1. T # {}
        BY <2>1
      <3>2. QED
        BY <3>1
    <2>3. T \ {x} \in SUBSET S /\ T \ {x} # T /\ T \ {x} \subseteq T
      BY <2>2
    <2>4. T \ {x} \in P
      BY <2>1, <2>3
    <2>5. QED
      BY <2>2, <2>4
  <1>2. QED
    BY <1>1

\* Sums of the same terms are the same.
LEMMA SumSame ==
  ASSUME NEW f, NEW g, NEW S, IsFiniteSet(S), \A x \in S : f[x] \in Nat /\ g[x] = f[x]
  PROVE  SumFunctionOnSet(f, S) = SumFunctionOnSet(g, S)
  <1> DEFINE P == {T \in SUBSET S : SumFunctionOnSet(f, T) = SumFunctionOnSet(g, T)}
  <1>1. ASSUME NEW T \in SUBSET S
        PROVE  /\ IsFiniteSet(T) /\ (\A x \in T : f[x] \in Nat) /\ (\A x \in T : g[x] \in Nat)
    BY FS_Subset
  <1>2. {} \in P
    BY <1>1, SumSplit
  <1>3. ASSUME NEW T \in SUBSET S, NEW x \in T, T \ {x} \in P PROVE T \in P
    <2>1. SumFunctionOnSet(f, T) = f[x] + SumFunctionOnSet(f, T \ {x})
      BY <1>1, SumSplit
    <2>2. SumFunctionOnSet(g, T) = g[x] + SumFunctionOnSet(g, T \ {x})
      BY <1>1, SumSplit
    <2>3. QED
      BY <1>3, <2>1, <2>2
  <1> HIDE DEF P
  <1>4. S \in P
    BY <1>2, <1>3, SubsetInduction
  <1>5. QED
    BY <1>4 DEF P
----------------------------------------------------------------------------
\* Shares and costs are counted; what is not held has cost nothing.
BookInv ==
  /\ shares \in [Symbols -> Nat] /\ cost \in [Symbols -> Nat]
  /\ \A s \in Symbols : shares[s] = 0 => cost[s] = 0

\* The listing a symbol is held under is cached under its own currency, whose rate is 1 in
\* the base currency and else the newest of its pair.
LEMMA HeldType ==
  ASSUME Inv, BoundInv, NEW s \in Symbols
  PROVE  /\ HeldListing(s) \in Series
         /\ Latest(HeldListing(s)) # None => Latest(HeldListing(s)) \in Nat
         /\ RateToBase(HeldUnder[s]) # None => RateToBase(HeldUnder[s]) \in Nat
         /\ HeldUnder[s] = Base => RateToBase(HeldUnder[s]) = 1
  <1>1. HeldListing(s) \in ToSet(Listings) /\ HeldListing(s).currency = HeldUnder[s]
    BY DEF HeldListing
  <1>2. HeldListing(s) \in Series
    BY <1>1 DEF Series
  <1>3. \A v \in Values : v \in Nat
    BY DEF Values
  <1>4. Latest(HeldListing(s)) # None => Latest(HeldListing(s)) \in Nat
    BY <1>2, <1>3, LatestType
  <1>5. HeldUnder[s] # Base => Pair(HeldUnder[s]) \in Series
    <2>1. HeldUnder[s] # Base => Pair(HeldListing(s).currency) \in Foreign
      BY <1>1 DEF Foreign
    <2>2. QED
      BY <1>1, <2>1 DEF Series
  <1>6. RateToBase(HeldUnder[s]) # None => RateToBase(HeldUnder[s]) \in Nat
    BY <1>3, <1>5, LatestType DEF RateToBase
  <1>7. HeldUnder[s] = Base => RateToBase(HeldUnder[s]) = 1
    BY DEF RateToBase
  <1>8. QED
    BY <1>2, <1>4, <1>6, <1>7

\* A purchase is of a share that has a price.
LEMMA StepBook ==
  ASSUME Inv, BoundInv, BookInv, [Next]_<<vars, book, rules>>
  PROVE  BookInv'
  <1>1. CASE UNCHANGED <<shares, cost>>
    BY <1>1 DEF BookInv
  <1>2. ASSUME NEW s \in Symbols, Buy(s) PROVE BookInv'
    <2>1. PICK p : p = Latest(HeldListing(s))
      OBVIOUS
    <2>2. p \in Nat
      BY <1>2, <2>1, HeldType DEF Buy
    <2>3. shares' = [shares EXCEPT ![s] = @ + 1] /\ cost' = [cost EXCEPT ![s] = @ + p]
      BY <1>2, <2>1 DEF Buy
    <2>4. shares' \in [Symbols -> Nat] /\ cost' \in [Symbols -> Nat]
      BY <2>2, <2>3 DEF BookInv
    <2>5. \A t \in Symbols : shares'[t] = 0 => cost'[t] = 0
      BY <2>2, <2>3 DEF BookInv
    <2>6. QED
      BY <2>4, <2>5 DEF BookInv
  <1>3. QED
    BY <1>1, <1>2 DEF Next, DeskNext, PutTargets, book

\* A value is a number, or there is none for want of a close or a rate.
LEMMA ValueType ==
  ASSUME Inv, BoundInv, NEW s \in Symbols, NEW n \in Nat
  PROVE  /\ ValueOf(s, n) = None \/ ValueOf(s, n) \in Nat
         /\ Latest(HeldListing(s)) # None /\ HeldUnder[s] = Base =>
              ValueOf(s, n) = n * Latest(HeldListing(s))
  <1>1. PICK p, r : p = Latest(HeldListing(s)) /\ r = RateToBase(HeldUnder[s])
    OBVIOUS
  <1>2. (p # None => p \in Nat) /\ (r # None => r \in Nat) /\ (HeldUnder[s] = Base => r = 1)
    BY <1>1, HeldType
  <1>3. ValueOf(s, n) = IF p = None \/ r = None THEN None ELSE n * p * r
    BY <1>1 DEF ValueOf
  <1>4. p \in Nat /\ r \in Nat => n * p \in Nat /\ n * p * r \in Nat
    OBVIOUS
  <1>5. p \in Nat => n * p * 1 = n * p
    OBVIOUS
  <1>6. ASSUME p # None, HeldUnder[s] = Base PROVE ValueOf(s, n) = n * p
    <2>1. r # None
      BY <1>2, <1>6, DeskAssumption DEF DeskAssumption
    <2>2. QED
      BY <1>2, <1>3, <1>5, <1>6, <2>1
  <1>7. QED
    BY <1>1, <1>2, <1>3, <1>4, <1>6

\* A cost is a number.
LEMMA CostType ==
  ASSUME Inv, BoundInv, NEW s \in Symbols, NEW c \in Nat
  PROVE  CostOf(s, c) \in Nat
  <1>1. PICK r : r = RateToBase(HeldUnder[s])
    OBVIOUS
  <1>2. r # None => r \in Nat
    BY <1>1, HeldType
  <1>3. r \in Nat => c * r \in Nat
    OBVIOUS
  <1>4. QED
    BY <1>1, <1>2, <1>3 DEF CostOf

\* The price a what-if takes for a base-currency security is the close it is valued at.
LEMMA WhatIfPriced ==
  ASSUME Inv, BoundInv, NEW s \in Symbols, InBase[s], WhatIfPrice(s) # None
  PROVE  /\ HeldUnder[s] = Base
         /\ WhatIfPrice(s) = Latest(HeldListing(s)) /\ WhatIfPrice(s) \in Nat
  <1>1. HeldUnder[s] = Base
    BY DEF InBase
  <1>2. HeldListing(s) = [symbol |-> s, currency |-> Base] /\ HeldListing(s) \in Series
    BY <1>1, HeldType DEF HeldListing
  <1>3. TargetPrices[s] = Latest(HeldListing(s))
    BY <1>2 DEF TargetPrices
  <1>4. WhatIfPrice(s) = Latest(HeldListing(s))
    BY <1>3 DEF WhatIfPrice
  <1>5. QED
    BY <1>1, <1>4, HeldType

\* A sum over one element more, or with one changed.
LEMMA SumPlusOne ==
  ASSUME NEW S, IsFiniteSet(S), NEW s, NEW n \in Nat,
         NEW f, \A x \in S : f[x] \in Nat,
         NEW g, g[s] = (IF s \in S THEN f[s] ELSE 0) + n, \A x \in S : x # s => g[x] = f[x]
  PROVE  SumOver(S \cup {s}, g) = SumOver(S, f) + n
  <1>1. PICK R : R = S \ {s}
    OBVIOUS
  <1>2. PICK T : T = S \cup {s}
    OBVIOUS
  <1>3. IsFiniteSet(R) /\ IsFiniteSet(T)
    BY <1>1, <1>2, FS_Subset, FS_AddElement
  <1>4. R = T \ {s} /\ s \in T
    BY <1>1, <1>2
  <1>5. \A x \in R : f[x] \in Nat /\ g[x] = f[x]
    BY <1>1
  <1>6. \A x \in T : g[x] \in Nat
    BY <1>2
  <1>7. SumFunctionOnSet(f, R) = SumFunctionOnSet(g, R)
    BY <1>3, <1>5, SumSame
  <1>8. /\ SumFunctionOnSet(g, T \ {s}) \in Nat
        /\ SumFunctionOnSet(g, T) = g[s] + SumFunctionOnSet(g, T \ {s})
    BY <1>3, <1>4, <1>6, SumSplit
  <1>9. PICK a : a = SumFunctionOnSet(f, R)
    OBVIOUS
  <1>10. a \in Nat /\ SumFunctionOnSet(g, T) = g[s] + a
    BY <1>4, <1>7, <1>8, <1>9
  <1>11. SumFunctionOnSet(f, S) = (IF s \in S THEN f[s] ELSE 0) + a
    <2>1. CASE s \in S
      BY <1>1, <1>9, <2>1, SumSplit
    <2>2. CASE s \notin S
      <3>1. R = S
        BY <1>1, <2>2
      <3>2. QED
        BY <1>9, <1>10, <2>2, <3>1
    <2>3. QED
      BY <2>1, <2>2
  <1>12. (IF s \in S THEN f[s] ELSE 0) \in Nat
    OBVIOUS
  <1>13. SumFunctionOnSet(g, T) = SumFunctionOnSet(f, S) + n
    BY <1>10, <1>11, <1>12
  <1>14. QED
    BY <1>2, <1>13 DEF SumOver

\* A book with u more of s in value and cost, and all else as it was.
Bigger(B, C, s, u) ==
  /\ DOMAIN C = DOMAIN B \cup {s} /\ DOMAIN B \subseteq Symbols
  /\ \A t \in DOMAIN B :
       /\ B[t].value = None \/ B[t].value \in Nat
       /\ B[t].cost \in Nat
       /\ t # s => C[t].value = B[t].value /\ C[t].cost = B[t].cost
       /\ t = s => B[t].value # None
  /\ C[s].value = (IF s \in DOMAIN B THEN B[s].value ELSE 0) + u
  /\ C[s].cost = (IF s \in DOMAIN B THEN B[s].cost ELSE 0) + u
  /\ C[s].value \in Nat

\* What is bought stands in the book beside what was there.
LEMMA Purchase ==
  ASSUME Inv, BoundInv, BookInv, NEW s \in Symbols, NEW n \in Nat \ {0},
         InBase[s], WhatIfPrice(s) # None
  PROVE  WhatIfPrice(s) \in Nat /\ Bigger(Book, Purchased(s, n), s, n * WhatIfPrice(s))
  <1>0. PICK p, B, C : p = WhatIfPrice(s) /\ B = Book /\ C = Purchased(s, n)
    OBVIOUS
  <1>1. HeldUnder[s] = Base /\ p = Latest(HeldListing(s)) /\ p \in Nat /\ p # None
    BY <1>0, WhatIfPriced
  <1>2. PICK N, K : N = [shares EXCEPT ![s] = @ + n] /\ K = [cost EXCEPT ![s] = @ + n * p]
    OBVIOUS
  <1>3. C = Holdings(N, K) /\ B = Holdings(shares, cost)
    BY <1>0, <1>2 DEF Purchased, Book
  <1>4. n * p \in Nat /\ n > 0
    BY <1>1
  <1>5. /\ shares \in [Symbols -> Nat] /\ cost \in [Symbols -> Nat] /\ (shares[s] = 0 => cost[s] = 0)
    BY DEF BookInv
  <1>6. /\ N \in [Symbols -> Nat] /\ K \in [Symbols -> Nat]
        /\ N[s] = shares[s] + n /\ K[s] = cost[s] + n * p
        /\ \A t \in Symbols : t # s => N[t] = shares[t] /\ K[t] = cost[t]
    BY <1>2, <1>4, <1>5
  <1>7. DOMAIN B = {t \in Symbols : shares[t] > 0} /\ DOMAIN C = {t \in Symbols : N[t] > 0}
    BY <1>3 DEF Holdings
  <1>8. DOMAIN C = DOMAIN B \cup {s}
    BY <1>4, <1>5, <1>6, <1>7
  <1>9. ASSUME NEW t \in DOMAIN B
        PROVE  /\ B[t].value = ValueOf(t, shares[t]) /\ B[t].cost = CostOf(t, cost[t])
               /\ B[t].value = None \/ B[t].value \in Nat
               /\ B[t].cost \in Nat
               /\ t # s => C[t].value = B[t].value /\ C[t].cost = B[t].cost
    <2>1. t \in Symbols /\ shares[t] > 0 /\ shares[t] \in Nat
      BY <1>5, <1>7
    <2>2. B[t].value = ValueOf(t, shares[t]) /\ B[t].cost = CostOf(t, cost[t])
      BY <1>3, <2>1 DEF Holdings
    <2>3. B[t].value = None \/ B[t].value \in Nat
      BY <2>1, <2>2, ValueType
    <2>6. B[t].cost \in Nat
      BY <1>5, <2>1, <2>2, CostType DEF BookInv
    <2>4. ASSUME t # s PROVE C[t].value = B[t].value /\ C[t].cost = B[t].cost
      <3>1. N[t] = shares[t] /\ K[t] = cost[t] /\ N[t] > 0
        BY <1>6, <2>1, <2>4
      <3>2. C[t].value = ValueOf(t, N[t]) /\ C[t].cost = CostOf(t, K[t])
        BY <1>3, <2>1, <3>1 DEF Holdings
      <3>3. QED
        BY <2>2, <3>1, <3>2
    <2>5. QED
      BY <2>2, <2>3, <2>4, <2>6
  <1>10. /\ C[s].value = ValueOf(s, N[s]) /\ C[s].cost = CostOf(s, K[s])
    <2>1. N[s] > 0
      BY <1>5, <1>6
    <2>2. QED
      BY <1>3, <2>1 DEF Holdings
  <1>11. \A m \in Nat : ValueOf(s, m) = m * p
    BY <1>1, ValueType
  <1>12. \A m \in Nat : CostOf(s, m) = m
    <2>1. RateToBase(HeldUnder[s]) = 1 /\ 1 # None
      BY <1>1, HeldType, DeskAssumption DEF DeskAssumption
    <2>2. QED
      BY <2>1 DEF CostOf
  <1>13. shares[s] \in Nat /\ cost[s] \in Nat /\ N[s] \in Nat /\ K[s] \in Nat
    BY <1>5, <1>6
  <1>14. C[s].value = N[s] * p /\ C[s].cost = K[s]
    BY <1>10, <1>11, <1>12, <1>13
  <1>15. N[s] * p = shares[s] * p + n * p
    BY <1>1, <1>6, <1>13
  <1>16. shares[s] * p \in Nat
    BY <1>1, <1>13
  <1>17. ASSUME s \in DOMAIN B PROVE B[s].value = shares[s] * p /\ B[s].cost = cost[s]
    BY <1>9, <1>11, <1>12, <1>13, <1>17
  <1>18. ASSUME s \notin DOMAIN B PROVE shares[s] * p = 0 /\ cost[s] = 0
    <2>1. shares[s] = 0 /\ cost[s] = 0
      BY <1>5, <1>7, <1>13, <1>18
    <2>2. QED
      BY <1>1, <2>1
  <1>19. PICK u, a : u = n * p /\ a = shares[s] * p
    OBVIOUS
  <1>20. u \in Nat /\ a \in Nat /\ C[s].value = a + u /\ C[s].cost = cost[s] + u
    BY <1>4, <1>6, <1>14, <1>15, <1>16, <1>19
  <1>21. s \in DOMAIN B => B[s].value # None
    BY <1>16, <1>17, DeskAssumption DEF DeskAssumption
  <1>22. /\ C[s].value = (IF s \in DOMAIN B THEN B[s].value ELSE 0) + u
         /\ C[s].cost = (IF s \in DOMAIN B THEN B[s].cost ELSE 0) + u
    BY <1>17, <1>18, <1>19, <1>20
  <1>23. C[s].value \in Nat
    BY <1>20
  <1>24. DOMAIN B \subseteq Symbols
    BY <1>7
  <1>25. Bigger(B, C, s, u)
    BY <1>8, <1>9, <1>21, <1>22, <1>23, <1>24 DEF Bigger
  <1>26. QED
    BY <1>0, <1>1, <1>19, <1>25

\* The preview of a purchase is the picture of the book that has it.
LEMMA PreviewIsPicture ==
  ASSUME Inv, BoundInv, BookInv, NEW s \in Symbols, NEW n \in Nat \ {0},
         InBase[s], WhatIfPrice(s) # None
  PROVE  WhatIf(Book, s, n, WhatIfPrice(s)).after = Picture(Purchased(s, n))
  <1>1. PICK p, B, C : p = WhatIfPrice(s) /\ B = Book /\ C = Purchased(s, n)
    OBVIOUS
  <1>2. p \in Nat /\ Bigger(B, C, s, n * p)
    BY <1>1, Purchase
  <1>3. PICK u : u = n * p
    OBVIOUS
  <1>4. u \in Nat /\ Bigger(B, C, s, u)
    BY <1>2, <1>3
  <1>5. PICK V : V = Valued(B)
    OBVIOUS
  <1>6. /\ V \subseteq DOMAIN B /\ Valued(C) = V \cup {s}
        /\ \A t \in V : B[t].value \in Nat /\ (t # s => C[t].value = B[t].value)
        /\ s \in V <=> s \in DOMAIN B
    BY <1>4, <1>5, DeskAssumption DEF Bigger, Valued, DeskAssumption
  <1>7. PICK before, values : /\ before = [t \in V |-> B[t].value]
                              /\ values = [t \in V \cup {s} |-> C[t].value]
    OBVIOUS
  <1>8. IsFiniteSet(V)
    BY <1>4, <1>6, FS_Subset, DeskAssumption DEF Bigger, DeskAssumption
  <1>9. /\ \A x \in V : before[x] \in Nat
        /\ values[s] = (IF s \in V THEN before[s] ELSE 0) + u
        /\ \A x \in V : x # s => values[x] = before[x]
    BY <1>4, <1>6, <1>7 DEF Bigger
  <1>10. SumOver(V \cup {s}, values) = SumOver(V, before) + u
    BY <1>4, <1>8, <1>9, SumPlusOne
  <1>11. PortfolioValue(C) = PortfolioValue(B) + u
    BY <1>5, <1>6, <1>7, <1>10 DEF PortfolioValue
  <1>12. Plus(before, s, u) = values
    <2>1. DOMAIN before = V
      BY <1>7
    <2>2. ASSUME NEW t \in V \cup {s}
          PROVE  values[t] = (IF t \in V THEN before[t] ELSE 0) + (IF t = s THEN u ELSE 0)
      <3>1. CASE t = s
        BY <1>9, <3>1
      <3>2. CASE t # s
        BY <1>9, <2>2, <3>2
      <3>3. QED
        BY <3>1, <3>2
    <2>3. values = [t \in V \cup {s} |-> values[t]]
      BY <1>7
    <2>4. QED
      BY <2>1, <2>2, <2>3 DEF Plus
  <1>13. Plus(Costs(B), s, u) = Costs(C)
    <2>1. PICK k, m : k = [t \in DOMAIN B |-> B[t].cost] /\ m = [t \in DOMAIN C |-> C[t].cost]
      OBVIOUS
    <2>2. ASSUME NEW t \in DOMAIN C
          PROVE  m[t] = (IF t \in DOMAIN B THEN k[t] ELSE 0) + (IF t = s THEN u ELSE 0)
      <3>1. CASE t = s
        BY <1>4, <2>1, <2>2, <3>1 DEF Bigger
      <3>2. CASE t # s
        BY <1>4, <2>1, <2>2, <3>2 DEF Bigger
      <3>3. QED
        BY <3>1, <3>2
    <2>3. m = [t \in DOMAIN C |-> m[t]] /\ DOMAIN k = DOMAIN B
      BY <2>1
    <2>4. Plus(k, s, u) = m
      BY <1>4, <2>2, <2>3 DEF Bigger, Plus
    <2>5. QED
      BY <2>1, <2>4 DEF Costs
  <1>14. WhatIf(B, s, n, p).after
           = Snapshot(Plus(before, s, u), PortfolioValue(B) + u, Dividends(Plus(before, s, u)), Plus(Costs(B), s, u))
    BY <1>3, <1>5, <1>7 DEF WhatIf
  <1>15. Picture(C) = Snapshot(values, PortfolioValue(C), Dividends(values), Costs(C))
    BY <1>6, <1>7 DEF Picture
  <1>16. WhatIf(B, s, n, p).after = Picture(C)
    BY <1>11, <1>12, <1>13, <1>14, <1>15
  <1>17. QED
    BY <1>1, <1>16

\* At first nothing is held, cached or under way.
LEMMA InitReads ==
  ASSUME Init
  PROVE  Inv /\ BoundInv /\ BookInv
  <1>1. Inv
    BY InitInv DEF Init
  <1>2. BoundInv
    <2>1. \A x \in Sources : source[x] = <<Opening[x]>>
      BY DEF Init, MarketInit
    <2>2. today = 0 /\ \A x \in Series : Days(x) = {}
      BY DEF Init, MarketInit, Days
    <2>3. \A w \in Writers : sess[w].job = "idle"
      BY DEF Init, MarketInit, Idle
    <2>4. ASSUME NEW x \in Sources PROVE Len(source[x]) = 1
      <3>1. PICK v : v = Opening[x]
        OBVIOUS
      <3>2. Len(<<v>>) = 1
        OBVIOUS
      <3>3. QED
        BY <2>1, <3>1, <3>2
    <2>5. QED
      BY <2>2, <2>3, <2>4 DEF BoundInv
  <1>3. BookInv
    BY DEF Init, BookInv
  <1>4. QED
    BY <1>1, <1>2, <1>3

\* whatif_purchase.build_whatif: the "after" of a preview is what the page says once the
\* purchase is made, whatever is held, cached, listed twice or without a price: the value of
\* the portfolio, every weight and sector, and the income over its cost.
THEOREM PreviewsAreTheBook == Spec => []WhatIfIsTheBook
  <1>1. Init => Inv /\ BoundInv /\ BookInv
    BY InitReads
  <1>2. Inv /\ BoundInv /\ BookInv /\ [Next]_<<vars, book, rules>> => (Inv /\ BoundInv /\ BookInv)'
    BY Step, StepBound, StepBook
  <1>3. Inv /\ BoundInv /\ BookInv => WhatIfIsTheBook
    BY PreviewIsPicture DEF WhatIfIsTheBook
  <1>4. QED
    BY <1>1, <1>2, <1>3, PTL DEF Spec

----------------------------------------------------------------------------
\* Induction along the numbers to n: P are those of which a claim holds.
LEMMA PrefixInduction ==
  ASSUME NEW n \in Nat, NEW P, 0 \in P, \A i \in 1..n : i - 1 \in P => i \in P
  PROVE  \A i \in 0..n : i \in P
  <1> DEFINE Bad == {i \in 0..n : i \notin P}
             Wrong == {0..i : i \in Bad}
  <1>1. ASSUME Bad # {} PROVE FALSE
    <2>1. IsFiniteSet(0..n)
      BY FS_Interval
    <2>2. Wrong \subseteq SUBSET (0..n) /\ Wrong # {}
      <3>1. ASSUME NEW i \in Bad PROVE 0..i \in SUBSET (0..n)
        OBVIOUS
      <3> HIDE DEF Bad
      <3>2. QED
        BY <1>1, <3>1
    <2>3. PICK T \in Wrong : \A U \in Wrong : U \subseteq T => U = T
      <3>1. PICK S, W : S = 0..n /\ W = Wrong
        OBVIOUS
      <3> HIDE DEF Wrong
      <3>2. IsFiniteSet(S) /\ W \subseteq SUBSET S /\ W # {}
        BY <2>1, <2>2, <3>1
      <3>3. \E T \in W : \A U \in W : U \subseteq T => U = T
        BY <3>2, SmallestSubset
      <3>4. QED
        BY <3>1, <3>3
    <2>4. PICK i \in Bad : T = 0..i
      OBVIOUS
    <2>5. i \in 1..n /\ i - 1 \in 0..n
      BY <2>4
    <2>6. ASSUME i - 1 \notin P PROVE FALSE
      <3>1. i - 1 \in Bad
        BY <2>5, <2>6
      <3>2. 0..(i - 1) \in Wrong
        BY <3>1
      <3>3. 0..(i - 1) \subseteq T /\ 0..(i - 1) # T
        BY <2>4, <2>5
      <3>4. QED
        BY <2>3, <3>2, <3>3
    <2>7. QED
      BY <2>4, <2>5, <2>6
  <1>2. QED
    BY <1>1

\* The numbers to n are finitely many.
LEMMA UpTo == \A n \in Nat : IsFiniteSet(1..n)
  <1>1. TAKE n \in Nat
  <1>2. n \in Int /\ 1 \in Int
    OBVIOUS
  <1>3. QED
    BY <1>2, FS_Interval

\* What a quotient is, and that it grows with what is divided.
LEMMA Quotient ==
  ASSUME NEW a \in Nat, NEW b \in Nat \ {0}
  PROVE  a \div b \in Nat /\ (a \div b) * b <= a /\ a < (a \div b) * b + b
  OBVIOUS

\* A larger dividend has no smaller quotient.
LEMMA QuotientGrows ==
  ASSUME NEW a \in Nat, NEW c \in Nat, c <= a, NEW b \in Nat \ {0}
  PROVE  c \div b <= a \div b
  <1>1. PICK q, r : q = a \div b /\ r = c \div b
    OBVIOUS
  <1>2. q \in Nat /\ r \in Nat /\ r * b <= c /\ a < q * b + b
    BY <1>1, Quotient
  <1>3. r * b < q * b + b
    BY <1>2
  <1>4. ASSUME r > q PROVE FALSE
    <2>1. PICK k \in Nat : r = q + 1 + k
      <3>1. r - q - 1 \in Nat
        BY <1>2, <1>4
      <3>2. r = q + 1 + (r - q - 1)
        BY <1>2
      <3>3. QED
        BY <3>1, <3>2
    <2>2. r * b = q * b + b + k * b
      BY <1>2, <2>1
    <2>3. k * b \in Nat /\ q * b \in Nat
      BY <1>2
    <2>4. QED
      BY <1>2, <1>3, <2>2, <2>3
  <1>5. QED
    BY <1>1, <1>2, <1>4


\* What may be bought is paid for and has room; none is a number too.
LEMMA SharesBound ==
  ASSUME NEW cash \in Nat, NEW room \in Int, NEW price \in Nat \ {0}, NEW line
  PROVE  LET n == Shares(cash, room, price, line) IN
         /\ n \in Nat /\ n * price \in Nat /\ n * price <= cash
         /\ n > 0 => Whole * (n * price) <= room
  <1>1. PICK n : n = Shares(cash, room, price, line)
    OBVIOUS
  <1>2. PICK w : w = Whole /\ w \in Nat \ {0}
    BY PlanAssumption DEF PlanAssumption
  <1>3. CASE n = 0
    BY <1>1, <1>3
  <1>4. CASE n # 0
    <2>1. PICK m, b : m = (IF w * cash <= room THEN w * cash ELSE room) /\ b = w * price
      OBVIOUS
    <2>2. n = m \div b /\ ~(room <= 0)
      BY <1>1, <1>2, <1>4, <2>1 DEF Shares, Least
    <2>3. w * cash \in Nat /\ w * price \in Nat \ {0}
      BY <1>2
    <2>4. m \in Nat /\ b \in Nat \ {0} /\ m <= w * cash /\ m <= room
      BY <2>1, <2>2, <2>3
    <2>5. n \in Nat /\ n * b <= m
      BY <2>2, <2>4, Quotient
    <2>6. n * price \in Nat /\ n * b = w * (n * price)
      BY <1>2, <2>1, <2>5
    <2>7. w * (n * price) <= w * cash /\ w * (n * price) <= room
      <3>1. w * (n * price) \in Nat
        BY <1>2, <2>6
      <3>2. QED
        BY <2>3, <2>4, <2>5, <2>6, <3>1
    <2>8. n * price <= cash
      BY <1>2, <2>6, <2>7
    <2>9. QED
      BY <1>1, <1>2, <2>5, <2>6, <2>7, <2>8
  <1>5. QED
    BY <1>3, <1>4

\* With what is left of the cash and the room after it, no more may be bought.
LEMMA SharesOnce ==
  ASSUME NEW cash \in Nat, NEW room \in Int, NEW price \in Nat \ {0}, NEW line \in Nat,
         NEW less \in Nat, NEW lower \in Int,
         less <= cash - Shares(cash, room, price, line) * price,
         lower <= room - Whole * (Shares(cash, room, price, line) * price)
  PROVE  Shares(less, lower, price, line) = 0
  <1>1. PICK n, k, w : n = Shares(cash, room, price, line) /\ k = Shares(less, lower, price, line) /\ w = Whole
    OBVIOUS
  <1>2. w \in Nat \ {0} /\ n \in Nat /\ n * price \in Nat
    BY <1>1, SharesBound, PlanAssumption DEF PlanAssumption
  <1>3. w * (n * price) \in Nat
    BY <1>2
  <1>4. less <= cash - n * price /\ lower <= room - w * (n * price)
    BY <1>1
  <1>5. less <= cash /\ lower <= room
    BY <1>2, <1>3, <1>4
  <1>6. ASSUME k # 0 PROVE FALSE
    <2>1. PICK m, l, b : /\ m = (IF w * cash <= room THEN w * cash ELSE room)
                         /\ l = (IF w * less <= lower THEN w * less ELSE lower)
                         /\ b = w * price
      OBVIOUS
    <2>2. k = l \div b /\ ~(lower <= 0) /\ ~(less < line) /\ ~(k * price < line)
      BY <1>1, <1>6, <2>1 DEF Shares, Least
    <2>3. ~(room <= 0) /\ ~(cash < line)
      BY <1>5, <2>2
    <2>4. n = IF (m \div b) * price < line THEN 0 ELSE m \div b
      BY <1>1, <2>1, <2>3 DEF Shares, Least
    <2>5. w * cash \in Nat /\ w * less \in Nat /\ b \in Nat \ {0}
      BY <1>2, <2>1
    <2>6. m \in Nat /\ l \in Nat
      BY <2>1, <2>2, <2>3, <2>5
    <2>7. w * less <= w * cash - w * (n * price)
      <3>1. PICK e \in Nat : cash = less + n * price + e
        <4>1. cash - less - n * price \in Nat
          BY <1>2, <1>4
        <4>2. cash = less + n * price + (cash - less - n * price)
          BY <1>2
        <4>3. QED
          BY <4>1, <4>2
      <3>2. w * cash = w * less + w * (n * price) + w * e
        BY <1>2, <3>1
      <3>3. w * e \in Nat
        BY <1>2
      <3>4. QED
        BY <1>3, <2>5, <3>2, <3>3
    <2>8. l <= m - w * (n * price)
      BY <1>3, <1>4, <2>1, <2>5, <2>7
    <2>9. n * b = w * (n * price)
      BY <1>2, <2>1
    <2>10. PICK q : q = m \div b
      OBVIOUS
    <2>11. q \in Nat /\ m < q * b + b
      BY <2>5, <2>6, <2>10, Quotient
    <2>12. k \in Nat /\ k * b <= l
      BY <2>2, <2>5, <2>6, Quotient
    <2>13. CASE n = q
      <3>1. l < b
        BY <1>3, <2>5, <2>6, <2>8, <2>9, <2>11, <2>13
      <3>2. k * b < b
        BY <2>5, <2>6, <2>12, <3>1
      <3>3. k >= 1
        BY <1>6, <2>12
      <3>4. PICK j \in Nat : k = j + 1
        <4>1. k - 1 \in Nat /\ k = (k - 1) + 1
          BY <2>12, <3>3
        <4>2. QED
          BY <4>1
      <3>5. k * b = j * b + b /\ j * b \in Nat
        BY <2>5, <3>4
      <3>6. QED
        BY <2>5, <3>2, <3>5
    <2>14. CASE n # q
      <3>1. n = 0 /\ q * price < line
        BY <2>4, <2>10, <2>14
      <3>2. l <= m
        BY <1>3, <2>6, <2>8
      <3>3. k <= q
        BY <2>2, <2>5, <2>6, <2>10, <3>2, QuotientGrows
      <3>4. PICK j \in Nat : q = k + j
        <4>1. q - k \in Nat /\ q = k + (q - k)
          BY <2>11, <2>12, <3>3
        <4>2. QED
          BY <4>1
      <3>5. q * price = k * price + j * price /\ j * price \in Nat /\ k * price \in Nat
        BY <2>12, <3>4
      <3>6. k * price < line
        BY <3>1, <3>5
      <3>7. QED
        BY <2>2, <3>6
    <2>15. QED
      BY <2>13, <2>14
  <1>7. QED
    BY <1>1, <1>6


\* The sum over a part of the terms is the sum over all, if the others are 0.
LEMMA SumPart ==
  ASSUME NEW f, NEW g, NEW S, IsFiniteSet(S), NEW V \in SUBSET S,
         \A x \in S : f[x] \in Nat /\ f[x] = IF x \in V THEN g[x] ELSE 0
  PROVE  SumFunctionOnSet(g, V) = SumFunctionOnSet(f, S)
  <1> DEFINE P == {T \in SUBSET S : SumFunctionOnSet(g, V \cap T) = SumFunctionOnSet(f, T)}
  <1>1. ASSUME NEW T \in SUBSET S
        PROVE  /\ IsFiniteSet(T) /\ IsFiniteSet(V \cap T) /\ (\A x \in T : f[x] \in Nat)
               /\ \A x \in V \cap T : g[x] \in Nat
    <2>1. \A x \in V \cap T : g[x] = f[x] /\ f[x] \in Nat
      OBVIOUS
    <2>2. V \cap T \in SUBSET S
      OBVIOUS
    <2>3. QED
      BY <2>1, <2>2, FS_Subset
  <1>2. {} \in P
    <2>1. V \cap {} = {} /\ {} \in SUBSET S
      OBVIOUS
    <2>2. SumFunctionOnSet(f, {}) = 0 /\ SumFunctionOnSet(g, {}) = 0
      BY <1>1, <2>1, SumSplit
    <2>3. QED
      BY <2>1, <2>2
  <1>3. ASSUME NEW T \in SUBSET S, NEW x \in T, T \ {x} \in P PROVE T \in P
    <2>1. PICK U, W, R : U = V \cap T /\ W = V \cap (T \ {x}) /\ R = T \ {x}
      OBVIOUS
    <2>2. SumFunctionOnSet(g, W) = SumFunctionOnSet(f, R)
      <3>1. R \in P /\ W = V \cap R
        BY <1>3, <2>1
      <3>2. QED
        BY <3>1
    <2>3. SumFunctionOnSet(f, T) = f[x] + SumFunctionOnSet(f, R) /\ SumFunctionOnSet(f, R) \in Nat
      <3>1. IsFiniteSet(T) /\ \A y \in T : f[y] \in Nat
        BY <1>1
      <3>2. SumFunctionOnSet(f, T) = f[x] + SumFunctionOnSet(f, T \ {x})
        BY <3>1, SumSplit
      <3>3. IsFiniteSet(R) /\ \A y \in R : f[y] \in Nat
        <4>1. R \in SUBSET S
          BY <2>1
        <4>2. QED
          BY <1>1, <4>1
      <3>4. SumFunctionOnSet(f, R) \in Nat
        BY <3>3, SumSplit
      <3>5. QED
        BY <2>1, <3>2, <3>4
    <2>4. IsFiniteSet(U) /\ \A y \in U : g[y] \in Nat
      BY <1>1, <2>1
    <2>5. CASE x \in V
      <3>1. x \in U /\ W = U \ {x}
        BY <2>1, <2>5
      <3>2. SumFunctionOnSet(g, U) = g[x] + SumFunctionOnSet(g, U \ {x})
        BY <2>4, <3>1, SumSplit
      <3>3. g[x] = f[x]
        BY <2>5
      <3>4. QED
        BY <2>1, <2>2, <2>3, <3>1, <3>2, <3>3
    <2>6. CASE x \notin V
      <3>1. W = U /\ f[x] = 0
        BY <2>1, <2>6
      <3>2. f[x] \in Nat /\ SumFunctionOnSet(f, R) \in Nat
        BY <1>1, <2>3
      <3>3. SumFunctionOnSet(f, T) = SumFunctionOnSet(f, R)
        BY <2>3, <3>1, <3>2
      <3>4. SumFunctionOnSet(g, U) = SumFunctionOnSet(f, T)
        BY <2>2, <3>1, <3>3
      <3>5. QED
        BY <2>1, <3>4
    <2>7. QED
      BY <2>5, <2>6
  <1> HIDE DEF P
  <1>4. S \in P
    BY <1>2, <1>3, SubsetInduction
  <1>5. V \cap S = V
    OBVIOUS
  <1>6. QED
    BY <1>4, <1>5 DEF P

\* The lines of a plan; a book that can be summed; prices it can be bought at.
LineOf(U) == [symbol : U, shares : Nat \ {0}, price : Nat \ {0}]
Lines(U) == Seq(LineOf(U))
BookOK(B) == DOMAIN B \subseteq Symbols /\ \A s \in DOMAIN B : B[s].value = None \/ B[s].value \in Nat

\* A sum over a part of the terms, with one term more.
LEMMA SumAppended ==
  ASSUME NEW N, IsFiniteSet(N), NEW k, k \notin N, NEW f, NEW g, \A i \in N : f[i] \in Nat,
         \A i \in N : g[i] = f[i], g[k] \in Nat, NEW S, S \subseteq N
  PROVE  /\ SumFunctionOnSet(f, S) \in Nat
         /\ SumFunctionOnSet(g, S) = SumFunctionOnSet(f, S)
         /\ SumFunctionOnSet(g, S \cup {k}) = SumFunctionOnSet(f, S) + g[k]
  <1>1. PICK T : T = S \cup {k}
    OBVIOUS
  <1>3. IsFiniteSet(S) /\ IsFiniteSet(T)
    BY <1>1, FS_Subset, FS_AddElement
  <1>4. k \notin S /\ k \in T /\ T \ {k} = S
    BY <1>1
  <1>5. \A x \in S : f[x] \in Nat /\ g[x] = f[x]
    OBVIOUS
  <1>6. \A x \in T : g[x] \in Nat
    BY <1>1, <1>4, <1>5
  <1>7. SumFunctionOnSet(f, S) \in Nat
    BY <1>3, <1>5, SumSplit
  <1>8. SumFunctionOnSet(f, S) = SumFunctionOnSet(g, S)
    BY <1>3, <1>5, SumSame
  <1>9. SumFunctionOnSet(g, T) = g[k] + SumFunctionOnSet(g, T \ {k})
    BY <1>3, <1>4, <1>6, SumSplit
  <1>10. PICK a, b, u : a = SumFunctionOnSet(f, S) /\ b = SumFunctionOnSet(g, T) /\ u = g[k]
    OBVIOUS
  <1>11. a \in Nat /\ u \in Nat /\ b = u + a
    BY <1>4, <1>7, <1>8, <1>9, <1>10
  <1>12. b = a + u
    BY <1>11
  <1>13. QED
    BY <1>1, <1>7, <1>8, <1>10, <1>12

\* No lines cost nothing.
LEMMA NoLines ==
  ASSUME NEW plan, plan.lines = <<>>
  PROVE  Spent(plan) = 0 /\ \A s : Bought(plan, s) = 0
  <1>1. PICK f : f = [i \in DOMAIN plan.lines |-> plan.lines[i].shares * plan.lines[i].price]
    OBVIOUS
  <1>2. DOMAIN plan.lines = {} /\ IsFiniteSet({})
    BY FS_EmptySet
  <1>3. SumFunctionOnSet(f, {}) = 0
    BY <1>2, SumSplit
  <1>4. Spent(plan) = 0
    BY <1>1, <1>2, <1>3 DEF Spent, SumOver
  <1>5. ASSUME NEW s PROVE Bought(plan, s) = 0
    <2>1. {i \in DOMAIN plan.lines : plan.lines[i].symbol = s} = {}
      BY <1>2
    <2>2. QED
      BY <1>1, <1>3, <2>1 DEF Bought, SumOver
  <1>6. QED
    BY <1>4, <1>5

\* What lines cost, in all and of one symbol, is a number.
LEMMA LinesCost ==
  ASSUME NEW plan, NEW U, plan.lines \in Lines(U)
  PROVE  Spent(plan) \in Nat /\ \A s : Bought(plan, s) \in Nat
  <1>1. PICK f : f = [i \in DOMAIN plan.lines |-> plan.lines[i].shares * plan.lines[i].price]
    OBVIOUS
  <1>2. PICK n \in Nat : n = Len(plan.lines) /\ DOMAIN plan.lines = 1..n
    BY DEF Lines
  <1>3. IsFiniteSet(1..n)
    BY UpTo
  <1>4. ASSUME NEW i \in 1..n PROVE f[i] \in Nat
    <2>1. plan.lines[i] \in LineOf(U)
      BY <1>2, ElementOfSeq DEF Lines
    <2>2. plan.lines[i].shares \in Nat /\ plan.lines[i].price \in Nat
      BY <2>1 DEF LineOf
    <2>3. QED
      BY <1>1, <1>2, <2>2
  <1>5. Spent(plan) \in Nat
    <2>1. SumFunctionOnSet(f, 1..n) \in Nat
      BY <1>3, <1>4, SumSplit
    <2>2. QED
      BY <1>1, <1>2, <2>1 DEF Spent, SumOver
  <1>6. ASSUME NEW s PROVE Bought(plan, s) \in Nat
    <2>1. PICK A : A = {i \in DOMAIN plan.lines : plan.lines[i].symbol = s}
      OBVIOUS
    <2>2. A \in SUBSET (1..n) /\ \A i \in A : f[i] \in Nat
      BY <1>2, <1>4, <2>1
    <2>3. IsFiniteSet(A)
      BY <1>3, <2>2, FS_Subset
    <2>4. SumFunctionOnSet(f, A) \in Nat
      BY <2>2, <2>3, SumSplit
    <2>5. QED
      BY <1>1, <2>1, <2>4 DEF Bought, SumOver
  <1>7. QED
    BY <1>5, <1>6

\* Of a symbol with a line something was bought.
LEMMA LineBought ==
  ASSUME NEW plan, NEW U, plan.lines \in Lines(U), NEW j \in DOMAIN plan.lines
  PROVE  plan.lines[j].symbol \in U /\ Bought(plan, plan.lines[j].symbol) > 0
  <1>1. PICK f, s, A : /\ f = [i \in DOMAIN plan.lines |-> plan.lines[i].shares * plan.lines[i].price]
                       /\ s = plan.lines[j].symbol /\ A = {i \in DOMAIN plan.lines : plan.lines[i].symbol = s}
    OBVIOUS
  <1>2. PICK n \in Nat : n = Len(plan.lines) /\ DOMAIN plan.lines = 1..n
    BY DEF Lines
  <1>3. ASSUME NEW i \in 1..n PROVE f[i] \in Nat \ {0} /\ plan.lines[i].symbol \in U
    <2>1. plan.lines[i] \in LineOf(U)
      BY <1>2, ElementOfSeq DEF Lines
    <2>2. PICK a, b : a = plan.lines[i].shares /\ b = plan.lines[i].price
      OBVIOUS
    <2>3. a \in Nat \ {0} /\ b \in Nat \ {0} /\ f[i] = a * b
      BY <1>1, <1>2, <2>1, <2>2 DEF LineOf
    <2>4. a * b \in Nat /\ a * b # 0
      BY <2>3
    <2>5. QED
      BY <2>1, <2>3, <2>4 DEF LineOf
  <1>4. IsFiniteSet(A) /\ A \subseteq 1..n /\ j \in A /\ j \in 1..n
    <2>1. IsFiniteSet(1..n)
      BY UpTo
    <2>2. A \subseteq 1..n /\ j \in A
      BY <1>1, <1>2
    <2>3. QED
      BY <2>1, <2>2, FS_Subset
  <1>5. \A i \in A : f[i] \in Nat
    BY <1>3, <1>4
  <1>6. SumFunctionOnSet(f, A) = f[j] + SumFunctionOnSet(f, A \ {j}) /\ SumFunctionOnSet(f, A \ {j}) \in Nat
    BY <1>4, <1>5, SumSplit
  <1>7. SumFunctionOnSet(f, A) > 0
    BY <1>3, <1>4, <1>6
  <1>8. QED
    BY <1>1, <1>3, <1>4, <1>7 DEF Bought, SumOver

\* A line more costs what it costs, and is of one symbol.
LEMMA OneMore ==
  ASSUME NEW plan, NEW U, plan.lines \in Lines(U), NEW l \in LineOf(U),
         NEW next, next.lines = Append(plan.lines, l)
  PROVE  /\ next.lines \in Lines(U)
         /\ \E c \in Nat : /\ c = l.shares * l.price /\ Spent(next) = Spent(plan) + c
                           /\ \A s : Bought(next, s) = Bought(plan, s) + IF s = l.symbol THEN c ELSE 0
  <1>1. PICK f, g : /\ f = [i \in DOMAIN plan.lines |-> plan.lines[i].shares * plan.lines[i].price]
                    /\ g = [i \in DOMAIN next.lines |-> next.lines[i].shares * next.lines[i].price]
    OBVIOUS
  <1>2. PICK n \in Nat : n = Len(plan.lines) /\ DOMAIN plan.lines = 1..n
    BY DEF Lines
  <1>3. /\ next.lines \in Lines(U) /\ DOMAIN next.lines = 1..(n + 1)
        /\ next.lines[n + 1] = l /\ \A i \in 1..n : next.lines[i] = plan.lines[i]
    BY <1>2, AppendProperties DEF Lines
  <1>4. PICK u : u = l.shares * l.price
    OBVIOUS
  <1>5. u \in Nat
    <2>1. l.shares \in Nat /\ l.price \in Nat
      BY DEF LineOf
    <2>2. QED
      BY <1>4, <2>1
  <1>6. 1..(n + 1) = (1..n) \cup {n + 1} /\ n + 1 \notin 1..n /\ IsFiniteSet(1..n)
    <2>1. 1..(n + 1) = (1..n) \cup {n + 1} /\ n + 1 \notin 1..n
      OBVIOUS
    <2>2. IsFiniteSet(1..n)
      BY UpTo
    <2>3. QED
      BY <2>1, <2>2
  <1>7. \A i \in 1..n : f[i] \in Nat /\ g[i] = f[i]
    <2>1. ASSUME NEW i \in 1..n PROVE f[i] \in Nat
      <3>1. plan.lines[i] \in LineOf(U)
        BY <1>2, ElementOfSeq DEF Lines
      <3>2. plan.lines[i].shares \in Nat /\ plan.lines[i].price \in Nat
        BY <3>1 DEF LineOf
      <3>3. QED
        BY <1>1, <1>2, <3>2
    <2>2. ASSUME NEW i \in 1..n PROVE g[i] = f[i]
      BY <1>1, <1>2, <1>3, <1>6
    <2>3. QED
      BY <2>1, <2>2
  <1>8. g[n + 1] = u
    BY <1>1, <1>3, <1>4, <1>6
  <1>13. PICK N, k : N = 1..n /\ k = n + 1
    OBVIOUS
  <1>14. IsFiniteSet(N) /\ k \notin N /\ g[k] \in Nat /\ g[k] = u
    BY <1>5, <1>6, <1>8, <1>13
  <1>15. (\A i \in N : f[i] \in Nat) /\ \A i \in N : g[i] = f[i]
    BY <1>7, <1>13
  <1>9. Spent(next) = Spent(plan) + u
    <2>1. N \subseteq N
      OBVIOUS
    <2>2. SumFunctionOnSet(g, N \cup {k}) = SumFunctionOnSet(f, N) + g[k]
      BY <1>14, <1>15, <2>1, SumAppended
    <2>3. DOMAIN next.lines = N \cup {k} /\ DOMAIN plan.lines = N
      BY <1>2, <1>3, <1>6, <1>13
    <2>4. QED
      BY <1>1, <1>14, <2>2, <2>3 DEF Spent, SumOver
  <1>10. ASSUME NEW s PROVE Bought(next, s) = Bought(plan, s) + IF s = l.symbol THEN u ELSE 0
    <2>1. PICK S, T : /\ S = {i \in DOMAIN plan.lines : plan.lines[i].symbol = s}
                      /\ T = {i \in DOMAIN next.lines : next.lines[i].symbol = s}
      OBVIOUS
    <2>2. S \subseteq N
      BY <1>2, <1>13, <2>1
    <2>3. /\ SumFunctionOnSet(f, S) \in Nat
          /\ SumFunctionOnSet(g, S) = SumFunctionOnSet(f, S)
          /\ SumFunctionOnSet(g, S \cup {k}) = SumFunctionOnSet(f, S) + g[k]
      <3>1. IsFiniteSet(N)
        BY <1>14
      <3>2. k \notin N
        BY <1>14
      <3>3. g[k] \in Nat
        BY <1>14
      <3>4. \A i \in N : f[i] \in Nat
        BY <1>15
      <3>5. \A i \in N : g[i] = f[i]
        BY <1>15
      <3>6. QED
        BY <2>2, <3>1, <3>2, <3>3, <3>4, <3>5, SumAppended
    <2>4. Bought(next, s) = SumFunctionOnSet(g, T) /\ Bought(plan, s) = SumFunctionOnSet(f, S)
      BY <1>1, <2>1 DEF Bought, SumOver
    <2>5. CASE s = l.symbol
      <3>1. T = S \cup {k}
        BY <1>2, <1>3, <1>6, <1>13, <2>1, <2>5
      <3>2. QED
        BY <1>14, <2>3, <2>4, <2>5, <3>1
    <2>6. CASE s # l.symbol
      <3>1. T = S
        BY <1>2, <1>3, <1>6, <2>1, <2>6
      <3>2. QED
        BY <2>3, <2>4, <2>6, <3>1
    <2>7. QED
      BY <2>5, <2>6
  <1>11. QED
    BY <1>3, <1>4, <1>5, <1>9, <1>10

-----------------------------------------------------------------------------
\* What a fold of F over the numbers to n gives for each subset of them.
Folded(g, n, F, base) ==
  g = [s \in SUBSET (1..n) |-> IF s = {} THEN base ELSE F[<<g[s \ {Max(s)}], Max(s)>>]]
\* There is such a function.
LEMMA FoldExists ==
  ASSUME NEW n \in Nat, NEW D, NEW F \in [D \X (1..n) -> D], NEW base \in D
  PROVE  \E g \in [SUBSET (1..n) -> D] : Folded(g, n, F, base)
  <1> DEFINE Val(g, s) == IF s = {} THEN base ELSE F[<<g[s \ {Max(s)}], Max(s)>>]
             P == {i \in 0..n : \E g \in [SUBSET (1..i) -> D] : \A s \in SUBSET (1..i) : g[s] = Val(g, s)}
  <1>1. 0 \in P
    <2>1. PICK g : g = [s \in SUBSET (1..0) |-> base]
      OBVIOUS
    <2>2. \A s \in SUBSET (1..0) : s = {}
      OBVIOUS
    <2>3. g \in [SUBSET (1..0) -> D] /\ \A s \in SUBSET (1..0) : g[s] = Val(g, s)
      BY <2>1, <2>2
    <2>4. \E f \in [SUBSET (1..0) -> D] : \A s \in SUBSET (1..0) : f[s] = Val(f, s)
      BY <2>3, Zenon
    <2>5. 0 \in 0..n
      OBVIOUS
    <2>6. QED
      BY <2>4, <2>5
  <1>2. ASSUME NEW i \in 1..n, i - 1 \in P PROVE i \in P
    <2>1. PICK g \in [SUBSET (1..(i - 1)) -> D] : \A s \in SUBSET (1..(i - 1)) : g[s] = Val(g, s)
      BY <1>2
    <2>2. PICK e : e = [s \in SUBSET (1..i) |-> IF i \in s THEN F[<<g[s \ {i}], i>>] ELSE g[s]]
      OBVIOUS
    <2>3. ASSUME NEW s \in SUBSET (1..i) PROVE e[s] \in D /\ e[s] = Val(e, s)
      <3>1. CASE i \in s
        <4>1. s \ {i} \in SUBSET (1..(i - 1)) /\ s \in SUBSET Nat /\ \A d \in s : d <= i
          OBVIOUS
        <4>2. Max(s) \in s /\ \A d \in s : d <= Max(s)
          BY <3>1, <4>1, MaxOfDays
        <4>3. Max(s) = i
          <5>1. Max(s) <= i /\ i <= Max(s) /\ Max(s) \in Nat
            BY <3>1, <4>1, <4>2
          <5>2. QED
            BY <5>1
        <4>4. g[s \ {i}] \in D /\ e[s] = F[<<g[s \ {i}], i>>]
          BY <2>2, <3>1, <4>1
        <4>5. e[s] \in D
          BY <4>4
        <4>6. e[s \ {i}] = g[s \ {i}]
          <5>1. s \ {i} \in SUBSET (1..i) /\ i \notin s \ {i}
            OBVIOUS
          <5>2. QED
            BY <2>2, <5>1
        <4>7. QED
          BY <3>1, <4>3, <4>4, <4>5, <4>6
      <3>2. CASE i \notin s
        <4>1. s \in SUBSET (1..(i - 1))
          BY <3>2
        <4>2. e[s] = g[s] /\ g[s] \in D /\ g[s] = Val(g, s)
          BY <2>1, <2>2, <3>2, <4>1
        <4>3. CASE s = {}
          BY <4>2, <4>3
        <4>4. CASE s # {}
          <5>1. PICK t : t = s \ {Max(s)}
            OBVIOUS
          <5>2. t \in SUBSET (1..i) /\ i \notin t
            BY <3>2, <5>1
          <5>3. e[t] = g[t]
            BY <2>2, <5>2
          <5>4. QED
            BY <4>2, <4>4, <5>1, <5>3
        <4>5. QED
          BY <4>3, <4>4
      <3>3. QED
        BY <3>1, <3>2
    <2>4. e \in [SUBSET (1..i) -> D] /\ \A s \in SUBSET (1..i) : e[s] = Val(e, s)
      BY <2>2, <2>3
    <2>5. \E f \in [SUBSET (1..i) -> D] : \A s \in SUBSET (1..i) : f[s] = Val(f, s)
      BY <2>4, Zenon
    <2>6. i \in 0..n
      OBVIOUS
    <2>7. QED
      BY <2>5, <2>6
  <1>3. n \in P
    <2> HIDE DEF P
    <2>1. \A i \in 1..n : i - 1 \in P => i \in P
      BY <1>2
    <2>2. \A i \in 0..n : i \in P
      BY <1>1, <2>1, PrefixInduction
    <2>3. QED
      BY <2>2
  <1>4. PICK g \in [SUBSET (1..n) -> D] : \A s \in SUBSET (1..n) : g[s] = Val(g, s)
    BY <1>3
  <1>5. g = [s \in SUBSET (1..n) |-> Val(g, s)]
    BY <1>4
  <1>6. Folded(g, n, F, base)
    BY <1>5 DEF Folded
  <1>7. QED
    BY <1>6

\* The last of the numbers to i is i.
LEMMA LastOfPrefix ==
  ASSUME NEW i \in Nat \ {0}
  PROVE  Max(1..i) = i /\ (1..i) \ {Max(1..i)} = 1..(i - 1)
  <1>1. PICK s : s = 1..i
    OBVIOUS
  <1>2. s \in SUBSET Nat /\ i \in s /\ i \in Nat
    BY <1>1
  <1>3. \A d \in s : d <= i
    BY <1>1
  <1>4. Max(s) \in s /\ \A d \in s : d <= Max(s)
    BY <1>2, <1>3, MaxOfDays
  <1>5. Max(s) \in Nat /\ Max(s) <= i /\ i <= Max(s)
    BY <1>2, <1>3, <1>4
  <1>6. Max(s) = i
    BY <1>2, <1>5
  <1>7. s \ {i} = 1..(i - 1)
    BY <1>1
  <1>8. QED
    BY <1>1, <1>6, <1>7

\* The plan towards the targets, target by target.
LEMMA TargetSteps ==
  ASSUME NEW B, NEW p, NEW m, NEW r, NEW n \in Nat, DOMAIN r.targets = 1..n,
         NEW D, Empty(m) \in D,
         \A plan \in D : \A i \in 1..n : PlaceTarget(B, Basis(B, m), r, p, plan, r.targets[i]) \in D
  PROVE  \E h : /\ h[0] = Empty(m) /\ \A i \in 0..n : h[i] \in D
                /\ \A i \in 1..n : h[i] = PlaceTarget(B, Basis(B, m), r, p, h[i - 1], r.targets[i])
                /\ TargetPlan(B, p, m, r) = h[n]
  <1>1. PICK q : q = r.targets
    OBVIOUS
  <1> DEFINE Op(plan, i) == PlaceTarget(B, Basis(B, m), r, p, plan, q[i])
             g == CHOOSE f : f = [s \in SUBSET (1..n) |-> IF s = {} THEN Empty(m) ELSE Op(f[s \ {Max(s)}], Max(s))]
  <1>2. TargetPlan(B, p, m, r) = g[1..n]
    <2>1. DOMAIN q = 1..n
      BY <1>1
    <2>2. TargetPlan(B, p, m, r) =
            (CHOOSE f : f = [s \in SUBSET DOMAIN q |-> IF s = {} THEN Empty(m) ELSE Op(f[s \ {Max(s)}], Max(s))])[DOMAIN q]
      BY <1>1, Zenon DEF TargetPlan, FoldLeft, MapThenFoldSet
    <2>3. QED
      BY <2>1, <2>2
  <1>3. \E f : f = [s \in SUBSET (1..n) |-> IF s = {} THEN Empty(m) ELSE Op(f[s \ {Max(s)}], Max(s))]
    <2>1. PICK F : F = [x \in D \X (1..n) |-> Op(x[1], x[2])]
      OBVIOUS
    <2>2. F \in [D \X (1..n) -> D]
      BY <1>1, <2>1
    <2>3. PICK b : b = Empty(m)
      OBVIOUS
    <2>7. b \in D
      BY <2>3
    <2>8. PICK f \in [SUBSET (1..n) -> D] : Folded(f, n, F, b)
      BY <2>2, <2>7, FoldExists
    <2>9. f = [s \in SUBSET (1..n) |-> IF s = {} THEN b ELSE F[<<f[s \ {Max(s)}], Max(s)>>]]
      BY <2>8 DEF Folded
    <2>10. ASSUME NEW s \in SUBSET (1..n), s # {}
           PROVE  F[<<f[s \ {Max(s)}], Max(s)>>] = Op(f[s \ {Max(s)}], Max(s))
      <3>1. s \in SUBSET Nat /\ \A d \in s : d <= n
        OBVIOUS
      <3>2. Max(s) \in s
        BY <2>10, <3>1, MaxOfDays
      <3>3. PICK k, t : k = Max(s) /\ t = s \ {Max(s)}
        OBVIOUS
      <3>4. k \in 1..n /\ f[t] \in D
        BY <2>8, <3>2, <3>3
      <3>5. F[<<f[t], k>>] = Op(f[t], k)
        BY <2>1, <3>4
      <3>6. QED
        BY <3>3, <3>5
    <2>11. f = [s \in SUBSET (1..n) |-> IF s = {} THEN b ELSE Op(f[s \ {Max(s)}], Max(s))]
      BY <2>9, <2>10
    <2>12. QED
      BY <2>3, <2>11
  <1>4. g = [s \in SUBSET (1..n) |-> IF s = {} THEN Empty(m) ELSE Op(g[s \ {Max(s)}], Max(s))]
    BY <1>3, Zenon
  <1> HIDE DEF g
  <1>5. PICK h : h = [i \in 0..n |-> g[1..i]]
    OBVIOUS
  <1>6. h[0] = Empty(m) /\ h[n] = g[1..n]
    <2>1. 1..0 = {} /\ 1..0 \in SUBSET (1..n) /\ 0 \in 0..n /\ n \in 0..n
      OBVIOUS
    <2>2. g[{}] = Empty(m)
      BY <1>4, <2>1
    <2>3. QED
      BY <1>5, <2>1, <2>2
  <1>7. ASSUME NEW i \in 1..n PROVE h[i] = Op(h[i - 1], i)
    <2>1. PICK s : s = 1..i
      OBVIOUS
    <2>2. s \in SUBSET (1..n) /\ s # {} /\ i \in 0..n /\ i - 1 \in 0..n /\ i \in Nat \ {0}
      <3>1. i \in Nat \ {0} /\ i \in 0..n /\ i - 1 \in 0..n
        OBVIOUS
      <3>2. i \in s
        BY <2>1, <3>1
      <3>3. s \subseteq 1..n
        BY <2>1, <3>1
      <3>4. QED
        BY <3>1, <3>2, <3>3
    <2>3. Max(s) = i /\ s \ {Max(s)} = 1..(i - 1)
      BY <2>1, <2>2, LastOfPrefix
    <2>4. g[s] = Op(g[s \ {Max(s)}], Max(s))
      BY <1>4, <2>2
    <2>5. h[i] = g[s] /\ h[i - 1] = g[1..(i - 1)]
      BY <1>5, <2>1, <2>2
    <2>6. QED
      BY <2>3, <2>4, <2>5
  <1>8. \A i \in 0..n : h[i] \in D
    <2> DEFINE P == {i \in 0..n : h[i] \in D}
    <2>1. 0 \in P
      BY <1>6
    <2>2. ASSUME NEW i \in 1..n, i - 1 \in P PROVE i \in P
      <3>1. h[i - 1] \in D
        BY <2>2
      <3>2. Op(h[i - 1], i) \in D
        BY <1>1, <3>1
      <3>3. i \in 0..n
        OBVIOUS
      <3>4. QED
        BY <1>7, <3>2, <3>3
    <2> HIDE DEF P
    <2>3. \A i \in 1..n : i - 1 \in P => i \in P
      BY <2>2
    <2>4. \A i \in 0..n : i \in P
      BY <2>1, <2>3, PrefixInduction
    <2>5. QED
      BY <2>4 DEF P
  <1>9. QED
    BY <1>1, <1>2, <1>6, <1>7, <1>8

-----------------------------------------------------------------------------
\* What was bought of the symbols of S.
BoughtIn(plan, S) == SumFunctionOnSet([s \in Symbols |-> Bought(plan, s)], S)
ValuesOf(B) == [s \in Symbols |-> ValueIn(B, s)]
InSector(sec) == {s \in Symbols : Sector[s] = sec}
\* A step that spends c on s.
Adds(plan, next, s, c) ==
  /\ Spent(next) = Spent(plan) + c /\ next.left + c = plan.left
  /\ \A x : Bought(next, x) = Bought(plan, x) + IF x = s THEN c ELSE 0
\* With no more cash and no more room than these, not a share is bought.
Full(left, room, price, line) ==
  \A less \in Nat : \A lower \in Int : less <= left /\ lower <= room => Shares(less, lower, price, line) = 0

\* One line for all that may be bought, or none.
OneLine(plan, next, s, room, price, line) ==
  LET n == Shares(plan.left, room, price, line)
  IN /\ n > 0 => /\ next.lines = Append(plan.lines, [symbol |-> s, shares |-> n, price |-> price])
                 /\ next.left = plan.left - n * price
     /\ ~(n > 0) => next.lines = plan.lines /\ next.left = plan.left

\* What it does to the plan, at the cost c.
Spends(plan, next, s, room, price, line, c) ==
  /\ Adds(plan, next, s, c) /\ (c > 0 => Whole * c <= room) /\ (c = 0 => next.lines = plan.lines)
  /\ Full(next.left, room - Whole * c, price, line)

\* The worth of a book, and of one sector, as sums over the symbols.
LEMMA BookSums ==
  ASSUME NEW B, BookOK(B)
  PROVE  /\ \A s \in Symbols : ValuesOf(B)[s] = ValueIn(B, s) /\ ValueIn(B, s) \in Nat
         /\ PortfolioValue(B) = SumFunctionOnSet(ValuesOf(B), Symbols) /\ PortfolioValue(B) \in Nat
         /\ \A sec : /\ SectorValue(B, sec) = SumFunctionOnSet(ValuesOf(B), InSector(sec))
                     /\ SectorValue(B, sec) \in Nat
  <1>1. PICK f, g : f = ValuesOf(B) /\ g = [s \in Valued(B) |-> B[s].value]
    OBVIOUS
  <1>2. IsFiniteSet(Symbols) /\ Unpriced = None /\ None \notin Nat
    BY DeskAssumption DEF DeskAssumption
  <1>3. Valued(B) \subseteq Symbols /\ \A s \in Valued(B) : B[s].value \in Nat
    BY <1>2 DEF BookOK, Valued
  <1>4. ASSUME NEW s \in Symbols
        PROVE  f[s] = ValueIn(B, s) /\ f[s] \in Nat /\ f[s] = IF s \in Valued(B) THEN g[s] ELSE 0
    BY <1>1, <1>3 DEF ValuesOf, ValueIn
  <1>5. ASSUME NEW S, S \subseteq Symbols
        PROVE  /\ SumFunctionOnSet(g, Valued(B) \cap S) = SumFunctionOnSet(f, S)
               /\ SumFunctionOnSet(f, S) \in Nat
    <2>1. IsFiniteSet(S)
      BY <1>2, <1>5, FS_Subset
    <2>2. PICK V : V = Valued(B) \cap S
      OBVIOUS
    <2>3. V \in SUBSET S
      BY <2>2
    <2>4. \A x \in S : f[x] \in Nat /\ f[x] = IF x \in V THEN g[x] ELSE 0
      BY <1>4, <1>5, <2>2
    <2>5. SumFunctionOnSet(g, V) = SumFunctionOnSet(f, S)
      BY <2>1, <2>3, <2>4, SumPart
    <2>6. \A x \in S : f[x] \in Nat
      BY <2>4
    <2>7. SumFunctionOnSet(f, S) \in Nat
      BY <2>1, <2>6, SumSplit
    <2>8. QED
      BY <2>2, <2>5, <2>7
  <1>6. PortfolioValue(B) = SumFunctionOnSet(f, Symbols) /\ SumFunctionOnSet(f, Symbols) \in Nat
    <2>1. Valued(B) \cap Symbols = Valued(B)
      BY <1>3
    <2>2. PortfolioValue(B) = SumFunctionOnSet(g, Valued(B))
      BY <1>1 DEF PortfolioValue, SumOver
    <2>3. QED
      BY <1>5, <2>1, <2>2
  <1>7. ASSUME NEW sec
        PROVE  /\ SectorValue(B, sec) = SumFunctionOnSet(f, InSector(sec))
               /\ SumFunctionOnSet(f, InSector(sec)) \in Nat
    <2>1. PICK S : S = InSector(sec)
      OBVIOUS
    <2>2. S \subseteq Symbols /\ Valued(B) \cap S = {s \in Valued(B) : Sector[s] = sec}
      BY <1>3, <2>1 DEF InSector
    <2>3. SectorValue(B, sec) = SumFunctionOnSet(g, Valued(B) \cap S)
      BY <1>1, <2>2 DEF SectorValue, SumOver
    <2>4. QED
      BY <1>5, <2>1, <2>2, <2>3
  <1>8. QED
    BY <1>1, <1>4, <1>6, <1>7

\* One line at most, for whole shares: it is paid for, it has room, and afterwards
\* not one share more would be bought.
LEMMA LineStep ==
  ASSUME NEW U, NEW plan, plan.lines \in Lines(U), plan.left \in Nat, NEW next, NEW s \in U,
         NEW room \in Int, NEW price \in Nat \ {0}, NEW line \in Nat,
         OneLine(plan, next, s, room, price, line)
  PROVE  /\ next.lines \in Lines(U) /\ next.left \in Nat
         /\ \E c \in Nat : Spends(plan, next, s, room, price, line, c)
  <1>1. PICK n, c : n = Shares(plan.left, room, price, line) /\ c = n * price
    OBVIOUS
  <1>2. n \in Nat /\ c \in Nat /\ c <= plan.left /\ (n > 0 => Whole * c <= room) /\ Whole \in Nat \ {0}
    BY <1>1, SharesBound, PlanAssumption DEF PlanAssumption
  <1>3. CASE n > 0
    <2>1. PICK l : l = [symbol |-> s, shares |-> n, price |-> price]
      OBVIOUS
    <2>2. l \in LineOf(U) /\ l.symbol = s /\ l.shares = n /\ l.price = price
      BY <1>2, <1>3, <2>1 DEF LineOf
    <2>3. next.lines = Append(plan.lines, l) /\ next.left = plan.left - c
      BY <1>1, <1>3, <2>1 DEF OneLine
    <2>4. /\ next.lines \in Lines(U)
          /\ Spent(next) = Spent(plan) + c
          /\ \A x : Bought(next, x) = Bought(plan, x) + IF x = s THEN c ELSE 0
      <3>1. plan.lines \in Lines(U) /\ l \in LineOf(U)
        BY <2>2
      <3>2. next.lines = Append(plan.lines, l)
        BY <2>3
      <3>3. next.lines \in Lines(U)
        BY <3>1, <3>2, OneMore
      <3>4. PICK d \in Nat : /\ d = l.shares * l.price /\ Spent(next) = Spent(plan) + d
                            /\ \A x : Bought(next, x) = Bought(plan, x) + IF x = l.symbol THEN d ELSE 0
        BY <3>1, <3>2, OneMore
      <3>5. d = c
        BY <1>1, <2>2, <3>4
      <3>6. QED
        BY <2>2, <3>3, <3>4, <3>5
    <2>5. next.left \in Nat /\ next.left + c = plan.left
      BY <1>2, <2>3
    <2>6. Adds(plan, next, s, c)
      BY <2>4, <2>5 DEF Adds
    <2>7. c > 0
      <3>1. n >= 1 /\ price >= 1
        BY <1>2, <1>3
      <3>2. n * price >= 1
        BY <1>2, <3>1
      <3>3. c = n * price
        BY <1>1
      <3>4. QED
        BY <1>2, <3>2, <3>3
    <2>8. next.left <= plan.left - n * price /\ room - Whole * c = room - Whole * (n * price)
      BY <1>1, <1>2, <2>3
    <2>9. ASSUME NEW less \in Nat, NEW lower \in Int, less <= next.left, lower <= room - Whole * c
          PROVE  Shares(less, lower, price, line) = 0
      <3>1. /\ less <= plan.left - Shares(plan.left, room, price, line) * price
            /\ lower <= room - Whole * (Shares(plan.left, room, price, line) * price)
        BY <1>1, <2>3, <2>9
      <3>2. QED
        BY <3>1, SharesOnce
    <2>10. Full(next.left, room - Whole * c, price, line)
      BY <2>9 DEF Full
    <2>11. QED
      BY <1>2, <1>3, <2>4, <2>5, <2>6, <2>7, <2>10 DEF Spends
  <1>4. CASE n = 0
    <2>1. next.lines = plan.lines /\ next.left = plan.left /\ c = 0
      BY <1>1, <1>2, <1>4 DEF OneLine
    <2>2. Spent(next) = Spent(plan) /\ \A x : Bought(next, x) = Bought(plan, x)
      BY <2>1 DEF Spent, Bought
    <2>3. Spent(plan) \in Nat /\ \A x : Bought(plan, x) \in Nat
      BY LinesCost
    <2>4. Adds(plan, next, s, c)
      BY <2>1, <2>2, <2>3 DEF Adds
    <2>5. n * price = 0 /\ Whole * 0 = 0 /\ Whole * c = 0
      BY <1>1, <1>2, <2>1
    <2>6. ASSUME NEW less \in Nat, NEW lower \in Int, less <= next.left, lower <= room - Whole * c
          PROVE  Shares(less, lower, price, line) = 0
      <3>1. /\ less <= plan.left - Shares(plan.left, room, price, line) * price
            /\ lower <= room - Whole * (Shares(plan.left, room, price, line) * price)
        BY <1>1, <2>1, <2>5, <2>6
      <3>2. QED
        BY <3>1, SharesOnce
    <2>7. Full(next.left, room - Whole * c, price, line)
      BY <2>6 DEF Full
    <2>8. QED
      BY <1>2, <2>1, <2>4, <2>7 DEF Spends
  <1>5. QED
    BY <1>2, <1>3, <1>4

\* What the lines buy of a set of securities is a number.
LEMMA BoughtType ==
  ASSUME NEW U, NEW plan, plan.lines \in Lines(U), NEW S, S \subseteq Symbols
  PROVE  BoughtIn(plan, S) \in Nat
  <1>1. PICK f : f = [x \in Symbols |-> Bought(plan, x)]
    OBVIOUS
  <1>2. \A x \in S : f[x] \in Nat
    BY <1>1, LinesCost
  <1>3. IsFiniteSet(S)
    BY DeskAssumption, FS_Subset DEF DeskAssumption
  <1>4. SumFunctionOnSet(f, S) \in Nat
    BY <1>2, <1>3, SumSplit
  <1>5. QED
    BY <1>1, <1>4 DEF BoughtIn

\* What such a step adds to the symbols of a set.
LEMMA BoughtSum ==
  ASSUME NEW U, NEW plan, plan.lines \in Lines(U), NEW next, NEW s \in Symbols, NEW c \in Nat,
         Adds(plan, next, s, c), NEW S, S \subseteq Symbols
  PROVE  /\ BoughtIn(plan, S) \in Nat
         /\ BoughtIn(next, S) = BoughtIn(plan, S) + IF s \in S THEN c ELSE 0
  <1>1. PICK f, g : f = [x \in Symbols |-> Bought(plan, x)] /\ g = [x \in Symbols |-> Bought(next, x)]
    OBVIOUS
  <1>2. \A x \in Symbols : /\ f[x] \in Nat /\ f[x] = Bought(plan, x)
                           /\ g[x] = f[x] + IF x = s THEN c ELSE 0
    BY <1>1, LinesCost DEF Adds
  <1>3. IsFiniteSet(S)
    BY DeskAssumption, FS_Subset DEF DeskAssumption
  <1>4. \A x \in S : f[x] \in Nat
    BY <1>2
  <1>5. SumFunctionOnSet(f, S) \in Nat
    BY <1>3, <1>4, SumSplit
  <1>6. CASE s \in S
    <2>1. g[s] = (IF s \in S THEN f[s] ELSE 0) + c
      BY <1>2, <1>6
    <2>2. \A x \in S : x # s => g[x] = f[x]
      BY <1>2
    <2>3. SumOver(S \cup {s}, g) = SumOver(S, f) + c
      BY <1>3, <1>4, <2>1, <2>2, SumPlusOne
    <2>4. S \cup {s} = S
      BY <1>6
    <2>5. QED
      BY <1>1, <1>5, <1>6, <2>3, <2>4 DEF SumOver, BoughtIn
  <1>7. CASE s \notin S
    <2>1. \A x \in S : f[x] \in Nat /\ g[x] = f[x]
      BY <1>2, <1>7
    <2>2. SumFunctionOnSet(f, S) = SumFunctionOnSet(g, S)
      BY <1>3, <2>1, SumSame
    <2>3. QED
      BY <1>1, <1>5, <1>7, <2>2 DEF BoughtIn
  <1>8. QED
    BY <1>6, <1>7

-----------------------------------------------------------------------------
\* What the lemmas about plans take: targets, prices, plans.
RulesOK(r) ==
  /\ r.targets \in Seq([symbol : Symbols, weight : Nat]) /\ r.cap \in Nat /\ r.line \in Nat
  /\ \A i, j \in DOMAIN r.targets : r.targets[i].symbol = r.targets[j].symbol => i = j
PricesOK(p) == \A s \in Symbols : p[s] = None \/ p[s] \in Nat \ {0}
Reasons == {"unpriced", "at_or_above_cap", "at_or_above_target", "cash_exhausted", "min_line_usd",
            "max_position_weight", "max_sector_weight"}
Plans(U) == [lines : Lines(U), left : Nat, skipped : SUBSET [symbol : Symbols, reason : Reasons]]

\* What a step towards a target does to the plan.
LEMMA TargetPlace ==
  ASSUME NEW B, BookOK(B), NEW basis \in Nat, NEW r, r.cap \in Nat, r.line \in Nat,
         NEW p, PricesOK(p), NEW plan \in Plans(Symbols), NEW t \in [symbol : Symbols, weight : Nat],
         NEW next, next = PlaceTarget(B, basis, r, p, plan, t)
  PROVE  /\ next \in Plans(Symbols) /\ TargetRoom(B, basis, r, t) \in Int
         /\ \E c \in Nat : /\ Adds(plan, next, t.symbol, c)
                           /\ (c > 0 => Whole * c <= TargetRoom(B, basis, r, t))
                           /\ (p[t.symbol] # None =>
                                 Full(next.left, TargetRoom(B, basis, r, t) - Whole * c, p[t.symbol], r.line))
  <1>1. PICK s, room, price : s = t.symbol /\ room = TargetRoom(B, basis, r, t) /\ price = p[s]
    OBVIOUS
  <1>2. s \in Symbols /\ t.weight \in Nat
    BY <1>1
  <1>3. room \in Int
    <2>1. ValueIn(B, s) \in Nat
      BY <1>2, BookSums
    <2>2. PICK e, w, v : e = Least(t.weight, r.cap) /\ w = Whole /\ v = ValueIn(B, s)
      OBVIOUS
    <2>3. e \in Nat /\ w \in Nat /\ v \in Nat
      BY <1>2, <2>1, <2>2, PlanAssumption DEF Least, PlanAssumption
    <2>4. e * basis \in Int /\ w * v \in Int
      BY <2>3
    <2>5. room = e * basis - w * v
      BY <1>1, <2>2 DEF TargetRoom
    <2>6. QED
      BY <2>4, <2>5
  <1>4. price = None \/ price \in Nat \ {0}
    BY <1>1, <1>2 DEF PricesOK
  <1>5. plan.lines \in Lines(Symbols) /\ plan.left \in Nat /\ plan.skipped \in SUBSET [symbol : Symbols, reason : Reasons]
    BY DEF Plans
  <1>6. PICK why : why = TargetWhy(B, basis, r, price, plan.left, t)
    OBVIOUS
  <1>7. why \in Reasons
    <2>1. why \in {"unpriced", "at_or_above_cap", "at_or_above_target", "cash_exhausted", "min_line_usd"}
      <3>1. CASE price = Unpriced
        BY <1>6, <3>1, Zenon DEF TargetWhy
      <3>2. CASE price # Unpriced /\ room <= 0
        BY <1>1, <1>6, <3>2, Zenon DEF TargetWhy
      <3>3. CASE price # Unpriced /\ ~(room <= 0)
        BY <1>1, <1>6, <3>3, Zenon DEF TargetWhy
      <3>4. QED
        BY <3>1, <3>2, <3>3
    <2>2. QED
      BY <2>1 DEF Reasons
  <1>8. PICK n : n = IF price = None THEN 0 ELSE Shares(plan.left, room, price, r.line)
    OBVIOUS
  <1>9. Unpriced = None
    BY DeskAssumption DEF DeskAssumption
  <1>10. next = IF n > 0
                  THEN [plan EXCEPT !.left = @ - n * price, !.lines = Append(@, [symbol |-> s, shares |-> n, price |-> price])]
                  ELSE [plan EXCEPT !.skipped = @ \cup {[symbol |-> s, reason |-> why]}]
    BY <1>1, <1>6, <1>8, <1>9 DEF PlaceTarget
  <1>11. plan = [lines |-> plan.lines, left |-> plan.left, skipped |-> plan.skipped]
    BY DEF Plans
  <1>12. /\ n > 0 => /\ next.lines = Append(plan.lines, [symbol |-> s, shares |-> n, price |-> price])
                     /\ next.left = plan.left - n * price /\ next.skipped = plan.skipped
         /\ ~(n > 0) => /\ next.lines = plan.lines /\ next.left = plan.left
                        /\ next.skipped = plan.skipped \cup {[symbol |-> s, reason |-> why]}
         /\ next = [lines |-> next.lines, left |-> next.left, skipped |-> next.skipped]
    BY <1>10, <1>11
  <1>13. next.skipped \in SUBSET [symbol : Symbols, reason : Reasons]
    BY <1>2, <1>5, <1>7, <1>12
  <1>14. CASE price = None
    <2>1. n = 0 /\ ~(n > 0)
      BY <1>8, <1>14
    <2>2. next.lines = plan.lines /\ next.left = plan.left
      BY <1>12, <2>1
    <2>3. Spent(next) = Spent(plan) /\ \A x : Bought(next, x) = Bought(plan, x)
      BY <2>2 DEF Spent, Bought
    <2>4. Spent(plan) \in Nat /\ \A x : Bought(plan, x) \in Nat
      BY <1>5, LinesCost
    <2>5. Adds(plan, next, s, 0)
      BY <1>5, <2>2, <2>3, <2>4 DEF Adds
    <2>6. next \in Plans(Symbols)
      BY <1>5, <1>12, <1>13, <2>2 DEF Plans
    <2>7. QED
      BY <1>1, <1>3, <1>14, <2>5, <2>6
  <1>15. CASE price # None
    <2>1. price \in Nat \ {0} /\ n = Shares(plan.left, room, price, r.line)
      BY <1>4, <1>8, <1>15
    <2>2. OneLine(plan, next, s, room, price, r.line)
      BY <1>12, <2>1 DEF OneLine
    <2>4. /\ next.lines \in Lines(Symbols) /\ next.left \in Nat
          /\ \E c \in Nat : Spends(plan, next, s, room, price, r.line, c)
      BY <1>2, <1>3, <1>5, <2>1, <2>2, LineStep
    <2>5. next \in Plans(Symbols)
      BY <1>12, <1>13, <2>4 DEF Plans
    <2>6. PICK c \in Nat : /\ Adds(plan, next, s, c) /\ (c > 0 => Whole * c <= room)
                           /\ Full(next.left, room - Whole * c, price, r.line)
      BY <2>4 DEF Spends
    <2>7. QED
      BY <1>1, <1>3, <2>5, <2>6
  <1>16. QED
    BY <1>14, <1>15

\* No lines have been bought before the first.
LEMMA EmptyPlan ==
  ASSUME NEW plan, plan.lines = <<>>
  PROVE  /\ \A U : plan.lines \in Lines(U)
         /\ Spent(plan) = 0 /\ (\A s : Bought(plan, s) = 0) /\ \A S \in SUBSET Symbols : BoughtIn(plan, S) = 0
  <1>1. Spent(plan) = 0 /\ \A s : Bought(plan, s) = 0
    BY NoLines
  <1>2. ASSUME NEW S \in SUBSET Symbols PROVE BoughtIn(plan, S) = 0
    <2>1. PICK f : f = [s \in Symbols |-> Bought(plan, s)]
      OBVIOUS
    <2>2. \A s \in Symbols : f[s] = 0
      BY <1>1, <2>1
    <2>3. IsFiniteSet(S)
      BY DeskAssumption, FS_Subset DEF DeskAssumption
    <2> DEFINE P == {T \in SUBSET S : SumFunctionOnSet(f, T) = 0}
    <2>4. ASSUME NEW T \in SUBSET S PROVE IsFiniteSet(T) /\ \A x \in T : f[x] \in Nat
      BY <2>2, <2>3, FS_Subset
    <2>5. {} \in P
      <3>1. {} \in SUBSET S
        OBVIOUS
      <3>2. SumFunctionOnSet(f, {}) = 0
        BY <2>4, <3>1, SumSplit
      <3>3. QED
        BY <3>1, <3>2
    <2>6. ASSUME NEW T \in SUBSET S, NEW x \in T, T \ {x} \in P PROVE T \in P
      <3>1. SumFunctionOnSet(f, T) = f[x] + SumFunctionOnSet(f, T \ {x})
        BY <2>4, SumSplit
      <3>2. f[x] = 0 /\ SumFunctionOnSet(f, T \ {x}) = 0
        BY <2>2, <2>6
      <3>3. QED
        BY <3>1, <3>2
    <2> HIDE DEF P
    <2>7. S \in P
      BY <2>3, <2>5, <2>6, SubsetInduction
    <2>8. QED
      BY <2>1, <2>7 DEF P, BoughtIn
  <1>3. \A U : plan.lines \in Lines(U)
    BY DEF Lines
  <1>4. QED
    BY <1>1, <1>2, <1>3

\* What holds of the plan once the first i targets are placed: the money adds up; later
\* targets are untouched; each earlier one has room for what was bought of it, and no more
\* of it would be bought.
TargetInv(B, p, m, r, plan, i) ==
  /\ Spent(plan) + plan.left = m /\ BoughtIn(plan, Symbols) = Spent(plan)
  /\ \A j \in DOMAIN r.targets :
       LET t == r.targets[j]
           room == TargetRoom(B, Basis(B, m), r, t) - Whole * Bought(plan, t.symbol)
       IN /\ j > i => Bought(plan, t.symbol) = 0
          /\ j <= i => /\ Bought(plan, t.symbol) > 0 => room >= 0
                       /\ p[t.symbol] # None => Full(plan.left, room, p[t.symbol], r.line)

\* A target placed keeps the plan right, for itself and for those before it.
LEMMA TargetInvStep ==
  ASSUME NEW B, BookOK(B), NEW p, PricesOK(p), NEW m \in Nat, NEW r, RulesOK(r),
         NEW i \in DOMAIN r.targets, NEW plan \in Plans(Symbols), TargetInv(B, p, m, r, plan, i - 1),
         NEW next, next = PlaceTarget(B, Basis(B, m), r, p, plan, r.targets[i])
  PROVE  TargetInv(B, p, m, r, next, i)
  <1>1. PICK b, t : b = Basis(B, m) /\ t = r.targets[i]
    OBVIOUS
  <1>2. t \in [symbol : Symbols, weight : Nat] /\ t.symbol \in Symbols /\ r.cap \in Nat /\ r.line \in Nat
    <2>1. PICK q : q = r.targets
      OBVIOUS
    <2>2. q \in Seq([symbol : Symbols, weight : Nat]) /\ r.cap \in Nat /\ r.line \in Nat
      BY <2>1 DEF RulesOK
    <2>3. i \in 1..Len(q)
      BY <2>1, <2>2
    <2>4. q[i] \in [symbol : Symbols, weight : Nat]
      BY <2>2, <2>3, ElementOfSeq
    <2>5. QED
      BY <1>1, <2>1, <2>2, <2>4
  <1>3. b \in Nat
    <2>1. PortfolioValue(B) \in Nat
      BY BookSums
    <2>2. QED
      BY <1>1, <2>1 DEF Basis
  <1>4. next = PlaceTarget(B, b, r, p, plan, t)
    BY <1>1
  <1>5. /\ next \in Plans(Symbols) /\ TargetRoom(B, b, r, t) \in Int
        /\ \E c \in Nat : /\ Adds(plan, next, t.symbol, c)
                          /\ (c > 0 => Whole * c <= TargetRoom(B, b, r, t))
                          /\ (p[t.symbol] # None =>
                                Full(next.left, TargetRoom(B, b, r, t) - Whole * c, p[t.symbol], r.line))
    BY <1>2, <1>3, <1>4, TargetPlace
  <1>6. PICK c \in Nat : /\ Adds(plan, next, t.symbol, c)
                         /\ (c > 0 => Whole * c <= TargetRoom(B, b, r, t))
                         /\ (p[t.symbol] # None =>
                               Full(next.left, TargetRoom(B, b, r, t) - Whole * c, p[t.symbol], r.line))
    BY <1>5
  <1>7. plan.lines \in Lines(Symbols) /\ next.lines \in Lines(Symbols) /\ plan.left \in Nat /\ next.left \in Nat
    BY <1>5 DEF Plans
  <1>8. Spent(plan) \in Nat /\ Spent(next) \in Nat /\ (\A x : Bought(plan, x) \in Nat) /\ \A x : Bought(next, x) \in Nat
    BY <1>7, LinesCost
  <1>9. /\ Spent(next) = Spent(plan) + c /\ next.left + c = plan.left
        /\ \A x : Bought(next, x) = Bought(plan, x) + IF x = t.symbol THEN c ELSE 0
    BY <1>6 DEF Adds
  <1>10. Spent(next) + next.left = m
    BY <1>7, <1>8, <1>9 DEF TargetInv
  <1>11. BoughtIn(next, Symbols) = Spent(next)
    <2>1. Symbols \subseteq Symbols
      OBVIOUS
    <2>2. BoughtIn(plan, Symbols) \in Nat /\ BoughtIn(next, Symbols) = BoughtIn(plan, Symbols) + IF t.symbol \in Symbols THEN c ELSE 0
      BY <1>2, <1>6, <1>7, <2>1, BoughtSum
    <2>3. BoughtIn(plan, Symbols) = Spent(plan)
      BY DEF TargetInv
    <2>4. QED
      BY <1>2, <1>9, <2>2, <2>3
  <1>12. i \in Nat /\ \A j \in DOMAIN r.targets : j \in Nat
    BY DEF RulesOK
  <1>13. ASSUME NEW j \in DOMAIN r.targets, NEW u, u = r.targets[j], NEW room,
                room = TargetRoom(B, b, r, u) - Whole * Bought(next, u.symbol)
         PROVE  /\ j > i => Bought(next, u.symbol) = 0
                /\ j <= i => /\ Bought(next, u.symbol) > 0 => room >= 0
                             /\ p[u.symbol] # None => Full(next.left, room, p[u.symbol], r.line)
    <2>1. CASE j = i
      <3>1. u = t /\ Bought(plan, t.symbol) = 0
        BY <1>1, <1>12, <1>13, <2>1 DEF TargetInv
      <3>2. Bought(next, u.symbol) = c
        BY <1>9, <3>1
      <3>3. room = TargetRoom(B, b, r, t) - Whole * c
        BY <1>13, <3>1, <3>2
      <3>4. c > 0 => room >= 0
        <4>1. PICK w, k : w = Whole * c /\ k = TargetRoom(B, b, r, t)
          OBVIOUS
        <4>2. w \in Int /\ k \in Int /\ room = k - w /\ (c > 0 => w <= k)
          BY <1>5, <1>6, <3>3, <4>1, PlanAssumption DEF PlanAssumption
        <4>3. QED
          BY <4>2
      <3>5. QED
        BY <1>6, <1>12, <2>1, <3>1, <3>2, <3>3, <3>4
    <2>2. CASE j # i
      <3>1. u.symbol # t.symbol
        BY <1>1, <1>13, <2>2 DEF RulesOK
      <3>2. Bought(next, u.symbol) = Bought(plan, u.symbol)
        BY <1>8, <1>9, <3>1
      <3>3. room = TargetRoom(B, b, r, u) - Whole * Bought(plan, u.symbol)
        BY <1>13, <3>2
      <3>4. /\ j > i - 1 => Bought(plan, u.symbol) = 0
            /\ j <= i - 1 => /\ Bought(plan, u.symbol) > 0 => room >= 0
                             /\ p[u.symbol] # None => Full(plan.left, room, p[u.symbol], r.line)
        BY <1>1, <1>13, <3>3 DEF TargetInv
      <3>5. next.left <= plan.left
        BY <1>7, <1>9
      <3>6. Full(plan.left, room, p[u.symbol], r.line) => Full(next.left, room, p[u.symbol], r.line)
        BY <1>7, <3>5 DEF Full
      <3>7. (j > i => j > i - 1) /\ (j <= i => j <= i - 1)
        BY <1>12, <2>2
      <3>8. QED
        BY <3>2, <3>4, <3>6, <3>7
    <2>3. QED
      BY <2>1, <2>2
  <1>14. QED
    BY <1>1, <1>10, <1>11, <1>13 DEF TargetInv

\* The whole plan towards the targets.
LEMMA TargetGood ==
  ASSUME NEW B, BookOK(B), NEW p, PricesOK(p), NEW m \in Nat, NEW r, RulesOK(r)
  PROVE  /\ TargetPlan(B, p, m, r) \in Plans(Symbols)
         /\ \E n \in Nat : DOMAIN r.targets = 1..n /\ TargetInv(B, p, m, r, TargetPlan(B, p, m, r), n)
  <1>1. PICK n \in Nat : n = Len(r.targets) /\ DOMAIN r.targets = 1..n
    BY DEF RulesOK
  <1>2. PICK D, start : D = Plans(Symbols) /\ start = Empty(m)
    OBVIOUS
  <1>3. start.lines = <<>> /\ start.left = m /\ start = [lines |-> <<>>, left |-> m, skipped |-> {}]
    BY <1>2 DEF Empty
  <1>4. start \in D
    <2>1. start.lines \in Lines(Symbols)
      BY <1>3, EmptyPlan
    <2>2. QED
      BY <1>2, <1>3, <2>1 DEF Plans
  <1>5. ASSUME NEW plan \in D, NEW i \in 1..n
        PROVE  PlaceTarget(B, Basis(B, m), r, p, plan, r.targets[i]) \in D
    <2>1. PICK b, t, next : b = Basis(B, m) /\ t = r.targets[i] /\ next = PlaceTarget(B, b, r, p, plan, t)
      OBVIOUS
    <2>2. b \in Nat
      <3>1. PortfolioValue(B) \in Nat
        BY BookSums
      <3>2. QED
        BY <2>1, <3>1 DEF Basis
    <2>3. t \in [symbol : Symbols, weight : Nat] /\ r.cap \in Nat /\ r.line \in Nat
      <3>1. PICK q : q = r.targets
        OBVIOUS
      <3>2. q \in Seq([symbol : Symbols, weight : Nat]) /\ i \in 1..Len(q)
        BY <1>1, <3>1 DEF RulesOK
      <3>3. q[i] \in [symbol : Symbols, weight : Nat]
        BY <3>2, ElementOfSeq
      <3>4. QED
        BY <2>1, <3>1, <3>3 DEF RulesOK
    <2>4. plan \in Plans(Symbols)
      BY <1>2
    <2>5. next \in Plans(Symbols)
      BY <2>1, <2>2, <2>3, <2>4, TargetPlace
    <2>6. QED
      BY <1>2, <2>1, <2>5
  <1>6. PICK h : /\ h[0] = start /\ \A i \in 0..n : h[i] \in D
                 /\ \A i \in 1..n : h[i] = PlaceTarget(B, Basis(B, m), r, p, h[i - 1], r.targets[i])
                 /\ TargetPlan(B, p, m, r) = h[n]
    <2>1. Empty(m) \in D
      BY <1>2, <1>4
    <2>2. \A plan \in D : \A i \in 1..n : PlaceTarget(B, Basis(B, m), r, p, plan, r.targets[i]) \in D
      BY <1>5
    <2>3. \E h : /\ h[0] = Empty(m) /\ \A i \in 0..n : h[i] \in D
                 /\ \A i \in 1..n : h[i] = PlaceTarget(B, Basis(B, m), r, p, h[i - 1], r.targets[i])
                 /\ TargetPlan(B, p, m, r) = h[n]
      BY <1>1, <2>1, <2>2, TargetSteps
    <2>4. QED
      BY <1>2, <2>3
  <1> DEFINE P == {i \in 0..n : TargetInv(B, p, m, r, h[i], i)}
  <1>7. 0 \in P
    <2>1. Spent(start) = 0 /\ (\A s : Bought(start, s) = 0) /\ BoughtIn(start, Symbols) = 0
      <3>1. Symbols \in SUBSET Symbols
        OBVIOUS
      <3>2. QED
        BY <1>3, <3>1, EmptyPlan
    <2>2. \A j \in DOMAIN r.targets : ~(j <= 0)
      BY <1>1
    <2>3. Spent(start) + start.left = m
      BY <1>3, <2>1
    <2>4. TargetInv(B, p, m, r, start, 0)
      BY <2>1, <2>2, <2>3 DEF TargetInv
    <2>5. QED
      BY <1>6, <2>4
  <1>8. ASSUME NEW i \in 1..n, i - 1 \in P PROVE i \in P
    <2>1. PICK plan : plan = h[i - 1]
      OBVIOUS
    <2>2. TargetInv(B, p, m, r, plan, i - 1) /\ i \in 0..n /\ i - 1 \in 0..n
      BY <1>8, <2>1
    <2>3. plan \in Plans(Symbols) /\ i \in DOMAIN r.targets
      BY <1>1, <1>2, <1>6, <2>1, <2>2
    <2>4. h[i] = PlaceTarget(B, Basis(B, m), r, p, plan, r.targets[i])
      BY <1>6, <2>1
    <2>5. TargetInv(B, p, m, r, h[i], i)
      BY <2>2, <2>3, <2>4, TargetInvStep
    <2>6. QED
      BY <2>2, <2>5
  <1>9. TargetInv(B, p, m, r, h[n], n)
    <2> HIDE DEF P
    <2>1. \A i \in 1..n : i - 1 \in P => i \in P
      BY <1>8
    <2>2. \A i \in 0..n : i \in P
      BY <1>7, <2>1, PrefixInduction
    <2>3. n \in P
      BY <2>2
    <2>4. QED
      BY <2>3 DEF P
  <1>10. QED
    BY <1>1, <1>2, <1>6, <1>9

\* If of no target a share would be bought there are no lines.
Sated(B, p, m, r) ==
  \A j \in DOMAIN r.targets : LET t == r.targets[j] IN
    p[t.symbol] # Unpriced => Shares(m, TargetRoom(B, Basis(B, m), r, t), p[t.symbol], r.line) = 0

\* If for no target a share would be bought there are no lines.
LEMMA TargetIdle ==
  ASSUME NEW B, NEW p, NEW m \in Nat, NEW r, NEW n \in Nat, DOMAIN r.targets = 1..n, Sated(B, p, m, r)
  PROVE  TargetPlan(B, p, m, r).lines = <<>>
  <1>1. PICK b : b = Basis(B, m)
    OBVIOUS
  <1> DEFINE All == UNION {{[symbol |-> r.targets[j].symbol, reason |-> TargetWhy(B, b, r, p[r.targets[j].symbol], m, r.targets[j])]} : j \in 1..n}
  <1>2. PICK D : D = [lines : {<<>>}, left : {m}, skipped : SUBSET All]
    OBVIOUS
  <1>3. Empty(m) \in D
    BY <1>2 DEF Empty
  <1>4. ASSUME NEW plan \in D, NEW i \in 1..n PROVE PlaceTarget(B, b, r, p, plan, r.targets[i]) \in D
    <2>1. PICK t, price, room, why : /\ t = r.targets[i] /\ price = p[t.symbol] /\ room = TargetRoom(B, b, r, t)
                                     /\ why = TargetWhy(B, b, r, price, plan.left, t)
      OBVIOUS
    <2>2. plan = [lines |-> <<>>, left |-> m, skipped |-> plan.skipped] /\ plan.skipped \in SUBSET All /\ plan.left = m
      BY <1>2
    <2>3. price # Unpriced => Shares(plan.left, room, price, r.line) = 0
      BY <1>1, <2>1, <2>2 DEF Sated
    <2>4. (IF price = Unpriced THEN 0 ELSE Shares(plan.left, room, price, r.line)) = 0
      BY <2>3
    <2>5. PlaceTarget(B, b, r, p, plan, t) = [plan EXCEPT !.skipped = @ \cup {[symbol |-> t.symbol, reason |-> why]}]
      BY <2>1, <2>4 DEF PlaceTarget
    <2>6. [symbol |-> t.symbol, reason |-> why] \in All
      BY <2>1, <2>2
    <2>7. PICK e : e = [symbol |-> t.symbol, reason |-> why]
      OBVIOUS
    <2> HIDE DEF All
    <2>8. PlaceTarget(B, b, r, p, plan, t) = [lines |-> <<>>, left |-> m, skipped |-> plan.skipped \cup {e}]
      <3>1. PICK q, k : q = plan.skipped /\ k = plan.skipped \cup {e}
        OBVIOUS
      <3>2. plan = [lines |-> <<>>, left |-> m, skipped |-> q]
        BY <2>2, <3>1
      <3>3. PlaceTarget(B, b, r, p, plan, t) = [plan EXCEPT !.skipped = k]
        BY <2>5, <2>7, <3>1
      <3>4. [[lines |-> <<>>, left |-> m, skipped |-> q] EXCEPT !.skipped = k] = [lines |-> <<>>, left |-> m, skipped |-> k]
        OBVIOUS
      <3>5. QED
        BY <3>1, <3>2, <3>3, <3>4
    <2>9. plan.skipped \cup {e} \in SUBSET All
      BY <2>2, <2>6, <2>7
    <2>10. QED
      BY <1>2, <2>1, <2>8, <2>9
  <1>5. \A plan \in D : \A i \in 1..n : PlaceTarget(B, Basis(B, m), r, p, plan, r.targets[i]) \in D
    BY <1>1, <1>4
  <1> HIDE DEF All
  <1>6. \E h : /\ h[0] = Empty(m) /\ \A i \in 0..n : h[i] \in D
               /\ \A i \in 1..n : h[i] = PlaceTarget(B, Basis(B, m), r, p, h[i - 1], r.targets[i])
               /\ TargetPlan(B, p, m, r) = h[n]
    <2>1. DOMAIN r.targets = 1..n
      OBVIOUS
    <2>2. QED
      BY <1>3, <1>5, <2>1, TargetSteps
  <1>7. TargetPlan(B, p, m, r) \in D
    BY <1>6
  <1>8. QED
    BY <1>2, <1>7

-----------------------------------------------------------------------------
\* The sum of two sums.
LEMMA SumPlus ==
  ASSUME NEW f, NEW g, NEW k, NEW S, IsFiniteSet(S),
         \A x \in S : f[x] \in Nat /\ g[x] \in Nat /\ k[x] = f[x] + g[x]
  PROVE  SumFunctionOnSet(k, S) = SumFunctionOnSet(f, S) + SumFunctionOnSet(g, S)
  <1> DEFINE P == {T \in SUBSET S : SumFunctionOnSet(k, T) = SumFunctionOnSet(f, T) + SumFunctionOnSet(g, T)}
  <1>1. ASSUME NEW T \in SUBSET S
        PROVE  /\ IsFiniteSet(T) /\ (\A x \in T : f[x] \in Nat) /\ (\A x \in T : g[x] \in Nat)
               /\ \A x \in T : k[x] \in Nat
    BY FS_Subset
  <1>2. {} \in P
    <2>1. {} \in SUBSET S
      OBVIOUS
    <2>2. SumFunctionOnSet(k, {}) = 0 /\ SumFunctionOnSet(f, {}) = 0 /\ SumFunctionOnSet(g, {}) = 0
      BY <1>1, <2>1, SumSplit
    <2>3. QED
      BY <2>1, <2>2
  <1>3. ASSUME NEW T \in SUBSET S, NEW x \in T, T \ {x} \in P PROVE T \in P
    <2>1. PICK R, a, b, c : /\ R = T \ {x} /\ a = SumFunctionOnSet(f, R) /\ b = SumFunctionOnSet(g, R)
                            /\ c = SumFunctionOnSet(k, R)
      OBVIOUS
    <2>2. a \in Nat /\ SumFunctionOnSet(f, T) = f[x] + a
      BY <1>1, <2>1, SumSplit
    <2>3. b \in Nat /\ SumFunctionOnSet(g, T) = g[x] + b
      BY <1>1, <2>1, SumSplit
    <2>4. c \in Nat /\ SumFunctionOnSet(k, T) = k[x] + c
      BY <1>1, <2>1, SumSplit
    <2>5. c = a + b
      BY <1>3, <2>1
    <2>6. f[x] \in Nat /\ g[x] \in Nat /\ k[x] = f[x] + g[x]
      OBVIOUS
    <2>7. k[x] + c = (f[x] + a) + (g[x] + b)
      BY <2>2, <2>3, <2>5, <2>6
    <2>8. QED
      BY <2>2, <2>3, <2>4, <2>7
  <1> HIDE DEF P
  <1>4. S \in P
    BY <1>2, <1>3, SubsetInduction
  <1>5. QED
    BY <1>4 DEF P

\* What the plan did not buy is in no line.
LEMMA NotBought ==
  ASSUME NEW plan, NEW s, \A i \in DOMAIN plan.lines : plan.lines[i].symbol # s
  PROVE  Bought(plan, s) = 0
  <1>1. PICK f : f = [i \in DOMAIN plan.lines |-> plan.lines[i].shares * plan.lines[i].price]
    OBVIOUS
  <1>2. SumFunctionOnSet(f, {}) = 0
    BY FS_EmptySet, SumSplit
  <1>3. {i \in DOMAIN plan.lines : plan.lines[i].symbol = s} = {}
    OBVIOUS
  <1>4. QED
    BY <1>1, <1>2, <1>3 DEF Bought, SumOver

\* Once a plan is carried out every symbol is worth what was bought of it more.
CarriedOut(plan, U) ==
  /\ BookOK(Done(plan)) /\ DOMAIN Done(plan) \subseteq DOMAIN Book \cup U
  /\ \A s \in Symbols : ValueIn(Done(plan), s) = ValueIn(Book, s) + Bought(plan, s)
  /\ PortfolioValue(Done(plan)) = PortfolioValue(Book) + BoughtIn(plan, Symbols)
  /\ \A sec : SectorValue(Done(plan), sec) = SectorValue(Book, sec) + BoughtIn(plan, InSector(sec))

\* Every plan leads to such a book.
LEMMA DoneBook ==
  ASSUME BookOK(Book), NEW U, U \subseteq Symbols, NEW plan, plan.lines \in Lines(U)
  PROVE  CarriedOut(plan, U)
  <1>1. PICK B, C : B = Book /\ C = Done(plan)
    OBVIOUS
  <1>2. BookOK(B) /\ Unpriced = None /\ None \notin Nat
    BY <1>1, DeskAssumption DEF DeskAssumption
  <1>3. PICK L : L = {plan.lines[i].symbol : i \in DOMAIN plan.lines}
    OBVIOUS
  <1>4. L \subseteq U
    <2>1. ASSUME NEW i \in DOMAIN plan.lines PROVE plan.lines[i].symbol \in U
      <3>1. PICK q : q = plan.lines
        OBVIOUS
      <3>2. q \in Seq(LineOf(U)) /\ i \in 1..Len(q)
        BY <3>1 DEF Lines
      <3>3. q[i] \in LineOf(U)
        BY <3>2, ElementOfSeq
      <3>4. QED
        BY <3>1, <3>3 DEF LineOf
    <2>2. QED
      BY <1>3, <2>1
  <1>5. C = [s \in DOMAIN B \cup L |->
               [value |-> IF s \in DOMAIN B /\ B[s].value = None /\ Bought(plan, s) = 0 THEN None
                          ELSE ValueIn(B, s) + Bought(plan, s)]]
    BY <1>1, <1>3 DEF Done
  <1>6. \A s : Bought(plan, s) \in Nat
    BY LinesCost
  <1>7. \A s \in Symbols : ValueIn(B, s) \in Nat
    BY <1>2, BookSums
  <1>8. DOMAIN C \subseteq Symbols /\ DOMAIN C \subseteq DOMAIN B \cup U
    BY <1>2, <1>4, <1>5 DEF BookOK
  <1>9. BookOK(C)
    BY <1>5, <1>6, <1>7, <1>8 DEF BookOK
  <1>10. ASSUME NEW s \in Symbols PROVE ValueIn(C, s) = ValueIn(B, s) + Bought(plan, s)
    <2>1. PICK a, b : a = ValueIn(B, s) /\ b = Bought(plan, s)
      OBVIOUS
    <2>2. a \in Nat /\ b \in Nat
      BY <1>6, <1>7, <2>1
    <2>3. CASE s \notin DOMAIN B \cup L
      <3>1. b = 0
        BY <1>3, <2>1, <2>3, NotBought
      <3>2. a = 0 /\ ValueIn(C, s) = 0
        BY <1>5, <2>1, <2>3 DEF ValueIn, Valued
      <3>3. QED
        BY <2>1, <3>1, <3>2
    <2>4. CASE s \in DOMAIN B \cup L
      <3>1. C[s].value = IF s \in DOMAIN B /\ B[s].value = None /\ b = 0 THEN None ELSE a + b
        BY <1>5, <2>1, <2>4
      <3>2. CASE s \in DOMAIN B /\ B[s].value = None /\ b = 0
        <4>1. a = 0 /\ ValueIn(C, s) = 0
          BY <1>2, <2>1, <3>1, <3>2 DEF ValueIn, Valued
        <4>2. QED
          BY <2>1, <3>2, <4>1
      <3>3. CASE ~(s \in DOMAIN B /\ B[s].value = None /\ b = 0)
        <4>1. C[s].value = a + b /\ a + b \in Nat
          BY <2>2, <3>1, <3>3
        <4>2. s \in Valued(C)
          BY <1>2, <1>5, <2>4, <4>1 DEF Valued
        <4>3. QED
          BY <2>1, <4>1, <4>2 DEF ValueIn
      <3>4. QED
        BY <3>2, <3>3
    <2>5. QED
      BY <2>3, <2>4
  <1>11. ASSUME NEW S, S \subseteq Symbols
         PROVE  SumFunctionOnSet(ValuesOf(C), S) = SumFunctionOnSet(ValuesOf(B), S) + BoughtIn(plan, S)
    <2>1. PICK f, g, k : f = ValuesOf(B) /\ g = [x \in Symbols |-> Bought(plan, x)] /\ k = ValuesOf(C)
      OBVIOUS
    <2>2. IsFiniteSet(S)
      BY <1>11, DeskAssumption, FS_Subset DEF DeskAssumption
    <2>3. \A x \in S : f[x] \in Nat /\ g[x] \in Nat /\ k[x] = f[x] + g[x]
      BY <1>6, <1>7, <1>10, <1>11, <2>1 DEF ValuesOf
    <2>4. SumFunctionOnSet(k, S) = SumFunctionOnSet(f, S) + SumFunctionOnSet(g, S)
      BY <2>2, <2>3, SumPlus
    <2>5. QED
      BY <2>1, <2>4 DEF BoughtIn
  <1>12. PortfolioValue(C) = PortfolioValue(B) + BoughtIn(plan, Symbols)
    <2>1. Symbols \subseteq Symbols
      OBVIOUS
    <2>2. PortfolioValue(B) = SumFunctionOnSet(ValuesOf(B), Symbols)
      BY <1>2, BookSums
    <2>3. PortfolioValue(C) = SumFunctionOnSet(ValuesOf(C), Symbols)
      BY <1>9, BookSums
    <2>4. QED
      BY <1>11, <2>1, <2>2, <2>3
  <1>13. ASSUME NEW sec PROVE SectorValue(C, sec) = SectorValue(B, sec) + BoughtIn(plan, InSector(sec))
    <2>1. InSector(sec) \subseteq Symbols
      BY DEF InSector
    <2>2. SectorValue(B, sec) = SumFunctionOnSet(ValuesOf(B), InSector(sec))
      BY <1>2, BookSums
    <2>3. SectorValue(C, sec) = SumFunctionOnSet(ValuesOf(C), InSector(sec))
      BY <1>9, BookSums
    <2>4. QED
      BY <1>11, <2>1, <2>2, <2>3
  <1>14. QED
    BY <1>1, <1>8, <1>9, <1>10, <1>12, <1>13 DEF CarriedOut

\* The plan towards the targets keeps them and leaves nothing it could place.
LEMMA TargetsSound ==
  ASSUME BookOK(Book), PricesOK(TargetPrices), rules # None => RulesOK(rules)
  PROVE  TargetPlanSound
  <1> SUFFICES ASSUME rules # None, NEW m \in Amounts, NEW plan, plan = TargetPlan(Book, TargetPrices, m, rules)
               PROVE  /\ Spent(plan) + plan.left = m /\ plan.left >= 0
                      /\ \A i \in DOMAIN rules.targets : LET t == rules.targets[i] IN
                           Bought(plan, t.symbol) > 0 => TargetRoom(Done(plan), Basis(Book, m), rules, t) >= 0
                      /\ TargetPlan(Done(plan), TargetPrices, plan.left, rules).lines = <<>>
    BY DEF TargetPlanSound
  <1>1. PICK B, C, p, r, b : B = Book /\ C = Done(plan) /\ p = TargetPrices /\ r = rules /\ b = Basis(B, m)
    OBVIOUS
  <1>2. BookOK(B) /\ PricesOK(p) /\ RulesOK(r) /\ m \in Nat
    BY <1>1, PlanAssumption DEF PlanAssumption
  <1>3. plan = TargetPlan(B, p, m, r)
    BY <1>1
  <1>4. plan \in Plans(Symbols) /\ \E n \in Nat : DOMAIN r.targets = 1..n /\ TargetInv(B, p, m, r, plan, n)
    BY <1>2, <1>3, TargetGood
  <1>5. PICK n \in Nat : DOMAIN r.targets = 1..n /\ TargetInv(B, p, m, r, plan, n)
    BY <1>4
  <1>6. plan.lines \in Lines(Symbols) /\ plan.left \in Nat
    BY <1>4 DEF Plans
  <1>7. Spent(plan) + plan.left = m /\ BoughtIn(plan, Symbols) = Spent(plan)
    BY <1>5 DEF TargetInv
  <1>8. Spent(plan) \in Nat /\ \A s : Bought(plan, s) \in Nat
    BY <1>6, LinesCost
  <1>9. /\ BookOK(C) /\ \A s \in Symbols : ValueIn(C, s) = ValueIn(B, s) + Bought(plan, s)
        /\ PortfolioValue(C) = PortfolioValue(B) + BoughtIn(plan, Symbols)
    <2>1. Symbols \subseteq Symbols
      OBVIOUS
    <2>2. CarriedOut(plan, Symbols)
      BY <1>6, <2>1, DoneBook
    <2>3. QED
      BY <1>1, <2>2 DEF CarriedOut
  <1>10. Basis(C, plan.left) = b /\ b \in Nat
    <2>1. PortfolioValue(B) \in Nat
      BY <1>2, BookSums
    <2>2. QED
      BY <1>1, <1>2, <1>6, <1>7, <1>8, <1>9, <2>1 DEF Basis
  <1>11. ASSUME NEW i \in DOMAIN r.targets, NEW t, t = r.targets[i]
         PROVE  /\ t.symbol \in Symbols /\ TargetRoom(C, b, r, t) \in Int
                /\ TargetRoom(C, b, r, t) = TargetRoom(B, b, r, t) - Whole * Bought(plan, t.symbol)
    <2>1. t \in [symbol : Symbols, weight : Nat] /\ r.cap \in Nat
      <3>1. PICK q : q = r.targets
        OBVIOUS
      <3>2. q \in Seq([symbol : Symbols, weight : Nat]) /\ i \in 1..Len(q)
        BY <1>2, <3>1 DEF RulesOK
      <3>3. q[i] \in [symbol : Symbols, weight : Nat]
        BY <3>2, ElementOfSeq
      <3>4. QED
        BY <1>2, <1>11, <3>1, <3>3 DEF RulesOK
    <2>2. PICK e, w, v, u, x : /\ e = Least(t.weight, r.cap) /\ w = Whole /\ v = ValueIn(B, t.symbol)
                               /\ u = ValueIn(C, t.symbol) /\ x = Bought(plan, t.symbol)
      OBVIOUS
    <2>3. e \in Nat /\ w \in Nat /\ v \in Nat /\ x \in Nat /\ u = v + x
      <3>1. v \in Nat
        BY <1>2, <2>1, <2>2, BookSums
      <3>2. e \in Nat /\ w \in Nat
        BY <2>1, <2>2, PlanAssumption DEF Least, PlanAssumption
      <3>3. QED
        BY <1>8, <1>9, <2>1, <2>2, <3>1, <3>2
    <2>4. TargetRoom(C, b, r, t) = e * b - w * u /\ TargetRoom(B, b, r, t) = e * b - w * v
      BY <2>2 DEF TargetRoom
    <2>5. w * u = w * v + w * x /\ w * v \in Nat /\ w * x \in Nat /\ e * b \in Nat
      BY <1>10, <2>3
    <2>6. PICK a, c, d : a = e * b /\ c = w * v /\ d = w * x
      OBVIOUS
    <2>7. a \in Nat /\ c \in Nat /\ d \in Nat /\ TargetRoom(C, b, r, t) = a - (c + d) /\ TargetRoom(B, b, r, t) = a - c
      BY <2>4, <2>5, <2>6
    <2>8. TargetRoom(C, b, r, t) \in Int /\ TargetRoom(C, b, r, t) = TargetRoom(B, b, r, t) - d
      BY <2>7
    <2>9. QED
      BY <2>1, <2>2, <2>6, <2>8
  <1>12. ASSUME NEW i \in DOMAIN r.targets, NEW t, t = r.targets[i]
         PROVE  /\ Bought(plan, t.symbol) > 0 => TargetRoom(C, b, r, t) >= 0
                /\ p[t.symbol] # None => Full(plan.left, TargetRoom(C, b, r, t), p[t.symbol], r.line)
    <2>1. TargetRoom(C, b, r, t) = TargetRoom(B, b, r, t) - Whole * Bought(plan, t.symbol)
      BY <1>11, <1>12
    <2>2. i <= n
      BY <1>5
    <2>3. QED
      BY <1>1, <1>5, <1>12, <2>1, <2>2 DEF TargetInv
  <1>13. Sated(C, p, plan.left, r)
    <2>1. ASSUME NEW j \in DOMAIN r.targets, NEW t, t = r.targets[j], p[t.symbol] # Unpriced
          PROVE  Shares(plan.left, TargetRoom(C, b, r, t), p[t.symbol], r.line) = 0
      <3>1. TargetRoom(C, b, r, t) \in Int
        BY <1>11, <2>1
      <3>2. Full(plan.left, TargetRoom(C, b, r, t), p[t.symbol], r.line)
        BY <1>12, <2>1, DeskAssumption DEF DeskAssumption
      <3>3. QED
        BY <1>6, <3>1, <3>2 DEF Full
    <2>2. QED
      BY <1>10, <2>1 DEF Sated
  <1>14. TargetPlan(C, p, plan.left, r).lines = <<>>
    BY <1>5, <1>6, <1>13, TargetIdle
  <1>15. QED
    BY <1>1, <1>6, <1>7, <1>12, <1>14

-----------------------------------------------------------------------------
\* The candidates of a ranking are rated and have their places in the alphabet.
Rated(S) == S \subseteq Symbols /\ \A s \in S : Rating[s] # NoRating

\* The ranking is an order in which no two are equal.
LEMMA BeforeOrder ==
  ASSUME NEW B, BookOK(B), NEW S, Rated(S)
  PROVE  /\ \A s, t \in S : s # t => Before(B, s, t) \/ Before(B, t, s)
         /\ \A s, t, u \in S : Before(B, s, t) /\ Before(B, t, u) => Before(B, s, u)
  <1> DEFINE score(s) == Rating[s].score
             value(s) == ValueIn(B, s)
  <1>1. ASSUME NEW s \in S PROVE score(s) \in Int /\ value(s) \in Nat /\ Rank(s) \in Nat /\ Alphabet[Rank(s)] = s
    <2>1. s \in Symbols /\ Rating[s] # NoRating
      BY DEF Rated
    <2>2. value(s) \in Nat
      BY <2>1, BookSums
    <2>3. score(s) \in Int
      BY <2>1, PlanAssumption DEF PlanAssumption
    <2>4. \E i \in DOMAIN Alphabet : Alphabet[i] = s
      BY <2>1, PlanAssumption DEF PlanAssumption
    <2>5. Rank(s) \in DOMAIN Alphabet /\ Alphabet[Rank(s)] = s
      BY <2>4 DEF Rank
    <2>6. Rank(s) \in Nat
      BY <2>5, PlanAssumption DEF PlanAssumption
    <2>7. QED
      BY <2>2, <2>3, <2>5, <2>6
  <1>2. \A s, t : Before(B, s, t) <=>
          \/ score(s) > score(t)
          \/ /\ score(s) = score(t)
             /\ value(s) < value(t) \/ (value(s) = value(t) /\ Rank(s) < Rank(t))
    BY DEF Before
  <1> HIDE DEF score, value
  <1>3. ASSUME NEW s \in S, NEW t \in S, s # t PROVE Before(B, s, t) \/ Before(B, t, s)
    <2>1. Rank(s) # Rank(t)
      BY <1>1, <1>3
    <2>2. QED
      BY <1>1, <1>2, <2>1
  <1>4. ASSUME NEW s \in S, NEW t \in S, NEW u \in S, Before(B, s, t), Before(B, t, u) PROVE Before(B, s, u)
    BY <1>1, <1>2, <1>4
  <1>5. QED
    BY <1>3, <1>4

\* q is the ranking of S: everyone once, none before who is behind.
Sorted(B, S, q) ==
  /\ q \in [1..Cardinality(S) -> S] /\ (\A s \in S : \E i \in 1..Cardinality(S) : q[i] = s)
  /\ \A i, j \in 1..Cardinality(S) : i # j => q[i] # q[j]
  /\ \A i, j \in 1..Cardinality(S) : i < j => Before(B, q[i], q[j])

\* The last may be put behind the ranking of the others.
LEMMA SortedLast ==
  ASSUME NEW B, NEW T, IsFiniteSet(T), NEW z \in T, NEW q, Sorted(B, T \ {z}, q),
         \A t \in T \ {z} : Before(B, t, z)
  PROVE  \E r : Sorted(B, T, r)
  <1>1. PICK n, S : n = Cardinality(T) /\ S = T \ {z}
    OBVIOUS
  <1>2. n \in Nat /\ Cardinality(S) = n - 1 /\ n - 1 \in Nat
    <2>1. n \in Nat
      BY <1>1, FS_CardinalityType
    <2>2. IsFiniteSet(S) /\ Cardinality(S) = n - 1
      BY <1>1, FS_RemoveElement
    <2>3. Cardinality(S) \in Nat
      BY <2>2, FS_CardinalityType
    <2>4. QED
      BY <2>1, <2>2, <2>3
  <1>3. /\ q \in [1..(n - 1) -> S] /\ (\A s \in S : \E i \in 1..(n - 1) : q[i] = s)
        /\ \A i, j \in 1..(n - 1) : i # j => q[i] # q[j]
        /\ \A i, j \in 1..(n - 1) : i < j => Before(B, q[i], q[j])
    BY <1>1, <1>2 DEF Sorted
  <1>4. PICK r : r = [i \in 1..n |-> IF i = n THEN z ELSE q[i]]
    OBVIOUS
  <1>5. n \in 1..n /\ r[n] = z /\ \A i \in 1..n : i # n => i \in 1..(n - 1) /\ r[i] = q[i]
    BY <1>2, <1>4
  <1>6. \A i \in 1..(n - 1) : i \in 1..n /\ i # n /\ r[i] = q[i] /\ q[i] \in S
    BY <1>2, <1>3, <1>4
  <1>7. r \in [1..n -> T]
    BY <1>1, <1>4, <1>5, <1>6
  <1>8. \A s \in T : \E i \in 1..n : r[i] = s
    BY <1>1, <1>3, <1>5, <1>6
  <1>9. \A i, j \in 1..n : i # j => r[i] # r[j]
    BY <1>1, <1>3, <1>5, <1>6
  <1>10. \A i, j \in 1..n : i < j => Before(B, r[i], r[j])
    <2>1. ASSUME NEW i \in 1..n, NEW j \in 1..n, i < j PROVE Before(B, r[i], r[j])
      <3>1. i # n
        BY <1>2, <2>1
      <3>2. i \in 1..(n - 1) /\ r[i] = q[i] /\ q[i] \in S
        BY <1>5, <1>6, <3>1
      <3>3. CASE j = n
        BY <1>1, <1>5, <3>2, <3>3
      <3>4. CASE j # n
        BY <1>3, <1>5, <2>1, <3>2, <3>4
      <3>5. QED
        BY <3>3, <3>4
    <2>2. QED
      BY <2>1
  <1>11. Sorted(B, T, r)
    BY <1>1, <1>7, <1>8, <1>9, <1>10 DEF Sorted
  <1>12. QED
    BY <1>11

\* Every set of candidates has a ranking.
LEMMA RankingExists ==
  ASSUME NEW B, BookOK(B), NEW S, Rated(S)
  PROVE  IsFiniteSet(S) /\ \E q : Sorted(B, S, q)
  <1>1. IsFiniteSet(S)
    BY DeskAssumption, FS_Subset DEF DeskAssumption, Rated
  <1> DEFINE Bad == {T \in SUBSET S : ~\E q : Sorted(B, T, q)}
  <1>2. ASSUME Bad # {} PROVE FALSE
    <2>1. PICK W : W = Bad
      OBVIOUS
    <2>2. W \subseteq SUBSET S /\ W # {}
      BY <1>2, <2>1
    <2>3. PICK T \in W : \A U \in W : U \subseteq T => U = T
      BY <1>1, <2>2, SmallestSubset
    <2>4. T \in SUBSET S /\ ~\E q : Sorted(B, T, q)
      BY <2>1
    <2>5. ASSUME NEW U \in SUBSET T, U # T PROVE \E q : Sorted(B, U, q)
      BY <2>1, <2>3, <2>4, <2>5
    <2>6. IsFiniteSet(T)
      BY <1>1, <2>4, FS_Subset
    <2>7. CASE T = {}
      <3>1. Cardinality({}) = 0
        BY FS_EmptySet
      <3>2. PICK q : q = [i \in 1..0 |-> 0]
        OBVIOUS
      <3>3. 1..0 = {}
        OBVIOUS
      <3>4. q \in [1..0 -> {}]
        BY <3>2, <3>3
      <3>5. Sorted(B, {}, q)
        BY <3>1, <3>3, <3>4 DEF Sorted
      <3>6. QED
        BY <2>4, <2>7, <3>5
    <2>8. CASE T # {}
      <3>1. PICK y \in T : TRUE
        BY <2>8
      <3>2. PICK R : R = T \ {y}
        OBVIOUS
      <3>3. PICK q : Sorted(B, R, q)
        BY <2>5, <3>1, <3>2
      <3>4. \E z \in T : \A t \in T \ {z} : Before(B, t, z)
        <4>1. CASE R = {}
          BY <3>1, <3>2, <4>1
        <4>2. CASE R # {}
          <5>1. PICK n : n = Cardinality(R)
            OBVIOUS
          <5>2. IsFiniteSet(R)
            BY <2>6, <3>2, FS_Subset
          <5>3. n \in Nat /\ n # 0
            BY <4>2, <5>1, <5>2, FS_CardinalityType, FS_EmptySet
          <5>4. n \in 1..n
            BY <5>3
          <5>5. PICK z : z = q[n]
            OBVIOUS
          <5>6. z \in R
            BY <3>3, <5>1, <5>4, <5>5 DEF Sorted
          <5>7. \A t \in R \ {z} : Before(B, t, z)
            <6>1. ASSUME NEW t \in R, t # z PROVE Before(B, t, z)
              <7>1. PICK i \in 1..n : q[i] = t
                BY <3>3, <5>1 DEF Sorted
              <7>2. i < n
                BY <5>3, <5>5, <6>1, <7>1
              <7>3. QED
                BY <3>3, <5>1, <5>4, <5>5, <7>1, <7>2 DEF Sorted
            <6>2. QED
              BY <6>1
          <5>8. y \in S /\ z \in S /\ y # z /\ R \subseteq S
            BY <2>4, <3>1, <3>2, <5>6
          <5>9. CASE Before(B, z, y)
            <6>1. ASSUME NEW t \in T \ {y} PROVE Before(B, t, y)
              <7>1. CASE t = z
                BY <5>9, <7>1
              <7>2. CASE t # z
                <8>1. t \in R /\ t \in S /\ Before(B, t, z)
                  BY <3>2, <5>7, <5>8, <7>2
                <8>2. QED
                  BY <5>8, <5>9, <8>1, BeforeOrder
              <7>3. QED
                BY <7>1, <7>2
            <6>2. QED
              BY <3>1, <6>1
          <5>10. CASE Before(B, y, z)
            <6>1. ASSUME NEW t \in T \ {z} PROVE Before(B, t, z)
              BY <3>2, <5>7, <5>10
            <6>2. z \in T
              BY <3>2, <5>6
            <6>3. QED
              BY <6>1, <6>2
          <5>11. Before(B, z, y) \/ Before(B, y, z)
            BY <5>8, BeforeOrder
          <5>12. QED
            BY <5>9, <5>10, <5>11
        <4>3. QED
          BY <4>1, <4>2
      <3>5. PICK z \in T : \A t \in T \ {z} : Before(B, t, z)
        BY <3>4
      <3>6. PICK r : Sorted(B, T \ {z}, r)
        BY <2>5, <3>5
      <3>7. \E s : Sorted(B, T, s)
        BY <2>6, <3>5, <3>6, SortedLast
      <3>8. QED
        BY <2>4, <3>7
    <2>9. QED
      BY <2>7, <2>8
  <1>3. QED
    BY <1>1, <1>2

\* Ranked is that ranking: of all candidates, each once.
LEMMA RankedIsSorted ==
  ASSUME NEW B, BookOK(B), NEW S, Rated(S)
  PROVE  \E n \in Nat : /\ Ranked(B, S) \in [1..n -> S]
                        /\ \A s \in S : \E i \in 1..n : Ranked(B, S)[i] = s
                        /\ \A i, j \in 1..n : i # j => Ranked(B, S)[i] # Ranked(B, S)[j]
  <1>1. IsFiniteSet(S) /\ \E q : Sorted(B, S, q)
    BY RankingExists
  <1>2. PICK n, e : n = Cardinality(S) /\ e = Ranked(B, S)
    OBVIOUS
  <1>3. n \in Nat
    BY <1>1, <1>2, FS_CardinalityType
  <1>4. PICK All : All = {f \in [1..n -> S] : \A i, j \in 1..n : i # j => f[i] # f[j]}
    OBVIOUS
  <1>5. SetToSeqs(S) = All
    BY <1>2, <1>4 DEF SetToSeqs
  <1>6. e = CHOOSE q \in All : \A i, j \in DOMAIN q : i < j => Before(B, q[i], q[j])
    BY <1>2, <1>5 DEF Ranked
  <1>7. \E q \in All : \A i, j \in DOMAIN q : i < j => Before(B, q[i], q[j])
    <2>1. PICK q : Sorted(B, S, q)
      BY <1>1
    <2>2. q \in All /\ DOMAIN q = 1..n /\ \A i, j \in 1..n : i < j => Before(B, q[i], q[j])
      BY <1>2, <1>4, <2>1 DEF Sorted
    <2>3. QED
      BY <2>2
  <1>8. e \in All
    BY <1>6, <1>7
  <1>9. e \in [1..n -> S] /\ \A i, j \in 1..n : i # j => e[i] # e[j]
    BY <1>4, <1>8
  <1>10. \A s \in S : \E i \in 1..n : e[i] = s
    <2>1. \A i, j \in 1..n : e[i] = e[j] => i = j
      BY <1>9
    <2>2. e \in Injection(1..n, S)
      BY <1>9, <2>1, Fun_IsInj
    <2>3. Cardinality(1..n) = n
      <3>1. 1 \in Int /\ n \in Int /\ 1 <= n + 1
        BY <1>3
      <3>2. Cardinality(1..n) = IF 1 > n THEN 0 ELSE n - 1 + 1
        BY <3>1, FS_Interval
      <3>3. QED
        BY <1>3, <3>2
    <2>4. e \in Surjection(1..n, S)
      BY <1>1, <1>2, <2>2, <2>3, FS_Injection
    <2>5. QED
      BY <2>4 DEF Surjection
  <1>11. QED
    BY <1>2, <1>3, <1>9, <1>10

-----------------------------------------------------------------------------
Sectors == {Sector[s] : s \in DOMAIN Sector}
Start(m) == [lines |-> <<>>, left |-> m, skipped |-> {}, placed |-> [sec \in Sectors |-> 0]]
Line(B, p, c, V) == Ranked(B, Candidates(V, p, c))

\* The ranked plan, candidate by candidate: h are the plans on the way.
DeployRun(B, p, c, V, m, n, D, h) ==
  /\ h[0] = Start(m) /\ \A i \in 0..n : h[i] \in D
  /\ \A i \in 1..n : h[i] = PlaceRanked(B, Basis(B, m), p, h[i - 1], Line(B, p, c, V)[i])
  /\ \E X : DeployPlan(B, p, c, V, m) = [h[n] EXCEPT !.skipped = @ \cup X]

\* The fold down the ranking goes through such plans.
LEMMA DeploySteps ==
  ASSUME NEW B, NEW p, NEW c, NEW V, NEW m, NEW n \in Nat, DOMAIN Line(B, p, c, V) = 1..n,
         NEW D, Start(m) \in D,
         \A plan \in D : \A i \in 1..n : PlaceRanked(B, Basis(B, m), p, plan, Line(B, p, c, V)[i]) \in D
  PROVE  \E h : DeployRun(B, p, c, V, m, n, D, h)
  <1>1. PICK q : q = Line(B, p, c, V)
    OBVIOUS
  <1> DEFINE Op(plan, i) == PlaceRanked(B, Basis(B, m), p, plan, q[i])
             g == CHOOSE f : f = [s \in SUBSET (1..n) |-> IF s = {} THEN Start(m) ELSE Op(f[s \ {Max(s)}], Max(s))]
  <1>2. \E X : DeployPlan(B, p, c, V, m) = [g[1..n] EXCEPT !.skipped = @ \cup X]
    <2>1. DOMAIN q = 1..n
      BY <1>1
    <2>2. q = Ranked(B, Candidates(V, p, c))
      BY <1>1 DEF Line
    <2>3. PICK last : last = FoldLeft(LAMBDA x, s : PlaceRanked(B, Basis(B, m), p, x, s), Start(m), q)
      OBVIOUS
    <2>4. \E X : DeployPlan(B, p, c, V, m) = [last EXCEPT !.skipped = @ \cup X]
      BY <2>2, <2>3, Zenon DEF DeployPlan, Start, Sectors
    <2>5. last = (CHOOSE f : f = [s \in SUBSET DOMAIN q |-> IF s = {} THEN Start(m) ELSE Op(f[s \ {Max(s)}], Max(s))])[DOMAIN q]
      BY <2>3, Zenon DEF FoldLeft, MapThenFoldSet
    <2>6. last = g[1..n]
      BY <2>1, <2>5
    <2>7. QED
      BY <2>4, <2>6
  <1>3. \E f : f = [s \in SUBSET (1..n) |-> IF s = {} THEN Start(m) ELSE Op(f[s \ {Max(s)}], Max(s))]
    <2>1. PICK F : F = [x \in D \X (1..n) |-> Op(x[1], x[2])]
      OBVIOUS
    <2>2. F \in [D \X (1..n) -> D]
      BY <1>1, <2>1
    <2>3. PICK b : b = Start(m)
      OBVIOUS
    <2>4. b \in D
      BY <2>3
    <2>5. PICK f \in [SUBSET (1..n) -> D] : Folded(f, n, F, b)
      BY <2>2, <2>4, FoldExists
    <2>6. f = [s \in SUBSET (1..n) |-> IF s = {} THEN b ELSE F[<<f[s \ {Max(s)}], Max(s)>>]]
      BY <2>5 DEF Folded
    <2>7. ASSUME NEW s \in SUBSET (1..n), s # {}
          PROVE  F[<<f[s \ {Max(s)}], Max(s)>>] = Op(f[s \ {Max(s)}], Max(s))
      <3>1. s \in SUBSET Nat /\ \A d \in s : d <= n
        OBVIOUS
      <3>2. Max(s) \in s
        BY <2>7, <3>1, MaxOfDays
      <3>3. PICK k, t : k = Max(s) /\ t = s \ {Max(s)}
        OBVIOUS
      <3>4. k \in 1..n /\ f[t] \in D
        BY <2>5, <3>2, <3>3
      <3>5. F[<<f[t], k>>] = Op(f[t], k)
        BY <2>1, <3>4
      <3>6. QED
        BY <3>3, <3>5
    <2>8. f = [s \in SUBSET (1..n) |-> IF s = {} THEN b ELSE Op(f[s \ {Max(s)}], Max(s))]
      BY <2>6, <2>7
    <2>9. QED
      BY <2>3, <2>8
  <1>4. g = [s \in SUBSET (1..n) |-> IF s = {} THEN Start(m) ELSE Op(g[s \ {Max(s)}], Max(s))]
    BY <1>3, Zenon
  <1> HIDE DEF g
  <1>5. PICK h : h = [i \in 0..n |-> g[1..i]]
    OBVIOUS
  <1>6. h[0] = Start(m) /\ h[n] = g[1..n]
    <2>1. 1..0 = {} /\ 1..0 \in SUBSET (1..n) /\ 0 \in 0..n /\ n \in 0..n
      OBVIOUS
    <2>2. g[{}] = Start(m)
      BY <1>4, <2>1
    <2>3. QED
      BY <1>5, <2>1, <2>2
  <1>7. ASSUME NEW i \in 1..n PROVE h[i] = Op(h[i - 1], i)
    <2>1. PICK s : s = 1..i
      OBVIOUS
    <2>2. s \in SUBSET (1..n) /\ s # {} /\ i \in 0..n /\ i - 1 \in 0..n /\ i \in Nat \ {0}
      <3>1. i \in Nat \ {0} /\ i \in 0..n /\ i - 1 \in 0..n
        OBVIOUS
      <3>2. i \in s
        BY <2>1, <3>1
      <3>3. s \subseteq 1..n
        BY <2>1, <3>1
      <3>4. QED
        BY <3>1, <3>2, <3>3
    <2>3. Max(s) = i /\ s \ {Max(s)} = 1..(i - 1)
      BY <2>1, <2>2, LastOfPrefix
    <2>4. g[s] = Op(g[s \ {Max(s)}], Max(s))
      BY <1>4, <2>2
    <2>5. h[i] = g[s] /\ h[i - 1] = g[1..(i - 1)]
      BY <1>5, <2>1, <2>2
    <2>6. QED
      BY <2>3, <2>4, <2>5
  <1>8. \A i \in 0..n : h[i] \in D
    <2> DEFINE P == {i \in 0..n : h[i] \in D}
    <2>1. 0 \in P
      BY <1>6
    <2>2. ASSUME NEW i \in 1..n, i - 1 \in P PROVE i \in P
      <3>1. h[i - 1] \in D
        BY <2>2
      <3>2. Op(h[i - 1], i) \in D
        BY <1>1, <3>1
      <3>3. i \in 0..n
        OBVIOUS
      <3>4. QED
        BY <1>7, <3>2, <3>3
    <2> HIDE DEF P
    <2>3. \A i \in 1..n : i - 1 \in P => i \in P
      BY <2>2
    <2>4. \A i \in 0..n : i \in P
      BY <2>1, <2>3, PrefixInduction
    <2>5. QED
      BY <2>4 DEF P
  <1>9. QED
    BY <1>1, <1>2, <1>6, <1>7, <1>8 DEF DeployRun

-----------------------------------------------------------------------------
\* A plan under way, of candidates in U.
Ranks(U) == [lines : Lines(U), left : Nat, skipped : SUBSET [symbol : Symbols, reason : Reasons],
             placed : [Sectors -> Nat]]

\* The room a candidate has is a whole number of parts.
LEMMA DeployRooms ==
  ASSUME NEW B, BookOK(B), NEW b \in Nat, NEW s \in Symbols, NEW x \in Nat, NEW y \in Nat
  PROVE  /\ Limits.position * b - Whole * (ValueIn(B, s) + x) \in Int
         /\ Limits.sector * b - Whole * (SectorValue(B, Sector[s]) + y) \in Int
         /\ Limits.position * b - Whole * ValueIn(B, s) \in Int
  <1>1. PICK v, u, w, lp, ls : /\ v = ValueIn(B, s) /\ u = SectorValue(B, Sector[s]) /\ w = Whole
                               /\ lp = Limits.position /\ ls = Limits.sector
    OBVIOUS
  <1>2. v \in Nat /\ u \in Nat
    BY <1>1, BookSums
  <1>3. w \in Nat /\ lp \in Nat /\ ls \in Nat
    BY <1>1, PlanAssumption DEF PlanAssumption
  <1>4. lp * b \in Int /\ ls * b \in Int /\ w * (v + x) \in Int /\ w * (u + y) \in Int /\ w * v \in Int
    BY <1>2, <1>3
  <1>5. lp * b - w * (v + x) \in Int /\ ls * b - w * (u + y) \in Int /\ lp * b - w * v \in Int
    BY <1>4
  <1>6. QED
    BY <1>1, <1>5

\* What a step of the ranking does to the plan.
Deploys(B, b, p, plan, next, s, c) ==
  /\ Spends(plan, next, s, DeployRoom(B, b, plan, s), p[s], Limits.line, c)
  /\ next.placed = [plan.placed EXCEPT ![Sector[s]] = @ + c]

\* A candidate is placed within its room, in its sector's total too.
LEMMA DeployPlace ==
  ASSUME NEW B, BookOK(B), NEW b \in Nat, NEW p, PricesOK(p), NEW U, U \subseteq Symbols,
         NEW plan \in Ranks(U), NEW s \in U, p[s] # None,
         NEW next, next = PlaceRanked(B, b, p, plan, s)
  PROVE  /\ next \in Ranks(U) /\ DeployRoom(B, b, plan, s) \in Int
         /\ \E c \in Nat : Deploys(B, b, p, plan, next, s, c)
  <1>1. PICK room, price, sec, line : /\ room = DeployRoom(B, b, plan, s) /\ price = p[s] /\ sec = Sector[s]
                                      /\ line = Limits.line
    OBVIOUS
  <1>2. s \in Symbols /\ price \in Nat \ {0} /\ line \in Nat /\ sec \in Sectors
    BY <1>1, PlanAssumption DEF PricesOK, PlanAssumption, Sectors
  <1>3. /\ plan.lines \in Lines(U) /\ plan.left \in Nat /\ plan.placed \in [Sectors -> Nat]
        /\ plan.skipped \in SUBSET [symbol : Symbols, reason : Reasons]
        /\ plan = [lines |-> plan.lines, left |-> plan.left, skipped |-> plan.skipped, placed |-> plan.placed]
    BY DEF Ranks
  <1>4. room \in Int
    <2>1. PICK x : x = plan.placed[sec]
      OBVIOUS
    <2>2. x \in Nat
      BY <1>2, <1>3, <2>1
    <2>3. PICK k, l : /\ k = Limits.position * b - Whole * ValueIn(B, s)
                      /\ l = Limits.sector * b - Whole * (SectorValue(B, Sector[s]) + x)
      OBVIOUS
    <2>4. k \in Int /\ l \in Int
      BY <1>2, <2>2, <2>3, DeployRooms
    <2>5. room = Least(k, l)
      BY <1>1, <2>1, <2>3 DEF DeployRoom
    <2>6. QED
      BY <2>4, <2>5 DEF Least
  <1>5. PICK why : why = DeployWhy(B, b, plan, s)
    OBVIOUS
  <1>6. why \in Reasons
    <2>1. why \in {"cash_exhausted", "max_position_weight", "max_sector_weight", "min_line_usd"}
      BY <1>5, Zenon DEF DeployWhy
    <2>2. QED
      BY <2>1 DEF Reasons
  <1>7. PICK n : n = Shares(plan.left, room, price, line)
    OBVIOUS
  <1>8. n \in Nat /\ n * price \in Nat
    BY <1>2, <1>3, <1>4, <1>7, SharesBound
  <1>9. next = IF n > 0
                 THEN [plan EXCEPT !.left = @ - n * price, !.placed[sec] = @ + n * price,
                                   !.lines = Append(@, [symbol |-> s, shares |-> n, price |-> price])]
                 ELSE [plan EXCEPT !.skipped = @ \cup {[symbol |-> s, reason |-> why]}]
    BY <1>1, <1>5, <1>7 DEF PlaceRanked
  <1>10. /\ n > 0 => /\ next.lines = Append(plan.lines, [symbol |-> s, shares |-> n, price |-> price])
                     /\ next.left = plan.left - n * price /\ next.skipped = plan.skipped
                     /\ next.placed = [plan.placed EXCEPT ![sec] = @ + n * price]
         /\ ~(n > 0) => /\ next.lines = plan.lines /\ next.left = plan.left /\ next.placed = plan.placed
                        /\ next.skipped = plan.skipped \cup {[symbol |-> s, reason |-> why]}
         /\ next = [lines |-> next.lines, left |-> next.left, skipped |-> next.skipped, placed |-> next.placed]
    <2>1. CASE n > 0
      <3>1. next = [plan EXCEPT !.left = @ - n * price, !.placed[sec] = @ + n * price,
                                !.lines = Append(@, [symbol |-> s, shares |-> n, price |-> price])]
        BY <1>9, <2>1
      <3>2. QED
        BY <1>3, <2>1, <3>1
    <2>2. CASE ~(n > 0)
      <3>1. next = [plan EXCEPT !.skipped = @ \cup {[symbol |-> s, reason |-> why]}]
        BY <1>9, <2>2
      <3>2. QED
        BY <1>3, <2>2, <3>1
    <2>3. QED
      BY <2>1, <2>2
  <1>11. next.skipped \in SUBSET [symbol : Symbols, reason : Reasons]
    BY <1>2, <1>3, <1>6, <1>10
  <1>12. OneLine(plan, next, s, room, price, line)
    BY <1>7, <1>10 DEF OneLine
  <1>13. next.lines \in Lines(U) /\ next.left \in Nat /\ \E c \in Nat : Spends(plan, next, s, room, price, line, c)
    BY <1>2, <1>3, <1>4, <1>12, LineStep
  <1>14. PICK c \in Nat : Spends(plan, next, s, room, price, line, c)
    BY <1>13
  <1>15. next.left + c = plan.left
    BY <1>14 DEF Spends, Adds
  <1>16. next.placed = [plan.placed EXCEPT ![sec] = @ + c]
    <2>1. CASE n > 0
      <3>1. c = n * price
        BY <1>3, <1>8, <1>10, <1>13, <1>15, <2>1
      <3>2. QED
        BY <1>10, <2>1, <3>1
    <2>2. CASE ~(n > 0)
      <3>1. c = 0
        BY <1>3, <1>10, <1>13, <1>15, <2>2
      <3>2. plan.placed[sec] \in Nat
        BY <1>2, <1>3
      <3>3. QED
        BY <1>2, <1>3, <1>10, <2>2, <3>1, <3>2
    <2>3. QED
      BY <2>1, <2>2
  <1>17. next.placed \in [Sectors -> Nat]
    BY <1>2, <1>3, <1>16
  <1>18. next \in Ranks(U)
    BY <1>10, <1>11, <1>13, <1>17 DEF Ranks
  <1>19. QED
    BY <1>1, <1>4, <1>14, <1>16, <1>18 DEF Deploys

\* What is left to the limits of a candidate once the plan has its lines.
RoomLeft(B, b, plan, s) ==
  Least(Limits.position * b - Whole * (ValueIn(B, s) + Bought(plan, s)),
        Limits.sector * b - Whole * (SectorValue(B, Sector[s]) + plan.placed[Sector[s]]))
\* What holds of the plan once the first i candidates are placed: the money adds up, in all
\* and by sector, and no sector bought into is past its limit; later candidates are
\* untouched; each earlier one bought is within its limit, and no more would be bought.
SectorInv(B, b, plan, sec) ==
  /\ plan.placed[sec] = BoughtIn(plan, InSector(sec))
  /\ plan.placed[sec] > 0 => Whole * (SectorValue(B, sec) + plan.placed[sec]) <= Limits.sector * b
LineInv(B, p, b, q, plan, i, j) ==
  /\ j > i => Bought(plan, q[j]) = 0
  /\ j <= i => /\ Bought(plan, q[j]) > 0 => Whole * (ValueIn(B, q[j]) + Bought(plan, q[j])) <= Limits.position * b
               /\ Full(plan.left, RoomLeft(B, b, plan, q[j]), p[q[j]], Limits.line)
DeployInv(B, p, m, q, n, plan, i) ==
  /\ Spent(plan) + plan.left = m /\ BoughtIn(plan, Symbols) = Spent(plan)
  /\ \A sec \in Sectors : SectorInv(B, Basis(B, m), plan, sec)
  /\ \A j \in 1..n : LineInv(B, p, Basis(B, m), q, plan, i, j)

\* A limit that was kept before a purchase with room for it is kept after it.
LEMMA LimitKept ==
  ASSUME NEW w \in Nat, NEW l \in Int, NEW v \in Nat, NEW c \in Nat, w * c <= l - w * v
  PROVE  w * (v + c) <= l
  <1>1. PICK a, b : a = w * c /\ b = w * v
    OBVIOUS
  <1>2. a \in Nat /\ b \in Nat /\ w * (v + c) = b + a
    BY <1>1
  <1>3. QED
    BY <1>1, <1>2

\* Less room is left after a purchase, and less cash: what was full stays full.
LEMMA FullStays ==
  ASSUME NEW left \in Nat, NEW less \in Nat, less <= left, NEW room \in Int, NEW lower \in Int, lower <= room,
         NEW price, NEW line, Full(left, room, price, line)
  PROVE  Full(less, lower, price, line)
  <1>1. ASSUME NEW a \in Nat, NEW b \in Int, a <= less, b <= lower PROVE Shares(a, b, price, line) = 0
    <2>1. a <= left /\ b <= room
      BY <1>1
    <2>2. QED
      BY <1>1, <2>1 DEF Full
  <1>2. QED
    BY <1>1 DEF Full

\* The room of a candidate at its turn, less the purchase, is what is left of it.
RoomUsed(B, b, plan, next, s, c) ==
  /\ RoomLeft(B, b, next, s) = DeployRoom(B, b, plan, s) - Whole * c
  /\ RoomLeft(B, b, next, s) \in Int /\ DeployRoom(B, b, plan, s) \in Int
  /\ DeployRoom(B, b, plan, s) <= Limits.position * b - Whole * ValueIn(B, s)
  /\ DeployRoom(B, b, plan, s) <= Limits.sector * b - Whole * (SectorValue(B, Sector[s]) + plan.placed[Sector[s]])

\* It is what the purchase leaves of it.
LEMMA RoomAfter ==
  ASSUME NEW B, BookOK(B), NEW b \in Nat, NEW plan, NEW next, NEW s \in Symbols, NEW c \in Nat,
         plan.placed[Sector[s]] \in Nat, next.placed[Sector[s]] = plan.placed[Sector[s]] + c, Bought(next, s) = c
  PROVE  RoomUsed(B, b, plan, next, s, c)
  <1>1. PICK v, u, w, P, S, y : /\ v = ValueIn(B, s) /\ u = SectorValue(B, Sector[s]) /\ w = Whole
                             /\ P = Limits.position * b /\ S = Limits.sector * b /\ y = plan.placed[Sector[s]]
    OBVIOUS
  <1>2. v \in Nat /\ u \in Nat /\ w \in Nat /\ y \in Nat /\ P \in Int /\ S \in Int
    <2>1. v \in Nat /\ u \in Nat
      BY <1>1, BookSums
    <2>2. PICK lp, ls : lp = Limits.position /\ ls = Limits.sector
      OBVIOUS
    <2>3. lp \in Nat /\ ls \in Nat /\ w \in Nat
      BY <1>1, <2>2, PlanAssumption DEF PlanAssumption
    <2>4. lp * b \in Int /\ ls * b \in Int
      BY <2>3
    <2>5. QED
      BY <1>1, <2>1, <2>2, <2>3, <2>4
  <1>3. DeployRoom(B, b, plan, s) = Least(P - w * v, S - w * (u + y))
    BY <1>1 DEF DeployRoom
  <1>4. RoomLeft(B, b, next, s) = Least(P - w * (v + c), S - w * (u + (y + c)))
    BY <1>1 DEF RoomLeft
  <1>5. PICK d, e, f, g, h : /\ d = w * v /\ e = w * (u + y) /\ f = w * c /\ g = w * (v + c) /\ h = w * (u + (y + c))
    OBVIOUS
  <1>6. d \in Int /\ e \in Int /\ f \in Int /\ g = d + f /\ h = e + f
    BY <1>2, <1>5
  <1>7. /\ DeployRoom(B, b, plan, s) = Least(P - d, S - e) /\ RoomLeft(B, b, next, s) = Least(P - g, S - h)
    BY <1>3, <1>4, <1>5
  <1>8. /\ DeployRoom(B, b, plan, s) \in Int /\ RoomLeft(B, b, next, s) = DeployRoom(B, b, plan, s) - f
        /\ RoomLeft(B, b, next, s) \in Int
        /\ DeployRoom(B, b, plan, s) <= P - d /\ DeployRoom(B, b, plan, s) <= S - e
    BY <1>2, <1>6, <1>7 DEF Least
  <1>9. QED
    BY <1>1, <1>5, <1>8 DEF RoomUsed

\* The room of another candidate does not grow.
LEMMA RoomShrinks ==
  ASSUME NEW B, BookOK(B), NEW b \in Nat, NEW plan, NEW next, NEW s \in Symbols, NEW x \in Nat,
         NEW y \in Nat, NEW z \in Nat, y = plan.placed[Sector[s]], z = next.placed[Sector[s]], y <= z,
         x = Bought(plan, s), x = Bought(next, s)
  PROVE  /\ RoomLeft(B, b, next, s) \in Int /\ RoomLeft(B, b, plan, s) \in Int
         /\ RoomLeft(B, b, next, s) <= RoomLeft(B, b, plan, s)
  <1>1. PICK k, e, f : /\ k = Limits.position * b - Whole * (ValueIn(B, s) + x)
                       /\ e = Limits.sector * b - Whole * (SectorValue(B, Sector[s]) + y)
                       /\ f = Limits.sector * b - Whole * (SectorValue(B, Sector[s]) + z)
    OBVIOUS
  <1>2. k \in Int /\ e \in Int /\ f \in Int
    BY <1>1, DeployRooms
  <1>3. f <= e
    <2>1. PICK S, w, u : S = Limits.sector * b /\ w = Whole /\ u = SectorValue(B, Sector[s])
      OBVIOUS
    <2>2. u \in Nat /\ w \in Nat /\ S \in Int
      <3>1. u \in Nat
        BY <2>1, BookSums
      <3>2. PICK ls : ls = Limits.sector
        OBVIOUS
      <3>3. ls \in Nat /\ w \in Nat
        BY <2>1, <3>2, PlanAssumption DEF PlanAssumption
      <3>4. ls * b \in Int
        BY <3>3
      <3>5. QED
        BY <2>1, <3>1, <3>2, <3>3, <3>4
    <2>3. PICK d : d = z - y
      OBVIOUS
    <2>4. d \in Nat /\ z = y + d
      BY <2>3
    <2>5. w * (u + z) = w * (u + y) + w * d
      BY <2>2, <2>4
    <2>6. PICK g, i : g = w * (u + y) /\ i = w * d
      OBVIOUS
    <2>7. g \in Int /\ i \in Nat
      BY <2>2, <2>4, <2>6
    <2>8. e = S - g /\ f = S - (g + i)
      BY <1>1, <2>1, <2>5, <2>6
    <2>9. QED
      BY <2>2, <2>7, <2>8
  <1>4. RoomLeft(B, b, plan, s) = Least(k, e) /\ RoomLeft(B, b, next, s) = Least(k, f)
    BY <1>1 DEF RoomLeft
  <1>5. QED
    BY <1>2, <1>3, <1>4 DEF Least

\* A candidate placed keeps the plan right, for itself and for those before it.
LEMMA DeployInvStep ==
  ASSUME NEW B, BookOK(B), NEW p, PricesOK(p), NEW m \in Nat, NEW U, U \subseteq Symbols, \A s \in U : p[s] # None,
         NEW n \in Nat, NEW q \in [1..n -> U], \A k, j \in 1..n : k # j => q[k] # q[j],
         NEW i \in 1..n, NEW plan \in Ranks(U), DeployInv(B, p, m, q, n, plan, i - 1),
         NEW next, next = PlaceRanked(B, Basis(B, m), p, plan, q[i])
  PROVE  DeployInv(B, p, m, q, n, next, i)
  <1>1. PICK b, s : b = Basis(B, m) /\ s = q[i]
    OBVIOUS
  <1>2. s \in U /\ s \in Symbols /\ p[s] # None
    BY <1>1
  <1>3. b \in Nat
    <2>1. PortfolioValue(B) \in Nat
      BY BookSums
    <2>2. QED
      BY <1>1, <2>1 DEF Basis
  <1>4. next = PlaceRanked(B, b, p, plan, s)
    BY <1>1
  <1>5. /\ next \in Ranks(U)
        /\ \E c \in Nat : Deploys(B, b, p, plan, next, s, c)
    BY <1>2, <1>3, <1>4, DeployPlace
  <1>6. PICK c \in Nat : /\ Spends(plan, next, s, DeployRoom(B, b, plan, s), p[s], Limits.line, c)
                         /\ next.placed = [plan.placed EXCEPT ![Sector[s]] = @ + c]
    BY <1>5 DEF Deploys
  <1>7. /\ plan.lines \in Lines(U) /\ next.lines \in Lines(U) /\ plan.left \in Nat /\ next.left \in Nat
        /\ plan.placed \in [Sectors -> Nat] /\ next.placed \in [Sectors -> Nat]
    BY <1>5 DEF Ranks
  <1>8. Spent(plan) \in Nat /\ Spent(next) \in Nat /\ (\A x : Bought(plan, x) \in Nat) /\ \A x : Bought(next, x) \in Nat
    BY <1>7, LinesCost
  <1>9. /\ Adds(plan, next, s, c) /\ (c > 0 => Whole * c <= DeployRoom(B, b, plan, s))
        /\ Full(next.left, DeployRoom(B, b, plan, s) - Whole * c, p[s], Limits.line)
    BY <1>6 DEF Spends
  <1>10. /\ Spent(next) = Spent(plan) + c /\ next.left + c = plan.left
         /\ \A x : Bought(next, x) = Bought(plan, x) + IF x = s THEN c ELSE 0
    BY <1>9 DEF Adds
  <1>11. Spent(next) + next.left = m
    BY <1>7, <1>8, <1>10 DEF DeployInv
  <1>12. ASSUME NEW S, S \subseteq Symbols
         PROVE  BoughtIn(plan, S) \in Nat /\ BoughtIn(next, S) = BoughtIn(plan, S) + IF s \in S THEN c ELSE 0
    <2>1. plan.lines \in Lines(U) /\ s \in Symbols /\ Adds(plan, next, s, c) /\ S \subseteq Symbols
      BY <1>2, <1>7, <1>9, <1>12
    <2>2. c \in Nat
      OBVIOUS
    <2>3. BoughtIn(plan, S) \in Nat
      BY <2>1, BoughtType
    <2>4. BoughtIn(next, S) = BoughtIn(plan, S) + IF s \in S THEN c ELSE 0
      BY <2>1, <2>2, BoughtSum
    <2>5. QED
      BY <2>3, <2>4
  <1>13. BoughtIn(next, Symbols) = Spent(next)
    <2>1. Symbols \subseteq Symbols
      OBVIOUS
    <2>2. BoughtIn(next, Symbols) = BoughtIn(plan, Symbols) + c
      BY <1>2, <1>12, <2>1
    <2>3. QED
      BY <1>10, <2>2 DEF DeployInv
  <1>14. Sector[s] \in Sectors /\ \A t \in U : Sector[t] \in Sectors
    BY <1>2, PlanAssumption DEF PlanAssumption, Sectors
  <1>15. PICK y : y = plan.placed[Sector[s]]
    OBVIOUS
  <1>16. y \in Nat /\ next.placed[Sector[s]] = y + c
    BY <1>6, <1>7, <1>14, <1>15
  <1>17. Bought(plan, s) = 0 /\ Bought(next, s) = c
    <2>1. LineInv(B, p, b, q, plan, i - 1, i)
      BY <1>1 DEF DeployInv
    <2>2. i > i - 1
      OBVIOUS
    <2>3. Bought(plan, s) = 0
      BY <1>1, <2>1, <2>2 DEF LineInv
    <2>4. QED
      BY <1>10, <2>3
  <1>18. /\ RoomLeft(B, b, next, s) = DeployRoom(B, b, plan, s) - Whole * c
         /\ RoomLeft(B, b, next, s) \in Int /\ DeployRoom(B, b, plan, s) \in Int
         /\ DeployRoom(B, b, plan, s) <= Limits.position * b - Whole * ValueIn(B, s)
         /\ DeployRoom(B, b, plan, s) <= Limits.sector * b - Whole * (SectorValue(B, Sector[s]) + y)
    <2>1. plan.placed[Sector[s]] \in Nat /\ next.placed[Sector[s]] = plan.placed[Sector[s]] + c
      BY <1>15, <1>16
    <2>2. Bought(next, s) = c
      BY <1>17
    <2>3. RoomUsed(B, b, plan, next, s, c)
      BY <1>2, <1>3, <2>1, <2>2, RoomAfter
    <2>4. QED
      BY <1>15, <2>3 DEF RoomUsed
  <1>19. PICK w, a, l, k : w = Whole /\ a = DeployRoom(B, b, plan, s) /\ l = Limits.sector * b /\ k = Limits.position * b
    OBVIOUS
  <1>20. w \in Nat /\ a \in Int /\ l \in Int /\ k \in Int /\ (c > 0 => w * c <= a)
    <2>1. PICK lp, ls : lp = Limits.position /\ ls = Limits.sector
      OBVIOUS
    <2>2. lp \in Nat /\ ls \in Nat /\ w \in Nat
      BY <1>19, <2>1, PlanAssumption DEF PlanAssumption
    <2>3. ls * b \in Int /\ lp * b \in Int
      BY <1>3, <2>2
    <2>4. QED
      BY <1>9, <1>18, <1>19, <2>1, <2>2, <2>3
  <1>21. ASSUME NEW sec \in Sectors PROVE SectorInv(B, b, next, sec)
    <2>1. SectorInv(B, b, plan, sec)
      BY <1>1 DEF DeployInv
    <2>2. InSector(sec) \subseteq Symbols /\ (s \in InSector(sec) <=> sec = Sector[s])
      BY <1>2 DEF InSector
    <2>3. BoughtIn(plan, InSector(sec)) \in Nat
          /\ BoughtIn(next, InSector(sec)) = BoughtIn(plan, InSector(sec)) + IF sec = Sector[s] THEN c ELSE 0
      BY <1>12, <2>2
    <2>4. CASE sec = Sector[s]
      <3>1. next.placed[sec] = BoughtIn(next, InSector(sec))
        BY <1>15, <1>16, <2>1, <2>3, <2>4 DEF SectorInv
      <3>2. PICK u : u = SectorValue(B, sec)
        OBVIOUS
      <3>3. u \in Nat
        BY <3>2, BookSums
      <3>4. y > 0 => w * (u + y) <= l
        BY <1>15, <1>19, <2>1, <2>4, <3>2 DEF SectorInv
      <3>5. c > 0 => w * (u + (y + c)) <= l
        <4>1. SUFFICES ASSUME c > 0 PROVE w * (u + (y + c)) <= l
          OBVIOUS
        <4>2. a <= l - w * (u + y)
          BY <1>18, <1>19, <2>4, <3>2
        <4>3. PICK v, e, d : v = u + y /\ e = w * c /\ d = w * v
          OBVIOUS
        <4>4. v \in Nat /\ e \in Int /\ d \in Int
          BY <1>16, <1>20, <3>3, <4>3
        <4>5. w * c <= l - w * v
          BY <1>20, <4>1, <4>2, <4>3, <4>4
        <4>6. w * (v + c) <= l
          BY <1>20, <4>4, <4>5, LimitKept
        <4>7. v + c = u + (y + c)
          BY <1>16, <3>3, <4>3
        <4>8. QED
          BY <4>6, <4>7
      <3>6. next.placed[sec] > 0 => w * (u + next.placed[sec]) <= l
        <4>1. CASE c > 0
          BY <1>16, <2>4, <3>5, <4>1
        <4>2. CASE c = 0
          <5>1. next.placed[sec] = y
            BY <1>16, <2>4, <4>2
          <5>2. QED
            BY <3>4, <5>1
        <4>3. QED
          BY <4>1, <4>2
      <3>7. QED
        BY <1>19, <3>1, <3>2, <3>6 DEF SectorInv
    <2>5. CASE sec # Sector[s]
      <3>1. next.placed[sec] = plan.placed[sec]
        BY <1>6, <1>7, <2>5
      <3>2. BoughtIn(next, InSector(sec)) = BoughtIn(plan, InSector(sec))
        BY <2>3, <2>5
      <3>3. QED
        BY <2>1, <3>1, <3>2 DEF SectorInv
    <2>6. QED
      BY <2>4, <2>5
  <1>22. ASSUME NEW j \in 1..n PROVE LineInv(B, p, b, q, next, i, j)
    <2>1. CASE j = i
      <3>1. q[j] = s
        BY <1>1, <2>1
      <3>2. Full(next.left, RoomLeft(B, b, next, s), p[s], Limits.line)
        BY <1>9, <1>18
      <3>3. c > 0 => w * (ValueIn(B, s) + c) <= k
        <4>1. SUFFICES ASSUME c > 0 PROVE w * (ValueIn(B, s) + c) <= k
          OBVIOUS
        <4>2. PICK v, e, d : v = ValueIn(B, s) /\ e = w * c /\ d = w * v
          OBVIOUS
        <4>3. v \in Nat
          BY <1>2, <4>2, BookSums
        <4>4. e \in Int /\ d \in Int
          BY <1>20, <4>2, <4>3
        <4>5. a <= k - w * v
          BY <1>18, <1>19, <4>2
        <4>6. w * c <= k - w * v
          BY <1>20, <4>1, <4>2, <4>4, <4>5
        <4>7. w * (v + c) <= k
          BY <1>20, <4>3, <4>6, LimitKept
        <4>8. QED
          BY <4>2, <4>7
      <3>4. ~(j > i)
        BY <2>1
      <3>5. QED
        BY <1>17, <1>19, <3>1, <3>2, <3>3, <3>4 DEF LineInv
    <2>2. CASE j # i
      <3>1. PICK t : t = q[j]
        OBVIOUS
      <3>2. t \in U /\ t \in Symbols /\ t # s
        BY <1>1, <2>2, <3>1
      <3>3. PICK x, g, z : x = Bought(plan, t) /\ g = plan.placed[Sector[t]] /\ z = next.placed[Sector[t]]
        OBVIOUS
      <3>4. x \in Nat /\ x = Bought(next, t)
        BY <1>8, <1>10, <3>2, <3>3
      <3>5. g \in Nat /\ z \in Nat /\ g <= z
        <4>1. Sector[t] \in Sectors
          BY <1>14, <3>2
        <4>2. g \in Nat /\ z \in Nat
          BY <1>7, <3>3, <4>1
        <4>3. z = g \/ z = g + c
          BY <1>6, <1>7, <3>3, <4>1
        <4>4. QED
          BY <4>2, <4>3
      <3>6. /\ RoomLeft(B, b, next, t) \in Int /\ RoomLeft(B, b, plan, t) \in Int
            /\ RoomLeft(B, b, next, t) <= RoomLeft(B, b, plan, t)
        BY <1>3, <3>2, <3>3, <3>4, <3>5, RoomShrinks
      <3>7. LineInv(B, p, b, q, plan, i - 1, j)
        BY <1>1 DEF DeployInv
      <3>8. CASE j > i
        <4>1. j > i - 1 /\ ~(j <= i)
          BY <3>8
        <4>2. Bought(next, t) = 0
          BY <3>1, <3>3, <3>4, <3>7, <4>1 DEF LineInv
        <4>3. QED
          BY <3>1, <4>1, <4>2 DEF LineInv
      <3>9. CASE j < i
        <4>1. j <= i - 1 /\ ~(j > i) /\ j <= i
          BY <3>9
        <4>2. /\ Bought(plan, t) > 0 => Whole * (ValueIn(B, t) + Bought(plan, t)) <= Limits.position * b
              /\ Full(plan.left, RoomLeft(B, b, plan, t), p[t], Limits.line)
          BY <3>1, <3>7, <4>1 DEF LineInv
        <4>3. next.left <= plan.left
          BY <1>7, <1>10
        <4>4. Full(next.left, RoomLeft(B, b, next, t), p[t], Limits.line)
          BY <1>7, <3>6, <4>2, <4>3, FullStays
        <4>5. QED
          BY <3>1, <3>3, <3>4, <4>1, <4>2, <4>4 DEF LineInv
      <3>10. QED
        BY <2>2, <3>8, <3>9
    <2>3. QED
      BY <2>1, <2>2
  <1>23. QED
    BY <1>1, <1>11, <1>13, <1>21, <1>22 DEF DeployInv

\* A candidate is rated and priced.
LEMMA CandidatesOK ==
  ASSUME NEW V, V \subseteq Symbols, NEW p, NEW c
  PROVE  /\ Rated(Candidates(V, p, c)) /\ Candidates(V, p, c) \subseteq V
         /\ \A s \in Candidates(V, p, c) : p[s] # None
  <1>1. ASSUME NEW s \in Candidates(V, p, c) PROVE s \in V /\ Rating[s] # NoRating /\ p[s] # Unpriced
    <2>1. s \in V /\ Ineligible(s, p, c) = "eligible"
      BY DEF Candidates
    <2>2. ASSUME Rating[s] = NoRating \/ p[s] = Unpriced PROVE FALSE
      <3>1. Ineligible(s, p, c) \in {"no_rating", "label", "unpriced", "currency", "sector_unknown"}
        BY <2>2, Zenon DEF Ineligible
      <3>2. QED
        BY <2>1, <3>1
    <2>3. QED
      BY <2>1, <2>2
  <1>2. QED
    BY <1>1, DeskAssumption DEF Rated, DeskAssumption

\* Plans with the same lines and the same cash have the same invariant.
LEMMA SamePlan ==
  ASSUME NEW B, NEW p, NEW m, NEW q, NEW n, NEW plan, NEW next, NEW i, DeployInv(B, p, m, q, n, plan, i),
         next.lines = plan.lines, next.left = plan.left, next.placed = plan.placed
  PROVE  DeployInv(B, p, m, q, n, next, i)
  <1>1. Spent(next) = Spent(plan) /\ \A s : Bought(next, s) = Bought(plan, s)
    BY DEF Spent, Bought
  <1>2. \A S : BoughtIn(next, S) = BoughtIn(plan, S)
    BY <1>1 DEF BoughtIn
  <1>3. \A s : RoomLeft(B, Basis(B, m), next, s) = RoomLeft(B, Basis(B, m), plan, s)
    BY <1>1 DEF RoomLeft
  <1>4. \A sec \in Sectors : SectorInv(B, Basis(B, m), next, sec)
    BY <1>2 DEF DeployInv, SectorInv
  <1>5. \A j \in 1..n : LineInv(B, p, Basis(B, m), q, next, i, j)
    BY <1>1, <1>3 DEF DeployInv, LineInv
  <1>6. QED
    BY <1>1, <1>2, <1>4, <1>5 DEF DeployInv

\* The whole ranked plan.
LEMMA DeployGood ==
  ASSUME NEW B, BookOK(B), NEW p, PricesOK(p), NEW m \in Nat, NEW V, V \subseteq Symbols, NEW c
  PROVE  LET plan == DeployPlan(B, p, c, V, m)
             S == Candidates(V, p, c)
         IN /\ plan.lines \in Lines(S) /\ plan.left \in Nat /\ plan.placed \in [Sectors -> Nat]
            /\ \E n \in Nat : \E q \in [1..n -> S] : /\ \A s \in S : \E j \in 1..n : q[j] = s
                                                     /\ DeployInv(B, p, m, q, n, plan, n)
  <1>1. PICK S, q : S = Candidates(V, p, c) /\ q = Line(B, p, c, V)
    OBVIOUS
  <1>2. Rated(S) /\ S \subseteq Symbols /\ \A s \in S : p[s] # None
    BY <1>1, CandidatesOK DEF Rated
  <1>3. q = Ranked(B, S)
    BY <1>1 DEF Line
  <1>4. PICK n \in Nat : /\ q \in [1..n -> S] /\ (\A s \in S : \E i \in 1..n : q[i] = s)
                         /\ \A i, j \in 1..n : i # j => q[i] # q[j]
    BY <1>2, <1>3, RankedIsSorted
  <1>5. PICK D, start : D = Ranks(S) /\ start = Start(m)
    OBVIOUS
  <1>6. /\ start.lines = <<>> /\ start.left = m /\ start.placed = [sec \in Sectors |-> 0]
        /\ start = [lines |-> <<>>, left |-> m, skipped |-> {}, placed |-> [sec \in Sectors |-> 0]]
    BY <1>5 DEF Start
  <1>7. start \in D
    <2>1. start.lines \in Lines(S)
      BY <1>6, EmptyPlan
    <2>2. QED
      BY <1>5, <1>6, <2>1 DEF Ranks
  <1>8. Basis(B, m) \in Nat
    <2>1. PortfolioValue(B) \in Nat
      BY BookSums
    <2>2. QED
      BY <2>1 DEF Basis
  <1>9. ASSUME NEW plan \in D, NEW i \in 1..n PROVE PlaceRanked(B, Basis(B, m), p, plan, q[i]) \in D
    <2>1. PICK b, s, next : b = Basis(B, m) /\ s = q[i] /\ next = PlaceRanked(B, b, p, plan, s)
      OBVIOUS
    <2>2. b \in Nat /\ s \in S /\ p[s] # None /\ plan \in Ranks(S)
      BY <1>2, <1>4, <1>5, <1>8, <2>1
    <2>3. next \in Ranks(S)
      BY <1>2, <2>1, <2>2, DeployPlace
    <2>4. QED
      BY <1>5, <2>1, <2>3
  <1>10. PICK h : /\ h[0] = start /\ \A i \in 0..n : h[i] \in D
                  /\ \A i \in 1..n : h[i] = PlaceRanked(B, Basis(B, m), p, h[i - 1], q[i])
                  /\ \E X : DeployPlan(B, p, c, V, m) = [h[n] EXCEPT !.skipped = @ \cup X]
    <2>1. DOMAIN Line(B, p, c, V) = 1..n /\ Start(m) \in D
      BY <1>1, <1>4, <1>5, <1>7
    <2>2. \A plan \in D : \A i \in 1..n : PlaceRanked(B, Basis(B, m), p, plan, Line(B, p, c, V)[i]) \in D
      BY <1>1, <1>9
    <2>3. PICK h : DeployRun(B, p, c, V, m, n, D, h)
      BY <2>1, <2>2, DeploySteps
    <2>4. QED
      BY <1>1, <1>5, <2>3 DEF DeployRun
  <1> DEFINE P == {i \in 0..n : DeployInv(B, p, m, q, n, h[i], i)}
  <1>11. 0 \in P
    <2>1. /\ Spent(start) = 0 /\ (\A s : Bought(start, s) = 0)
          /\ \A T \in SUBSET Symbols : BoughtIn(start, T) = 0
      BY <1>6, EmptyPlan
    <2>2. ASSUME NEW sec \in Sectors PROVE SectorInv(B, Basis(B, m), start, sec)
      <3>1. InSector(sec) \in SUBSET Symbols /\ start.placed[sec] = 0
        BY <1>6 DEF InSector
      <3>2. QED
        BY <2>1, <3>1 DEF SectorInv
    <2>3. ASSUME NEW j \in 1..n PROVE LineInv(B, p, Basis(B, m), q, start, 0, j)
      <3>1. j > 0 /\ ~(j <= 0)
        OBVIOUS
      <3>2. QED
        BY <2>1, <3>1 DEF LineInv
    <2>4. Spent(start) + start.left = m /\ BoughtIn(start, Symbols) = Spent(start)
      <3>1. Symbols \in SUBSET Symbols
        OBVIOUS
      <3>2. BoughtIn(start, Symbols) = 0
        BY <2>1, <3>1
      <3>3. Spent(start) + start.left = m
        BY <1>6, <2>1
      <3>4. QED
        BY <2>1, <3>2, <3>3
    <2>5. DeployInv(B, p, m, q, n, start, 0)
      BY <2>2, <2>3, <2>4 DEF DeployInv
    <2>6. QED
      BY <1>10, <2>5
  <1>12. ASSUME NEW i \in 1..n, i - 1 \in P PROVE i \in P
    <2>1. PICK plan : plan = h[i - 1]
      OBVIOUS
    <2>2. DeployInv(B, p, m, q, n, plan, i - 1) /\ i \in 0..n /\ i - 1 \in 0..n
      BY <1>12, <2>1
    <2>3. plan \in Ranks(S)
      BY <1>5, <1>10, <2>1, <2>2
    <2>4. h[i] = PlaceRanked(B, Basis(B, m), p, plan, q[i])
      BY <1>10, <2>1
    <2>5. DeployInv(B, p, m, q, n, h[i], i)
      BY <1>2, <1>4, <2>2, <2>3, <2>4, DeployInvStep
    <2>6. QED
      BY <2>2, <2>5
  <1>13. n \in P
    <2> HIDE DEF P
    <2>1. \A i \in 1..n : i - 1 \in P => i \in P
      BY <1>12
    <2>2. \A i \in 0..n : i \in P
      BY <1>11, <2>1, PrefixInduction
    <2>3. QED
      BY <2>2
  <1>14. PICK last, plan : last = h[n] /\ plan = DeployPlan(B, p, c, V, m)
    OBVIOUS
  <1>15. DeployInv(B, p, m, q, n, last, n) /\ last \in Ranks(S)
    <2>1. n \in 0..n
      OBVIOUS
    <2>2. QED
      BY <1>5, <1>10, <1>13, <1>14, <2>1
  <1>16. PICK X : plan = [last EXCEPT !.skipped = @ \cup X]
    BY <1>10, <1>14
  <1>17. plan.lines = last.lines /\ plan.left = last.left /\ plan.placed = last.placed
    BY <1>15, <1>16 DEF Ranks
  <1>18. DeployInv(B, p, m, q, n, plan, n)
    BY <1>15, <1>17, SamePlan
  <1>19. plan.lines \in Lines(S) /\ plan.left \in Nat /\ plan.placed \in [Sectors -> Nat]
    BY <1>15, <1>17 DEF Ranks
  <1>20. QED
    BY <1>1, <1>4, <1>14, <1>18, <1>19

\* If of no candidate a share would be bought there are no lines.
Placed(B, p, m, q, n) ==
  \A j \in 1..n : Shares(m, DeployRoom(B, Basis(B, m), Start(m), q[j]), p[q[j]], Limits.line) = 0

\* So the whole plan has no lines.
LEMMA DeployIdle ==
  ASSUME NEW B, NEW p, NEW c, NEW V, NEW m \in Nat, NEW n \in Nat, DOMAIN Line(B, p, c, V) = 1..n,
         Placed(B, p, m, Line(B, p, c, V), n)
  PROVE  DeployPlan(B, p, c, V, m).lines = <<>>
  <1>1. PICK b, q, zero : b = Basis(B, m) /\ q = Line(B, p, c, V) /\ zero = [sec \in Sectors |-> 0]
    OBVIOUS
  <1>3. PICK Entries1 : Entries1 = [symbol : {q[j] : j \in 1..n}, reason : Reasons]
    OBVIOUS
  <1>4. PICK D : D = [lines : {<<>>}, left : {m}, skipped : SUBSET Entries1, placed : {zero}]
    OBVIOUS
  <1>5. Start(m) \in D
    BY <1>1, <1>4 DEF Start
  <1>6. ASSUME NEW plan \in D, NEW i \in 1..n PROVE PlaceRanked(B, b, p, plan, q[i]) \in D
    <2>1. PICK s, why : s = q[i] /\ why = DeployWhy(B, b, plan, s)
      OBVIOUS
    <2>2. /\ plan = [lines |-> <<>>, left |-> m, skipped |-> plan.skipped, placed |-> zero]
          /\ plan.skipped \in SUBSET Entries1 /\ plan.left = m /\ plan.placed = zero
      BY <1>4
    <2>3. Start(m).placed = zero
      BY <1>1 DEF Start
    <2>4. DeployRoom(B, b, plan, s) = DeployRoom(B, b, Start(m), s)
      BY <2>2, <2>3 DEF DeployRoom
    <2>5. Shares(plan.left, DeployRoom(B, b, plan, s), p[s], Limits.line) = 0
      BY <1>1, <2>1, <2>2, <2>4 DEF Placed
    <2>6. PlaceRanked(B, b, p, plan, s) = [plan EXCEPT !.skipped = @ \cup {[symbol |-> s, reason |-> why]}]
      BY <2>1, <2>5 DEF PlaceRanked
    <2>7. why \in Reasons
      <3>1. why \in {"cash_exhausted", "max_position_weight", "max_sector_weight", "min_line_usd"}
        BY <2>1, Zenon DEF DeployWhy
      <3>2. QED
        BY <3>1 DEF Reasons
    <2>8. [symbol |-> s, reason |-> why] \in Entries1
      BY <1>3, <2>1, <2>7
    <2>9. QED
      BY <1>4, <2>1, <2>2, <2>6, <2>8
  <1>7. \A plan \in D : \A i \in 1..n : PlaceRanked(B, Basis(B, m), p, plan, Line(B, p, c, V)[i]) \in D
    BY <1>1, <1>6
  <1>8. PICK h : DeployRun(B, p, c, V, m, n, D, h)
    <2>1. DOMAIN Line(B, p, c, V) = 1..n
      OBVIOUS
    <2>2. QED
      BY <1>5, <1>7, <2>1, DeploySteps
  <1>9. h[n] \in D /\ \E X : DeployPlan(B, p, c, V, m) = [h[n] EXCEPT !.skipped = @ \cup X]
    <2>1. n \in 0..n
      OBVIOUS
    <2>2. QED
      BY <1>8, <2>1 DEF DeployRun
  <1>10. QED
    BY <1>4, <1>9

\* The ranked plan keeps its limits and leaves nothing it could place.
LEMMA DeploysSound ==
  ASSUME BookOK(Book), DOMAIN Book \subseteq Held, PricesOK(DeployPrices)
  PROVE  DeployPlanSound
  <1> SUFFICES ASSUME NEW m \in Amounts, NEW plan, plan = DeployPlan(Book, DeployPrices, InBase, Universe, m)
               PROVE  /\ Spent(plan) + plan.left = m /\ plan.left >= 0
                      /\ \A i \in DOMAIN plan.lines : LET s == plan.lines[i].symbol IN
                           /\ Whole * ValueIn(Done(plan), s) <= Limits.position * Basis(Book, m)
                           /\ Whole * SectorValue(Done(plan), Sector[s]) <= Limits.sector * Basis(Book, m)
                      /\ DeployPlan(Done(plan), DeployPrices, InBase, Universe \cup DOMAIN Done(plan), plan.left).lines = <<>>
    BY DEF DeployPlanSound
  <1>1. PICK B, C, p, c, V, b, S : /\ B = Book /\ C = Done(plan) /\ p = DeployPrices /\ c = InBase /\ V = Universe
                                   /\ b = Basis(B, m) /\ S = Candidates(V, p, c)
    OBVIOUS
  <1>2. BookOK(B) /\ PricesOK(p) /\ m \in Nat
    BY <1>1, PlanAssumption DEF PlanAssumption
  <1>3. V \subseteq Symbols /\ DOMAIN B \subseteq V
    <2>1. Held \subseteq Symbols /\ Watched \subseteq Symbols
      BY PlanAssumption DEF Held, PlanAssumption
    <2>2. QED
      BY <1>1, <2>1 DEF Universe
  <1>4. S \subseteq V /\ S \subseteq Symbols /\ Rated(S) /\ \A s \in S : p[s] # None
    BY <1>1, <1>3, CandidatesOK
  <1>5. plan = DeployPlan(B, p, c, V, m)
    BY <1>1
  <1>6. /\ plan.lines \in Lines(S) /\ plan.left \in Nat /\ plan.placed \in [Sectors -> Nat]
        /\ \E n \in Nat : \E q \in [1..n -> S] : /\ \A s \in S : \E j \in 1..n : q[j] = s
                                                 /\ DeployInv(B, p, m, q, n, plan, n)
    BY <1>1, <1>2, <1>3, DeployGood
  <1>20. PICK n \in Nat : \E q \in [1..n -> S] : /\ \A s \in S : \E j \in 1..n : q[j] = s
                                                 /\ DeployInv(B, p, m, q, n, plan, n)
    BY <1>6
  <1>7. PICK q \in [1..n -> S] : /\ \A s \in S : \E j \in 1..n : q[j] = s
                                 /\ DeployInv(B, p, m, q, n, plan, n)
    BY <1>20
  <1>8. Spent(plan) + plan.left = m /\ BoughtIn(plan, Symbols) = Spent(plan)
    BY <1>7 DEF DeployInv
  <1>9. Spent(plan) \in Nat /\ \A s : Bought(plan, s) \in Nat
    BY <1>6, LinesCost
  <1>10. /\ BookOK(C) /\ DOMAIN C \subseteq DOMAIN B \cup S
         /\ \A s \in Symbols : ValueIn(C, s) = ValueIn(B, s) + Bought(plan, s)
         /\ PortfolioValue(C) = PortfolioValue(B) + BoughtIn(plan, Symbols)
         /\ \A sec : SectorValue(C, sec) = SectorValue(B, sec) + BoughtIn(plan, InSector(sec))
    <2>1. S \subseteq Symbols /\ plan.lines \in Lines(S)
      BY <1>4, <1>6
    <2>2. CarriedOut(plan, S)
      BY <2>1, DoneBook
    <2>3. QED
      BY <1>1, <2>2 DEF CarriedOut
  <1>11. Basis(C, plan.left) = b /\ b \in Nat
    <2>1. PortfolioValue(B) \in Nat
      BY <1>2, BookSums
    <2>2. QED
      BY <1>1, <1>2, <1>6, <1>8, <1>9, <1>10, <2>1 DEF Basis
  <1>12. V \cup DOMAIN C = V
    BY <1>3, <1>4, <1>10
  <1>13. ASSUME NEW s \in S
         PROVE  /\ Sector[s] \in Sectors /\ SectorValue(C, Sector[s]) = SectorValue(B, Sector[s]) + plan.placed[Sector[s]]
                /\ plan.placed[Sector[s]] > 0 => Whole * SectorValue(C, Sector[s]) <= Limits.sector * b
                /\ Bought(plan, s) > 0 => Whole * ValueIn(C, s) <= Limits.position * b
                /\ Full(plan.left, RoomLeft(B, b, plan, s), p[s], Limits.line)
    <2>1. Sector[s] \in Sectors
      BY <1>4, PlanAssumption DEF PlanAssumption, Sectors
    <2>2. SectorInv(B, b, plan, Sector[s])
      BY <1>1, <1>7, <2>1 DEF DeployInv
    <2>3. SectorValue(C, Sector[s]) = SectorValue(B, Sector[s]) + plan.placed[Sector[s]]
      BY <1>10, <2>2 DEF SectorInv
    <2>4. PICK j \in 1..n : q[j] = s
      BY <1>7
    <2>5. LineInv(B, p, b, q, plan, n, j) /\ j <= n
      BY <1>1, <1>7 DEF DeployInv
    <2>6. /\ Bought(plan, s) > 0 => Whole * (ValueIn(B, s) + Bought(plan, s)) <= Limits.position * b
          /\ Full(plan.left, RoomLeft(B, b, plan, s), p[s], Limits.line)
      BY <2>4, <2>5 DEF LineInv
    <2>7. ValueIn(C, s) = ValueIn(B, s) + Bought(plan, s)
      BY <1>4, <1>10
    <2>8. QED
      BY <2>1, <2>2, <2>3, <2>6, <2>7 DEF SectorInv
  <1>14. ASSUME NEW i \in DOMAIN plan.lines, NEW s, s = plan.lines[i].symbol
         PROVE  /\ Whole * ValueIn(C, s) <= Limits.position * b
                /\ Whole * SectorValue(C, Sector[s]) <= Limits.sector * b
    <2>1. s \in S /\ Bought(plan, s) > 0
      BY <1>6, <1>14, LineBought
    <2>2. plan.placed[Sector[s]] > 0
      <3>1. PICK T, f : T = InSector(Sector[s]) /\ f = [x \in Symbols |-> Bought(plan, x)]
        OBVIOUS
      <3>2. T \subseteq Symbols /\ s \in T
        BY <1>4, <2>1, <3>1 DEF InSector
      <3>3. IsFiniteSet(T)
        BY <3>2, DeskAssumption, FS_Subset DEF DeskAssumption
      <3>4. (\A x \in T : f[x] \in Nat) /\ f[s] = Bought(plan, s) /\ f[s] \in Nat
        BY <1>9, <3>1, <3>2
      <3>5. SumFunctionOnSet(f, T) = f[s] + SumFunctionOnSet(f, T \ {s}) /\ SumFunctionOnSet(f, T \ {s}) \in Nat
        BY <3>2, <3>3, <3>4, SumSplit
      <3>6. SumFunctionOnSet(f, T) > 0
        BY <2>1, <3>4, <3>5
      <3>7. plan.placed[Sector[s]] = SumFunctionOnSet(f, T)
        <4>1. Sector[s] \in Sectors
          BY <1>13, <2>1
        <4>2. SectorInv(B, b, plan, Sector[s])
          BY <1>1, <1>7, <4>1 DEF DeployInv
        <4>3. QED
          BY <3>1, <4>2 DEF SectorInv, BoughtIn
      <3>8. QED
        BY <3>6, <3>7
    <2>3. QED
      BY <1>13, <2>1, <2>2
  <1>15. DeployPlan(C, p, c, V, plan.left).lines = <<>>
    <2>1. PICK r : r = Line(C, p, c, V)
      OBVIOUS
    <2>2. r = Ranked(C, S)
      BY <1>1, <2>1 DEF Line
    <2>3. PICK k \in Nat : r \in [1..k -> S]
      BY <1>4, <1>10, <2>2, RankedIsSorted
    <2>4. ASSUME NEW j \in 1..k, NEW s, s = r[j]
          PROVE  Shares(plan.left, DeployRoom(C, b, Start(plan.left), s), p[s], Limits.line) = 0
      <3>1. s \in S /\ s \in Symbols /\ Sector[s] \in Sectors
        BY <1>4, <1>13, <2>3, <2>4
      <3>2. Start(plan.left).placed[Sector[s]] = 0
        BY <3>1 DEF Start
      <3>3. SectorValue(C, Sector[s]) + 0 = SectorValue(B, Sector[s]) + plan.placed[Sector[s]]
        <4>1. SectorValue(C, Sector[s]) \in Nat
          BY <1>10, BookSums
        <4>2. QED
          BY <1>13, <3>1, <4>1
      <3>4. ValueIn(C, s) = ValueIn(B, s) + Bought(plan, s)
        BY <1>10, <3>1
      <3>5. DeployRoom(C, b, Start(plan.left), s) = RoomLeft(B, b, plan, s)
        BY <3>2, <3>3, <3>4 DEF DeployRoom, RoomLeft
      <3>6. RoomLeft(B, b, plan, s) \in Int
        <4>1. PICK x, y : x = Bought(plan, s) /\ y = plan.placed[Sector[s]]
          OBVIOUS
        <4>2. x \in Nat /\ y \in Nat
          BY <1>6, <1>9, <3>1, <4>1
        <4>3. PICK d, e : /\ d = Limits.position * b - Whole * (ValueIn(B, s) + x)
                          /\ e = Limits.sector * b - Whole * (SectorValue(B, Sector[s]) + y)
          OBVIOUS
        <4>4. d \in Int /\ e \in Int
          BY <1>2, <1>11, <3>1, <4>2, <4>3, DeployRooms
        <4>5. RoomLeft(B, b, plan, s) = Least(d, e)
          BY <4>1, <4>3 DEF RoomLeft
        <4>6. QED
          BY <4>4, <4>5 DEF Least
      <3>7. Full(plan.left, RoomLeft(B, b, plan, s), p[s], Limits.line)
        BY <1>13, <3>1
      <3>8. Shares(plan.left, RoomLeft(B, b, plan, s), p[s], Limits.line) = 0
        BY <1>6, <3>6, <3>7 DEF Full
      <3>9. QED
        BY <3>5, <3>8
    <2>5. Placed(C, p, plan.left, Line(C, p, c, V), k)
      BY <1>11, <2>1, <2>4 DEF Placed
    <2>6. DOMAIN Line(C, p, c, V) = 1..k
      BY <2>1, <2>3
    <2>7. QED
      BY <1>6, <2>5, <2>6, DeployIdle
  <1>16. DeployPlan(Done(plan), DeployPrices, InBase, Universe \cup DOMAIN Done(plan), plan.left).lines = <<>>
    <2>1. Universe \cup DOMAIN Done(plan) = V
      BY <1>1, <1>12
    <2>2. QED
      BY <1>1, <1>15, <2>1
  <1>17. plan.left >= 0
    BY <1>6
  <1>18. \A i \in DOMAIN plan.lines : LET s == plan.lines[i].symbol IN
           /\ Whole * ValueIn(Done(plan), s) <= Limits.position * Basis(Book, m)
           /\ Whole * SectorValue(Done(plan), Sector[s]) <= Limits.sector * Basis(Book, m)
    BY <1>1, <1>14
  <1>19. QED
    BY <1>8, <1>16, <1>17, <1>18

-----------------------------------------------------------------------------
\* The row of targets is one the owner saved, or there is none.
RulesInv == rules = None \/ rules \in RuleSets

\* What the plans read of a book and of the cache: values that are numbers or missing,
\* prices that are missing or positive, and saved targets the routes let through.
LEMMA ReadsAreGood ==
  ASSUME Inv, BoundInv, BookInv, RulesInv
  PROVE  /\ BookOK(Book) /\ DOMAIN Book \subseteq Held
         /\ PricesOK(TargetPrices) /\ PricesOK(DeployPrices)
         /\ rules # None => RulesOK(rules)
  <1>1. DOMAIN Book = {t \in Symbols : shares[t] > 0}
    BY DEF Book, Holdings
  <1>2. ASSUME NEW s \in DOMAIN Book PROVE Book[s].value = None \/ Book[s].value \in Nat
    <2>1. PICK n : n = shares[s]
      OBVIOUS
    <2>2. n \in Nat /\ s \in Symbols
      BY <1>1, <2>1 DEF BookInv
    <2>3. Book[s].value = ValueOf(s, n)
      BY <1>1, <1>2, <2>1 DEF Book, Holdings
    <2>4. QED
      BY <2>2, <2>3, ValueType
  <1>3. BookOK(Book) /\ DOMAIN Book \subseteq Held
    BY <1>1, <1>2 DEF BookOK, Held
  <1>4. ASSUME NEW x \in Series PROVE Latest(x) = None \/ Latest(x) \in Nat \ {0}
    <2>1. \A v \in Values : v \in Nat \ {0}
      BY DEF Values
    <2>2. QED
      BY <1>4, <2>1, LatestType
  <1>5. PricesOK(TargetPrices)
    <2>1. ASSUME NEW s \in Symbols PROVE TargetPrices[s] = None \/ TargetPrices[s] \in Nat \ {0}
      <3>1. PICK x : x = [symbol |-> s, currency |-> Base]
        OBVIOUS
      <3>2. TargetPrices[s] = IF x \in Series THEN Latest(x) ELSE None
        BY <3>1 DEF TargetPrices
      <3>3. QED
        BY <1>4, <3>2
    <2>2. QED
      BY <2>1 DEF PricesOK
  <1>6. PricesOK(DeployPrices)
    <2>1. ASSUME NEW s \in Symbols PROVE DeployPrices[s] = None \/ DeployPrices[s] \in Nat \ {0}
      <3>1. HeldListing(s) \in Series /\ DeployPrices[s] = Latest(HeldListing(s))
        BY HeldType DEF DeployPrices
      <3>2. QED
        BY <1>4, <3>1
    <2>2. QED
      BY <2>1 DEF PricesOK
  <1>7. rules # None => RulesOK(rules)
    BY PlanAssumption DEF RulesInv, RulesOK, PlanAssumption
  <1>8. QED
    BY <1>3, <1>5, <1>6, <1>7

\* cash_to_targets.build_plan and deploy_cash.recommend: whatever is held, cached, rated
\* and saved, and whatever the amount, a plan spends what it was given and no more, takes
\* no security past its target, its cap or the limits of its position and its sector, and
\* leaves nothing it could place: carried out and asked again with the rest it buys nothing.
THEOREM PlansHold == Spec => []PlansAreSound
  <1>1. Init => Inv /\ BoundInv /\ BookInv /\ RulesInv
    BY InitReads DEF Init, RulesInv
  <1>2. Inv /\ BoundInv /\ BookInv /\ RulesInv /\ [Next]_<<vars, book, rules>> => (Inv /\ BoundInv /\ BookInv /\ RulesInv)'
    <2> SUFFICES ASSUME Inv, BoundInv, BookInv, RulesInv, [Next]_<<vars, book, rules>>
                 PROVE  (Inv /\ BoundInv /\ BookInv /\ RulesInv)'
      OBVIOUS
    <2>1. Inv' /\ BoundInv' /\ BookInv'
      BY Step, StepBound, StepBook
    <2>2. RulesInv'
      BY DEF RulesInv, Next, DeskNext, PutTargets, Buy
    <2>3. QED
      BY <2>1, <2>2
  <1>3. Inv /\ BoundInv /\ BookInv /\ RulesInv => PlansAreSound
    <2> SUFFICES ASSUME Inv, BoundInv, BookInv, RulesInv PROVE TargetPlanSound /\ DeployPlanSound
      BY DEF PlansAreSound
    <2>1. /\ BookOK(Book) /\ DOMAIN Book \subseteq Held /\ PricesOK(TargetPrices) /\ PricesOK(DeployPrices)
          /\ rules # None => RulesOK(rules)
      BY ReadsAreGood
    <2>2. TargetPlanSound
      BY <2>1, TargetsSound
    <2>3. DeployPlanSound
      BY <2>1, DeploysSound
    <2>4. QED
      BY <2>2, <2>3
  <1>4. QED
    BY <1>1, <1>2, <1>3, PTL DEF Spec
================================================================================
