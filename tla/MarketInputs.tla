---------------------------- MODULE MarketInputs ----------------------------
(* The cached market inputs every valuation reads: price_bars and fx_rates,   *)
(* the jobs that fill them from a source (prices.py, fx.py), the log of what  *)
(* they overwrote (MarketInputRevision) and the reads of the cache.           *)
(* securities is global: one symbol may have a listing per currency, and a    *)
(* portfolio holds it under one of them.  Closes and rates are small numbers; *)
(* a day is a session.                                                        *)
EXTENDS Integers, Sequences, FiniteSets, FiniteSetsExt, SequencesExt

CONSTANTS
  Listings,      \* the securities rows in id order: [symbol |-> s, currency |-> c]
  HeldUnder,     \* the currency a portfolio holds each symbol under
  Base,          \* its base currency
  Published,     \* the closes and rates the source may publish, per symbol and currency
  Opening,       \* what it publishes on the first session
  Writers,       \* the sessions that run the jobs
  MaxDay,        \* bound: the last session
  MaxRevisions,  \* bound: the values the source corrects later
  None

Symbols == DOMAIN HeldUnder
\* A pair is priced like one more symbol (fx_pair_symbol).
Pair(c) == [symbol |-> "fx", currency |-> c]
Foreign == {Pair(l.currency) : l \in {m \in ToSet(Listings) : m.currency # Base}}
\* The cached series: the closes of a listing, the rates of a currency.
Series == ToSet(Listings) \cup Foreign
FirstListing(s) == Listings[CHOOSE i \in DOMAIN Listings :
                     /\ Listings[i].symbol = s
                     /\ \A j \in DOMAIN Listings : Listings[j].symbol = s => i <= j]
HeldListing(s) == [symbol |-> s, currency |-> HeldUnder[s]]
\* What the source knows a series as.
SourceOf(series) == IF series \in Foreign THEN series.currency ELSE series.symbol
Sources == {SourceOf(x) : x \in Series}
Values == UNION {Published[x] : x \in Sources}

ASSUME ListingsAssumption ==
  /\ \A s \in Symbols : HeldListing(s) \in ToSet(Listings)
  /\ Symbols = {l.symbol : l \in ToSet(Listings)}
  /\ \A x \in Sources : Published[x] \subseteq Nat \ {0} /\ Opening[x] \in Published[x]
  /\ None \notin Values
  /\ MaxDay \in Nat

VARIABLES
  today,    \* the last session
  source,   \* what the source answers: closes per symbol, rates per currency, by day
  corrected,\* how many values it has corrected
  cache,    \* price_bars and fx_rates: a value per series and day
  log,      \* market_input_revisions: [series, day, value]
  sess      \* what each session has read and not yet committed
vars == <<today, source, corrected, cache, log, sess>>

-----------------------------------------------------------------------------
(* Reads.  A partial function from days to values is a series. *)

Days(series) == DOMAIN cache[series]
\* latest_close_by_symbol, latest_rate_to_base: the newest row of the series asked for.
Latest(series) == IF Days(series) = {} THEN None ELSE cache[series][Max(Days(series))]
LatestDay(series) == IF Days(series) = {} THEN None ELSE Max(Days(series))
RateToBase(c) == IF c = Base THEN 1 ELSE Latest(Pair(c))

\* _asof_close, rate_as_of: the latest row on or before the day.
AsOf(rows, d) == LET past == {r \in rows : r.day <= d}
                 IN {r.value : r \in {q \in past : \A p \in past : p.day <= q.day}}
Rows(l) == {[day |-> d, value |-> cache[l][d]] : d \in Days(l)}
\* close_history_by_symbol: the bars of every listing of the symbol, in an inclusive window.
History(s, lo, hi) ==
  {r \in UNION {Rows(l) : l \in {m \in ToSet(Listings) : m.symbol = s}} : lo <= r.day /\ r.day <= hi}

\* Mutant of Anchor: the window starts where it was asked to.
AnchorNone(l, floor, lo) == lo
\* The carry-forward anchor of a listing: its latest bar in [floor, lo].
Anchor(l, floor, lo) == LET ds == {d \in Days(l) : floor <= d /\ d <= lo} IN IF ds = {} THEN lo ELSE Max(ds)
\* close_history_in_windows for one symbol's window.
WindowHistory(s, lo, hi, floor) ==
  LET from == Max({lo, floor})
  IN UNION {{r \in Rows(l) : Anchor(l, floor, from) <= r.day /\ r.day <= hi}
              : l \in {m \in ToSet(Listings) : m.symbol = s}}

-----------------------------------------------------------------------------
(* The jobs.  refresh_latest_prices and refresh_fx_rates load the row of the  *)
(* newest value through the ORM and write it at the commit; backfill_prices   *)
(* records what it is about to overwrite and then upserts.                    *)

Idle == [job |-> "idle"]
Newest(series) == Len(source[SourceOf(series)]) - 1
Given(series, d) == source[SourceOf(series)][d + 1]
Stored(series, d) == IF d \in Days(series) THEN cache[series][d] ELSE None
Entry(series, d, v) == [series |-> series, day |-> d, value |-> v]
\* The cache with entries put in, one at most per series and day.
Put(entries) ==
  [x \in Series |-> LET new == {r \in entries : r.series = x} IN
     [d \in Days(x) \cup {r.day : r \in new} |->
        IF \E r \in new : r.day = d THEN (CHOOSE r \in new : r.day = d).value ELSE cache[x][d]]]

\* The fetch and the SELECT of the rows it will change.  Prices resolve the held listing.
RefreshRead(w) ==
  /\ sess[w] = Idle
  /\ \E series \in {{HeldListing(s) : s \in Symbols}, Foreign} :
       sess' = [sess EXCEPT ![w] =
         [job |-> "refresh",
          rows |-> {[series |-> x, day |-> Newest(x), old |-> Stored(x, Newest(x)), new |-> Given(x, Newest(x))]
                      : x \in series}]]
  /\ UNCHANGED <<today, source, corrected, cache, log>>

\* A row the session loaded is written only if it differs from what was loaded, and its
\* loaded value is what the before_flush hook logs (_record_input_revisions).
Changed(r) == r.old # r.new
\* Mutant of Superseded: the hook sees inserts only.
SupersededNever(r) == FALSE
Superseded(r) == Changed(r) /\ r.old # None
Written(r) == IF Changed(r) THEN r.new ELSE Stored(r.series, r.day)

RefreshCommit(w) ==
  /\ sess[w].job = "refresh"
  /\ sess' = [sess EXCEPT ![w] = Idle]
  /\ IF \E r \in sess[w].rows : r.old = None /\ Stored(r.series, r.day) # None
       THEN UNCHANGED <<cache, log>>   \* the unique key refuses the INSERT: all is rolled back
       ELSE /\ cache' = Put({Entry(r.series, r.day, Written(r)) : r \in sess[w].rows})
            /\ log' = log \cup {Entry(r.series, r.day, r.old) : r \in {q \in sess[w].rows : Superseded(q)}}
  /\ UNCHANGED <<today, source, corrected>>

\* backfill_prices over [start, today]: no currency is given, so the first listing by id.
Incoming(start) == UNION {{Entry(FirstListing(s), d, Given(FirstListing(s), d)) : d \in start..Newest(FirstListing(s))}
                          : s \in Symbols}
Differing(rows) == {r \in rows : Stored(r.series, r.day) \notin {None, r.value}}
BackfillRecord(w) ==
  /\ sess[w] = Idle
  /\ \E start \in 0..today :
       sess' = [sess EXCEPT ![w] = [job |-> "backfill", rows |-> Incoming(start),
          logged |-> {Entry(r.series, r.day, Stored(r.series, r.day)) : r \in Differing(Incoming(start))}]]
  /\ UNCHANGED <<today, source, corrected, cache, log>>
BackfillUpsert(w) ==
  /\ sess[w].job = "backfill"
  /\ sess' = [sess EXCEPT ![w] = Idle]
  /\ cache' = Put(sess[w].rows)
  /\ log' = log \cup sess[w].logged
  /\ UNCHANGED <<today, source, corrected>>

\* backfill_fx_rates inserts only the days it has no rate for.
BackfillRates(w) ==
  /\ sess[w] = Idle
  /\ LET missing == UNION {{Entry(c, d, Given(c, d)) : d \in {e \in 0..Newest(c) : e \notin Days(c)}} : c \in Foreign}
     IN /\ missing # {}
        /\ cache' = Put(missing)
  /\ UNCHANGED <<today, source, corrected, log, sess>>

-----------------------------------------------------------------------------
(* The source: a new session, or a correction of a value already published. *)

Publish ==
  /\ today < MaxDay
  /\ today' = today + 1
  /\ \E v \in [Sources -> Values] :
       /\ \A x \in Sources : v[x] \in Published[x]
       /\ source' = [x \in Sources |-> Append(source[x], v[x])]
  /\ UNCHANGED <<corrected, cache, log, sess>>
Correct ==
  /\ corrected < MaxRevisions
  /\ corrected' = corrected + 1
  /\ \E x \in Sources : \E d \in 1..Len(source[x]) : \E v \in Published[x] \ {source[x][d]} :
       source' = [source EXCEPT ![x][d] = v]
  /\ UNCHANGED <<today, cache, log, sess>>

MarketInit ==
  /\ today = 0 /\ corrected = 0
  /\ source = [x \in Sources |-> <<Opening[x]>>]
  /\ cache = [x \in Series |-> <<>>]
  /\ log = {}
  /\ sess = [w \in Writers |-> Idle]
JobStep(w) == RefreshRead(w) \/ RefreshCommit(w) \/ BackfillRecord(w) \/ BackfillUpsert(w) \/ BackfillRates(w)
MarketNext == Publish \/ Correct \/ \E w \in Writers : JobStep(w)

-----------------------------------------------------------------------------
(* Properties *)

\* The jobs take turns: another job's commit between a refresh's SELECT and its flush
\* would leave the value it wrote unlogged (the hook logs what the session had loaded).
JobsTakeTurns == \A v, w \in Writers : v = w

\* No cached close or rate is replaced without its value being logged, so a NAV can be
\* replayed from stored inputs: "the append-only record of every cached close or FX rate
\* that was REPLACED" (MarketInputRevision).
ReplacedIsLogged ==
  [][/\ log \subseteq log'
     /\ \A x \in Series : \A d \in Days(x) : cache'[x][d] # cache[x][d] => Entry(x, d, cache[x][d]) \in log']_vars

\* A windowed read answers every as-of lookup inside its window as the wide read does
\* (close_history_in_windows): no valuation changes because fewer bars were read.
WindowReadAgrees ==
  \A s \in Symbols : \A floor \in 0..today : \A lo \in 0..today : \A hi \in lo..today :
    \A d \in Max({lo, floor})..hi :
      AsOf(WindowHistory(s, lo, hi, floor), d) = AsOf(History(s, floor, hi), d)
=============================================================================
