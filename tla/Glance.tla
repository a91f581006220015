-------------------------------- MODULE Glance --------------------------------
(* The recorded rows beside the live quotes, and the screen composed of both: *)
(* api/services/glance.py, api/insights/ranker.py and, of performance.py, the *)
(* TODAY tile and the record of the day's overnight/intraday split.           *)
EXTENDS LivePrices

CONSTANT Slots  \* ZONE_LIMITS: the movers shown

VARIABLES
  rows,    \* nav_snapshots: per recorded day, nav and composition
  splits   \* intraday_leg_snapshots: per recorded day, the legs (with the beat they came from,
           \* and whether a quote of it was on another scale)

vars == <<market, bars, rows, splits>>

-----------------------------------------------------------------------------
(* The rows *)
Worth(legs) == Total(DOMAIN legs, [s \in DOMAIN legs |-> HeldIn(Accounts, s) * legs[s].price * legs[s].rate])
\* record_snapshot values every holding that can be on its newest cached close.
NewRow ==
  LET legs == [s \in {t \in Held(Accounts) : Rate(t) # None} |->
                 [price |-> Close(s), day |-> NewestBar(s), rate |-> Rate(s)]]
  IN [nav |-> Worth(legs), legs |-> legs]
\* reconcile_provisional_snapshots: a fund leg older than its row is revalued by the
\* newest close not after the row.
StaleLeg(r, d, s) == s \in Funds /\ r.legs[s].day < d
AsOf(s, d) == Max({b \in bars[s] : b <= d} \cup {-1})
RestatedRow(r, d) ==
  LET legs == [s \in DOMAIN r.legs |->
        IF StaleLeg(r, d, s) /\ AsOf(s, d) > r.legs[s].day
          THEN [r.legs[s] EXCEPT !.price = closes[s][AsOf(s, d)], !.day = AsOf(s, d)] ELSE r.legs[s]]
  IN [nav |-> r.nav + Worth(legs) - Worth(r.legs), legs |-> legs]
Restated(table) == [d \in DOMAIN table |-> RestatedRow(table[d], d)]

\* record_intraday_legs: whatever the quotes still are, under today's date.
NewSplit(t) == [overnight |-> t.overnight, intraday |-> t.intraday, day |-> t.day,
                priced |-> Len(t.rows), beat |-> <<art.day, art.phase>>,
                scaled |-> \E s \in ToSet(t.rows) : ~Coherent(art.quotes[s].last, Close(s))]

\* refresh_latest_prices: the newest close of each security.
Refresh ==
  /\ bars' = [s \in Symbols |-> bars[s] \cup {Max(DOMAIN closes[s])}]
  /\ UNCHANGED market
\* POST prices/refresh, any time of the day.
Button == Refresh /\ rows' = Add(rows, day, NewRow') /\ UNCHANGED splits
\* daily_refresh, once the session's closes are out and on weekends. Each step after the
\* refresh is best effort: one may fail and the rest go on, or the process dies between two.
Nightly ==
  /\ phase \in {"post", "off"} /\ Refresh
  /\ \E table \in {rows} : rows' \in {Restated(table)', Add(Restated(table)', day, NewRow')}
  /\ splits' \in {splits} \cup (IF TodayAvailable THEN {Add(splits, day, NewSplit(t)) : t \in {u \in {Today} : u.rows # <<>>}} ELSE {})

Init == MarketInit /\ rows = [d \in {1} |-> NewRow] /\ splits = <<>>
Next ==
  \/ Button \/ Nightly
  \/ (ClockNext \/ FeedNext) /\ UNCHANGED <<bars, rows, splits>>
Spec == Init /\ [][Next]_vars

-----------------------------------------------------------------------------
(* The screen *)
\* _snapshot_on_trading_session and _today_window_indices
RowOn(d) == Max({e \in DOMAIN rows : e <= d /\ Trading(e)} \cup {-1})
Tile ==
  LET end == RowOn(LastClosed)  base == RowOn(Before(LastClosed))
  IN IF base < 0 \/ base >= end THEN None ELSE [base |-> base, end |-> end, gain |-> rows[end].nav - rows[base].nav]

\* The live view the zones share.
Live == TodayAvailable /\ ~Stale /\ Today.rows # <<>>
Headline ==
  IF Live THEN [change |-> Today.day, provenance |-> "live"]
  ELSE IF Tile # None THEN [change |-> Tile.gain, provenance |-> "settled"]
  ELSE [change |-> None, provenance |-> None]

\* _path: the settled points, and in session the live pair after the last of them.
Settled == SetToSortSeq(DOMAIN rows, <)
Path ==
  IF Len(Settled) < 2 THEN [available |-> FALSE, provenance |-> "settled", live |-> <<>>]
  ELSE IF phase = "open" /\ Live
    THEN LET prior == rows[Last(Settled)].nav
         IN [available |-> TRUE, provenance |-> "live", live |-> <<prior, prior + Today.day>>]
  ELSE [available |-> TRUE, provenance |-> "settled", live |-> <<>>]

\* _movers: the live rows, else the legs two rows have in common, in the order of the row.
Contribution(from, to, s) ==
  HeldIn(Accounts, s) * (rows[to].legs[s].price - rows[from].legs[s].price) * rows[to].legs[s].rate
Common(from, to) == DOMAIN rows[from].legs \cap DOMAIN rows[to].legs
Candidates ==
  IF Live THEN LET t == Today
    IN [i \in DOMAIN t.rows |-> [ticker |-> t.rows[i], amount |-> t.gain[t.rows[i]], of |-> t.before]]
  ELSE IF Tile = None THEN <<>>
  ELSE LET order == SetToSeq(Common(Tile.base, Tile.end))
       IN [i \in DOMAIN order |-> [ticker |-> order[i], amount |-> Contribution(Tile.base, Tile.end, order[i]),
                                   of |-> rows[Tile.base].nav]]
\* _scale onto hundredths: one per cent of the value and more is all of it.
Score(c) == IF c.of = 0 THEN 0 ELSE Min({100, (10000 * Magnitude(c.amount)) \div c.of})
\* rank: best first, those of one facet and score in the order they came; select: the
\* slots are not filled with what is under the floor.
Better(cs, i, j) == Score(cs[i]) > Score(cs[j]) \/ (Score(cs[i]) = Score(cs[j]) /\ i < j)
Ranked(cs) == LET order == SetToSortSeq(DOMAIN cs, LAMBDA i, j : Better(cs, i, j))
              IN [i \in DOMAIN order |-> cs[order[i]]]
Shown(cs) == SelectSeq(SubSeq(Ranked(cs), 1, Min({Slots, Len(cs)})), LAMBDA c : Score(c) >= 25)

-----------------------------------------------------------------------------
(* Properties *)

SettledWorth == NewRow.nav
Coverage == CoverageOf(Accounts)
Applied == LiveView(Held(Accounts)).applied
EstimateGain ==
  LET S == {f \in Funds \cap Held(Accounts) : SourceOf(f) = "estimated"}
  IN Total(S, [f \in S |-> HeldIn(Accounts, f) * (Estimate(f) - Close(f))])
\* The quotes are of this listing, and follow the closes that are cached.
InStep == \A s \in Quoted \cap Held(Accounts) :
            Coherent(art.quotes[s].last, Close(s)) /\ NewestBar(s) = Before(UsSession)

\* Beyond the settled value the live value holds the day's move and the estimates, and
\* nothing else: what one view leaves out (a suspect quote, one of an earlier session, no
\* rate) the other values at its close.
LiveValueIsSettledPlusDay ==
  Applied /\ TodayAvailable /\ InStep
    => Coverage.total = SettledWorth + Today.day + EstimateGain
\* The accounts' moves are the portfolio's, and every holding is in it or named outside it.
AccountsAddUp ==
  TodayAvailable => LET t == Today  by == TodayByAccount IN
    /\ t.day = Total(Accounts, [a \in Accounts |-> by[a].day])
    /\ t.before = Total(Accounts, [a \in Accounts |-> by[a].before])
    /\ t.overnight + t.intraday = t.day
    /\ ToSet(t.rows) \cup DOMAIN t.excluded = Held(Accounts)
\* The change at the top of the screen is what the positions below it moved.
HeadlineIsItsMovers ==
  LET h == Headline  cs == Candidates IN
  h.change # None /\ (Live \/ DOMAIN rows[Tile.base].legs = DOMAIN rows[Tile.end].legs)
    => h.change = Total(DOMAIN cs, [i \in DOMAIN cs |-> cs[i].amount])
\* The sparkline ends at the live value, but for the estimates, when its last row is the
\* last session's.
PathEndsAtTheLiveValue ==
  Path.live # <<>> /\ InStep /\ rows[Last(Settled)].nav = SettledWorth
    => Last(Path.live) = Coverage.total - EstimateGain
LiveViewsAgree ==
  LiveValueIsSettledPlusDay /\ AccountsAddUp /\ HeadlineIsItsMovers /\ PathEndsAtTheLiveValue

\* A fund estimated over its last struck value is valued at what the ETF it tracks makes of
\* it: the value that is struck later, when the quote is the session's last.
RightProxy(q, p) == ~q.suspect /\ q.prev = closes[p][Before(q.session)]
EstimateIsTheStruckValue ==
  Applied => \A f \in Funds :
    LET p == ProxyOf[f] IN
    SourceOf(f) = "estimated" /\ NewestBar(f) = Before(day) /\ RightProxy(art.proxies[p], p)
      => /\ Estimate(f) = art.proxies[p].last
         /\ art.phase = "post" => Estimate(f) = closes[p][day]

\* A day's recorded split is the move its rows then show close to close, when it was
\* recorded from quotes of after that day's session, on the scale of the closes.
Rated == {s \in Stocks \cap Held(Accounts) : Rate(s) # None}
OwnSession(d, s) == d \in DOMAIN rows /\ s \in DOMAIN rows[d].legs /\ rows[d].legs[s].day = d
RightlyPriced(d) ==
  splits[d].beat = <<d, "post">> /\ ~splits[d].scaled /\ splits[d].priced = Cardinality(Rated)
SplitIsTheSettledMove ==
  \A d \in DOMAIN splits :
    RightlyPriced(d) /\ (\A s \in Rated : OwnSession(d, s) /\ OwnSession(Before(d), s))
      => splits[d].day = Total(Rated, [s \in Rated |-> Contribution(Before(d), d, s)])

\* What is shown while markets move is what they settle at, where the inputs allow it.
SettlesAsShown == EstimateIsTheStruckValue /\ SplitIsTheSettledMove

\* No position left off the live screen moved the portfolio more than one on it.
LiveMoversAreLargest ==
  Live => LET cs == Candidates  shown == Shown(cs) IN
    \A c \in ToSet(cs) \ ToSet(shown) : \A k \in ToSet(shown) :
      Score(c) < 25 \/ Magnitude(c.amount) <= Magnitude(k.amount)
=============================================================================
