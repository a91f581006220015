------------------------------ MODULE LivePrices ------------------------------
(* The delayed quotes of the running session over the cached closes:          *)
(* api/services/intraday.py, indices.py and market_snapshot.py, with the      *)
(* market, the price source and the producer of the quotes around them.       *)
(*                                                                            *)
(* A day is before its session, in it or after it; a weekend day has none.    *)
(* A fund's value of a session is struck after the session, and follows the   *)
(* ETF it tracks exactly.                                                     *)
EXTENDS Integers, Sequences, FiniteSets, FiniteSetsExt, SequencesExt

CONSTANTS
  US, Foreign, Funds,  \* the securities held
  ProxyOf,             \* fund_proxy.FUND_PROXY
  Accounts,
  Shares,              \* per account and security, shares held
  Weekend, MaxDay,     \* the calendar: days 2..MaxDay, after the closes of days 0 and 1
  Opening,             \* per security, its closes of days 0 and 1; a fund's, of day 0
  Movers, MaxMoves,    \* bound: what moves, and how often
  MaxBeats,            \* bound: the artifacts published
  Faults,              \* what the producer may get wrong, once: <<security, how>>
  Rates,               \* per foreign security, its currency's cached rate, or None
  None

Stocks  == US \cup Foreign
Proxies == {ProxyOf[f] : f \in Funds}
Traded  == Stocks \cup Proxies
Symbols == Stocks \cup Funds
Days    == 0..MaxDay
ASSUME CalendarAssumption == MaxDay \in Nat /\ Weekend \subseteq 2..MaxDay

VARIABLES
  day, phase,  \* the clock: "pre", "open", "post", or "off" on a weekend day
  closes,      \* the price source: per security, the closes published, by day
  px,          \* per traded security, open and last of the last session begun
  art,         \* market_data/intraday/latest.json, None before the first
  bars,        \* price_bars: per security, the days whose close is cached
  moves, beats, faulty  \* bounds: moves and beats made; the producer has erred
market == <<day, phase, closes, px, art, moves, beats, faulty>>

-----------------------------------------------------------------------------
(* The calendar *)
Trading(d) == d \notin Weekend
Before(d) == Max({t \in 0..d-1 : Trading(t)})
\* last_closed_trading_day
LastClosed == IF phase = "post" THEN day ELSE Before(day)
\* The session the market is in, or the last one it was in.
Session == IF phase \in {"open", "post"} THEN day ELSE Before(day)

(* The closes *)
NewestBar(s) == Max(bars[s])
Close(s) == closes[s][NewestBar(s)]
\* FX of a security: 1 in the base currency.
Rate(s) == IF s \in Foreign THEN Rates[s] ELSE 1
HeldIn(accounts, s) == FoldSet(LAMBDA a, n : n + Shares[a][s], 0, accounts)
Held(accounts) == {s \in Symbols : HeldIn(accounts, s) > 0}
Total(S, f) == FoldSet(LAMBDA s, t : t + f[s], 0, S)

-----------------------------------------------------------------------------
(* The overlay *)
\* load_quotes: an artifact that is absent or refused reads as no quotes.
Quoted == IF art = None THEN {} ELSE DOMAIN art.quotes
Stale == IF art = None THEN TRUE ELSE ~art.fresh

\* Within [1/2, 2] of the settled close: another scale is not a price of this listing.
Coherent(last, close) == 2 * last >= close /\ last <= 2 * close
\* Mutant of Usable: a flagged quote is taken like any other.
UsableFlagged(s) == s \in Quoted /\ Coherent(art.quotes[s].last, Close(s))
Usable(s) == s \in Quoted /\ ~art.quotes[s].suspect /\ Coherent(art.quotes[s].last, Close(s))
\* Mutant of Moved: any quote of the ETF lends its move.
MovedWhenever(p) == p \in DOMAIN art.proxies
\* proxy_day_return: only a quote of today's own session has a move to lend.
Moved(p) == p \in DOMAIN art.proxies /\ art.proxies[p].session = day
Estimable(s) == s \in Funds /\ ~Usable(s) /\ Moved(ProxyOf[s])
Estimate(f) == LET q == art.proxies[ProxyOf[f]] IN (Close(f) * q.last) \div q.prev
PriceOf(s) == IF Usable(s) THEN art.quotes[s].last ELSE IF Estimable(s) THEN Estimate(s) ELSE Close(s)
SourceOf(s) == IF Usable(s) THEN "delayed" ELSE IF Estimable(s) THEN "estimated" ELSE "last_close"
NotApplied(why) == [applied |-> FALSE, reason |-> why]
\* live_prices; the feed and the portfolio's toggle are on.
LiveView(S) ==
  IF S = {} \/ (Quoted = {} /\ S \cap Funds = {}) THEN NotApplied("unavailable")
  ELSE IF Stale THEN NotApplied("stale")
  ELSE IF \A s \in S : SourceOf(s) = "last_close" THEN NotApplied("unavailable")
  ELSE [applied |-> TRUE, reason |-> None,
        price |-> [s \in S |-> PriceOf(s)],
        source |-> [s \in S |-> IF Rate(s) = None THEN "unpriced" ELSE SourceOf(s)]]
\* weigh_coverage: what is valued, and the part of it that is live.
CoverageOf(accounts) ==
  LET S == Held(accounts)  v == LiveView(S)
      valued == {s \in S : Rate(s) # None}
      worth == [s \in valued |-> HeldIn(accounts, s) * v.price[s] * Rate(s)]
  IN [total |-> Total(valued, worth),
      covered |-> Total({s \in valued : v.source[s] \in {"delayed", "estimated"}}, worth)]
SessionState ==
  IF LiveView(Held(Accounts)).applied THEN "live"
  ELSE IF art # None /\ LastClosed = day /\ art.day = day THEN "recap" ELSE "closed"

-----------------------------------------------------------------------------
(* The day's move *)
\* _us_session_date: the session most US quotes are on, the later of equals.
Dated == Quoted \cap US
QuotedOn(d) == {s \in Dated : art.quotes[s].session = d}
UsSession ==
  IF Dated = {} THEN None
  ELSE CHOOSE d \in Days : QuotedOn(d) # {} /\ \A e \in Days :
         Cardinality(QuotedOn(e)) <= Cardinality(QuotedOn(d))
         /\ (Cardinality(QuotedOn(e)) = Cardinality(QuotedOn(d)) => e <= d)
WhyExcluded(s, session) ==
  IF s \in Quoted /\ art.quotes[s].suspect THEN "suspect"
  ELSE IF s \notin Quoted THEN "no_quote"
  ELSE IF s \in US /\ art.quotes[s].session < session THEN "lagging_session"
  ELSE IF Rate(s) = None THEN "no_fx" ELSE None
MoveOf(s, n, from, to) == n * (art.quotes[s][to] - art.quotes[s][from]) * Rate(s)
\* Mutant of RowsOf: the rows keep the order of the holdings.
RowsOfHoldings(S, f) == SetToSeq(S)
\* Rows by the size of their move; those of one size keep the order of the holdings.
RowsOf(S, f) == SetToSortSeq(S, LAMBDA a, b : f[a] > f[b])
Magnitude(n) == IF n < 0 THEN -n ELSE n
\* _today_summary of a set of accounts.
Summary(accounts) ==
  LET S == Held(accounts)
      session == UsSession
      why == [s \in S |-> WhyExcluded(s, session)]
      covered == {s \in S : why[s] = None}
      n == [s \in S |-> HeldIn(accounts, s)]
      leg(from, to) == [s \in covered |-> MoveOf(s, n[s], from, to)]
  IN [rows |-> RowsOf(covered, [s \in covered |-> Magnitude(leg("prev", "last")[s])]),
      excluded |-> [s \in S \ covered |-> why[s]],
      gain |-> leg("prev", "last"),
      overnight |-> Total(covered, leg("prev", "open")),
      intraday |-> Total(covered, leg("open", "last")),
      day |-> Total(covered, leg("prev", "last")),
      before |-> Total(covered, [s \in covered |-> n[s] * art.quotes[s].prev * Rate(s)])]
\* today_view and today_by_account; a stale artifact still has a view.
TodayAvailable == Quoted # {}
Today == Summary(Accounts)
TodayByAccount == [a \in {b \in Accounts : Quoted # {} /\ Held({b}) # {}} |-> Summary({a})]
\* load_indices: an index moves today only by a quote of today's session.
IndexChange(p) ==
  IF art = None \/ p \notin DOMAIN art.proxies \/ art.proxies[p].session # day THEN None
  ELSE art.proxies[p].last - art.proxies[p].prev

-----------------------------------------------------------------------------
(* The market *)
Other(p) == IF p = 2 THEN 4 ELSE 2
OpenMarket ==
  /\ phase = "pre" /\ phase' = "open"
  /\ \E gaps \in SUBSET Movers :
       /\ moves < MaxMoves \/ gaps = {}
       /\ moves' = IF gaps = {} THEN moves ELSE moves + 1
       /\ px' = [s \in Traded |-> LET p == closes[s][Before(day)]
                                      o == IF s \in gaps THEN Other(p) ELSE p
                                  IN [open |-> o, last |-> o]]
  /\ UNCHANGED <<day, closes, art, beats, faulty>>
Trade(s) ==
  /\ phase = "open" /\ moves < MaxMoves
  /\ px' = [px EXCEPT ![s].last = Other(@)] /\ moves' = moves + 1
  /\ UNCHANGED <<day, phase, closes, art, beats, faulty>>
Add(h, d, p) == [e \in DOMAIN h \cup {d} |-> IF e = d THEN p ELSE h[e]]
CloseMarket ==
  /\ phase = "open" /\ phase' = "post"
  /\ closes' = [s \in DOMAIN closes |-> IF s \in Traded THEN Add(closes[s], day, px[s].last) ELSE closes[s]]
  /\ UNCHANGED <<day, px, art, moves, beats, faulty>>
\* The fund's value of the last session, hours after it: the quotes have gone stale by then.
Strike(f) ==
  /\ LastClosed \notin DOMAIN closes[f] /\ Stale
  /\ closes' = [closes EXCEPT ![f] = Add(@, LastClosed, closes[ProxyOf[f]][LastClosed])]
  /\ UNCHANGED <<day, phase, px, art, moves, beats, faulty>>
NextDay ==
  /\ phase \in {"post", "off"} /\ day < MaxDay
  /\ day' = day + 1 /\ phase' = IF Trading(day + 1) THEN "pre" ELSE "off"
  /\ art' = IF art = None THEN None ELSE [art EXCEPT !.fresh = FALSE]
  /\ UNCHANGED <<closes, px, moves, beats, faulty>>

\* A quote of the last session begun, and the ways it may be wrong.
Quote(s, d, o, l) == [prev |-> closes[s][Before(d)], open |-> o, last |-> l, session |-> d, suspect |-> FALSE]
Right(s) == Quote(s, Session, px[s].open, px[s].last)
Wrong(s, kind) ==
  CASE kind = "suspect" -> [Right(s) EXCEPT !.last = 2 * @, !.suspect = TRUE]
    [] kind = "scale"   -> [Right(s) EXCEPT !.prev = 8 * @, !.open = 8 * @, !.last = 8 * @]
    [] kind = "lagging" -> LET d == Before(Session) IN Quote(s, d, closes[s][Before(d)], closes[s][d])
\* Each beat replaces the artifact whole.
Beat(quotes, proxies) ==
  /\ beats < MaxBeats /\ beats' = beats + 1
  /\ art' = [day |-> day, phase |-> phase, fresh |-> TRUE, quotes |-> quotes, proxies |-> proxies]
  /\ UNCHANGED <<day, phase, closes, px, moves>>
Publish ==
  /\ Beat([s \in Stocks |-> Right(s)], [p \in Proxies |-> Right(p)])
  /\ UNCHANGED faulty
PublishWrong(s, kind) ==
  /\ ~faulty /\ faulty' = TRUE
  /\ IF kind = "missing" THEN Beat([t \in Stocks \ {s} |-> Right(t)], [p \in Proxies \ {s} |-> Right(p)])
     ELSE /\ kind = "lagging" => Before(Session) > 0
          /\ Beat([t \in Stocks |-> IF t = s THEN Wrong(s, kind) ELSE Right(t)],
                  [p \in Proxies |-> IF p = s THEN Wrong(s, kind) ELSE Right(p)])
\* STALE_AFTER_SECONDS without a beat: the feed is demand-gated, and closed out of session.
Expire == ~Stale /\ art' = [art EXCEPT !.fresh = FALSE] /\ UNCHANGED <<day, phase, closes, px, moves, beats, faulty>>

MarketInit ==
  /\ day = 2 /\ phase = IF Trading(2) THEN "pre" ELSE "off"
  /\ art = None /\ moves = 0 /\ beats = 0 /\ faulty = FALSE
  /\ closes = [s \in Traded \cup Funds |-> [d \in 0..Len(Opening[s]) - 1 |-> Opening[s][d + 1]]]
  /\ px = [s \in Traded |-> [open |-> Opening[s][2], last |-> Opening[s][2]]]
  /\ bars = [s \in Symbols |-> {Len(Opening[s]) - 1}]
ClockNext == OpenMarket \/ CloseMarket \/ NextDay
FeedNext ==
  \/ Publish \/ Expire
  \/ \E s \in Movers : Trade(s)
  \/ \E f \in Funds : Strike(f)
  \/ \E f \in Faults : PublishWrong(f[1], f[2])

=============================================================================
