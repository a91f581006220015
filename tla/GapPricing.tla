------------------------------ MODULE GapPricing -------------------------------
(***************************************************************************)
(* How api/services/snapshot_gap.py prices a missed day: the decisions of  *)
(* _Valuer, _broker_legs, _reconcile and _plan_series_core.                *)
(*                                                                         *)
(* A price is the day of the close it was read from (0: it was estimated   *)
(* or taken from a recorded end), with how it was found; a price that      *)
(* cannot be had is its cause.  Weights and moves are percent of NAV.      *)
(***************************************************************************)
EXTENDS Integers, FiniteSets, FiniteSetsExt

CONSTANT Legs   \* tickers

\* What the caches and the recorded ends know of the legs.
Market(days) ==
  [sessions : SUBSET days,            \* SPY closed
   closes   : [Legs -> SUBSET days],  \* stored closes; {}: no close history
   moved    : [Legs -> Int],          \* recorded price at B over A, in percent
   weight   : [Legs -> 0..100],
   rated    : [Legs -> days],         \* the first day with an FX rate
   proxied  : [Legs -> SUBSET days],  \* closes of the proxy named for the leg
   supplied : [Legs -> SUBSET days],  \* operator's prices
   steps    : [Legs -> SUBSET days],  \* days the close steps by the quantity ratio
   adjusted : SUBSET Legs,            \* the closes before are already divided by it
   start    : [Legs -> Nat],          \* quantities at the first row
   foreign  : SUBSET Legs,            \* not quoted in dollars
   miss     : Nat]                    \* per mille by which an end is not reproduced

Options == [aware : BOOLEAN, carry : BOOLEAN, bridge : BOOLEAN, operator : BOOLEAN,
            estimate : BOOLEAN, accounts : BOOLEAN, anchor : BOOLEAN, restate : BOOLEAN]

CarryCap == 5
BridgeCap == 10
MaxWeight == 25
MaxMove == 5
SelfCheck == 5
AnchorMaxError == 20

Listed(m, k) == m.closes[k] # {}
Uses(m, o, k) == o.operator /\ m.supplied[k] # {}       \* ticker in leg_prices
Bridged(m, o, k) == o.bridge /\ m.proxied[k] # {}       \* ticker in proxy_bridge
AsOf(S, d) == LET past == {x \in S : x <= d} IN IF past = {} THEN 0 ELSE Max(past)
----------------------------------------------------------------------------
\* What estimate_broker_legs does with a leg held at both ends.
BrokerVerdict(m, o, k, missing) ==
  IF Listed(m, k) \/ (m.moved[k] = 0 /\ ~Uses(m, o, k)) THEN "none"
  ELSE IF Bridged(m, o, k) THEN "proxy-bridge"
  ELSE IF Uses(m, o, k) /\ (missing \cap m.sessions) \subseteq m.supplied[k] THEN "leg-prices"
  ELSE IF m.weight[k] > MaxWeight /\ (m.moved[k] > MaxMove \/ m.moved[k] < -MaxMove) THEN "refuse"
  ELSE "interpolate"

Verdicts(m, o, both, missing, verdict) ==
  IF ~o.estimate THEN {} ELSE {k \in both : BrokerVerdict(m, o, k, missing) = verdict}

\* _check_leg_prices: an operator's file that leaves out a session is an error.
LegPricesError(m, o, held, missing) ==
  \E k \in held : /\ Uses(m, o, k) /\ ~((missing \cap m.sessions) \subseteq m.supplied[k])
                  /\ ~(o.estimate /\ BrokerVerdict(m, o, k, missing) \in {"interpolate", "refuse"})
----------------------------------------------------------------------------
Priced(at, how) == [cause |-> 0, at |-> at, how |-> how]
Unpriced(cause) == [cause |-> cause, at |-> 0, how |-> "none"]

OperatorPrice(m, k, d, end, interp, a) ==
  LET earlier == {x \in m.supplied[k] : a <= x /\ x < d} IN
  IF d \in m.supplied[k] THEN Priced(d, IF end THEN "none" ELSE "operator-price")
  ELSE IF end THEN Priced(0, "none")
  ELSE IF k \in interp THEN Priced(0, "interpolated")
  ELSE Priced(IF earlier = {} THEN 0 ELSE Max(earlier), "operator-price")

\* Mutant of ListedPrice: a carried close bears no flag.
ListedPriceUnflagged(m, o, k, d, end) ==
  LET bar == AsOf(m.closes[k], d) IN
  IF Max(m.closes[k]) < d \/ bar = 0 THEN Unpriced(3)
  ELSE IF k \notin m.foreign /\ d \in m.sessions /\ bar # d /\ (~o.carry \/ end) THEN Unpriced(4)
  ELSE Priced(bar, "none")

\* On a US session a listed leg quoted in dollars has its own close or is not priced;
\* carrying an earlier one is an option, never of a history that has ended.  A foreign
\* leg has its last close, whatever the day.
ListedPrice(m, o, k, d, end) ==
  LET bar == AsOf(m.closes[k], d) IN
  IF Max(m.closes[k]) < d \/ bar = 0 THEN Unpriced(3)
  ELSE IF k \notin m.foreign /\ d \in m.sessions /\ bar # d
       THEN IF o.carry /\ ~end THEN Priced(bar, "carry") ELSE Unpriced(4)
  ELSE Priced(bar, "none")

\* A leg without closes has, between the ends, only the price they agree on.
BrokerPrice(m, o, k, d, end, interp, both, a) ==
  IF k \in both /\ m.moved[k] = 0 THEN Priced(0, "none")
  ELSE IF k \in interp THEN Priced(0, IF end THEN "none" ELSE "interpolated")
  ELSE IF Bridged(m, o, k) /\ k \in both
       THEN IF end \/ AsOf(m.proxied[k], a) # 0 THEN Priced(0, "proxy-bridge") ELSE Unpriced(2)
  ELSE Unpriced(2)

\* end: d is the day of a recorded row; both: the legs recorded at both ends.
Price(m, o, k, d, end, interp, both, a) ==
  LET p == IF Uses(m, o, k) THEN OperatorPrice(m, k, d, end, interp, a)
           ELSE IF Listed(m, k) THEN ListedPrice(m, o, k, d, end)
           ELSE BrokerPrice(m, o, k, d, end, interp, both, a)
  IN IF p.cause = 0 /\ m.rated[k] > d THEN Unpriced(5) ELSE p

Held(qty) == {k \in Legs : qty[k] # 0}

WeightOf(m, S) == MapThenSumSet(LAMBDA k : m.weight[k], S)
----------------------------------------------------------------------------
\* The quantity ratio of a split: small terms, and no day's move.
Simple(qa, qb) ==
  \E n \in 1..10, e \in 1..100 :
    /\ qa * n = qb * e \/ qa * e = qb * n
    /\ 5 * n >= 6 * e \/ 5 * e >= 6 * n

\* The day from which the quantity at B holds, when nobody traded the leg: a split
\* that the closes show once, or show to be adjusted for, or a reinvested dividend.
\* 0: nothing explains the change.
Adjustment(m, k, qa, qb, a) ==
  LET split == IF qa = 0 \/ qb = 0 \/ ~Simple(qa, qb) THEN 0
               ELSE IF Cardinality(m.steps[k]) = 1 /\ k \notin m.adjusted THEN Max(m.steps[k])
               ELSE IF m.steps[k] = {} /\ k \in m.adjusted THEN a + 1 ELSE 0
  IN IF split # 0 THEN split
     ELSE IF qa # 0 /\ qb > qa /\ (qb - qa) * 50 <= qa THEN a + 1 ELSE 0

\* A source of trades is believed when it takes every leg from A to B exactly, or
\* a corporate event explains a leg nobody traded.
Reconciles(m, traded, qa, qb, a) ==
  \A k \in Legs :
    \/ qa[k] + traded[k] = qb[k]
    \/ traded[k] = 0 /\ Adjustment(m, k, qa[k], qb[k], a) # 0
================================================================================
