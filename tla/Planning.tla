------------------------------ MODULE Planning ------------------------------
(* What to do with new cash: the plan towards the user's own targets         *)
(* (cash_to_targets.py), the ranked plan under position and sector limits     *)
(* (deploy_cash.py) and the preview of one purchase (whatif_purchase.py).     *)
(* Pure functions of a book: [Held symbols -> [value, cost, price]] in the    *)
(* base currency; value and price are None while a holding is unpriced.       *)
(* Weights are numerators over Whole, money and prices whole numbers, so a    *)
(* quotient of the code is kept as the product it is compared with.           *)
EXTENDS Integers, Sequences, FiniteSets, FiniteSetsExt, SequencesExt

CONSTANTS
  Whole,      \* weights are fractions of this many parts
  Alphabet,   \* the tickers in alphabetical order
  Rating,     \* per ticker [score, eligible] or NoRating (the published artifact)
  Sector,     \* per ticker its sector or NoSector
  Limits,     \* DeployCashConfig: [position, sector, line]
  Yields,     \* per ticker its dividend yield in percent, or NoYield
  NoRating, NoSector, NoYield, Unpriced

Least(a, b) == IF a <= b THEN a ELSE b
SumOver(S, f) == SumFunctionOnSet(f, S)

-----------------------------------------------------------------------------
(* The book *)

Valued(book) == {s \in DOMAIN book : book[s].value # Unpriced}
ValueIn(book, s) == IF s \in Valued(book) THEN book[s].value ELSE 0
PortfolioValue(book) == SumOver(Valued(book), [s \in Valued(book) |-> book[s].value])
SectorValue(book, sec) == SumOver({s \in Valued(book) : Sector[s] = sec}, [s \in Valued(book) |-> book[s].value])
\* The fixed denominator: today's priced value plus the whole amount (_denominator).
Basis(book, amount) == PortfolioValue(book) + amount

\* The shares a line buys: the whole shares the cash and the room (in parts of a unit of
\* money) pay for, none below the minimum line.
Shares(cash, room, price, line) ==
  LET n == Least(Whole * cash, room) \div (Whole * price)
  IN IF room <= 0 \/ cash < line \/ n * price < line THEN 0 ELSE n

-----------------------------------------------------------------------------
(* cash_to_targets.build_plan.  rules: [targets (a sequence of [symbol,      *)
(* weight]), cap (a weight or Whole when there is none), line].              *)

\* What is missing to the target, or to the user's cap if that is tighter.
TargetRoom(book, basis, rules, t) == Least(t.weight, rules.cap) * basis - Whole * ValueIn(book, t.symbol)

TargetWhy(book, basis, rules, price, left, t) ==
  CASE price = Unpriced -> "unpriced"
    [] TargetRoom(book, basis, rules, t) <= 0 ->
         IF Whole * ValueIn(book, t.symbol) >= rules.cap * basis THEN "at_or_above_cap" ELSE "at_or_above_target"
    [] left < rules.line -> "cash_exhausted"
    [] OTHER -> "min_line_usd"

\* One target: a line, or the reason there is none.
PlaceTarget(book, basis, rules, prices, plan, t) ==
  LET price == prices[t.symbol]
      n == IF price = Unpriced THEN 0 ELSE Shares(plan.left, TargetRoom(book, basis, rules, t), price, rules.line)
  IN IF n > 0
       THEN [plan EXCEPT !.left = @ - n * price, !.lines = Append(@, [symbol |-> t.symbol, shares |-> n, price |-> price])]
       ELSE [plan EXCEPT !.skipped = @ \cup {[symbol |-> t.symbol,
                reason |-> TargetWhy(book, basis, rules, price, plan.left, t)]}]

Empty(amount) == [lines |-> <<>>, left |-> amount, skipped |-> {}]
\* In the user's own order.
TargetPlan(book, prices, amount, rules) ==
  FoldLeft(LAMBDA plan, t : PlaceTarget(book, Basis(book, amount), rules, prices, plan, t), Empty(amount), rules.targets)

-----------------------------------------------------------------------------
(* deploy_cash: candidates, the live ranking, and the fill. *)

\* build_candidates, in the order of its checks.
Ineligible(s, prices, currency) ==
  CASE Rating[s] = NoRating -> "no_rating"
    [] ~Rating[s].eligible -> "label"
    [] prices[s] = Unpriced -> "unpriced"
    [] ~currency[s] -> "currency"
    [] Sector[s] = NoSector -> "sector_unknown"
    [] OTHER -> "eligible"
Candidates(universe, prices, inBase) == {s \in universe : Ineligible(s, prices, inBase) = "eligible"}

\* _rank_tech_score_desc: the score, then the lower weight today, then the ticker.
Rank(s) == CHOOSE i \in DOMAIN Alphabet : Alphabet[i] = s
Before(book, s, t) ==
  \/ Rating[s].score > Rating[t].score
  \/ /\ Rating[s].score = Rating[t].score
     /\ \/ ValueIn(book, s) < ValueIn(book, t)
        \/ ValueIn(book, s) = ValueIn(book, t) /\ Rank(s) < Rank(t)
Ranked(book, cands) == CHOOSE q \in SetToSeqs(cands) : \A i, j \in DOMAIN q : i < j => Before(book, q[i], q[j])

\* Mutant of DeployRoom: the sector total is not moved by the lines already placed.
DeployRoomUnplaced(book, basis, plan, s) ==
  Least(Limits.position * basis - Whole * ValueIn(book, s), Limits.sector * basis - Whole * SectorValue(book, Sector[s]))
\* The tighter of the position limit and what the sector limit leaves after earlier lines.
DeployRoom(book, basis, plan, s) ==
  Least(Limits.position * basis - Whole * ValueIn(book, s),
        Limits.sector * basis - Whole * (SectorValue(book, Sector[s]) + plan.placed[Sector[s]]))

DeployWhy(book, basis, plan, s) ==
  CASE plan.left < Limits.line -> "cash_exhausted"
    [] Limits.position * basis <= Whole * ValueIn(book, s) -> "max_position_weight"
    [] DeployRoom(book, basis, plan, s) <= 0 -> "max_sector_weight"
    [] OTHER -> "min_line_usd"
PlaceRanked(book, basis, prices, plan, s) ==
  LET n == Shares(plan.left, DeployRoom(book, basis, plan, s), prices[s], Limits.line)
  IN IF n > 0
       THEN [plan EXCEPT !.left = @ - n * prices[s], !.placed[Sector[s]] = @ + n * prices[s],
                         !.lines = Append(@, [symbol |-> s, shares |-> n, price |-> prices[s]])]
       ELSE [plan EXCEPT !.skipped = @ \cup {[symbol |-> s, reason |-> DeployWhy(book, basis, plan, s)]}]

\* recommend: down the ranking, every limit counted against the fixed basis.
DeployPlan(book, prices, inBase, universe, amount) ==
  LET start == [lines |-> <<>>, left |-> amount, skipped |-> {},
                placed |-> [sec \in {Sector[s] : s \in DOMAIN Sector} |-> 0]]
      out == {s \in universe : Ineligible(s, prices, inBase) # "eligible"}
      plan == FoldLeft(LAMBDA p, s : PlaceRanked(book, Basis(book, amount), prices, p, s), start,
                       Ranked(book, Candidates(universe, prices, inBase)))
  IN [plan EXCEPT !.skipped = @ \cup {[symbol |-> s, reason |-> Ineligible(s, prices, inBase)] : s \in out}]

-----------------------------------------------------------------------------
(* whatif_purchase.build_whatif *)

\* _snapshot: the weights (values over the basis), the sector mix, and dividends over cost.
Snapshot(values, basis, dividends, cost) ==
  [weights |-> [s \in {t \in DOMAIN values : values[t] > 0} |-> values[s]], basis |-> basis,
   sectors |-> [sec \in {Sector[s] : s \in DOMAIN values} |->
                  SumOver({s \in DOMAIN values : Sector[s] = sec}, values)],
   income |-> SumOver(DOMAIN dividends \cap DOMAIN values, dividends),
   cost |-> SumOver(DOMAIN dividends \cap DOMAIN values, cost)]

Dividends(values) == [s \in {t \in DOMAIN values : Yields[t] # NoYield} |-> values[s] * Yields[s]]
Costs(book) == [s \in DOMAIN book |-> book[s].cost]
\* Mutant of Plus: a purchase replaces what was held.
PlusReplaces(f, s, n) == [t \in DOMAIN f \cup {s} |-> IF t = s THEN n ELSE f[t]]
Plus(f, s, n) == [t \in DOMAIN f \cup {s} |-> (IF t \in DOMAIN f THEN f[t] ELSE 0) + (IF t = s THEN n ELSE 0)]

WhatIf(book, s, shares, price) ==
  LET usd == shares * price
      before == [t \in Valued(book) |-> book[t].value]
      after == Plus(before, s, usd)
  IN [before |-> Snapshot(before, PortfolioValue(book), Dividends(after), Costs(book)),
      after |-> Snapshot(after, PortfolioValue(book) + usd, Dividends(after), Plus(Costs(book), s, usd))]
\* What the page would say of a book as it is.
Picture(book) ==
  LET values == [t \in Valued(book) |-> book[t].value]
  IN Snapshot(values, PortfolioValue(book), Dividends(values), Costs(book))
=============================================================================
