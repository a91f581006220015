-------------------------------- MODULE Desk --------------------------------
(* A portfolio over the market cache: what it holds is valued by the newest   *)
(* cached closes and rates (analytics.valued_holdings), its owner stores plan *)
(* targets (plan_targets.py), and the planning reads answer from both.        *)
EXTENDS MarketInputs, Planning

CONSTANTS
  RuleSets,   \* the plan targets the owner may save
  Watched,    \* the watchlist
  Amounts,    \* the cash asked about
  MaxTrades   \* bound: the trades of the behaviour

\* A holding without a close or a rate is unpriced, and no amount is.
ASSUME DeskAssumption == IsFiniteSet(Symbols) /\ Unpriced = None /\ None \notin Nat
\* What the routes let through: targets of distinct symbols, fractions and amounts that
\* are not negative; every symbol has its place in the alphabet.
ASSUME PlanAssumption ==
  /\ Whole \in Nat \ {0} /\ Amounts \subseteq Nat /\ Limits \in [position : Nat, sector : Nat, line : Nat]
  /\ \A r \in RuleSets :
       /\ r.targets \in Seq([symbol : Symbols, weight : Nat]) /\ r.cap \in Nat /\ r.line \in Nat
       /\ \A i, j \in DOMAIN r.targets : r.targets[i].symbol = r.targets[j].symbol => i = j
  /\ None \notin RuleSets
  /\ Watched \subseteq Symbols /\ Symbols \subseteq DOMAIN Sector
  /\ DOMAIN Alphabet \subseteq Nat
  /\ \A s \in Symbols : \E i \in DOMAIN Alphabet : Alphabet[i] = s
  /\ \A s \in Symbols : Rating[s] # NoRating => Rating[s].score \in Int

VARIABLES
  shares, cost,  \* per symbol: shares held and their cost in the listing's currency
  rules          \* plan_targets: the row, or None
book == <<shares, cost>>

Held == {s \in Symbols : shares[s] > 0}
\* _apply_valuation: native price times rate; None without a close or without a rate.
ValueOf(s, n) ==
  IF Latest(HeldListing(s)) = None \/ RateToBase(HeldUnder[s]) = None THEN None
  ELSE n * Latest(HeldListing(s)) * RateToBase(HeldUnder[s])
CostOf(s, c) == IF RateToBase(HeldUnder[s]) = None THEN 0 ELSE c * RateToBase(HeldUnder[s])
\* valued_holdings of n shares bought for c.
Holdings(n, c) ==
  [s \in {t \in Symbols : n[t] > 0} |->
     [value |-> ValueOf(s, n[s]), cost |-> CostOf(s, c[s]), price |-> Latest(HeldListing(s))]]
Book == Holdings(shares, cost)

\* The plan towards targets reads the close of the listing in the base currency.
TargetPrices == [s \in Symbols |-> IF [symbol |-> s, currency |-> Base] \in Series
                                     THEN Latest([symbol |-> s, currency |-> Base]) ELSE None]
DeployPrices == [s \in Symbols |-> Latest(HeldListing(s))]
InBase == [s \in Symbols |-> HeldUnder[s] = Base]
Universe == Held \cup Watched

-----------------------------------------------------------------------------
Buy(s) ==
  /\ SumOver(Symbols, shares) < MaxTrades /\ Latest(HeldListing(s)) # None
  /\ shares' = [shares EXCEPT ![s] = @ + 1]
  /\ cost' = [cost EXCEPT ![s] = @ + Latest(HeldListing(s))]
  /\ UNCHANGED rules
\* PUT /plan/targets: the whole row is replaced.
PutTargets == rules' \in RuleSets \ {rules} /\ UNCHANGED book

Init == MarketInit /\ shares = [s \in Symbols |-> 0] /\ cost = [s \in Symbols |-> 0] /\ rules = None
DeskNext == PutTargets \/ \E s \in Symbols : Buy(s)
Next == (MarketNext /\ UNCHANGED <<book, rules>>) \/ (DeskNext /\ UNCHANGED vars)
Spec == Init /\ [][Next]_<<vars, book, rules>>

-----------------------------------------------------------------------------
(* Properties *)

Spent(plan) == SumOver(DOMAIN plan.lines, [i \in DOMAIN plan.lines |-> plan.lines[i].shares * plan.lines[i].price])
Bought(plan, s) == SumOver({i \in DOMAIN plan.lines : plan.lines[i].symbol = s},
                           [i \in DOMAIN plan.lines |-> plan.lines[i].shares * plan.lines[i].price])
\* The book once the plan is carried out at its prices.
Done(plan) ==
  [s \in DOMAIN Book \cup {plan.lines[i].symbol : i \in DOMAIN plan.lines} |->
     [value |-> IF s \in DOMAIN Book /\ Book[s].value = None /\ Bought(plan, s) = 0 THEN None
                ELSE ValueIn(Book, s) + Bought(plan, s)]]

\* Towards the targets no purchase takes a security past its target or the owner's cap, the
\* money adds up, and when the plan is carried out and the rest is asked about again there
\* is nothing more to buy: what it left could not be placed.
TargetPlanSound ==
  rules # None =>
    \A amount \in Amounts : \A plan \in {TargetPlan(Book, TargetPrices, amount, rules)} :
      /\ Spent(plan) + plan.left = amount /\ plan.left >= 0
      /\ \A i \in DOMAIN rules.targets : LET t == rules.targets[i] IN
           Bought(plan, t.symbol) > 0 =>
             TargetRoom(Done(plan), Basis(Book, amount), rules, t) >= 0
      /\ TargetPlan(Done(plan), TargetPrices, plan.left, rules).lines = <<>>

\* The ranked plan keeps the position limit of every line and the sector limit of every
\* sector it buys into, and leaves nothing it could still place.
DeployPlanSound ==
  \A amount \in Amounts : \A plan \in {DeployPlan(Book, DeployPrices, InBase, Universe, amount)} :
    /\ Spent(plan) + plan.left = amount /\ plan.left >= 0
    /\ \A i \in DOMAIN plan.lines : LET s == plan.lines[i].symbol IN
         /\ Whole * ValueIn(Done(plan), s) <= Limits.position * Basis(Book, amount)
         /\ Whole * SectorValue(Done(plan), Sector[s]) <= Limits.sector * Basis(Book, amount)
    /\ DeployPlan(Done(plan), DeployPrices, InBase, Universe \cup DOMAIN Done(plan), plan.left).lines = <<>>
\* What a job has read and not committed changes no read: they are checked between jobs.
BetweenJobs == \A w \in Writers : sess[w] = Idle
PlansAreSound == BetweenJobs => TargetPlanSound /\ DeployPlanSound

\* The price a what-if takes: the holding's own, else the cached close in the base currency.
WhatIfPrice(s) == IF s \in Held /\ Latest(HeldListing(s)) # None THEN Latest(HeldListing(s)) ELSE TargetPrices[s]
Purchased(s, n) == Holdings([shares EXCEPT ![s] = @ + n], [cost EXCEPT ![s] = @ + n * WhatIfPrice(s)])
\* The "after" of a what-if of a base-currency security is the page's own picture of the
\* book once the purchase is really made.
WhatIfIsTheBook ==
  BetweenJobs => \A s \in Symbols : \A n \in {1, 2} :
    InBase[s] /\ WhatIfPrice(s) # None => WhatIf(Book, s, n, WhatIfPrice(s)).after = Picture(Purchased(s, n))
=============================================================================
