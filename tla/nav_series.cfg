\* The nightly job alone for three fires, or one fire and one press of a button at any
\* moment: deferrals, aborted and skipped steps, trades learnt at any moment of their day.
SPECIFICATION Spec
CONSTANTS
  l1 = l1
  None = None
  Last = 4
  Sessions = {1, 2, 4}
  Weekends = {3}
  MonthEnds = {3}
  Lots = {l1}
  LotSourced = TRUE
  Lag = 0
  FundLag = 1
  Window = 2
  Fails = {"reconcile", "reconstruct"}
  Buttons = {"refresh", "build"}
  Budgets <- ThreeFiresOrOneAndAClick
INVARIANTS
  FlowsExplainMoves
  ProvisionalIsItsLegs
  LookAheadIsStamped
PROPERTIES
  RestatedAtOwnSession
CHECK_DEADLOCK FALSE
