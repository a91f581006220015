CONSTANTS
  Last = 5
  None = None
  Accounts = {"a1", "a2"}
  Portfolio = "p"
  Legs = {"x", "f", "b"}
  Traded = "x"
  Fund = "f"
  Markets <- AFewMarkets
  Settings <- SomeSettings
  Present <- SomePresent
  Histories <- SomeHistories
  MaxRuns = 2
SPECIFICATION Spec
INVARIANTS
  FilledRowsAreHonest
  UndoLeavesNoTrace
CHECK_DEADLOCK FALSE
