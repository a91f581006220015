SPECIFICATION Spec
CONSTANTS
  None = None
  US = {"aa", "bb"}
  Foreign = {"hk", "jp"}
  Rates <- MCRates
  Funds = {"fund"}
  ProxyOf <- MCProxyOf
  Accounts = {"a1", "a2"}
  Shares <- MCShares
  Weekend = {2}
  MaxDay = 3
  Opening <- MCOpening
  Movers = {"aa", "etf"}
  MaxMoves = 1
  MaxBeats = 2
  Faults <- MCFaults
  Slots = 1
CHECK_DEADLOCK FALSE
INVARIANTS
  LiveViewsAgree
  SettlesAsShown
  LiveMoversAreLargest
