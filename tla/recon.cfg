\* Nightly runs with outages, deaths, trades and syncs at any moment.
SPECIFICATION FairSpec
CONSTANTS
  a1 = a1
  s1 = s1
  None = None
  Accounts = {a1}
  Brokers <- MCBrokers
  BrokerOf <- OnSnapTrade
  Piecewise = {"snaptrade"}
  Securities = {s1}
  Books <- CashOrShares
  StaleAfter = 2
INVARIANTS
  AlertStampIsTrue
PROPERTIES
  ResolvedWithFetch
  BreaksAreDivergences
  DeadBrokerEscalates
