SPECIFICATION Spec
CONSTANTS
  LongTermDays = 365
  Weekends = {3}
  MonthEnds = {2}
  YearEnds = {2}
  LtmDays = 2
  NoWindow = NoWindow
  ibkr = ibkr
  csv = csv
  ofx = ofx
  Accounts = {ibkr, csv, ofx}
  Brokers = {ibkr}
  InitPrice = 4
  Prices = {4, 8}
  Buys = {1}
  Sells = {1}
  Err = 4
  LastDay = 4
  MaxTrades = 3
  MaxWrong = 1
  JobDays = {4}
SYMMETRY LedgerAccounts
INVARIANT FiguresArePriceReturns
INVARIANT ShadowFindsWrongRows
CHECK_DEADLOCK FALSE
