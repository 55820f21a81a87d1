\* With its watchers and tickers used up the process idles: nothing more is asked of it.
CHECK_DEADLOCK FALSE
SPECIFICATION FairSpec
CONSTANTS
  Tokens = {btc}
  Keys = {k1, k2}
  Watchers = {w1, w2}
  None = None
  MaxTicks = 2
  MaxQueue = 2
INVARIANTS
  TypeOK
  ReportComing
PROPERTIES
  PricesMoveForward
  ImplementsPriceReports
  ReportsKeepComing
