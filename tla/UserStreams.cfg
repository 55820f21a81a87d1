\* A deaf connection without a binance account beside it waits for ever.
CHECK_DEADLOCK FALSE
SPECIFICATION FairSpec
INVARIANTS
  TypeOK
  FullySubscribed
  OneChain
  PingsGoOn
  OneAttempt
  KeyKeptAlive
PROPERTIES
  RemovedStaysAway
  ClosedIsRetried
