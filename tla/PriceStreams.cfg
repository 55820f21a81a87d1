\* Streams that gave up, and idle pings, wait for ever.
CHECK_DEADLOCK FALSE
SPECIFICATION FairSpec
CONSTANTS
  BatchSize = 2
  MaxInstruments = 3
  Instruments = {btc}
  MaxDoubled = 1
INVARIANTS
  TypeOK
  AllSubscribed
  CounterInRange
  SubscribedToLatest
  ChainsCounted
PROPERTY SubscribesAll
