SPECIFICATION FairSpec
CONSTANTS
  w1 = w1
  w2 = w2
  a = a
  Workers <- TwoWorkers
  Currencies <- OneCurrency
  Length = 2
  Limit = 3
  MaxTime = 4
  MaxCrashes = 1
  MaxAbandoned = 1
  MaxTicks = 2
INVARIANTS
  TypeOK
  GoodPollLeavesNoHole
PROPERTIES
  CandlesAreFinal
  FanOutStoresClosed
