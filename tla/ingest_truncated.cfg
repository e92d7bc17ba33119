SPECIFICATION Spec
CONSTANTS
  w1 = w1
  w2 = w2
  a = a
  Workers <- OneWorker
  Currencies <- OneCurrency
  Length = 2
  Limit = 2
  MaxTime = 4
  MaxCrashes = 0
  MaxAbandoned = 0
  MaxTicks = 1
INVARIANT StoredIsComplete
