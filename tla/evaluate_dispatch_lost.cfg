SPECIFICATION Spec
CONSTANTS
  w1 = w1
  w2 = w2
  a = a
  Workers <- OneWorker
  Strategies <- OneStrategy
  MaxTime = 2
  Series <- OneSeries
  Opens <- AllOpen
  Verdict <- Verdicts2
  Configs <- EagerAndCautious
  Entries <- EagerOnly
  MaxCrashes = 1
  MaxAbandoned = 0
  MaxTicks = 1
INVARIANT TriggeredIsOwed
