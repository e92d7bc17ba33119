SPECIFICATION FairSpec
CONSTANTS
  w1 = w1
  w2 = w2
  a = a
  Workers <- TwoWorkers
  Strategies <- OneStrategy
  MaxTime = 2
  Series <- OneSeries
  Opens <- AllOpen
  Verdict <- Verdicts2
  Configs <- EagerAndCautious
  Entries <- EagerOrCautious
  MaxCrashes = 1
  MaxAbandoned = 1
  MaxTicks = 2
INVARIANTS
  TriggeredIsOwedWhileNewest
PROPERTIES
  KeepsEvaluationContract
  FanOutEvaluates
  TriggeredIsDispatched
