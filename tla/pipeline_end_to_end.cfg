SPECIFICATION FairSpec
CONSTANTS
  e1 = e1
  w1 = w1
  a = a
  r1 = r1
  Evaluators <- OneEvaluator
  Senders <- OneSender
  Strategies <- OneStrategy
  Recipients <- OneRecipient
  Series <- TwoSeries
  Opens <- BtcGoesOn
  Verdict <- FirstBtcCandleTriggers
  Configs <- EdgeAndCalm
  Entries <- EdgeOnBtcOrCalmOnEth
  MaxTime = 2
  MaxRetries = 1
  MaxTicks = 1
  MaxDispatches = 2
  MaxClicks = 0
  MaxCrashes = 1
  MaxAbandoned = 0
INVARIANTS
  MessagesAreTrue
  NotifiedMeansTriggered
  DispatchFindsItsSignal
PROPERTY SignalReachesRecipients
