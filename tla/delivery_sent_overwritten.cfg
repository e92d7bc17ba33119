SPECIFICATION Spec
CONSTANTS
  w1 = w1
  w2 = w2
  s1 = s1
  r1 = r1
  r2 = r2
  Workers <- TwoWorkers
  Signals <- OneSignal
  Recipients <- OneRecipient
  MaxRetries = 1
  MaxCrashes = 0
  MaxAbandoned = 0
  MaxDispatches = 1
  MaxClicks = 1
PROPERTY SentIsFinal
