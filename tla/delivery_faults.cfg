SPECIFICATION Spec
CONSTANTS
  w1 = w1
  w2 = w2
  s1 = s1
  r1 = r1
  r2 = r2
  Workers <- TwoWorkers
  Signals <- OneSignal
  Recipients <- OneRecipient
  MaxRetries = 1
  MaxCrashes = 1
  MaxAbandoned = 1
  MaxDispatches = 2
  MaxClicks = 1
SYMMETRY WorkerSymmetry
INVARIANTS
  TypeOK
  SentMeansAccepted
  FailedMeansExhausted
  AttemptsNeverOvercount
  NoSilentLoss
  DuplicatesNeedACrash
  MissedAttemptsNeedACrash
PROPERTIES
  KeepsContract
  SentIsFinalUnlessOverlapped
