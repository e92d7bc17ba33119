SPECIFICATION Spec
CONSTANTS
  w1 = w1
  w2 = w2
  Workers <- TwoWorkers
  Backlog = 6
  MaxCandle = 8
  Closes <- Prices
  Series <- OneSeries
  History = 2
  Settings <- ReplaySettings
  ProgressSaves = 2
  MaxFaults = 1
  MaxClicks = 2
  MaxForms = 1
SYMMETRY WorkerSymmetry
INVARIANTS
  TypeOK
  ResultIsReference
  QuietMeansEnded
  ProgressWritesAreCapped
CHECK_DEADLOCK FALSE
