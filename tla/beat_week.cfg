SPECIFICATION BeatSpec
CONSTANTS
  p = p
  q = q
  Tiers <- EveryTier
  Cycle <- Cycles
  Latency = 2
  Processes <- TwoProcesses
  TimeLimit = 5
  MaxBacktests = 2
  MaxBehind = 3
SYMMETRY ProcessSymmetry
INVARIANTS
  BeatTypeOK
  BarsLandInTime
  BarsAreEvaluatedInTime
