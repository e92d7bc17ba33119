SPECIFICATION Spec
CHECK_DEADLOCK FALSE
CONSTANTS
  a = a
  b = b
  Servers <- TwoServers
  AccessLifetime = 1
  RefreshLifetime = 2
  MaxTime = 2
  MaxTokens = 3
  MaxDisturbed = 1
SYMMETRY ServerSymmetry
INVARIANTS
  ExchangedOnce
  LogoutEndsSession
  SpentForASuccessor
  RefusedLogoutMeansEnded
  LockedOut
