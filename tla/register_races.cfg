SPECIFICATION Spec
CHECK_DEADLOCK FALSE
CONSTANTS
  a = a
  b = b
  m1 = m1
  m2 = m2
  Servers <- TwoServers
  Mailboxes <- TwoMailboxes
  MaxRequests = 3
  MaxAdded = 1
  MaxCrashes = 1
SYMMETRY Symmetry
INVARIANTS
  AccountIsHandedOutOnce
  RefusalIsHonest
  UntoldAccountsNeedACrash
  OneAccountPerMailbox
