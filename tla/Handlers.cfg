\* Concurrent single uploads of two keys with clients that stall and leave.
SPECIFICATION FairSpec
CONSTANTS
  first = first
  second = second
  other = other
  shared = shared
  own = own
  Buffers <- MCRequests
  Urls <- MCUrls
  Cases <- MCCases
  SizeOf <- MCSizeOf
  Memory = 2
  MaxMemory = 2
  ForceFile = FALSE
  MaxFaults = 1
INVARIANTS
  NothingLeftBehind
  OneBodyPerKey
  BudgetReturned
PROPERTIES
  StalledClientsBlockOwnKey
