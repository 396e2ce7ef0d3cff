\* Start, signals at any time, and the shutdown under its deadline.
SPECIFICATION FairSpec
CONSTANTS
  r1 = r1
  r2 = r2
  r3 = r3
  Configs <- MCConfigs
  Requests <- MCRequests
  MaxFaults = 1
INVARIANTS
  CleanExitAnswersAll
PROPERTIES
  AllAreShutDown
  KilledOnlyAfterGrace
  ExitsAfterSignal
