\* Reuploaded parts, two completions, an abort and two uploads of one key.
SPECIFICATION FairSpec
CONSTANTS
  create = create
  part1 = part1
  part2 = part2
  again1 = again1
  complete = complete
  completeAll = completeAll
  abort = abort
  id = id
  otherCreate = otherCreate
  otherPart = otherPart
  otherComplete = otherComplete
  otherId = otherId
  Requests <- MCRequests
  Sent <- MCSent
  Op <- MCOp
  IdOf <- MCIdOf
  PartOf <- MCPartOf
  ListOf <- MCListOf
  SizeOf <- MCSizeOf
  UploadIds <- MCUploadIds
  PartNumbers <- MCPartNumbers
  Memory = 1
  MaxMemory = 1
  ForceFile = FALSE
  MaxFaults = 1
  MaxRefused = 1
INVARIANTS
  ObjectIsRequested
  OnlyReceivedStored
  OpenBuffersOwned
  FilePartStoredOnce
PROPERTIES
  CompletedIsGone
  NobodyWaitsInVain
