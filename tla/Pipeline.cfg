\* One upload of every kind, three failures anywhere, a storage that is intact
\* or damages what it is given.
SPECIFICATION FairSpec
CONSTANTS
  Byte <- MCByte
  Zero <- MCZero
  Requests <- AllRequests
  ChunkSize = 2
  MaxRetries = 1
  MaxFaults = 3
  NoHeader = NoHeader
  DownloadReadable = TRUE
INVARIANTS
  StoredWhenTrusted
  VerifiedMatchesExpected
  FailureHasACause
PROPERTIES
  ResumeKeepsStored
  GivesUpOnlyAfterRetries
  ImplementsContract
  Terminates
  CancelStopsTransfer
