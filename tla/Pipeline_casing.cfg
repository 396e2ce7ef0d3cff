\* verifier.go:16 against an upper-case header.
SPECIFICATION Spec
CONSTANTS
  Byte <- MCByte
  Zero <- MCZero
  Requests <- FreshRequests
  ChunkSize = 2
  MaxRetries = 1
  MaxFaults = 3
  NoHeader = NoHeader
  DownloadReadable = TRUE
INVARIANT
  MismatchMeansDifferent
