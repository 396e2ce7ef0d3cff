\* backend.go:43 against the reader the SFTP backend returns.
SPECIFICATION Spec
CONSTANTS
  Byte <- MCByte
  Zero <- MCZero
  Requests <- FreshRequests
  ChunkSize = 2
  MaxRetries = 1
  MaxFaults = 3
  NoHeader = NoHeader
  DownloadReadable = FALSE
INVARIANT
  DownloadServesVerification
