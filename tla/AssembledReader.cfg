\* The parts of an upload read as one body while parts are closed.
SPECIFICATION Spec
CONSTANTS
  Byte <- MCByte
  PartLists <- MCPartLists
  MaxRead = 5
  MaxSeek = 5
INVARIANTS
  EOFMeansAll
PROPERTIES
  ImplementsSource
