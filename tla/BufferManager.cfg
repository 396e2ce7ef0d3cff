\* The budget of five units, bodies of up to three in memory.
SPECIFICATION BudgetSpec
CONSTANTS
  b1 = b1
  b2 = b2
  b3 = b3
  b4 = b4
  b5 = b5
  b6 = b6
  Buffers <- MCBuffers
  SizeOf <- MCSizeOf
  Memory = 3
  MaxMemory = 5
  ForceFile = FALSE
INVARIANTS
  ReservationsMatch
PROPERTIES
  FileOnlyWhenFull
