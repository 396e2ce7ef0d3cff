--------------------------- MODULE BufferManager ---------------------------
(***************************************************************************)
(* The memory budget of the gateway (internal/buffer/manager.go): a body   *)
(* whose length is announced and small is kept in memory as long as the    *)
(* reservations stay within max_memory, every other body in a temporary    *)
(* file.  Closing a memory buffer returns its reservation once, however    *)
(* many owners close it (managed_memory.go).                               *)
(***************************************************************************)
EXTENDS Integers, FiniteSets

CONSTANTS
  Buffers,     \* the buffers that may be created
  SizeOf,      \* the length each one is created for; negative if unknown
  Memory,      \* buffer.memory: the longest body kept in memory
  MaxMemory,   \* buffer.max_memory: bound on all reservations
  ForceFile    \* Manager.forceFileBuffer

ASSUME BufferAssumption ==
  /\ IsFiniteSet(Buffers)
  /\ SizeOf \in [Buffers -> Int]
  /\ Memory \in Nat \ {0}
  /\ MaxMemory \in Nat \ {0}
  /\ ForceFile \in BOOLEAN

VARIABLES
  memoryInUse,  \* Manager.memoryInUse
  kind,         \* what NewFullBuffer made of each buffer
  closed        \* the buffers that were closed

buffers == <<memoryInUse, kind, closed>>

BudgetTypeOK ==
  /\ memoryInUse \in Nat
  /\ kind \in [Buffers -> {"none", "memory", "file"}]
  /\ closed \subseteq Buffers

\* The buffers that hold a reservation, and the units they reserved.
Holding == {b \in Buffers : kind[b] = "memory" /\ b \notin closed}
Units(bs) == UNION {{b} \X (1..SizeOf[b]) : b \in bs}

BudgetInit ==
  /\ memoryInUse = 0
  /\ kind = [b \in Buffers |-> "none"]
  /\ closed = {}

\* tryReserveMemory and the tests of NewFullBuffer before it.
Fits(b) ==
  /\ ~ForceFile
  /\ SizeOf[b] > 0 /\ SizeOf[b] <= Memory
  /\ memoryInUse + SizeOf[b] <= MaxMemory

NewFullBuffer(b) ==
  /\ kind[b] = "none"
  /\ IF Fits(b)
     THEN /\ kind' = [kind EXCEPT ![b] = "memory"]
          /\ memoryInUse' = memoryInUse + SizeOf[b]
     ELSE /\ kind' = [kind EXCEPT ![b] = "file"]
          /\ UNCHANGED memoryInUse
  /\ UNCHANGED closed

\* releaseMemory: never below zero.
Without(size) == IF memoryInUse < size THEN 0 ELSE memoryInUse - size

\* Variants: without sync.Once, and without release.
CloseAllAgain(bs) ==
  /\ \A b \in bs : kind[b] # "none"
  /\ memoryInUse' = Without(Cardinality(Units({b \in bs : kind[b] = "memory"})))
  /\ closed' = closed \cup bs
  /\ UNCHANGED kind
CloseAllUnreleased(bs) ==
  /\ \A b \in bs : kind[b] # "none"
  /\ closed' = closed \cup bs
  /\ UNCHANGED <<memoryInUse, kind>>

\* Close of some buffers that exist; sync.Once keeps those that are closed
\* already from being released again.
CloseAll(bs) ==
  /\ \A b \in bs : kind[b] # "none"
  /\ memoryInUse' = Without(Cardinality(Units(bs \cap Holding)))
  /\ closed' = closed \cup bs
  /\ UNCHANGED kind

BudgetNext ==
  \/ \E b \in Buffers : NewFullBuffer(b)
  \/ \E bs \in SUBSET Buffers : CloseAll(bs)

BudgetSpec == BudgetInit /\ [][BudgetNext]_buffers

-----------------------------------------------------------------------------
\* What is reserved is what the open memory buffers were created for: the
\* clamp in releaseMemory never hides a reservation that was returned twice.
ReservationsMatch == memoryInUse = Cardinality(Units(Holding))

\* The open memory buffers never hold more than max_memory together.
WithinBudget == Cardinality(Units(Holding)) <= MaxMemory

\* A body goes to disk only when it does not fit beside the open buffers
\* (the comment of NewFullBuffer).
FileOnlyWhenFull ==
  [][\A b \in Buffers :
       kind[b] = "none" /\ kind'[b] = "file" /\ ~ForceFile /\ SizeOf[b] \in 1..Memory
         => Cardinality(Units(Holding)) + SizeOf[b] > MaxMemory]_buffers
=============================================================================
