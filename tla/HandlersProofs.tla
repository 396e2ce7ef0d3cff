--------------------------- MODULE HandlersProofs ---------------------------
(***************************************************************************)
(* Proofs about Handlers for every set of requests and keys, every case    *)
(* and every number of faults: the lock of a key is held by exactly the    *)
(* handler that is between its Lock and its Unlock, a buffer is open only  *)
(* under that lock, and the budget is used as module BufferManager says.   *)
(* What BufferManager promises is proved for every sequence of calls, and  *)
(* so of the handlers together.                                            *)
(***************************************************************************)
EXTENDS Handlers, FiniteSetTheorems, TLAPS

USE DEF Requests

Buffering == {"receive", "process", "transfer", "finish", "close"}
Locked == {"buffer", "unlock"} \cup Buffering
Unanswered == {"start", "lock", "buffer", "receive", "process", "transfer", "finish"}
Answers == {"none", "refused", "badRequest", "conflict", "internalError", "created"}

Typed ==
  /\ given \in Cases
  /\ sent \subseteq Requests /\ gone \subseteq Requests
  /\ lock \in [Urls -> SUBSET Requests]
  /\ pc \in [Requests -> {"start", "lock", "done"} \cup Locked]
  /\ answer \in [Requests -> Answers]
  /\ faults \in Nat
  /\ kind \in [Requests -> {"none", "memory", "file"}]
  /\ closed \subseteq Requests

\* The lock of a key is held by the handler that stands behind it, and by no
\* other one.
LockHeld ==
  /\ \A u \in Urls : \A r \in lock[u] : u = UrlOf(r) /\ pc[r] \in Locked
  /\ \A r \in Requests : pc[r] \in Locked => lock[UrlOf(r)] = {r}

\* Only a buffered upload has a buffer, and it has it from NewUploadReader to
\* its deferred Close, and not longer.
BufferOwned ==
  /\ \A r \in Requests : Open(r) => pc[r] \in Buffering /\ ~Off(r)
  /\ \A r \in Requests : pc[r] \in {"buffer", "receive", "close"} => ~Off(r)
  /\ \A r \in closed : pc[r] \in {"unlock", "done"}

\* Process is called with a whole body, or streams it itself.
BodyWhole ==
  /\ \A r \in Requests : pc[r] \in {"process", "transfer"} /\ ~Off(r) => r \in sent
  /\ stored \subseteq sent

NoAnswerYet == \A r \in Requests : pc[r] \in Unanswered => answer[r] = "none"

IInv == Typed /\ LockHeld /\ BufferOwned /\ BodyWhole /\ NoAnswerYet

-----------------------------------------------------------------------------
\* The key of a request is one of the keys.
LEMMA KeyOfRequest ==
  ASSUME Typed, NEW r \in Requests
  PROVE  UrlOf(r) \in Urls
<1> QED BY HandlersAssumption DEF Typed, Case, UrlOf

\* Before the first request nothing is locked, buffered, stored or answered.
LEMMA InitInv == Init => IInv
<1> SUFFICES ASSUME Init PROVE IInv
  OBVIOUS
<1>1. Typed
  BY DEF Init, Typed, BudgetInit, Locked, Buffering, Answers
<1> QED BY <1>1 DEF Init, BudgetInit, IInv, LockHeld, BufferOwned, BodyWhole,
                    NoAnswerYet, Locked, Buffering, Open

\* A client only sends its body or leaves.
LEMMA ClientInv ==
  ASSUME IInv, NEW r \in Requests, Client(r)
  PROVE  IInv'
<1> QED BY DEF Client, SendBody, Leave, buffers, IInv, Typed, LockHeld, BufferOwned,
               BodyWhole, NoAnswerYet, Locked, Buffering, Unanswered, Open, Off, UrlOf

\* A refused request never gets as far as the lock.
LEMMA RefuseInv ==
  ASSUME IInv, NEW r \in Requests, Refuse(r)
  PROVE  IInv'
<1>1. Typed'
  BY KeyOfRequest DEF Refuse, Respond, Goto, buffers,
     IInv, Typed, Locked, Buffering, Answers
<1>2. LockHeld'
  BY KeyOfRequest DEF Refuse, Respond, Goto, buffers,
     IInv, Typed, LockHeld, Locked, Buffering, UrlOf
<1>3. BufferOwned'
  BY DEF Refuse, Respond, Goto, buffers,
     IInv, Typed, BufferOwned, Buffering, Open, Off, UrlOf
<1>4. BodyWhole'
  BY DEF Refuse, Respond, Goto, buffers,
     IInv, Typed, BodyWhole, Off, UrlOf
<1>5. NoAnswerYet'
  BY DEF Refuse, Respond, Goto, buffers,
     IInv, Typed, NoAnswerYet, Unanswered
<1> QED BY <1>1, <1>2, <1>3, <1>4, <1>5 DEF IInv

\* An admitted request waits for the lock.
LEMMA AdmitInv ==
  ASSUME IInv, NEW r \in Requests, Admit(r)
  PROVE  IInv'
<1>1. Typed'
  BY KeyOfRequest DEF Admit, Goto, buffers,
     IInv, Typed, Locked, Buffering, Answers
<1>2. LockHeld'
  BY KeyOfRequest DEF Admit, Goto, buffers,
     IInv, Typed, LockHeld, Locked, Buffering, UrlOf
<1>3. BufferOwned'
  BY DEF Admit, Goto, buffers,
     IInv, Typed, BufferOwned, Buffering, Open, Off, UrlOf
<1>4. BodyWhole'
  BY DEF Admit, Goto, buffers,
     IInv, Typed, BodyWhole, Off, UrlOf
<1>5. NoAnswerYet'
  BY DEF Admit, Goto, buffers,
     IInv, Typed, NoAnswerYet, Unanswered
<1> QED BY <1>1, <1>2, <1>3, <1>4, <1>5 DEF IInv

\* A free lock is taken.
LEMMA AcquireInv ==
  ASSUME IInv, NEW r \in Requests, AcquireKeyLock(r)
  PROVE  IInv'
<1>1. Typed'
  BY KeyOfRequest DEF AcquireKeyLock, LockOf, Goto, buffers,
     IInv, Typed, Locked, Buffering, Answers
<1>2. LockHeld'
  BY KeyOfRequest DEF AcquireKeyLock, LockOf, Goto, buffers,
     IInv, Typed, LockHeld, Locked, Buffering, UrlOf
<1>3. BufferOwned'
  BY DEF AcquireKeyLock, LockOf, Goto, buffers,
     IInv, Typed, BufferOwned, Buffering, Open, Off, UrlOf
<1>4. BodyWhole'
  BY DEF AcquireKeyLock, LockOf, Goto, buffers,
     IInv, Typed, BodyWhole, Off, UrlOf
<1>5. NoAnswerYet'
  BY DEF AcquireKeyLock, LockOf, Goto, buffers,
     IInv, Typed, NoAnswerYet, Unanswered
<1> QED BY <1>1, <1>2, <1>3, <1>4, <1>5 DEF IInv

\* Without a temporary file there is no buffer.
LEMMA NewReaderFailsInv ==
  ASSUME IInv, NEW r \in Requests, NewUploadReaderFails(r)
  PROVE  IInv'
<1>1. Typed'
  BY KeyOfRequest DEF NewUploadReaderFails, Fault, Respond, Goto, buffers,
     IInv, Typed, Locked, Buffering, Answers
<1>2. LockHeld'
  BY KeyOfRequest DEF NewUploadReaderFails, Fault, Respond, Goto, buffers,
     IInv, Typed, LockHeld, Locked, Buffering, UrlOf
<1>3. BufferOwned'
  BY DEF NewUploadReaderFails, Fault, Respond, Goto, buffers,
     IInv, Typed, BufferOwned, Buffering, Open, Off, UrlOf
<1>4. BodyWhole'
  BY DEF NewUploadReaderFails, Fault, Respond, Goto, buffers,
     IInv, Typed, BodyWhole, Off, UrlOf
<1>5. NoAnswerYet'
  BY DEF NewUploadReaderFails, Fault, Respond, Goto, buffers,
     IInv, Typed, NoAnswerYet, Unanswered
<1> QED BY <1>1, <1>2, <1>3, <1>4, <1>5 DEF IInv

\* NewUploadReader makes the buffer of its own request.
LEMMA NewReaderInv ==
  ASSUME IInv, NEW r \in Requests, NewUploadReader(r)
  PROVE  IInv'
<1>1. Typed'
  BY KeyOfRequest DEF NewUploadReader, NewFullBuffer, Goto,
     IInv, Typed, Locked, Buffering, Answers
<1>2. LockHeld'
  BY KeyOfRequest DEF NewUploadReader, NewFullBuffer, Goto,
     IInv, Typed, LockHeld, Locked, Buffering, UrlOf
<1>3. BufferOwned'
  BY DEF NewUploadReader, NewFullBuffer, Goto,
     IInv, Typed, BufferOwned, Buffering, Open, Off, UrlOf
<1>4. BodyWhole'
  BY DEF NewUploadReader, NewFullBuffer, Goto,
     IInv, Typed, BodyWhole, Off, UrlOf
<1>5. NoAnswerYet'
  BY DEF NewUploadReader, NewFullBuffer, Goto,
     IInv, Typed, NoAnswerYet, Unanswered
<1> QED BY <1>1, <1>2, <1>3, <1>4, <1>5 DEF IInv

\* A body that came whole is processed.
LEMMA ReceiveInv ==
  ASSUME IInv, NEW r \in Requests, ReceiveBody(r)
  PROVE  IInv'
<1>1. Typed'
  BY KeyOfRequest DEF ReceiveBody, Complete, Goto, buffers,
     IInv, Typed, Locked, Buffering, Answers
<1>2. LockHeld'
  BY KeyOfRequest DEF ReceiveBody, Complete, Goto, buffers,
     IInv, Typed, LockHeld, Locked, Buffering, UrlOf
<1>3. BufferOwned'
  BY DEF ReceiveBody, Complete, Goto, buffers,
     IInv, Typed, BufferOwned, Buffering, Open, Off, UrlOf
<1>4. BodyWhole'
  BY DEF ReceiveBody, Complete, Goto, buffers,
     IInv, Typed, BodyWhole, Off, UrlOf
<1>5. NoAnswerYet'
  BY DEF ReceiveBody, Complete, Goto, buffers,
     IInv, Typed, NoAnswerYet, Unanswered
<1> QED BY <1>1, <1>2, <1>3, <1>4, <1>5 DEF IInv

\* A body that broke off is not.
LEMMA ReceiveFailsInv ==
  ASSUME IInv, NEW r \in Requests, ReceiveFails(r)
  PROVE  IInv'
<1>1. Typed'
  BY KeyOfRequest DEF ReceiveFails, Fault, Respond, Goto, buffers,
     IInv, Typed, Locked, Buffering, Answers
<1>2. LockHeld'
  BY KeyOfRequest DEF ReceiveFails, Fault, Respond, Goto, buffers,
     IInv, Typed, LockHeld, Locked, Buffering, UrlOf
<1>3. BufferOwned'
  BY DEF ReceiveFails, Fault, Respond, Goto, buffers,
     IInv, Typed, BufferOwned, Buffering, Open, Off, UrlOf
<1>4. BodyWhole'
  BY DEF ReceiveFails, Fault, Respond, Goto, buffers,
     IInv, Typed, BodyWhole, Off, UrlOf
<1>5. NoAnswerYet'
  BY DEF ReceiveFails, Fault, Respond, Goto, buffers,
     IInv, Typed, NoAnswerYet, Unanswered
<1> QED BY <1>1, <1>2, <1>3, <1>4, <1>5 DEF IInv

\* The transfer of a body that came whole begins.
LEMMA BeginTransferInv ==
  ASSUME IInv, NEW r \in Requests, BeginTransfer(r)
  PROVE  IInv'
<1>1. Typed'
  BY KeyOfRequest DEF BeginTransfer, Goto, buffers,
     IInv, Typed, Locked, Buffering, Answers
<1>2. LockHeld'
  BY KeyOfRequest DEF BeginTransfer, Goto, buffers,
     IInv, Typed, LockHeld, Locked, Buffering, UrlOf
<1>3. BufferOwned'
  BY DEF BeginTransfer, Goto, buffers,
     IInv, Typed, BufferOwned, Buffering, Open, Off, UrlOf
<1>4. BodyWhole'
  BY DEF BeginTransfer, Goto, buffers,
     IInv, Typed, BodyWhole, Off, UrlOf
<1>5. NoAnswerYet'
  BY DEF BeginTransfer, Goto, buffers,
     IInv, Typed, NoAnswerYet, Unanswered
<1> QED BY <1>1, <1>2, <1>3, <1>4, <1>5 DEF IInv

\* What the storage has is a body that came whole.
LEMMA EndTransferInv ==
  ASSUME IInv, NEW r \in Requests, EndTransfer(r)
  PROVE  IInv'
<1>1. Typed'
  BY KeyOfRequest DEF EndTransfer, Complete, Goto, buffers,
     IInv, Typed, Locked, Buffering, Answers
<1>2. LockHeld'
  BY KeyOfRequest DEF EndTransfer, Complete, Goto, buffers,
     IInv, Typed, LockHeld, Locked, Buffering, UrlOf
<1>3. BufferOwned'
  BY DEF EndTransfer, Complete, Goto, buffers,
     IInv, Typed, BufferOwned, Buffering, Open, Off, UrlOf
<1>4. BodyWhole'
  BY DEF EndTransfer, Complete, Goto, buffers,
     IInv, Typed, BodyWhole, Off, UrlOf
<1>5. NoAnswerYet'
  BY DEF EndTransfer, Complete, Goto, buffers,
     IInv, Typed, NoAnswerYet, Unanswered
<1> QED BY <1>1, <1>2, <1>3, <1>4, <1>5 DEF IInv

\* A cancelled transfer is answered.
LEMMA CancelledInv ==
  ASSUME IInv, NEW r \in Requests, TransferCancelled(r)
  PROVE  IInv'
<1>1. Typed'
  BY KeyOfRequest DEF TransferCancelled, Deferred, Respond, Goto, buffers,
     IInv, Typed, Locked, Buffering, Answers
<1>2. LockHeld'
  BY KeyOfRequest DEF TransferCancelled, Deferred, Respond, Goto, buffers,
     IInv, Typed, LockHeld, Locked, Buffering, UrlOf
<1>3. BufferOwned'
  BY DEF TransferCancelled, Deferred, Respond, Goto, buffers,
     IInv, Typed, BufferOwned, Buffering, Open, Off, UrlOf
<1>4. BodyWhole'
  BY DEF TransferCancelled, Deferred, Respond, Goto, buffers,
     IInv, Typed, BodyWhole, Off, UrlOf
<1>5. NoAnswerYet'
  BY DEF TransferCancelled, Deferred, Respond, Goto, buffers,
     IInv, Typed, NoAnswerYet, Unanswered
<1> QED BY <1>1, <1>2, <1>3, <1>4, <1>5 DEF IInv

\* Success is answered.
LEMMA ProcessSucceedsInv ==
  ASSUME IInv, NEW r \in Requests, ProcessSucceeds(r)
  PROVE  IInv'
<1>1. Typed'
  BY KeyOfRequest DEF ProcessSucceeds, Deferred, Respond, Goto, buffers,
     IInv, Typed, Locked, Buffering, Answers
<1>2. LockHeld'
  BY KeyOfRequest DEF ProcessSucceeds, Deferred, Respond, Goto, buffers,
     IInv, Typed, LockHeld, Locked, Buffering, UrlOf
<1>3. BufferOwned'
  BY DEF ProcessSucceeds, Deferred, Respond, Goto, buffers,
     IInv, Typed, BufferOwned, Buffering, Open, Off, UrlOf
<1>4. BodyWhole'
  BY DEF ProcessSucceeds, Deferred, Respond, Goto, buffers,
     IInv, Typed, BodyWhole, Off, UrlOf
<1>5. NoAnswerYet'
  BY DEF ProcessSucceeds, Deferred, Respond, Goto, buffers,
     IInv, Typed, NoAnswerYet, Unanswered
<1> QED BY <1>1, <1>2, <1>3, <1>4, <1>5 DEF IInv

\* A mismatch is answered.
LEMMA ProcessMismatchesInv ==
  ASSUME IInv, NEW r \in Requests, ProcessMismatches(r)
  PROVE  IInv'
<1>1. Typed'
  BY KeyOfRequest DEF ProcessMismatches, Deferred, Respond, Goto, buffers,
     IInv, Typed, Locked, Buffering, Answers
<1>2. LockHeld'
  BY KeyOfRequest DEF ProcessMismatches, Deferred, Respond, Goto, buffers,
     IInv, Typed, LockHeld, Locked, Buffering, UrlOf
<1>3. BufferOwned'
  BY DEF ProcessMismatches, Deferred, Respond, Goto, buffers,
     IInv, Typed, BufferOwned, Buffering, Open, Off, UrlOf
<1>4. BodyWhole'
  BY DEF ProcessMismatches, Deferred, Respond, Goto, buffers,
     IInv, Typed, BodyWhole, Off, UrlOf
<1>5. NoAnswerYet'
  BY DEF ProcessMismatches, Deferred, Respond, Goto, buffers,
     IInv, Typed, NoAnswerYet, Unanswered
<1> QED BY <1>1, <1>2, <1>3, <1>4, <1>5 DEF IInv

\* A failure is answered.
LEMMA ProcessFailsInv ==
  ASSUME IInv, NEW r \in Requests, ProcessFails(r)
  PROVE  IInv'
<1>1. Typed'
  BY KeyOfRequest DEF ProcessFails, Fault, Deferred, Respond, Goto, buffers,
     IInv, Typed, Locked, Buffering, Answers
<1>2. LockHeld'
  BY KeyOfRequest DEF ProcessFails, Fault, Deferred, Respond, Goto, buffers,
     IInv, Typed, LockHeld, Locked, Buffering, UrlOf
<1>3. BufferOwned'
  BY DEF ProcessFails, Fault, Deferred, Respond, Goto, buffers,
     IInv, Typed, BufferOwned, Buffering, Open, Off, UrlOf
<1>4. BodyWhole'
  BY DEF ProcessFails, Fault, Deferred, Respond, Goto, buffers,
     IInv, Typed, BodyWhole, Off, UrlOf
<1>5. NoAnswerYet'
  BY DEF ProcessFails, Fault, Deferred, Respond, Goto, buffers,
     IInv, Typed, NoAnswerYet, Unanswered
<1> QED BY <1>1, <1>2, <1>3, <1>4, <1>5 DEF IInv

\* The deferred Close closes the buffer of its request.
LEMMA CloseInv ==
  ASSUME IInv, NEW r \in Requests, CloseBuffer(r)
  PROVE  IInv'
<1>1. Typed'
  BY KeyOfRequest DEF CloseBuffer, CloseAll, Goto,
     IInv, Typed, Locked, Buffering, Answers
<1>2. LockHeld'
  BY KeyOfRequest DEF CloseBuffer, CloseAll, Goto,
     IInv, Typed, LockHeld, Locked, Buffering, UrlOf
<1>3. BufferOwned'
  BY DEF CloseBuffer, CloseAll, Goto,
     IInv, Typed, BufferOwned, Buffering, Open, Off, UrlOf
<1>4. BodyWhole'
  BY DEF CloseBuffer, CloseAll, Goto,
     IInv, Typed, BodyWhole, Off, UrlOf
<1>5. NoAnswerYet'
  BY DEF CloseBuffer, CloseAll, Goto,
     IInv, Typed, NoAnswerYet, Unanswered
<1> QED BY <1>1, <1>2, <1>3, <1>4, <1>5 DEF IInv

\* The deferred Unlock gives the lock back.
LEMMA UnlockInv ==
  ASSUME IInv, NEW r \in Requests, Unlock(r)
  PROVE  IInv'
<1>1. Typed'
  BY KeyOfRequest DEF Unlock, LockOf, Goto, buffers,
     IInv, Typed, Locked, Buffering, Answers
<1>2. LockHeld'
  BY KeyOfRequest DEF Unlock, LockOf, Goto, buffers,
     IInv, Typed, LockHeld, Locked, Buffering, UrlOf
<1>3. BufferOwned'
  BY DEF Unlock, LockOf, Goto, buffers,
     IInv, Typed, BufferOwned, Buffering, Open, Off, UrlOf
<1>4. BodyWhole'
  BY DEF Unlock, LockOf, Goto, buffers,
     IInv, Typed, BodyWhole, Off, UrlOf
<1>5. NoAnswerYet'
  BY DEF Unlock, LockOf, Goto, buffers,
     IInv, Typed, NoAnswerYet, Unanswered
<1> QED BY <1>1, <1>2, <1>3, <1>4, <1>5 DEF IInv

\* Every step of a client or a handler keeps the invariant.
LEMMA NextInv == IInv /\ [Next]_vars => IInv'
<1> SUFFICES ASSUME IInv, [Next]_vars PROVE IInv'
  OBVIOUS
<1>1. CASE \E r \in Requests : Client(r)
  BY <1>1, ClientInv
<1>2. CASE \E r \in Requests : Handle(r)
  BY <1>2, RefuseInv, AdmitInv, AcquireInv, NewReaderInv, NewReaderFailsInv, ReceiveInv,
     ReceiveFailsInv, BeginTransferInv, EndTransferInv, CancelledInv, ProcessSucceedsInv,
     ProcessMismatchesInv, ProcessFailsInv,
     CloseInv, UnlockInv DEF Handle
<1>3. CASE UNCHANGED vars
  BY <1>3 DEF vars, IInv, Typed, LockHeld, BufferOwned, BodyWhole, NoAnswerYet, Open, Off, UrlOf
<1> QED BY <1>1, <1>2, <1>3 DEF Next, AllDone

\* The invariant of the single uploads.
THEOREM Invariance == Spec => []IInv
<1> QED BY InitInv, NextInv, PTL DEF Spec

-----------------------------------------------------------------------------
\* A handler that has answered left neither a lock nor an open buffer, on any
\* of its paths.
THEOREM LeavesNothing == Spec => []NothingLeftBehind
<1>1. IInv => NothingLeftBehind
  <2> SUFFICES ASSUME IInv, NEW r \in Requests, pc[r] = "done"
               PROVE  ~Open(r) /\ \A u \in Urls : r \notin lock[u]
    BY DEF NothingLeftBehind
  <2> QED BY DEF IInv, BufferOwned, LockHeld, Locked, Buffering
<1> QED BY <1>1, Invariance, PTL

\* Of all the requests that name a key, one at a time has a buffer.
THEOREM OneBody == Spec => []OneBodyPerKey
<1>1. IInv => OneBodyPerKey
  <2> SUFFICES ASSUME IInv, NEW q \in Requests, NEW r \in Requests, SameKey(q, r),
                      Open(q), Open(r)
               PROVE  q = r
    BY DEF OneBodyPerKey
  <2>1. pc[q] \in Locked /\ pc[r] \in Locked
    BY DEF IInv, BufferOwned, Locked
  <2>2. lock[UrlOf(q)] = {q} /\ lock[UrlOf(r)] = {r}
    BY <2>1 DEF IInv, LockHeld
  <2> QED BY <2>2 DEF SameKey
<1> QED BY <1>1, Invariance, PTL

\* Nothing is stored of a body that broke off.
THEOREM WholeBodies == Spec => []OnlyWholeBodiesStored
<1>1. IInv => OnlyWholeBodiesStored
  BY DEF IInv, BodyWhole, OnlyWholeBodiesStored
<1> QED BY <1>1, Invariance, PTL

\* Every step of the handlers is a step of the memory budget or leaves it alone,
\* so what is proved of the budget below holds for all of them together.
LEMMA BudgetImplemented == Spec => BudgetSpec
<1>1. Init => BudgetInit
  BY DEF Init
<1>2. [Next]_vars => [BudgetNext]_(buffers)
  <2> SUFFICES ASSUME [Next]_vars PROVE BudgetNext \/ UNCHANGED buffers
    OBVIOUS
  <2>1. ASSUME NEW r \in Requests, NewUploadReader(r)
        PROVE  BudgetNext
    BY <2>1 DEF NewUploadReader, BudgetNext
  <2>2. ASSUME NEW r \in Requests, CloseBuffer(r)
        PROVE  BudgetNext
    BY <2>2 DEF CloseBuffer, BudgetNext
  <2>3. ASSUME NEW r \in Requests, Client(r) \/ Handle(r),
               ~NewUploadReader(r), ~CloseBuffer(r)
        PROVE  UNCHANGED buffers
    BY <2>3 DEF Client, SendBody, Leave, Handle, Refuse, Admit, AcquireKeyLock,
       NewUploadReaderFails, ReceiveBody, ReceiveFails, BeginTransfer, EndTransfer,
       TransferCancelled, ProcessSucceeds, ProcessMismatches, ProcessFails, Unlock, buffers
  <2>4. CASE UNCHANGED vars
    BY <2>4 DEF vars, buffers
  <2> QED BY <2>1, <2>2, <2>3, <2>4 DEF Next, AllDone
<1> QED BY <1>1, <1>2, PTL DEF Spec, BudgetSpec

-----------------------------------------------------------------------------
(* The memory budget, for every sequence of calls of its manager.           *)

\* The counter is exact, and what it counts is finite.
BudgetInv ==
  /\ BudgetTypeOK
  /\ IsFiniteSet(Units(Holding))
  /\ memoryInUse = Cardinality(Units(Holding))
  /\ memoryInUse <= MaxMemory
  /\ \A b \in closed : kind[b] # "none"

\* A buffer of positive size reserves as many units as its size.
LEMMA UnitsOfOne ==
  ASSUME NEW b \in Buffers, SizeOf[b] > 0
  PROVE  /\ IsFiniteSet({b} \X (1..SizeOf[b]))
         /\ Cardinality({b} \X (1..SizeOf[b])) = SizeOf[b]
<1>1. SizeOf[b] \in Int
  BY BufferAssumption
<1> DEFINE n == SizeOf[b]
           S == {b}
           T == 1..n
<1>2. IsFiniteSet(T) /\ Cardinality(T) = n
  <2>1. n \in Int /\ n > 0
    BY <1>1
  <2> HIDE DEF n
  <2>2. IsFiniteSet(1..n) /\ Cardinality(1..n) = IF 1 > n THEN 0 ELSE n - 1 + 1
    BY <2>1, FS_Interval
  <2> QED BY <2>1, <2>2
<1>3. IsFiniteSet(S) /\ Cardinality(S) = 1
  BY FS_Singleton
<1> HIDE DEF S, T
<1>4. IsFiniteSet(S \X T) /\ Cardinality(S \X T) = Cardinality(S) * Cardinality(T)
  BY <1>2, <1>3, FS_Product
<1>5. Cardinality(S \X T) = n
  BY <1>1, <1>2, <1>3, <1>4
<1> QED BY <1>4, <1>5 DEF S, T

\* An empty manager has nothing reserved.
LEMMA BudgetInitInv == BudgetInit => BudgetInv
<1> SUFFICES ASSUME BudgetInit PROVE BudgetInv
  OBVIOUS
<1>1. Units(Holding) = {}
  BY DEF BudgetInit, Holding, Units
<1>2. BudgetTypeOK
  BY DEF BudgetInit, BudgetTypeOK
<1> QED BY <1>1, <1>2, FS_EmptySet, BufferAssumption DEF BudgetInit, BudgetInv

\* NewFullBuffer reserves what its buffer is created for.
LEMMA NewFullBufferInv ==
  ASSUME BudgetInv, NEW b \in Buffers, NewFullBuffer(b)
  PROVE  BudgetInv'
<1>1. /\ memoryInUse \in Nat /\ kind \in [Buffers -> {"none", "memory", "file"}]
      /\ kind[b] = "none" /\ closed' = closed /\ closed \subseteq Requests
      /\ MaxMemory \in Nat /\ SizeOf[b] \in Int
  BY BufferAssumption DEF BudgetInv, BudgetTypeOK, NewFullBuffer
<1>2. CASE Fits(b)
  <2>1. /\ kind' = [kind EXCEPT ![b] = "memory"]
        /\ memoryInUse' = memoryInUse + SizeOf[b]
        /\ SizeOf[b] > 0
        /\ memoryInUse' <= MaxMemory
    BY <1>2 DEF NewFullBuffer, Fits
  <2>2. BudgetTypeOK'
    BY <1>1, <2>1 DEF BudgetTypeOK
  <2>3. b \notin closed /\ \A c \in closed' : kind'[c] # "none"
    BY <1>1, <2>1 DEF BudgetInv
  <2>4. /\ IsFiniteSet(Units(Holding)')
        /\ Cardinality(Units(Holding)') = memoryInUse + SizeOf[b]
    <3>1. Holding' = Holding \cup {b} /\ b \notin Holding
      BY <1>1, <2>1, <2>3 DEF Holding
    <3> DEFINE old == Units(Holding)
               new == {b} \X (1..SizeOf[b])
    <3>2. Units(Holding)' = old \cup new
      BY <3>1 DEF Units
    <3>3. old \cap new = {}
      BY <3>1 DEF Units
    <3>4. IsFiniteSet(old) /\ IsFiniteSet(new)
      BY <2>1, UnitsOfOne DEF BudgetInv
    <3>5. Cardinality(new) = SizeOf[b] /\ Cardinality(old) = memoryInUse
      BY <2>1, UnitsOfOne DEF BudgetInv
    <3> HIDE DEF old, new
    <3>6. /\ IsFiniteSet(old \cup new)
          /\ Cardinality(old \cup new)
               = Cardinality(old) + Cardinality(new) - Cardinality(old \cap new)
      BY <3>4, FS_Union
    <3>7. Cardinality(old \cap new) = 0
      BY <3>3, FS_EmptySet
    <3>8. Cardinality(old \cup new) = memoryInUse + SizeOf[b]
      BY <1>1, <3>5, <3>6, <3>7
    <3> QED BY <3>2, <3>6, <3>8
  <2> QED BY <2>1, <2>2, <2>3, <2>4 DEF BudgetInv
<1>3. CASE ~Fits(b)
  <2>1. kind' = [kind EXCEPT ![b] = "file"] /\ memoryInUse' = memoryInUse
    BY <1>3 DEF NewFullBuffer
  <2>2. Holding' = Holding
    BY <1>1, <2>1 DEF Holding
  <2>3. Units(Holding)' = Units(Holding)
    BY <2>2 DEF Units
  <2>4. \A c \in closed' : kind'[c] # "none"
    BY <1>1, <2>1 DEF BudgetInv
  <2> QED BY <1>1, <2>1, <2>3, <2>4 DEF BudgetInv, BudgetTypeOK
<1> QED BY <1>2, <1>3

\* Close returns exactly the reservations of the buffers that were open.
LEMMA CloseAllInv ==
  ASSUME BudgetInv, NEW bs \in SUBSET Buffers, CloseAll(bs)
  PROVE  BudgetInv'
<1> DEFINE old == Units(Holding)
           freed == Units(bs \cap Holding)
<1>1. /\ memoryInUse \in Nat /\ kind' = kind /\ closed' = closed \cup bs
      /\ MaxMemory \in Nat /\ memoryInUse <= MaxMemory
      /\ memoryInUse' = Without(Cardinality(freed))
      /\ IsFiniteSet(old) /\ memoryInUse = Cardinality(old)
  BY BufferAssumption DEF BudgetInv, BudgetTypeOK, CloseAll
<1>2. Holding' = Holding \ bs
  BY <1>1 DEF Holding
<1>3. Units(Holding)' = old \ freed
  BY <1>2 DEF Units
<1>4. freed \subseteq old
  BY DEF Units
<1> HIDE DEF old, freed
<1>5. IsFiniteSet(freed) /\ Cardinality(freed) \in Nat /\ Cardinality(freed) <= Cardinality(old)
  BY <1>1, <1>4, FS_Subset, FS_CardinalityType
<1>6. old \cap freed = freed
  BY <1>4
<1>7. /\ IsFiniteSet(old \ freed)
      /\ Cardinality(old \ freed) = Cardinality(old) - Cardinality(freed)
  BY <1>1, <1>6, FS_Difference
<1>8. memoryInUse' = memoryInUse - Cardinality(freed) /\ memoryInUse' \in Nat
  BY <1>1, <1>5 DEF Without
<1>9. BudgetTypeOK'
  BY <1>1, <1>8 DEF BudgetInv, BudgetTypeOK
<1>10. \A b \in closed' : kind'[b] # "none"
  BY <1>1 DEF BudgetInv, CloseAll
<1> QED BY <1>1, <1>3, <1>5, <1>7, <1>8, <1>9, <1>10 DEF BudgetInv

\* Every call of the manager and of its buffers keeps the invariant.
LEMMA BudgetNextInv == BudgetInv /\ [BudgetNext]_(buffers) => BudgetInv'
<1> SUFFICES ASSUME BudgetInv, [BudgetNext]_(buffers) PROVE BudgetInv'
  OBVIOUS
<1>1. CASE \E b \in Buffers : NewFullBuffer(b)
  BY <1>1, NewFullBufferInv
<1>2. CASE \E bs \in SUBSET Buffers : CloseAll(bs)
  BY <1>2, CloseAllInv
<1>3. CASE UNCHANGED buffers
  <2>1. Units(Holding)' = Units(Holding)
    BY <1>3 DEF buffers, Units, Holding
  <2> QED BY <1>3, <2>1 DEF buffers, BudgetInv, BudgetTypeOK
<1> QED BY <1>1, <1>2, <1>3 DEF BudgetNext

\* The invariant of the memory budget: the counter is exact and within bounds.
THEOREM BudgetInvariance == BudgetSpec => []BudgetInv
<1> QED BY BudgetInitInv, BudgetNextInv, PTL DEF BudgetSpec

\* The counter is the sum of the sizes of the open memory buffers, whichever
\* owners closed them, how often and in which order.
THEOREM CounterExact == BudgetSpec => []ReservationsMatch
<1>1. BudgetInv => ReservationsMatch
  BY DEF BudgetInv, ReservationsMatch
<1> QED BY <1>1, BudgetInvariance, PTL

\* The open memory buffers hold at most max_memory.
THEOREM BudgetKept == BudgetSpec => []WithinBudget
<1>1. BudgetInv => WithinBudget
  BY DEF BudgetInv, WithinBudget
<1> QED BY <1>1, BudgetInvariance, PTL

\* A body that could be kept in memory goes to disk only when the open buffers
\* leave no room for it.
THEOREM DiskOnlyWhenFull == BudgetSpec => FileOnlyWhenFull
<1>1. BudgetInv /\ [BudgetNext]_(buffers) =>
        [\A b \in Buffers :
           kind[b] = "none" /\ kind'[b] = "file" /\ ~ForceFile /\ SizeOf[b] \in 1..Memory
             => Cardinality(Units(Holding)) + SizeOf[b] > MaxMemory]_(buffers)
  <2> SUFFICES ASSUME BudgetInv, BudgetNext, NEW b \in Buffers, kind[b] = "none", kind'[b] = "file",
                      ~ForceFile, SizeOf[b] \in 1..Memory
               PROVE  Cardinality(Units(Holding)) + SizeOf[b] > MaxMemory
    OBVIOUS
  <2>1. NewFullBuffer(b)
    <3>1. PICK c \in Buffers : NewFullBuffer(c)
      BY DEF BudgetNext, CloseAll
    <3>2. b = c
      BY <3>1 DEF NewFullBuffer, BudgetInv, BudgetTypeOK
    <3> QED BY <3>1, <3>2
  <2>2. ~Fits(b)
    BY <2>1 DEF NewFullBuffer, BudgetInv, BudgetTypeOK
  <2> QED BY <2>2, BufferAssumption DEF Fits, BudgetInv, BudgetTypeOK
<1> QED BY <1>1, BudgetInvariance, PTL DEF BudgetSpec, FileOnlyWhenFull

\* So, whatever the clients do, the buffers of all requests together are counted
\* exactly and stay within max_memory.
THEOREM HandlersKeepBudget ==
  Spec => [](ReservationsMatch /\ WithinBudget)
<1> QED BY BudgetImplemented, CounterExact, BudgetKept, PTL

\* What is reserved is what the requests in work keep in memory: nothing stays
\* reserved for a request that is answered, on whatever path.
THEOREM BudgetComesBack == Spec => []BudgetReturned
<1>1. IInv /\ ReservationsMatch => BudgetReturned
  <2> SUFFICES ASSUME IInv, ReservationsMatch PROVE BudgetReturned
    OBVIOUS
  <2>1. Holding = {r \in Requests : kind[r] = "memory" /\ pc[r] \notin {"unlock", "done"}}
    BY DEF Holding, IInv, BufferOwned, Open, Buffering
  <2> QED BY <2>1 DEF ReservationsMatch, BudgetReturned
<1> QED BY <1>1, Invariance, HandlersKeepBudget, PTL

\* The manager's part of the types comes from its own invariant, and the number
\* of faults has its bound.
THEOREM TypeCorrect == Spec => []TypeOK
<1>1. Init => faults \in 0..MaxFaults
  BY HandlersAssumption DEF Init
<1>2. faults \in 0..MaxFaults /\ [Next]_vars => (faults \in 0..MaxFaults)'
  <2> SUFFICES ASSUME faults \in 0..MaxFaults, [Next]_vars, faults' # faults
               PROVE  faults' \in 0..MaxFaults
    OBVIOUS
  <2>1. Fault
    BY DEF Next, Client, SendBody, Leave, Handle, Refuse, Admit, AcquireKeyLock, NewUploadReader,
       NewUploadReaderFails, ReceiveBody, ReceiveFails, BeginTransfer, EndTransfer,
       TransferCancelled, ProcessSucceeds, ProcessMismatches, ProcessFails, CloseBuffer,
       Unlock, AllDone, vars
  <2> QED BY <2>1, HandlersAssumption DEF Fault
<1>3. IInv /\ BudgetInv /\ faults \in 0..MaxFaults => TypeOK
  BY DEF IInv, Typed, BodyWhole, BudgetInv, BudgetTypeOK, TypeOK, Locked, Buffering, Answers
<1> QED BY <1>1, <1>2, <1>3, Invariance, BudgetImplemented, BudgetInvariance, PTL DEF Spec
=============================================================================
