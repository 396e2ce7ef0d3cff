------------------------------ MODULE Handlers ------------------------------
(***************************************************************************)
(* The single uploads of the gateway: POST of the HTTP API                 *)
(* (internal/api/http.go) and PUT of the S3 API (internal/api/s3.go), all  *)
(* at the same time, with the lock of each key, the buffers they take from *)
(* the budget of module BufferManager, and clients that send slowly, stop  *)
(* sending or go away.                                                     *)
(*                                                                         *)
(* Authentication is one step (module Auth has its inside), and            *)
(* Pipeline.Process is three: up to the transfer, the transfer, and what   *)
(* comes after it (module Pipeline).  The servers have no timeouts:        *)
(* nothing but the client itself ends a body that does not come.           *)
(***************************************************************************)
EXTENDS BufferManager

CONSTANTS
  Urls,        \* keys as the requests spell them, the domain of the locks
  Cases,       \* the configurations and requests to begin with
  MaxFaults    \* bound on failing disks and failing storage calls

\* A request and its buffer have the same name.
Requests == Buffers

\* The key each request names, the spellings no configured key matches, the
\* keys whose mode is OFF, and those whose backups are detached from requests.
Case == [urlOf : [Requests -> Urls], unknown : SUBSET Urls, off : SUBSET Urls,
         detached : SUBSET Urls]

ASSUME HandlersAssumption ==
  /\ Cases \subseteq Case
  /\ MaxFaults \in Nat

VARIABLES   \* beside those of BufferManager
  given,       \* the case
  sent,        \* the clients that have sent their whole body
  gone,        \* the clients that closed the connection
  lock,        \* Handler.keyMu: the request that holds the lock of each key
  pc,          \* where each request stands
  stored,      \* the requests whose transfer has ended
  answer,      \* the response each handler has written
  faults

vars == <<given, sent, gone, lock, pc, stored, answer, faults, memoryInUse,
          kind, closed>>

UrlOf(r) == given.urlOf[r]
Off(r) == UrlOf(r) \in given.off

TypeOK ==
  /\ given \in Cases
  /\ sent \subseteq Requests /\ gone \subseteq Requests
  /\ lock \in [Urls -> SUBSET Requests]
  /\ pc \in [Requests -> {"start", "lock", "buffer", "receive", "process",
                          "transfer", "finish", "close", "unlock", "done"}]
  /\ stored \subseteq Requests
  /\ answer \in [Requests -> {"none", "refused", "badRequest", "conflict",
                              "internalError", "created"}]
  /\ faults \in 0..MaxFaults
  /\ BudgetTypeOK

Init ==
  /\ given \in Cases
  /\ sent = {} /\ gone = {}
  /\ lock = [u \in Urls |-> {}]
  /\ pc = [r \in Requests |-> "start"]
  /\ stored = {}
  /\ answer = [r \in Requests |-> "none"]
  /\ faults = 0
  /\ BudgetInit

Goto(r, label) == pc' = [pc EXCEPT ![r] = label]
Respond(r, what) == answer' = [answer EXCEPT ![r] = what]
Fault == faults < MaxFaults /\ faults' = faults + 1

-----------------------------------------------------------------------------
(* The clients                                                              *)

SendBody(r) ==
  /\ r \notin sent \cup gone
  /\ sent' = sent \cup {r}
  /\ UNCHANGED <<given, gone, lock, pc, stored, answer, faults, buffers>>

Leave(r) ==
  /\ r \notin gone /\ pc[r] # "done"
  /\ gone' = gone \cup {r}
  /\ UNCHANGED <<given, sent, lock, pc, stored, answer, faults, buffers>>

-----------------------------------------------------------------------------
(* The handlers                                                             *)

\* Everything before the lock: protocol, method, key, authentication and
\* policy.  A key that no configured key matches has no authentication chain.
Refuse(r) ==
  /\ pc[r] = "start"
  /\ Respond(r, "refused") /\ Goto(r, "done")
  /\ UNCHANGED <<given, sent, gone, lock, stored, faults, buffers>>

Admit(r) ==
  /\ pc[r] = "start" /\ UrlOf(r) \notin given.unknown
  /\ Goto(r, "lock")
  /\ UNCHANGED <<given, sent, gone, lock, stored, answer, faults, buffers>>

\* Variant: one mutex for all keys.
LockOfAll(r) == CHOOSE u \in Urls : TRUE

\* acquireKeyLock: one mutex for each spelling.
LockOf(r) == UrlOf(r)

AcquireKeyLock(r) ==
  /\ pc[r] = "lock" /\ lock[LockOf(r)] = {}
  /\ lock' = [lock EXCEPT ![LockOf(r)] = {r}]
  /\ Goto(r, IF Off(r) THEN "process" ELSE "buffer")
  /\ UNCHANGED <<given, sent, gone, stored, answer, faults, buffers>>

\* Variant: the error path returns without its deferred Unlock.
NewUploadReaderFailsLocked(r) ==
  /\ pc[r] = "buffer" /\ ~Fits(r) /\ Fault
  /\ Respond(r, "internalError") /\ Goto(r, "done")
  /\ UNCHANGED <<given, sent, gone, lock, stored, buffers>>

\* No temporary file can be created.
NewUploadReaderFails(r) ==
  /\ pc[r] = "buffer" /\ ~Fits(r) /\ Fault
  /\ Respond(r, "internalError") /\ Goto(r, "unlock")
  /\ UNCHANGED <<given, sent, gone, lock, stored, buffers>>

NewUploadReader(r) ==
  /\ pc[r] = "buffer"
  /\ NewFullBuffer(r)
  /\ Goto(r, "receive")
  /\ UNCHANGED <<given, sent, gone, lock, stored, answer, faults>>

Complete(r) == r \in sent

\* io.Copy into the buffer: as long as the client neither sends nor leaves,
\* the handler waits.
ReceiveBody(r) ==
  /\ pc[r] = "receive" /\ Complete(r)
  /\ Goto(r, "process")
  /\ UNCHANGED <<given, sent, gone, lock, stored, answer, faults, buffers>>

ReceiveFails(r) ==
  /\ pc[r] = "receive"
  /\ \/ r \in gone /\ UNCHANGED faults
     \/ Fault
  /\ Respond(r, "badRequest") /\ Goto(r, "close")
  /\ UNCHANGED <<given, sent, gone, lock, stored, buffers>>

\* The context Process gets ends with the connection of the client.
Attached(r) == UrlOf(r) \notin given.detached

Deferred(r) == IF Off(r) THEN "unlock" ELSE "close"

\* A buffered body is hashed; then the transfer to the storage begins.
BeginTransfer(r) ==
  /\ pc[r] = "process"
  /\ Goto(r, "transfer")
  /\ UNCHANGED <<given, sent, gone, lock, stored, answer, faults, buffers>>

\* The storage has the body.  An OFF upload reads it from the connection
\* meanwhile.
EndTransfer(r) ==
  /\ pc[r] = "transfer" /\ (Off(r) => Complete(r))
  /\ stored' = stored \cup {r}
  /\ Goto(r, "finish")
  /\ UNCHANGED <<given, sent, gone, lock, answer, faults, buffers>>

\* Nothing is verified any more, and the rotation is done.
ProcessSucceeds(r) ==
  /\ pc[r] = "finish"
  /\ Respond(r, "created") /\ Goto(r, Deferred(r))
  /\ UNCHANGED <<given, sent, gone, lock, stored, faults, buffers>>

\* The header disagrees with the body, before the transfer if the body is
\* buffered, or what the storage keeps disagrees after it.
ProcessMismatches(r) ==
  /\ (pc[r] = "process" /\ ~Off(r)) \/ pc[r] = "finish"
  /\ Respond(r, "conflict") /\ Goto(r, Deferred(r))
  /\ UNCHANGED <<given, sent, gone, lock, stored, faults, buffers>>

\* The transfer, or a retransmission after it, finds its context ended or the
\* connection it reads from closed.
TransferCancelled(r) ==
  /\ r \in gone
  /\ \/ pc[r] = "transfer" /\ (Attached(r) \/ Off(r))
     \/ pc[r] = "finish" /\ Attached(r) /\ ~Off(r)
  /\ Respond(r, "internalError") /\ Goto(r, Deferred(r))
  /\ UNCHANGED <<given, sent, gone, lock, stored, faults, buffers>>

\* The buffer cannot be read, or a call of the storage fails: what is stored
\* already stays there.
ProcessFails(r) ==
  /\ pc[r] \in {"process", "transfer", "finish"} /\ Fault
  /\ Respond(r, "internalError") /\ Goto(r, Deferred(r))
  /\ UNCHANGED <<given, sent, gone, lock, stored, buffers>>

\* Variants: the reservation is not returned; the lock is given back first.
CloseBufferUnreleased(r) ==
  /\ pc[r] = "close"
  /\ closed' = closed \cup {r}
  /\ Goto(r, "unlock")
  /\ UNCHANGED <<given, sent, gone, lock, stored, answer, faults, memoryInUse, kind>>
CloseBufferUnlocked(r) ==
  /\ pc[r] = "close"
  /\ \/ lock[LockOf(r)] = {r} /\ lock' = [lock EXCEPT ![LockOf(r)] = {}]
        /\ UNCHANGED <<pc, buffers>>
     \/ lock[LockOf(r)] # {r} /\ CloseAll({r}) /\ Goto(r, "done")
        /\ UNCHANGED lock
  /\ UNCHANGED <<given, sent, gone, stored, answer, faults>>

\* The deferred calls run in reverse order: the buffer first, then the lock.
CloseBuffer(r) ==
  /\ pc[r] = "close"
  /\ CloseAll({r})
  /\ Goto(r, "unlock")
  /\ UNCHANGED <<given, sent, gone, lock, stored, answer, faults>>

Unlock(r) ==
  /\ pc[r] = "unlock"
  /\ lock' = [lock EXCEPT ![LockOf(r)] = {}]
  /\ Goto(r, "done")
  /\ UNCHANGED <<given, sent, gone, stored, answer, faults, buffers>>

AllDone == (\A r \in Requests : pc[r] = "done") /\ UNCHANGED vars

Client(r) == SendBody(r) \/ Leave(r)

Handle(r) ==
  \/ Refuse(r) \/ Admit(r) \/ AcquireKeyLock(r)
  \/ NewUploadReader(r) \/ NewUploadReaderFails(r)
  \/ ReceiveBody(r) \/ ReceiveFails(r)
  \/ BeginTransfer(r) \/ EndTransfer(r) \/ TransferCancelled(r)
  \/ ProcessSucceeds(r) \/ ProcessMismatches(r) \/ ProcessFails(r)
  \/ CloseBuffer(r) \/ Unlock(r)

Next == (\E r \in Requests : Client(r) \/ Handle(r)) \/ AllDone

Spec == Init /\ [][Next]_vars

\* What a handler may wait for without an end: its client, which sends the body
\* or leaves, and the storage, whose calls have no timeouts either; an OFF
\* transfer waits for both.
WaitsForClient(r) == pc[r] = "receive" /\ r \notin sent \cup gone
WaitsForStorage(r) == pc[r] \in {"transfer", "finish"}
Waits(r) == WaitsForClient(r) \/ WaitsForStorage(r)

\* Every other step is taken at last: a request is authenticated, and a free
\* mutex is given to a waiter.
FairSpec == Spec /\ \A r \in Requests : WF_vars(~Waits(r) /\ Handle(r))

-----------------------------------------------------------------------------
(* Properties.                                                              *)

Open(r) == kind[r] # "none" /\ r \notin closed
SameKey(q, r) == UrlOf(q) = UrlOf(r)

\* Whatever path a handler took to its answer, it has closed its buffer and
\* given the lock of its key back.
NothingLeftBehind ==
  \A r \in Requests : pc[r] = "done" =>
    /\ ~Open(r)
    /\ \A u \in Urls : r \notin lock[u]

\* The lock is taken before the body is buffered and released after the buffer
\* is closed: however many clients send to a key, one body at a time takes
\* memory or disk for it.
OneBodyPerKey ==
  \A q, r \in Requests : q # r /\ SameKey(q, r) => ~(Open(q) /\ Open(r))

\* A body that broke off, because its client left or its disk was full, is
\* never stored, neither from a buffer nor streamed.
OnlyWholeBodiesStored == stored \subseteq sent

\* The memory budget is held by the requests in work and by nobody else: what
\* the handlers reserved comes back on each of their paths, so that it is all
\* there again when the last of them is answered.
BudgetReturned ==
  memoryInUse =
    Cardinality(Units({r \in Requests : kind[r] = "memory" /\ pc[r] \notin {"unlock", "done"}}))

\* A client that neither sends nor leaves, and a storage that does not answer,
\* keep only the uploads of their own spelling waiting: in the end every other
\* request is answered and unlocked, whatever the others do.
StalledClientsBlockOwnKey ==
  <>[]\A r \in Requests :
       \/ pc[r] = "done" \/ Waits(r)
       \/ pc[r] = "lock" /\ \E q \in Requests : SameKey(q, r) /\ Waits(q)
=============================================================================
