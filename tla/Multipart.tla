----------------------------- MODULE Multipart -----------------------------
(***************************************************************************)
(* The S3 multipart uploads of one key (internal/api/s3_multipart.go):     *)
(* concurrent CreateMultipartUpload, UploadPart, CompleteMultipartUpload   *)
(* and AbortMultipartUpload requests, the session map and its mutex, the   *)
(* mutex of each session, the key lock, and the buffers of the parts with  *)
(* the memory budget of module BufferManager.                              *)
(*                                                                         *)
(* The buffer of a part has the name of the request that uploaded it.      *)
(* Pipeline.Process over the assembled parts is one step here: it reads    *)
(* every part, and it fails when a file part has been closed.              *)
(***************************************************************************)
EXTENDS Integers, FiniteSets, SequencesExt

CONSTANTS
  Requests,    \* the requests clients may send
  Sent,        \* the sets of requests that are sent in one behaviour
  Op,          \* what each one asks: create, part, complete or abort
  IdOf,        \* the upload each one names
  PartOf,      \* the part number of each part request
  ListOf,      \* the part numbers in the body of each complete request, in
               \* its order; an empty list stands for all parts
  UploadIds, PartNumbers,
  SizeOf, Memory, MaxMemory, ForceFile,   \* see BufferManager
  MaxFaults,   \* bound on broken bodies, failing disks and failing uploads
  MaxRefused   \* bound on parts whose body does not match its signed hash

PartRequests == {r \in Requests : Op[r] = "part"}
NoBuffer == "no buffer"

ASSUME MultipartAssumption ==
  /\ IsFiniteSet(Requests)
  /\ Sent \subseteq SUBSET Requests
  /\ \A sent \in Sent : \A r, q \in sent :   \* the ids are random
       Op[r] = "create" /\ Op[q] = "create" /\ IdOf[r] = IdOf[q] => r = q
  /\ Op \in [Requests -> {"create", "part", "complete", "abort"}]
  /\ IdOf \in [Requests -> UploadIds]
  /\ PartNumbers \subseteq Nat \ {0}
  /\ PartOf \in [Requests -> PartNumbers]
  /\ ListOf \in [Requests -> Seq(PartNumbers)]
  /\ NoBuffer \notin Requests
  /\ MaxFaults \in Nat /\ MaxRefused \in Nat
  /\ SizeOf \in [PartRequests -> Int]
  /\ Memory \in Nat \ {0} /\ MaxMemory \in Nat \ {0} /\ ForceFile \in BOOLEAN

VARIABLES
  sessions,    \* S3Handler.sessions: the upload ids that are known
  parts,       \* multipartSession.parts of each upload
  keyLock,     \* the request that holds the lock of the key, if any
  pc,          \* where each request stands
  numbers,     \* partNumbers of each complete request
  collected,   \* partReaders of each complete request
  stored,      \* the objects stored: the complete request and its buffers
  answer,      \* what each client was told
  faults, refused,
  memoryInUse, kind, closed   \* see BufferManager

buffers == <<memoryInUse, kind, closed>>
vars == <<sessions, parts, keyLock, pc, numbers, collected, stored, answer,
          faults, refused, memoryInUse, kind, closed>>

Manager == INSTANCE BufferManager WITH Buffers <- PartRequests

TypeOK ==
  /\ sessions \subseteq UploadIds
  /\ parts \in [UploadIds -> [PartNumbers -> PartRequests \cup {NoBuffer}]]
  /\ keyLock \in SUBSET Requests /\ Cardinality(keyLock) <= 1
  /\ pc \in [Requests -> {"unsent", "start", "buffer", "receive", "put", "respond", "number",
                          "lock", "collect", "process", "delete", "close", "return", "done"}]
  /\ numbers \in [Requests -> Seq(PartNumbers)]
  /\ collected \in [Requests -> Seq(PartRequests)]
  /\ stored \subseteq [by : Requests, parts : Seq(PartRequests)]
  /\ answer \in [Requests -> {"none", "ok", "noSuchUpload", "invalidPart",
                              "invalidRequest", "error"}]
  /\ faults \in 0..MaxFaults
  /\ refused \in 0..MaxRefused
  /\ Manager!BudgetTypeOK

Init ==
  /\ sessions = {}
  /\ parts = [id \in UploadIds |-> [n \in PartNumbers |-> NoBuffer]]
  /\ keyLock = {}
  /\ \E sent \in Sent :
       pc = [r \in Requests |-> IF r \in sent THEN "start" ELSE "unsent"]
  /\ numbers = [r \in Requests |-> <<>>]
  /\ collected = [r \in Requests |-> <<>>]
  /\ stored = {}
  /\ answer = [r \in Requests |-> "none"]
  /\ faults = 0
  /\ refused = 0
  /\ Manager!BudgetInit

Goto(r, label) == pc' = [pc EXCEPT ![r] = label] /\ UNCHANGED answer
Answer(r, what) ==
  /\ pc' = [pc EXCEPT ![r] = "done"]
  /\ answer' = [answer EXCEPT ![r] = what]
Fault == faults < MaxFaults /\ faults' = faults + 1

Session(r) == parts[IdOf[r]]
Present(r) == {n \in PartNumbers : Session(r)[n] # NoBuffer}
BuffersOf(r) == {Session(r)[n] : n \in Present(r)}

-----------------------------------------------------------------------------
\* createMultipartUpload registers an empty session.
CreateMultipartUpload(r) ==
  /\ Op[r] = "create" /\ pc[r] = "start"
  /\ \/ Fault /\ Answer(r, "invalidRequest") /\ UNCHANGED sessions
     \/ /\ sessions' = sessions \cup {IdOf[r]}
        /\ Answer(r, "ok")
        /\ UNCHANGED faults
  /\ UNCHANGED <<parts, keyLock, numbers, collected, stored, refused, buffers>>

\* getMultipartSession, the first thing the other handlers do: the session
\* that is found is used to the end, whatever happens to the map.
GetMultipartSession(r) ==
  /\ Op[r] # "create" /\ pc[r] = "start"
  /\ IF IdOf[r] \in sessions
     THEN Goto(r, CASE Op[r] = "part" -> "buffer"
                    [] Op[r] = "complete" -> "number"
                    [] Op[r] = "abort" -> "delete")
     ELSE Answer(r, IF Op[r] = "abort" THEN "ok" ELSE "noSuchUpload")
  /\ UNCHANGED <<sessions, parts, keyLock, numbers, collected, stored, faults,
                 refused, buffers>>

-----------------------------------------------------------------------------
(* uploadPart                                                               *)

\* Variant: the part is registered before its body has arrived.
NewUploadReaderRegistered(r) ==
  /\ pc[r] = "buffer"
  /\ Manager!NewFullBuffer(r)
  /\ parts' = [parts EXCEPT ![IdOf[r]][PartOf[r]] = r]
  /\ Goto(r, "receive")
  /\ UNCHANGED <<sessions, keyLock, numbers, collected, stored, faults, refused>>

NewUploadReader(r) ==
  /\ pc[r] = "buffer"
  /\ \/ Manager!NewFullBuffer(r) /\ Goto(r, "receive") /\ UNCHANGED faults
     \/ ~Manager!Fits(r) /\ Fault /\ Answer(r, "error") /\ UNCHANGED buffers
  /\ UNCHANGED <<sessions, parts, keyLock, numbers, collected, stored, refused>>

\* The body is copied into the buffer.  A broken body closes the buffer; a body
\* that does not match its signed hash is refused and its buffer stays open.
ReceivePart(r) ==
  /\ pc[r] = "receive"
  /\ \/ Goto(r, "put") /\ UNCHANGED <<faults, refused, buffers>>
     \/ /\ Fault /\ Manager!CloseAll({r})
        /\ Answer(r, "invalidRequest") /\ UNCHANGED refused
     \/ /\ refused < MaxRefused /\ refused' = refused + 1
        /\ Answer(r, "invalidRequest") /\ UNCHANGED <<faults, buffers>>
  /\ UNCHANGED <<sessions, parts, keyLock, numbers, collected, stored>>

\* Variant: the part that had the number before stays open.
PutPartUnclosed(r) ==
  /\ pc[r] = "put"
  /\ parts' = [parts EXCEPT ![IdOf[r]][PartOf[r]] = r]
  /\ Goto(r, "respond")
  /\ UNCHANGED <<sessions, keyLock, numbers, collected, stored, faults, refused, buffers>>

\* Under session.mu: the part that had the number before is closed.  From the
\* Unlock on a completion may collect and store the part.
PutPart(r) ==
  /\ pc[r] = "put"
  /\ Manager!CloseAll({Session(r)[PartOf[r]]} \ {NoBuffer})
  /\ parts' = [parts EXCEPT ![IdOf[r]][PartOf[r]] = r]
  /\ Goto(r, "respond")
  /\ UNCHANGED <<sessions, keyLock, numbers, collected, stored, faults, refused>>

\* The 200 with the ETag is written after the Unlock.
RespondToPart(r) ==
  /\ pc[r] = "respond"
  /\ Answer(r, "ok")
  /\ UNCHANGED <<sessions, parts, keyLock, numbers, collected, stored, faults,
                 refused, buffers>>

-----------------------------------------------------------------------------
(* completeMultipartUpload                                                  *)

\* Variant: the order of the client.
AsListed(s) == s

\* sort.Ints: every place of the list is taken once, the smaller number first.
Ascending(s) ==
  LET order == CHOOSE p \in Surjection(DOMAIN s, DOMAIN s) :
                 \A i, j \in DOMAIN s : i < j => s[p[i]] <= s[p[j]]
  IN  [i \in DOMAIN s |-> s[order[i]]]

\* requestedPartNumbers: the listed numbers, or those that are present.
RequestedPartNumbers(r) ==
  /\ pc[r] = "number"
  /\ \/ /\ numbers' = [numbers EXCEPT ![r] =
              Ascending(IF ListOf[r] # <<>> THEN ListOf[r] ELSE SetToSeq(Present(r)))]
        /\ Goto(r, "lock")
        /\ UNCHANGED faults
     \/ Fault /\ Answer(r, "invalidRequest") /\ UNCHANGED numbers
  /\ UNCHANGED <<sessions, parts, keyLock, collected, stored, refused, buffers>>

\* Variant: the lock of the key is not waited for.
AcquireNothing(r) ==
  /\ pc[r] = "lock"
  /\ keyLock' = {r}
  /\ Goto(r, "collect")
  /\ UNCHANGED <<sessions, parts, numbers, collected, stored, faults, refused, buffers>>

AcquireKeyLock(r) ==
  /\ pc[r] = "lock" /\ keyLock = {}
  /\ keyLock' = {r}
  /\ Goto(r, "collect")
  /\ UNCHANGED <<sessions, parts, numbers, collected, stored, faults, refused, buffers>>

\* Variant: the lock is not released.
CompleteFailsLocked(r, what) == Answer(r, what) /\ UNCHANGED keyLock

\* The handler answers with an error and its deferred Unlock runs.
CompleteFails(r, what) == Answer(r, what) /\ keyLock' = {}

MissesPart(r) == \E i \in DOMAIN numbers[r] : numbers[r][i] \notin Present(r)

\* Under session.mu: the buffers of the requested parts, in ascending order.
CollectParts(r) ==
  /\ pc[r] = "collect"
  /\ IF MissesPart(r)
     THEN CompleteFails(r, "invalidPart") /\ UNCHANGED collected
     ELSE /\ collected' = [collected EXCEPT ![r] =
               [i \in DOMAIN numbers[r] |-> Session(r)[numbers[r][i]]]]
          /\ Goto(r, "process")
          /\ UNCHANGED keyLock
  /\ UNCHANGED <<sessions, parts, numbers, stored, faults, refused, buffers>>

Readable(b) == kind[b] = "memory" \/ b \notin closed
Parts(r) == ToSet(collected[r])

\* Pipeline.Process over the AssembledReader.  On failure the deferred Close
\* and Unlock run and the session stays in the map with closed parts.
Process(r) ==
  /\ pc[r] = "process"
  /\ \/ /\ \A b \in Parts(r) : Readable(b)
        /\ stored' = stored \cup {[by |-> r, parts |-> collected[r]]}
        /\ Goto(r, "delete")
        /\ UNCHANGED <<keyLock, faults, buffers>>
     \/ /\ IF \A b \in Parts(r) : Readable(b) THEN Fault ELSE UNCHANGED faults
        /\ Manager!CloseAll(Parts(r))
        /\ CompleteFails(r, "error")
        /\ UNCHANGED stored
  /\ UNCHANGED <<sessions, parts, numbers, collected, refused>>

-----------------------------------------------------------------------------
(* The end of complete and of abort                                         *)

\* Variant: the session stays in the map.
DeleteNothing(r) ==
  /\ pc[r] = "delete"
  /\ Goto(r, "close")
  /\ UNCHANGED <<sessions, parts, keyLock, numbers, collected, stored, faults,
                 refused, buffers>>

DeleteMultipartSession(r) ==
  /\ pc[r] = "delete"
  /\ sessions' = sessions \ {IdOf[r]}
  /\ Goto(r, "close")
  /\ UNCHANGED <<parts, keyLock, numbers, collected, stored, faults, refused, buffers>>

\* Under session.mu; the buffers stay in the parts of the session.
CloseMultipartParts(r) ==
  /\ pc[r] = "close"
  /\ Manager!CloseAll(BuffersOf(r))
  /\ IF Op[r] = "complete" THEN Goto(r, "return") ELSE Answer(r, "ok")
  /\ UNCHANGED <<sessions, parts, keyLock, numbers, collected, stored, faults, refused>>

\* The deferred calls of a complete request that succeeded.
ReturnFromComplete(r) ==
  /\ pc[r] = "return"
  /\ Manager!CloseAll(Parts(r))
  /\ keyLock' = {}
  /\ Answer(r, "ok")
  /\ UNCHANGED <<sessions, parts, numbers, collected, stored, faults, refused>>

AllAnswered ==
  (\A r \in Requests : pc[r] \in {"unsent", "done"}) /\ UNCHANGED vars

Step(r) ==
  \/ CreateMultipartUpload(r) \/ GetMultipartSession(r)
  \/ NewUploadReader(r) \/ ReceivePart(r) \/ PutPart(r) \/ RespondToPart(r)
  \/ RequestedPartNumbers(r) \/ AcquireKeyLock(r) \/ CollectParts(r) \/ Process(r)
  \/ DeleteMultipartSession(r) \/ CloseMultipartParts(r) \/ ReturnFromComplete(r)

Next == (\E r \in Requests : Step(r)) \/ AllAnswered

Spec == Init /\ [][Next]_vars

\* What a request may wait for without an end: its client, which sends the body
\* of a part or the list of a completion (the servers have no timeouts), and
\* the storage, whose calls have none either.
WaitsForClient(r) == pc[r] \in {"receive", "number"}
WaitsForStorage(r) == pc[r] = "process"

\* Every other step is taken at last, and the lock is handed on.
FairSpec ==
  /\ Spec
  /\ \A r \in Requests : WF_vars(~WaitsForClient(r) /\ ~WaitsForStorage(r) /\ Step(r))

-----------------------------------------------------------------------------
(* Properties.                                                              *)

\* A stored object is made of the requested part numbers of this upload, in
\* ascending order whatever order the client listed them in, even if the same
\* parts are uploaded again meanwhile.
ObjectIsRequested ==
  \A o \in stored :
    LET ns == [i \in DOMAIN o.parts |-> PartOf[o.parts[i]]]
    IN  /\ \A i \in DOMAIN o.parts : IdOf[o.parts[i]] = IdOf[o.by]
        /\ \A i, j \in DOMAIN ns : i < j => ns[i] <= ns[j]
        /\ ListOf[o.by] # <<>> =>
             /\ Len(ns) = Len(ListOf[o.by])
             /\ ToSet(ns) = ToSet(ListOf[o.by])

\* A part whose body broke off or did not match its hash is in no stored object:
\* the part was acknowledged, or it is registered and its 200 is under way.  A
\* completion may well store a part before its client hears of it.
OnlyReceivedStored ==
  \A o \in stored : \A b \in ToSet(o.parts) : answer[b] = "ok" \/ pc[b] = "respond"

\* Two requests may complete one upload at the same time, and both may succeed,
\* because the second one found the session before the first removed it.  The
\* key lock is held until the parts are closed, so a part that was kept in a
\* file is in one stored object only.
FilePartStoredOnce ==
  \A o, q \in stored : o.by # q.by =>
    \A b \in ToSet(o.parts) \cap ToSet(q.parts) : kind[b] = "memory"

\* A buffer that is open belongs to a running request or is a part of its
\* session (of a removed one, if the part came late); only the buffer of a
\* part that was refused for its hash is left behind by uploadPart.
OpenBuffersOwned ==
  \A b \in PartRequests : kind[b] # "none" /\ b \notin closed =>
    \/ pc[b] \in {"receive", "put"}
    \/ parts[IdOf[b]][PartOf[b]] = b
    \/ answer[b] = "invalidRequest" /\ refused > 0

\* After a complete request was answered with success, a request of the same
\* upload that comes later is told that there is no such upload.
CompletedIsGone ==
  [][\A q, r \in Requests :
       /\ Op[q] = "complete" /\ answer[q] = "ok" /\ IdOf[q] = IdOf[r]
       /\ Op[r] \in {"part", "complete"} /\ pc[r] = "start" /\ pc'[r] # "start"
       => answer'[r] = "noSuchUpload"]_vars

\* In the end nobody waits in vain: a request that is not answered waits for its
\* own client, for the storage, or for the key lock while its holder waits for
\* the storage.  In particular a stalled client keeps nobody else waiting, and
\* no path through completeMultipartUpload leaves the lock behind.
NobodyWaitsInVain ==
  <>[]\A r \in Requests :
       \/ pc[r] \in {"unsent", "done"}
       \/ WaitsForClient(r) \/ WaitsForStorage(r)
       \/ pc[r] = "lock" /\ \E q \in keyLock : WaitsForStorage(q)
=============================================================================
