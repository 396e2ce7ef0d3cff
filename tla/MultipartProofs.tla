--------------------------- MODULE MultipartProofs ---------------------------
(***************************************************************************)
(* Proofs about Multipart for every set of requests, parts and sizes and   *)
(* every number of faults: who owns a buffer, what a stored object is made *)
(* of, what the key lock protects, and that a completed upload is gone.    *)
(* The requests together keep the memory budget, and an object has its     *)
(* parts in the order of their numbers, which needs the lemmas on sorting. *)
(***************************************************************************)
EXTENDS Multipart, FiniteSetTheorems, WellFoundedInduction, TLAPS

Places == {"unsent", "start", "buffer", "receive", "put", "respond", "number", "lock",
           "collect", "process", "delete", "close", "return", "done"}
Completing == {"collect", "process", "delete", "close", "return"}

Typed ==
  /\ sessions \subseteq UploadIds
  /\ parts \in [UploadIds -> [PartNumbers -> PartRequests \cup {NoBuffer}]]
  /\ pc \in [Requests -> Places]
  /\ DOMAIN collected = Requests
  /\ DOMAIN answer = Requests
  /\ refused \in Nat
  /\ kind \in [PartRequests -> {"none", "memory", "file"}]
  /\ closed \subseteq PartRequests

\* Every request is where its operation takes it, and has no answer before the end.
Placed ==
  \A r \in Requests :
    /\ pc[r] \in {"buffer", "receive", "put", "respond"} => Op[r] = "part"
    /\ pc[r] \in {"number", "lock", "collect", "process", "return"} => Op[r] = "complete"
    /\ pc[r] \in {"delete", "close"} => Op[r] \in {"complete", "abort"}
    /\ answer[r] # "none" => pc[r] = "done"

\* A buffer that was registered: it is there, and its request was answered with
\* a 200 or is about to be.
Received(b) ==
  b \in PartRequests /\ (answer[b] = "ok" \/ pc[b] = "respond") /\ kind[b] # "none"

\* The parts of a session are uploads of these parts that arrived whole, and so
\* is what a completion has collected.
PartsKept ==
  /\ \A id \in UploadIds : \A n \in PartNumbers :
       parts[id][n] # NoBuffer =>
         Received(parts[id][n]) /\ IdOf[parts[id][n]] = id /\ PartOf[parts[id][n]] = n
  /\ \A r \in Requests : \A b \in Parts(r) : Received(b)

\* A request has a buffer from NewUploadReader on.
BufferMade ==
  \A r \in PartRequests :
    /\ kind[r] # "none" => pc[r] \in {"receive", "put", "respond", "done"}
    /\ pc[r] \in {"receive", "put", "respond"} => kind[r] # "none"

\* Between its Lock and its Unlock a completion is the only one.
LockHeld ==
  \A r \in Requests : Op[r] = "complete" /\ pc[r] \in Completing => keyLock = {r}

\* The parts of a stored object arrived whole; they are closed before the
\* lock is given back.
StoredWhole ==
  \A o \in stored :
    /\ o.by \in Requests /\ Op[o.by] = "complete"
    /\ \A b \in ToSet(o.parts) : Received(b)
    /\ \/ pc[o.by] \in {"delete", "close", "return"} /\ ToSet(o.parts) = Parts(o.by)
       \/ pc[o.by] = "done" /\ ToSet(o.parts) \subseteq closed

\* A creation that has not begun is the only one of its upload, of which no one
\* has heard yet.
CreatedOnce ==
  \A c \in Requests : Op[c] = "create" /\ pc[c] # "unsent" =>
    /\ \A d \in Requests : Op[d] = "create" /\ pc[d] # "unsent" /\ IdOf[d] = IdOf[c] => d = c
    /\ pc[c] = "start" =>
         /\ IdOf[c] \notin sessions
         /\ \A r \in Requests : Op[r] = "complete" /\ IdOf[r] = IdOf[c] =>
              pc[r] \notin {"number", "lock"} \cup Completing /\ answer[r] # "ok"

\* A completed upload has no session.
Gone ==
  \A r \in Requests : Op[r] = "complete" /\ (pc[r] \in {"close", "return"} \/ answer[r] = "ok") =>
    IdOf[r] \notin sessions

IInv == /\ Typed /\ Placed /\ PartsKept /\ BufferMade /\ OpenBuffersOwned /\ LockHeld
        /\ StoredWhole /\ FilePartStoredOnce /\ CreatedOnce /\ Gone

-----------------------------------------------------------------------------
\* A request names an upload, and a part request a part.
LEMMA NamesOfRequest ==
  ASSUME NEW r \in Requests
  PROVE  IdOf[r] \in UploadIds /\ PartOf[r] \in PartNumbers /\ NoBuffer \notin PartRequests
<1> QED BY MultipartAssumption DEF PartRequests

\* Closing changes what is closed and the counter, and nothing else.
LEMMA CloseEffect ==
  ASSUME NEW bs, Manager!CloseAll(bs)
  PROVE  closed' = closed \cup bs /\ kind' = kind
<1> QED BY DEF Manager!CloseAll

\* A new buffer is in memory or in a file.
LEMMA NewBufferEffect ==
  ASSUME Typed, NEW r \in PartRequests, Manager!NewFullBuffer(r)
  PROVE  /\ kind[r] = "none" /\ closed' = closed
         /\ \E k \in {"memory", "file"} : kind' = [kind EXCEPT ![r] = k]
<1> QED BY DEF Manager!NewFullBuffer

\* A part of a session is one of its requests.
LEMMA PartsOfSession ==
  ASSUME Typed, NEW r \in Requests
  PROVE  /\ Session(r) \in [PartNumbers -> PartRequests \cup {NoBuffer}]
         /\ BuffersOf(r) \subseteq PartRequests
<1> QED BY NamesOfRequest DEF Typed, Session, BuffersOf, Present

\* A completion that holds the lock is the only one.
LEMMA OneCompletes ==
  ASSUME LockHeld, NEW r \in Requests, Op[r] = "complete", pc[r] \in Completing,
         NEW q \in Requests, Op[q] = "complete", pc[q] \in Completing
  PROVE  q = r
<1> QED BY DEF LockHeld

\* Before the first request nothing is stored, kept or answered.
LEMMA InitInv == Init => IInv
<1> SUFFICES ASSUME Init PROVE IInv
  OBVIOUS
<1> PICK sent \in Sent : pc = [r \in Requests |-> IF r \in sent THEN "start" ELSE "unsent"]
  BY DEF Init
<1>1. Typed /\ Placed
  BY MultipartAssumption DEF Init, Manager!BudgetInit, Typed, Placed, Places
<1>2. \A r \in Requests : Parts(r) = {}
  BY DEF Init, Parts, ToSet
<1>3. PartsKept /\ BufferMade /\ OpenBuffersOwned /\ LockHeld
  BY <1>2 DEF Init, Manager!BudgetInit, PartsKept, BufferMade, OpenBuffersOwned, LockHeld,
     Completing, PartRequests
<1>4. StoredWhole /\ FilePartStoredOnce /\ Gone
  BY DEF Init, StoredWhole, FilePartStoredOnce, Gone
<1>5. CreatedOnce
  BY MultipartAssumption DEF Init, CreatedOnce, Completing
<1> QED BY <1>1, <1>3, <1>4, <1>5 DEF IInv

\* A session begins with a creation that was pending.
LEMMA CreateInv ==
  ASSUME IInv, NEW r \in Requests, CreateMultipartUpload(r)
  PROVE  IInv'
<1>1. Typed'
  BY NamesOfRequest DEF CreateMultipartUpload, Answer, buffers, IInv, Typed, Places,
     PartRequests
<1>2. Placed'
  BY NamesOfRequest DEF CreateMultipartUpload, Answer, buffers, IInv, Typed, Placed
<1>3. PartsKept'
  BY NamesOfRequest DEF CreateMultipartUpload, Answer, buffers, IInv, Typed, Placed, PartsKept,
     Received, Parts, PartRequests
<1>4. BufferMade'
  BY NamesOfRequest DEF CreateMultipartUpload, Answer, buffers, IInv, Typed, Placed, BufferMade,
     PartRequests
<1>5. OpenBuffersOwned'
  BY NamesOfRequest DEF CreateMultipartUpload, Answer, buffers, Fault, IInv, Typed, Placed,
     OpenBuffersOwned, PartRequests
<1>6. LockHeld'
  BY NamesOfRequest DEF CreateMultipartUpload, Answer, buffers, IInv, Typed, Placed, LockHeld,
     Completing
<1>7. StoredWhole'
  BY NamesOfRequest DEF CreateMultipartUpload, Answer, buffers, IInv, Typed, Placed,
     StoredWhole, Received, Parts, PartRequests
<1>8. FilePartStoredOnce'
  BY NamesOfRequest DEF CreateMultipartUpload, Answer, buffers, IInv, Typed, StoredWhole,
     Received, FilePartStoredOnce
<1>9. CreatedOnce'
  BY NamesOfRequest DEF CreateMultipartUpload, Answer, buffers, IInv, Typed, Placed,
     CreatedOnce, Completing, Places
<1>10. Gone'
  BY NamesOfRequest DEF CreateMultipartUpload, Answer, buffers, IInv, Typed, Placed,
     CreatedOnce, Gone, Completing, Places
<1> QED BY <1>1, <1>2, <1>3, <1>4, <1>5, <1>6, <1>7, <1>8, <1>9, <1>10 DEF IInv

\* Who finds the session knows that it was created.
LEMMA GetSessionInv ==
  ASSUME IInv, NEW r \in Requests, GetMultipartSession(r)
  PROVE  IInv'
<1>1. Typed'
  <2>1. Op[r] \in {"part", "complete", "abort"}
    BY MultipartAssumption DEF GetMultipartSession
  <2>2. \E p \in Places : pc' = [pc EXCEPT ![r] = p]
    BY <2>1 DEF GetMultipartSession, Goto, Answer, Places
  <2>3. pc' \in [Requests -> Places] /\ DOMAIN answer' = Requests
    BY <2>2 DEF GetMultipartSession, Goto, Answer, IInv, Typed
  <2> QED BY <2>3 DEF GetMultipartSession, buffers, IInv, Typed
<1>2. Placed'
  BY MultipartAssumption DEF GetMultipartSession, Goto, Answer, IInv, Typed, Placed
<1>3. PartsKept'
  BY DEF GetMultipartSession, Goto, Answer, buffers, IInv, Typed, Placed, PartsKept,
     Received, Parts, PartRequests
<1>4. BufferMade'
  BY DEF GetMultipartSession, Goto, Answer, buffers, IInv, Typed, Placed, BufferMade,
     PartRequests
<1>5. OpenBuffersOwned'
  BY DEF GetMultipartSession, Goto, Answer, buffers, IInv, Typed, Placed, OpenBuffersOwned,
     PartRequests
<1>6. LockHeld'
  BY DEF GetMultipartSession, Goto, Answer, buffers, IInv, Typed, Placed, LockHeld, Completing
<1>7. StoredWhole'
  BY DEF GetMultipartSession, Goto, Answer, buffers, IInv, Typed, Placed, StoredWhole,
     Received, Parts, PartRequests
<1>8. FilePartStoredOnce'
  BY DEF GetMultipartSession, Goto, Answer, buffers, IInv, Typed, StoredWhole, Received,
     FilePartStoredOnce
<1>9. CreatedOnce'
  BY DEF GetMultipartSession, Goto, Answer, buffers, IInv, Typed, Placed, CreatedOnce,
     Completing, Places
<1>10. Gone'
  BY DEF GetMultipartSession, Goto, Answer, buffers, IInv, Typed, Placed, CreatedOnce, Gone,
     Completing, Places
<1> QED BY <1>1, <1>2, <1>3, <1>4, <1>5, <1>6, <1>7, <1>8, <1>9, <1>10 DEF IInv

\* A part request gets its buffer.
LEMMA NewReaderInv ==
  ASSUME IInv, NEW r \in Requests, NewUploadReader(r)
  PROVE  IInv'
<1>a. r \in PartRequests /\ pc[r] = "buffer"
  BY DEF NewUploadReader, IInv, Placed, PartRequests
<1>b. /\ UNCHANGED <<sessions, parts, keyLock, collected, stored, refused, closed>>
      /\ \/ /\ kind[r] = "none" /\ pc' = [pc EXCEPT ![r] = "receive"] /\ UNCHANGED answer
            /\ \E k \in {"memory", "file"} : kind' = [kind EXCEPT ![r] = k]
         \/ /\ pc' = [pc EXCEPT ![r] = "done"] /\ answer' = [answer EXCEPT ![r] = "error"]
            /\ UNCHANGED kind
  BY <1>a, NewBufferEffect DEF NewUploadReader, Goto, Answer, buffers, IInv
<1>1. Typed'
  BY <1>a, <1>b DEF IInv, Typed, Places, PartRequests
<1>2. Placed'
  BY <1>a, <1>b DEF IInv, Typed, Placed
<1>3. PartsKept'
  BY <1>a, <1>b DEF IInv, Typed, Placed, PartsKept, Received, Parts, PartRequests
<1>4. BufferMade'
  BY <1>a, <1>b DEF IInv, Typed, Placed, BufferMade, PartRequests
<1>5. OpenBuffersOwned'
  BY <1>a, <1>b DEF IInv, Typed, Placed, OpenBuffersOwned, PartRequests
<1>6. LockHeld'
  BY <1>a, <1>b DEF IInv, Typed, Placed, LockHeld, Completing
<1>7. StoredWhole'
  BY <1>a, <1>b DEF IInv, Typed, Placed, StoredWhole, Received, Parts, PartRequests
<1>8. FilePartStoredOnce'
  BY <1>a, <1>b DEF IInv, Typed, StoredWhole, Received, FilePartStoredOnce
<1>9. CreatedOnce'
  BY <1>a, <1>b DEF IInv, Typed, Placed, CreatedOnce, Completing, Places
<1>10. Gone'
  BY <1>a, <1>b DEF IInv, Typed, Placed, CreatedOnce, Gone, Completing, Places
<1> QED BY <1>1, <1>2, <1>3, <1>4, <1>5, <1>6, <1>7, <1>8, <1>9, <1>10 DEF IInv

\* A body arrives, breaks off or is refused.
LEMMA ReceiveInv ==
  ASSUME IInv, NEW r \in Requests, ReceivePart(r)
  PROVE  IInv'
<1>1. Typed'
  <2>1. r \in PartRequests
    BY DEF ReceivePart, IInv, Placed, PartRequests
  <2> QED BY <2>1, CloseEffect DEF ReceivePart, Goto, Answer, Fault, buffers, IInv, Typed, Places
<1>2. Placed'
  BY CloseEffect DEF ReceivePart, Goto, Answer, buffers, IInv, Typed, Placed
<1>3. PartsKept'
  BY CloseEffect DEF ReceivePart, Goto, Answer, buffers, IInv, Typed, Placed, PartsKept,
     Received, Parts, PartRequests
<1>4. BufferMade'
  BY CloseEffect DEF ReceivePart, Goto, Answer, buffers, IInv, Typed, Placed, BufferMade,
     PartRequests
<1>5. OpenBuffersOwned'
  BY CloseEffect DEF ReceivePart, Goto, Answer, buffers, Fault, IInv, Typed, Placed,
     OpenBuffersOwned, PartRequests
<1>6. LockHeld'
  BY CloseEffect DEF ReceivePart, Goto, Answer, buffers, IInv, Typed, Placed, LockHeld,
     Completing
<1>7. StoredWhole'
  BY CloseEffect DEF ReceivePart, Goto, Answer, buffers, IInv, Typed, Placed, StoredWhole,
     Received, Parts, PartRequests
<1>8. FilePartStoredOnce'
  BY CloseEffect DEF ReceivePart, Goto, Answer, buffers, IInv, Typed, StoredWhole, Received,
     FilePartStoredOnce
<1>9. CreatedOnce'
  BY CloseEffect DEF ReceivePart, Goto, Answer, buffers, IInv, Typed, Placed, CreatedOnce,
     Completing, Places
<1>10. Gone'
  BY CloseEffect DEF ReceivePart, Goto, Answer, buffers, IInv, Typed, Placed, CreatedOnce, Gone,
     Completing, Places
<1> QED BY <1>1, <1>2, <1>3, <1>4, <1>5, <1>6, <1>7, <1>8, <1>9, <1>10 DEF IInv

\* From the step on that makes it part of the session a part is received.
LEMMA PutInv ==
  ASSUME IInv, NEW r \in Requests, PutPart(r)
  PROVE  IInv'
<1>a. r \in PartRequests /\ kind[r] # "none"
  BY DEF PutPart, IInv, Placed, BufferMade, PartRequests
<1>b. /\ parts' = [parts EXCEPT ![IdOf[r]][PartOf[r]] = r]
      /\ Session(r)[PartOf[r]] \in PartRequests \cup {NoBuffer}
  BY NamesOfRequest, PartsOfSession DEF PutPart, IInv
<1>1. Typed'
  <2>1. parts' \in [UploadIds -> [PartNumbers -> PartRequests \cup {NoBuffer}]]
    BY <1>a, <1>b, NamesOfRequest DEF IInv, Typed
  <2> QED BY <1>b, <2>1, CloseEffect DEF PutPart, Goto, IInv, Typed, Places
<1>2. Placed'
  BY CloseEffect, PartsOfSession, NamesOfRequest DEF PutPart, Goto, Session, IInv, Typed,
     Placed
<1>3. PartsKept'
  <2>1. /\ answer' = answer /\ pc' = [pc EXCEPT ![r] = "respond"]
          /\ kind' = kind /\ collected' = collected
    BY CloseEffect DEF PutPart, Goto
  <2>2. ASSUME NEW b, Received(b) \/ b = r
        PROVE  Received(b)'
    BY <1>a, <2>1, <2>2 DEF Received, IInv, Typed, PartRequests
  <2>3. ASSUME NEW id \in UploadIds, NEW n \in PartNumbers
        PROVE  \/ parts'[id][n] = parts[id][n]
               \/ parts'[id][n] = r /\ id = IdOf[r] /\ n = PartOf[r]
    BY <1>b, NamesOfRequest DEF IInv, Typed
  <2> QED BY <2>1, <2>2, <2>3 DEF IInv, PartsKept, Parts
<1>4. BufferMade'
  BY CloseEffect, PartsOfSession, NamesOfRequest DEF PutPart, Goto, Session, IInv, Typed,
     Placed, BufferMade, PartRequests
<1>5. OpenBuffersOwned'
  BY CloseEffect, PartsOfSession, NamesOfRequest DEF PutPart, Goto, Session, IInv, Typed,
     Placed, OpenBuffersOwned, PartRequests
<1>6. LockHeld'
  BY CloseEffect, PartsOfSession, NamesOfRequest DEF PutPart, Goto, Session, IInv, Typed,
     Placed, LockHeld, Completing
<1>7. StoredWhole'
  BY CloseEffect, PartsOfSession, NamesOfRequest DEF PutPart, Goto, Session, IInv, Typed,
     Placed, StoredWhole, Received, Parts, PartRequests
<1>8. FilePartStoredOnce'
  BY CloseEffect, PartsOfSession, NamesOfRequest DEF PutPart, Goto, Session, IInv, Typed,
     StoredWhole, Received, FilePartStoredOnce
<1>9. CreatedOnce'
  BY CloseEffect, PartsOfSession, NamesOfRequest DEF PutPart, Goto, Session, IInv, Typed,
     Placed, CreatedOnce, Completing, Places
<1>10. Gone'
  BY CloseEffect, PartsOfSession, NamesOfRequest DEF PutPart, Goto, Session, IInv, Typed,
     Placed, CreatedOnce, Gone, Completing, Places
<1> QED BY <1>1, <1>2, <1>3, <1>4, <1>5, <1>6, <1>7, <1>8, <1>9, <1>10 DEF IInv

\* The answer to a part that is registered.
LEMMA RespondInv ==
  ASSUME IInv, NEW r \in Requests, RespondToPart(r)
  PROVE  IInv'
<1>1. Typed'
  BY DEF RespondToPart, Answer, buffers, IInv, Typed, Places
<1>2. Placed'
  BY DEF RespondToPart, Answer, buffers, IInv, Typed, Placed
<1>3. PartsKept'
  BY DEF RespondToPart, Answer, buffers, IInv, Typed, Placed, PartsKept, Received, Parts,
     PartRequests
<1>4. BufferMade'
  BY DEF RespondToPart, Answer, buffers, IInv, Typed, Placed, BufferMade, PartRequests
<1>5. OpenBuffersOwned'
  BY DEF RespondToPart, Answer, buffers, IInv, Typed, Placed, OpenBuffersOwned, PartRequests
<1>6. LockHeld'
  BY DEF RespondToPart, Answer, buffers, IInv, Typed, Placed, LockHeld, Completing
<1>7. StoredWhole'
  BY DEF RespondToPart, Answer, buffers, IInv, Typed, Placed, StoredWhole, Received, Parts,
     PartRequests
<1>8. FilePartStoredOnce'
  BY DEF RespondToPart, Answer, buffers, IInv, Typed, StoredWhole, Received, FilePartStoredOnce
<1>9. CreatedOnce'
  BY DEF RespondToPart, Answer, buffers, IInv, Typed, Placed, CreatedOnce, Completing, Places
<1>10. Gone'
  BY DEF RespondToPart, Answer, buffers, IInv, Typed, Placed, CreatedOnce, Gone, Completing,
     Places
<1> QED BY <1>1, <1>2, <1>3, <1>4, <1>5, <1>6, <1>7, <1>8, <1>9, <1>10 DEF IInv

\* Numbers are only numbers.
LEMMA NumbersInv ==
  ASSUME IInv, NEW r \in Requests, RequestedPartNumbers(r)
  PROVE  IInv'
<1>1. Typed'
  BY DEF RequestedPartNumbers, Goto, Answer, buffers, IInv, Typed, Places, PartRequests
<1>2. Placed'
  BY DEF RequestedPartNumbers, Goto, Answer, buffers, IInv, Typed, Placed
<1>3. PartsKept'
  BY DEF RequestedPartNumbers, Goto, Answer, buffers, IInv, Typed, Placed, PartsKept,
     Received, Parts, PartRequests
<1>4. BufferMade'
  BY DEF RequestedPartNumbers, Goto, Answer, buffers, IInv, Typed, Placed, BufferMade,
     PartRequests
<1>5. OpenBuffersOwned'
  BY DEF RequestedPartNumbers, Goto, Answer, buffers, Fault, IInv, Typed, Placed,
     OpenBuffersOwned, PartRequests
<1>6. LockHeld'
  BY DEF RequestedPartNumbers, Goto, Answer, buffers, IInv, Typed, Placed, LockHeld, Completing
<1>7. StoredWhole'
  BY DEF RequestedPartNumbers, Goto, Answer, buffers, IInv, Typed, Placed, StoredWhole,
     Received, Parts, PartRequests
<1>8. FilePartStoredOnce'
  BY DEF RequestedPartNumbers, Goto, Answer, buffers, IInv, Typed, StoredWhole, Received,
     FilePartStoredOnce
<1>9. CreatedOnce'
  BY DEF RequestedPartNumbers, Goto, Answer, buffers, IInv, Typed, Placed, CreatedOnce,
     Completing, Places
<1>10. Gone'
  BY DEF RequestedPartNumbers, Goto, Answer, buffers, IInv, Typed, Placed, CreatedOnce, Gone,
     Completing, Places
<1> QED BY <1>1, <1>2, <1>3, <1>4, <1>5, <1>6, <1>7, <1>8, <1>9, <1>10 DEF IInv

\* The lock is taken while nobody completes.
LEMMA AcquireInv ==
  ASSUME IInv, NEW r \in Requests, AcquireKeyLock(r)
  PROVE  IInv'
<1>1. Typed'
  BY DEF AcquireKeyLock, Goto, buffers, IInv, Typed, Places, PartRequests
<1>2. Placed'
  BY DEF AcquireKeyLock, Goto, buffers, IInv, Typed, Placed
<1>3. PartsKept'
  BY DEF AcquireKeyLock, Goto, buffers, IInv, Typed, Placed, PartsKept, Received, Parts,
     PartRequests
<1>4. BufferMade'
  BY DEF AcquireKeyLock, Goto, buffers, IInv, Typed, Placed, BufferMade, PartRequests
<1>5. OpenBuffersOwned'
  BY DEF AcquireKeyLock, Goto, buffers, IInv, Typed, Placed, OpenBuffersOwned, PartRequests
<1>6. LockHeld'
  BY DEF AcquireKeyLock, Goto, buffers, IInv, Typed, Placed, LockHeld, Completing
<1>7. StoredWhole'
  BY DEF AcquireKeyLock, Goto, buffers, IInv, Typed, Placed, StoredWhole, Received, Parts,
     PartRequests
<1>8. FilePartStoredOnce'
  BY DEF AcquireKeyLock, Goto, buffers, IInv, Typed, StoredWhole, Received,
     FilePartStoredOnce
<1>9. CreatedOnce'
  BY DEF AcquireKeyLock, Goto, buffers, IInv, Typed, Placed, CreatedOnce, Completing, Places
<1>10. Gone'
  BY DEF AcquireKeyLock, Goto, buffers, IInv, Typed, Placed, CreatedOnce, Gone, Completing,
     Places
<1> QED BY <1>1, <1>2, <1>3, <1>4, <1>5, <1>6, <1>7, <1>8, <1>9, <1>10 DEF IInv

\* Collected parts are parts of the session.
LEMMA CollectInv ==
  ASSUME IInv, NEW r \in Requests, CollectParts(r)
  PROVE  IInv'
<1>1. Typed'
  BY PartsOfSession DEF CollectParts, Goto, Answer, buffers, CompleteFails, IInv, Typed, Places,
     PartRequests
<1>2. Placed'
  BY PartsOfSession DEF CollectParts, Goto, Answer, buffers, CompleteFails, IInv, Typed, Placed
<1>3. PartsKept'
  <2>1. /\ UNCHANGED <<parts, kind>>
        /\ \A b \in PartRequests : /\ answer[b] = "ok" => answer'[b] = "ok"
                                   /\ pc[b] = "respond" => pc'[b] = "respond"
    BY DEF CollectParts, CompleteFails, Answer, Goto, buffers, IInv, Typed, Placed, PartRequests
  <2>2. \A b : Received(b) => Received(b)'
    BY <2>1 DEF Received
  <2>3. \A n \in Present(r) : Received(Session(r)[n])
    BY NamesOfRequest DEF Present, Session, IInv, PartsKept
  <2>4. ASSUME NEW q \in Requests, NEW b \in Parts(q)'
        PROVE  Received(b)
    <3>1. CASE collected'[q] = collected[q]
      BY <3>1 DEF Parts, IInv, PartsKept
    <3>2. CASE collected'[q] # collected[q]
      <4>1. q = r /\ ~MissesPart(r)
            /\ collected'[q] = [i \in DOMAIN numbers[r] |-> Session(r)[numbers[r][i]]]
        BY <3>2 DEF CollectParts, IInv, Typed
      <4>2. PICK i \in DOMAIN numbers[r] : b = Session(r)[numbers[r][i]]
        BY <4>1 DEF Parts, ToSet
      <4> QED BY <4>1, <4>2, <2>3 DEF MissesPart
    <3> QED BY <3>1, <3>2
  <2>5. \A id \in UploadIds : \A n \in PartNumbers : parts'[id][n] # NoBuffer =>
          Received(parts'[id][n]) /\ IdOf[parts'[id][n]] = id /\ PartOf[parts'[id][n]] = n
    BY <2>1 DEF IInv, PartsKept
  <2> QED BY <2>2, <2>4, <2>5 DEF PartsKept
<1>4. BufferMade'
  BY PartsOfSession DEF CollectParts, Goto, Answer, buffers, CompleteFails, IInv, Typed, Placed,
     BufferMade, PartRequests
<1>5. OpenBuffersOwned'
  BY PartsOfSession DEF CollectParts, Goto, Answer, buffers, CompleteFails, IInv, Typed, Placed,
     OpenBuffersOwned, PartRequests
<1>6. LockHeld'
  <2>1. Op[r] = "complete" /\ pc[r] \in Completing
    BY DEF CollectParts, IInv, Placed, Completing
  <2>2. \A q \in Requests \ {r} : ~(Op[q] = "complete" /\ pc[q] \in Completing)
    BY <2>1, OneCompletes DEF IInv
  <2>3. \A q \in Requests \ {r} : pc'[q] = pc[q]
    BY DEF CollectParts, CompleteFails, Goto, Answer, IInv, Typed
  <2>4. keyLock = {r}
    BY <2>1 DEF IInv, LockHeld
  <2>5. pc'[r] = "done" \/ keyLock' = {r}
    BY <2>4 DEF CollectParts, CompleteFails, Goto, Answer, IInv, Typed
  <2> QED BY <2>2, <2>3, <2>5 DEF LockHeld, Completing
<1>7. StoredWhole'
  BY SMTT(60), PartsOfSession DEF CollectParts, Goto, Answer, buffers, CompleteFails, IInv, Typed, Placed,
     StoredWhole, Received, Parts, PartRequests
<1>8. FilePartStoredOnce'
  BY PartsOfSession DEF CollectParts, Goto, Answer, buffers, CompleteFails, IInv, Typed,
     StoredWhole, Received, FilePartStoredOnce
<1>9. CreatedOnce'
  BY PartsOfSession DEF CollectParts, Goto, Answer, buffers, CompleteFails, IInv, Typed, Placed,
     CreatedOnce, Completing, Places
<1>10. Gone'
  BY PartsOfSession DEF CollectParts, Goto, Answer, buffers, CompleteFails, IInv, Typed, Placed,
     CreatedOnce, Gone, Completing, Places
<1> QED BY <1>1, <1>2, <1>3, <1>4, <1>5, <1>6, <1>7, <1>8, <1>9, <1>10 DEF IInv

\* An object is stored while no other completion runs.
LEMMA ProcessInv ==
  ASSUME IInv, NEW r \in Requests, Process(r)
  PROVE  IInv'
<1>a. Parts(r) \subseteq PartRequests
  BY DEF IInv, PartsKept, Received
<1>1. Typed'
  BY <1>a, CloseEffect DEF Process, Goto, Answer, CompleteFails, Fault, buffers, IInv, Typed,
     Places
<1>2. Placed'
  BY CloseEffect DEF Process, Goto, Answer, buffers, CompleteFails, IInv, Typed, Placed
<1>3. PartsKept'
  BY CloseEffect DEF Process, Goto, Answer, buffers, CompleteFails, IInv, Typed, Placed,
     PartsKept, Received, Parts, PartRequests
<1>4. BufferMade'
  BY CloseEffect DEF Process, Goto, Answer, buffers, CompleteFails, IInv, Typed, Placed,
     BufferMade, PartRequests
<1>5. OpenBuffersOwned'
  BY CloseEffect DEF Process, Goto, Answer, buffers, CompleteFails, Fault, IInv, Typed, Placed,
     OpenBuffersOwned, PartRequests
<1>6. LockHeld'
  <2>1. Op[r] = "complete" /\ pc[r] \in Completing
    BY DEF Process, IInv, Placed, Completing
  <2>2. \A q \in Requests \ {r} : ~(Op[q] = "complete" /\ pc[q] \in Completing)
    BY <2>1, OneCompletes DEF IInv
  <2>3. \A q \in Requests \ {r} : pc'[q] = pc[q]
    BY DEF Process, CompleteFails, Goto, Answer, IInv, Typed
  <2>4. keyLock = {r}
    BY <2>1 DEF IInv, LockHeld
  <2>5. pc'[r] = "done" \/ keyLock' = {r}
    BY <2>4 DEF Process, CompleteFails, Goto, Answer, IInv, Typed
  <2> QED BY <2>2, <2>3, <2>5 DEF LockHeld, Completing
<1>7. StoredWhole'
  <2> DEFINE new == [by |-> r, parts |-> collected[r]]
  <2>1. Op[r] = "complete" /\ pc[r] = "process"
    BY DEF Process, IInv, Placed
  <2>2. /\ kind' = kind /\ closed \subseteq closed' /\ collected' = collected
        /\ \A b \in PartRequests : /\ answer[b] = "ok" => answer'[b] = "ok"
                                   /\ pc[b] = "respond" => pc'[b] = "respond"
        /\ \A q \in Requests \ {r} : pc'[q] = pc[q]
        /\ stored' # stored => stored' = stored \cup {new} /\ pc'[r] = "delete"
    <3>1. collected' = collected /\ kind' = kind /\ closed \subseteq closed'
      BY CloseEffect DEF Process, buffers
    <3>2. \A b \in PartRequests : /\ answer[b] = "ok" => answer'[b] = "ok"
                                  /\ pc[b] = "respond" => pc'[b] = "respond"
      BY <2>1 DEF Process, CompleteFails, Answer, Goto, IInv, Typed, Placed, PartRequests
    <3>3. \A q \in Requests \ {r} : pc'[q] = pc[q]
      BY DEF Process, CompleteFails, Answer, Goto, IInv, Typed
    <3>4. stored' # stored => stored' = stored \cup {new} /\ pc'[r] = "delete"
      <4>1. stored' # stored => stored' = stored \cup {new}
        BY DEF Process
      <4>2. stored' # stored => pc'[r] = "delete"
        BY DEF Process, Goto, IInv, Typed
      <4> HIDE DEF new
      <4> QED BY <4>1, <4>2
    <3> QED BY <3>1, <3>2, <3>3, <3>4
  <2>3. \A b : Received(b) => Received(b)'
    BY <2>2 DEF Received
  <2>4. \A q : Parts(q)' = Parts(q)
    BY <2>2 DEF Parts
  <2>5. ASSUME NEW o \in stored
        PROVE  /\ o.by \in Requests \ {r} /\ Op[o.by] = "complete"
               /\ \A b \in ToSet(o.parts) : Received(b)'
               /\ \/ /\ pc'[o.by] \in {"delete", "close", "return"}
                     /\ ToSet(o.parts) = Parts(o.by)'
                  \/ pc'[o.by] = "done" /\ ToSet(o.parts) \subseteq closed'
    BY <2>1, <2>2, <2>3, <2>4 DEF IInv, StoredWhole
  <2>6. new.by = r /\ ToSet(new.parts) = Parts(r) /\ \A b \in ToSet(new.parts) : Received(b)
    BY DEF Parts, IInv, PartsKept
  <2> HIDE DEF new
  <2> QED BY <2>1, <2>2, <2>3, <2>4, <2>5, <2>6 DEF StoredWhole
<1>8. FilePartStoredOnce'
  <2> DEFINE new == [by |-> r, parts |-> collected[r]]
  <2>1. Op[r] = "complete" /\ pc[r] = "process" /\ kind' = kind
    BY CloseEffect DEF Process, IInv, Placed, buffers
  <2>2. CASE stored' = stored
    BY <2>1, <2>2 DEF IInv, FilePartStoredOnce
  <2>3. CASE stored' # stored
    <3>1. stored' = stored \cup {new} /\ \A b \in Parts(r) : Readable(b)
      BY <2>3 DEF Process
    <3>2. new.by = r /\ ToSet(new.parts) = Parts(r)
      BY DEF Parts
    <3> HIDE DEF new
    <3>3. ASSUME NEW o \in stored
          PROVE  ToSet(o.parts) \subseteq closed
      <4>1. o.by \in Requests /\ Op[o.by] = "complete" /\ pc[o.by] # "process"
        BY DEF IInv, StoredWhole
      <4>2. pc[o.by] \notin Completing
        BY <2>1, <4>1, OneCompletes DEF IInv, Completing
      <4> QED BY <4>2 DEF IInv, StoredWhole, Completing
    <3>4. \A o \in stored : \A b \in ToSet(o.parts) \cap ToSet(new.parts) : kind[b] = "memory"
      BY <3>1, <3>2, <3>3 DEF Readable
    <3> QED BY <2>1, <3>1, <3>4 DEF IInv, FilePartStoredOnce
  <2> QED BY <2>2, <2>3
<1>9. CreatedOnce'
  BY CloseEffect DEF Process, Goto, Answer, buffers, CompleteFails, IInv, Typed, Placed,
     CreatedOnce, Completing, Places
<1>10. Gone'
  BY CloseEffect DEF Process, Goto, Answer, buffers, CompleteFails, IInv, Typed, Placed,
     CreatedOnce, Gone, Completing, Places
<1> QED BY <1>1, <1>2, <1>3, <1>4, <1>5, <1>6, <1>7, <1>8, <1>9, <1>10 DEF IInv

\* The session goes before the parts are closed.
LEMMA DeleteInv ==
  ASSUME IInv, NEW r \in Requests, DeleteMultipartSession(r)
  PROVE  IInv'
<1>1. Typed'
  BY DEF DeleteMultipartSession, Goto, buffers, IInv, Typed, Places, PartRequests
<1>2. Placed'
  BY DEF DeleteMultipartSession, Goto, buffers, IInv, Typed, Placed
<1>3. PartsKept'
  BY DEF DeleteMultipartSession, Goto, buffers, IInv, Typed, Placed, PartsKept, Received,
     Parts, PartRequests
<1>4. BufferMade'
  BY DEF DeleteMultipartSession, Goto, buffers, IInv, Typed, Placed, BufferMade, PartRequests
<1>5. OpenBuffersOwned'
  BY DEF DeleteMultipartSession, Goto, buffers, IInv, Typed, Placed, OpenBuffersOwned,
     PartRequests
<1>6. LockHeld'
  BY DEF DeleteMultipartSession, Goto, buffers, IInv, Typed, Placed, LockHeld, Completing
<1>7. StoredWhole'
  BY DEF DeleteMultipartSession, Goto, buffers, IInv, Typed, Placed, StoredWhole, Received,
     Parts, PartRequests
<1>8. FilePartStoredOnce'
  BY DEF DeleteMultipartSession, Goto, buffers, IInv, Typed, StoredWhole, Received,
     FilePartStoredOnce
<1>9. CreatedOnce'
  BY DEF DeleteMultipartSession, Goto, buffers, IInv, Typed, Placed, CreatedOnce, Completing,
     Places
<1>10. Gone'
  BY DEF DeleteMultipartSession, Goto, buffers, IInv, Typed, Placed, CreatedOnce, Gone,
     Completing, Places
<1> QED BY <1>1, <1>2, <1>3, <1>4, <1>5, <1>6, <1>7, <1>8, <1>9, <1>10 DEF IInv

\* The parts of the session are closed.
LEMMA CloseInv ==
  ASSUME IInv, NEW r \in Requests, CloseMultipartParts(r)
  PROVE  IInv'
<1>1. Typed'
  BY CloseEffect, PartsOfSession DEF CloseMultipartParts, Goto, Answer, IInv, Typed, Places,
     PartRequests
<1>2. Placed'
  BY CloseEffect, PartsOfSession DEF CloseMultipartParts, Goto, Answer, IInv, Typed, Placed
<1>3. PartsKept'
  BY CloseEffect, PartsOfSession DEF CloseMultipartParts, Goto, Answer, IInv, Typed, Placed,
     PartsKept, Received, Parts, PartRequests
<1>4. BufferMade'
  BY CloseEffect, PartsOfSession DEF CloseMultipartParts, Goto, Answer, IInv, Typed, Placed,
     BufferMade, PartRequests
<1>5. OpenBuffersOwned'
  BY CloseEffect, PartsOfSession DEF CloseMultipartParts, Goto, Answer, IInv, Typed, Placed,
     OpenBuffersOwned, PartRequests
<1>6. LockHeld'
  BY CloseEffect, PartsOfSession DEF CloseMultipartParts, Goto, Answer, IInv, Typed, Placed,
     LockHeld, Completing
<1>7. StoredWhole'
  BY SMTT(60), CloseEffect, PartsOfSession DEF CloseMultipartParts, Goto, Answer, IInv, Typed, Placed,
     StoredWhole, Received, Parts, PartRequests
<1>8. FilePartStoredOnce'
  BY CloseEffect, PartsOfSession DEF CloseMultipartParts, Goto, Answer, IInv, Typed,
     StoredWhole, Received, FilePartStoredOnce
<1>9. CreatedOnce'
  BY CloseEffect, PartsOfSession DEF CloseMultipartParts, Goto, Answer, IInv, Typed, Placed,
     CreatedOnce, Completing, Places
<1>10. Gone'
  BY CloseEffect, PartsOfSession DEF CloseMultipartParts, Goto, Answer, IInv, Typed, Placed,
     CreatedOnce, Gone, Completing, Places
<1> QED BY <1>1, <1>2, <1>3, <1>4, <1>5, <1>6, <1>7, <1>8, <1>9, <1>10 DEF IInv

\* The parts that were read are closed before the lock is free.
LEMMA ReturnInv ==
  ASSUME IInv, NEW r \in Requests, ReturnFromComplete(r)
  PROVE  IInv'
<1>a. Parts(r) \subseteq PartRequests
  BY DEF IInv, PartsKept, Received
<1>1. Typed'
  BY <1>a, CloseEffect DEF ReturnFromComplete, Answer, IInv, Typed, Places
<1>2. Placed'
  BY CloseEffect DEF ReturnFromComplete, Answer, IInv, Typed, Placed
<1>3. PartsKept'
  BY CloseEffect DEF ReturnFromComplete, Answer, IInv, Typed, Placed, PartsKept, Received,
     Parts, PartRequests
<1>4. BufferMade'
  BY CloseEffect DEF ReturnFromComplete, Answer, IInv, Typed, Placed, BufferMade, PartRequests
<1>5. OpenBuffersOwned'
  BY CloseEffect DEF ReturnFromComplete, Answer, IInv, Typed, Placed, OpenBuffersOwned,
     PartRequests
<1>6. LockHeld'
  <2>1. Op[r] = "complete" /\ pc[r] \in Completing
    BY DEF ReturnFromComplete, IInv, Placed, Completing
  <2>2. \A q \in Requests \ {r} : ~(Op[q] = "complete" /\ pc[q] \in Completing)
    BY <2>1, OneCompletes DEF IInv
  <2>3. \A q \in Requests \ {r} : pc'[q] = pc[q]
    BY DEF ReturnFromComplete, Goto, Answer, IInv, Typed
  <2>4. keyLock = {r}
    BY <2>1 DEF IInv, LockHeld
  <2>5. pc'[r] = "done" \/ keyLock' = {r}
    BY <2>4 DEF ReturnFromComplete, Goto, Answer, IInv, Typed
  <2> QED BY <2>2, <2>3, <2>5 DEF LockHeld, Completing
<1>7. StoredWhole'
  BY CloseEffect DEF ReturnFromComplete, Answer, IInv, Typed, Placed, StoredWhole, Received,
     Parts, PartRequests
<1>8. FilePartStoredOnce'
  BY CloseEffect DEF ReturnFromComplete, Answer, IInv, Typed, StoredWhole, Received,
     FilePartStoredOnce
<1>9. CreatedOnce'
  BY CloseEffect DEF ReturnFromComplete, Answer, IInv, Typed, Placed, CreatedOnce, Completing,
     Places
<1>10. Gone'
  BY CloseEffect DEF ReturnFromComplete, Answer, IInv, Typed, Placed, CreatedOnce, Gone,
     Completing, Places
<1> QED BY <1>1, <1>2, <1>3, <1>4, <1>5, <1>6, <1>7, <1>8, <1>9, <1>10 DEF IInv

\* Every step preserves the invariant.
LEMMA NextInv == IInv /\ [Next]_vars => IInv'
<1> SUFFICES ASSUME IInv, [Next]_vars PROVE IInv'
  OBVIOUS
<1>1. ASSUME NEW r \in Requests, Step(r)
      PROVE  IInv'
  BY <1>1, CreateInv, GetSessionInv, NewReaderInv, ReceiveInv, PutInv, RespondInv, NumbersInv,
     AcquireInv, CollectInv, ProcessInv, DeleteInv, CloseInv, ReturnInv DEF Step
<1>2. CASE UNCHANGED vars
  BY <1>2 DEF vars, IInv, Typed, Placed, PartsKept, Received, Parts, BufferMade,
     OpenBuffersOwned, LockHeld, StoredWhole, FilePartStoredOnce, CreatedOnce, Gone
<1> QED BY <1>1, <1>2 DEF Next, AllAnswered

\* At every moment sessions, parts, buffers and objects fit together.
THEOREM Invariance == Spec => []IInv
<1> QED BY InitInv, NextInv, PTL DEF Spec

\* No object contains a part that broke off, was refused or is still under way.
THEOREM ReceivedWhole == Spec => []OnlyReceivedStored
<1>1. IInv => OnlyReceivedStored
  BY DEF IInv, StoredWhole, Received, OnlyReceivedStored
<1> QED BY <1>1, Invariance, PTL

\* No buffer is lost but that of a part refused for its hash.
THEOREM BuffersOwned == Spec => []OpenBuffersOwned
<1>1. IInv => OpenBuffersOwned
  BY DEF IInv
<1> QED BY <1>1, Invariance, PTL

\* The key lock keeps a part in a file out of a second object.
THEOREM StoredOnce == Spec => []FilePartStoredOnce
<1>1. IInv => FilePartStoredOnce
  BY DEF IInv
<1> QED BY <1>1, Invariance, PTL

\* After a successful completion the upload cannot be found.
THEOREM CompletionEnds == Spec => CompletedIsGone
<1> DEFINE Told ==
      \A q, r \in Requests :
        /\ Op[q] = "complete" /\ answer[q] = "ok" /\ IdOf[q] = IdOf[r]
        /\ Op[r] \in {"part", "complete"} /\ pc[r] = "start" /\ pc'[r] # "start"
        => answer'[r] = "noSuchUpload"
<1>1. IInv /\ [Next]_vars => [Told]_vars
  <2> SUFFICES ASSUME IInv, Next, NEW q \in Requests, NEW r \in Requests,
                      Op[q] = "complete", answer[q] = "ok", IdOf[q] = IdOf[r],
                      Op[r] \in {"part", "complete"}, pc[r] = "start", pc'[r] # "start"
               PROVE  answer'[r] = "noSuchUpload"
    OBVIOUS
  <2>1. IdOf[r] \notin sessions
    BY DEF IInv, Gone
  <2>2. GetMultipartSession(r)
    BY ZenonT(60) DEF Next, Step, AllAnswered, vars, IInv, Typed, Goto, Answer, CompleteFails,
       CreateMultipartUpload, GetMultipartSession, NewUploadReader, ReceivePart, PutPart,
       RespondToPart, RequestedPartNumbers, AcquireKeyLock, CollectParts, Process,
       DeleteMultipartSession, CloseMultipartParts, ReturnFromComplete
  <2> QED BY <2>1, <2>2 DEF GetMultipartSession, Answer, IInv, Typed
<1> QED BY <1>1, Invariance, PTL DEF Spec, CompletedIsGone

\* The parts use the memory budget as its module says, so what is proved of it
\* (exact counter, limit kept, disk only when memory is full) holds of them.
LEMMA BudgetImplemented == Spec => Manager!BudgetSpec
<1>1. Init => Manager!BudgetInit
  BY DEF Init
<1>2. IInv /\ [Next]_vars => [Manager!BudgetNext]_(Manager!buffers)
  <2> SUFFICES ASSUME IInv, [Next]_vars PROVE Manager!BudgetNext \/ UNCHANGED Manager!buffers
    OBVIOUS
  <2>1. ASSUME NEW bs \in SUBSET PartRequests, Manager!CloseAll(bs)
        PROVE  Manager!BudgetNext
    BY <2>1 DEF Manager!BudgetNext
  <2>2. ASSUME NEW r \in Requests, NewUploadReader(r)
        PROVE  Manager!BudgetNext \/ UNCHANGED Manager!buffers
    <3>1. r \in PartRequests
      BY <2>2 DEF NewUploadReader, IInv, Placed, PartRequests
    <3> QED BY <2>2, <3>1 DEF NewUploadReader, Manager!BudgetNext, buffers, Manager!buffers
  <2>3. ASSUME NEW r \in Requests, ReceivePart(r)
        PROVE  Manager!BudgetNext \/ UNCHANGED Manager!buffers
    <3>1. {r} \in SUBSET PartRequests
      BY <2>3 DEF ReceivePart, IInv, Placed, PartRequests
    <3> QED BY <2>3, <3>1, <2>1 DEF ReceivePart, buffers, Manager!buffers
  <2>4. ASSUME NEW r \in Requests, PutPart(r)
        PROVE  Manager!BudgetNext
    <3>1. {Session(r)[PartOf[r]]} \ {NoBuffer} \in SUBSET PartRequests
      BY NamesOfRequest, PartsOfSession DEF IInv
    <3> QED BY <2>4, <3>1, <2>1 DEF PutPart
  <2>5. ASSUME NEW r \in Requests, Process(r) \/ ReturnFromComplete(r)
        PROVE  Manager!BudgetNext \/ UNCHANGED Manager!buffers
    <3>1. Parts(r) \in SUBSET PartRequests
      BY DEF IInv, PartsKept, Received
    <3> QED BY <2>5, <3>1, <2>1 DEF Process, ReturnFromComplete, buffers, Manager!buffers
  <2>6. ASSUME NEW r \in Requests, CloseMultipartParts(r)
        PROVE  Manager!BudgetNext
    <3>1. BuffersOf(r) \in SUBSET PartRequests
      BY PartsOfSession DEF IInv
    <3> QED BY <2>6, <3>1, <2>1 DEF CloseMultipartParts
  <2>7. ASSUME NEW r \in Requests,
               \/ CreateMultipartUpload(r) \/ GetMultipartSession(r) \/ RespondToPart(r)
               \/ RequestedPartNumbers(r) \/ AcquireKeyLock(r) \/ CollectParts(r)
               \/ DeleteMultipartSession(r)
        PROVE  UNCHANGED Manager!buffers
    BY <2>7 DEF CreateMultipartUpload, GetMultipartSession, RespondToPart, RequestedPartNumbers,
       AcquireKeyLock, CollectParts, DeleteMultipartSession, buffers, Manager!buffers
  <2>8. CASE UNCHANGED vars
    BY <2>8 DEF vars, Manager!buffers
  <2> QED BY <2>2, <2>3, <2>4, <2>5, <2>6, <2>7, <2>8 DEF Next, Step, AllAnswered
<1> QED BY <1>1, <1>2, Invariance, PTL DEF Spec, Manager!BudgetSpec

-----------------------------------------------------------------------------
(* Sorting.  Ascending chooses an order; that there is one is shown by      *)
(* induction over the length, inserting the last element.                   *)

\* A set of numbers that is not empty has a smallest one.
LEMMA Smallest ==
  ASSUME NEW T \in SUBSET Nat, T # {}
  PROVE  \E x \in T : \A y \in T : ~(y < x)
<1>1. \E x \in T : \A y \in T : ~(<<y, x>> \in OpToRel(<, Nat))
  BY NatLessThanWellFounded, WFMin, Zenon
<1> QED BY <1>1 DEF OpToRel

\* Induction over the numbers of a set.
LEMMA SetInduction ==
  ASSUME NEW T, 0 \in T, \A n \in Nat : n \in T => n + 1 \in T
  PROVE  Nat \subseteq T
<1> SUFFICES ASSUME Nat \ T # {} PROVE FALSE
  OBVIOUS
<1>1. PICK x \in Nat \ T : \A y \in Nat \ T : ~(y < x)
  BY Smallest
<1>2. x - 1 \in Nat /\ x - 1 \in T
  BY <1>1
<1> QED BY <1>1, <1>2

\* A permutation of the places 1..n that puts numbers in ascending order.
Reaches(p, n) == \A w \in 1..n : \E v \in 1..n : p[v] = w
Sorts(p, s, n) ==
  /\ p \in [1..n -> 1..n]
  /\ Reaches(p, n)
  /\ \A i, j \in 1..n : i < j => s[p[i]] <= s[p[j]]

\* One more number is put before the first one that is not smaller.
LEMMA InsertLast ==
  ASSUME NEW n \in Nat, NEW s \in [1..(n + 1) -> Nat], NEW p, Sorts(p, s, n)
  PROVE  \E q : Sorts(q, s, n + 1)
<1> DEFINE K == {k \in 1..(n + 1) : k = n + 1 \/ s[p[k]] >= s[n + 1]}
<1>1. PICK k \in K : \A j \in K : ~(j < k)
  <2>1. n + 1 \in K
    OBVIOUS
  <2>2. K \in SUBSET Nat
    OBVIOUS
  <2> HIDE DEF K
  <2> QED BY <2>1, <2>2, Smallest
<1>2. k \in 1..(n + 1) /\ (k = n + 1 \/ s[p[k]] >= s[n + 1])
  OBVIOUS
<1>3. p \in [1..n -> 1..n]
  BY DEF Sorts
<1>4. \A i \in 1..n : p[i] \in 1..n /\ p[i] \in 1..(n + 1) /\ s[p[i]] \in Nat
  <2> TAKE i \in 1..n
  <2>1. p[i] \in 1..n
    BY <1>3
  <2>2. p[i] \in 1..(n + 1)
    BY <2>1
  <2> QED BY <2>1, <2>2
<1>5. \A i \in 1..n : i < k => s[p[i]] < s[n + 1]
  <2> TAKE i \in 1..n
  <2> HAVE i < k
  <2>1. i \notin K
    BY <1>1
  <2>2. i \in 1..(n + 1) /\ i # n + 1
    OBVIOUS
  <2>3. ~(s[p[i]] >= s[n + 1])
    BY <2>1, <2>2
  <2> QED BY <1>4, <2>3
<1> HIDE DEF K
<1>6. \A i \in 1..n : i >= k => s[n + 1] <= s[p[i]]
  <2> TAKE i \in 1..n
  <2> HAVE i >= k
  <2>1. k \in 1..n /\ s[p[k]] >= s[n + 1]
    BY <1>2
  <2>2. k = i \/ s[p[k]] <= s[p[i]]
    <3>1. k = i \/ k < i
      BY <2>1
    <3> QED BY <2>1, <3>1 DEF Sorts
  <2>3. s[p[k]] \in Nat /\ s[p[i]] \in Nat /\ s[n + 1] \in Nat
    <3>1. n + 1 \in 1..(n + 1)
      OBVIOUS
    <3> QED BY <1>4, <2>1, <3>1
  <2> QED BY <2>1, <2>2, <2>3
<1> DEFINE q == [v \in 1..(n + 1) |->
                   IF v < k THEN p[v] ELSE IF v = k THEN n + 1 ELSE p[v - 1]]
<1>7. \A v \in 1..(n + 1) :
        /\ v < k => v \in 1..n /\ q[v] = p[v]
        /\ v = k => q[v] = n + 1
        /\ v > k => v - 1 \in 1..n /\ q[v] = p[v - 1]
  BY <1>2
<1>8. q \in [1..(n + 1) -> 1..(n + 1)]
  BY <1>2, <1>4
<1> HIDE DEF q
<1>9. Reaches(q, n + 1)
  <2> SUFFICES ASSUME NEW w \in 1..(n + 1) PROVE \E v \in 1..(n + 1) : q[v] = w
    BY DEF Reaches
  <2>1. CASE w = n + 1
    BY <1>2, <1>7, <2>1
  <2>2. CASE w # n + 1
    <3>1. PICK v \in 1..n : p[v] = w
      BY <2>2 DEF Sorts, Reaches
    <3>2. CASE v < k
      <4>1. v \in 1..(n + 1) /\ q[v] = p[v]
        BY <1>7, <3>2
      <4> QED BY <3>1, <4>1
    <3>3. CASE ~(v < k)
      <4>1. v + 1 \in 1..(n + 1) /\ v + 1 > k /\ v + 1 - 1 = v
        BY <1>2, <3>3
      <4>2. q[v + 1] = p[v]
        BY <1>7, <4>1
      <4> QED BY <3>1, <4>1, <4>2
    <3> QED BY <3>2, <3>3
  <2> QED BY <2>1, <2>2
<1>10. ASSUME NEW i \in 1..(n + 1), NEW j \in 1..(n + 1), i < j
       PROVE  s[q[i]] <= s[q[j]]
  <2>1. CASE j < k
    <3>1. i < k
      BY <1>2, <1>10, <2>1
    <3> QED BY <1>7, <1>10, <2>1, <3>1 DEF Sorts
  <2>2. CASE j = k
    <3>1. i < k
      BY <1>10, <2>2
    <3>2. i \in 1..n /\ q[i] = p[i] /\ q[j] = n + 1
      BY <1>7, <2>2, <3>1
    <3> QED BY <1>4, <1>5, <3>1, <3>2
  <2>3. CASE j > k
    <3>1. j - 1 \in 1..n /\ q[j] = p[j - 1] /\ j - 1 >= k
      BY <1>2, <1>7, <2>3
    <3>2. CASE i < k
      <4>1. i \in 1..n /\ q[i] = p[i] /\ i < j - 1
        BY <1>2, <1>7, <2>3, <3>1, <3>2
      <4> QED BY <3>1, <4>1 DEF Sorts
    <3>3. CASE i = k
      <4>1. q[i] = n + 1
        BY <1>7, <3>3
      <4> QED BY <1>6, <3>1, <4>1
    <3>4. CASE i > k
      <4>1. i - 1 \in 1..n /\ q[i] = p[i - 1] /\ i - 1 < j - 1
        BY <1>2, <1>7, <1>10, <3>4
      <4> QED BY <3>1, <4>1 DEF Sorts
    <3> QED BY <1>2, <3>2, <3>3, <3>4
  <2> QED BY <1>2, <2>1, <2>2, <2>3
<1>11. Sorts(q, s, n + 1)
  BY <1>8, <1>9, <1>10 DEF Sorts
<1> QED BY <1>11

LEMMA SortingExists ==
  ASSUME NEW n \in Nat, NEW s \in [1..n -> Nat]
  PROVE  \E p : Sorts(p, s, n)
<1> DEFINE T == {m \in Nat : \A t \in [1..m -> Nat] : \E p : Sorts(p, t, m)}
<1>1. 0 \in T
  <2> SUFFICES ASSUME NEW t \in [1..0 -> Nat] PROVE \E p : Sorts(p, t, 0)
    OBVIOUS
  <2> DEFINE e == [v \in 1..0 |-> v]
  <2>1. Sorts(e, t, 0)
    BY DEF Sorts, Reaches
  <2> QED BY <2>1
<1>2. ASSUME NEW m \in Nat, m \in T, NEW t \in [1..(m + 1) -> Nat]
      PROVE  \E p : Sorts(p, t, m + 1)
  <2> DEFINE u == [v \in 1..m |-> t[v]]
  <2>1. u \in [1..m -> Nat]
    OBVIOUS
  <2> HIDE DEF u
  <2>2. PICK p : Sorts(p, u, m)
    BY <1>2, <2>1, Zenon
  <2>3. \A i \in 1..m : p[i] \in 1..m
    BY <2>2 DEF Sorts
  <2>4. \A i \in 1..m : u[p[i]] = t[p[i]]
    BY <2>3 DEF u
  <2>5. Sorts(p, t, m)
    BY <2>2, <2>4 DEF Sorts
  <2> QED BY <2>5, InsertLast, Zenon
<1>3. ASSUME NEW m \in Nat, m \in T PROVE m + 1 \in T
  <2>1. m + 1 \in Nat
    OBVIOUS
  <2>2. \A t \in [1..(m + 1) -> Nat] : \E p : Sorts(p, t, m + 1)
    BY <1>2, <1>3, Zenon
  <2> QED BY <2>1, <2>2, Zenon
<1>4. n \in T
  <2> HIDE DEF T
  <2> QED BY <1>1, <1>3, SetInduction
<1> QED BY <1>4, Zenon

\* The sorted list holds the same numbers, as many and in ascending order.
LEMMA AscendingSorts ==
  ASSUME NEW s \in Seq(PartNumbers)
  PROVE  /\ Ascending(s) \in Seq(PartNumbers)
         /\ Len(Ascending(s)) = Len(s)
         /\ ToSet(Ascending(s)) = ToSet(s)
         /\ \A i, j \in 1..Len(s) : i < j => Ascending(s)[i] <= Ascending(s)[j]
<1> DEFINE n == Len(s)
           Good(p) == \A i, j \in DOMAIN s : i < j => s[p[i]] <= s[p[j]]
           P == CHOOSE p \in Surjection(DOMAIN s, DOMAIN s) : Good(p)
           a == Ascending(s)
<1>1. n \in Nat /\ DOMAIN s = 1..n
  OBVIOUS
<1>2. \A i \in 1..n : s[i] \in PartNumbers
  OBVIOUS
<1>3. s \in [1..n -> Nat]
  <2>1. s \in [1..n -> PartNumbers]
    BY <1>1, <1>2
  <2>2. \A i \in 1..n : s[i] \in Nat
    BY <1>2, MultipartAssumption
  <2> QED BY <2>1, <2>2
<1>4. \E p : Sorts(p, s, n)
  <2> HIDE DEF n
  <2> QED BY <1>1, <1>3, SortingExists
<1>5. \E p \in Surjection(DOMAIN s, DOMAIN s) : Good(p)
  BY <1>1, <1>4 DEF Sorts, Reaches, Surjection
<1>6. P \in Surjection(DOMAIN s, DOMAIN s) /\ Good(P)
  <2> HIDE DEF Good
  <2> QED BY <1>5
<1>7. a = [i \in DOMAIN s |-> s[P[i]]]
  BY DEF Ascending
<1> HIDE DEF n, P, a
<1>8. /\ \A i \in 1..n : P[i] \in 1..n
      /\ \A w \in 1..n : \E v \in 1..n : P[v] = w
  BY <1>1, <1>6 DEF Surjection
<1>9. DOMAIN a = 1..n /\ \A i \in 1..n : a[i] = s[P[i]]
  BY <1>1, <1>7
<1>10. a \in Seq(PartNumbers) /\ Len(a) = n
  BY <1>1, <1>2, <1>7, <1>8
<1>11. ToSet(a) = ToSet(s)
  <2>1. ToSet(s) = {s[i] : i \in 1..n}
    BY <1>1 DEF ToSet
  <2>2. ToSet(a) = {s[P[i]] : i \in 1..n}
    BY <1>9 DEF ToSet
  <2>3. \A i \in 1..n : s[P[i]] \in ToSet(s)
    BY <1>8, <2>1
  <2>4. \A w \in 1..n : s[w] \in ToSet(a)
    <3> TAKE w \in 1..n
    <3>1. PICK v \in 1..n : P[v] = w
      BY <1>8
    <3> QED BY <2>2, <3>1
  <2> QED BY <2>1, <2>2, <2>3, <2>4
<1>12. \A i, j \in 1..n : i < j => a[i] <= a[j]
  BY <1>1, <1>6, <1>9
<1> QED BY <1>10, <1>11, <1>12 DEF n, a

\* The numbers that are present are finitely many: every one has a request.
LEMMA PresentFinite ==
  ASSUME PartsKept, NEW r \in Requests
  PROVE  IsFiniteSet(Present(r)) /\ Present(r) \subseteq PartNumbers
<1>1. IsFiniteSet({PartOf[q] : q \in Requests})
  <2>1. IsFiniteSet(Requests)
    BY MultipartAssumption
  <2> DEFINE f == [q \in Requests |-> PartOf[q]]
             T == {PartOf[q] : q \in Requests}
  <2>2. f \in Surjection(Requests, T)
    BY DEF Surjection
  <2> HIDE DEF f, T
  <2>3. IsFiniteSet(T)
    BY <2>1, <2>2, FS_Surjection
  <2> QED BY <2>3 DEF T
<1>2. Present(r) \subseteq {PartOf[q] : q \in Requests}
  <2> SUFFICES ASSUME NEW n \in Present(r) PROVE n \in {PartOf[q] : q \in Requests}
    OBVIOUS
  <2>1. n \in PartNumbers /\ parts[IdOf[r]][n] # NoBuffer /\ IdOf[r] \in UploadIds
    BY NamesOfRequest DEF Present, Session
  <2>2. parts[IdOf[r]][n] \in Requests /\ PartOf[parts[IdOf[r]][n]] = n
    BY <2>1 DEF PartsKept, Received, PartRequests
  <2> QED BY <2>2
<1>3. IsFiniteSet(Present(r))
  BY <1>1, <1>2, FS_Subset
<1> QED BY <1>3 DEF Present

\* A finite set of part numbers can be listed.
LEMMA SetIsListed ==
  ASSUME NEW S \in SUBSET PartNumbers, IsFiniteSet(S)
  PROVE  SetToSeq(S) \in Seq(PartNumbers)
<1> DEFINE n == Cardinality(S)
           F == {f \in [1..n -> S] : IsInjective(f)}
<1>1. n \in Nat /\ \E f : f \in Bijection(1..n, S)
  BY FS_CardinalityType, Zenon DEF ExistsBijection
<1>2. \E f \in [1..n -> S] : IsInjective(f)
  BY <1>1 DEF Bijection, Injection
<1>3. SetToSeq(S) \in [1..n -> S]
  BY <1>2 DEF SetToSeq
<1> QED BY <1>1, <1>3

-----------------------------------------------------------------------------
(* What a stored object is made of.                                         *)

\* Numbers that completion r may ask for, and buffers that it may store.
Wanted(r, ns) ==
  /\ ns \in Seq(PartNumbers)
  /\ \A i, j \in DOMAIN ns : i < j => ns[i] <= ns[j]
  /\ ListOf[r] # <<>> => Len(ns) = Len(ListOf[r]) /\ ToSet(ns) = ToSet(ListOf[r])

NumbersOf(bs) == [i \in DOMAIN bs |-> PartOf[bs[i]]]

Made(r, bs) ==
  /\ \A i \in DOMAIN bs : IdOf[bs[i]] = IdOf[r]
  /\ \A i, j \in DOMAIN bs : i < j => NumbersOf(bs)[i] <= NumbersOf(bs)[j]
  /\ ListOf[r] # <<>> =>
       Len(NumbersOf(bs)) = Len(ListOf[r]) /\ ToSet(NumbersOf(bs)) = ToSet(ListOf[r])

\* A completion knows the numbers from RequestedPartNumbers on and has their
\* parts from CollectParts on.
OrderInv ==
  /\ DOMAIN numbers = Requests
  /\ \A r \in Requests :
       /\ pc[r] \in {"lock", "collect"} => Wanted(r, numbers[r])
       /\ pc[r] = "process" => Made(r, collected[r])
  /\ \A o \in stored : Made(o.by, o.parts)

LEMMA ObjectsMade == OrderInv => ObjectIsRequested
<1> QED BY DEF OrderInv, Made, NumbersOf, ObjectIsRequested

\* A sorted list of numbers, the client's or all that are present, is wanted.
LEMMA SortedIsWanted ==
  ASSUME IInv, NEW r \in Requests
  PROVE  Wanted(r, Ascending(IF ListOf[r] # <<>> THEN ListOf[r] ELSE SetToSeq(Present(r))))
<1> DEFINE s == IF ListOf[r] # <<>> THEN ListOf[r] ELSE SetToSeq(Present(r))
<1>1. ListOf[r] \in Seq(PartNumbers)
  BY MultipartAssumption
<1>2. SetToSeq(Present(r)) \in Seq(PartNumbers)
  BY PresentFinite, SetIsListed DEF IInv
<1>3. s \in Seq(PartNumbers)
  BY <1>1, <1>2
<1>4. ListOf[r] # <<>> => s = ListOf[r]
  OBVIOUS
<1> HIDE DEF s
<1>5. /\ Ascending(s) \in Seq(PartNumbers)
      /\ Len(Ascending(s)) = Len(s)
      /\ ToSet(Ascending(s)) = ToSet(s)
      /\ \A i, j \in 1..Len(s) : i < j => Ascending(s)[i] <= Ascending(s)[j]
  BY <1>3, AscendingSorts
<1>6. DOMAIN Ascending(s) = 1..Len(s)
  BY <1>5
<1>7. Wanted(r, Ascending(s))
  BY <1>4, <1>5, <1>6 DEF Wanted
<1> QED BY <1>7 DEF s

\* The parts of the session with the wanted numbers make the wanted object.
LEMMA CollectedIsMade ==
  ASSUME IInv, NEW r \in Requests, NEW ns, Wanted(r, ns),
         \A i \in DOMAIN ns : ns[i] \in Present(r)
  PROVE  Made(r, [i \in DOMAIN ns |-> Session(r)[ns[i]]])
<1> DEFINE bs == [i \in DOMAIN ns |-> Session(r)[ns[i]]]
<1>1. \A n \in Present(r) : IdOf[Session(r)[n]] = IdOf[r] /\ PartOf[Session(r)[n]] = n
  BY NamesOfRequest DEF Present, Session, IInv, PartsKept
<1>2. DOMAIN bs = DOMAIN ns /\ \A i \in DOMAIN ns : bs[i] = Session(r)[ns[i]]
  OBVIOUS
<1> HIDE DEF bs
<1>3. \A i \in DOMAIN ns : IdOf[bs[i]] = IdOf[r] /\ PartOf[bs[i]] = ns[i]
  BY <1>1, <1>2
<1>4. NumbersOf(bs) = [i \in DOMAIN ns |-> ns[i]]
  BY <1>2, <1>3 DEF NumbersOf
<1>5. NumbersOf(bs) = ns
  BY <1>4 DEF Wanted
<1>6. Made(r, bs)
  BY <1>2, <1>3, <1>5 DEF Made, Wanted
<1> QED BY <1>6 DEF bs

\* A step that leaves the numbers and the collected parts alone, stores nothing
\* and brings nobody to these places.
LEMMA OrderKept ==
  ASSUME OrderInv, UNCHANGED <<numbers, collected, stored>>,
         \A r \in Requests : pc'[r] \in {"lock", "collect", "process"} =>
           \/ pc[r] = pc'[r]
           \/ pc[r] = "lock" /\ pc'[r] = "collect"
  PROVE  OrderInv'
<1>1. DOMAIN numbers' = Requests
  BY DEF OrderInv
<1>2. ASSUME NEW r \in Requests, pc'[r] \in {"lock", "collect"}
      PROVE  Wanted(r, numbers'[r])
  BY <1>2 DEF OrderInv
<1>3. ASSUME NEW r \in Requests, pc'[r] = "process"
      PROVE  Made(r, collected'[r])
  BY <1>3 DEF OrderInv
<1>4. \A o \in stored' : Made(o.by, o.parts)
  BY DEF OrderInv
<1> QED BY <1>1, <1>2, <1>3, <1>4 DEF OrderInv

\* Every step of a request keeps it.
LEMMA OrderStep ==
  ASSUME IInv, OrderInv, NEW r \in Requests, Step(r)
  PROVE  OrderInv'
<1> USE DEF IInv, Typed
<1>1. CASE CreateMultipartUpload(r)
  BY <1>1, OrderKept DEF CreateMultipartUpload, Answer
<1>2. CASE GetMultipartSession(r)
  BY <1>2, OrderKept, MultipartAssumption DEF GetMultipartSession, Answer, Goto
<1>3. CASE NewUploadReader(r)
  BY <1>3, OrderKept DEF NewUploadReader, Answer, Goto
<1>4. CASE ReceivePart(r)
  BY <1>4, OrderKept DEF ReceivePart, Answer, Goto
<1>5. CASE PutPart(r)
  BY <1>5, OrderKept DEF PutPart, Goto
<1>13. CASE RespondToPart(r)
  BY <1>13, OrderKept DEF RespondToPart, Answer
<1>6. CASE RequestedPartNumbers(r)
  <2> DEFINE ns == Ascending(IF ListOf[r] # <<>> THEN ListOf[r] ELSE SetToSeq(Present(r)))
  <2>1. Wanted(r, ns)
    BY SortedIsWanted
  <2> HIDE DEF ns
  <2>2. CASE Goto(r, "lock") /\ numbers' = [numbers EXCEPT ![r] = ns]
    <3>1. numbers' = [q \in Requests |-> IF q = r THEN ns ELSE numbers[q]]
      BY <2>2 DEF OrderInv
    <3>2. pc' = [q \in Requests |-> IF q = r THEN "lock" ELSE pc[q]]
      BY <2>2 DEF Goto
    <3>3. UNCHANGED <<collected, stored>>
      BY <1>6 DEF RequestedPartNumbers
    <3>4. ASSUME NEW q \in Requests, pc'[q] \in {"lock", "collect"}
          PROVE  Wanted(q, numbers'[q])
      BY <2>1, <3>1, <3>2, <3>4 DEF OrderInv
    <3>5. ASSUME NEW q \in Requests, pc'[q] = "process"
          PROVE  Made(q, collected'[q])
      BY <3>2, <3>3, <3>5 DEF OrderInv
    <3>6. DOMAIN numbers' = Requests /\ \A o \in stored' : Made(o.by, o.parts)
      BY <3>1, <3>3 DEF OrderInv
    <3> QED BY <3>4, <3>5, <3>6 DEF OrderInv
  <2>3. CASE Answer(r, "invalidRequest") /\ UNCHANGED numbers
    BY <1>6, <2>3, OrderKept DEF RequestedPartNumbers, Answer
  <2> QED BY <1>6, <2>2, <2>3 DEF RequestedPartNumbers, ns
<1>7. CASE AcquireKeyLock(r)
  BY <1>7, OrderKept DEF AcquireKeyLock, Goto
<1>8. CASE CollectParts(r)
  <2>1. CASE MissesPart(r)
    BY <1>8, <2>1, OrderKept DEF CollectParts, CompleteFails, Answer
  <2>2. CASE ~MissesPart(r)
    <3> DEFINE bs == [i \in DOMAIN numbers[r] |-> Session(r)[numbers[r][i]]]
    <3>1. Made(r, bs)
      BY <1>8, <2>2, CollectedIsMade DEF CollectParts, MissesPart, OrderInv
    <3>2. collected' = [collected EXCEPT ![r] = bs] /\ Goto(r, "process")
      BY <1>8, <2>2 DEF CollectParts
    <3> HIDE DEF bs
    <3>3. collected' = [q \in Requests |-> IF q = r THEN bs ELSE collected[q]]
      BY <3>2
    <3>4. pc' = [q \in Requests |-> IF q = r THEN "process" ELSE pc[q]]
      BY <3>2 DEF Goto
    <3>5. UNCHANGED <<numbers, stored>>
      BY <1>8 DEF CollectParts
    <3>6. ASSUME NEW q \in Requests
          PROVE  /\ pc'[q] \in {"lock", "collect"} => Wanted(q, numbers'[q])
                 /\ pc'[q] = "process" => Made(q, collected'[q])
      BY <3>1, <3>3, <3>4, <3>5 DEF OrderInv
    <3>7. \A o \in stored' : Made(o.by, o.parts)
      BY <3>5 DEF OrderInv
    <3>8. DOMAIN numbers' = Requests
      BY <3>5 DEF OrderInv
    <3> QED BY <3>6, <3>7, <3>8 DEF OrderInv, Made, NumbersOf, Wanted
  <2> QED BY <2>1, <2>2
<1>9. CASE Process(r)
  <2>1. CASE Goto(r, "delete") /\ stored' = stored \cup {[by |-> r, parts |-> collected[r]]}
    <3> DEFINE o == [by |-> r, parts |-> collected[r]]
    <3>1. Made(o.by, o.parts)
      BY <1>9 DEF Process, OrderInv
    <3>2. \A q \in stored' : Made(q.by, q.parts)
      BY <2>1, <3>1 DEF OrderInv
    <3>3. pc' = [q \in Requests |-> IF q = r THEN "delete" ELSE pc[q]]
      BY <2>1 DEF Goto
    <3>4. UNCHANGED <<numbers, collected>>
      BY <1>9 DEF Process
    <3> QED BY <3>2, <3>3, <3>4 DEF OrderInv, Made, NumbersOf, Wanted
  <2>2. CASE CompleteFails(r, "error") /\ UNCHANGED stored
    BY <1>9, <2>2, OrderKept DEF Process, CompleteFails, Answer
  <2> QED BY <1>9, <2>1, <2>2 DEF Process
<1>10. CASE DeleteMultipartSession(r)
  BY <1>10, OrderKept DEF DeleteMultipartSession, Goto
<1>11. CASE CloseMultipartParts(r)
  BY <1>11, OrderKept DEF CloseMultipartParts, Goto, Answer
<1>12. CASE ReturnFromComplete(r)
  BY <1>12, OrderKept DEF ReturnFromComplete, Answer
<1> QED BY <1>1, <1>2, <1>3, <1>4, <1>5, <1>6, <1>7, <1>8, <1>9, <1>10, <1>11, <1>12, <1>13
       DEF Step

\* A stored object is made of the requested parts of its upload in ascending
\* order, whatever the client's order and whatever is uploaded meanwhile.
THEOREM Requested == Spec => []ObjectIsRequested
<1>1. Init => OrderInv
  BY DEF Init, OrderInv
<1>2. IInv /\ OrderInv /\ [Next]_vars => OrderInv'
  <2> SUFFICES ASSUME IInv, OrderInv, [Next]_vars PROVE OrderInv'
    OBVIOUS
  <2>1. CASE UNCHANGED vars
    BY <2>1, OrderKept DEF vars
  <2>2. CASE AllAnswered
    BY <2>2, OrderKept DEF AllAnswered, vars
  <2> QED BY <2>1, <2>2, OrderStep DEF Next
<1> QED BY <1>1, <1>2, Invariance, ObjectsMade, PTL DEF Spec

-----------------------------------------------------------------------------
(* The memory budget of the parts, argued as in HandlersProofs.             *)

\* The counter is exact, and what it counts is finite.
BudgetInv ==
  /\ Manager!BudgetTypeOK
  /\ IsFiniteSet(Manager!Units(Manager!Holding))
  /\ memoryInUse = Cardinality(Manager!Units(Manager!Holding))
  /\ memoryInUse <= MaxMemory
  /\ \A b \in closed : kind[b] # "none"

LEMMA SizesOfParts ==
  SizeOf \in [PartRequests -> Int] /\ MaxMemory \in Nat \ {0}
<1> QED BY MultipartAssumption

\* The manager counts as this module does.
LEMMA SameCount == \A S : Manager!Cardinality(S) = Cardinality(S)
<1> QED BY Zenon DEF Manager!Cardinality, Cardinality

\* A buffer of positive size reserves as many units as its size.
LEMMA UnitsOfOne ==
  ASSUME NEW b \in PartRequests, SizeOf[b] > 0
  PROVE  /\ IsFiniteSet({b} \X (1..SizeOf[b]))
         /\ Cardinality({b} \X (1..SizeOf[b])) = SizeOf[b]
<1>1. SizeOf[b] \in Int
  BY SizesOfParts
<1> DEFINE n == SizeOf[b]
           S == {b}
           T == 1..n
<1>2. IsFiniteSet(T) /\ Cardinality(T) = n
  <2>1. n \in Int /\ n > 0
    BY <1>1
  <2> HIDE DEF n
  <2>2. IsFiniteSet(1..n) /\ Cardinality(1..n) = IF 1 > n THEN 0 ELSE n - 1 + 1
    BY <2>1, FS_Interval
  <2> QED BY <2>1, <2>2
<1>3. IsFiniteSet(S) /\ Cardinality(S) = 1
  BY FS_Singleton
<1> HIDE DEF S, T
<1>4. IsFiniteSet(S \X T) /\ Cardinality(S \X T) = Cardinality(S) * Cardinality(T)
  BY <1>2, <1>3, FS_Product
<1>5. Cardinality(S \X T) = n
  BY <1>1, <1>2, <1>3, <1>4
<1> QED BY <1>4, <1>5 DEF S, T

\* An empty manager has nothing reserved.
LEMMA BudgetInitInv == Manager!BudgetInit => BudgetInv
<1> SUFFICES ASSUME Manager!BudgetInit PROVE BudgetInv
  OBVIOUS
<1>1. Manager!Units(Manager!Holding) = {}
  BY DEF Manager!BudgetInit, Manager!Holding, Manager!Units
<1>2. Manager!BudgetTypeOK
  BY DEF Manager!BudgetInit, Manager!BudgetTypeOK
<1> QED BY <1>1, <1>2, FS_EmptySet, SizesOfParts DEF Manager!BudgetInit, BudgetInv

\* NewFullBuffer reserves what its buffer is created for.
LEMMA NewFullBufferInv ==
  ASSUME BudgetInv, NEW b \in PartRequests, Manager!NewFullBuffer(b)
  PROVE  BudgetInv'
<1>1. /\ memoryInUse \in Nat /\ kind \in [PartRequests -> {"none", "memory", "file"}]
      /\ kind[b] = "none" /\ closed' = closed /\ closed \subseteq PartRequests
      /\ MaxMemory \in Nat /\ SizeOf[b] \in Int
  BY SizesOfParts DEF BudgetInv, Manager!BudgetTypeOK, Manager!NewFullBuffer
<1>2. CASE Manager!Fits(b)
  <2>1. /\ kind' = [kind EXCEPT ![b] = "memory"]
        /\ memoryInUse' = memoryInUse + SizeOf[b]
        /\ SizeOf[b] > 0
        /\ memoryInUse' <= MaxMemory
    BY <1>2 DEF Manager!NewFullBuffer, Manager!Fits
  <2>2. Manager!BudgetTypeOK'
    BY <1>1, <2>1 DEF Manager!BudgetTypeOK
  <2>3. b \notin closed /\ \A c \in closed' : kind'[c] # "none"
    BY <1>1, <2>1 DEF BudgetInv
  <2>4. /\ IsFiniteSet(Manager!Units(Manager!Holding)')
        /\ Cardinality(Manager!Units(Manager!Holding)') = memoryInUse + SizeOf[b]
    <3>1. Manager!Holding' = Manager!Holding \cup {b} /\ b \notin Manager!Holding
      BY <1>1, <2>1, <2>3 DEF Manager!Holding
    <3> DEFINE old == Manager!Units(Manager!Holding)
               new == {b} \X (1..SizeOf[b])
    <3>2. Manager!Units(Manager!Holding)' = old \cup new
      BY <3>1 DEF Manager!Units
    <3>3. old \cap new = {}
      BY <3>1 DEF Manager!Units
    <3>4. IsFiniteSet(old) /\ IsFiniteSet(new)
      BY <2>1, UnitsOfOne DEF BudgetInv
    <3>5. Cardinality(new) = SizeOf[b] /\ Cardinality(old) = memoryInUse
      BY <2>1, UnitsOfOne DEF BudgetInv
    <3> HIDE DEF old, new
    <3>6. /\ IsFiniteSet(old \cup new)
          /\ Cardinality(old \cup new)
               = Cardinality(old) + Cardinality(new) - Cardinality(old \cap new)
      BY <3>4, FS_Union
    <3>7. Cardinality(old \cap new) = 0
      BY <3>3, FS_EmptySet
    <3>8. Cardinality(old \cup new) = memoryInUse + SizeOf[b]
      BY <1>1, <3>5, <3>6, <3>7
    <3> QED BY <3>2, <3>6, <3>8
  <2> QED BY <2>1, <2>2, <2>3, <2>4 DEF BudgetInv
<1>3. CASE ~Manager!Fits(b)
  <2>1. kind' = [kind EXCEPT ![b] = "file"] /\ memoryInUse' = memoryInUse
    BY <1>3 DEF Manager!NewFullBuffer
  <2>2. Manager!Holding' = Manager!Holding
    BY <1>1, <2>1 DEF Manager!Holding
  <2>3. Manager!Units(Manager!Holding)' = Manager!Units(Manager!Holding)
    BY <2>2 DEF Manager!Units
  <2>4. \A c \in closed' : kind'[c] # "none"
    BY <1>1, <2>1 DEF BudgetInv
  <2> QED BY <1>1, <2>1, <2>3, <2>4 DEF BudgetInv, Manager!BudgetTypeOK
<1> QED BY <1>2, <1>3

\* Close returns exactly the reservations of the buffers that were open.
LEMMA CloseAllInv ==
  ASSUME BudgetInv, NEW bs \in SUBSET PartRequests, Manager!CloseAll(bs)
  PROVE  BudgetInv'
<1> DEFINE old == Manager!Units(Manager!Holding)
           freed == Manager!Units(bs \cap Manager!Holding)
<1>1. /\ memoryInUse \in Nat /\ kind' = kind /\ closed' = closed \cup bs
      /\ MaxMemory \in Nat /\ memoryInUse <= MaxMemory
      /\ memoryInUse' = Manager!Without(Cardinality(freed))
      /\ IsFiniteSet(old) /\ memoryInUse = Cardinality(old)
  BY SizesOfParts, SameCount DEF BudgetInv, Manager!BudgetTypeOK, Manager!CloseAll
<1>2. Manager!Holding' = Manager!Holding \ bs
  BY <1>1 DEF Manager!Holding
<1>3. Manager!Units(Manager!Holding)' = old \ freed
  BY <1>2 DEF Manager!Units
<1>4. freed \subseteq old
  BY DEF Manager!Units
<1> HIDE DEF old, freed
<1>5. IsFiniteSet(freed) /\ Cardinality(freed) \in Nat /\ Cardinality(freed) <= Cardinality(old)
  BY <1>1, <1>4, FS_Subset, FS_CardinalityType
<1>6. old \cap freed = freed
  BY <1>4
<1>7. /\ IsFiniteSet(old \ freed)
      /\ Cardinality(old \ freed) = Cardinality(old) - Cardinality(freed)
  BY <1>1, <1>6, FS_Difference
<1>8. memoryInUse' = memoryInUse - Cardinality(freed) /\ memoryInUse' \in Nat
  BY <1>1, <1>5 DEF Manager!Without
<1>9. Manager!BudgetTypeOK'
  BY <1>1, <1>8 DEF BudgetInv, Manager!BudgetTypeOK
<1>10. \A b \in closed' : kind'[b] # "none"
  BY <1>1 DEF BudgetInv, Manager!CloseAll
<1> QED BY <1>1, <1>3, <1>5, <1>7, <1>8, <1>9, <1>10 DEF BudgetInv

\* Every call of the manager and of its buffers keeps the invariant.
LEMMA BudgetNextInv == BudgetInv /\ [Manager!BudgetNext]_(Manager!buffers) => BudgetInv'
<1> SUFFICES ASSUME BudgetInv, [Manager!BudgetNext]_(Manager!buffers) PROVE BudgetInv'
  OBVIOUS
<1>1. CASE \E b \in PartRequests : Manager!NewFullBuffer(b)
  BY <1>1, NewFullBufferInv
<1>2. CASE \E bs \in SUBSET PartRequests : Manager!CloseAll(bs)
  BY <1>2, CloseAllInv
<1>3. CASE UNCHANGED Manager!buffers
  <2>1. Manager!Units(Manager!Holding)' = Manager!Units(Manager!Holding)
    BY <1>3 DEF Manager!buffers, Manager!Units, Manager!Holding
  <2> QED BY <1>3, <2>1 DEF Manager!buffers, BudgetInv, Manager!BudgetTypeOK
<1> QED BY <1>1, <1>2, <1>3 DEF Manager!BudgetNext

\* Whatever the clients of the multipart uploads do, and whoever closes a part,
\* the counter is exact and the parts in memory stay within max_memory.
THEOREM MultipartKeepsBudget ==
  Spec => [](Manager!ReservationsMatch /\ Manager!WithinBudget)
<1>1. BudgetInv => Manager!ReservationsMatch /\ Manager!WithinBudget
  BY SameCount DEF BudgetInv, Manager!ReservationsMatch, Manager!WithinBudget
<1> QED BY <1>1, BudgetInitInv, BudgetNextInv, BudgetImplemented, PTL DEF Manager!BudgetSpec

-----------------------------------------------------------------------------
(* Types.                                                                   *)

Answers == {"none", "ok", "noSuchUpload", "invalidPart", "invalidRequest", "error"}
Objects == [by : Requests, parts : Seq(PartRequests)]

\* What Typed leaves out.
Lists ==
  /\ numbers \in [Requests -> Seq(PartNumbers)]
  /\ collected \in [Requests -> Seq(PartRequests)]
  /\ stored \subseteq Objects

Bounds ==
  /\ keyLock = {} \/ \E r \in Requests : keyLock = {r}
  /\ answer \in [Requests -> Answers]
  /\ faults \in 0..MaxFaults /\ refused \in 0..MaxRefused

\* The lock, the answers and the bounds of every step.
LEMMA BoundsStep ==
  ASSUME Bounds, NEW r \in Requests, Step(r)
  PROVE  Bounds'
<1>1. keyLock' = keyLock \/ keyLock' = {} \/ keyLock' = {r}
  BY DEF Step, CompleteFails, CreateMultipartUpload, GetMultipartSession, NewUploadReader,
     ReceivePart, PutPart, RespondToPart,
     RequestedPartNumbers, AcquireKeyLock, CollectParts, Process,
     DeleteMultipartSession, CloseMultipartParts, ReturnFromComplete
<1>2. \/ answer' = answer
      \/ \E what \in Answers : answer' = [answer EXCEPT ![r] = what]
  BY DEF Step, Goto, Answer, CompleteFails, Answers, CreateMultipartUpload,
     GetMultipartSession, NewUploadReader, ReceivePart, PutPart, RespondToPart,
     RequestedPartNumbers,
     AcquireKeyLock, CollectParts, Process, DeleteMultipartSession, CloseMultipartParts,
     ReturnFromComplete
<1>3. faults' = faults \/ Fault
  BY DEF Step, CreateMultipartUpload, GetMultipartSession, NewUploadReader,
     ReceivePart, PutPart, RespondToPart,
     RequestedPartNumbers, AcquireKeyLock, CollectParts, Process,
     DeleteMultipartSession, CloseMultipartParts, ReturnFromComplete
<1>4. refused' = refused \/ (refused < MaxRefused /\ refused' = refused + 1)
  BY DEF Step, CreateMultipartUpload, GetMultipartSession, NewUploadReader,
     ReceivePart, PutPart, RespondToPart,
     RequestedPartNumbers, AcquireKeyLock, CollectParts, Process,
     DeleteMultipartSession, CloseMultipartParts, ReturnFromComplete
<1>5. faults' \in 0..MaxFaults /\ refused' \in 0..MaxRefused
  BY <1>3, <1>4, MultipartAssumption DEF Bounds, Fault
<1>6. answer' \in [Requests -> Answers]
  BY <1>2 DEF Bounds
<1>7. keyLock' = {} \/ \E q \in Requests : keyLock' = {q}
  BY <1>1 DEF Bounds
<1> QED BY <1>5, <1>6, <1>7 DEF Bounds

\* The buffers of the wanted parts.
LEMMA CollectedType ==
  ASSUME IInv, NEW r \in Requests, NEW ns \in Seq(PartNumbers),
         \A i \in DOMAIN ns : ns[i] \in Present(r)
  PROVE  [i \in DOMAIN ns |-> Session(r)[ns[i]]] \in Seq(PartRequests)
<1>1. \A n \in Present(r) : Session(r)[n] \in PartRequests
  BY PartsOfSession DEF IInv, BuffersOf
<1>2. DOMAIN ns = 1..Len(ns) /\ Len(ns) \in Nat
  OBVIOUS
<1>3. \A i \in 1..Len(ns) : Session(r)[ns[i]] \in PartRequests
  BY <1>1, <1>2
<1> QED BY <1>2, <1>3

\* The lists of numbers and of parts after every step.
LEMMA ListsStep ==
  ASSUME IInv, Lists, NEW r \in Requests, Step(r)
  PROVE  Lists'
<1>1. CASE RequestedPartNumbers(r)
  <2> DEFINE ns == Ascending(IF ListOf[r] # <<>> THEN ListOf[r] ELSE SetToSeq(Present(r)))
  <2>1. ns \in Seq(PartNumbers)
    BY SortedIsWanted DEF Wanted
  <2>2. UNCHANGED <<collected, stored>>
    BY <1>1 DEF RequestedPartNumbers
  <2>3. numbers' = [numbers EXCEPT ![r] = ns] \/ UNCHANGED numbers
    BY <1>1 DEF RequestedPartNumbers
  <2> HIDE DEF ns
  <2> QED BY <2>1, <2>2, <2>3 DEF Lists
<1>2. CASE CollectParts(r)
  <2> DEFINE bs == [i \in DOMAIN numbers[r] |-> Session(r)[numbers[r][i]]]
  <2>1. UNCHANGED <<numbers, stored>>
    BY <1>2 DEF CollectParts
  <2>2. CASE UNCHANGED collected
    BY <2>1, <2>2 DEF Lists
  <2>3. CASE ~MissesPart(r) /\ collected' = [collected EXCEPT ![r] = bs]
    <3>1. numbers[r] \in Seq(PartNumbers)
      BY DEF Lists
    <3>2. bs \in Seq(PartRequests)
      BY <2>3, <3>1, CollectedType DEF MissesPart
    <3> HIDE DEF bs
    <3> QED BY <2>1, <2>3, <3>2 DEF Lists
  <2> QED BY <1>2, <2>2, <2>3 DEF CollectParts
<1>3. CASE Process(r)
  <2>1. UNCHANGED <<numbers, collected>> /\ collected[r] \in Seq(PartRequests)
    BY <1>3 DEF Process, Lists
  <2>2. [by |-> r, parts |-> collected[r]] \in Objects
    BY <2>1 DEF Objects
  <2>3. stored' \subseteq stored \cup {[by |-> r, parts |-> collected[r]]}
    BY <1>3 DEF Process
  <2> QED BY <2>1, <2>2, <2>3 DEF Lists
<1>4. CASE UNCHANGED <<numbers, collected, stored>>
  BY <1>4 DEF Lists
<1> QED BY <1>1, <1>2, <1>3, <1>4 DEF Step, CreateMultipartUpload, GetMultipartSession,
  NewUploadReader, ReceivePart, PutPart, RespondToPart, AcquireKeyLock, DeleteMultipartSession,
  CloseMultipartParts, ReturnFromComplete

\* Every reachable state is well typed: what is collected and stored are lists
\* of buffers, at most one request has the lock, and the counter is a number.
THEOREM TypeCorrect == Spec => []TypeOK
<1>1. Init => Lists /\ Bounds
  <2> SUFFICES ASSUME Init PROVE Lists /\ Bounds
    OBVIOUS
  <2>1. Lists
    BY DEF Init, Lists
  <2>2. Bounds
    BY MultipartAssumption DEF Init, Bounds, Answers
  <2> QED BY <2>1, <2>2
<1>2. IInv /\ Lists /\ Bounds /\ [Next]_vars => Lists' /\ Bounds'
  <2> SUFFICES ASSUME IInv, Lists, Bounds, [Next]_vars PROVE Lists' /\ Bounds'
    OBVIOUS
  <2>1. CASE UNCHANGED vars
    BY <2>1 DEF vars, Lists, Bounds
  <2>2. CASE \E r \in Requests : Step(r)
    BY <2>2, ListsStep, BoundsStep
  <2> QED BY <2>1, <2>2 DEF Next, AllAnswered
<1>3. IInv /\ BudgetInv /\ Lists /\ Bounds => TypeOK
  <2> SUFFICES ASSUME IInv, BudgetInv, Lists, Bounds PROVE TypeOK
    OBVIOUS
  <2>1. keyLock \in SUBSET Requests /\ Cardinality(keyLock) <= 1
    <3>1. CASE keyLock = {}
      <4>1. Cardinality({}) = 0
        BY FS_EmptySet
      <4> QED BY <3>1, <4>1
    <3>2. ASSUME NEW r \in Requests, keyLock = {r}
          PROVE  keyLock \in SUBSET Requests /\ Cardinality(keyLock) <= 1
      <4>1. Cardinality({r}) = 1
        BY FS_Singleton
      <4> QED BY <3>2, <4>1
    <3> QED BY <3>1, <3>2 DEF Bounds
  <2> QED BY <2>1 DEF IInv, Typed, Places, BudgetInv, Lists, Objects, Bounds, Answers, TypeOK
<1> QED BY <1>1, <1>2, <1>3, Invariance, BudgetImplemented, BudgetInitInv, BudgetNextInv, PTL
        DEF Spec, Manager!BudgetSpec
=============================================================================
