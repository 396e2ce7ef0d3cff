--------------------------- MODULE PipelineProofs ---------------------------
(***************************************************************************)
(* Proofs about Pipeline for every body, chunk size, number of retries,    *)
(* number of failures and set of requests: type correctness, the safety    *)
(* invariants of an upload, and that Process implements UploadContract.    *)
(***************************************************************************)
EXTENDS Pipeline, SequenceTheorems, TLAPS

\* The first Len(data) bytes of body are data.
IsPart(data, body) ==
  /\ Len(data) <= Len(body)
  /\ \A i \in 1..Len(data) : data[i] = body[i]

-----------------------------------------------------------------------------
(* Lemmas about files.                                                      *)

\* WriteAt yields content, as long as the old content or up to the end of what
\* was written (copyWithContext writing at the position of the remote file).
LEMMA WriteAtType ==
  ASSUME NEW data \in Seq(Byte), NEW at \in Nat, NEW chunk \in Seq(Byte),
         Zero \in Byte
  PROVE  /\ WriteAt(data, at, chunk) \in Seq(Byte)
         /\ Len(WriteAt(data, at, chunk)) =
              IF at + Len(chunk) > Len(data) THEN at + Len(chunk) ELSE Len(data)
<1> DEFINE end == at + Len(chunk)
           n == IF end > Len(data) THEN end ELSE Len(data)
           byte(i) == IF i > at /\ i <= end THEN chunk[i - at]
                      ELSE IF i <= Len(data) THEN data[i] ELSE Zero
<1>1. n \in Nat /\ end \in Nat
  BY LenProperties
<1>2. \A i \in 1..n : byte(i) \in Byte
  <2>1. TAKE i \in 1..n
  <2>2. CASE i > at /\ i <= end
    <3>1. i - at \in 1..Len(chunk)
      BY <2>2, <1>1, LenProperties
    <3>2. chunk[i - at] \in Byte
      BY <3>1, ElementOfSeq
    <3> QED BY <3>2, <2>2
  <2>3. CASE ~(i > at /\ i <= end) /\ i <= Len(data)
    <3>1. data[i] \in Byte
      BY <2>3, <1>1, ElementOfSeq
    <3> QED BY <3>1, <2>3
  <2>4. CASE ~(i > at /\ i <= end) /\ ~(i <= Len(data))
    BY <2>4
  <2> QED BY <2>2, <2>3, <2>4
<1>3. [i \in 1..n |-> byte(i)] \in [1..n -> Byte]
  BY <1>2
<1>4. WriteAt(data, at, chunk) = [i \in 1..n |-> byte(i)]
  BY DEF WriteAt
<1> HIDE DEF n, byte, end
<1>5. /\ [i \in 1..n |-> byte(i)] \in Seq(Byte)
      /\ Len([i \in 1..n |-> byte(i)]) = n
  BY <1>1, <1>3, SeqDef, LenProperties
<1> QED BY <1>4, <1>5 DEF n, end

\* Writing the bytes of body that belong at a position inside the file keeps
\* the file a beginning of body (what a resumed copy relies on).
LEMMA WriteAtPart ==
  ASSUME NEW data \in Seq(Byte), NEW body \in Seq(Byte), NEW at \in Nat,
         NEW n \in Nat, Zero \in Byte,
         IsPart(data, body), at <= Len(data), at + n <= Len(body)
  PROVE  LET new == WriteAt(data, at, SubSeq(body, at + 1, at + n))
         IN  /\ IsPart(new, body)
             /\ Len(new) = IF at + n > Len(data) THEN at + n ELSE Len(data)
<1> DEFINE chunk == SubSeq(body, at + 1, at + n)
           new == WriteAt(data, at, chunk)
<1>1. /\ chunk \in Seq(Byte)
      /\ Len(chunk) = n
      /\ \A i \in 1..n : chunk[i] = body[at + i]
  <2>1. \A i \in (at + 1)..(at + n) : body[i] \in Byte
    <3>1. TAKE i \in (at + 1)..(at + n)
    <3>2. i \in 1..Len(body)
      BY LenProperties
    <3> QED BY <3>2, ElementOfSeq
  <2>2. /\ chunk \in Seq(Byte)
        /\ Len(chunk) = IF at + 1 <= at + n THEN (at + n) - (at + 1) + 1 ELSE 0
        /\ \A i \in 1..((at + n) - (at + 1) + 1) : chunk[i] = body[(at + 1) + i - 1]
    BY <2>1, SubSeqProperties
  <2>3. (at + n) - (at + 1) + 1 = n
    OBVIOUS
  <2>4. \A i \in 1..n : (at + 1) + i - 1 = at + i
    OBVIOUS
  <2> HIDE DEF chunk
  <2>5. Len(chunk) = n
    BY <2>2
  <2> QED BY <2>2, <2>3, <2>4, <2>5
<1> HIDE DEF chunk
<1>2. /\ new \in Seq(Byte)
      /\ Len(new) = IF at + n > Len(data) THEN at + n ELSE Len(data)
  BY <1>1, WriteAtType
<1>3. \A i \in 1..Len(new) : new[i] = body[i]
  <2>1. TAKE i \in 1..Len(new)
  <2>2. new[i] = IF i > at /\ i <= at + n THEN chunk[i - at]
                 ELSE IF i <= Len(data) THEN data[i] ELSE Zero
    BY <1>1, <1>2, LenProperties DEF WriteAt
  <2>3. CASE i > at /\ i <= at + n
    <3>1. i - at \in 1..n /\ at + (i - at) = i
      BY <2>3
    <3> QED BY <3>1, <2>2, <2>3, <1>1
  <2>4. CASE ~(i > at /\ i <= at + n)
    <3>1. i \in 1..Len(data)
      BY <2>4, <1>2, LenProperties
    <3> QED BY <3>1, <2>2, <2>4 DEF IsPart
  <2> QED BY <2>3, <2>4
<1> HIDE DEF new
<1>4. IsPart(new, body)
  BY <1>2, <1>3, LenProperties DEF IsPart
<1> QED BY <1>2, <1>4 DEF new, chunk

\* A beginning of body that is as long as body is body.
LEMMA PartOfFullLength ==
  ASSUME NEW data \in Seq(Byte), NEW body \in Seq(Byte),
         IsPart(data, body), Len(data) >= Len(body)
  PROVE  data = body
<1>1. Len(data) = Len(body)
  BY LenProperties DEF IsPart
<1> QED BY <1>1, SeqEqual DEF IsPart

\* A file read from its first to its last byte is the file.
LEMMA WholeSubSeq ==
  ASSUME NEW data \in Seq(Byte)
  PROVE  SubSeq(data, 1, Len(data)) = data
<1> DEFINE s == SubSeq(data, 1, Len(data))
<1>1. Len(data) \in Nat /\ \A i \in 1..Len(data) : data[i] \in Byte
  BY ElementOfSeq, LenProperties
<1>2. /\ s \in Seq(Byte)
      /\ Len(s) = IF 1 <= Len(data) THEN Len(data) - 1 + 1 ELSE 0
      /\ \A i \in 1..(Len(data) - 1 + 1) : s[i] = data[1 + i - 1]
  BY <1>1, SubSeqProperties
<1> HIDE DEF s
<1>3. Len(s) = Len(data) /\ Len(data) - 1 + 1 = Len(data) /\ \A i \in 1..Len(data) : 1 + i - 1 = i
  BY <1>1, <1>2
<1>4. s = data
  BY <1>2, <1>3, SeqEqual
<1> QED BY <1>4 DEF s

-----------------------------------------------------------------------------
(* The inductive invariant.                                                 *)

\* Both sides of a copy stand at the same position, inside the remote file and
\* inside the body; a resume starts inside both as well, and
\* the first call of the backend is an Upload.
Positions ==
  /\ offset <= Size
  /\ pc = "hash" => op = "upload"
  /\ pc = "open" /\ op = "resume" => offset <= Len(remote.data)
  /\ pc = "copy" => /\ remote.exists
                    /\ rpos = wpos
                    /\ wpos <= Len(remote.data)
                    /\ rpos <= Size

\* At every moment, between attempts too, the remote file is a beginning of
\* the body.
Beginning == Trusted => IsPart(remote.data, req.body)

\* The copy has returned nil.
Transferred ==
  pc \in {"verify", "rotate"} \/ result = "ok" =>
    /\ remote.exists
    /\ Trusted => remote.data = req.body
    /\ ~Buffered => HeaderAgrees(req.body)

Verification ==
  /\ verified => pc \in {"rotate", "done"}
  /\ VerifiedMatchesExpected

Refused ==
  req.mode = "FULLY_COMPLETE" /\ ~HeaderAgrees(req.body) =>
    pc \in {"hash", "done"} /\ remote = req.prior /\ result # "ok"

Outcome == result = "none" <=> pc # "done"

Inv ==
  /\ TypeOK
  /\ Outcome
  /\ Positions
  /\ Beginning
  /\ Transferred
  /\ Verification
  /\ Refused

\* What the assumptions on the constants say of the request of a typed state.
LEMMA RequestType ==
  ASSUME TypeOK
  PROVE  /\ req \in Request
         /\ req.body \in Seq(Byte)
         /\ Size \in Nat
         /\ req.prior \in File
         /\ ~req.prior.exists => req.prior.data = <<>>
BY PipelineAssumption, LenProperties DEF TypeOK, Request, Size, File

\* What copyWithContext takes from the body with one read.
LEMMA ChunkOfBody ==
  ASSUME TypeOK, rpos <= Size
  PROVE  \E n \in Nat :
           /\ rpos + n <= Size
           /\ Chunk = SubSeq(req.body, rpos + 1, rpos + n)
           /\ Len(Chunk) = n
           /\ \A m \in 0..n : SubSeq(Chunk, 1, m) = SubSeq(req.body, rpos + 1, rpos + m)
<1> DEFINE end == IF rpos + ChunkSize < Size THEN rpos + ChunkSize ELSE Size
           n == end - rpos
<1>1. /\ rpos \in Nat /\ Size \in Nat /\ ChunkSize \in Nat
      /\ req.body \in Seq(Byte)
  BY RequestType, PipelineAssumption DEF TypeOK
<1>2. n \in Nat /\ rpos + n = end /\ end <= Size
  BY <1>1
<1>3. Chunk = SubSeq(req.body, rpos + 1, rpos + n)
  BY <1>2 DEF Chunk
<1> HIDE DEF n, end
<1>4. ASSUME NEW m \in 0..n
      PROVE  /\ SubSeq(req.body, rpos + 1, rpos + m) \in Seq(Byte)
             /\ Len(SubSeq(req.body, rpos + 1, rpos + m)) = m
             /\ \A i \in 1..m : SubSeq(req.body, rpos + 1, rpos + m)[i] = req.body[rpos + i]
  <2>1. \A i \in (rpos + 1)..(rpos + m) : req.body[i] \in Byte
    <3>1. TAKE i \in (rpos + 1)..(rpos + m)
    <3>2. i \in 1..Len(req.body)
      BY <1>1, <1>2 DEF Size
    <3> QED BY <3>2, <1>1, ElementOfSeq
  <2> DEFINE s == SubSeq(req.body, rpos + 1, rpos + m)
  <2>2. /\ s \in Seq(Byte)
        /\ Len(s) = IF rpos + 1 <= rpos + m THEN (rpos + m) - (rpos + 1) + 1 ELSE 0
        /\ \A i \in 1..((rpos + m) - (rpos + 1) + 1) : s[i] = req.body[(rpos + 1) + i - 1]
    BY <1>1, <2>1, SubSeqProperties
  <2>3. /\ (rpos + m) - (rpos + 1) + 1 = m
        /\ \A i \in 1..m : (rpos + 1) + i - 1 = rpos + i
    BY <1>1
  <2> HIDE DEF s
  <2>4. Len(s) = m
    BY <1>1, <2>2
  <2>5. s \in Seq(Byte) /\ Len(s) = m /\ \A i \in 1..m : s[i] = req.body[rpos + i]
    BY <2>2, <2>3, <2>4
  <2> QED BY <2>5 DEF s
<1>5. ASSUME NEW m \in 0..n
      PROVE  SubSeq(Chunk, 1, m) = SubSeq(req.body, rpos + 1, rpos + m)
  <2> DEFINE whole == SubSeq(req.body, rpos + 1, rpos + n)
             t == SubSeq(req.body, rpos + 1, rpos + m)
             s == SubSeq(whole, 1, m)
  <2>1. /\ whole \in Seq(Byte)
        /\ Len(whole) = n
        /\ \A i \in 1..n : whole[i] = req.body[rpos + i]
    BY <1>2, <1>4
  <2>2. /\ t \in Seq(Byte)
        /\ Len(t) = m
        /\ \A i \in 1..m : t[i] = req.body[rpos + i]
    BY <1>2, <1>4
  <2> HIDE DEF whole, t
  <2>3. \A i \in 1..m : whole[i] \in Byte
    BY <2>1, <1>2, ElementOfSeq
  <2>4. /\ s \in Seq(Byte)
        /\ Len(s) = IF 1 <= m THEN m - 1 + 1 ELSE 0
        /\ \A i \in 1..(m - 1 + 1) : s[i] = whole[1 + i - 1]
    BY <2>3, SubSeqProperties
  <2> HIDE DEF s
  <2>5. Len(s) = m /\ m - 1 + 1 = m /\ \A i \in 1..m : 1 + i - 1 = i
    BY <1>2, <2>4
  <2>6. \A i \in 1..m : s[i] = t[i]
    BY <2>1, <2>2, <2>4, <2>5, <1>2
  <2>7. s = t
    BY <2>2, <2>4, <2>5, <2>6, SeqEqual
  <2> QED BY <2>7, <1>3 DEF s, t, whole
<1>6. Len(Chunk) = n
  BY <1>2, <1>3, <1>4
<1> QED BY <1>2, <1>3, <1>5, <1>6

\* One write of copyWithContext, of a whole chunk or of the part of it that a
\* failing call still stored.
LEMMA WriteStep ==
  ASSUME Inv, pc = "copy", NEW n \in Nat, rpos + n <= Size,
         NEW bytes \in StoredAs(SubSeq(req.body, rpos + 1, rpos + n)), Put(bytes)
  PROVE  /\ remote' \in File
         /\ remote'.exists
         /\ Len(remote'.data) >= wpos + n
         /\ Len(remote'.data) >= Len(remote.data)
         /\ Trusted => IsPart(remote'.data, req.body)
<1>1. /\ rpos \in Nat /\ wpos = rpos /\ Size = Len(req.body) /\ Size \in Nat
      /\ req.body \in Seq(Byte) /\ Zero \in Byte
      /\ remote \in File /\ remote.exists /\ remote.data \in Seq(Byte)
      /\ wpos <= Len(remote.data) /\ Len(remote.data) \in Nat
  BY RequestType, PipelineAssumption, LenProperties
  DEF Inv, TypeOK, Positions, File, Size
<1> DEFINE part == SubSeq(req.body, rpos + 1, rpos + n)
           new == WriteAt(remote.data, wpos, bytes)
<1>2. part \in Seq(Byte) /\ Len(part) = n
  <2>1. \A i \in (rpos + 1)..(rpos + n) : req.body[i] \in Byte
    <3>1. TAKE i \in (rpos + 1)..(rpos + n)
    <3>2. i \in 1..Len(req.body)
      BY <1>1
    <3> QED BY <3>2, <1>1, ElementOfSeq
  <2>2. /\ part \in Seq(Byte)
        /\ Len(part) = IF rpos + 1 <= rpos + n THEN (rpos + n) - (rpos + 1) + 1 ELSE 0
    BY <1>1, <2>1, SubSeqProperties
  <2> HIDE DEF part
  <2> QED BY <1>1, <2>2
<1>3. bytes \in Seq(Byte) /\ Len(bytes) = n /\ (~req.damage => bytes = part)
  <2>1. CASE req.damage
    <3>1. bytes \in [1..n -> Byte]
      BY <2>1, <1>2 DEF StoredAs
    <3> QED BY <3>1, <2>1, SeqDef, LenProperties
  <2>2. CASE ~req.damage
    BY <2>2, <1>2 DEF StoredAs
  <2> QED BY <2>1, <2>2
<1>4. /\ new \in Seq(Byte)
      /\ Len(new) = IF wpos + n > Len(remote.data) THEN wpos + n ELSE Len(remote.data)
  BY <1>1, <1>3, WriteAtType
<1>5. Trusted => IsPart(new, req.body)
  <2>1. HAVE Trusted
  <2>2. IsPart(remote.data, req.body) /\ bytes = part
    BY <2>1, <1>3 DEF Inv, Beginning, Trusted
  <2>3. wpos + n <= Len(req.body)
    BY <1>1
  <2>4. IsPart(WriteAt(remote.data, wpos, SubSeq(req.body, wpos + 1, wpos + n)), req.body)
    BY <1>1, <2>2, <2>3, WriteAtPart
  <2> QED BY <1>1, <2>2, <2>4
<1>6. remote' = [remote EXCEPT !.data = new]
  BY DEF Put
<1> HIDE DEF new, part
<1>7. remote' \in File /\ remote'.data = new /\ remote'.exists = remote.exists
  BY <1>1, <1>4, <1>6 DEF File
<1> QED BY <1>1, <1>4, <1>5, <1>7

-----------------------------------------------------------------------------
(* The invariant is inductive.                                              *)

\* Process starts, and finds the path, as the invariant says.
LEMMA InitInv == Init => Inv
<1> SUFFICES ASSUME Init PROVE Inv
  OBVIOUS
<1>1. TypeOK
  <2>1. req.prior \in File
    BY PipelineAssumption DEF Init, Request
  <2>2. 0 \in 0..MaxRetries /\ 0 \in 0..MaxFaults
    BY PipelineAssumption
  <2> QED BY <2>1, <2>2 DEF Init, TypeOK
<1>2. Beginning
  <2>1. Trusted => remote.data = <<>>
    BY <1>1, RequestType DEF Init, Trusted
  <2> QED BY <1>1, <2>1, RequestType, LenProperties, EmptySeq DEF Beginning, IsPart, Size
<1>3. Positions
  BY <1>1, RequestType DEF Init, Positions
<1> QED BY <1>1, <1>2, <1>3
  DEF Init, Inv, Outcome, Transferred, Verification, VerifiedMatchesExpected,
      Accepted, Refused

\* An upload that goes on storing was not refused.
LEMMA NotRefused ==
  ASSUME Inv, pc \notin {"hash", "done"}
  PROVE  ~(req.mode = "FULLY_COMPLETE" /\ ~HeaderAgrees(req.body))
BY DEF Inv, Refused

\* Hashing the body stores nothing; what it lets pass agrees with the header.
LEMMA HashUploadReaderInv == Inv /\ HashUploadReader => Inv'
<1> SUFFICES ASSUME Inv, HashUploadReader PROVE Inv'
  OBVIOUS
<1>1. TypeOK'
  <2>1. faults' \in 0..MaxFaults
    BY PipelineAssumption DEF Inv, TypeOK, HashUploadReader, Rejected, Fault
  <2> QED BY <2>1 DEF Inv, TypeOK, HashUploadReader, Rejected, Return, Continue
<1>2. Refused'
  BY DEF Inv, Outcome, Refused, HashUploadReader, Rejected, Return, Continue, HeaderAgrees
<1> QED BY <1>1, <1>2
  DEF Inv, TypeOK, HashUploadReader, Rejected, Return, Continue, Outcome, Positions, Size,
      Beginning, Trusted, Transferred, Verification, VerifiedMatchesExpected,
      Accepted, Expected

\* An OFF upload goes on without a look at its body.
LEMMA StartOffInv == Inv /\ StartOff => Inv'
<1> SUFFICES ASSUME Inv, StartOff PROVE Inv'
  OBVIOUS
<1>1. TypeOK'
  BY DEF Inv, TypeOK, StartOff, Continue
<1> QED BY <1>1
  DEF Inv, TypeOK, StartOff, Continue, Outcome, Positions, Size, Buffered, Refused,
      Beginning, Trusted, Transferred, Verification, VerifiedMatchesExpected,
      Accepted, Expected

\* Upload starts over with an empty file, a beginning of every body.
LEMMA OpenUploadInv == Inv /\ OpenUpload => Inv'
<1> SUFFICES ASSUME Inv, OpenUpload PROVE Inv'
  OBVIOUS
<1>1. remote' \in File /\ remote'.exists /\ remote'.data = <<>> /\ Len(remote'.data) = 0
  BY EmptySeq DEF OpenUpload, File
<1>2. TypeOK'
  BY <1>1 DEF Inv, TypeOK, OpenUpload, Continue
<1>3. Beginning'
  BY <1>1, RequestType DEF Inv, OpenUpload, Beginning, IsPart, Size
<1>4. Positions'
  BY <1>1, RequestType DEF Inv, OpenUpload, Continue, Positions, Size
<1>5. Refused'
  BY NotRefused DEF Inv, OpenUpload, Refused, HeaderAgrees
<1> QED BY <1>1, <1>2, <1>3, <1>4, <1>5
  DEF Inv, OpenUpload, Continue, Outcome, Transferred, Verification,
      VerifiedMatchesExpected, Accepted

\* ResumeUpload continues inside the file, at the same place of body and file.
LEMMA OpenResumeInv == Inv /\ OpenResume => Inv'
<1> SUFFICES ASSUME Inv, OpenResume PROVE Inv'
  OBVIOUS
<1>1. remote' \in File /\ remote'.exists /\ remote'.data = remote.data
  BY DEF Inv, TypeOK, OpenResume, File
<1>2. TypeOK'
  BY <1>1 DEF Inv, TypeOK, OpenResume, Continue
<1>3. Beginning'
  BY <1>1 DEF Inv, OpenResume, Beginning, Trusted
<1>4. Positions'
  BY <1>1 DEF Inv, OpenResume, Continue, Positions, Size
<1>5. Refused'
  BY NotRefused DEF Inv, OpenResume, Refused, HeaderAgrees
<1> QED BY <1>1, <1>2, <1>3, <1>4, <1>5
  DEF Inv, OpenResume, Continue, Outcome, Transferred, Verification,
      VerifiedMatchesExpected, Accepted

\* A backend call that moves data fails and leaves a beginning of the body
\* behind: the next attempt, or giving up, keeps the invariant.
LEMMA TransferFailedInv ==
  ASSUME Inv, pc \in {"open", "copy"}, TransferFailed,
         UNCHANGED <<req, hung, offset, rpos, wpos, cancelled, verified>>,
         faults' \in 0..MaxFaults, remote' \in File,
         Trusted => IsPart(remote'.data, req.body)
  PROVE  Inv'
<1>1. TypeOK'
  <2>1. attempt' \in 0..MaxRetries
    BY PipelineAssumption DEF Inv, TypeOK, TransferFailed, Retry, GiveUp, Retries
  <2> QED BY <2>1 DEF Inv, TypeOK, TransferFailed, Retry, GiveUp, Retries, Return, Continue
<1>2. pc' \in {"stat", "done"} /\ result' # "ok" /\ Outcome'
  BY DEF Inv, Outcome, TransferFailed, Retry, GiveUp, Retries, Return, Continue
<1>3. Positions' /\ Beginning'
  BY <1>2 DEF Inv, Positions, Beginning, Trusted, Size
<1>4. ~verified'
  BY DEF Inv, Verification
<1>5. Refused'
  BY NotRefused DEF Refused, HeaderAgrees
<1> QED BY <1>1, <1>2, <1>3, <1>4, <1>5
  DEF Inv, Transferred, Verification, VerifiedMatchesExpected, Accepted

\* A call that fails before its first byte leaves the file, or empties it.
LEMMA OpenFailsInv == Inv /\ OpenFails => Inv'
<1> SUFFICES ASSUME Inv, OpenFails PROVE Inv'
  OBVIOUS
<1>1. /\ remote' \in File
      /\ remote'.data = remote.data \/ remote'.data = <<>>
  <2>1. remote.data \in Seq(Byte) /\ <<>> \in Seq(Byte)
    BY EmptySeq DEF Inv, TypeOK, File
  <2> DEFINE content == IF op = "resume" THEN remote.data ELSE <<>>
             opened == [exists |-> TRUE, data |-> content]
  <2>2. content \in Seq(Byte) /\ (content = remote.data \/ content = <<>>)
    BY <2>1
  <2>3. remote' = remote \/ remote' = opened
    BY DEF OpenFails
  <2> HIDE DEF content
  <2>4. opened \in File /\ opened.data = content
    BY <2>2 DEF File
  <2>5. CASE remote' = remote
    BY <2>5 DEF Inv, TypeOK
  <2>6. CASE remote' = opened
    BY <2>6, <2>4, <2>2
  <2> QED BY <2>3, <2>5, <2>6
<1>2. Trusted => IsPart(remote'.data, req.body)
  <2>1. IsPart(<<>>, req.body)
    BY EmptySeq, RequestType DEF Inv, IsPart, Size
  <2> QED BY <1>1, <2>1 DEF Inv, Beginning
<1>3. faults' \in 0..MaxFaults
  BY PipelineAssumption DEF Inv, TypeOK, OpenFails, Fault
<1> QED BY <1>1, <1>2, <1>3, TransferFailedInv DEF OpenFails

\* The offset that RemoteSize yields is within the file and within the body.
LEMMA RemoteSizeInv == Inv /\ RemoteSize => Inv'
<1> SUFFICES ASSUME Inv, RemoteSize PROVE Inv'
  OBVIOUS
<1>1. /\ offset' \in Nat
      /\ offset' <= Size
      /\ offset' <= Len(remote.data)
      /\ faults' \in 0..MaxFaults
  <2>1. Size \in Nat /\ Len(remote.data) \in Nat
    BY RequestType, LenProperties DEF Inv, TypeOK, File
  <2>2. faults' \in 0..MaxFaults
    BY PipelineAssumption DEF Inv, TypeOK, RemoteSize, Fault
  <2> QED BY <2>1, <2>2 DEF RemoteSize
<1>2. TypeOK'
  BY <1>1 DEF Inv, TypeOK, RemoteSize, Continue
<1>3. Positions'
  BY <1>1 DEF Inv, RemoteSize, Continue, Positions, Size
<1>4. Refused'
  BY NotRefused DEF Inv, RemoteSize, Refused, HeaderAgrees
<1> QED BY <1>2, <1>3, <1>4
  DEF Inv, RemoteSize, Continue, Outcome, Beginning, Trusted, Transferred,
      Verification, VerifiedMatchesExpected, Accepted

\* A backend call that moves data has stored the body to its end.
LEMMA TransferDoneInv ==
  ASSUME Inv, pc = "copy", TransferDone, rpos' = Size, wpos' \in Nat,
         UNCHANGED <<req, hung, op, attempt, offset, cancelled, verified, faults>>,
         remote' \in File, remote'.exists, Len(remote'.data) >= Size,
         Trusted => IsPart(remote'.data, req.body)
  PROVE  Inv'
<1>1. /\ req.body \in Seq(Byte) /\ Size = Len(req.body) /\ Size \in Nat
      /\ remote'.data \in Seq(Byte)
  BY RequestType DEF Inv, File, Size
<1>2. Trusted => remote'.data = req.body
  BY <1>1, PartOfFullLength
<1>3. SubSeq(req.body, 1, rpos') = req.body
  BY <1>1, WholeSubSeq
<1>4. /\ pc' \in {"verify", "rotate", "done"}
      /\ pc' # "done" => result' = result /\ (~Buffered => HeaderAgrees(req.body))
      /\ pc' = "done" => result' = "verificationFailed"
      /\ pc' = "rotate" => ~req.verification
  BY <1>3 DEF TransferDone, Return, Continue
<1>5. TypeOK'
  <2>1. result' \in {"none", "ok", "verificationFailed", "error"}
    BY <1>4 DEF Inv, TypeOK
  <2>2. pc' \in {"hash", "stat", "open", "copy", "verify", "rotate", "done"}
    BY <1>4
  <2> QED BY <1>1, <2>1, <2>2 DEF Inv, TypeOK
<1>6. Outcome' /\ result' # "ok"
  BY <1>4 DEF Inv, Outcome
<1>7. Positions' /\ Beginning'
  BY <1>4 DEF Inv, Positions, Beginning, Trusted, Size
<1>8. Transferred'
  BY <1>2, <1>4, <1>6 DEF Transferred, Trusted, Buffered, HeaderAgrees
<1>9. ~verified'
  BY DEF Inv, Verification
<1>10. Verification'
  BY <1>4, <1>6, <1>9 DEF Verification, VerifiedMatchesExpected, Accepted
<1>11. Refused'
  BY NotRefused DEF Refused, HeaderAgrees
<1> QED BY <1>5, <1>6, <1>7, <1>8, <1>10, <1>11 DEF Inv

\* A read and a write of copyWithContext, the last one included.
LEMMA CopyChunkInv == Inv /\ CopyChunk => Inv'
<1> SUFFICES ASSUME Inv, CopyChunk PROVE Inv'
  OBVIOUS
<1>1. /\ TypeOK /\ pc = "copy" /\ rpos <= Size /\ wpos = rpos /\ rpos \in Nat
      /\ Size \in Nat /\ Size = Len(req.body)
  BY RequestType DEF Inv, TypeOK, CopyChunk, Positions, Size
<1>2. PICK n \in Nat : /\ rpos + n <= Size
                       /\ Chunk = SubSeq(req.body, rpos + 1, rpos + n)
                       /\ Len(Chunk) = n
  BY <1>1, ChunkOfBody
<1>3. PICK bytes \in StoredAs(SubSeq(req.body, rpos + 1, rpos + n)) : Put(bytes)
  BY <1>2 DEF CopyChunk
<1>4. /\ remote' \in File
      /\ remote'.exists
      /\ Len(remote'.data) >= wpos + n
      /\ Trusted => IsPart(remote'.data, req.body)
  BY <1>1, <1>2, <1>3, WriteStep
<1>5. rpos' = rpos + n /\ wpos' = wpos + n
  BY <1>2 DEF CopyChunk
<1>6. UNCHANGED <<req, hung, op, attempt, offset, cancelled, verified, faults>>
  BY DEF CopyChunk
<1>7. CASE Continue("copy")
  <2>1. TypeOK'
    BY <1>1, <1>4, <1>5, <1>6, <1>7 DEF TypeOK, Continue
  <2>2. Positions'
    BY <1>1, <1>2, <1>4, <1>5, <1>6, <1>7 DEF Inv, Positions, Continue, Size
  <2>3. Beginning'
    BY <1>4, <1>6 DEF Beginning, Trusted
  <2>4. Refused'
    BY <1>1, <1>6, NotRefused DEF Refused, HeaderAgrees
  <2>5. Outcome' /\ Transferred' /\ Verification'
    BY <1>1, <1>6, <1>7 DEF Inv, Outcome, Transferred, Verification,
         VerifiedMatchesExpected, Accepted, Continue
  <2> QED BY <2>1, <2>2, <2>3, <2>4, <2>5 DEF Inv
<1>8. CASE rpos' = Size /\ TransferDone
  <2>1. Len(remote'.data) >= Size /\ wpos' \in Nat
    BY <1>1, <1>2, <1>4, <1>5, <1>8
  <2> QED BY <1>1, <1>4, <1>6, <1>8, <2>1, TransferDoneInv
<1> QED BY <1>7, <1>8 DEF CopyChunk

\* The read that finds the end of the body.
LEMMA CopyEOFInv == Inv /\ CopyEOF => Inv'
<1> SUFFICES ASSUME Inv, CopyEOF PROVE Inv'
  OBVIOUS
<1>1. /\ pc = "copy" /\ remote.exists /\ remote \in File /\ remote.data \in Seq(Byte)
      /\ rpos <= Size /\ rpos >= Size /\ wpos = rpos /\ wpos <= Len(remote.data)
      /\ rpos \in Nat /\ Size \in Nat /\ Len(remote.data) \in Nat
  BY RequestType, LenProperties DEF Inv, TypeOK, CopyEOF, Positions, File
<1>2. rpos = Size /\ Len(remote.data) >= Size
  BY <1>1
<1>3. UNCHANGED <<req, hung, op, attempt, offset, rpos, wpos, remote, cancelled,
                  verified, faults>>
  BY DEF CopyEOF
<1>4. Trusted => IsPart(remote'.data, req.body)
  BY <1>3 DEF Inv, Beginning
<1> QED BY <1>1, <1>2, <1>3, <1>4, TransferDoneInv DEF CopyEOF

\* The context ends between two reads of copyWithContext.
LEMMA CopyCancelledInv == Inv /\ CopyCancelled => Inv'
<1> SUFFICES ASSUME Inv, CopyCancelled PROVE Inv'
  OBVIOUS
<1>1. remote' \in File /\ faults' \in 0..MaxFaults
  BY DEF Inv, TypeOK, CopyCancelled
<1>2. Trusted => IsPart(remote'.data, req.body)
  BY DEF Inv, Beginning, CopyCancelled
<1> QED BY <1>1, <1>2, TransferFailedInv DEF CopyCancelled

\* A read or a write fails after a part of the chunk was stored.
LEMMA CopyFailsInv == Inv /\ CopyFails => Inv'
<1> SUFFICES ASSUME Inv, CopyFails PROVE Inv'
  OBVIOUS
<1>1. TypeOK /\ pc = "copy" /\ rpos <= Size /\ rpos \in Nat /\ Size \in Nat
  BY RequestType DEF Inv, TypeOK, CopyFails, Positions
<1>2. PICK n \in Nat :
        /\ rpos + n <= Size
        /\ Len(Chunk) = n
        /\ \A m \in 0..n : SubSeq(Chunk, 1, m) = SubSeq(req.body, rpos + 1, rpos + m)
  BY <1>1, ChunkOfBody
<1>3. PICK m \in 0..n : \E bytes \in StoredAs(SubSeq(Chunk, 1, m)) : Put(bytes)
  BY <1>2 DEF CopyFails
<1>4. PICK bytes \in StoredAs(SubSeq(req.body, rpos + 1, rpos + m)) : Put(bytes)
  BY <1>2, <1>3
<1>5. m \in Nat /\ rpos + m <= Size
  BY <1>1, <1>2
<1>6. remote' \in File /\ (Trusted => IsPart(remote'.data, req.body))
  BY <1>1, <1>4, <1>5, WriteStep
<1>7. faults' \in 0..MaxFaults
  BY PipelineAssumption DEF Inv, TypeOK, CopyFails, Fault
<1> QED BY <1>1, <1>6, <1>7, TransferFailedInv DEF CopyFails

\* Steps after the transfer that leave the remote file alone.
LEMMA DownloadFailsInv == Inv /\ DownloadFails => Inv'
<1> SUFFICES ASSUME Inv, DownloadFails PROVE Inv'
  OBVIOUS
<1>1. TypeOK'
  <2>1. faults' \in 0..MaxFaults
    BY PipelineAssumption DEF Inv, TypeOK, DownloadFails, Fault
  <2> QED BY <2>1 DEF Inv, TypeOK, DownloadFails, Return
<1>2. Refused'
  BY NotRefused DEF DownloadFails, Refused, HeaderAgrees
<1> QED BY <1>1, <1>2
  DEF Inv, DownloadFails, Return, Outcome, Positions, Size, Beginning, Trusted,
      Transferred, Verification, VerifiedMatchesExpected, Accepted

\* Verify has seen the expected digest on the storage.
LEMMA VerifyMatchesInv == Inv /\ VerifyMatches => Inv'
<1> SUFFICES ASSUME Inv, VerifyMatches PROVE Inv'
  OBVIOUS
<1>1. TypeOK'
  BY DEF Inv, TypeOK, VerifyMatches, Continue
<1>2. Refused'
  BY NotRefused DEF Inv, VerifyMatches, Refused, HeaderAgrees
<1>3. Transferred'
  BY DEF Inv, VerifyMatches, Continue, Transferred, Trusted, Buffered, HeaderAgrees
<1>4. Verification'
  <2>1. remote.exists /\ Sha256Hex(remote.data) = Expected
    BY DEF Inv, Transferred, VerifyMatches
  <2>2. Expected' = Expected /\ remote' = remote
    BY DEF VerifyMatches, Expected
  <2> QED BY <2>1, <2>2 DEF VerifyMatches, Continue, Verification,
        VerifiedMatchesExpected, Sha256Hex
<1> QED BY <1>1, <1>2, <1>3, <1>4
  DEF Inv, VerifyMatches, Continue, Outcome, Positions, Size, Beginning, Trusted

\* Verify has seen another digest: Upload once more, or the end.
LEMMA VerifyMismatchInv == Inv /\ VerifyMismatch => Inv'
<1> SUFFICES ASSUME Inv, VerifyMismatch PROVE Inv'
  OBVIOUS
<1>1. TypeOK'
  BY DEF Inv, TypeOK, VerifyMismatch, Continue, Return
<1>2. Refused'
  BY NotRefused DEF VerifyMismatch, Refused, HeaderAgrees
<1>3. pc' \in {"open", "done"} /\ result' # "ok" /\ Outcome'
      /\ (pc' = "open" => op' = "retransmit")
  BY DEF Inv, VerifyMismatch, Continue, Return, Outcome
<1>4. Positions'
  BY <1>3 DEF Inv, VerifyMismatch, Positions, Size
<1> QED BY <1>1, <1>2, <1>3, <1>4
  DEF Inv, VerifyMismatch, Beginning, Trusted,
      Transferred, Verification, VerifiedMatchesExpected, Accepted

\* The rotation leaves the file of this upload as it is.
LEMMA ApplyRotationInv == Inv /\ ApplyRotation => Inv'
<1> SUFFICES ASSUME Inv, ApplyRotation PROVE Inv'
  OBVIOUS
<1>1. TypeOK'
  <2>1. faults' \in 0..MaxFaults
    BY PipelineAssumption DEF Inv, TypeOK, ApplyRotation, Fault
  <2> QED BY <2>1 DEF Inv, TypeOK, ApplyRotation, Return
<1>2. Refused'
  BY NotRefused DEF ApplyRotation, Refused, HeaderAgrees
<1>3. Verification'
  <2>1. Expected' = Expected /\ remote' = remote /\ verified' = verified /\ req' = req
    BY DEF ApplyRotation, Expected
  <2>2. pc = "rotate" /\ pc' = "done"
    BY DEF ApplyRotation, Return
  <2> QED BY <2>1, <2>2 DEF Inv, Verification, VerifiedMatchesExpected, Accepted,
        Sha256Hex
<1>4. Transferred'
  BY DEF Inv, ApplyRotation, Return, Transferred, Trusted, Buffered, HeaderAgrees
<1> QED BY <1>1, <1>2, <1>3, <1>4
  DEF Inv, ApplyRotation, Return, Outcome, Positions, Size, Beginning, Trusted

\* The invariant does not speak of the context or of stuttering steps.
LEMMA UnobservedInv ==
  Inv /\ UNCHANGED <<req, pc, op, attempt, offset, rpos, wpos, remote, verified, result,
                     faults>> /\ cancelled' \in BOOLEAN /\ hung' \in BOOLEAN => Inv'
BY DEF Inv, TypeOK, Outcome, Positions, Size, Beginning, Trusted, Transferred,
       Buffered, HeaderAgrees, Verification, VerifiedMatchesExpected, Accepted,
       Expected, Sha256Hex, EqualFold, Refused

\* Every step of Process and of its environment keeps the invariant.
LEMMA NextInv == Inv /\ [Next]_vars => Inv'
<1> SUFFICES ASSUME Inv, [Next]_vars PROVE Inv'
  OBVIOUS
<1>1. CASE HashUploadReader \/ StartOff
  BY <1>1, HashUploadReaderInv, StartOffInv
<1>2. CASE OpenUpload \/ OpenResume \/ OpenFails \/ RemoteSize
  BY <1>2, OpenUploadInv, OpenResumeInv, OpenFailsInv, RemoteSizeInv
<1>3. CASE CopyChunk \/ CopyEOF \/ CopyCancelled \/ CopyFails
  BY <1>3, CopyChunkInv, CopyEOFInv, CopyCancelledInv, CopyFailsInv
<1>4. CASE DownloadFails \/ VerifyMatches \/ VerifyMismatch \/ ApplyRotation
  BY <1>4, DownloadFailsInv, VerifyMatchesInv, VerifyMismatchInv, ApplyRotationInv
<1>5. CASE Cancel \/ Hangs
  BY <1>5, UnobservedInv DEF Cancel, Hangs, Inv, TypeOK
<1>6. CASE UNCHANGED vars
  BY <1>6, UnobservedInv DEF vars, Inv, TypeOK
<1> QED BY <1>1, <1>2, <1>3, <1>4, <1>5, <1>6 DEF Next, Step, Returned

-----------------------------------------------------------------------------
(* What holds in every reachable state, and the contract.                   *)

\* The invariant of Process: a trusted file is a beginning of the body until
\* the transfer ends, and the positions of the two sides agree.
THEOREM Invariance == Spec => []Inv
<1>1. Init => Inv
  BY InitInv
<1>2. Inv /\ [Next]_vars => Inv'
  BY NextInv
<1> QED BY <1>1, <1>2, PTL DEF Spec

\* Every state of an upload is well typed.
THEOREM TypeCorrect == Spec => []TypeOK
<1>1. Inv => TypeOK
  BY DEF Inv
<1> QED BY <1>1, Invariance, PTL

\* Without damage and on a free path an upload that is accepted has stored the
\* body, byte for byte, whatever calls failed and were resumed.
THEOREM StoredCorrect == Spec => []StoredWhenTrusted
<1>1. Inv => StoredWhenTrusted
  <2> SUFFICES ASSUME Inv, Accepted, Trusted
               PROVE  remote = [exists |-> TRUE, data |-> req.body]
    BY DEF StoredWhenTrusted
  <2>1. remote.exists /\ remote.data = req.body
    BY DEF Inv, Transferred, Accepted
  <2>2. remote \in File
    BY DEF Inv, TypeOK
  <2> QED BY <2>1, <2>2 DEF File
<1> QED BY <1>1, Invariance, PTL

\* With verification, even a storage that damages bytes or held another file
\* at the path has the expected content when the upload is accepted.
THEOREM VerifiedCorrect == Spec => []VerifiedMatchesExpected
<1>1. Inv => VerifiedMatchesExpected
  BY DEF Inv, Verification
<1> QED BY <1>1, Invariance, PTL

\* A FULLY_COMPLETE upload that disagrees with its header leaves the path alone.
THEOREM RefusedCorrect == Spec => []RejectedLeavesRemote
<1>1. Inv => RejectedLeavesRemote
  BY DEF Inv, Refused, RejectedLeavesRemote
<1> QED BY <1>1, Invariance, PTL

\* What one step of Process may do to the parts of its state that the contract
\* of an upload shows.
LEMMA StepEffect ==
  ASSUME Inv, [Next]_vars
  PROVE  /\ req' = req
         /\ pc = "done" => UNCHANGED <<pc, remote, result>>
         /\ pc = "rotate" =>
              /\ remote' = remote
              /\ \/ pc' = "done" /\ result' \in {"ok", "error"}
                 \/ pc' = pc /\ result' = result
         /\ pc # "rotate" /\ result # "ok" => result' # "ok"
<1>1. CASE HashUploadReader \/ StartOff
  BY <1>1 DEF HashUploadReader, Rejected, StartOff, Return, Continue
<1>2. CASE OpenUpload \/ OpenResume
  BY <1>2 DEF OpenUpload, OpenResume, Continue
<1>3. CASE OpenFails
  BY <1>3 DEF OpenFails, TransferFailed, Retry, GiveUp, Retries, Return, Continue
<1>4. CASE RemoteSize
  BY <1>4 DEF RemoteSize, Continue
<1>5. CASE CopyChunk
  <2>1. pc = "copy" /\ req' = req
    BY <1>5 DEF CopyChunk
  <2>2. result' = result \/ result' = "verificationFailed"
    BY <1>5 DEF CopyChunk, TransferDone, Return, Continue
  <2> QED BY <2>1, <2>2
<1>6. CASE CopyEOF
  BY <1>6 DEF CopyEOF, TransferDone, Return, Continue
<1>7. CASE CopyCancelled \/ CopyFails
  BY <1>7 DEF CopyCancelled, CopyFails, TransferFailed, Retry, GiveUp, Retries, Return, Continue
<1>8. CASE DownloadFails \/ VerifyMatches \/ VerifyMismatch
  BY <1>8 DEF DownloadFails, VerifyMatches, VerifyMismatch, Return, Continue
<1>9. CASE ApplyRotation
  BY <1>9 DEF ApplyRotation, Return
<1>10. CASE Cancel \/ Hangs
  BY <1>10 DEF Cancel, Hangs
<1>11. CASE UNCHANGED vars
  BY <1>11 DEF vars
<1> QED BY <1>1, <1>2, <1>3, <1>4, <1>5, <1>6, <1>7, <1>8, <1>9, <1>10, <1>11
  DEF Next, Step, Returned

\* An upload that starts is an upload the contract lets start.
LEMMA InitContract == Init => Contract!Init
BY DEF Init, Contract!Init, Phase

\* The contract reads the header as the handlers do.
LEMMA MisannouncedMeaning == Contract!Misannounced(req) <=> ~HeaderAgrees(req.body)
BY DEF Contract!Misannounced, HeaderAgrees, EqualFold, Sha256Hex

\* What Process has checked when the rotation begins is what the contract asks
\* of an object that is accepted.
AcceptsAcceptable == pc = "rotate" => Contract!Acceptable(req, remote)

\* The invariant makes an accepted file an acceptable object.
LEMMA AcceptedIsAcceptable == Inv => AcceptsAcceptable
<1> SUFFICES ASSUME Inv, pc = "rotate" PROVE Contract!Acceptable(req, remote)
  BY DEF AcceptsAcceptable
<1>1. remote.exists /\ (Trusted => remote.data = req.body)
  BY DEF Inv, Transferred
<1>2. Trusted => remote = [exists |-> TRUE, data |-> req.body]
  BY <1>1 DEF Inv, TypeOK, File
<1>3. req.verification => Sha256Hex(remote.data) = Expected
  BY DEF Inv, Verification, VerifiedMatchesExpected, Accepted
<1>4. req.mode # "FULLY_IMMEDIATELY" => HeaderAgrees(req.body)
  <2>1. req.mode \in Modes
    BY RequestType DEF Inv, Request
  <2>2. req.mode = "OFF" => HeaderAgrees(req.body)
    BY DEF Inv, Transferred, Buffered
  <2>3. req.mode = "FULLY_COMPLETE" => HeaderAgrees(req.body)
    BY NotRefused
  <2> QED BY <2>1, <2>2, <2>3 DEF Modes
<1> QED BY <1>2, <1>3, <1>4, MisannouncedMeaning
  DEF Contract!Acceptable, Contract!Wanted, Trusted, Sha256Hex, Expected

\* Every step of Process is a step of the contract or changes nothing it shows.
LEMMA NextContract ==
  ASSUME Inv, Inv', AcceptsAcceptable', [Next]_vars
  PROVE  [Contract!Next]_(Contract!vars)
<1> DEFINE storing == pc \notin {"rotate", "done"}
<1>1. req' = req /\ remote' \in File
  BY StepEffect DEF Inv, TypeOK
<1>2. CASE pc = "done"
  BY <1>2, <1>1, StepEffect DEF Contract!vars, Phase
<1>3. CASE pc = "rotate"
  <2>1. CASE pc' = "done" /\ result' \in {"ok", "error"}
    BY <1>3, <2>1, <1>1, StepEffect DEF Contract!Next, Contract!Finish, Phase
  <2>2. CASE pc' = pc /\ result' = result
    BY <1>3, <2>2, <1>1, StepEffect DEF Contract!vars, Phase
  <2> QED BY <1>3, <2>1, <2>2, StepEffect
<1>4. CASE storing /\ pc' = "rotate"
  <2>1. Contract!Acceptable(req, remote')
    BY <1>1, <1>4 DEF AcceptsAcceptable
  <2>2. result' = result
    BY <1>4 DEF Inv, Outcome
  <2> QED BY <1>1, <1>4, <2>1, <2>2 DEF Contract!Next, Contract!Accept, Phase,
        Contract!File, File
<1>5. CASE storing /\ pc' = "done"
  <2>1. result' \in {"verificationFailed", "error"}
    BY <1>5, StepEffect DEF Inv, Outcome, TypeOK
  <2>2. Contract!Untouchable(req) => remote' = remote
    BY <1>1, MisannouncedMeaning DEF Contract!Untouchable, Inv, Refused, HeaderAgrees
  <2> QED BY <1>1, <1>5, <2>1, <2>2 DEF Contract!Next, Contract!Refuse, Phase,
        Contract!File, File
<1>6. CASE storing /\ pc' \notin {"rotate", "done"}
  <2>1. result' = result
    BY <1>6 DEF Inv, Outcome
  <2>2. Contract!Untouchable(req) => remote' = remote
    BY <1>1, MisannouncedMeaning DEF Contract!Untouchable, Inv, Refused, HeaderAgrees
  <2> QED BY <1>1, <1>6, <2>1, <2>2 DEF Contract!Next, Contract!Store, Contract!vars,
        Phase, Contract!File, File
<1> QED BY <1>2, <1>3, <1>4, <1>5, <1>6

\* Process, with all its attempts, retransmissions and failures, keeps the
\* contract of an upload: what it accepts is acceptable and stays as it is.
THEOREM Implementation == Spec => ImplementsContract
<1>1. Init => Contract!Init
  BY InitContract
<1>2. Inv /\ Inv' /\ AcceptsAcceptable' /\ [Next]_vars => [Contract!Next]_(Contract!vars)
  BY NextContract
<1>3. Inv => AcceptsAcceptable
  BY AcceptedIsAcceptable
<1> QED BY <1>1, <1>2, <1>3, Invariance, PTL DEF Spec, ImplementsContract, Contract!Spec

-----------------------------------------------------------------------------
(* What an attempt may do.                                                  *)

\* Whatever failed before, a resumed attempt keeps what is stored and starts on
\* both sides at a position inside it.
THEOREM ResumesKeep == Spec => ResumeKeepsStored
<1>1. Inv /\ [Next]_vars =>
        [pc = "open" /\ pc' = "copy" /\ op' = "resume"
           => /\ Len(remote'.data) >= Len(remote.data)
              /\ SubSeq(remote'.data, 1, Len(remote.data)) = remote.data
              /\ wpos' = rpos' /\ wpos' <= Len(remote.data)]_vars
  <2> SUFFICES ASSUME Inv, Next, pc = "open", pc' = "copy", op' = "resume"
               PROVE  /\ Len(remote'.data) >= Len(remote.data)
                      /\ SubSeq(remote'.data, 1, Len(remote.data)) = remote.data
                      /\ wpos' = rpos' /\ wpos' <= Len(remote.data)
    OBVIOUS
  <2>1. OpenResume
    <3>1. ~(Cancel \/ Hangs \/ Returned)
      BY DEF Cancel, Hangs, Returned, vars
    <3>2. ~(OpenUpload \/ OpenFails)
      BY DEF OpenUpload, OpenFails, TransferFailed, Retry, GiveUp, Return, Continue
    <3> QED BY <3>1, <3>2 DEF Next, Step, HashUploadReader, StartOff, RemoteSize, CopyChunk,
          CopyEOF, CopyCancelled, CopyFails, DownloadFails, VerifyMatches, VerifyMismatch,
          ApplyRotation
  <2>2. remote.data \in Seq(Byte) /\ Len(remote.data) \in Nat
    BY LenProperties DEF Inv, TypeOK, File
  <2>3. remote'.data = remote.data /\ wpos' = offset /\ rpos' = offset
    BY <2>1 DEF OpenResume, Inv, TypeOK, File
  <2>4. offset <= Len(remote.data)
    BY <2>1 DEF OpenResume, Inv, Positions
  <2> QED BY <2>2, <2>3, <2>4, WholeSubSeq
<1> QED BY <1>1, Invariance, PTL DEF Spec, ResumeKeepsStored

\* Every attempt but those of a cancelled request has cost a failure.
Counted == ~cancelled => attempt <= faults

\* A step that begins an attempt fails or is cancelled.
LEMMA NextCounted == Inv /\ Counted /\ [Next]_vars => Counted'
<1> SUFFICES ASSUME Inv, Counted, [Next]_vars PROVE Counted'
  OBVIOUS
<1>1. attempt \in Nat /\ faults \in Nat
  BY PipelineAssumption DEF Inv, TypeOK
<1>2. CASE OpenFails \/ CopyFails
  BY <1>1, <1>2 DEF OpenFails, CopyFails, Fault, TransferFailed, Retry, GiveUp, Counted
<1>3. CASE CopyCancelled
  BY <1>3 DEF CopyCancelled, Counted
<1>4. CASE Cancel \/ Hangs
  BY <1>4 DEF Cancel, Hangs, Counted
<1>5. CASE UNCHANGED attempt /\ cancelled' = cancelled /\ faults' \in {faults, faults + 1}
  BY <1>1, <1>5 DEF Counted
<1>6. CASE HashUploadReader \/ StartOff \/ OpenUpload \/ OpenResume \/ RemoteSize
  BY <1>5, <1>6 DEF HashUploadReader, StartOff, OpenUpload, OpenResume, RemoteSize, Fault
<1>7. CASE CopyChunk \/ CopyEOF
  BY <1>5, <1>7 DEF CopyChunk, CopyEOF
<1>8. CASE DownloadFails \/ VerifyMatches \/ VerifyMismatch \/ ApplyRotation
  BY <1>5, <1>8 DEF DownloadFails, VerifyMatches, VerifyMismatch, ApplyRotation, Fault
<1>9. CASE UNCHANGED vars
  BY <1>5, <1>9 DEF vars
<1> QED BY <1>2, <1>3, <1>4, <1>6, <1>7, <1>8, <1>9 DEF Next, Step, Returned

\* uploadWithRetry ends with an error only after all its attempts failed.
THEOREM RetriesUsed == Spec => GivesUpOnlyAfterRetries
<1>1. Init => Counted
  BY DEF Init, Counted
<1>2. Inv /\ Counted /\ [Next]_vars =>
        [Buffered /\ op # "retransmit" /\ pc \in {"open", "copy"} /\ result' = "error"
           => cancelled \/ faults' > MaxRetries]_vars
  <2> SUFFICES ASSUME Inv, Counted, Next, Buffered, op # "retransmit",
                      pc \in {"open", "copy"}, result' = "error", ~cancelled
               PROVE  faults' > MaxRetries
    OBVIOUS
  <2>1. attempt \in 0..MaxRetries /\ faults \in Nat /\ MaxRetries \in Nat /\ result # "error"
    BY PipelineAssumption DEF Inv, TypeOK, Outcome
  <2>2. OpenFails \/ CopyFails
    BY <2>1 DEF Next, Step, Cancel, Hangs, Returned, vars, HashUploadReader, StartOff, OpenUpload,
       OpenResume, Return, Continue, RemoteSize, CopyChunk, CopyEOF, TransferDone,
       CopyCancelled, DownloadFails, VerifyMatches, VerifyMismatch, ApplyRotation
  <2>3. faults' = faults + 1 /\ TransferFailed
    BY <2>2 DEF OpenFails, CopyFails, Fault
  <2>4. ~(attempt < MaxRetries)
    BY <2>1, <2>3 DEF TransferFailed, Retries, Retry, Continue
  <2> QED BY <2>1, <2>3, <2>4 DEF Counted
<1> QED BY <1>1, <1>2, NextCounted, Invariance, PTL DEF Spec, GivesUpOnlyAfterRetries

-----------------------------------------------------------------------------
(* Why an upload fails.                                                     *)

\* Without faults, damage and cancellation there is one attempt, and it writes
\* the body whatever was at the path before.
Clean == ~req.damage /\ faults = 0 /\ ~cancelled
AsSent ==
  Clean => /\ op # "resume" /\ pc # "stat"
           /\ pc = "copy" => IsPart(remote.data, req.body)
           /\ pc = "verify" => req.verification /\ remote.data = req.body

\* One write of a clean upload.
LEMMA CleanWrite ==
  ASSUME Inv, AsSent, Clean, CopyChunk
  PROVE  IsPart(remote'.data, req.body) /\ (rpos' = Size => remote'.data = req.body)
<1>1. /\ TypeOK /\ pc = "copy" /\ wpos = rpos /\ rpos \in Nat /\ rpos <= Size
      /\ Size \in Nat /\ Size = Len(req.body) /\ req.body \in Seq(Byte)
      /\ remote \in File /\ remote.data \in Seq(Byte) /\ rpos <= Len(remote.data)
      /\ IsPart(remote.data, req.body) /\ Zero \in Byte
  BY RequestType, PipelineAssumption
  DEF Inv, TypeOK, CopyChunk, Positions, File, AsSent, Size
<1>2. PICK n \in Nat : /\ rpos + n <= Size
                       /\ Chunk = SubSeq(req.body, rpos + 1, rpos + n)
                       /\ Len(Chunk) = n
  BY <1>1, ChunkOfBody
<1> DEFINE new == WriteAt(remote.data, rpos, SubSeq(req.body, rpos + 1, rpos + n))
<1>3. /\ IsPart(new, req.body)
      /\ Len(new) = IF rpos + n > Len(remote.data) THEN rpos + n ELSE Len(remote.data)
  BY <1>1, <1>2, WriteAtPart
<1>4. Put(Chunk) /\ rpos' = rpos + n
  BY <1>2 DEF CopyChunk, StoredAs, Clean
<1>5. remote'.data = new
  BY <1>1, <1>2, <1>4 DEF Put, File
<1> HIDE DEF new
<1>6. remote'.data \in Seq(Byte)
  <2>1. remote' \in File
    BY <1>1, <1>2, <1>4, WriteStep DEF StoredAs, Clean
  <2> QED BY <2>1 DEF File
<1>7. rpos' = Size => Len(remote'.data) >= Len(req.body)
  BY <1>1, <1>2, <1>3, <1>4, <1>5
<1> QED BY <1>1, <1>3, <1>5, <1>6, <1>7, PartOfFullLength

\* A transfer that ends well is refused only for the header.
LEMMA DoneCause ==
  ASSUME Inv, TransferDone, rpos' = Size, UNCHANGED req
  PROVE  /\ pc' \in {"verify", "rotate", "done"}
         /\ pc' = "verify" => req.verification
         /\ pc' = "done" => ~HeaderAgrees(req.body)
         /\ pc' # "done" => result' = result
<1>1. SubSeq(req.body, 1, rpos') = req.body
  BY RequestType, WholeSubSeq DEF Inv, Size
<1> QED BY <1>1 DEF TransferDone, Return, Continue

\* Every failure of a step has one of the causes.
LEMMA NextCause ==
  ASSUME Inv, AsSent, FailureHasACause, [Next]_vars
  PROVE  AsSent' /\ FailureHasACause'
<1>1. req' = req /\ faults \in Nat /\ (pc # "done" => result = "none")
  BY PipelineAssumption, StepEffect DEF Inv, TypeOK, Outcome
<1>2. CASE req.damage \/ cancelled' \/ faults' # 0
  BY <1>1, <1>2 DEF AsSent, Clean, FailureHasACause
<1> SUFFICES ASSUME ~req.damage, ~cancelled', faults' = 0
             PROVE  AsSent' /\ FailureHasACause'
  BY <1>2
<1>3. CASE Cancel \/ CopyCancelled \/ OpenFails \/ CopyFails
  BY <1>1, <1>3 DEF Cancel, CopyCancelled, OpenFails, CopyFails, Fault
<1>4. CASE Hangs \/ UNCHANGED vars
  BY <1>4 DEF Hangs, vars, AsSent, Clean, FailureHasACause, HeaderAgrees, Expected
<1> SUFFICES ASSUME Step, ~CopyCancelled, ~OpenFails, ~CopyFails
             PROVE  AsSent' /\ FailureHasACause'
  BY <1>3, <1>4 DEF Next, Returned
<1>5. Clean /\ faults' = faults /\ cancelled' = cancelled /\ pc # "done"
  BY <1>1 DEF Step, HashUploadReader, StartOff, OpenUpload, OpenResume, RemoteSize, CopyChunk,
     CopyEOF, DownloadFails, VerifyMatches, VerifyMismatch, ApplyRotation, Fault, Clean
<1>6. op # "resume" /\ pc # "stat"
  BY <1>5 DEF AsSent
<1>7. CASE HashUploadReader
  BY <1>1, <1>5, <1>6, <1>7 DEF HashUploadReader, Fault, Rejected, Return, Continue, AsSent,
     FailureHasACause, HeaderAgrees
<1>8. CASE StartOff
  BY <1>1, <1>6, <1>8 DEF StartOff, Continue, AsSent, FailureHasACause
<1>9. CASE OpenUpload
  <2>1. IsPart(<<>>, req.body)
    BY RequestType, LenProperties DEF Inv, IsPart
  <2> QED BY <1>1, <1>6, <1>9, <2>1 DEF OpenUpload, Continue, AsSent, FailureHasACause
<1>10. CASE CopyChunk
  <2>1. /\ IsPart(remote'.data, req.body) /\ (rpos' = Size => remote'.data = req.body)
        /\ op' = op
    BY <1>5, <1>10, CleanWrite DEF CopyChunk
  <2>2. CASE Continue("copy")
    BY <1>1, <1>6, <2>1, <2>2 DEF Continue, AsSent, FailureHasACause
  <2>3. CASE rpos' = Size /\ TransferDone
    BY <1>1, <1>6, <2>1, <2>3, DoneCause DEF AsSent, FailureHasACause, HeaderAgrees
  <2> QED BY <1>10, <2>2, <2>3 DEF CopyChunk
<1>11. CASE CopyEOF
  <2>1. /\ rpos' = Size /\ TransferDone /\ UNCHANGED <<remote, op>>
        /\ Len(remote.data) >= Len(req.body)
    BY <1>11, RequestType, LenProperties DEF CopyEOF, Inv, TypeOK, File, Positions, Size
  <2>2. remote.data = req.body
    BY <1>5, <1>11, <2>1, RequestType, PartOfFullLength DEF CopyEOF, AsSent, Inv, TypeOK, File
  <2> QED BY <1>1, <1>6, <2>1, <2>2, DoneCause DEF AsSent, FailureHasACause, HeaderAgrees
<1>12. CASE DownloadFails
  BY <1>1, <1>5, <1>6, <1>12 DEF DownloadFails, Fault, Return, AsSent, FailureHasACause
<1>13. CASE VerifyMatches
  BY <1>1, <1>6, <1>13 DEF VerifyMatches, Continue, AsSent, FailureHasACause
<1>14. CASE VerifyMismatch
  <2>1. CASE pc' = "open" /\ op' = "retransmit"
    BY <2>1 DEF AsSent, FailureHasACause
  <2>2. CASE pc' = "done" /\ op' = op
    <3>1. req.verification /\ remote.data = req.body /\ Sha256Hex(req.body) # Expected
      BY <1>5, <1>14 DEF VerifyMismatch, AsSent
    <3>2. ~HeaderAgrees(req.body) \/ Expected.upper
      <4>1. req.header # NoHeader /\ req.header \in Hex /\ Expected = req.header
        BY <3>1, RequestType DEF Expected, Inv, Request
      <4>2. req.header = [digest |-> req.header.digest, upper |-> req.header.upper]
            /\ req.header.upper \in BOOLEAN
        BY <4>1 DEF Hex
      <4>3. req.header.digest # req.body \/ req.header.upper
        BY <3>1, <4>1, <4>2 DEF Sha256Hex
      <4> QED BY <4>1, <4>3 DEF HeaderAgrees, EqualFold, Sha256Hex
    <3> QED BY <1>1, <1>6, <2>2, <3>1, <3>2 DEF AsSent, FailureHasACause, HeaderAgrees,
          Expected
  <2> QED BY <1>14, <2>1, <2>2 DEF VerifyMismatch, Continue, Return
<1>15. CASE ApplyRotation
  BY <1>1, <1>5, <1>6, <1>15 DEF ApplyRotation, Fault, Return, AsSent, FailureHasACause
<1> QED BY <1>6, <1>7, <1>8, <1>9, <1>10, <1>11, <1>12, <1>13, <1>14, <1>15
  DEF Step, OpenResume, RemoteSize

\* An upload that meets no fault, damage or cancellation fails only for its
\* header, or because the backend cannot be read back.
THEOREM FailuresHaveCauses == Spec => []FailureHasACause
<1>1. Init => AsSent /\ FailureHasACause
  BY DEF Init, AsSent, FailureHasACause
<1> QED BY <1>1, NextCause, Invariance, PTL DEF Spec
=============================================================================
