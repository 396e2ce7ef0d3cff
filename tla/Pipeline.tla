------------------------------ MODULE Pipeline ------------------------------
(***************************************************************************)
(* One call of Pipeline.Process (internal/pipeline/pipeline.go): the body  *)
(* of a request is hashed, written to one path of the storage backend,     *)
(* downloaded again for verification, and the directory is rotated.        *)
(*                                                                         *)
(* The backend is the SFTP backend (internal/storage/sftp_backend.go): a   *)
(* call opens the remote file and copies the body into it chunk by chunk.  *)
(* The environment makes backend calls fail at any point, possibly after   *)
(* the server carried out a part of them, stores damaged bytes, and        *)
(* cancels the request.                                                    *)
(*                                                                         *)
(* A SHA-256 digest is the content it is the digest of, with the case of   *)
(* its hex letters beside it; collisions are left out.                     *)
(***************************************************************************)
EXTENDS Naturals, Sequences

CONSTANTS
  Byte,             \* values of one unit of content
  Zero,             \* the byte a file system puts in a hole of a file
  Requests,         \* the requests Process may be called with
  ChunkSize,        \* units moved by one iteration of copyWithContext
  MaxRetries,       \* Pipeline.maxRetries (NewPipeline sets 1)
  MaxFaults,        \* bound on the failures of the environment
  NoHeader,         \* the request names no SHA-256
  DownloadReadable  \* TRUE: the reader Download returns can be read

Modes == {"FULLY_IMMEDIATELY", "FULLY_COMPLETE", "OFF"}
File == [exists : BOOLEAN, data : Seq(Byte)]
Hex == [digest : Seq(Byte), upper : BOOLEAN]

\* What Process reads of a key's configuration and of the request, the file
\* that is already at the storage path (two uploads of one key in the same
\* second share the path), and whether the storage may keep other bytes than
\* it is given while the request runs.
Request == [mode : Modes, verification : BOOLEAN, detach : BOOLEAN,
            header : {NoHeader} \cup Hex, body : Seq(Byte), prior : File,
            damage : BOOLEAN]

ASSUME PipelineAssumption ==
  /\ Zero \in Byte
  /\ Requests \subseteq Request
  /\ \A r \in Requests : ~r.prior.exists => r.prior.data = <<>>
  /\ ChunkSize \in Nat \ {0}
  /\ MaxRetries \in Nat
  /\ MaxFaults \in Nat
  /\ DownloadReadable \in BOOLEAN

VARIABLES
  req,        \* the request
  pc,         \* the next thing Process does
  op,         \* the backend call that moves data
  attempt,    \* loop counter of uploadWithRetry
  offset,     \* where ResumeUpload starts
  rpos,       \* read position of the body
  wpos,       \* write position in the remote file
  remote,     \* the file at the storage path
  cancelled,  \* the context of the request is done
  verified,   \* UploadResult.Verified
  result,     \* what Process returned
  hung,       \* Process is in a call that never returns
  faults      \* failures of the environment so far

vars == <<req, pc, op, attempt, offset, rpos, wpos, remote, cancelled,
          verified, result, hung, faults>>

TypeOK ==
  /\ req \in Requests
  /\ pc \in {"hash", "stat", "open", "copy", "verify", "rotate", "done"}
  /\ op \in {"upload", "resume", "retransmit"}
  /\ attempt \in 0..MaxRetries
  /\ offset \in Nat
  /\ rpos \in Nat
  /\ wpos \in Nat
  /\ remote \in File
  /\ cancelled \in BOOLEAN
  /\ verified \in BOOLEAN
  /\ result \in {"none", "ok", "verificationFailed", "error"}
  /\ hung \in BOOLEAN
  /\ faults \in 0..MaxFaults

-----------------------------------------------------------------------------
(* Digests.  SHA-256 is written in lower-case hex by hex.EncodeToString.    *)

Sha256Hex(content) == [digest |-> content, upper |-> FALSE]
EqualFold(a, b) == a.digest = b.digest
HeaderAgrees(content) ==
  req.header = NoHeader \/ EqualFold(req.header, Sha256Hex(content))
Expected == IF req.header = NoHeader THEN Sha256Hex(req.body) ELSE req.header

Size == Len(req.body)
Buffered == req.mode # "OFF"

\* A file after chunk was written at position at; a gap is filled with zeros.
WriteAt(data, at, chunk) ==
  LET end == at + Len(chunk)
  IN  [i \in 1..(IF end > Len(data) THEN end ELSE Len(data)) |->
         IF i > at /\ i <= end THEN chunk[i - at]
         ELSE IF i <= Len(data) THEN data[i] ELSE Zero]

\* What the storage may hold after it was given chunk.
StoredAs(chunk) == IF req.damage THEN [1..Len(chunk) -> Byte] ELSE {chunk}

-----------------------------------------------------------------------------
Init ==
  /\ req \in Requests
  /\ pc = "hash"
  /\ op = "upload"
  /\ attempt = 0
  /\ offset = 0
  /\ rpos = 0
  /\ wpos = 0
  /\ remote = req.prior
  /\ cancelled = FALSE
  /\ verified = FALSE
  /\ result = "none"
  /\ hung = FALSE
  /\ faults = 0

Fault == faults < MaxFaults /\ faults' = faults + 1
Return(outcome) == pc' = "done" /\ result' = outcome
Continue(label) == pc' = label /\ UNCHANGED result

\* FULLY_COMPLETE refuses a body that disagrees with the header.
Rejected == req.mode = "FULLY_COMPLETE" /\ ~HeaderAgrees(req.body)

\* processBuffered hashes the whole body before anything is stored.
HashUploadReader ==
  /\ pc = "hash" /\ Buffered
  /\ \/ Fault /\ Return("error")
     \/ /\ UNCHANGED faults
        /\ IF Rejected
           THEN Return("verificationFailed")
           ELSE Continue("open")
  /\ UNCHANGED <<req, hung, op, attempt, offset, rpos, wpos, remote, cancelled, verified>>

\* processOff goes straight to the backend.
StartOff ==
  /\ pc = "hash" /\ ~Buffered
  /\ Continue("open")
  /\ UNCHANGED <<req, hung, op, attempt, offset, rpos, wpos, remote, cancelled,
                 verified, faults>>

\* Upload: rewind the body, open the remote file with O_TRUNC.
OpenUpload ==
  /\ pc = "open" /\ op \in {"upload", "retransmit"}
  /\ rpos' = 0
  /\ wpos' = 0
  /\ remote' = [exists |-> TRUE, data |-> <<>>]
  /\ Continue("copy")
  /\ UNCHANGED <<req, hung, op, attempt, offset, cancelled, verified, faults>>

\* Variant: the body is not rewound to the offset.
OpenResumeUnsought ==
  /\ pc = "open" /\ op = "resume"
  /\ wpos' = offset
  /\ remote' = [remote EXCEPT !.exists = TRUE]
  /\ Continue("copy")
  /\ UNCHANGED <<req, hung, op, attempt, offset, rpos, cancelled, verified, faults>>

\* Variant: the remote file is opened with O_TRUNC.
OpenResumeTruncating ==
  /\ pc = "open" /\ op = "resume"
  /\ rpos' = offset
  /\ wpos' = offset
  /\ remote' = [exists |-> TRUE, data |-> <<>>]
  /\ Continue("copy")
  /\ UNCHANGED <<req, hung, op, attempt, offset, cancelled, verified, faults>>

\* ResumeUpload: seek both sides to the offset, open without O_TRUNC.
OpenResume ==
  /\ pc = "open" /\ op = "resume"
  /\ rpos' = offset
  /\ wpos' = offset
  /\ remote' = [remote EXCEPT !.exists = TRUE]
  /\ Continue("copy")
  /\ UNCHANGED <<req, hung, op, attempt, offset, cancelled, verified, faults>>

\* The next attempt of uploadWithRetry, and the end of it.
Retry(n) == attempt' = n /\ op' = "resume" /\ Continue("stat")
GiveUp == Return("error") /\ UNCHANGED <<attempt, op>>
Retries == Buffered /\ op # "retransmit"

\* Variants: one attempt too few, attempts that are not counted.
TransferFailedOnceLess ==
  IF Retries /\ attempt + 1 < MaxRetries THEN Retry(attempt + 1) ELSE GiveUp
TransferFailedUncounted ==
  IF Retries /\ attempt < MaxRetries THEN Retry(attempt) ELSE GiveUp

\* A backend call that moves data returned an error.  Only uploadWithRetry
\* tries again; a retransmission and an OFF upload give up.
TransferFailed ==
  IF Retries /\ attempt < MaxRetries THEN Retry(attempt + 1) ELSE GiveUp

\* The call fails before the first byte: connecting, creating the directory
\* or opening the file; the server may have opened (and truncated) the file.
OpenFails ==
  /\ pc = "open" /\ Fault
  /\ remote' \in {remote,
                  [exists |-> TRUE,
                   data |-> IF op = "resume" THEN remote.data ELSE <<>>]}
  /\ TransferFailed
  /\ UNCHANGED <<req, hung, offset, rpos, wpos, cancelled, verified>>

\* RemoteSize, and the offset uploadWithRetry derives from it.
RemoteSize ==
  /\ pc = "stat"
  /\ \/ Fault /\ offset' = 0
     \/ /\ UNCHANGED faults
        /\ offset' = IF remote.exists /\ Len(remote.data) <= Size
                     THEN Len(remote.data) ELSE 0
  /\ Continue("open")
  /\ UNCHANGED <<req, hung, op, attempt, rpos, wpos, remote, cancelled, verified>>

\* Variants: the digest lacks the last chunk, the header is not tested, and a
\* retransmitted file is not verified again.
TransferDoneEarlyDigest ==
  IF ~Buffered /\ ~HeaderAgrees(SubSeq(req.body, 1, rpos))
  THEN Return("verificationFailed")
  ELSE Continue(IF req.verification THEN "verify" ELSE "rotate")
TransferDoneUntested == Continue(IF req.verification THEN "verify" ELSE "rotate")
TransferDoneUnverified ==
  IF ~Buffered /\ ~HeaderAgrees(SubSeq(req.body, 1, rpos'))
  THEN Return("verificationFailed")
  ELSE Continue(IF req.verification /\ op # "retransmit" THEN "verify" ELSE "rotate")

\* The backend call returned nil.
TransferDone ==
  IF ~Buffered /\ ~HeaderAgrees(SubSeq(req.body, 1, rpos'))
  THEN Return("verificationFailed")
  ELSE Continue(IF req.verification THEN "verify" ELSE "rotate")

Put(bytes) == remote' = [remote EXCEPT !.data = WriteAt(remote.data, wpos, bytes)]
Chunk == SubSeq(req.body, rpos + 1,
                IF rpos + ChunkSize < Size THEN rpos + ChunkSize ELSE Size)

\* One iteration of copyWithContext.  A FileBuffer returns io.EOF together
\* with the last bytes, a MemoryBuffer with the read after them.
CopyChunk ==
  /\ pc = "copy" /\ ~cancelled /\ rpos < Size
  /\ \E bytes \in StoredAs(Chunk) : Put(bytes)
  /\ rpos' = rpos + Len(Chunk)
  /\ wpos' = wpos + Len(Chunk)
  /\ \/ Continue("copy")
     \/ rpos' = Size /\ TransferDone
  /\ UNCHANGED <<req, hung, op, attempt, offset, cancelled, verified, faults>>

\* Variant: the context is not checked before the read that finds the end.
CopyEOFUnchecked ==
  /\ pc = "copy" /\ rpos >= Size
  /\ UNCHANGED <<req, hung, op, attempt, offset, rpos, wpos, remote, cancelled,
                 verified, faults>>
  /\ TransferDone

CopyEOF ==
  /\ pc = "copy" /\ ~cancelled /\ rpos >= Size
  /\ UNCHANGED <<req, hung, op, attempt, offset, rpos, wpos, remote, cancelled,
                 verified, faults>>
  /\ TransferDone

\* The context is checked before every read.
CopyCancelled ==
  /\ pc = "copy" /\ cancelled
  /\ TransferFailed
  /\ UNCHANGED <<req, hung, offset, rpos, wpos, remote, cancelled, verified, faults>>

\* Reading the body or writing the remote file fails, after the server stored
\* some of the chunk.
CopyFails ==
  /\ pc = "copy" /\ ~cancelled /\ Fault
  /\ \E n \in 0..Len(Chunk) :
       \E bytes \in StoredAs(SubSeq(Chunk, 1, n)) : Put(bytes)
  /\ TransferFailed
  /\ UNCHANGED <<req, hung, offset, rpos, wpos, cancelled, verified>>

\* Verifier.Verify cannot open or read the remote file.
DownloadFails ==
  /\ pc = "verify"
  /\ \/ Fault
     \/ ~DownloadReadable /\ UNCHANGED faults
  /\ Return("error")
  /\ UNCHANGED <<req, hung, op, attempt, offset, rpos, wpos, remote, cancelled, verified>>

VerifyMatches ==
  /\ pc = "verify" /\ DownloadReadable
  /\ Sha256Hex(remote.data) = Expected
  /\ verified' = TRUE
  /\ Continue("rotate")
  /\ UNCHANGED <<req, hung, op, attempt, offset, rpos, wpos, remote, cancelled, faults>>

\* verifyAndRetransmit sends a seekable body once more, with Upload.
VerifyMismatch ==
  /\ pc = "verify" /\ DownloadReadable
  /\ Sha256Hex(remote.data) # Expected
  /\ IF Buffered /\ op # "retransmit"
     THEN op' = "retransmit" /\ Continue("open")
     ELSE Return("verificationFailed") /\ UNCHANGED op
  /\ UNCHANGED <<req, hung, attempt, offset, rpos, wpos, remote, cancelled, verified, faults>>

\* applyRotation: what it deletes is the subject of module Retention.
ApplyRotation ==
  /\ pc = "rotate"
  /\ \/ Fault /\ Return("error")
     \/ UNCHANGED faults /\ Return("ok")
  /\ UNCHANGED <<req, hung, op, attempt, offset, rpos, wpos, remote, cancelled, verified>>

\* The client disconnects; a detached upload runs under context.Background().
Cancel ==
  /\ pc # "done" /\ ~req.detach /\ ~cancelled
  /\ cancelled' = TRUE
  /\ UNCHANGED <<req, hung, pc, op, attempt, offset, rpos, wpos, remote, verified,
                 result, faults>>

\* A call of the backend, or in mode OFF a read of the client's connection,
\* never returns: neither ssh.Dial nor the servers have a timeout, and the
\* context is looked at only between two reads.
Hangs ==
  /\ pc \notin {"hash", "done"} /\ ~hung
  /\ hung' = TRUE
  /\ UNCHANGED <<req, pc, op, attempt, offset, rpos, wpos, remote, cancelled,
                 verified, result, faults>>

\* Process has returned, or never will.
Returned == (pc = "done" \/ hung) /\ UNCHANGED vars

Step ==
  \/ HashUploadReader \/ StartOff
  \/ OpenUpload \/ OpenResume \/ OpenFails \/ RemoteSize
  \/ CopyChunk \/ CopyEOF \/ CopyCancelled \/ CopyFails
  \/ DownloadFails \/ VerifyMatches \/ VerifyMismatch
  \/ ApplyRotation

Next == (~hung /\ Step) \/ Hangs \/ Cancel \/ Returned

Spec == Init /\ [][Next]_vars

\* The scheduler runs Process whenever it does not wait for a call.
FairSpec == Spec /\ WF_vars(~hung /\ Step)

-----------------------------------------------------------------------------
(* What the upload promises.                                                *)

\* The storage keeps what it is given and the path was free: the case in
\* which the copy itself, without verification, has to be right.
Trusted == ~req.damage /\ ~req.prior.exists

\* The rotation of the older backups has begun, or Process returned success.
Accepted == pc = "rotate" \/ result = "ok"

\* Whatever calls failed, were resumed, or were half carried out: once the
\* older backups may be deleted (applyRotation) the remote file is exactly the
\* body (uploadWithRetry, ResumeUpload, copyWithContext).
StoredWhenTrusted ==
  Accepted /\ Trusted => remote = [exists |-> TRUE, data |-> req.body]

\* With verification on, older backups are rotated away only when the file on
\* the storage has the expected digest, even if the storage damages bytes or
\* another file was at the path before (Verify, verifyAndRetransmit).
VerifiedMatchesExpected ==
  /\ req.verification /\ Accepted => verified
  /\ verified => remote.exists /\ Sha256Hex(remote.data) = Expected

\* A FULLY_COMPLETE upload whose body disagrees with its header never touches
\* the remote path (the check of processBuffered comes before uploadWithRetry).
RejectedLeavesRemote ==
  req.mode = "FULLY_COMPLETE" /\ ~HeaderAgrees(req.body) => remote = req.prior

\* A resume never loses bytes that earlier attempts stored.
ResumeKeepsStored ==
  [][pc = "open" /\ pc' = "copy" /\ op' = "resume"
       => /\ Len(remote'.data) >= Len(remote.data)
          /\ SubSeq(remote'.data, 1, Len(remote.data)) = remote.data
          /\ wpos' = rpos' /\ wpos' <= Len(remote.data)]_vars

\* A buffered upload is given up only after more than MaxRetries failures of
\* the backend, or because its request was cancelled.
GivesUpOnlyAfterRetries ==
  [][Buffered /\ op # "retransmit" /\ pc \in {"open", "copy"} /\ result' = "error"
       => cancelled \/ faults' > MaxRetries]_vars

\* When nothing fails, Process fails only for a cancelled request, for a header
\* that disagrees with the body, or for an upper-case header under verification.
FailureHasACause ==
  pc = "done" /\ faults = 0 /\ ~req.damage /\ DownloadReadable /\ result # "ok" =>
    \/ cancelled
    \/ ~HeaderAgrees(req.body)
    \/ req.verification /\ Expected.upper

\* Once the context is done while data is moving, the upload cannot succeed: it
\* ends with an error, or hangs in a call.
CancelStopsTransfer == cancelled /\ pc = "copy" ~> result = "error" \/ hung

\* Process returns unless one of its calls does not: attempts, resumes and the
\* retransmission never go round for ever, whatever fails and is cancelled.
Terminates == <>(pc = "done" \/ hung)

\* Seen as storing, accepted or done.
Phase == IF pc = "done" THEN "done"
         ELSE IF pc = "rotate" THEN "accepted" ELSE "storing"

Contract == INSTANCE UploadContract
              WITH phase <- Phase, object <- remote, outcome <- result

\* Process keeps the contract of an upload: the object is acceptable when the
\* rotation begins and is never written again by this upload afterwards.
ImplementsContract == Contract!Spec

-----------------------------------------------------------------------------
(* What the documentation says and the code does not do; each one is the    *)
(* subject of a run that shows the disagreement.                            *)

\* verifier.go:16 "returned when the uploaded file hash does not match the
\* expected hash": a body that matches its header is not answered with it.
MismatchMeansDifferent ==
  result = "verificationFailed" /\ ~req.damage => ~HeaderAgrees(req.body)

\* backend.go:43 "Download reads the remote file for verification purposes":
\* without faults a verified upload without a header succeeds.
DownloadServesVerification ==
  pc = "done" /\ faults = 0 /\ ~cancelled /\ req.header = NoHeader => result = "ok"
=============================================================================
