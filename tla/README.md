# Verification of BackupGate

BackupGate (`src/`, Go) receives backup files over HTTP or an S3-compatible API,
buffers and hashes them, stores them on an SFTP server under a timestamped name,
optionally downloads them again to verify them, and rotates older backups away.
This directory holds TLA+ models of its stateful core, the TLC configurations
that check them on small instances, and proofs of the most important results for
every value of the constants.

    tlc -workers 2 -config Pipeline.cfg MCPipeline    # one run
    tlapm PipelineProofs.tla                          # one module of proofs

`PROJECT.json` lists the components, the runs with their properties, a mutant of
the code for each property (an operator marked "Variant" in the module, which
makes the property fail), the source lines of every definition, the
hazards, the disagreements between code and documentation, and the theorems.

## 1. Inventory

| Part (source under `src/internal/`) | State | Operations | Hard behaviour | What makes it correct |
|---|---|---|---|---|
| Upload pipeline (`pipeline/pipeline.go`, `verifier.go`; `storage/sftp_backend.go`) | attempt counter, read and write positions, the remote file, `UploadResult` | `Process` in three modes, `uploadWithRetry`, `verifyAndRetransmit`, `Verify`, `Upload`, `ResumeUpload`, `RemoteSize`, `Download` | a call fails after half of its effect, or never returns; retry from the remote size; cancellation between two reads; a storage that damages bytes | what is accepted is the body (or has the expected digest) before older backups go; a refused body touches nothing; retries are bounded; it returns unless a call hangs |
| Rotation (`rotation/rotation.go`) | none of its own; the directory of the storage | `Apply`, `selectForDeletion`, `parseTimestamp` | rotations and uploads of several keys in one directory; old listings; partial files | never fewer than the newest ones are left, nothing else is deleted, the upload that rotates survives |
| Key locks (`api/handler.go`), the HTTP handler (`api/http.go`), S3 `putObject` (`api/s3.go`) | `keyMu`, one mutex for each spelling of a key; the buffer of each request | refuse or admit, lock, buffer the body, `Process`, answer, close, unlock | the lock is held while a slow client sends; clients leave at any moment; a detached backup goes on without its client; two spellings of one path | every lock and buffer is given back on every path; one body of a key at a time; a client that stalls harms its own key only |
| S3 multipart (`api/s3_multipart.go`) | `sessions` with a mutex, the parts of a session with its mutex | create, upload part, complete, abort | all of them concurrently; replacement of a part that is being read; double completion; late parts | an object consists of the requested, wholly received parts in order; a finished upload is gone; buffers are not lost; nobody waits in vain |
| Authentication (`auth/`), built in `cmd/backupgate/main.go`; AWS requests (`api/aws_request.go`) | the chain of a key, constant after startup; an external program, its output, its timeout | `buildProviders`, expansion of `${env.X}`, `Chain.Authenticate`, `LookupSecret`, four providers | a program that hangs, ends late, or leaves its output to a child; a client that leaves meanwhile; credentials that hold placeholders | a right credential is enough wherever its provider stands; values are put in once; both protocols let the same credentials in; nothing but the output of a program is waited for without an end |
| Buffer manager (`buffer/manager.go`, `managed_memory.go`) | `memoryInUse` | `NewFullBuffer`, `Close` | several owners close one buffer; the limit itself | the counter is exact, the limit is kept, disk only when memory is full |
| Memory and file buffers (`buffer/memory.go`, `file.go`) | content, position, closed flag | read, write, seek, close | the two report their end differently and behave differently once closed | they read like a contiguous body |
| Assembled reader (`reader/assembled.go`) | parts, position | `Read`, `ReadAt`, `Seek`, `Close` | borders of parts, empty parts, a part closed while it is read | it reads like one contiguous body |
| Process and servers (`server/server.go`, `cmd/backupgate/main.go`), router (`server/router.go`) | servers, listeners, goroutines, deadline | `Start`, `Serve`, `Shutdown`, signals | requests during shutdown, one deadline for all servers, signals before `Notify`, failing listeners | nothing is cut off before the deadline; a clean exit means every request was answered; the process ends |
| Key resolution (`config.ResolveKeyConfig`, `api` `authChain`) | none; two loops, one over an unordered map | selection of a configured key | two algorithms for one question | both select the same key |
| Configuration (`config/`), sliding buffer (`buffer/sliding.go`), rsync and ssh (`storage/`), hasher, version | configuration file; none of it changes while requests run | parsing, defaults, validation; the others are not called | none at run time | not modelled, see section 7 |

How they interact: a handler resolves the key, authenticates, takes the lock of
the key, reads the body into a buffer of the buffer manager and calls `Process`,
which drives the storage backend and then the rotation; completing a multipart
upload calls `Process` with an assembled reader over the buffers of its parts,
which other requests may close meanwhile; the server's shutdown waits for the
handlers. Everything shares the process: the only locks are `keyMu`, the map and
session mutexes of multipart, and the mutex of the buffer manager.

## 2. Modules

| Module | Models | Uses |
|---|---|---|
| `Pipeline` | one call of `Process` with the backend calls it makes | |
| `UploadContract` | what an upload promises: store, then accept something acceptable, then change nothing | refined by `Pipeline` |
| `Retention` | uploads and rotations that share a directory, key locks | an upload of `Pipeline` is open / store / fail here |
| `BufferManager` | the memory budget | used by `Handlers` and `Multipart` |
| `Handlers` | single uploads over HTTP and S3 with their clients: key locks, buffers, every way to an answer | extends `BufferManager`, the request names its buffer (`Requests == Buffers`); authentication is one step, `Process` is cut at the beginning and the end of the transfer |
| `Multipart` | all multipart requests of a key | instantiates `BufferManager` as `Manager`, the buffers are its part requests; `Process` is one step |
| `Auth` | the provider chain of a key from startup to the verdict on a request, external programs | extends `Templates` |
| `Templates` | the two substitutions: `${env.X}` in credentials, `%u %p %k` in arguments | |
| `ByteSource` | a contiguous body that is read and sought | refined by `AssembledReader` |
| `Buffers` | reads of one memory or file buffer, open or closed | |
| `AssembledReader` | `Read`/`ReadAt`/`Seek` over parts that others close, and over a single buffer | extends `Buffers` |
| `Server` | start, serving, signals, shutdown | |
| `KeyResolution` | the two lookups of a key | |
| `PipelineProofs`, `RetentionProofs`, `HandlersProofs`, `MultipartProofs`, `AuthProofs`, `ReaderProofs`, `ServerProofs`, `KeyProofs` | theorems | extend their module and `TLAPS` |
| `MC...` | constants for TLC | extend their module |

### From code to model

*Pipeline.* `pc` is the place in `Process`; `op` tells apart the three calls that
move data (`Upload`, `ResumeUpload`, and the `Upload` of a retransmission);
`attempt` is the loop variable of `uploadWithRetry`; `rpos`/`wpos` are the offsets
`copyWithContext` works with; `remote` is the file at the storage path. Each
iteration of `copyWithContext` is an action, so a fault or a cancellation falls
between any two. A SHA-256 digest is the content together with the case of its
hex letters: collisions do not exist, case differences do. `damage` in a request
says that the storage may keep any bytes instead of those it is given.
`OpenFails` and `CopyFails` let the server carry out part of a call before the
error; `Hangs` is a call that never returns. What cannot happen in the model: a write of an abandoned connection that
reaches the file after the next attempt has begun.

*Retention.* `pc[u]` walks through lock, body, path, open, store, list, select,
delete. `intact` marks the files that hold a whole body. `Chosen(u, order)` is what
`selectForDeletion` picks from a listing for one order of the files of equal
timestamp, which Go's unstable sort leaves open; the deletions run in the order of the listing, newest
first, and stop at the first that fails. A listing that fails ends the upload with an
error or, if `isNotExist` accepts the error by its text, with "ok" and no rotation
(`List`). `Cases` are the configurations and
directories a run begins with. Some properties speak of the cases in which they can
be expected: `OneLock`, all uploads spell the key alike; `OneKey`, they and the old
backups belong to one key; `OnePolicy`, all have the same limits; `ByCountOnly`. With `sameSecond = FALSE` two
uploads of one cleaned key do not get the same timestamp; the shared path of
uploads in one second is the subject of `Pipeline` (`prior`).

*Handlers.* A request and its buffer have one name. `SendBody` and `Leave` are the
clients; the servers are made without timeouts, so `ReceiveBody` has no other way out
than those two. `Process` is cut in three, before ("process"), in ("transfer") and after
("finish") the transfer to the storage, since a client that leaves makes a difference in
between: `TransferCancelled` ends a transfer, or a retransmission, that looks at the
context of its client or reads from its connection. `given` holds
which spellings are unknown, OFF and detached. The deferred `Close` and `Unlock` are
steps of their own, in the order Go runs them.

*Multipart.* A buffer has the name of the request that uploads it. The
critical sections of a session (`PutPart`, `CollectParts`, `CloseMultipartParts`)
are single actions because the code holds `session.mu` there; between them
everything interleaves, so a completion may store a part before its 200 is sent
(`RespondToPart`). `Sent` picks the requests of a behaviour; ids are random in
the code, so that one request at most creates each. Parsing of part
numbers and XML is the choice of the numbers.

*Auth.* `AddProvider` and `ResolveExpression` are the loops of `buildProviders` and
of `resolveExpression`; afterwards the chain is constant, so requests do not meet and
one stands for all. The program of an external provider, the processes it leaves behind
(`output`) and time (`elapsed`) are steps beside the request: `CombinedOutput` returns
only when the output is closed, and the context is looked at afterwards
(`ContextEnded`). A right signature is the knowledge of the secret; that a password
matches an htpasswd hash is an equality, and the last line of a user counts.

*Templates.* A text is a sequence of symbols. The opening mark `${env.` and the
placeholders `%u`, `%p`, `%k` are two symbols each, their first character and the rest:
with more the same can be said, with one symbol a mark could not form at the seam
between a value and the text around it, as it does in `${${env.X}}` with the value
`env.A`, or in `%uk` with the user `%`. `ExpandOnce` is one turn of the loop in
`inline.go`, first opening mark to next closing mark, and its result is searched again;
`BuildArgs` replaces one placeholder after the other, as `external.go` does, each in what
the one before left. `Expanded` and `Substituted` are what the two are compared with: one
pass over the text that does not look at what it puts in. They agree with the code for
texts whose dollar signs all begin an expression and values without dollar signs
(`OnlyMarks`, `PlainEnv`), and for credentials that hold no placeholder and form none
with what is beside them (`Ambiguous`); the run also has texts and credentials outside
these conditions, where the code goes its own way.

*BufferManager.* `CloseAll` takes a set because the assembled reader and
`closeMultipartParts` close many; `sync.Once` is `closed`. Reservations are counted
as a set of units, so their sum is a cardinality.

*AssembledReader, Buffers.* The loop of `ReadAt` is stepwise, with `ClosePart` in
between. A file may report its end together with its last bytes, memory reports it with the next read; a
closed file cannot be read, a closed memory buffer still can. A list of one buffer
that no one closes is also the body of a single upload (`single`, `ReadSingle`).
The consumer stops after an error or EOF until it seeks, as `hashUploadReader`
and `copyWithContext` do.

*Server.* `main` is the main goroutine, `serve[s]` the goroutine of each server,
`queue` what the loop of `Shutdown` has left. Requests are accepted by servers that
serve; a detached backup is a request whose handler runs long.

*KeyResolution.* `AuthLoop` takes the map's keys in any order, `ResolveLoop` the
longest first. A configuration with an empty key is left out.

## 3. Runs

Each checks deadlock too: final states have an explicit stuttering action where
the program stops.

| Run | Shows | Bounds |
|---|---|---|
| `Pipeline` | `StoredWhenTrusted`: an accepted upload over an intact, free path has stored exactly its body, whatever failed and was resumed. `VerifiedMatchesExpected`: with verification the object has the expected digest even over a damaging storage. `FailureHasACause`, `ResumeKeepsStored`, `GivesUpOnlyAfterRetries`, `CancelStopsTransfer`, `Terminates` (nothing but a call that hangs keeps `Process` from returning), and the refinement of `UploadContract`. | body of 3 units in chunks of 2 (a full and a short chunk, so failures fall before, inside and after both) and the empty body; 4 headers; paths that are free or hold a shorter, an equal or a longer file; `MaxRetries = 1` as in `NewPipeline`; `MaxFaults = 3`, enough to fail both attempts and the size query between them |
| `Retention` | `BackupAvailable`: under one lock a whole backup exists at every moment. `AcceptedIsStored`: who is told ok has its backup. `RotationBoundsCount`: a rotation that ends makes up for those that failed or were skipped. `KeepsNewest`, also with two locks on one key; `RemovesOnlyExpired` for two keys. | three uploads; one key with limits of 1 and 2, one key spelt twice, two keys by age; `MaxTime = 4` (three distinct seconds after the old backup), `MaxFaults = 2` |
| `BufferManager` | `ReservationsMatch`, `FileOnlyWhenFull` | sizes 2, 3, 1, 4, 0 and unknown against a limit of 5, which 2+3 fills exactly and 2+3+1 exceeds |
| `Handlers` | `NothingLeftBehind`, `OneBodyPerKey`, `BudgetReturned`: the whole budget comes back, and `StalledClientsBlockOwnKey`: clients and storage calls that hang | three requests, two of one key: the least with a waiter and a bystander; sizes 2, unknown and 1 against a budget of 2, so memory, files and a full budget occur; attached, detached, OFF and unknown keys; `MaxFaults = 1` |
| `Multipart` | `ObjectIsRequested`, `OnlyReceivedStored`, `OpenBuffersOwned`, `FilePartStoredOnce`, `CompletedIsGone`, `NobodyWaitsInVain` | four sets of up to six concurrent requests; one part fits in memory, so both kinds of buffers meet; `MaxFaults = 1`, `MaxRefused = 1` |
| `Auth` | `LocalCredentialSuffices`, `SignatureMeansPassword`, `ArgsNameRequest`, `ResolvedOnce`, `VerdictComes` | chains of up to three providers, local ones between two programs; timeouts of 0 (none), 1 and 2; secrets with none, one and two expressions, stray marks and expressions that form at a seam; an environment that names itself; right and wrong credentials, some with placeholders or half of one; every argument of up to three of `%`, `u`, `p`, `k` |
| `AssembledReader` | reads are reads of one contiguous body (`ImplementsSource`); EOF means everything was read (`EOFMeansAll`) | seven lists of up to three parts, among them a single memory and a single file buffer, empty parts at every place; slices up to 5, offsets up to one behind the end |
| `Server` | `CleanExitAnswersAll`, `KilledOnlyAfterGrace`, `AllAreShutDown`, `ExitsAfterSignal` | header and port mode with and without the debug server, three requests, one failing Serve |
| `KeyResolution` | `SamePolicy`, `FollowsRules` | up to three of six keys, requests of up to five characters |

Runs that show a disagreement (section 6): `Pipeline_casing`, `Pipeline_download`,
`Retention_per_key`.

`DownloadReadable = TRUE` in `Pipeline` is the contract of the `Backend` interface
("Download reads the remote file for verification purposes"); the SFTP backend
does not keep it, which is the run `Pipeline_download`. Everything else about
verification is therefore a statement about the pipeline over a backend that keeps
its interface.

## 4. Fairness

The code sets no timeouts: not for the connections of its clients, not for `ssh.Dial`
and the SFTP calls, not for the output of an external program (`CombinedOutput` without
`WaitDelay`). So each of these may be waited for without an end, fairness says nothing
of them, and the properties name them as the only such waits.

* `Pipeline`: weak fairness of the next step of `Process` unless it hangs in a call of
  the backend or, in mode OFF, in a read of the connection (`Hangs`): it is a sequential
  function. Cancellation is not fair, nor is hanging.
* `Multipart`: weak fairness of each request that waits neither for its client
  (`WaitsForClient`) nor for the storage (`WaitsForStorage`). A mutex that is free is
  given to a waiter that goes on waiting
  (Go's mutex switches to starvation mode, so a waiter is not passed over forever).
  Each lock is taken a bounded number of times, so weak fairness is enough.
* `Handlers`: the same of each handler.
* `Auth`: weak fairness of startup, of the request and of the clock, and nothing of the
  program and of the processes that hold its output (`WaitsForOutput`). `VerdictComes`
  asks for positive timeouts and plain environment values, because without them the code
  does wait, or expand, for ever.
* `Server`: weak fairness of main, of the Serve goroutines and of the deadline.
  Handlers need not return and clients need not send anything: `ExitsAfterSignal`
  has to hold with backups that hang.
* `Retention`, `BufferManager`, `AssembledReader`, `KeyResolution`: safety only.

## 5. Proofs

All theorems hold for every value of the constants allowed by the named assumption of
the module (`PipelineAssumption`, `RetentionAssumption`, ...), which gives the
constants their types and, where needed, finiteness.

*PipelineProofs.* The assumption adds that a free path has no content. The invariant
`Inv` says more than the properties: both sides of a copy are at the same position,
inside the body and inside the remote file (`Positions`; without it a resumed write
could leave a hole); the remote file is a beginning of the body at all times
(`Beginning`), which a position at the end of the body turns into equality
(`PartOfFullLength`); what has been transferred stays transferred (`Transferred`); a
refused upload has not left "hash" (`Refused`). The lemmas `WriteAtType`,
`WriteAtPart` and `ChunkOfBody` do the sequence arithmetic, one lemma per action
preserves `Inv`, and `TransferFailedInv` and `TransferDoneInv` are shared. Results:
`TypeCorrect`, `StoredCorrect`, `VerifiedCorrect`, `RefusedCorrect`, and
`Implementation`: `Process` implements `UploadContract`, from `Inv` and `StepEffect`,
which says how each step moves the phase and that none writes after acceptance. Two
further invariants, that there are no more retries than failures (`Counted`) and that
without faults the remote file is what was sent (`AsSent`), give the action properties
`ResumesKeep` and `RetriesUsed` and the invariant `FailuresHaveCauses`.

*RetentionProofs.* The hard part is a rotation that works on an old listing. The lemma
`Order` says what an order of deletion is, `FewAreKept` that at most `maxCount` files
of a listing are kept, `ChosenIsOutnumbered` that a chosen file has `maxCount` newer
ones in the listing. The invariant has one conjunct for the lock (`LockHeld`), the
names of files (`Named`, `Origin`), what a rotation has looked at (`Considered`,
`Newest`), and what survives (`Undisturbed`, `Available`, `Expired`). `Superseded` is
the key to two locks: what was outnumbered in an old listing is still outnumbered in
the directory, since those newer files go only after enough still newer ones have
come. Results: `BackupRemains`, `Accepted`, `CountBounded`, `NewestKept`,
`ExpiredOnly`.

*HandlersProofs.* Who stands between lock and unlock holds the lock, and nobody else
does (`LockHeld`); who has an open buffer stands between its creation and its close
(`BufferOwned`); who goes to `Process` with a buffer has a whole body (`BodyWhole`),
and nobody has answered before (`NoAnswerYet`). Results: `LeavesNothing`, `OneBody`,
`WholeBodies`. The section on the memory
budget is about `BudgetSpec`, any sequence of calls of the manager: `BudgetInv` adds
to the equality of counter and reservations that their set is finite, that the counter
is within the limit and that only existing buffers are closed. Results: `CounterExact`
(the clamp of `releaseMemory` is never reached by a double release), `BudgetKept`,
`DiskOnlyWhenFull`. The lemma `BudgetImplemented`, the steps of the handlers are such
calls, carries them over to all handlers together (`HandlersKeepBudget`), and with
`BufferOwned` the reservations are those of the requests that have not closed their
buffers yet (`BudgetComesBack`).

*MultipartProofs.* Each request stands where its operation allows (`Placed`); the
parts of a session are buffers of requests of that session and number (`PartsKept`,
`BufferMade`); the lock of the key belongs to one completion at a time (`LockHeld`);
what is stored consists of parts that were received whole, closed before the lock is
free (`StoredWhole`); each id is created once (`CreatedOnce`) and a removed session stays
away (`Gone`). Results: `ReceivedWhole`, `BuffersOwned`, `StoredOnce`,
`CompletionEnds`. For `Requested` a second invariant follows the
list of part numbers through a completion (`OrderInv`): sorted and complete from
`RequestedPartNumbers` on (`Wanted`), then turned into the buffers of these parts of
this session (`Made`). It needs that sorting a list keeps its numbers: `Ascending` is
the choice of an order of its places, and the section on sorting shows that there is
one, by inserting the last element of a list into the order of the others.
`MultipartKeepsBudget` carries the budget to the multipart requests, where two of them
may close one part.

*AuthProofs.* The chain is a sequence of providers (`ChainType`), a request is tried
at a place of it (`RequestPlace`), and every provider before that place has refused
(`TriedInVain`). Results: `LocalSuffices`, `SignatureIsPassword`. `Resolved` is about
texts of any length: at each turn the
remaining text has the same fully expanded form as the configured one (`Resolving`); a
turn keeps that form if the values are plain and dollar signs stand in marks only, and
leaves such a text (`ExpandOnceKeeps`, with `RestShift`:
what stands behind a position decides its expansion), and a text without an expression
is its own (`ExpandedPlain`). Both hypotheses are needed: with a value that holds an
expression, or a stray dollar sign that becomes one, the code expands again.

*ReaderProofs.* The bytes written so far stand in the content of the parts at the
position of the reader, and inside the loop of `ReadAt` the offset into the current
part is the same place (`Positioned`); what the consumer copied stands behind its last
`Seek` (`CopiedFrom`); one call at a time has local variables (`Fresh`), and a body of
a single buffer stays open (`SingleAlone`). The content of a list of parts is a
recursive function: `BeforeStep` and `BeforeIsPrefix` say how it grows,
`PartsInContent` where each part stands in it, `ReadAtAnswer` and `ReadAnswer` what a
buffer gives. Results: `EOFCoversBody`, and `ReaderImplementsSource`: every `Read` is
a read of one contiguous body.

*ServerProofs.* Only existing servers listen and serve (`Listed`, `Listening`),
`Shutdown` has handled the servers it took from the queue (`Looped`) and drained them
unless the deadline passed (`Drained`), and requests in work belong to a process that
lives (`Alive`). Results: `CleanExit`, `GraceKept`, `AllShutDown`. The type invariant
adds that no server is listed twice, which rests on the assumption that each listener
has an `http.Server` of its own.

*KeyProofs.* Both loops are shown to end at the longest candidate: `BestSoFar` for the
unordered one, `NoneSoFar` for the sorted one. The tests of the two functions select
the same keys (`SameTest`), and a request has one path prefix of each length
(`OnePrefix`), so the longest is unique (`OneChoice`). Results: `PoliciesAgree`, and
`RulesFollowed`: what is selected is what the comment of `ResolveKeyConfig` promises,
as its rules and the choice of the longest candidate are the same (`SameRule`).

*Induction over data.* Theorems with an operator as parameter cannot be used, so
induction is over a set: `SetInduction` says that a set which holds 0 and with every
number the next one holds all numbers, and follows from the well-foundedness of `<`
(`Smallest`). The set is the one of the lengths or positions for which the statement
holds. A recursive function is used only after its existence is shown the same way
(`RestExists`), since it is defined by a choice. The three modules
that need this have these lemmas each.

Proved, but no property of a run: `TypeCorrect` (in every module of proofs),
`RefusedCorrect`, `BudgetKept`, `WholeBodies`, `HandlersKeepBudget` and
`MultipartKeepsBudget`.

Only model-checked: liveness (`Terminates`, `CancelStopsTransfer`,
`NobodyWaitsInVain`, `StalledClientsBlockOwnKey`, `VerdictComes`,
`ExitsAfterSignal`), since fairness and `ENABLED` are out of the prover's reach, and
`ArgsNameRequest`, for the arguments and credentials of the run: that replacing one mark
after the other equals replacing all at once is an induction over texts in which marks
may overlap, and is not proved yet. Every
other property of the passing runs is proved for all values of the constants.

## 6. Where code and documentation disagree

With a run that shows it:

* `Pipeline_casing`: `Verify` compares hex digests with `!=` (`verifier.go:45`), the
  other tests with `EqualFold`; a right header in upper case fails verification.
* `Pipeline_download`: the reader `Download` returns belongs to a connection that
  `withClient` has closed (`sftp_backend.go:108`), so no verified upload succeeds over SFTP.
* `Retention_per_key`: the rotation of a key counts and deletes files of every key of
  its directory (`rotation.go:39`).

Seen while modelling, without a run:

* The retry continues whatever file is at the path (`pipeline.go:175`), also one of
  another upload in the same second; `backend.go:31` says "ResumeUpload continues
  a previously interrupted upload".
* A FULLY_IMMEDIATELY upload never compares its header with the body
  (`pipeline.go:233`); `README.ko.md:13` lists header verification without a mode.
  `UploadContract` therefore demands it in the two other modes only.
* `processOff` has one attempt (`pipeline.go:113`), its comment promises a retry.
* Verification and rotation do not look at the context (`verifier.go:33`), so a
  cancelled upload can still succeed; `config.go:114` says it is cancelled.
* An OFF upload reads from the connection, so detaching it (`config.go:118`) does
  not let it continue after the client has left.
* `external.go:62` replaces the placeholders one after the other, so a user name or
  password that holds `%p` or `%k`, or ends in `%` before a `p` or `k` of the template,
  reaches the program altered; the comments at
  lines 15 and 58 say what each placeholder stands for and nothing of this.
* `inline.go:63` searches its own result again, so `${${env.X}}` with the value `env.A`
  is expanded twice; its comment speaks of patterns that are replaced with values.
* A part that is refused for its hash keeps its buffer (`s3_multipart.go:105`), and one
  that arrives after its upload was removed stays in a session nobody reaches (line 111).
* The timeout of an external program kills the program only (`external.go:41`): the
  request waits for every process that holds its output.
* The "unknown key" answers after authentication are never given: both lookups
  select from the same keys (`KeyProofs`), and a key without a chain is refused first.
* Two spellings of a key (`db/a`, `db//a`) have a lock each (`handler.go:97`) and one
  path; `Retention` has them as a case, where `KeepsNewest` holds and
  `AcceptedIsStored` is not claimed.

## 7. Not modelled

* SHA-256 collisions; the strings of paths, timestamps, headers, XML and answers;
  logging, request ids, debug handlers.
* The texts `isNotExist` of rotation and backend looks for: that an error is accepted
  is a choice.
* Canonicalization and HMAC of Signature V4 (`aws_request.go`), and the hashes of
  htpasswd files (`htpasswd.go`): string work without state. That a
  part may be refused for its content hash is a choice in `Multipart`.
* Parsing of the credentials files and of the configuration: sequential, before
  anything runs; its results are the assumptions on the constants.
* Growth over the life of the process: the map of key mutexes is never pruned
  (`handler.go:97`), and sessions that are neither completed nor aborted stay
  (`s3_multipart.go:67`). No step removes either, so there is nothing to check.
* rsync (`rsync_*.go`, `FileName` and `Sync` of the file buffer): `validate.go:31`
  refuses every configuration that enables it.
* `SHA256Hasher`, `NewFileBackedBuffer`, `NewStreamBuffer`, `SlidingBuffer`: no caller.

## 8. Plan

Done: the upload core (`Pipeline`, `UploadContract`), `Retention`, the buffers' budget,
`Handlers` and `Multipart` over it, `Buffers` and `AssembledReader`, `Auth`, `Server`,
`KeyResolution`, and a proof of every safety property of theirs but `ArgsNameRequest`.

Left, in this order:

1. Loading of the configuration: durations and sizes, and what each limit is when
   it is absent or cannot be parsed; with it the failure of `max_age` after a backup
   is stored (`pipeline.go:215`).
2. Contents of files in `Retention`, so that a file which disappears between
   `RemoteSize` and `ResumeUpload` (`pipeline.go:179`) can be told from a whole one.
3. One composition of `Handlers` and `Multipart` over a common lock and budget; they
   meet in `BufferManager` only.
4. A proof of `ArgsNameRequest`.
5. A shutdown with the handlers of `Handlers` inside the requests of `Server`.
