----------------------------- MODULE Retention -----------------------------
(***************************************************************************)
(* One directory of the backup storage and the uploads that write into it  *)
(* and rotate it: the key lock of the HTTP and S3 handlers                 *)
(* (internal/api/handler.go), the storage path an upload gets              *)
(* (internal/pipeline/pipeline.go) and the rotation after it               *)
(* (internal/rotation/rotation.go).                                        *)
(*                                                                         *)
(* An upload of module Pipeline is three steps here: it opens its file,    *)
(* and then stores it to the end or fails and leaves a part of it.         *)
(* Uploads of different keys run concurrently and share the directory.     *)
(***************************************************************************)
EXTENDS Naturals, FiniteSets, SequencesExt

CONSTANTS
  Uploads,      \* the upload requests
  Urls,         \* keys as the requests spell them, the domain of the locks
  Clean,        \* the file name and directory path.Clean makes of a spelling
  Cases,        \* the configurations, directories and requests to begin with
  MaxTime,      \* bound on the clock
  MaxFaults     \* bound on the calls that fail

Keys == {Clean[k] : k \in Urls}

\* A name in the directory; parseTimestamp returns the zero time for a name
\* that has no timestamp.
NoTime == 0
Name == [ts : Nat, key : Keys]

\* The key each upload names, the rotation policy of each key (0 is no limit),
\* the backups that are there already, the directories and files without a
\* timestamp beside them, and whether two uploads of a key may start in the
\* same second.
Case == [urlOf : [Uploads -> Urls], policy : [Urls -> [maxCount : Nat, maxAge : Nat]],
         old : SUBSET Name, others : SUBSET Name, sameSecond : BOOLEAN]

ASSUME RetentionAssumption ==
  /\ Cases \subseteq Case
  /\ \A c \in Cases : IsFiniteSet(c.old) /\ IsFiniteSet(c.others)
  /\ \A c \in Cases : \A n \in c.old : n.ts # NoTime
  /\ \A c \in Cases : \A n \in c.others : n.ts = NoTime
  /\ MaxTime \in Nat /\ MaxFaults \in Nat

VARIABLES
  given,    \* the case
  now,      \* the clock of the gateway in seconds
  files,    \* the names in the directory
  intact,   \* the backups among them that hold a whole body
  lock,     \* Handler.keyMu: the upload that holds the lock of each key, if any
  pc,       \* where each upload stands
  name,     \* the file each upload writes
  listed,   \* the backups each rotation found in the directory
  doomed,   \* what each rotation still has to delete, in its order
  answer,   \* what each client was told
  faults    \* calls that failed so far

vars == <<given, now, files, intact, lock, pc, name, listed, doomed, answer, faults>>

UrlOf == given.urlOf
Old == given.old
Others == given.others

Free == {}                 \* no upload holds the lock
NoName == [ts |-> NoTime, key |-> ""]

TypeOK ==
  /\ given \in Cases
  /\ now \in 0..MaxTime
  /\ files \subseteq Name
  /\ intact \subseteq files
  /\ lock \in [Urls -> {Free} \cup {{u} : u \in Uploads}]
  /\ pc \in [Uploads -> {"start", "body", "path", "open", "store", "list",
                         "select", "delete", "done"}]
  /\ name \in [Uploads -> Name \cup {NoName}]
  /\ listed \in [Uploads -> SUBSET Name]
  /\ doomed \in [Uploads -> Seq(Name)]
  /\ answer \in [Uploads -> {"none", "ok", "error"}]
  /\ faults \in 0..MaxFaults

\* parseTimestamp: the files a rotation considers.
Timestamped(names) == {n \in names : n.ts # NoTime}
PolicyOf(u) == given.policy[UrlOf[u]]

Init ==
  /\ given \in Cases
  /\ now \in {t \in 1..MaxTime : \A n \in Old : n.ts < t}
  /\ files = Old \cup Others
  /\ intact = Old
  /\ lock = [k \in Urls |-> Free]
  /\ pc = [u \in Uploads |-> "start"]
  /\ name = [u \in Uploads |-> NoName]
  /\ listed = [u \in Uploads |-> {}]
  /\ doomed = [u \in Uploads |-> <<>>]
  /\ answer = [u \in Uploads |-> "none"]
  /\ faults = 0

Goto(u, label) == pc' = [pc EXCEPT ![u] = label]

\* The handler answers and its deferred Unlock runs.
Answer(u, what) ==
  /\ Goto(u, "done")
  /\ answer' = [answer EXCEPT ![u] = what]
  /\ lock' = [lock EXCEPT ![UrlOf[u]] = Free]

Fault == faults < MaxFaults /\ faults' = faults + 1

\* acquireKeyLock: one lock for each spelling of a key.
Acquire(u) ==
  /\ pc[u] = "start" /\ lock[UrlOf[u]] = Free
  /\ lock' = [lock EXCEPT ![UrlOf[u]] = {u}]
  /\ Goto(u, "body")
  /\ UNCHANGED <<given, now, files, intact, name, listed, doomed, answer, faults>>

\* The body arrives while the lock is held; the client may break off.
Receive(u) ==
  /\ pc[u] = "body"
  /\ \/ Goto(u, "path") /\ UNCHANGED <<lock, answer, faults>>
     \/ Fault /\ Answer(u, "error")
  /\ UNCHANGED <<given, now, files, intact, name, listed, doomed>>

\* generateStoragePath: the time in seconds and the cleaned key.
GenerateStoragePath(u) ==
  /\ pc[u] = "path"
  /\ LET n == [ts |-> now, key |-> Clean[UrlOf[u]]]
     IN  /\ given.sameSecond \/ n \notin files \cup {name[v] : v \in Uploads}
         /\ name' = [name EXCEPT ![u] = n]
  /\ Goto(u, "open")
  /\ UNCHANGED <<given, now, files, intact, lock, listed, doomed, answer, faults>>

\* Backend.Upload creates the file or truncates the one that has its name.
OpenFile(u) ==
  /\ pc[u] = "open"
  /\ files' = files \cup {name[u]}
  /\ intact' = intact \ {name[u]}
  /\ Goto(u, "store")
  /\ UNCHANGED <<given, now, lock, name, listed, doomed, answer, faults>>

\* The whole body is stored, into a file nobody can open any more if a
\* rotation removed its name in the meantime.
StoreFile(u) ==
  /\ pc[u] = "store"
  /\ intact' = intact \cup ({name[u]} \cap files)
  /\ Goto(u, "list")
  /\ UNCHANGED <<given, now, files, lock, name, listed, doomed, answer, faults>>

\* The upload is given up; what it has stored stays where it is.
UploadFails(u) ==
  /\ pc[u] \in {"open", "store"} /\ Fault
  /\ Answer(u, "error")
  /\ UNCHANGED <<given, now, files, intact, name, listed, doomed>>

\* Manager.Apply without a policy, or listing the directory.  An error that
\* isNotExist takes for a missing directory (any text with "not found" or "no
\* such file", whatever it is about) ends Apply without an error and without a
\* rotation.
List(u) ==
  /\ pc[u] = "list"
  /\ IF PolicyOf(u) = [maxCount |-> 0, maxAge |-> 0]
     THEN Answer(u, "ok") /\ UNCHANGED <<listed, faults>>
     ELSE \/ /\ listed' = [listed EXCEPT ![u] = Timestamped(files)]
             /\ Goto(u, "select")
             /\ UNCHANGED <<lock, answer, faults>>
          \/ Fault /\ Answer(u, "error") /\ UNCHANGED listed
          \/ Fault /\ Answer(u, "ok") /\ UNCHANGED listed
  /\ UNCHANGED <<given, now, files, intact, name, doomed>>

\* Variant: oldest first.
OldestFirst(names) ==
  {s \in SetToSeqs(names) :
     \A i, j \in 1..Len(s) : i < j => s[i].ts <= s[j].ts}

\* sort.Slice: newest first, names of one second in any order.
NewestFirst(names) ==
  {s \in SetToSeqs(names) :
     \A i, j \in 1..Len(s) : i < j => s[i].ts >= s[j].ts}

\* Variants: one backup too few or too many is kept, or one second too few.
ByCountTooFew(u, i) == PolicyOf(u).maxCount > 0 /\ i >= PolicyOf(u).maxCount
ByCountTooMany(u, i) == PolicyOf(u).maxCount > 0 /\ i > PolicyOf(u).maxCount + 1
ByAgeTooSoon(u, n) == PolicyOf(u).maxAge > 0 /\ now >= n.ts + PolicyOf(u).maxAge

ByCount(u, i) == PolicyOf(u).maxCount > 0 /\ i > PolicyOf(u).maxCount
ByAge(u, n) == PolicyOf(u).maxAge > 0 /\ now > n.ts + PolicyOf(u).maxAge

\* selectForDeletion (positions count from 1 here).
Chosen(u, order) ==
  {order[i] : i \in {j \in DOMAIN order : ByCount(u, j) \/ ByAge(u, order[j])}}

\* What is chosen is deleted in the same order, newest first.
SelectForDeletion(u) ==
  /\ pc[u] = "select"
  /\ \E order \in NewestFirst(listed[u]) : \E chosen \in NewestFirst(Chosen(u, order)) :
       doomed' = [doomed EXCEPT ![u] = chosen]
  /\ listed' = [listed EXCEPT ![u] = {}]
  /\ Goto(u, "delete")
  /\ UNCHANGED <<given, now, files, intact, lock, name, answer, faults>>

\* Apply deletes one file after the other and returns at the first error: a
\* file that another rotation deleted first is one.
Delete(u) ==
  /\ pc[u] = "delete" /\ doomed[u] # <<>>
  /\ \/ /\ Head(doomed[u]) \in files
        /\ files' = files \ {Head(doomed[u])}
        /\ intact' = intact \ {Head(doomed[u])}
        /\ doomed' = [doomed EXCEPT ![u] = Tail(doomed[u])]
        /\ UNCHANGED <<lock, pc, answer, faults>>
     \/ /\ IF Head(doomed[u]) \in files THEN Fault ELSE UNCHANGED faults
        /\ Answer(u, "error")
        /\ UNCHANGED <<files, intact, doomed>>
  /\ UNCHANGED <<given, now, name, listed>>

ApplyDone(u) ==
  /\ pc[u] = "delete" /\ doomed[u] = <<>>
  /\ Answer(u, "ok")
  /\ UNCHANGED <<given, now, files, intact, name, listed, doomed, faults>>

Tick ==
  /\ now < MaxTime
  /\ now' = now + 1
  /\ UNCHANGED <<given, files, intact, lock, pc, name, listed, doomed, answer, faults>>

\* Nothing is left to do, or the clock of the model has run out.
AllAnswered ==
  /\ (\A u \in Uploads : pc[u] = "done") \/ now = MaxTime
  /\ UNCHANGED vars

Step(u) ==
  \/ Acquire(u) \/ Receive(u) \/ GenerateStoragePath(u) \/ OpenFile(u)
  \/ StoreFile(u) \/ UploadFails(u) \/ List(u) \/ SelectForDeletion(u)
  \/ Delete(u) \/ ApplyDone(u)

Next == (\E u \in Uploads : Step(u)) \/ Tick \/ AllAnswered

Spec == Init /\ [][Next]_vars

-----------------------------------------------------------------------------
(* Properties.                                                              *)

Removed == files \ files'
Answers(u, what) == answer[u] = "none" /\ answer'[u] = what
RotationBy(u) == pc[u] = "delete" /\ doomed'[u] # doomed[u]

\* The cases a property is about: all backups, old and new, of one cleaned key,
\* and in seconds of their own; with one spelling the uploads have one lock too;
\* rotation by count alone or by age alone.
OneKey ==
  /\ ~given.sameSecond
  /\ \A u, v \in Uploads : Clean[UrlOf[u]] = Clean[UrlOf[v]]
  /\ \A u \in Uploads, n \in Old : n.key = Clean[UrlOf[u]]
OneLock == OneKey /\ \A u, v \in Uploads : UrlOf[u] = UrlOf[v]
OnePolicy == \A u, v \in Uploads : PolicyOf(u) = PolicyOf(v)
ByCountOnly(u) == PolicyOf(u).maxCount > 0 /\ PolicyOf(u).maxAge = 0
ByAgeOnly(u) == PolicyOf(u).maxCount = 0 /\ PolicyOf(u).maxAge > 0

\* While uploads under one lock succeed, fail half way and rotate by count, a
\* key that had a whole backup has one: the partial files of failed uploads
\* count for the rotation, but the upload that rotates is the newest and whole.
BackupAvailable ==
  OneLock /\ (\A u \in Uploads : ByCountOnly(u))
    => \A n \in Old : \E m \in intact : m.key = n.key

\* A client that is told "ok" has its backup on the storage at that moment:
\* neither its own rotation nor another one took it away, as long as the lock
\* of the key keeps the uploads apart.
AcceptedIsStored ==
  [][\A u \in Uploads : OneLock /\ ByCountOnly(u) /\ Answers(u, "ok")
       => name[u] \in intact']_vars

\* When the rotation of an accepted upload ran to its end under one lock, the
\* directory holds at most maxCount backups.  It makes up for what uploads
\* before it left: partial files, and backups over the limit whose rotation
\* failed half way or was skipped (isNotExist).
CompletedRotation(u) == pc[u] = "delete" /\ Answers(u, "ok")
RotationBoundsCount ==
  [][\A u \in Uploads : OneLock /\ ByCountOnly(u) /\ CompletedRotation(u)
       => Cardinality(Timestamped(files')) <= PolicyOf(u).maxCount]_vars

\* A rotation by count removes a file only while maxCount newer ones are in the
\* directory, also when two spellings of one key have a lock each and two
\* rotations work on old listings at the same time; files and directories whose
\* name has no timestamp stay (README.ko.md:217).
KeepsNewest ==
  [][\A u \in Uploads, n \in Removed :
       OneKey /\ OnePolicy /\ RotationBy(u) /\ ByCountOnly(u)
         => /\ n \notin Others
            /\ Cardinality({m \in Timestamped(files') : m.ts > n.ts})
                 >= PolicyOf(u).maxCount]_vars

\* A rotation by age removes only files that are older than maxAge, whatever
\* other keys do in the directory.
RemovesOnlyExpired ==
  [][\A u \in Uploads, n \in Removed :
       RotationBy(u) /\ ByAgeOnly(u)
         => now > n.ts + PolicyOf(u).maxAge]_vars

\* README.ko.md:15 "rotation by count and age for each key": the rotation of an
\* upload removes only backups of its own key.
RotationIsPerKey ==
  [][\A u \in Uploads, n \in Removed :
       RotationBy(u) => n.key = Clean[UrlOf[u]]]_vars
=============================================================================
