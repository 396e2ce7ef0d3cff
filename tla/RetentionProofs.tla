-------------------------- MODULE RetentionProofs --------------------------
(***************************************************************************)
(* Proofs about Retention for every set of uploads, spellings and backups, *)
(* every policy and every order of their steps: what rotation may take     *)
(* away, under one lock and under several.                                 *)
(***************************************************************************)
EXTENDS Retention, FiniteSetTheorems, TLAPS

Early == {"start", "body", "path"}
Written == {"open", "store", "list", "select", "delete"}
Active == {"body", "path"} \cup Written

Typed ==
  /\ given \in Cases
  /\ now \in Nat \ {0}
  /\ files \subseteq Name /\ intact \subseteq files /\ IsFiniteSet(files)
  /\ lock \in [Urls -> SUBSET Uploads]
  /\ pc \in [Uploads -> Early \cup Written \cup {"done"}]
  /\ name \in [Uploads -> Name \cup {NoName}]
  /\ listed \in [Uploads -> SUBSET Name]
  /\ doomed \in [Uploads -> Seq(Name)]
  /\ answer \in [Uploads -> {"none", "ok", "error"}]

\* From its Lock to its answer an upload is the only holder of its lock.
LockHeld == \A u \in Uploads : pc[u] \in Active => lock[UrlOf[u]] = {u}

\* The names of the uploads lie between the old backups and the clock.
Named ==
  /\ \A n \in Old : n.ts < now
  /\ \A u \in Uploads :
       /\ name[u].ts <= now
       /\ name[u].ts # NoTime => name[u] \in Name /\ name[u].key = Clean[UrlOf[u]]
       /\ pc[u] \in Early => name[u].ts = NoTime
       /\ pc[u] \in Written => name[u].ts # NoTime

\* Every file was there at the beginning or is one of an upload.
ByUpload(n) == \E v \in Uploads : n = name[v] /\ name[v].ts # NoTime
Origin ==
  /\ \A n \in files : n \in Old \cup Others \/ ByUpload(n)
  /\ \A n \in intact : n \in Old \/ ByUpload(n)

\* Rotation considers backups only.
Considered ==
  \A u \in Uploads :
    /\ IsFiniteSet(listed[u])
    /\ \A n \in listed[u] : n.ts # NoTime /\ (OneKey => n.key = Clean[UrlOf[u]])
    /\ \A n \in ToSet(doomed[u]) : n.ts # NoTime

\* Under one lock the upload that is at work has the newest file.
Newest ==
  OneLock => \A u \in Uploads : pc[u] \in Written =>
    \A m \in files : m # name[u] => m.ts < name[u].ts

\* Under one lock the directory is as the upload has left and listed it, and its
\* rotation leaves its own file and no more than maxCount.
Undisturbed ==
  OneLock => \A u \in Uploads :
    /\ pc[u] = "open" => name[u] \notin files
    /\ pc[u] = "store" => name[u] \in files
    /\ pc[u] \in {"list", "select", "delete"} /\ ByCountOnly(u) => name[u] \in intact
    /\ pc[u] = "select" => listed[u] = Timestamped(files)
    /\ pc[u] = "delete" /\ ByCountOnly(u) =>
         /\ name[u] \notin ToSet(doomed[u])
         /\ Cardinality(Timestamped(files) \ ToSet(doomed[u])) <= PolicyOf(u).maxCount

Available ==
  OneLock /\ (\A u \in Uploads : ByCountOnly(u)) =>
    Old \subseteq intact \/ (Uploads # {} /\ intact # {})

\* Of one key and policy, what was outnumbered in a listing is outnumbered in the
\* directory, although other rotations have gone on since.
Newer(S, n) == {m \in Timestamped(S) : m.ts > n.ts}
Outnumbered(k, S, n) == Cardinality(Newer(S, n)) >= k
Superseded ==
  OneKey /\ OnePolicy => \A u \in Uploads : ByCountOnly(u) =>
    LET k == PolicyOf(u).maxCount
    IN  /\ \A n \in listed[u] : Outnumbered(k, listed[u], n) => Outnumbered(k, files, n)
        /\ \A n \in ToSet(doomed[u]) : Outnumbered(k, files, n)

Expired ==
  \A u \in Uploads : ByAgeOnly(u) =>
    \A n \in ToSet(doomed[u]) : now > n.ts + PolicyOf(u).maxAge

IInv == /\ Typed /\ LockHeld /\ Named /\ Origin /\ Considered /\ Newest
        /\ Undisturbed /\ Available /\ Superseded /\ Expired

-----------------------------------------------------------------------------
(* The cases and the order of a rotation                                    *)

\* What a case consists of.
LEMMA CaseType ==
  ASSUME given \in Cases
  PROVE  /\ UrlOf \in [Uploads -> Urls]
         /\ Old \subseteq Name /\ IsFiniteSet(Old) /\ \A n \in Old : n.ts # NoTime
         /\ Others \subseteq Name /\ IsFiniteSet(Others) /\ \A n \in Others : n.ts = NoTime
         /\ \A u \in Uploads : PolicyOf(u).maxCount \in Nat /\ PolicyOf(u).maxAge \in Nat
<1> QED BY RetentionAssumption DEF Case, UrlOf, Old, Others, PolicyOf

\* A behaviour stays in its case.
LEMMA CaseKept ==
  ASSUME given' = given
  PROVE  /\ UrlOf' = UrlOf /\ Old' = Old /\ Others' = Others
         /\ OneKey' <=> OneKey
         /\ OneLock' <=> OneLock
         /\ OnePolicy' <=> OnePolicy
         /\ \A u \in Uploads : PolicyOf(u)' = PolicyOf(u)
         /\ \A u \in Uploads : ByCountOnly(u)' <=> ByCountOnly(u)
         /\ \A u \in Uploads : ByAgeOnly(u)' <=> ByAgeOnly(u)
<1>1. UrlOf' = UrlOf /\ Old' = Old /\ Others' = Others
  BY DEF UrlOf, Old, Others
<1>2. \A u \in Uploads : PolicyOf(u)' = PolicyOf(u)
  BY <1>1 DEF PolicyOf
<1>3. OneKey' <=> OneKey
  BY <1>1 DEF OneKey
<1>4. OneLock' <=> OneLock
  BY <1>1, <1>3 DEF OneLock
<1>5. OnePolicy' <=> OnePolicy
  BY <1>2 DEF OnePolicy
<1> QED BY <1>1, <1>2, <1>3, <1>4, <1>5 DEF ByCountOnly, ByAgeOnly

\* Uploads that share a lock are not at work at the same time.
LEMMA Alone ==
  ASSUME LockHeld, OneLock, NEW u \in Uploads, NEW v \in Uploads,
         pc[u] \in Active, pc[v] \in Active
  PROVE  u = v
<1>1. UrlOf[u] = UrlOf[v]
  BY DEF OneLock
<1> QED BY <1>1 DEF LockHeld

\* What NewestFirst says of a finite set: every element has one place, no one
\* stands before a newer one.
LEMMA Order ==
  ASSUME NEW S \in SUBSET Name, IsFiniteSet(S), NEW s \in NewestFirst(S)
  PROVE  /\ Cardinality(S) \in Nat
         /\ s \in Seq(S) /\ DOMAIN s = 1..Cardinality(S)
         /\ \A i, j \in DOMAIN s : i # j => s[i] # s[j]
         /\ \A i, j \in DOMAIN s : i < j => s[i].ts >= s[j].ts
         /\ ToSet(s) = S
<1>1. Cardinality(S) \in Nat
  BY FS_CardinalityType
<1>2. /\ s \in [1..Cardinality(S) -> S]
      /\ \A i, j \in 1..Cardinality(S) : i # j => s[i] # s[j]
      /\ \A i, j \in 1..Len(s) : i < j => s[i].ts >= s[j].ts
  BY DEF NewestFirst, SetToSeqs
<1>3. s \in Seq(S) /\ Len(s) = Cardinality(S) /\ DOMAIN s = 1..Cardinality(S)
  BY <1>1, <1>2
<1>4. ToSet(s) = S
  <2> DEFINE D == 1..Cardinality(S)
  <2>1. IsFiniteSet(D) /\ Cardinality(D) = Cardinality(S)
    BY <1>1, FS_Interval
  <2>2. ToSet(s) \subseteq S
    BY <1>2, <1>3 DEF ToSet
  <2>3. s \in Bijection(D, ToSet(s))
    BY <1>2, <1>3 DEF Bijection, Injection, Surjection, IsInjective, ToSet
  <2>4. ExistsBijection(D, ToSet(s))
    BY <2>3 DEF ExistsBijection
  <2>5. Cardinality(ToSet(s)) = Cardinality(S)
    BY <2>1, <2>4, FS_Bijection
  <2> QED BY <2>2, <2>5, FS_Subset
<1> QED BY <1>1, <1>2, <1>3, <1>4

-----------------------------------------------------------------------------
(* Steps of the uploads                                                     *)

\* More files do not make fewer newer ones.
LEMMA MoreFiles ==
  ASSUME NEW k \in Nat, NEW T, IsFiniteSet(T), NEW S \in SUBSET T, NEW n,
         Outnumbered(k, S, n)
  PROVE  Outnumbered(k, T, n)
<1>1. IsFiniteSet(Newer(T, n)) /\ Newer(S, n) \subseteq Newer(T, n)
  <2>1. Newer(T, n) \subseteq T /\ Newer(S, n) \subseteq Newer(T, n)
    BY DEF Newer, Timestamped
  <2> QED BY <2>1, FS_Subset
<1>2. Cardinality(Newer(S, n)) <= Cardinality(Newer(T, n))
  BY <1>1, FS_Subset
<1>3. Cardinality(Newer(S, n)) \in Nat /\ Cardinality(Newer(T, n)) \in Nat
  BY <1>1, FS_Subset, FS_CardinalityType
<1> QED BY <1>2, <1>3 DEF Outnumbered

\* In the beginning there are the old backups.
LEMMA InitInv == Init => IInv
<1> SUFFICES ASSUME Init PROVE IInv
  OBVIOUS
<1>1. Typed
  <2>1. now \in Nat \ {0}
    BY RetentionAssumption DEF Init
  <2>2. given \in Cases /\ files = Old \cup Others /\ intact = Old
    BY DEF Init
  <2>3. files \subseteq Name /\ intact \subseteq files /\ IsFiniteSet(files)
    BY <2>2, CaseType, FS_Union
  <2>4. \A u \in Uploads : doomed[u] = <<>> /\ <<>> \in Seq(Name)
    BY DEF Init
  <2> QED BY <2>1, <2>2, <2>3, <2>4 DEF Init, Typed, Early, Free
<1>2. \A u \in Uploads : ToSet(doomed[u]) = {}
  BY DEF Init, ToSet
<1>3. Named /\ LockHeld
  <2>1. now \in Nat \ {0} /\ \A n \in Old : n.ts < now
    BY RetentionAssumption DEF Init
  <2>2. \A u \in Uploads : pc[u] = "start" /\ name[u].ts = 0
    BY DEF Init, NoName, NoTime
  <2> QED BY <2>1, <2>2 DEF Named, LockHeld, Early, Written, Active, NoTime
<1>4. Origin /\ Newest /\ Undisturbed /\ Available
  BY DEF Init, Origin, ByUpload, Newest, Undisturbed, Available, Written
<1>5. Considered /\ Superseded /\ Expired
  BY <1>2, FS_EmptySet DEF Init, Considered, Superseded, Expired
<1> QED BY <1>1, <1>3, <1>4, <1>5 DEF IInv

\* An upload that is at work answers, whatever with, and the directory stays as
\* it is.
LEMMA AnswerInv ==
  ASSUME IInv, NEW u \in Uploads, pc[u] \in Active, NEW what \in {"ok", "error"},
         Answer(u, what), UNCHANGED <<given, now, files, intact, name, listed, doomed>>
  PROVE  IInv'
<1> USE CaseKept DEF Answer, Goto, IInv
<1>1. Typed'
  BY CaseType DEF Typed, Free
<1>2. LockHeld'
  <2> SUFFICES ASSUME NEW v \in Uploads, pc'[v] \in Active
               PROVE  lock'[UrlOf[v]] = {v}
    BY DEF LockHeld
  <2>1. v # u /\ pc[v] \in Active
    BY DEF Typed, Active, Written
  <2>2. lock[UrlOf[v]] = {v} /\ lock[UrlOf[u]] = {u}
    BY <2>1 DEF LockHeld
  <2> QED BY <2>1, <2>2, CaseType DEF Typed
<1>3. Named'
  BY DEF Typed, Named, Early, Written
<1>4. Origin' /\ Considered' /\ Available'
  BY DEF Origin, ByUpload, Considered, Available
<1>5. Newest'
  BY DEF Typed, Newest, Written
<1>6. Undisturbed'
  BY DEF Typed, Undisturbed, Timestamped
<1>7. Superseded' /\ Expired'
  BY DEF Superseded, Expired, Outnumbered, Newer, Timestamped
<1> QED BY <1>1, <1>2, <1>3, <1>4, <1>5, <1>6, <1>7

\* An upload takes the lock, or its body has arrived: it has nothing to do with
\* the directory yet.
LEMMA BeginInv ==
  ASSUME IInv, NEW u \in Uploads, pc[u] \in Early, NEW l \in {"body", "path"},
         Goto(u, l), lock' \in [Urls -> SUBSET Uploads], LockHeld',
         UNCHANGED <<given, now, files, intact, name, listed, doomed, answer>>
  PROVE  IInv'
<1> USE CaseKept DEF Goto, IInv
<1>1. Typed'
  BY DEF Typed, Early
<1>2. Named'
  BY DEF Typed, Named, Early, Written
<1>3. Origin' /\ Considered' /\ Available'
  BY DEF Origin, ByUpload, Considered, Available
<1>4. Newest' /\ Undisturbed'
  BY DEF Typed, Newest, Written, Undisturbed, Timestamped
<1>5. Superseded' /\ Expired'
  BY DEF Superseded, Expired, Outnumbered, Newer, Timestamped
<1> QED BY <1>1, <1>2, <1>3, <1>4, <1>5

\* The lock was free, so nobody at work had it.
LEMMA AcquireInv ==
  ASSUME IInv, NEW u \in Uploads, Acquire(u)
  PROVE  IInv'
<1>1. lock' \in [Urls -> SUBSET Uploads]
  BY CaseType DEF Acquire, IInv, Typed
<1>2. LockHeld'
  BY CaseType, CaseKept DEF Acquire, Goto, IInv, Typed, LockHeld, Active, Written, Free
<1> QED BY <1>1, <1>2, BeginInv DEF Acquire, Early

\* The body arrives or breaks off.
LEMMA ReceiveInv ==
  ASSUME IInv, NEW u \in Uploads, Receive(u)
  PROVE  IInv'
<1>1. CASE Goto(u, "path") /\ UNCHANGED <<lock, answer, faults>>
  <2>1. LockHeld'
    BY <1>1, CaseKept DEF Receive, Goto, IInv, Typed, LockHeld, Active, Written
  <2> QED BY <1>1, <2>1, BeginInv DEF Receive, Early, IInv, Typed
<1>2. CASE Answer(u, "error")
  BY <1>2, AnswerInv DEF Receive, Active
<1> QED BY <1>1, <1>2 DEF Receive

\* Of one key, an upload that goes on with its work keeps the lock it has.
LEMMA WorkKeepsLock ==
  ASSUME IInv, given' = given, NEW u \in Uploads, pc[u] \in Active, NEW l \in Written,
         Goto(u, l), lock' = lock
  PROVE  /\ LockHeld'
         /\ pc' \in [Uploads -> Early \cup Written \cup {"done"}]
<1> QED BY CaseKept DEF Goto, IInv, Typed, LockHeld, Active, Written

\* The name an upload gets is newer than every file of its key.
LEMMA PathInv ==
  ASSUME IInv, NEW u \in Uploads, GenerateStoragePath(u)
  PROVE  IInv'
<1> DEFINE n == [ts |-> now, key |-> Clean[UrlOf[u]]]
<1>0. /\ pc[u] = "path" /\ Goto(u, "open") /\ name' = [name EXCEPT ![u] = n]
      /\ given.sameSecond \/ n \notin files \cup {name[v] : v \in Uploads}
      /\ UNCHANGED <<given, now, files, intact, lock, listed, doomed, answer>>
  BY DEF GenerateStoragePath
<1>1. /\ n \in Name /\ n.ts = now /\ n.key = Clean[UrlOf[u]]
      /\ name[u].ts = NoTime /\ now \in Nat \ {0}
  BY <1>0, CaseType DEF IInv, Typed, Named, Early, Name, Keys
<1> HIDE DEF n
<1> USE CaseKept, <1>0 DEF Goto, IInv
<1>2. Typed' /\ LockHeld'
  BY <1>1, WorkKeepsLock DEF Typed, Active, Written
<1>3. Named'
  BY <1>1 DEF Typed, Named, Early, Written, NoTime
<1>4. \A m, v : v \in Uploads /\ m = name[v] /\ name[v].ts # NoTime => ByUpload(m)'
  BY <1>1 DEF Typed, ByUpload
<1>5. Origin'
  BY <1>4 DEF Origin, ByUpload
<1>6. Considered' /\ Available'
  BY DEF Considered, Available
<1>7. Newest'
  <2> SUFFICES ASSUME OneLock, NEW v \in Uploads, pc'[v] \in Written,
                      NEW m \in files, m # name'[v]
               PROVE  m.ts < name'[v].ts
    BY DEF Newest
  <2>1. v = u
    BY Alone DEF Typed, Active, Written
  <2>2. CASE m \in Old \cup Others
    BY <1>1, <2>1, <2>2, CaseType DEF Typed, Named, NoTime
  <2>3. ASSUME NEW w \in Uploads, m = name[w], name[w].ts # NoTime
        PROVE  m.ts < now
    <3>1. m \in Name /\ m.key = Clean[UrlOf[w]] /\ m.ts <= now
      BY <2>3 DEF Named
    <3>2. m.key = Clean[UrlOf[u]]
      BY <3>1 DEF OneLock, OneKey
    <3>3. m.ts # now
      BY <1>1, <2>1, <3>1, <3>2 DEF n, Typed, Name
    <3> QED BY <3>1, <3>3, <1>1 DEF Name
  <2> QED BY <1>1, <2>1, <2>2, <2>3 DEF Origin, ByUpload, Typed
<1>8. Undisturbed'
  <2>1. OneLock => n \notin files
    BY DEF OneLock, OneKey
  <2> QED BY <2>1 DEF Typed, Undisturbed, Timestamped
<1>9. Superseded' /\ Expired'
  BY DEF Superseded, Expired, Outnumbered, Newer, Timestamped
<1> QED BY <1>2, <1>3, <1>5, <1>6, <1>7, <1>8, <1>9

\* The file of an upload is created or truncated.
LEMMA OpenInv ==
  ASSUME IInv, NEW u \in Uploads, OpenFile(u)
  PROVE  IInv'
<1>0. /\ pc[u] = "open" /\ Goto(u, "store")
      /\ files' = files \cup {name[u]} /\ intact' = intact \ {name[u]}
      /\ UNCHANGED <<given, now, lock, name, listed, doomed, answer>>
  BY DEF OpenFile
<1> USE CaseKept, <1>0 DEF Goto, IInv
<1>1. name[u] \in Name /\ name[u].ts # NoTime
  BY DEF Named, Written
<1>2. IsFiniteSet(files')
  <2>1. IsFiniteSet(files)
    BY DEF Typed
  <2> QED BY <2>1, FS_AddElement
<1>3. Typed' /\ LockHeld'
  BY <1>1, <1>2, WorkKeepsLock DEF Typed, Active, Written
<1>4. Named' /\ Considered'
  BY DEF Typed, Named, Early, Written, Considered
<1>5. Origin'
  BY <1>1 DEF Origin, ByUpload
<1>6. Newest'
  BY Alone DEF Newest, Active, Written, Typed
<1>7. Undisturbed'
  <2> SUFFICES ASSUME OneLock, NEW v \in Uploads
               PROVE  /\ pc'[v] \notin {"open", "list", "select", "delete"}
                      /\ pc'[v] = "store" => name[v] \in files'
    BY DEF Undisturbed
  <2> QED BY Alone DEF Typed, Active, Written
<1>8. Available'
  <2>1. OneLock => intact' = intact
    BY DEF Undisturbed, Typed
  <2> QED BY <2>1 DEF Available
<1>9. Superseded'
  <2> SUFFICES ASSUME OneKey, OnePolicy, NEW v \in Uploads, ByCountOnly(v), NEW m,
                      Outnumbered(PolicyOf(v).maxCount, files, m)
               PROVE  Outnumbered(PolicyOf(v).maxCount, files', m)
    BY DEF Superseded, Outnumbered, Newer, Timestamped
  <2> QED BY <1>2, MoreFiles, CaseType DEF Typed
<1>10. Expired'
  BY DEF Expired
<1> QED BY <1>3, <1>4, <1>5, <1>6, <1>7, <1>8, <1>9, <1>10

\* The body is stored, if its file still has its name.
LEMMA StoreInv ==
  ASSUME IInv, NEW u \in Uploads, StoreFile(u)
  PROVE  IInv'
<1>0. /\ pc[u] = "store" /\ Goto(u, "list")
      /\ intact' = intact \cup ({name[u]} \cap files)
      /\ UNCHANGED <<given, now, files, lock, name, listed, doomed, answer>>
  BY DEF StoreFile
<1> USE CaseKept, <1>0 DEF Goto, IInv
<1>1. name[u].ts # NoTime
  BY DEF Named, Written
<1>2. Typed' /\ LockHeld'
  BY WorkKeepsLock DEF Typed, Active, Written
<1>3. Named' /\ Considered'
  BY DEF Typed, Named, Early, Written, Considered
<1>4. Origin' /\ Newest'
  BY <1>1 DEF Typed, Origin, ByUpload, Newest, Written
<1>5. Undisturbed'
  BY DEF Undisturbed, Typed, Timestamped
<1>6. Available' /\ Expired'
  BY DEF Available, Expired
<1>7. Superseded'
  BY DEF Superseded, Outnumbered, Newer, Timestamped
<1> QED BY <1>2, <1>3, <1>4, <1>5, <1>6, <1>7

\* Every backup in the directory is one of the key, if there is one key.
LEMMA KeyOfFile ==
  ASSUME IInv, OneKey, NEW n \in files, n.ts # NoTime, NEW u \in Uploads
  PROVE  n.key = Clean[UrlOf[u]]
<1>1. CASE n \in Old \cup Others
  BY <1>1, CaseType DEF IInv, Typed, OneKey
<1>2. CASE ByUpload(n)
  BY <1>2 DEF IInv, ByUpload, Named, OneKey
<1> QED BY <1>1, <1>2 DEF IInv, Origin

\* A listing finds the backups that are there.
LEMMA ListInv ==
  ASSUME IInv, NEW u \in Uploads, List(u)
  PROVE  IInv'
<1>1. CASE Answer(u, "ok") \/ Answer(u, "error")
  <2>1. UNCHANGED <<given, now, files, intact, name, listed, doomed>> /\ pc[u] \in Active
    BY <1>1 DEF List, Answer, Goto, Active, Written, IInv, Typed
  <2> QED BY <1>1, <2>1, AnswerInv
<1>2. CASE /\ pc[u] = "list" /\ Goto(u, "select")
           /\ listed' = [listed EXCEPT ![u] = Timestamped(files)]
           /\ UNCHANGED <<given, now, files, intact, lock, name, doomed, answer>>
  <2> USE CaseKept, <1>2 DEF Goto, IInv
  <2>1. /\ Timestamped(files) \subseteq files /\ Timestamped(files) \subseteq Name
        /\ IsFiniteSet(Timestamped(files)) /\ \A n \in Timestamped(files) : n.ts # NoTime
    <3>1. Timestamped(files) \subseteq files /\ IsFiniteSet(files)
      BY DEF Timestamped, Typed
    <3> QED BY <3>1, FS_Subset DEF Timestamped, Typed
  <2>2. \A v \in Uploads : listed'[v] = IF v = u THEN Timestamped(files) ELSE listed[v]
    BY DEF Typed
  <2>3. Typed' /\ LockHeld'
    BY <2>1, WorkKeepsLock DEF Typed, Active, Written
  <2>4. Named' /\ Origin' /\ Newest'
    BY DEF Typed, Named, Early, Written, Origin, ByUpload, Newest
  <2>5. Considered'
    BY <2>1, <2>2, KeyOfFile DEF Considered
  <2>6. Undisturbed'
    BY <2>2 DEF Undisturbed, Typed, Timestamped
  <2>7. Available' /\ Expired'
    BY DEF Available, Expired
  <2>8. Superseded'
    <3>1. \A n : Newer(Timestamped(files), n) = Newer(files, n)
      BY DEF Newer, Timestamped
    <3>2. \A n, k : Outnumbered(k, Timestamped(files), n) <=> Outnumbered(k, files, n)
      BY <3>1 DEF Outnumbered
    <3> SUFFICES ASSUME OneKey, OnePolicy, NEW v \in Uploads, ByCountOnly(v)
                 PROVE  /\ \A n \in listed'[v] :
                             Outnumbered(PolicyOf(v).maxCount, listed'[v], n)
                               => Outnumbered(PolicyOf(v).maxCount, files, n)
                        /\ \A n \in ToSet(doomed[v]) : Outnumbered(PolicyOf(v).maxCount, files, n)
      BY DEF Superseded, Outnumbered, Newer, Timestamped
    <3> QED BY <2>2, <3>2 DEF Superseded
  <2> QED BY <2>3, <2>4, <2>5, <2>6, <2>7, <2>8
<1> QED BY <1>1, <1>2 DEF List

\* There are k positions up to the k-th.
LEMMA UpTo ==
  ASSUME NEW k \in Nat
  PROVE  IsFiniteSet(1..k) /\ Cardinality(1..k) = k
<1> QED BY FS_Interval

\* What a rotation by count keeps is no more than maxCount.
LEMMA FewAreKept ==
  ASSUME NEW u \in Uploads, given \in Cases, ByCountOnly(u),
         NEW S \in SUBSET Name, IsFiniteSet(S), NEW order \in NewestFirst(S)
  PROVE  Cardinality(S \ Chosen(u, order)) <= PolicyOf(u).maxCount
<1> DEFINE k == PolicyOf(u).maxCount
           K == DOMAIN order \cap (1..k)
           f == [j \in K |-> order[j]]
           R == {order[j] : j \in K}
<1>1. k \in Nat
  BY CaseType
<1>2. IsFiniteSet(1..k) /\ Cardinality(1..k) = k
  BY <1>1, UpTo
<1>3. K \subseteq 1..k
  OBVIOUS
<1>4. IsFiniteSet(K) /\ Cardinality(K) <= k
  BY <1>2, <1>3, FS_Subset
<1>5. f \in Surjection(K, R)
  BY DEF Surjection
<1>6. IsFiniteSet(R) /\ Cardinality(R) <= Cardinality(K)
  BY <1>4, <1>5, FS_Surjection
<1>7. S \ Chosen(u, order) \subseteq R
  <2> SUFFICES ASSUME NEW n \in S, n \notin Chosen(u, order)
               PROVE  n \in R
    OBVIOUS
  <2>1. PICK i \in DOMAIN order : n = order[i]
    BY Order DEF ToSet
  <2>2. ~ByCount(u, i) /\ i \in Nat \ {0}
    BY <2>1, Order DEF Chosen
  <2> QED BY <1>1, <2>1, <2>2 DEF ByCount, ByCountOnly
<1>8. Cardinality(S \ Chosen(u, order)) <= Cardinality(R)
  BY <1>6, <1>7, FS_Subset
<1>9. /\ Cardinality(S \ Chosen(u, order)) \in Nat
      /\ Cardinality(R) \in Nat /\ Cardinality(K) \in Nat
  BY <1>4, <1>6, <1>7, FS_Subset, FS_CardinalityType
<1> QED BY <1>1, <1>4, <1>6, <1>8, <1>9

\* What a rotation by count chooses has maxCount newer ones in its listing.
LEMMA ChosenIsOutnumbered ==
  ASSUME NEW u \in Uploads, given \in Cases, ByCountOnly(u),
         NEW S \in SUBSET Name, IsFiniteSet(S), NEW order \in NewestFirst(S),
         \A n \in S : n.ts # NoTime, \A m, n \in S : m.key = n.key,
         NEW n \in Chosen(u, order)
  PROVE  Outnumbered(PolicyOf(u).maxCount, S, n)
<1> DEFINE k == PolicyOf(u).maxCount
           f == [j \in 1..k |-> order[j]]
           R == {order[j] : j \in 1..k}
<1>1. k \in Nat /\ k > 0
  BY CaseType DEF ByCountOnly
<1>2. IsFiniteSet(1..k) /\ Cardinality(1..k) = k
  BY <1>1, UpTo
<1>3. PICK i \in DOMAIN order : n = order[i] /\ i > k
  BY CaseType DEF Chosen, ByCount, ByAge, ByCountOnly
<1>4. 1..k \subseteq DOMAIN order /\ i \in Nat
  BY <1>1, <1>3, Order
<1>5. f \in Bijection(1..k, R)
  BY <1>4, Order DEF Bijection, Injection, Surjection, IsInjective
<1>6. Cardinality(R) = k
  BY <1>2, <1>5, FS_Bijection DEF ExistsBijection
<1>7. ASSUME NEW j \in 1..k
      PROVE  order[j] \in Newer(S, n)
  <2>1. /\ order[j] \in S /\ n \in S /\ order[j] # n /\ order[j].ts >= n.ts
    BY <1>1, <1>3, <1>4, Order DEF ToSet
  <2>2. order[j].ts # n.ts
    BY <2>1 DEF Name
  <2> QED BY <2>1, <2>2 DEF Newer, Timestamped, Name
<1>8. R \subseteq Newer(S, n) /\ Newer(S, n) \subseteq S
  BY <1>7 DEF Newer, Timestamped
<1>9. IsFiniteSet(Newer(S, n)) /\ Cardinality(R) <= Cardinality(Newer(S, n))
  BY <1>8, FS_Subset
<1> QED BY <1>1, <1>6, <1>9, FS_CardinalityType DEF Outnumbered

\* The first element of a sequence and the others are all of them.
LEMMA HeadAndTail ==
  ASSUME NEW S, NEW q \in Seq(S), q # <<>>
  PROVE  /\ Head(q) \in ToSet(q) /\ ToSet(Tail(q)) \subseteq ToSet(q)
         /\ ToSet(q) \subseteq ToSet(Tail(q)) \cup {Head(q)}
         /\ Tail(q) \in Seq(S)
<1>1. /\ Len(q) \in Nat \ {0} /\ DOMAIN q = 1..Len(q) /\ Head(q) = q[1]
      /\ Tail(q) \in Seq(S) /\ Len(Tail(q)) = Len(q) - 1
      /\ \A i \in 1..(Len(q) - 1) : Tail(q)[i] = q[i + 1]
  OBVIOUS
<1>2. DOMAIN Tail(q) = 1..(Len(q) - 1)
  BY <1>1
<1>3. ASSUME NEW i \in DOMAIN q
      PROVE  q[i] \in ToSet(Tail(q)) \cup {Head(q)}
  <2>1. CASE i = 1
    BY <1>1, <2>1
  <2>2. CASE i # 1
    <3>1. i - 1 \in DOMAIN Tail(q) /\ Tail(q)[i - 1] = q[i]
      BY <1>1, <1>2, <2>2
    <3> QED BY <3>1 DEF ToSet
  <2> QED BY <2>1, <2>2
<1>4. ASSUME NEW i \in DOMAIN Tail(q)
      PROVE  Tail(q)[i] \in ToSet(q)
  BY <1>1, <1>2 DEF ToSet
<1>5. ToSet(Tail(q)) \subseteq ToSet(q)
  BY <1>4 DEF ToSet
<1>6. ToSet(q) \subseteq ToSet(Tail(q)) \cup {Head(q)}
  BY <1>3 DEF ToSet
<1>7. Head(q) \in ToSet(q)
  BY <1>1 DEF ToSet
<1> QED BY <1>1, <1>5, <1>6, <1>7

\* What is to be deleted is chosen from a listing.
LEMMA SelectInv ==
  ASSUME IInv, NEW u \in Uploads, SelectForDeletion(u)
  PROVE  IInv'
<1>0. PICK order \in NewestFirst(listed[u]) : \E chosen \in NewestFirst(Chosen(u, order)) :
        doomed' = [doomed EXCEPT ![u] = chosen]
  BY DEF SelectForDeletion
<1>1. PICK chosen \in NewestFirst(Chosen(u, order)) : doomed' = [doomed EXCEPT ![u] = chosen]
  BY <1>0
<1>2. /\ pc[u] = "select" /\ Goto(u, "delete")
      /\ listed' = [listed EXCEPT ![u] = {}]
      /\ UNCHANGED <<given, now, files, intact, lock, name, answer>>
  BY DEF SelectForDeletion
<1>3. listed[u] \in SUBSET Name /\ IsFiniteSet(listed[u]) /\ given \in Cases
  BY DEF IInv, Typed, Considered
<1>4. Chosen(u, order) \subseteq listed[u]
  BY <1>3, Order DEF Chosen, ToSet
<1>5. IsFiniteSet(Chosen(u, order)) /\ Chosen(u, order) \in SUBSET Name
  BY <1>3, <1>4, FS_Subset
<1>6. chosen \in Seq(Name) /\ ToSet(chosen) = Chosen(u, order)
  BY <1>5, Order
<1> USE CaseKept, <1>2 DEF Goto, IInv
<1>7. /\ doomed'[u] = chosen /\ listed'[u] = {}
      /\ \A v \in Uploads \ {u} :
           pc'[v] = pc[v] /\ doomed'[v] = doomed[v] /\ listed'[v] = listed[v]
  BY <1>1 DEF Typed
<1>8. Typed' /\ LockHeld'
  BY <1>1, <1>6, WorkKeepsLock DEF Typed, Active, Written
<1>9. Named' /\ Origin' /\ Newest' /\ Available'
  BY DEF Typed, Named, Early, Written, Origin, ByUpload, Newest, Available
<1>10. Considered'
  <2> SUFFICES ASSUME NEW v \in Uploads
               PROVE  /\ IsFiniteSet(listed'[v])
                      /\ \A n \in listed'[v] :
                           n.ts # NoTime /\ (OneKey => n.key = Clean[UrlOf[v]])
                      /\ \A n \in ToSet(doomed'[v]) : n.ts # NoTime
    BY DEF Considered
  <2>1. CASE v = u
    BY <1>4, <1>6, <1>7, <2>1, FS_EmptySet DEF Considered
  <2>2. CASE v # u
    BY <1>7, <2>2 DEF Considered
  <2> QED BY <2>1, <2>2
<1>11. Undisturbed'
  <2>1. ASSUME OneLock, ByCountOnly(u)
        PROVE  /\ name[u] \notin Chosen(u, order)
               /\ Cardinality(Timestamped(files) \ Chosen(u, order)) <= PolicyOf(u).maxCount
    <3>1. listed[u] = Timestamped(files) /\ Timestamped(files) \subseteq files
      BY <2>1 DEF Undisturbed, Timestamped
    <3>2. ASSUME name[u] \in Chosen(u, order) PROVE FALSE
      <4>1. PICK i \in DOMAIN order : name[u] = order[i] /\ i > 1 /\ i \in Nat
        BY SMTT(60), <2>1, <1>3, <3>2, CaseType, Order DEF Chosen, ByCount, ByAge, ByCountOnly
      <4>2. /\ 1 \in DOMAIN order /\ order[1] # name[u] /\ order[1].ts >= name[u].ts
            /\ order[1] \in files
        BY <1>3, <3>1, <4>1, Order DEF ToSet
      <4>3. order[1].ts < name[u].ts
        BY <2>1, <4>2 DEF Newest, Written
      <4>4. order[1].ts \in Nat /\ name[u].ts \in Nat
        <5>1. name[u] \in Name /\ order[1] \in Name
          BY <4>2 DEF Typed, Named, Written
        <5> QED BY <5>1 DEF Name
      <4> QED BY <4>2, <4>3, <4>4
    <3> QED BY <1>3, <2>1, <3>1, <3>2, FewAreKept
  <2> SUFFICES ASSUME OneLock, NEW v \in Uploads
               PROVE  /\ pc'[v] = "open" => name[v] \notin files
                      /\ pc'[v] = "store" => name[v] \in files
                      /\ pc'[v] \in {"list", "select", "delete"} /\ ByCountOnly(v) =>
                           name[v] \in intact
                      /\ pc'[v] = "select" => listed'[v] = Timestamped(files)
                      /\ pc'[v] = "delete" /\ ByCountOnly(v) =>
                           /\ name[v] \notin ToSet(doomed'[v])
                           /\ Cardinality(Timestamped(files) \ ToSet(doomed'[v]))
                                <= PolicyOf(v).maxCount
    BY DEF Undisturbed, Timestamped
  <2>2. CASE v = u
    BY <1>6, <1>7, <2>1, <2>2 DEF Undisturbed, Typed
  <2>3. CASE v # u
    BY <1>7, <2>3 DEF Undisturbed
  <2> QED BY <2>2, <2>3
<1>12. Superseded'
  <2>1. ASSUME OneKey, OnePolicy, ByCountOnly(u), NEW n \in Chosen(u, order)
        PROVE  Outnumbered(PolicyOf(u).maxCount, files, n)
    <3>1. (\A m \in listed[u] : m.ts # NoTime) /\ \A l, m \in listed[u] : l.key = m.key
      BY <2>1 DEF Considered
    <3>2. Outnumbered(PolicyOf(u).maxCount, listed[u], n)
      BY <1>3, <2>1, <3>1, ChosenIsOutnumbered
    <3> QED BY <1>4, <2>1, <3>2 DEF Superseded
  <2> SUFFICES ASSUME OneKey, OnePolicy, NEW v \in Uploads, ByCountOnly(v)
               PROVE  /\ \A n \in listed'[v] :
                           Outnumbered(PolicyOf(v).maxCount, listed'[v], n)
                             => Outnumbered(PolicyOf(v).maxCount, files, n)
                      /\ \A n \in ToSet(doomed'[v]) : Outnumbered(PolicyOf(v).maxCount, files, n)
    BY DEF Superseded, Outnumbered, Newer, Timestamped
  <2>2. CASE v = u
    BY <1>6, <1>7, <2>1, <2>2
  <2>3. CASE v # u
    BY <1>7, <2>3 DEF Superseded
  <2> QED BY <2>2, <2>3
<1>13. Expired'
  <2>1. ASSUME ByAgeOnly(u), NEW n \in Chosen(u, order)
        PROVE  now > n.ts + PolicyOf(u).maxAge
    BY <2>1 DEF Chosen, ByCount, ByAge, ByAgeOnly
  <2> SUFFICES ASSUME NEW v \in Uploads, ByAgeOnly(v), NEW n \in ToSet(doomed'[v])
               PROVE  now > n.ts + PolicyOf(v).maxAge
    BY DEF Expired
  <2>2. CASE v = u
    BY <1>6, <1>7, <2>1, <2>2
  <2>3. CASE v # u
    BY <1>7, <2>3 DEF Expired
  <2> QED BY <2>2, <2>3
<1> QED BY <1>8, <1>9, <1>10, <1>11, <1>12, <1>13

\* A backup is deleted: one that is outnumbered or old enough, and never the one
\* of the upload.
LEMMA DeleteInv ==
  ASSUME IInv, NEW u \in Uploads, Delete(u)
  PROVE  IInv'
<1> DEFINE d == Head(doomed[u])
<1>1. CASE Answer(u, "error") /\ UNCHANGED <<files, intact, doomed>>
  BY <1>1, AnswerInv DEF Delete, Active, Written
<1>2. CASE /\ pc[u] = "delete" /\ doomed[u] # <<>> /\ d \in files
           /\ files' = files \ {d} /\ intact' = intact \ {d}
           /\ doomed' = [doomed EXCEPT ![u] = Tail(doomed[u])]
           /\ UNCHANGED <<given, now, lock, pc, name, listed, answer>>
  <2> USE CaseKept, <1>2 DEF IInv
  <2>1. /\ d \in ToSet(doomed[u]) /\ ToSet(Tail(doomed[u])) \subseteq ToSet(doomed[u])
        /\ ToSet(doomed[u]) \subseteq ToSet(Tail(doomed[u])) \cup {d}
        /\ Tail(doomed[u]) \in Seq(Name)
    <3>1. doomed[u] \in Seq(Name)
      BY DEF Typed
    <3> QED BY <3>1, HeadAndTail
  <2>2. \A v \in Uploads : doomed'[v] = IF v = u THEN Tail(doomed[u]) ELSE doomed[v]
    BY DEF Typed
  <2>3. IsFiniteSet(files') /\ IsFiniteSet(files)
    BY FS_Subset DEF Typed
  <2> HIDE DEF d
  <2>4. Typed' /\ LockHeld'
    BY <2>1, <2>3 DEF Typed, LockHeld
  <2>5. Named' /\ Origin' /\ Newest'
    BY DEF Named, Origin, ByUpload, Newest
  <2>6. Considered' /\ Expired'
    BY <2>1, <2>2 DEF Considered, Expired
  <2>7. ASSUME OneLock, ByCountOnly(u)
        PROVE  /\ name[u] \in intact'
               /\ Cardinality(Timestamped(files') \ ToSet(doomed'[u])) <= PolicyOf(u).maxCount
    <3> DEFINE S == Timestamped(files) \ ToSet(doomed[u])
               T == Timestamped(files') \ ToSet(doomed'[u])
    <3>1. name[u] \in intact /\ name[u] # d /\ Cardinality(S) <= PolicyOf(u).maxCount
      BY <2>1, <2>7 DEF Undisturbed
    <3>2. T \subseteq S /\ S \subseteq files
      BY <2>1, <2>2 DEF Timestamped
    <3>3. IsFiniteSet(S)
      BY <2>3, <3>2, FS_Subset
    <3>4. IsFiniteSet(T) /\ Cardinality(T) <= Cardinality(S)
      BY <3>2, <3>3, FS_Subset
    <3>5. Cardinality(T) \in Nat /\ Cardinality(S) \in Nat /\ PolicyOf(u).maxCount \in Nat
      BY <3>3, <3>4, FS_CardinalityType, CaseType DEF Typed
    <3> QED BY <3>1, <3>4, <3>5
  <2>8. Undisturbed'
    <3> SUFFICES ASSUME OneLock, NEW v \in Uploads, pc[v] \in Written
                 PROVE  /\ pc[v] = "delete"
                        /\ ByCountOnly(v) =>
                             /\ name[v] \in intact' /\ name[v] \notin ToSet(doomed'[v])
                             /\ Cardinality(Timestamped(files') \ ToSet(doomed'[v]))
                                  <= PolicyOf(v).maxCount
      BY DEF Undisturbed, Timestamped, Written
    <3>1. v = u
      BY Alone DEF Active, Written
    <3> QED BY <2>1, <2>2, <2>7, <3>1 DEF Undisturbed
  <2>9. Available'
    BY <2>7 DEF Available
  <2>10. Superseded'
    <3>1. ASSUME OneKey, OnePolicy, NEW v \in Uploads, ByCountOnly(v), NEW n \in Name,
                 Outnumbered(PolicyOf(v).maxCount, files, n)
          PROVE  Outnumbered(PolicyOf(v).maxCount, files', n)
      <4>1. PolicyOf(v).maxCount \in Nat
        BY CaseType DEF Typed
      <4>2. CASE d.ts <= n.ts
        <5>1. Newer(files', n) = Newer(files, n)
          BY <4>2 DEF Newer, Timestamped, Typed, Name
        <5> QED BY <3>1, <5>1 DEF Outnumbered
      <4>3. CASE ~(d.ts <= n.ts)
        <5>1. PolicyOf(v) = PolicyOf(u) /\ ByCountOnly(u)
          BY <3>1 DEF OnePolicy, ByCountOnly
        <5>2. Outnumbered(PolicyOf(v).maxCount, files, d)
          BY <2>1, <3>1, <5>1 DEF Superseded
        <5>3. Newer(files, d) \subseteq Newer(files', n) /\ Newer(files', n) \subseteq files'
          BY <4>3 DEF Newer, Timestamped, Typed, Name
        <5>4. /\ IsFiniteSet(Newer(files', n)) /\ IsFiniteSet(Newer(files, d))
              /\ Cardinality(Newer(files, d)) <= Cardinality(Newer(files', n))
          BY <2>3, <5>3, FS_Subset
        <5> QED BY <4>1, <5>2, <5>4, FS_CardinalityType DEF Outnumbered
      <4> QED BY <4>2, <4>3
    <3> SUFFICES ASSUME OneKey, OnePolicy, NEW v \in Uploads, ByCountOnly(v)
                 PROVE  /\ \A n \in listed[v] :
                             Outnumbered(PolicyOf(v).maxCount, listed[v], n)
                               => Outnumbered(PolicyOf(v).maxCount, files', n)
                        /\ \A n \in ToSet(doomed'[v]) :
                             Outnumbered(PolicyOf(v).maxCount, files', n)
      BY DEF Superseded, Outnumbered, Newer, Timestamped
    <3>2. listed[v] \subseteq Name /\ ToSet(doomed[v]) \subseteq Name
      BY DEF Typed, ToSet
    <3> QED BY <2>1, <2>2, <3>1, <3>2 DEF Superseded
  <2> QED BY <2>4, <2>5, <2>6, <2>8, <2>9, <2>10
<1> QED BY <1>1, <1>2 DEF Delete

\* Time passes.
LEMMA TickInv ==
  ASSUME IInv, Tick
  PROVE  IInv'
<1> USE CaseKept DEF Tick, IInv
<1>1. Typed' /\ LockHeld'
  <2>1. now' \in Nat \ {0}
    BY DEF Typed
  <2>2. Typed'
    BY <2>1 DEF Typed
  <2> QED BY <2>2 DEF LockHeld
<1>2. Named'
  <2>1. \A n \in Old : n.ts \in Nat
    BY CaseType DEF Typed, Name
  <2>2. \A u \in Uploads : name[u].ts \in Nat
    <3>1. (\A n \in Name : n.ts \in Nat) /\ NoName.ts \in Nat
      BY DEF Name, NoName, NoTime
    <3> QED BY <3>1 DEF Typed
  <2> QED BY <2>1, <2>2 DEF Typed, Named
<1>3. Origin' /\ Considered' /\ Newest' /\ Available'
  BY DEF Origin, ByUpload, Considered, Newest, Available
<1>4. Undisturbed' /\ Superseded'
  BY DEF Undisturbed, Superseded, Outnumbered, Newer, Timestamped
<1>5. Expired'
  <2> SUFFICES ASSUME NEW u \in Uploads, ByAgeOnly(u), NEW n \in ToSet(doomed[u])
               PROVE  now' > n.ts + PolicyOf(u).maxAge
    BY DEF Expired
  <2>1. n \in Name /\ PolicyOf(u).maxAge \in Nat
    BY CaseType DEF Typed, ToSet
  <2> QED BY <2>1 DEF Typed, Expired, Name
<1> QED BY <1>1, <1>2, <1>3, <1>4, <1>5

\* Every step keeps the invariant.
LEMMA NextInv == IInv /\ [Next]_vars => IInv'
<1> SUFFICES ASSUME IInv, [Next]_vars PROVE IInv'
  OBVIOUS
<1>1. ASSUME NEW u \in Uploads, Step(u) PROVE IInv'
  <2>1. CASE UploadFails(u)
    BY <2>1, AnswerInv DEF UploadFails, Active, Written
  <2>2. CASE ApplyDone(u)
    BY <2>2, AnswerInv DEF ApplyDone, Active, Written
  <2> QED BY <1>1, <2>1, <2>2, AcquireInv, ReceiveInv, PathInv, OpenInv, StoreInv,
             ListInv, SelectInv, DeleteInv DEF Step
<1>2. CASE UNCHANGED vars
  <2> USE <1>2, CaseKept DEF vars, IInv
  <2>1. Typed' /\ LockHeld' /\ Named' /\ Origin' /\ Considered' /\ Newest' /\ Available'
    BY DEF Typed, LockHeld, Named, Origin, ByUpload, Considered, Newest, Available
  <2>2. Undisturbed' /\ Superseded' /\ Expired'
    BY DEF Undisturbed, Superseded, Expired, Outnumbered, Newer, Timestamped
  <2> QED BY <2>1, <2>2
<1> QED BY <1>1, <1>2, TickInv DEF Next, AllAnswered

-----------------------------------------------------------------------------
(* Results                                                                  *)

\* The invariant holds of every behaviour.
THEOREM Invariance == Spec => []IInv
<1> QED BY InitInv, NextInv, PTL DEF Spec

\* A key that had a whole backup always has one, while uploads under one lock
\* succeed, fail half way and rotate by count.
THEOREM BackupRemains == Spec => []BackupAvailable
<1>1. IInv => BackupAvailable
  <2> SUFFICES ASSUME IInv, OneLock, \A u \in Uploads : ByCountOnly(u), NEW n \in Old
               PROVE  \E m \in intact : m.key = n.key
    BY DEF BackupAvailable
  <2>1. CASE Old \subseteq intact
    BY <2>1
  <2>2. CASE Uploads # {} /\ intact # {}
    <3>1. PICK u \in Uploads, m \in intact : TRUE
      BY <2>2
    <3>2. m \in files /\ m.ts # NoTime
      BY CaseType DEF IInv, Typed, Origin, ByUpload
    <3>3. m.key = Clean[UrlOf[u]] /\ n.key = Clean[UrlOf[u]]
      BY <3>2, KeyOfFile DEF OneLock, OneKey
    <3> QED BY <3>3
  <2> QED BY <2>1, <2>2 DEF IInv, Available
<1> QED BY <1>1, Invariance, PTL

\* An "ok" is the end of a rotation, or of one that a missing directory skipped;
\* the files stay as they are.
LEMMA Accepting ==
  ASSUME IInv, Next, NEW u \in Uploads, Answers(u, "ok")
  PROVE  pc[u] \in {"list", "delete"} /\ (pc[u] = "delete" => ApplyDone(u))
           /\ UNCHANGED <<files, intact>>
<1>1. PICK v \in Uploads : Step(v)
  BY DEF Next, Tick, AllAnswered, vars, Answers
<1>2. v = u
  BY <1>1 DEF Step, Acquire, Receive, GenerateStoragePath, OpenFile, StoreFile, UploadFails,
     List, SelectForDeletion, Delete, ApplyDone, Answer, Answers, IInv, Typed
<1> QED BY <1>1, <1>2 DEF Step, Acquire, Receive, GenerateStoragePath, OpenFile, StoreFile,
           UploadFails, List, SelectForDeletion, Delete, ApplyDone, Answer, Answers, IInv, Typed

\* A client that is told "ok" has its backup on the storage.
THEOREM Accepted == Spec => AcceptedIsStored
<1>1. IInv /\ [Next]_vars =>
        [\A u \in Uploads : OneLock /\ ByCountOnly(u) /\ Answers(u, "ok")
           => name[u] \in intact']_vars
  <2> SUFFICES ASSUME IInv, Next, NEW u \in Uploads, OneLock, ByCountOnly(u), Answers(u, "ok")
               PROVE  name[u] \in intact'
    OBVIOUS
  <2>1. pc[u] \in {"list", "delete"} /\ intact' = intact
    BY Accepting
  <2> QED BY <2>1 DEF IInv, Undisturbed
<1> QED BY <1>1, Invariance, PTL DEF Spec, AcceptedIsStored

\* After a rotation that ran to its end the directory holds no more than
\* maxCount backups.
THEOREM CountBounded == Spec => RotationBoundsCount
<1>1. IInv /\ [Next]_vars =>
        [\A u \in Uploads : OneLock /\ ByCountOnly(u) /\ CompletedRotation(u)
           => Cardinality(Timestamped(files')) <= PolicyOf(u).maxCount]_vars
  <2> SUFFICES ASSUME IInv, Next, NEW u \in Uploads, OneLock, ByCountOnly(u),
                      CompletedRotation(u)
               PROVE  Cardinality(Timestamped(files')) <= PolicyOf(u).maxCount
    OBVIOUS
  <2>1. ApplyDone(u)
    BY Accepting DEF CompletedRotation
  <2>2. ToSet(doomed[u]) = {}
    BY <2>1 DEF ApplyDone, ToSet
  <2>3. Timestamped(files) \ ToSet(doomed[u]) = Timestamped(files') /\ pc[u] = "delete"
    BY <2>1, <2>2 DEF ApplyDone, Timestamped
  <2> QED BY <2>3 DEF IInv, Undisturbed
<1> QED BY <1>1, Invariance, PTL DEF Spec, RotationBoundsCount

\* A file goes only by the rotation that has it next.
LEMMA RemovedByRotation ==
  ASSUME IInv, Next, NEW u \in Uploads, RotationBy(u), NEW n \in Removed
  PROVE  n \in ToSet(doomed[u]) /\ files' = files \ {n} /\ files \subseteq Name
<1>1. PICK v \in Uploads : Step(v)
  BY DEF Next, Tick, AllAnswered, vars, Removed
<1>2. Delete(v) /\ n = Head(doomed[v]) /\ doomed' = [doomed EXCEPT ![v] = Tail(doomed[v])]
  BY <1>1 DEF Step, Acquire, Receive, GenerateStoragePath, OpenFile, StoreFile, UploadFails,
     List, SelectForDeletion, Delete, ApplyDone, Removed
<1>3. v = u
  BY <1>2 DEF RotationBy, IInv, Typed
<1>4. doomed[u] \in Seq(Name) /\ doomed[u] # <<>>
  BY <1>2, <1>3 DEF Delete, IInv, Typed
<1>5. files' = files \ {n} /\ files \subseteq Name
  BY <1>2 DEF Delete, Removed, IInv, Typed
<1> QED BY <1>2, <1>3, <1>4, <1>5, HeadAndTail

\* Under one lock or two, a rotation by count removes what maxCount newer backups
\* have superseded, and nothing without a timestamp.
THEOREM NewestKept == Spec => KeepsNewest
<1>1. IInv /\ [Next]_vars =>
        [\A u \in Uploads, n \in Removed :
           OneKey /\ OnePolicy /\ RotationBy(u) /\ ByCountOnly(u)
             => /\ n \notin Others
                /\ Cardinality({m \in Timestamped(files') : m.ts > n.ts})
                     >= PolicyOf(u).maxCount]_vars
  <2> SUFFICES ASSUME IInv, Next, NEW u \in Uploads, NEW n \in Removed,
                      OneKey, OnePolicy, RotationBy(u), ByCountOnly(u)
               PROVE  /\ n \notin Others
                      /\ Cardinality(Newer(files', n)) >= PolicyOf(u).maxCount
    BY DEF Newer
  <2>1. n \in ToSet(doomed[u])
    BY RemovedByRotation
  <2>2. n.ts # NoTime /\ Outnumbered(PolicyOf(u).maxCount, files, n)
    BY <2>1 DEF IInv, Considered, Superseded
  <2>3. n \notin Others
    BY <2>2, CaseType DEF IInv, Typed
  <2>4. Newer(files', n) = Newer(files, n)
    <3>1. files' = files \ {n} /\ n \in Name
      BY RemovedByRotation DEF Removed
    <3> QED BY <3>1 DEF Newer, Timestamped, Name
  <2> QED BY <2>2, <2>3, <2>4 DEF Outnumbered
<1> QED BY <1>1, Invariance, PTL DEF Spec, KeepsNewest

\* A rotation by age removes only what is older than maxAge, whatever else goes on
\* in the directory.
THEOREM ExpiredOnly == Spec => RemovesOnlyExpired
<1>1. IInv /\ [Next]_vars =>
        [\A u \in Uploads, n \in Removed :
           RotationBy(u) /\ ByAgeOnly(u) => now > n.ts + PolicyOf(u).maxAge]_vars
  BY RemovedByRotation DEF IInv, Expired
<1> QED BY <1>1, Invariance, PTL DEF Spec, RemovesOnlyExpired

-----------------------------------------------------------------------------
(* Types                                                                    *)

\* What the type invariant says beyond Typed: the bounds, and that a lock has
\* one holder at most.
Bounds ==
  /\ now \in 0..MaxTime /\ faults \in 0..MaxFaults
  /\ \A k \in Urls : lock[k] = Free \/ \E u \in Uploads : lock[k] = {u}

LEMMA InitBounds == Init => Bounds
<1> QED BY RetentionAssumption DEF Init, Bounds

\* A lock is taken by one upload, and time and faults stop at their bounds.
LEMMA BoundsKept == IInv /\ Bounds /\ [Next]_vars => Bounds'
<1> SUFFICES ASSUME IInv, Bounds, [Next]_vars PROVE Bounds'
  OBVIOUS
<1>1. lock \in [Urls -> SUBSET Uploads] /\ UrlOf \in [Uploads -> Urls]
  BY CaseType DEF IInv, Typed
<1>2. ASSUME NEW u \in Uploads, Step(u) PROVE Bounds'
  <2>1. faults' \in 0..MaxFaults
    BY <1>2, RetentionAssumption DEF Step, Acquire, Receive, GenerateStoragePath, OpenFile,
       StoreFile, UploadFails, List, SelectForDeletion, Delete, ApplyDone, Fault, Bounds
  <2>2. now' = now
    BY <1>2 DEF Step, Acquire, Receive, GenerateStoragePath, OpenFile, StoreFile,
       UploadFails, List, SelectForDeletion, Delete, ApplyDone
  <2>3. \/ lock' = lock \/ lock' = [lock EXCEPT ![UrlOf[u]] = Free]
        \/ lock' = [lock EXCEPT ![UrlOf[u]] = {u}]
    BY <1>2 DEF Step, Acquire, Receive, GenerateStoragePath, OpenFile, StoreFile,
       UploadFails, List, SelectForDeletion, Delete, ApplyDone, Answer
  <2>4. \A k \in Urls : lock'[k] \in {lock[k], Free, {u}}
    BY <1>1, <2>3
  <2> QED BY <2>1, <2>2, <2>4 DEF Bounds
<1>3. CASE Tick
  BY <1>3, RetentionAssumption DEF Tick, Bounds
<1>4. CASE UNCHANGED vars
  BY <1>4 DEF vars, Bounds
<1> QED BY <1>2, <1>3, <1>4 DEF Next, AllAnswered

\* Every reachable state is well typed: a lock has one holder at most, and only
\* files of the directory count as whole.
THEOREM TypeCorrect == Spec => []TypeOK
<1>1. IInv /\ Bounds => TypeOK
  <2> SUFFICES ASSUME IInv, Bounds PROVE TypeOK
    OBVIOUS
  <2>1. lock \in [Urls -> {Free} \cup {{u} : u \in Uploads}]
    BY DEF IInv, Typed, Bounds
  <2> QED BY <2>1 DEF IInv, Typed, Bounds, Early, Written, TypeOK
<1>2. Spec => []Bounds
  BY InitBounds, BoundsKept, Invariance, PTL DEF Spec
<1> QED BY <1>1, <1>2, Invariance, PTL
=============================================================================
