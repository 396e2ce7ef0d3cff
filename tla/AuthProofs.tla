----------------------------- MODULE AuthProofs -----------------------------
(***************************************************************************)
(* Proofs about Auth for every configuration, environment, request and     *)
(* timeout: a right password is enough wherever its provider stands in the *)
(* chain, a signature lets nobody in whose password would not, and the     *)
(* credentials of the configuration are resolved once.                     *)
(*                                                                         *)
(* The last one speaks of texts of every length: the first sections show   *)
(* what replacing expressions does, by induction over sets of positions.   *)
(***************************************************************************)
EXTENDS Auth, SequenceTheorems, WellFoundedInduction, TLAPS

-----------------------------------------------------------------------------
(* Numbers and sequences.                                                   *)

\* A set of numbers that is not empty has a smallest one.
LEMMA Smallest ==
  ASSUME NEW T \in SUBSET Nat, T # {}
  PROVE  \E x \in T : \A y \in T : ~(y < x)
<1>1. \E x \in T : \A y \in T : ~(<<y, x>> \in OpToRel(<, Nat))
  BY NatLessThanWellFounded, WFMin, Zenon
<1> QED BY <1>1 DEF OpToRel

\* Induction over the numbers of a set.
LEMMA SetInduction ==
  ASSUME NEW T, 0 \in T, \A n \in Nat : n \in T => n + 1 \in T
  PROVE  Nat \subseteq T
<1> SUFFICES ASSUME Nat \ T # {} PROVE FALSE
  OBVIOUS
<1>1. PICK x \in Nat \ T : \A y \in Nat \ T : ~(y < x)
  BY Smallest
<1>2. x - 1 \in Nat /\ x - 1 \in T
  BY <1>1
<1> QED BY <1>1, <1>2

LEMMA ConcatAgain ==
  ASSUME NEW A, NEW p \in Seq(A), NEW q \in Seq(A), NEW r \in Seq(A)
  PROVE  (p \o q) \o r = p \o (q \o r)
OBVIOUS

-----------------------------------------------------------------------------
(* The expressions of a credential.                                         *)

\* Induction from the end of a text to its beginning.
LEMMA DownInduction ==
  ASSUME NEW n \in Nat, NEW T,
         \A i \in 1..n : (\A j \in 1..n : j > i => j \in T) => i \in T
  PROVE  1..n \subseteq T
<1> DEFINE D == {d \in Nat : d < n /\ n - d \notin T}
<1> SUFFICES ASSUME NEW i \in 1..n, i \notin T PROVE FALSE
  OBVIOUS
<1>1. n - i \in D
  <2>1. n - i \in Nat /\ n - i < n /\ n - (n - i) = i
    OBVIOUS
  <2> QED BY <2>1
<1>2. PICK d \in D : \A e \in D : ~(e < d)
  <2> HIDE DEF D
  <2>1. D \in SUBSET Nat
    BY DEF D
  <2> QED BY <1>1, <2>1, Smallest
<1>3. n - d \in 1..n /\ n - d \notin T
  OBVIOUS
<1>4. ASSUME NEW j \in 1..n, j > n - d PROVE j \in T
  <2>1. n - j \in Nat /\ n - j < d /\ n - j < n /\ n - (n - j) = j
    BY <1>4
  <2>2. n - j \notin D
    BY <1>2, <2>1
  <2> QED BY <2>1, <2>2
<1> QED BY <1>3, <1>4

\* The smallest number of a set.
LEMMA MinOf ==
  ASSUME NEW T \in SUBSET Nat, T # {}
  PROVE  Min(T) \in T /\ \A y \in T : Min(T) <= y
<1>1. PICK x \in T : \A y \in T : ~(y < x)
  BY Smallest
<1>2. \A y \in T : x <= y
  BY <1>1
<1> QED BY <1>2 DEF Min

LEMMA MinIs ==
  ASSUME NEW T \in SUBSET Nat, NEW x \in T, \A y \in T : x <= y
  PROVE  Min(T) = x
<1> DEFINE m == Min(T)
<1>1. m \in T /\ m <= x
  BY MinOf
<1>2. m \in Nat /\ x \in Nat /\ x <= m
  BY <1>1
<1> HIDE DEF m
<1>3. m = x
  BY <1>1, <1>2
<1> QED BY <1>3 DEF m

\* The closing marks behind a place of the text; an expression begins there.
ShutsBehind(t, i) == {j \in DOMAIN t : j > i /\ t[j] = Shut}
Begins(t, i) == IsAt(t, i, Open) /\ ShutsBehind(t, i) # {}
End(t, i) == Min(ShutsBehind(t, i))

LEMMA EndOf ==
  ASSUME NEW A, NEW t \in Seq(A), NEW i \in Nat, ShutsBehind(t, i) # {}
  PROVE  /\ End(t, i) \in 1..Len(t) /\ End(t, i) > i /\ t[End(t, i)] = Shut
         /\ \A j \in 1..Len(t) : j > i /\ t[j] = Shut => End(t, i) <= j
<1>1. DOMAIN t = 1..Len(t) /\ Len(t) \in Nat
  BY LenProperties
<1>2. ShutsBehind(t, i) \in SUBSET Nat
  BY <1>1 DEF ShutsBehind
<1>3. End(t, i) \in ShutsBehind(t, i) /\ \A j \in ShutsBehind(t, i) : End(t, i) <= j
  BY <1>2, MinOf DEF End
<1> QED BY <1>1, <1>3 DEF ShutsBehind

\* What Expanded returns for the text from place i on.
RestStep(env, t, f, i) ==
  IF i > Len(t) THEN <<>>
  ELSE IF IsAt(t, i, Open) /\ ShutsBehind(t, i) # {}
       THEN Getenv(env, SubSeq(t, i + 2, Min(ShutsBehind(t, i)) - 1))
              \o f[Min(ShutsBehind(t, i)) + 1]
       ELSE <<t[i]>> \o f[i + 1]
Rest(env, t) == CHOOSE f : f = [i \in 1..(Len(t) + 1) |-> RestStep(env, t, f, i)]

LEMMA ExpandedIsRest ==
  ASSUME NEW env, NEW t
  PROVE  Expanded(env, t) = Rest(env, t)[1]
BY Zenon DEF Expanded, Rest, RestStep, ShutsBehind

\* A step looks only at what comes behind.
LEMMA RestLocal ==
  ASSUME NEW A, NEW t \in Seq(A), NEW env, NEW f, NEW g, NEW i \in 1..(Len(t) + 1),
         \A j \in 1..(Len(t) + 1) : j > i => f[j] = g[j]
  PROVE  RestStep(env, t, f, i) = RestStep(env, t, g, i)
<1>0. Len(t) \in Nat
  BY LenProperties
<1>1. CASE i > Len(t)
  BY <1>1 DEF RestStep
<1>2. CASE ~(i > Len(t)) /\ IsAt(t, i, Open) /\ ShutsBehind(t, i) # {}
  <2> DEFINE e == Min(ShutsBehind(t, i))
  <2>1. e + 1 \in 1..(Len(t) + 1) /\ e + 1 > i
    BY <1>0, <1>2, EndOf DEF End
  <2>2. f[e + 1] = g[e + 1]
    <3> HIDE DEF e
    <3> QED BY <2>1
  <2> QED BY <1>2, <2>2 DEF RestStep
<1>3. CASE ~(i > Len(t)) /\ ~(IsAt(t, i, Open) /\ ShutsBehind(t, i) # {})
  <2>1. i + 1 \in 1..(Len(t) + 1) /\ i + 1 > i
    BY <1>0, <1>3
  <2>2. f[i + 1] = g[i + 1]
    BY <2>1
  <2> QED BY <1>3, <2>2 DEF RestStep
<1> QED BY <1>1, <1>2, <1>3

LEMMA RestExists ==
  ASSUME NEW A, NEW t \in Seq(A), NEW env
  PROVE  \A i \in 1..(Len(t) + 1) : Rest(env, t)[i] = RestStep(env, t, Rest(env, t), i)
<1> DEFINE l == Len(t) + 1
           Places(n) == (l + 1 - n)..l
           Good(n, f) == f = [i \in Places(n) |-> RestStep(env, t, f, i)]
           N == {n \in Nat : n <= l => \E f : Good(n, f)}
<1>0. Len(t) \in Nat /\ l \in Nat
  BY LenProperties
<1>1. 0 \in N
  <2> DEFINE f == [i \in Places(0) |-> <<>>]
  <2>1. Places(0) = {}
    BY <1>0
  <2>2. Good(0, f)
    BY <2>1
  <2> QED BY <2>2
<1>2. ASSUME NEW n \in Nat, n \in N PROVE n + 1 \in N
  <2> SUFFICES ASSUME n + 1 <= l PROVE \E g : Good(n + 1, g)
    OBVIOUS
  <2>1. PICK f : Good(n, f)
    BY <1>0, <1>2
  <2> DEFINE b == l - n
             g == [i \in Places(n + 1) |-> IF i = b THEN RestStep(env, t, f, i) ELSE f[i]]
  <2>2. /\ b \in 1..l /\ b \in Places(n + 1)
        /\ \A i \in Places(n + 1) : i \in 1..l /\ (i # b => i \in Places(n) /\ i > b)
        /\ \A j \in 1..l : j > b => j \in Places(n) /\ j \in Places(n + 1)
    <3> DEFINE k == l
    <3>1. k \in Nat
      BY <1>0
    <3> HIDE DEF k
    <3>2. /\ k + 1 - (n + 1) = k - n /\ k - n >= 1 /\ k - n <= k /\ k - n \in Int
          /\ k + 1 - n = (k - n) + 1
      BY <3>1 DEF k
    <3> QED BY <3>1, <3>2 DEF k
  <2>3. \A j \in 1..l : j > b => g[j] = f[j]
    BY <2>2
  <2>4. \A i \in Places(n + 1) : RestStep(env, t, g, i) = RestStep(env, t, f, i)
    <3> TAKE i \in Places(n + 1)
    <3>1. i \in 1..l /\ i >= b
      BY <1>0, <2>2
    <3>2. \A j \in 1..l : j > i => g[j] = f[j]
      BY <1>0, <2>3, <3>1
    <3> HIDE DEF g
    <3> QED BY <3>1, <3>2, RestLocal
  <2>5. \A i \in Places(n) : f[i] = RestStep(env, t, f, i)
    BY <2>1
  <2>6. \A i \in Places(n + 1) : g[i] = RestStep(env, t, f, i)
    BY <2>2, <2>5
  <2>7. g = [i \in Places(n + 1) |-> RestStep(env, t, f, i)]
    BY <2>6
  <2>8. Good(n + 1, g)
    <3> DEFINE h == [i \in Places(n + 1) |-> RestStep(env, t, g, i)]
    <3>1. h = [i \in Places(n + 1) |-> RestStep(env, t, f, i)]
      <4> HIDE DEF g, Places
      <4> QED BY <2>4
    <3> QED BY <2>7, <3>1, Zenon
  <2> HIDE DEF g, Good
  <2> QED BY <2>8
<1>3. l \in N
  <2> HIDE DEF N
  <2> QED BY <1>0, <1>1, <1>2, SetInduction
<1>4. PICK f : Good(l, f)
  BY <1>0, <1>3
<1>5. Places(l) = 1..l
  BY <1>0
<1>6. \E g : g = [i \in 1..l |-> RestStep(env, t, g, i)]
  BY <1>4, <1>5, Zenon
<1>7. Rest(env, t) = [i \in 1..l |-> RestStep(env, t, Rest(env, t), i)]
  BY <1>6, Zenon DEF Rest
<1> DEFINE R == Rest(env, t)
<1>8. R = [i \in 1..l |-> RestStep(env, t, R, i)]
  BY <1>7
<1> HIDE DEF R
<1>9. \A i \in 1..l : R[i] = RestStep(env, t, R, i)
  BY <1>8
<1> QED BY <1>9 DEF R

\* What a variable stands for is a text.
Values(env, A) == \A n \in DOMAIN env : env[n] \in Seq(A)

LEMMA GetenvType ==
  ASSUME NEW A, NEW env, Values(env, A), NEW n
  PROVE  Getenv(env, n) \in Seq(A)
<1>1. <<>> \in Seq(A)
  BY EmptySeq
<1> QED BY <1>1 DEF Getenv, Values

\* The three cases of a step.
LEMMA RestCases ==
  ASSUME NEW A, NEW t \in Seq(A), NEW env
  PROVE  /\ Rest(env, t)[Len(t) + 1] = <<>>
         /\ \A i \in 1..Len(t) : Begins(t, i) =>
              Rest(env, t)[i] = Getenv(env, SubSeq(t, i + 2, End(t, i) - 1))
                                  \o Rest(env, t)[End(t, i) + 1]
         /\ \A i \in 1..Len(t) : ~Begins(t, i) => Rest(env, t)[i] = <<t[i]>> \o Rest(env, t)[i + 1]
<1>0. Len(t) \in Nat
  BY LenProperties
<1> DEFINE R == Rest(env, t)
<1>1. \A i \in 1..(Len(t) + 1) : R[i] = RestStep(env, t, R, i)
  BY RestExists
<1> HIDE DEF R
<1>2. R[Len(t) + 1] = <<>>
  <2> DEFINE i == Len(t) + 1
  <2>1. i \in 1..(Len(t) + 1) /\ i > Len(t)
    BY <1>0
  <2> HIDE DEF i
  <2>2. R[i] = <<>>
    BY <1>1, <2>1 DEF RestStep
  <2> QED BY <2>2 DEF i
<1>3. ASSUME NEW i \in 1..Len(t)
      PROVE  R[i] = IF Begins(t, i)
                    THEN Getenv(env, SubSeq(t, i + 2, End(t, i) - 1)) \o R[End(t, i) + 1]
                    ELSE <<t[i]>> \o R[i + 1]
  <2>1. i \in 1..(Len(t) + 1) /\ ~(i > Len(t))
    BY <1>0
  <2>2. R[i] = RestStep(env, t, R, i)
    BY <1>1, <2>1
  <2> QED BY <2>1, <2>2, Zenon DEF RestStep, Begins, End
<1> QED BY <1>2, <1>3 DEF R

LEMMA RestType ==
  ASSUME NEW A, NEW t \in Seq(A), NEW env, Values(env, A)
  PROVE  \A i \in 1..(Len(t) + 1) : Rest(env, t)[i] \in Seq(A)
<1>0. Len(t) \in Nat /\ Len(t) + 1 \in Nat
  BY LenProperties
<1> DEFINE T == {i \in 1..(Len(t) + 1) : Rest(env, t)[i] \in Seq(A)}
<1>1. ASSUME NEW i \in 1..(Len(t) + 1), \A j \in 1..(Len(t) + 1) : j > i => j \in T
      PROVE  i \in T
  <2>1. CASE i = Len(t) + 1
    BY ZenonT(60), <2>1, RestCases, EmptySeq
  <2>2. CASE i # Len(t) + 1 /\ Begins(t, i)
    <3> DEFINE e == End(t, i)
    <3>1. i \in 1..Len(t)
      BY <1>0, <2>2
    <3>2. e + 1 \in 1..(Len(t) + 1) /\ e + 1 > i
      BY <1>0, <2>2, <3>1, EndOf DEF Begins
    <3>3. Rest(env, t)[e + 1] \in Seq(A)
      <4> HIDE DEF e
      <4> QED BY <1>1, <3>2
    <3>4. Getenv(env, SubSeq(t, i + 2, e - 1)) \in Seq(A)
      BY GetenvType
    <3>5. Rest(env, t)[i] = Getenv(env, SubSeq(t, i + 2, e - 1)) \o Rest(env, t)[e + 1]
      BY <2>2, <3>1, RestCases
    <3> QED BY <3>3, <3>4, <3>5, ConcatProperties
  <2>3. CASE i # Len(t) + 1 /\ ~Begins(t, i)
    <3>1. i \in 1..Len(t) /\ i + 1 \in 1..(Len(t) + 1) /\ i + 1 > i
      BY <1>0, <2>3
    <3>2. Rest(env, t)[i + 1] \in Seq(A)
      BY <1>1, <3>1
    <3>3. <<t[i]>> \in Seq(A)
      BY <3>1, ElementOfSeq
    <3>4. Rest(env, t)[i] = <<t[i]>> \o Rest(env, t)[i + 1]
      BY <2>3, <3>1, RestCases
    <3> QED BY <3>2, <3>3, <3>4, ConcatProperties
  <2> QED BY <2>1, <2>2, <2>3
<1>2. 1..(Len(t) + 1) \subseteq T
  <2> HIDE DEF T
  <2> QED BY <1>0, <1>1, DownInduction
<1> QED BY <1>2

\* Up to a place before which no expression begins the text stays as it is.
LEMMA RestPlain ==
  ASSUME NEW A, NEW t \in Seq(A), NEW env, Values(env, A), NEW k \in 1..(Len(t) + 1),
         \A j \in 1..(k - 1) : ~Begins(t, j)
  PROVE  \A i \in 1..k : Rest(env, t)[i] = SubSeq(t, i, k - 1) \o Rest(env, t)[k]
<1>0. Len(t) \in Nat /\ k \in Nat
  BY LenProperties
<1> DEFINE T == {i \in 1..k : Rest(env, t)[i] = SubSeq(t, i, k - 1) \o Rest(env, t)[k]}
<1>1. Rest(env, t)[k] \in Seq(A)
  BY RestType
<1>2. ASSUME NEW i \in 1..k, \A j \in 1..k : j > i => j \in T
      PROVE  i \in T
  <2>1. CASE i = k
    <3>1. SubSeq(t, k, k - 1) = <<>>
      BY <1>0, SubSeqEmpty
    <3>2. <<>> \o Rest(env, t)[k] = Rest(env, t)[k]
      BY <1>1, ConcatEmptySeq
    <3> QED BY <2>1, <3>1, <3>2
  <2>2. CASE i # k
    <3>1. /\ i \in 1..Len(t) /\ k \in (i + 1)..(Len(t) + 1) /\ i \in 1..(k - 1)
          /\ i + 1 \in 1..k /\ i + 1 > i
      BY <1>0, <2>2
    <3>2. Rest(env, t)[i] = <<t[i]>> \o Rest(env, t)[i + 1]
      BY <3>1, RestCases
    <3>3. Rest(env, t)[i + 1] = SubSeq(t, i + 1, k - 1) \o Rest(env, t)[k]
      BY <1>2, <3>1
    <3>4. SubSeq(t, i, k - 1) = <<t[i]>> \o SubSeq(t, i + 1, k - 1)
      <4>1. k - 1 \in i..Len(t)
        BY <1>0, <3>1
      <4> QED BY <3>1, <4>1, SubSeqRecursiveFirst
    <3>5. <<t[i]>> \in Seq(A) /\ SubSeq(t, i + 1, k - 1) \in Seq(A)
      <4>1. \A j \in 1..Len(t) : t[j] \in A
        BY ElementOfSeq
      <4>2. \A j \in (i + 1)..(k - 1) : t[j] \in A
        BY <1>0, <3>1, <4>1
      <4>3. SubSeq(t, i + 1, k - 1) \in Seq(A)
        BY <1>0, <4>2, SubSeqProperties
      <4> QED BY <3>1, <4>1, <4>3
    <3> DEFINE p == <<t[i]>>
               q == SubSeq(t, i + 1, k - 1)
               r == Rest(env, t)[k]
    <3>6. (p \o q) \o r = p \o (q \o r)
      <4> HIDE DEF p, q, r
      <4>1. p \in Seq(A) /\ q \in Seq(A) /\ r \in Seq(A)
        BY <1>1, <3>5 DEF p, q, r
      <4> QED BY <4>1, ConcatAgain
    <3> QED BY <3>2, <3>3, <3>4, <3>6
  <2> QED BY <2>1, <2>2
<1>3. 1..k \subseteq T
  <2> HIDE DEF T
  <2> QED BY <1>0, <1>2, DownInduction
<1> QED BY <1>3

\* In the second of two texts the same expressions begin.
LEMMA BeginsBehind ==
  ASSUME NEW A, NEW u \in Seq(A), NEW w \in Seq(A), NEW i \in 1..Len(w)
  PROVE  /\ Begins(u \o w, Len(u) + i) <=> Begins(w, i)
         /\ Begins(w, i) =>
              /\ End(u \o w, Len(u) + i) = Len(u) + End(w, i)
              /\ SubSeq(u \o w, Len(u) + i + 2, Len(u) + End(w, i) - 1)
                   = SubSeq(w, i + 2, End(w, i) - 1)
<1> DEFINE t == u \o w
           l == Len(u)
<1>1. /\ l \in Nat /\ Len(w) \in Nat /\ t \in Seq(A)
      /\ Len(t) = l + Len(w) /\ DOMAIN t = 1..Len(t) /\ DOMAIN w = 1..Len(w)
      /\ \A j \in 1..Len(w) : t[l + j] = w[j]
  <2>1. l \in Nat /\ Len(w) \in Nat /\ DOMAIN w = 1..Len(w)
    BY LenProperties
  <2>2. /\ t \in Seq(A) /\ Len(t) = l + Len(w)
        /\ \A j \in 1..(l + Len(w)) : t[j] = IF j <= l THEN u[j] ELSE w[j - l]
    BY ConcatProperties
  <2>3. \A j \in 1..Len(w) : t[l + j] = w[j]
    <3> TAKE j \in 1..Len(w)
    <3>1. l + j \in 1..(l + Len(w)) /\ ~(l + j <= l) /\ (l + j) - l = j
      BY <2>1
    <3> HIDE DEF t, l
    <3> QED BY <2>2, <3>1
  <2> QED BY <2>1, <2>2, <2>3, LenProperties
<1> HIDE DEF t, l
<1>2. /\ \A j \in ShutsBehind(w, i) : l + j \in ShutsBehind(t, l + i)
      /\ \A m \in ShutsBehind(t, l + i) : m - l \in ShutsBehind(w, i)
  <2>1. ASSUME NEW j \in ShutsBehind(w, i) PROVE l + j \in ShutsBehind(t, l + i)
    BY <1>1 DEF ShutsBehind
  <2>2. ASSUME NEW m \in ShutsBehind(t, l + i) PROVE m - l \in ShutsBehind(w, i)
    <3>1. m \in 1..(l + Len(w)) /\ m > l + i /\ t[m] = Shut
      BY <1>1 DEF ShutsBehind
    <3>2. m - l \in 1..Len(w) /\ m - l > i /\ l + (m - l) = m
      BY <1>1, <3>1
    <3>3. w[m - l] = Shut
      BY <1>1, <3>1, <3>2
    <3> QED BY <1>1, <3>2, <3>3 DEF ShutsBehind
  <2> QED BY <2>1, <2>2
<1>3. /\ t[l + i] = w[i] /\ (l + i < Len(t) <=> i < Len(w))
      /\ i < Len(w) => t[(l + i) + 1] = w[i + 1]
  <2>1. (l + i) + 1 = l + (i + 1) /\ (i < Len(w) => i + 1 \in 1..Len(w))
    BY <1>1
  <2> QED BY <1>1, <2>1
<1>4. Begins(t, l + i) <=> Begins(w, i)
  BY <1>2, <1>3 DEF Begins, IsAt
<1>5. ASSUME Begins(w, i)
      PROVE  /\ End(t, l + i) = l + End(w, i)
             /\ SubSeq(t, l + i + 2, l + End(w, i) - 1) = SubSeq(w, i + 2, End(w, i) - 1)
  <2> DEFINE e == End(w, i)
             S == ShutsBehind(w, i)
  <2>1. S \in SUBSET Nat /\ S # {}
    BY <1>1, <1>5 DEF ShutsBehind, Begins
  <2>2. e \in S /\ \A j \in S : e <= j
    BY <2>1, MinOf DEF End
  <2>3. e \in 1..Len(w) /\ e > i
    BY <1>1, <2>2 DEF ShutsBehind
  <2> HIDE DEF e, S
  <2>4. l + e \in ShutsBehind(t, l + i) /\ \A m \in ShutsBehind(t, l + i) : l + e <= m
    <3>1. l + e \in ShutsBehind(t, l + i)
      BY <1>2, <2>2 DEF S
    <3>2. ASSUME NEW m \in ShutsBehind(t, l + i) PROVE l + e <= m
      <4>1. e <= m - l
        BY <1>2, <2>2 DEF S
      <4>2. m \in Nat
        BY <1>1 DEF ShutsBehind
      <4> QED BY <1>1, <2>3, <4>1, <4>2
    <3> QED BY <3>1, <3>2
  <2>5. End(t, l + i) = l + e
    <3>1. ShutsBehind(t, l + i) \in SUBSET Nat
      BY <1>1 DEF ShutsBehind
    <3> QED BY <2>4, <3>1, MinIs DEF End
  <2>6. SubSeq(t, l + i + 2, l + e - 1) = SubSeq(w, i + 2, e - 1)
    <3>1. CASE e - 1 < i + 2
      <4>1. SubSeq(w, i + 2, e - 1) = <<>>
        <5>1. i + 2 \in Int /\ e - 1 \in Int /\ e - 1 < i + 2
          BY <2>3, <3>1
        <5> QED BY <5>1, SubSeqEmpty
      <4>2. SubSeq(t, l + i + 2, l + e - 1) = <<>>
        <5>1. l + i + 2 \in Int /\ l + e - 1 \in Int /\ l + e - 1 < l + i + 2
          BY <1>1, <2>3, <3>1
        <5> QED BY <5>1, SubSeqEmpty
      <4> QED BY <4>1, <4>2
    <3>2. CASE ~(e - 1 < i + 2)
      <4>1. /\ l + i + 2 \in (l + 1)..(l + Len(w)) /\ l + e - 1 \in (l + 1)..(l + Len(w))
            /\ (l + i + 2) - l = i + 2 /\ (l + e - 1) - l = e - 1
        BY <1>1, <2>3, <3>2
      <4> DEFINE a == l + i + 2
                 b == l + e - 1
      <4> HIDE DEF a, b
      <4>2. a \in (l + 1)..(l + Len(w)) /\ b \in (l + 1)..(l + Len(w))
            /\ a - l = i + 2 /\ b - l = e - 1
        BY <4>1 DEF a, b
      <4>3. SubSeq(t, a, b) = SubSeq(w, a - l, b - l)
        BY <4>2, SubSeqOfConcat2 DEF t, l
      <4> QED BY <4>2, <4>3 DEF a, b
    <3> QED BY <3>1, <3>2
  <2> QED BY <2>5, <2>6 DEF e
<1> QED BY <1>4, <1>5 DEF t, l

\* What stands before a text does not change what Expanded returns for it.
LEMMA RestShift ==
  ASSUME NEW A, NEW u \in Seq(A), NEW w \in Seq(A), NEW env, Values(env, A)
  PROVE  \A i \in 1..(Len(w) + 1) : Rest(env, u \o w)[Len(u) + i] = Rest(env, w)[i]
<1> DEFINE t == u \o w
           l == Len(u)
           T == {i \in 1..(Len(w) + 1) : Rest(env, t)[l + i] = Rest(env, w)[i]}
<1>0. l \in Nat /\ Len(w) \in Nat /\ Len(w) + 1 \in Nat /\ t \in Seq(A) /\ Len(t) = l + Len(w)
  <2>1. t \in Seq(A) /\ Len(t) = l + Len(w)
    BY ConcatProperties
  <2> QED BY <2>1, LenProperties
<1>1. ASSUME NEW i \in 1..(Len(w) + 1), \A j \in 1..(Len(w) + 1) : j > i => j \in T
      PROVE  i \in T
  <2> HIDE DEF t, l
  <2>1. CASE i = Len(w) + 1
    <3>1. Rest(env, t)[Len(t) + 1] = <<>> /\ Rest(env, w)[Len(w) + 1] = <<>>
      BY <1>0, RestCases
    <3>2. Len(t) + 1 = l + (Len(w) + 1)
      BY <1>0
    <3> QED BY <2>1, <3>1, <3>2
  <2>2. CASE i # Len(w) + 1 /\ Begins(w, i)
    <3> DEFINE e == End(w, i)
    <3>1. i \in 1..Len(w) /\ l + i \in 1..Len(t) /\ (l + i) + 2 = l + i + 2
      BY <1>0, <2>2
    <3>2. /\ e \in Nat /\ e + 1 \in 1..(Len(w) + 1) /\ e + 1 > i
          /\ (l + e) + 1 = l + (e + 1)
      BY <1>0, <2>2, <3>1, EndOf DEF Begins
    <3>3. /\ Begins(t, l + i) /\ End(t, l + i) = l + e
          /\ SubSeq(t, l + i + 2, l + e - 1) = SubSeq(w, i + 2, e - 1)
      <4>1. /\ Begins(u \o w, Len(u) + i) <=> Begins(w, i)
            /\ Begins(w, i) =>
                 /\ End(u \o w, Len(u) + i) = Len(u) + End(w, i)
                 /\ SubSeq(u \o w, Len(u) + i + 2, Len(u) + End(w, i) - 1)
                      = SubSeq(w, i + 2, End(w, i) - 1)
        BY <3>1, BeginsBehind
      <4> QED BY <2>2, <4>1 DEF t, l
    <3>4. Rest(env, w)[i] = Getenv(env, SubSeq(w, i + 2, e - 1)) \o Rest(env, w)[e + 1]
      BY <2>2, <3>1, RestCases
    <3>5. Rest(env, t)[l + i]
            = Getenv(env, SubSeq(t, l + i + 2, l + e - 1)) \o Rest(env, t)[(l + e) + 1]
      <4> DEFINE k == l + i
                 b == l + e
      <4>1. k \in 1..Len(t) /\ Begins(t, k)
        BY <3>1, <3>3
      <4>2. End(t, k) = b
        BY <3>3
      <4> HIDE DEF k, b
      <4>3. Rest(env, t)[k] = Getenv(env, SubSeq(t, k + 2, End(t, k) - 1))
                                \o Rest(env, t)[End(t, k) + 1]
        BY <1>0, <4>1, RestCases
      <4>4. Rest(env, t)[k] = Getenv(env, SubSeq(t, k + 2, b - 1)) \o Rest(env, t)[b + 1]
        BY <4>2, <4>3
      <4>5. /\ k = l + i /\ b = l + e /\ k \in Nat /\ b \in Nat
            /\ k + 2 = l + i + 2 /\ b - 1 = l + e - 1 /\ b + 1 = (l + e) + 1
        <5> HIDE DEF e
        <5> QED BY <1>0, <3>1, <3>2 DEF k, b
      <4> HIDE DEF e
      <4> QED BY <4>4, <4>5
    <3>6. Rest(env, t)[l + (e + 1)] = Rest(env, w)[e + 1]
      <4> HIDE DEF e
      <4> QED BY <1>1, <3>2
    <3> HIDE DEF e
    <3> QED BY <3>2, <3>3, <3>4, <3>5, <3>6
  <2>3. CASE i # Len(w) + 1 /\ ~Begins(w, i)
    <3>1. i \in 1..Len(w) /\ i + 1 \in 1..(Len(w) + 1) /\ i + 1 > i /\ l + i \in 1..Len(t)
          /\ (l + i) + 1 = l + (i + 1)
      BY <1>0, <2>3
    <3>2. ~Begins(t, l + i)
      BY <2>3, <3>1, BeginsBehind DEF t, l
    <3>3. Rest(env, w)[i] = <<w[i]>> \o Rest(env, w)[i + 1]
      BY <2>3, <3>1, RestCases
    <3>4. Rest(env, t)[l + i] = <<t[l + i]>> \o Rest(env, t)[(l + i) + 1]
      BY <1>0, <3>1, <3>2, RestCases
    <3>5. Rest(env, t)[l + (i + 1)] = Rest(env, w)[i + 1]
      BY <1>1, <3>1
    <3>6. t[l + i] = w[i]
      <4>1. l + i \in 1..(Len(u) + Len(w)) /\ ~(l + i <= Len(u)) /\ (l + i) - Len(u) = i
        BY <1>0, <3>1 DEF l
      <4>2. \A j \in 1..(Len(u) + Len(w)) : t[j] = IF j <= Len(u) THEN u[j] ELSE w[j - Len(u)]
        BY ConcatProperties DEF t
      <4> QED BY <4>1, <4>2
    <3> QED BY <3>1, <3>3, <3>4, <3>5, <3>6
  <2> QED BY <2>1, <2>2, <2>3
<1>2. 1..(Len(w) + 1) \subseteq T
  <2> HIDE DEF T
  <2> QED BY <1>0, <1>1, DownInduction
<1> QED BY <1>2

\* A text without an expression is left as it is.
LEMMA ExpandedPlain ==
  ASSUME NEW A, NEW t \in Seq(A), NEW env, Values(env, A), ~Expandable(t)
  PROVE  Expanded(env, t) = t
<1>0. Len(t) \in Nat /\ DOMAIN t = 1..Len(t)
  BY LenProperties
<1>1. \A j \in 1..Len(t) : ~Begins(t, j)
  <2> SUFFICES ASSUME NEW j \in 1..Len(t), Begins(t, j) PROVE FALSE
    OBVIOUS
  <2>1. j \in Opens(t) /\ Opens(t) \in SUBSET Nat
    BY <1>0 DEF Begins, Opens
  <2>2. Start(t) <= j /\ Start(t) \in Nat
    BY <2>1, MinOf DEF Start
  <2>3. PICK m \in DOMAIN t : m > j /\ t[m] = Shut
    BY DEF Begins, ShutsBehind
  <2>4. m \in Shuts(t)
    BY <1>0, <2>2, <2>3 DEF Shuts
  <2> QED BY <2>1, <2>4 DEF Expandable
<1> DEFINE k == Len(t) + 1
<1>2. k \in 1..(Len(t) + 1) /\ 1 \in 1..k /\ k - 1 = Len(t)
  BY <1>0
<1>3. Rest(env, t)[k] = <<>>
  BY RestCases
<1> HIDE DEF k
<1>4. Rest(env, t)[1] = SubSeq(t, 1, k - 1) \o Rest(env, t)[k]
  BY <1>1, <1>2, RestPlain
<1>5. SubSeq(t, 1, k - 1) = t
  BY <1>2, SubSeqFull
<1> QED BY <1>3, <1>4, <1>5, ExpandedIsRest, ConcatEmptySeq

\* Where the first expression of a text begins and ends.
LEMMA FirstExpression ==
  ASSUME NEW A, NEW t \in Seq(A), Expandable(t)
  PROVE  /\ Start(t) \in 1..Len(t)
         /\ \A j \in 1..(Start(t) - 1) : ~IsAt(t, j, Open)
         /\ Begins(t, Start(t)) /\ End(t, Start(t)) = Min(Shuts(t))
         /\ End(t, Start(t)) \in 1..Len(t) /\ End(t, Start(t)) > Start(t)
<1>0. Len(t) \in Nat /\ DOMAIN t = 1..Len(t)
  BY LenProperties
<1>1. Opens(t) \in SUBSET Nat /\ Opens(t) # {}
  BY <1>0 DEF Opens, Expandable
<1>2. Start(t) \in Opens(t) /\ \A j \in Opens(t) : Start(t) <= j
  BY <1>1, MinOf DEF Start
<1>3. Start(t) \in 1..Len(t) /\ IsAt(t, Start(t), Open)
  BY <1>0, <1>2 DEF Opens
<1>4. \A j \in 1..(Start(t) - 1) : ~IsAt(t, j, Open)
  <2> SUFFICES ASSUME NEW j \in 1..(Start(t) - 1), IsAt(t, j, Open) PROVE FALSE
    OBVIOUS
  <2>1. j \in Opens(t)
    BY <1>0, <1>3 DEF Opens
  <2>2. Start(t) <= j
    BY <1>2, <2>1
  <2> QED BY <1>3, <2>2
<1>5. Shuts(t) = ShutsBehind(t, Start(t))
  BY DEF Shuts, ShutsBehind
<1>6. Begins(t, Start(t))
  BY <1>3, <1>5 DEF Begins, Expandable
<1> QED BY <1>3, <1>4, <1>5, <1>6, EndOf DEF End, Begins

\* One turn of the loop leaves a text.
LEMMA ExpandOnceType ==
  ASSUME NEW A, NEW t \in Seq(A), NEW env, Values(env, A), Expandable(t)
  PROVE  ExpandOnce(env, t) \in Seq(A)
<1> DEFINE s == Start(t)
           e == Min(Shuts(t))
           p == SubSeq(t, 1, s - 1)
           v == Getenv(env, SubSeq(t, s + 2, e - 1))
           w == SubSeq(t, e + 1, Len(t))
<1>1. s \in 1..Len(t) /\ e \in 1..Len(t)
  BY FirstExpression
<1>2. ExpandOnce(env, t) = (p \o v) \o w
  BY Zenon DEF ExpandOnce, s, e, p, v, w
<1> HIDE DEF s, e
<1>3. Len(t) \in Nat /\ \A j \in 1..Len(t) : t[j] \in A
  BY LenProperties, ElementOfSeq
<1>4. /\ s - 1 \in Int /\ \A j \in 1..(s - 1) : t[j] \in A
      /\ e + 1 \in Int /\ \A j \in (e + 1)..Len(t) : t[j] \in A
  BY <1>1, <1>3
<1>5. p \in Seq(A)
  BY <1>4, SubSeqProperties
<1>6. w \in Seq(A)
  BY <1>3, <1>4, SubSeqProperties
<1>7. v \in Seq(A)
  BY GetenvType
<1> HIDE DEF p, v, w
<1> QED BY <1>2, <1>5, <1>6, <1>7, ConcatProperties

\* One turn of the loop changes nothing about what Expanded returns, if no dollar
\* sign stands in a value, nor in the text but in a mark; then the text it leaves
\* is such a text again.
LEMMA ExpandOnceKeeps ==
  ASSUME NEW A, NEW t \in Seq(A), NEW env, Values(env, A), Expandable(t),
         OnlyMarks(t), \A n \in DOMAIN env : Dollar \notin ToSet(env[n])
  PROVE  /\ OnlyMarks(ExpandOnce(env, t))
         /\ Expanded(env, ExpandOnce(env, t)) = Expanded(env, t)
<1> DEFINE s == Start(t)
           e == End(t, s)
           v == Getenv(env, SubSeq(t, s + 2, e - 1))
           p == SubSeq(t, 1, s - 1)
           w == SubSeq(t, e + 1, Len(t))
           h == SubSeq(t, 1, e)
           u == p \o v
<1>0. Len(t) \in Nat /\ \A j \in 1..Len(t) : t[j] \in A
  BY LenProperties, ElementOfSeq
<1>1. /\ s \in 1..Len(t) /\ e \in 1..Len(t) /\ e > s /\ Begins(t, s)
      /\ \A j \in 1..(s - 1) : ~Begins(t, j) /\ t[j] # Dollar
  <2>1. \A j \in 1..(s - 1) : j \in DOMAIN t /\ ~IsAt(t, j, Open)
    BY <1>0, FirstExpression, LenProperties
  <2> QED BY <2>1, FirstExpression DEF OnlyMarks, Begins
<1>2. ExpandOnce(env, t) = (p \o v) \o w
  <2>1. e = Min(Shuts(t))
    BY FirstExpression
  <2> HIDE DEF e
  <2> QED BY <2>1, Zenon DEF ExpandOnce, s, v, p, w
<1>3. v \in Seq(A) /\ Dollar \notin ToSet(v)
  <2>1. v \in Seq(A)
    BY GetenvType
  <2>2. Dollar \notin ToSet(<<>>)
    BY DEF ToSet
  <2> QED BY <2>1, <2>2 DEF Getenv
<1> HIDE DEF s, e, v
<1>4. /\ p \in Seq(A) /\ Len(p) = s - 1
      /\ \A j \in 1..(s - 1) : p[j] = t[j]
  <2>1. /\ s - 1 \in Int /\ (s - 1) - 1 + 1 = s - 1 /\ (1 <= s - 1 \/ s - 1 = 0)
        /\ \A j \in 1..(s - 1) : t[j] \in A /\ 1 + j - 1 = j
    BY <1>0, <1>1
  <2>2. /\ p \in Seq(A)
        /\ Len(p) = (IF 1 <= s - 1 THEN (s - 1) - 1 + 1 ELSE 0)
        /\ \A j \in 1..((s - 1) - 1 + 1) : p[j] = t[1 + j - 1]
    BY <2>1, SubSeqProperties
  <2> HIDE DEF p
  <2> QED BY <2>1, <2>2
<1>5. /\ w \in Seq(A) /\ h \in Seq(A) /\ Len(h) = e /\ t = h \o w
  <2>1. /\ e + 1 \in Int /\ Len(t) \in Int /\ e \in Int /\ 1 <= e /\ e - 1 + 1 = e
        /\ \A j \in (e + 1)..Len(t) : t[j] \in A
        /\ \A j \in 1..e : t[j] \in A
    BY <1>0, <1>1
  <2>2. w \in Seq(A)
    BY <2>1, SubSeqProperties
  <2>3. h \in Seq(A) /\ Len(h) = e
    BY <2>1, SubSeqProperties
  <2>4. h \o w = SubSeq(t, 1, Len(t))
    <3>1. /\ 1 \in 1..(Len(t) + 1) /\ e \in (1 - 1)..Len(t) /\ Len(t) \in e..Len(t)
      BY <1>0, <1>1
    <3> QED BY <3>1, ConcatAdjacentSubSeq
  <2>5. SubSeq(t, 1, Len(t)) = t
    BY SubSeqFull
  <2> QED BY <2>2, <2>3, <2>4, <2>5
<1> HIDE DEF p, w, h
<1>6. /\ u \in Seq(A) /\ Len(u) = Len(p) + Len(v) /\ Len(p) \in Nat /\ Len(v) \in Nat
      /\ \A j \in 1..Len(u) : u[j] # Dollar
  <2>1. /\ u \in Seq(A) /\ Len(u) = Len(p) + Len(v)
        /\ \A j \in 1..(Len(p) + Len(v)) : u[j] = IF j <= Len(p) THEN p[j] ELSE v[j - Len(p)]
    BY <1>3, <1>4, ConcatProperties
  <2>2. Len(p) \in Nat /\ Len(v) \in Nat /\ DOMAIN v = 1..Len(v)
    BY <1>3, <1>4, LenProperties
  <2>3. \A j \in 1..Len(v) : v[j] # Dollar
    BY <1>3, <2>2 DEF ToSet
  <2>4. ASSUME NEW j \in 1..Len(u) PROVE u[j] # Dollar
    <3>1. CASE j <= Len(p)
      <4>1. j \in 1..(s - 1) /\ u[j] = p[j]
        BY <1>4, <2>1, <2>2, <3>1
      <4> QED BY <1>1, <1>4, <4>1
    <3>2. CASE ~(j <= Len(p))
      <4>1. j - Len(p) \in 1..Len(v) /\ u[j] = v[j - Len(p)]
        BY <2>1, <2>2, <3>2
      <4> QED BY <2>3, <4>1
    <3> QED BY <3>1, <3>2
  <2> QED BY <2>1, <2>2, <2>4
<1>7. Expanded(env, t) = u \o Rest(env, w)[1]
  <2>1. Rest(env, t)[1] = p \o Rest(env, t)[s]
    <3>1. \A j \in 1..(s - 1) : ~Begins(t, j)
      BY <1>1
    <3>2. s \in 1..(Len(t) + 1) /\ 1 \in 1..s
      BY <1>0, <1>1
    <3>3. Rest(env, t)[1] = SubSeq(t, 1, s - 1) \o Rest(env, t)[s]
      BY <3>1, <3>2, RestPlain
    <3> QED BY <3>3 DEF p
  <2>2. Rest(env, t)[s] = v \o Rest(env, t)[e + 1]
    BY <1>1, RestCases, Zenon DEF v, e
  <2>3. Rest(env, t)[e + 1] = Rest(env, w)[1]
    <3>1. 1 \in 1..(Len(w) + 1)
      BY <1>5, LenProperties
    <3>2. \A i \in 1..(Len(w) + 1) : Rest(env, h \o w)[Len(h) + i] = Rest(env, w)[i]
      <4>1. h \in Seq(A) /\ w \in Seq(A)
        BY <1>5
      <4> QED BY <4>1, RestShift
    <3>3. Rest(env, h \o w)[Len(h) + 1] = Rest(env, w)[1]
      BY <3>1, <3>2
    <3> QED BY <1>5, <3>3
  <2>4. Rest(env, w)[1] \in Seq(A)
    <3>1. 1 \in 1..(Len(w) + 1)
      BY <1>5, LenProperties
    <3> QED BY <1>5, <3>1, RestType
  <2> DEFINE r == Rest(env, w)[1]
  <2>5. p \o (v \o r) = (p \o v) \o r
    <3> HIDE DEF r
    <3>1. r \in Seq(A)
      BY <2>4 DEF r
    <3> QED BY SMTT(60), <1>3, <1>4, <3>1, ConcatAgain
  <2> QED BY <2>1, <2>2, <2>3, <2>5, ExpandedIsRest
<1> HIDE DEF u
<1>8. Expanded(env, u \o w) = u \o Rest(env, w)[1]
  <2> DEFINE x == u \o w
             k == Len(u) + 1
  <2>1. /\ x \in Seq(A) /\ Len(x) = Len(u) + Len(w)
        /\ \A j \in 1..(Len(u) + Len(w)) : x[j] = IF j <= Len(u) THEN u[j] ELSE w[j - Len(u)]
    BY <1>5, <1>6, ConcatProperties
  <2>2. Len(u) \in Nat /\ Len(w) \in Nat
    BY <1>5, <1>6, LenProperties
  <2>3. k \in 1..(Len(x) + 1) /\ 1 \in 1..k /\ k - 1 = Len(u) /\ 1 \in 1..(Len(w) + 1)
    <3> HIDE DEF x
    <3> QED BY <2>1, <2>2
  <2>4. \A j \in 1..(k - 1) : ~Begins(x, j)
    <3> TAKE j \in 1..(k - 1)
    <3>1. x[j] # Dollar
      <4> HIDE DEF x
      <4>1. j \in 1..Len(u) /\ j \in 1..(Len(u) + Len(w)) /\ j <= Len(u)
        BY <2>2
      <4> QED BY <1>6, <2>1, <4>1
    <3>2. Open[1] = Dollar
      BY DEF Open
    <3> HIDE DEF x
    <3> QED BY <3>1, <3>2 DEF Begins, IsAt
  <2>5. Rest(env, x)[1] = SubSeq(x, 1, k - 1) \o Rest(env, x)[k]
    <3> HIDE DEF x, k
    <3>1. k \in 1..(Len(x) + 1) /\ x \in Seq(A) /\ 1 \in 1..k
      BY <2>1, <2>3
    <3>2. \A i \in 1..k : Rest(env, x)[i] = SubSeq(x, i, k - 1) \o Rest(env, x)[k]
      BY <2>4, <3>1, RestPlain
    <3> QED BY <3>1, <3>2
  <2>6. SubSeq(x, 1, k - 1) = u
    <3> DEFINE y == SubSeq(x, 1, Len(u))
    <3> HIDE DEF x
    <3>1. /\ 1 \in Int /\ Len(u) \in Int /\ Len(u) - 1 + 1 = Len(u) /\ (1 <= Len(u) \/ Len(u) = 0)
          /\ \A j \in 1..Len(u) : x[j] \in A /\ x[j] = u[j] /\ 1 + j - 1 = j
      <4>1. \A j \in 1..Len(u) : u[j] \in A
        BY <1>6, ElementOfSeq
      <4> QED BY <2>1, <2>2, <4>1
    <3>2. /\ y \in Seq(A)
          /\ Len(y) = (IF 1 <= Len(u) THEN Len(u) - 1 + 1 ELSE 0)
          /\ \A j \in 1..(Len(u) - 1 + 1) : y[j] = x[1 + j - 1]
      BY <3>1, SubSeqProperties
    <3> HIDE DEF y
    <3>3. Len(y) = Len(u) /\ \A j \in 1..Len(y) : y[j] = u[j]
      BY <3>1, <3>2
    <3>4. y = u
      BY <1>6, <3>2, <3>3, SeqEqual
    <3> QED BY <2>3, <3>4 DEF y
  <2>7. Rest(env, x)[k] = Rest(env, w)[1]
    BY SMTT(60), <1>5, <1>6, <2>3, RestShift
  <2> QED BY <2>5, <2>6, <2>7, ExpandedIsRest
<1>9. OnlyMarks(u \o w)
  <2> DEFINE x == u \o w
  <2>1. /\ Len(x) = Len(u) + Len(w) /\ DOMAIN x = 1..Len(x)
        /\ \A j \in 1..(Len(u) + Len(w)) : x[j] = IF j <= Len(u) THEN u[j] ELSE w[j - Len(u)]
    BY <1>5, <1>6, ConcatProperties, LenProperties
  <2>2. /\ Len(t) = e + Len(w) /\ DOMAIN t = 1..Len(t)
        /\ \A j \in 1..(e + Len(w)) : t[j] = IF j <= e THEN h[j] ELSE w[j - e]
    BY <1>5, ConcatProperties, LenProperties
  <2>3. Len(u) \in Nat /\ Len(w) \in Nat /\ e \in Nat
    BY <1>1, <1>5, <1>6, LenProperties
  <2> HIDE DEF x
  <2> SUFFICES ASSUME NEW j \in 1..(Len(u) + Len(w)), x[j] = Dollar
               PROVE  IsAt(x, j, Open)
    BY <2>1 DEF OnlyMarks, x
  <2> DEFINE i == j - Len(u)
  <2>4. i \in 1..Len(w) /\ x[j] = w[i] /\ j = Len(u) + i
    BY <1>6, <2>1, <2>3
  <2> HIDE DEF i
  <2>5. e + i \in 1..Len(t) /\ t[e + i] = w[i]
    <3>1. e + i \in 1..(e + Len(w)) /\ ~(e + i <= e) /\ (e + i) - e = i
      BY <2>3, <2>4
    <3> QED BY <2>2, <3>1
  <2>6. IsAt(t, e + i, Open)
    BY <2>2, <2>4, <2>5 DEF OnlyMarks
  <2>7. i + 1 \in 1..Len(w) /\ t[(e + i) + 1] = w[i + 1]
    <3>1. e + i < e + Len(w)
      BY <2>2, <2>6 DEF IsAt
    <3>2. /\ i + 1 \in 1..Len(w) /\ (e + i) + 1 \in 1..(e + Len(w))
          /\ ~((e + i) + 1 <= e) /\ ((e + i) + 1) - e = i + 1
      BY <2>3, <2>4, <3>1
    <3> QED BY <2>2, <3>2
  <2>8. x[j + 1] = w[i + 1] /\ j < Len(x)
    <3>1. /\ j + 1 \in 1..(Len(u) + Len(w)) /\ ~(j + 1 <= Len(u)) /\ (j + 1) - Len(u) = i + 1
          /\ j < Len(u) + Len(w)
      BY <2>3, <2>4, <2>7
    <3> QED BY <2>1, <3>1
  <2> QED BY <2>4, <2>5, <2>6, <2>7, <2>8 DEF IsAt
<1> QED BY <1>2, <1>7, <1>8, <1>9 DEF u

-----------------------------------------------------------------------------
(* One request and the chain of its key.                                    *)

Decided == {"granted", "refused"}

\* The chain is a sequence, and so are the credentials of its providers, up to
\* the marks that have been replaced in them.
ChainType ==
  /\ given \in Cases
  /\ \E S : chain \in Seq(S)
  /\ DOMAIN entries \subseteq Nat
  /\ \A i \in DOMAIN chain : DOMAIN chain[i].creds \subseteq Nat
  /\ turn \in Nat \ {0}

\* A request meets the whole chain, which does not change any more.
RequestPlace ==
  /\ pc \in {"new", "try", "command"} \cup Decided
  /\ pc # "new" => main = "serving"
  /\ pc = "new" => turn = 1
  /\ given.request.protocol = "s3" => pc \in {"new"} \cup Decided
  /\ pc = "command" => turn \in DOMAIN chain /\ chain[turn].type = "external"

\* The providers that have had their turn do not know the password.
TriedInVain ==
  given.request.protocol = "http" =>
    /\ pc \in {"new", "try", "command"} =>
         \A i \in DOMAIN chain : i < turn => ~Accepts(chain[i], User, Password)
    /\ LocalCredentialSuffices

IInv == ChainType /\ RequestPlace /\ TriedInVain /\ SignatureMeansPassword

-----------------------------------------------------------------------------
\* What the case is allows the rest to be read.
LEMMA CaseOfRequest ==
  ASSUME given \in Cases
  PROVE  /\ Providers \in Seq(Provider)
         /\ given.request.protocol \in {"http", "s3"}
<1> QED BY AuthAssumption DEF Providers

\* Before startup there is no chain and no verdict.
LEMMA InitInv == Init => IInv
<1> SUFFICES ASSUME Init PROVE IInv
  OBVIOUS
<1>1. chain \in Seq({}) /\ DOMAIN chain = {}
  BY EmptySeq DEF Init
<1>2. DOMAIN entries \subseteq Nat
  <2>1. CASE 1 \in DOMAIN Providers
    <3>1. Providers \in Seq(Provider)
      BY CaseOfRequest DEF Init
    <3>2. Providers[1] \in Provider
      BY <2>1, <3>1, ElementOfSeq, LenProperties
    <3>3. Providers[1].creds \in Seq(Credential)
      BY <3>2 DEF Provider
    <3> QED BY <2>1, <3>3, LenProperties DEF Init, NextEntries
  <2>2. CASE 1 \notin DOMAIN Providers
    BY <2>2 DEF Init, NextEntries
  <2> QED BY <2>1, <2>2
<1>3. ChainType
  BY <1>1, <1>2 DEF Init, ChainType
<1> QED BY <1>1, <1>3 DEF Init, IInv, RequestPlace, TriedInVain, LocalCredentialSuffices,
                         SignatureMeansPassword, Decided

\* Startup builds the chain while no request has been looked at.
LEMMA ResolveInv ==
  ASSUME IInv, ResolveExpression
  PROVE  IInv'
<1>1. DOMAIN entries' = DOMAIN entries
  BY DEF ResolveExpression
<1> QED BY <1>1 DEF ResolveExpression, command, IInv, ChainType, RequestPlace, TriedInVain,
  LocalCredentialSuffices, SignatureMeansPassword, User, Password, Decided

\* A provider joins the chain with the credentials that were resolved for it.
LEMMA AddProviderInv ==
  ASSUME IInv, AddProvider
  PROVE  IInv'
<1>1. PICK S : chain \in Seq(S)
  BY DEF IInv, ChainType
<1> DEFINE new == [Entry EXCEPT !.creds = entries]
<1>2. chain' = Append(chain, new) /\ main = "building" /\ Len(chain) < Len(Providers)
  BY DEF AddProvider, Building
<1>3. Providers \in Seq(Provider)
  BY CaseOfRequest DEF IInv, ChainType
<1>4. Entry \in Provider
  BY <1>1, <1>2, <1>3, ElementOfSeq, LenProperties DEF Entry
<1>5. new.creds = entries
  BY <1>4 DEF Provider
<1> HIDE DEF new
<1>6. chain \in Seq(S \cup {new}) /\ new \in S \cup {new}
  BY <1>1
<1>7. /\ chain' \in Seq(S \cup {new})
      /\ DOMAIN chain' = 1..(Len(chain) + 1)
      /\ \A i \in DOMAIN chain : chain'[i] = chain[i]
      /\ chain'[Len(chain) + 1] = new
      /\ DOMAIN chain = 1..Len(chain) /\ Len(chain) \in Nat
  BY <1>2, <1>6, AppendProperties, LenProperties
<1>8. DOMAIN entries' \subseteq Nat
  <2>1. CASE Len(chain) + 2 \in DOMAIN Providers
    <3>1. Providers[Len(chain) + 2] \in Provider
      BY <2>1, <1>3, ElementOfSeq, LenProperties
    <3>2. Providers[Len(chain) + 2].creds \in Seq(Credential)
      BY <3>1 DEF Provider
    <3> QED BY <2>1, <3>2, LenProperties DEF AddProvider, NextEntries
  <2>2. CASE Len(chain) + 2 \notin DOMAIN Providers
    BY <2>2 DEF AddProvider, NextEntries
  <2> QED BY <2>1, <2>2
<1>9. \A i \in DOMAIN chain' : DOMAIN chain'[i].creds \subseteq Nat
  <2>1. TAKE i \in DOMAIN chain'
  <2>2. CASE i \in DOMAIN chain
    BY <2>2, <1>7 DEF IInv, ChainType
  <2>3. CASE i = Len(chain) + 1
    BY <2>3, <1>5, <1>7 DEF IInv, ChainType
  <2> QED BY <1>7, <2>2, <2>3
<1>10. ChainType'
  BY <1>7, <1>8, <1>9 DEF AddProvider, IInv, ChainType
<1>11. pc = "new" /\ turn = 1
  BY <1>2 DEF IInv, RequestPlace
<1> QED BY <1>7, <1>10, <1>11 DEF AddProvider, command, IInv, RequestPlace, TriedInVain,
  LocalCredentialSuffices, SignatureMeansPassword, Decided

\* A provider that does not load, or the end of startup, leaves the chain alone.
LEMMA StartupInv ==
  ASSUME IInv, ProviderFails \/ Serve
  PROVE  IInv'
<1>1. UNCHANGED <<given, entries, chain, pc, turn>> /\ (main = "building" \/ main' = main)
  BY DEF ProviderFails, Serve, Building
<1> QED BY <1>1 DEF ProviderFails, Serve, IInv, ChainType, RequestPlace, TriedInVain, Accepts,
  Listed, Verified, EntriesOf, LocalCredentialSuffices, SignatureMeansPassword, User, Password,
  Decided

-----------------------------------------------------------------------------
\* A secret that a provider exposes for a user is a password it accepts.
LEMMA SecretAccepted ==
  ASSUME IInv, Exposing # {}
  PROVE  \E i \in DOMAIN chain : Accepts(chain[i], User, LookupSecret)
<1> DEFINE i == Min(Exposing)
           p == chain[i]
           own == EntriesOf(p, User)
           j == Min(own)
<1>1. DOMAIN chain \subseteq Nat
  BY LenProperties DEF IInv, ChainType
<1>2. i \in Exposing
  BY <1>1, MinOf DEF Exposing
<1>3. i \in DOMAIN chain /\ Exposes(p, User)
  BY <1>2 DEF Exposing
<1>4. own \subseteq Nat /\ own # {}
  BY <1>3 DEF Exposes, EntriesOf, IInv, ChainType
<1>5. j \in own
  BY <1>4, MinOf
<1>6. LookupSecret = p.creds[j].secret
  BY DEF LookupSecret, SecretOf
<1>7. Listed(p, User, LookupSecret)
  BY <1>5, <1>6 DEF Listed
<1> HIDE DEF i, p
<1> QED BY <1>3, <1>7 DEF p, Accepts, Exposes

\* The verdict over a signature.
LEMMA CheckSignatureInv ==
  ASSUME IInv, CheckSignature
  PROVE  IInv'
<1>1. UNCHANGED <<given, chain, entries, main, turn>> /\ given.request.protocol = "s3"
  BY DEF CheckSignature, Verdict, startup
<1>2. pc' \in Decided /\ main = "serving"
  BY DEF CheckSignature, Verdict, Decided
<1>3. pc' = "granted" => \E i \in DOMAIN chain : Accepts(chain[i], User, Password)
  BY SecretAccepted DEF CheckSignature, Verdict
<1>4. SignatureMeansPassword'
  BY <1>1, <1>3 DEF SignatureMeansPassword, User, Password, Accepts, Listed, Verified, EntriesOf
<1> QED BY <1>1, <1>2, <1>4 DEF IInv, ChainType, RequestPlace, TriedInVain,
  LocalCredentialSuffices, Decided

\* What a chain answers does not change while nothing changes the chain.
LEMMA SameAnswers ==
  ASSUME UNCHANGED <<given, chain>>
  PROVE  /\ DOMAIN chain' = DOMAIN chain
         /\ given'.request.protocol = given.request.protocol
         /\ \A i : Accepts(chain[i], User, Password)' <=> Accepts(chain[i], User, Password)
<1> QED BY DEF User, Password, Accepts, Listed, Verified, EntriesOf

\* A provider that is passed over does not know the password.
LEMMA PassOver ==
  ASSUME IInv, turn \in DOMAIN chain, ~Accepts(chain[turn], User, Password),
         pc \in {"try", "command"}, NextProvider, UNCHANGED <<given, chain, entries, main>>
  PROVE  IInv'
<1>1. turn' = turn + 1 /\ pc' = "try" /\ main = "serving"
      /\ given.request.protocol # "s3"
  BY DEF NextProvider, IInv, RequestPlace, Decided
<1>2. DOMAIN chain \subseteq Nat /\ turn \in Nat
  BY LenProperties DEF IInv, ChainType
<1>3. \A i \in DOMAIN chain : i < turn + 1 => i < turn \/ i = turn
  BY <1>2
<1>4. ChainType'
  BY <1>1, <1>2 DEF IInv, ChainType
<1>5. RequestPlace'
  BY <1>1, <1>2 DEF IInv, RequestPlace, Decided
<1>6. TriedInVain'
  <2>1. given.request.protocol = "http" =>
          \A i \in DOMAIN chain : i < turn + 1 => ~Accepts(chain[i], User, Password)
    BY <1>3 DEF IInv, TriedInVain
  <2> QED BY <1>1, <2>1, SameAnswers DEF TriedInVain, LocalCredentialSuffices
<1>7. SignatureMeansPassword'
  BY <1>1 DEF SignatureMeansPassword
<1> QED BY <1>4, <1>5, <1>6, <1>7 DEF IInv

\* A granted password needs no more of the chain.
LEMMA GrantPassword ==
  ASSUME IInv, Verdict("granted"), given.request.protocol # "s3", main = "serving",
         UNCHANGED <<given, chain, entries, main>>
  PROVE  IInv'
<1>1. pc' = "granted" /\ turn' = turn
  BY DEF Verdict
<1> QED BY <1>1 DEF IInv, ChainType, RequestPlace, TriedInVain, LocalCredentialSuffices,
  SignatureMeansPassword, Decided

\* The steps of a request with a password.
LEMMA AuthenticateInv ==
  ASSUME IInv, Authenticate
  PROVE  IInv'
<1>1. /\ UNCHANGED <<given, chain, entries, main, turn>> /\ given.request.protocol = "http"
      /\ pc = "new" /\ pc' = "try" /\ main = "serving"
  BY DEF Authenticate, startup
<1> QED BY <1>1 DEF IInv, ChainType, RequestPlace, TriedInVain, LocalCredentialSuffices,
  SignatureMeansPassword, User, Password, Accepts, Listed, Verified, EntriesOf, Decided

\* An inline, file or htpasswd provider grants the request or is passed over.
LEMMA TryLocalInv ==
  ASSUME IInv, TryLocal
  PROVE  IInv'
<1>1. /\ UNCHANGED <<given, chain, entries, main>> /\ turn \in DOMAIN chain /\ pc = "try"
      /\ main = "serving" /\ given.request.protocol # "s3"
  BY DEF TryLocal, startup, IInv, RequestPlace, Decided
<1>2. CASE Accepts(Current, User, Password)
  BY <1>1, <1>2, GrantPassword DEF TryLocal
<1>3. CASE ~Accepts(Current, User, Password)
  BY <1>1, <1>3, PassOver DEF TryLocal, Current
<1> QED BY <1>2, <1>3

\* At the end of the chain every provider has been tried.
LEMMA ExhaustedInv ==
  ASSUME IInv, Exhausted
  PROVE  IInv'
<1>1. /\ UNCHANGED <<given, chain, entries, main, turn>> /\ turn > Len(chain) /\ pc = "try"
      /\ pc' = "refused" /\ main = "serving" /\ given.request.protocol # "s3"
  BY DEF Exhausted, Verdict, startup, IInv, RequestPlace, Decided
<1>2. \A i \in DOMAIN chain : i < turn
  BY <1>1, LenProperties DEF IInv, ChainType
<1>3. TriedInVain'
  <2>1. given.request.protocol = "http" =>
          \A i \in DOMAIN chain : ~Accepts(chain[i], User, Password)
    BY <1>1, <1>2 DEF IInv, TriedInVain
  <2> QED BY <1>1, <2>1, SameAnswers DEF TriedInVain, LocalCredentialSuffices
<1> QED BY <1>1, <1>3 DEF IInv, ChainType, RequestPlace, SignatureMeansPassword, Decided

\* A program is started, or passed over because it cannot be.
LEMMA StartProgramInv ==
  ASSUME IInv, StartProgram
  PROVE  IInv'
<1>1. /\ UNCHANGED <<given, chain, entries, main>> /\ turn \in DOMAIN chain /\ pc = "try"
      /\ chain[turn].type = "external" /\ main = "serving"
      /\ given.request.protocol # "s3"
  BY DEF StartProgram, startup, Current, IInv, RequestPlace, Decided
<1>2. CASE pc' = "command" /\ turn' = turn
  BY <1>1, <1>2 DEF IInv, ChainType, RequestPlace, TriedInVain, LocalCredentialSuffices,
     SignatureMeansPassword, User, Password, Accepts, Listed, Verified, EntriesOf, Decided
<1>3. CASE NextProvider
  BY <1>1, <1>3, PassOver DEF Accepts
<1> QED BY <1>2, <1>3 DEF StartProgram

\* An external provider accepts no password by itself, so it may be passed over.
LEMMA ProgramReturnsInv ==
  ASSUME IInv, ProgramReturns
  PROVE  IInv'
<1>1. /\ UNCHANGED <<given, chain, entries, main>> /\ turn \in DOMAIN chain /\ pc = "command"
      /\ chain[turn].type = "external" /\ main = "serving"
      /\ given.request.protocol # "s3"
  BY DEF ProgramReturns, startup, IInv, RequestPlace, Decided
<1>2. CASE Verdict("granted")
  BY <1>1, <1>2, GrantPassword
<1>3. CASE NextProvider
  BY <1>1, <1>3, PassOver DEF Accepts
<1> QED BY <1>2, <1>3 DEF ProgramReturns

\* The program, the clock and the client change nothing the invariant is about.
LEMMA EnvironmentInv ==
  ASSUME IInv, UNCHANGED <<given, main, entries, chain, pc, turn>>
  PROVE  IInv'
<1> QED BY ZenonT(60) DEF IInv, ChainType, RequestPlace, TriedInVain, LocalCredentialSuffices,
  SignatureMeansPassword, User, Password, Accepts, Listed, Verified, EntriesOf, Decided

\* Every step preserves the invariant.
LEMMA NextInv == IInv /\ [Next]_vars => IInv'
<1> SUFFICES ASSUME IInv, [Next]_vars PROVE IInv'
  OBVIOUS
<1>1. CASE Startup
  BY <1>1, ResolveInv, AddProviderInv, StartupInv DEF Startup
<1>2. CASE KillProgram \/ ProgramExits \/ OutputCloses \/ Tick \/ Disconnect \/ UNCHANGED vars
  BY <1>2, EnvironmentInv DEF KillProgram, ProgramExits, OutputCloses, Tick, Disconnect,
     startup, vars
<1>3. CASE Request /\ ~KillProgram
  BY <1>3, CheckSignatureInv, AuthenticateInv, TryLocalInv, ExhaustedInv, StartProgramInv,
     ProgramReturnsInv DEF Request
<1> QED BY <1>1, <1>2, <1>3 DEF Next, Finished, Request

\* At every moment startup, place and outcome of the request fit together.
THEOREM Invariance == Spec => []IInv
<1> QED BY InitInv, NextInv, PTL DEF Spec

\* A right password of a local provider is enough, whatever stands before it.
THEOREM LocalSuffices == Spec => []LocalCredentialSuffices
<1>1. IInv => LocalCredentialSuffices
  BY DEF IInv, TriedInVain, LocalCredentialSuffices
<1> QED BY <1>1, Invariance, PTL

\* Whom a signature lets in, the same chain lets in with the password.
THEOREM SignatureIsPassword == Spec => []SignatureMeansPassword
<1>1. IInv => SignatureMeansPassword
  BY DEF IInv
<1> QED BY <1>1, Invariance, PTL

-----------------------------------------------------------------------------
(* The credentials of the chain.                                            *)

\* What a case is made of.
LEMMA TextsOfCase ==
  ASSUME given \in Cases
  PROVE  /\ User \in Text /\ Password \in Text /\ Values(given.env, STRING)
<1>1. /\ given.request \in [protocol : {"http", "s3"}, user : Text, password : Text]
      /\ \A n \in DOMAIN given.env : given.env[n] \in Text
  BY AuthAssumption
<1> QED BY <1>1 DEF User, Password, Values, Text

\* A text that still reads like u once its expressions are replaced.
SameText(t, u) ==
  OnlyMarks(u) => OnlyMarks(t) /\ Expanded(given.env, t) = Expanded(given.env, u)

\* The credentials of the provider that is being built are those of its entry
\* but for expressions that are replaced already.
Resolving ==
  Building =>
    /\ entries \in Seq(Credential) /\ Len(entries) = Len(Entry.creds)
    /\ PlainEnv /\ Entry.type = "inline" =>
         \A j \in 1..Len(entries) : /\ SameText(entries[j].user, Entry.creds[j].user)
                                    /\ SameText(entries[j].secret, Entry.creds[j].secret)

ResolvedInv == Resolving /\ ResolvedOnce

\* An entry of the key starts with the credentials of the configuration.
LEMMA EntryStarts ==
  ASSUME given \in Cases, NEW n \in 1..Len(Providers)
  PROVE  /\ Providers[n] \in Provider /\ NextEntries(n) = Providers[n].creds
         /\ NextEntries(n) \in Seq(Credential)
<1>1. Providers \in Seq(Provider)
  BY CaseOfRequest
<1>2. Providers[n] \in Provider /\ n \in DOMAIN Providers
  BY <1>1, ElementOfSeq, LenProperties
<1> QED BY <1>2 DEF Provider, NextEntries

\* One turn of the loop replaces a field by a text that reads the same.
LEMMA TurnResolves ==
  ASSUME given \in Cases, NEW t \in Text, Expandable(t)
  PROVE  /\ ExpandOnce(given.env, t) \in Text
         /\ PlainEnv => SameText(ExpandOnce(given.env, t), t)
<1>1. t \in Seq(STRING) /\ Values(given.env, STRING)
  BY TextsOfCase DEF Text
<1>2. ExpandOnce(given.env, t) \in Seq(STRING)
  BY <1>1, ExpandOnceType
<1>3. ASSUME PlainEnv PROVE SameText(ExpandOnce(given.env, t), t)
  <2>1. \A n \in DOMAIN given.env : Dollar \notin ToSet(given.env[n])
    BY <1>3 DEF PlainEnv
  <2> QED BY <1>1, <2>1, ExpandOnceKeeps DEF SameText
<1> QED BY <1>2, <1>3 DEF Text

\* The loop goes on with a provider that reads like its entry.
LEMMA ResolveKeeps ==
  ASSUME IInv, Resolving, ResolveExpression
  PROVE  Resolving'
<1> SUFFICES ASSUME Building
             PROVE  /\ entries' \in Seq(Credential) /\ Len(entries') = Len(Entry.creds)
                    /\ PlainEnv => \A j \in 1..Len(entries') :
                         /\ SameText(entries'[j].user, Entry.creds[j].user)
                         /\ SameText(entries'[j].secret, Entry.creds[j].secret)
  BY DEF ResolveExpression, Resolving, PlainEnv, Building, Entry, Providers, SameText
<1> DEFINE j == Min(Raw)
           c == entries[j]
           d == IF Expandable(c.user) THEN [c EXCEPT !.user = ExpandOnce(given.env, @)]
                                      ELSE [c EXCEPT !.secret = ExpandOnce(given.env, @)]
<1>1. /\ entries \in Seq(Credential) /\ Len(entries) = Len(Entry.creds)
      /\ PlainEnv => \A i \in 1..Len(entries) :
           /\ SameText(entries[i].user, Entry.creds[i].user)
           /\ SameText(entries[i].secret, Entry.creds[i].secret)
  BY DEF Resolving, ResolveExpression
<1>2. DOMAIN entries = 1..Len(entries) /\ Len(entries) \in Nat
  BY <1>1, LenProperties
<1>3. j \in Raw
  <2>1. Raw \in SUBSET Nat /\ Raw # {}
    BY <1>2 DEF Raw, ResolveExpression
  <2> QED BY <2>1, MinOf
<1>4. j \in 1..Len(entries) /\ (Expandable(c.user) \/ Expandable(c.secret))
  BY <1>2, <1>3 DEF Raw
<1>5. c \in Credential /\ c.user \in Text /\ c.secret \in Text
  <2> HIDE DEF j
  <2>1. c \in Credential
    BY <1>1, <1>4, ElementOfSeq
  <2> QED BY <2>1 DEF Credential
<1>6. entries' = [entries EXCEPT ![j] = d]
  <2> HIDE DEF j
  <2>1. CASE Expandable(entries[j].user)
    BY <2>1 DEF ResolveExpression, j
  <2>2. CASE ~Expandable(entries[j].user)
    BY <2>2 DEF ResolveExpression, j
  <2> QED BY <2>1, <2>2
<1> HIDE DEF j
<1>7. d \in Credential /\ (PlainEnv => SameText(d.user, c.user) /\ SameText(d.secret, c.secret))
  <2> HIDE DEF c
  <2>0. given \in Cases
    BY DEF IInv, ChainType
  <2>1. CASE Expandable(c.user)
    <3> DEFINE x == ExpandOnce(given.env, c.user)
    <3>1. x \in Text /\ (PlainEnv => SameText(x, c.user))
      BY <1>5, <2>0, <2>1, TurnResolves
    <3> HIDE DEF x
    <3>2. [c EXCEPT !.user = x] \in Credential
      BY <1>5, <3>1 DEF Credential
    <3>3. [c EXCEPT !.user = x].user = x /\ [c EXCEPT !.user = x].secret = c.secret
      BY <1>5 DEF Credential
    <3>4. d = [c EXCEPT !.user = x]
      BY <2>1 DEF x
    <3> HIDE DEF d
    <3> QED BY <3>1, <3>2, <3>3, <3>4 DEF SameText
  <2>2. CASE ~Expandable(c.user)
    <3> DEFINE x == ExpandOnce(given.env, c.secret)
    <3>0. Expandable(c.secret)
      BY <1>4, <2>2 DEF c
    <3>1. x \in Text /\ (PlainEnv => SameText(x, c.secret))
      BY <1>5, <2>0, <3>0, TurnResolves
    <3> HIDE DEF x
    <3>2. [c EXCEPT !.secret = x] \in Credential
      BY <1>5, <3>1 DEF Credential
    <3>3. [c EXCEPT !.secret = x].secret = x /\ [c EXCEPT !.secret = x].user = c.user
      BY <1>5 DEF Credential
    <3>4. d = [c EXCEPT !.secret = x]
      BY <2>2 DEF x
    <3> HIDE DEF d
    <3> QED BY <3>1, <3>2, <3>3, <3>4 DEF SameText
  <2> QED BY <2>1, <2>2
<1> HIDE DEF d
<1>8. /\ entries' \in Seq(Credential) /\ Len(entries') = Len(entries)
      /\ \A i \in 1..Len(entries) : entries'[i] = IF i = j THEN d ELSE entries[i]
  BY <1>1, <1>4, <1>6, <1>7, ExceptSeq
<1>9. ASSUME PlainEnv, NEW i \in 1..Len(entries)
      PROVE  /\ SameText(entries'[i].user, Entry.creds[i].user)
             /\ SameText(entries'[i].secret, Entry.creds[i].secret)
  <2>1. CASE i = j
    BY <1>1, <1>7, <1>8, <1>9, <2>1 DEF SameText, c
  <2>2. CASE i # j
    BY <1>1, <1>8, <1>9, <2>2
  <2> QED BY <2>1, <2>2
<1> QED BY <1>1, <1>8, <1>9

\* A credential without an expression reads like itself.
LEMMA DoneText ==
  ASSUME given \in Cases, NEW t \in Text, NEW u, ~Expandable(t), SameText(t, u), OnlyMarks(u)
  PROVE  t = Expanded(given.env, u)
<1>1. t \in Seq(STRING) /\ Values(given.env, STRING)
  BY TextsOfCase DEF Text
<1>2. Expanded(given.env, t) = t
  BY <1>1, ExpandedPlain
<1> QED BY <1>2 DEF SameText

\* The credentials d of a chain are those of the entry c with every expression
\* replaced.
Replaced(d, c) ==
  \A j \in DOMAIN c :
    /\ OnlyMarks(c[j].user) => d[j].user = Expanded(given.env, c[j].user)
    /\ OnlyMarks(c[j].secret) => d[j].secret = Expanded(given.env, c[j].secret)

\* An inline provider that holds no expression any more is resolved.
LEMMA EntriesResolved ==
  ASSUME given \in Cases, PlainEnv, Resolving, Building, Entry.type = "inline",
         Entry.creds \in Seq(Credential), Raw = {}
  PROVE  Replaced(entries, Entry.creds)
<1>1. /\ entries \in Seq(Credential) /\ Len(entries) = Len(Entry.creds)
      /\ \A j \in 1..Len(entries) : /\ SameText(entries[j].user, Entry.creds[j].user)
                                    /\ SameText(entries[j].secret, Entry.creds[j].secret)
  BY DEF Resolving
<1>2. DOMAIN entries = 1..Len(entries) /\ DOMAIN Entry.creds = 1..Len(entries)
  BY <1>1, LenProperties
<1> SUFFICES ASSUME NEW j \in 1..Len(entries)
             PROVE  LET c == Entry.creds[j]
                    IN  /\ OnlyMarks(c.user) => entries[j].user = Expanded(given.env, c.user)
                        /\ OnlyMarks(c.secret) =>
                             entries[j].secret = Expanded(given.env, c.secret)
  BY <1>2 DEF Replaced
<1>3. entries[j] \in Credential
  BY <1>1, ElementOfSeq
<1>4. entries[j].user \in Text /\ entries[j].secret \in Text
  BY <1>3 DEF Credential
<1>5. ~Expandable(entries[j].user) /\ ~Expandable(entries[j].secret)
  BY <1>2 DEF Raw
<1> QED BY <1>1, <1>4, <1>5, DoneText

\* The next provider of the chain is the resolved one, and the next entry is
\* begun with what the configuration says.
LEMMA AddProviderKeeps ==
  ASSUME IInv, ResolvedInv, AddProvider
  PROVE  ResolvedInv'
<1>1. PICK S : chain \in Seq(S)
  BY DEF IInv, ChainType
<1> DEFINE new == [Entry EXCEPT !.creds = entries]
           n == Len(chain)
<1>2. /\ chain' = Append(chain, new) /\ n < Len(Providers) /\ Building
      /\ entries' = NextEntries(n + 2) /\ UNCHANGED <<given, main>>
  BY DEF AddProvider, Building
<1>3. given \in Cases /\ n \in Nat /\ Len(Providers) \in Nat /\ DOMAIN chain = 1..n
  <2>1. given \in Cases
    BY DEF IInv, ChainType
  <2>2. Providers \in Seq(Provider)
    BY <2>1, CaseOfRequest
  <2> QED BY <1>1, <2>1, <2>2, LenProperties
<1>4. Entry \in Provider /\ Entry = Providers[n + 1]
  <2>1. n + 1 \in 1..Len(Providers)
    BY <1>2, <1>3
  <2> HIDE DEF n
  <2> QED BY <1>3, <2>1, EntryStarts DEF Entry, n
<1>5. new.creds = entries
  BY <1>4 DEF Provider
<1> HIDE DEF new
<1>6. /\ Len(chain') = n + 1 /\ DOMAIN chain' = 1..(n + 1)
      /\ \A i \in 1..n : chain'[i] = chain[i]
      /\ chain'[n + 1] = new
  <2>1. chain \in Seq(S \cup {new}) /\ new \in S \cup {new}
    BY <1>1
  <2>2. chain' \in Seq(S \cup {new})
    BY <1>2, <2>1, AppendProperties
  <2> QED BY <1>2, <2>1, <2>2, AppendProperties, LenProperties
<1> HIDE DEF n
<1>7. PlainEnv' = PlainEnv /\ Providers' = Providers
  BY <1>2 DEF PlainEnv, Providers
<1>8. Resolving'
  <2> SUFFICES ASSUME Building'
               PROVE  /\ entries' \in Seq(Credential) /\ Len(entries') = Len(Entry'.creds)
                      /\ \A j \in 1..Len(entries') :
                           /\ SameText(entries'[j].user, Entry'.creds[j].user)
                           /\ SameText(entries'[j].secret, Entry'.creds[j].secret)
    BY <1>2, <1>7 DEF Resolving, SameText
  <2>1. n + 2 \in 1..Len(Providers) /\ (n + 1) + 1 = n + 2
    BY <1>3, <1>6, <1>7 DEF Building
  <2>2. Entry' = Providers[n + 2]
    BY <1>6, <1>7, <2>1 DEF Entry
  <2>3. entries' = Providers[n + 2].creds /\ entries' \in Seq(Credential)
    BY <1>2, <1>3, <2>1, EntryStarts
  <2> QED BY <2>2, <2>3 DEF SameText
<1>9. ResolvedOnce'
  <2> SUFFICES ASSUME PlainEnv, NEW i \in DOMAIN chain', Providers[i].type = "inline"
               PROVE  Replaced(chain'[i].creds, Providers[i].creds)
    BY <1>2, <1>7 DEF ResolvedOnce, Replaced
  <2>1. CASE i \in 1..n
    BY <1>3, <1>6, <2>1 DEF ResolvedInv, ResolvedOnce, Replaced
  <2>2. CASE i = n + 1
    <3>1. Entry.type = "inline" /\ Raw = {} /\ Entry.creds \in Seq(Credential)
      BY <1>4, <2>2 DEF AddProvider, Provider
    <3>2. Replaced(entries, Entry.creds)
      BY <1>2, <1>3, <3>1, EntriesResolved DEF ResolvedInv
    <3> QED BY <1>4, <1>5, <1>6, <2>2, <3>2
  <2> QED BY <1>3, <1>6, <2>1, <2>2
<1> QED BY <1>8, <1>9 DEF ResolvedInv

\* At the beginning the first entry is begun.
LEMMA ResolvedInit == Init => ResolvedInv
<1> SUFFICES ASSUME Init PROVE ResolvedInv
  OBVIOUS
<1>1. DOMAIN chain = {} /\ Len(chain) = 0 /\ given \in Cases
  <2>1. chain \in Seq({}) /\ chain = <<>>
    BY EmptySeq DEF Init
  <2>2. Len(chain) = 0
    BY <2>1
  <2> QED BY <2>1, <2>2, LenProperties DEF Init
<1>2. ResolvedOnce
  BY <1>1 DEF ResolvedOnce
<1>3. Resolving
  <2> SUFFICES ASSUME Building
               PROVE  entries \in Seq(Credential) /\ entries = Entry.creds
    BY DEF Resolving, SameText
  <2>1. Len(Providers) \in Nat
    BY <1>1, CaseOfRequest, LenProperties
  <2>2. 1 \in 1..Len(Providers) /\ Entry = Providers[1]
    BY <1>1, <2>1 DEF Building, Entry
  <2>3. entries = NextEntries(1)
    BY DEF Init
  <2> QED BY <1>1, <2>2, <2>3, EntryStarts
<1> QED BY <1>2, <1>3 DEF ResolvedInv

\* After startup the chain stays as it is.
LEMMA ChainKeeps ==
  ASSUME ResolvedInv, UNCHANGED <<given, entries, chain>>, Building' => Building
  PROVE  ResolvedInv'
<1> QED BY DEF ResolvedInv, Resolving, ResolvedOnce, PlainEnv, Entry, Providers, SameText

\* Every step keeps what is resolved.
LEMMA ResolvedStep == IInv /\ ResolvedInv /\ [Next]_vars => ResolvedInv'
<1> SUFFICES ASSUME IInv, ResolvedInv, [Next]_vars PROVE ResolvedInv'
  OBVIOUS
<1>1. CASE ResolveExpression
  <2>1. Resolving'
    BY <1>1, ResolveKeeps DEF ResolvedInv
  <2>2. ResolvedOnce'
    BY <1>1 DEF ResolveExpression, ResolvedInv, ResolvedOnce, PlainEnv, Providers
  <2> QED BY <2>1, <2>2 DEF ResolvedInv
<1>2. CASE AddProvider
  BY <1>2, AddProviderKeeps
<1>3. CASE ProviderFails \/ Serve
  BY <1>3, ChainKeeps DEF ProviderFails, Serve, Building, Providers
<1>4. CASE UNCHANGED startup
  BY <1>4, ChainKeeps DEF startup, Building, Providers
<1>5. CASE Request \/ ProgramExits \/ OutputCloses \/ Tick \/ Disconnect \/ UNCHANGED vars
  BY <1>4, <1>5 DEF Request, CheckSignature, Authenticate, TryLocal, Exhausted, StartProgram,
     KillProgram, ProgramReturns, ProgramExits, OutputCloses, Tick, Disconnect, startup, vars
<1> QED BY <1>1, <1>2, <1>3, <1>5 DEF Next, Startup, Finished

\* Where dollar signs stand in marks only, and in no value of the environment,
\* every inline provider of the chain has the credentials of its entry with each
\* expression replaced exactly once.
THEOREM Resolved == Spec => []ResolvedOnce
<1>1. ResolvedInv => ResolvedOnce
  BY DEF ResolvedInv
<1> QED BY <1>1, ResolvedInit, ResolvedStep, Invariance, PTL DEF Spec

-----------------------------------------------------------------------------
(* Types.                                                                   *)

\* A provider of the chain is an entry with other credentials.
LEMMA ChainTyped ==
  ASSUME IInv, ResolvedInv, AddProvider, TypeOK
  PROVE  chain' \in Seq(Provider) /\ Len(chain') = Len(chain) + 1 /\ Len(chain') <= Len(Providers)
<1> DEFINE new == [Entry EXCEPT !.creds = entries]
<1>1. chain' = Append(chain, new) /\ Len(chain) < Len(Providers) /\ Building
  BY DEF AddProvider, Building
<1>2. given \in Cases /\ Len(chain) \in Nat /\ Len(Providers) \in Nat /\ chain \in Seq(Provider)
  <2>1. given \in Cases /\ chain \in Seq(Provider)
    BY DEF TypeOK
  <2> QED BY <2>1, CaseOfRequest, LenProperties
<1>3. Entry \in Provider
  <2>1. Len(chain) + 1 \in 1..Len(Providers)
    BY <1>1, <1>2
  <2> QED BY <1>2, <2>1, EntryStarts DEF Entry
<1>4. entries \in Seq(Credential)
  BY <1>1 DEF ResolvedInv, Resolving
<1>5. new \in Provider
  <2> HIDE DEF Entry
  <2> QED BY <1>3, <1>4 DEF Provider
<1> HIDE DEF new
<1>6. chain' \in Seq(Provider) /\ Len(chain') = Len(chain) + 1
  BY <1>1, <1>2, <1>5, AppendProperties
<1> QED BY <1>1, <1>2, <1>6

\* A step keeps the types.
LEMMA TypeStep == IInv /\ ResolvedInv /\ TypeOK /\ [Next]_vars => TypeOK'
<1> SUFFICES ASSUME IInv, ResolvedInv, TypeOK, [Next]_vars PROVE TypeOK'
  OBVIOUS
<1>0. Len(chain) \in Nat /\ Len(Providers) \in Nat /\ DOMAIN chain = 1..Len(chain)
      /\ Len(chain) <= Len(Providers)
  BY CaseOfRequest, LenProperties DEF TypeOK
<1>1. turn \in DOMAIN chain => turn + 1 \in 1..(Len(Providers) + 1)
  BY <1>0
<1>2. CASE AddProvider
  <2>1. UNCHANGED <<given, main, pc, turn, gone, program, output, elapsed>>
    BY <1>2 DEF AddProvider, command
  <2> QED BY <1>2, <2>1, ChainTyped DEF TypeOK, Providers
<1>3. CASE ResolveExpression \/ ProviderFails \/ Serve
  BY <1>3 DEF TypeOK, ResolveExpression, ProviderFails, Serve, Providers, command
<1>4. CASE CheckSignature \/ Authenticate \/ Exhausted
  BY <1>4 DEF TypeOK, CheckSignature, Authenticate, Exhausted, Verdict, Providers, command, startup
<1>5. CASE TryLocal
  BY <1>1, <1>5 DEF TypeOK, TryLocal, Verdict, NextProvider, Providers, command, startup
<1>6. CASE StartProgram
  <2>1. UNCHANGED <<given, main, entries, chain, gone>>
    BY <1>6 DEF StartProgram, startup
  <2>2. pc' \in {"try", "command"} /\ turn' \in 1..(Len(Providers) + 1)
    BY <1>1, <1>6 DEF TypeOK, StartProgram, NextProvider
  <2>3. CASE NextProvider /\ UNCHANGED command
    BY <2>1, <2>2, <2>3 DEF TypeOK, Providers, command
  <2>4. CASE program' = "running" /\ output' = TRUE /\ elapsed' = 0
    BY <2>1, <2>2, <2>4 DEF TypeOK, Providers
  <2> QED BY <1>6, <2>3, <2>4 DEF StartProgram
<1>7. CASE ProgramReturns
  <2>1. turn \in DOMAIN chain
    BY <1>7 DEF ProgramReturns, IInv, RequestPlace
  <2> QED BY <1>1, <1>7, <2>1 DEF TypeOK, ProgramReturns, Verdict, NextProvider, Providers, startup
<1>8. CASE KillProgram \/ ProgramExits \/ OutputCloses \/ Tick \/ Disconnect
  <2>1. UNCHANGED <<given, main, chain, pc, turn>>
    BY <1>8 DEF KillProgram, ProgramExits, OutputCloses, Tick, Disconnect, startup
  <2>2. CASE KillProgram \/ ProgramExits
    BY <2>1, <2>2 DEF TypeOK, KillProgram, ProgramExits, Providers
  <2>3. CASE OutputCloses
    BY <2>1, <2>3 DEF TypeOK, OutputCloses, Providers
  <2>4. CASE Tick
    BY <2>1, <2>4 DEF TypeOK, Tick, Providers
  <2>5. CASE Disconnect
    BY <2>1, <2>5 DEF TypeOK, Disconnect, Providers, command
  <2> QED BY <1>8, <2>2, <2>3, <2>4, <2>5
<1>9. CASE UNCHANGED vars
  BY <1>9 DEF TypeOK, Providers, vars
<1> QED BY <1>2, <1>3, <1>4, <1>5, <1>6, <1>7, <1>8, <1>9 DEF Next, Startup, Request, Finished

\* Every reachable state is well typed, for chains of every length: a request
\* never looks for a provider behind the end of the chain but one.
THEOREM TypeCorrect == Spec => []TypeOK
<1>1. Init => TypeOK
  <2> SUFFICES ASSUME Init PROVE TypeOK
    OBVIOUS
  <2>1. chain \in Seq(Provider) /\ Len(chain) = 0
    BY EmptySeq DEF Init
  <2>2. Len(Providers) \in Nat
    BY CaseOfRequest, LenProperties DEF Init
  <2>3. turn \in 1..(Len(Providers) + 1) /\ Len(chain) <= Len(Providers)
    BY <2>1, <2>2 DEF Init
  <2>4. gone \in BOOLEAN /\ output \in BOOLEAN
    BY Zenon DEF Init
  <2> QED BY <2>1, <2>3, <2>4 DEF Init, TypeOK
<1> QED BY <1>1, TypeStep, ResolvedInit, ResolvedStep, Invariance, PTL DEF Spec
=============================================================================
