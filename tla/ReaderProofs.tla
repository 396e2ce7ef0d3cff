---------------------------- MODULE ReaderProofs ----------------------------
(***************************************************************************)
(* Proofs about AssembledReader for every list of parts, every slice and   *)
(* offset and every order in which parts are closed: reads are reads of    *)
(* one contiguous body, and the end of file is reported at its end.        *)
(*                                                                         *)
(* Content is a recursive function over the parts.  Induction is over sets *)
(* of numbers: a set that holds 0 and with each number the next one holds  *)
(* all of them.                                                            *)
(***************************************************************************)
EXTENDS AssembledReader, Integers, WellFoundedInduction, TLAPS

-----------------------------------------------------------------------------
(* Induction, and the function behind FlattenSeq.                           *)

\* A set of numbers that is not empty has a smallest one.
LEMMA Smallest ==
  ASSUME NEW T \in SUBSET Nat, T # {}
  PROVE  \E x \in T : \A y \in T : ~(y < x)
<1>1. \E x \in T : \A y \in T : ~(<<y, x>> \in OpToRel(<, Nat))
  BY NatLessThanWellFounded, WFMin, Zenon
<1> QED BY <1>1 DEF OpToRel

\* Induction over the numbers of a set.
LEMMA SetInduction ==
  ASSUME NEW T, 0 \in T, \A n \in Nat : n \in T => n + 1 \in T
  PROVE  Nat \subseteq T
<1> SUFFICES ASSUME Nat \ T # {} PROVE FALSE
  OBVIOUS
<1>1. PICK x \in Nat \ T : \A y \in Nat \ T : ~(y < x)
  BY Smallest
<1>2. x - 1 \in Nat /\ x - 1 \in T
  BY <1>1
<1> QED BY <1>1, <1>2

\* What FlattenSeq has joined when it is through with the first n sequences.
Step(s, f, k) == IF k = 1 THEN s[k] ELSE f[k - 1] \o s[k]
Joined(s) == CHOOSE f : f = [k \in 1..Len(s) |-> Step(s, f, k)]

LEMMA JoinedExists ==
  ASSUME NEW s, Len(s) \in Nat
  PROVE  Joined(s) = [k \in 1..Len(s) |-> Step(s, Joined(s), k)]
<1> DEFINE T == {n \in Nat : \E f : f = [k \in 1..n |-> Step(s, f, k)]}
<1>1. 0 \in T
  <2> DEFINE f == [k \in 1..0 |-> 0]
  <2>1. f = [k \in 1..0 |-> Step(s, f, k)]
    OBVIOUS
  <2> QED BY <2>1
<1>2. ASSUME NEW n \in Nat, n \in T PROVE n + 1 \in T
  <2>1. PICK f : f = [k \in 1..n |-> Step(s, f, k)]
    BY <1>2
  <2> DEFINE g == [k \in 1..(n + 1) |-> IF k = n + 1 THEN Step(s, f, k) ELSE f[k]]
             h == [k \in 1..(n + 1) |-> Step(s, g, k)]
  <2>2. ASSUME NEW k \in 1..(n + 1) PROVE g[k] = h[k]
    <3>1. k # 1 => k - 1 \in 1..n /\ g[k - 1] = f[k - 1]
      OBVIOUS
    <3>2. Step(s, g, k) = Step(s, f, k)
      BY <3>1 DEF Step
    <3>3. k # n + 1 => f[k] = Step(s, f, k)
      BY <2>1
    <3> QED BY <3>2, <3>3
  <2>3. g = [k \in 1..(n + 1) |-> Step(s, g, k)]
    BY <2>2
  <2>4. n + 1 \in Nat
    OBVIOUS
  <2> HIDE DEF g
  <2>5. \E e : e = [k \in 1..(n + 1) |-> Step(s, e, k)]
    BY <2>3, Zenon
  <2> QED BY <2>4, <2>5, Zenon
<1>3. Len(s) \in T
  <2> HIDE DEF T
  <2> QED BY <1>1, <1>2, SetInduction
<1> QED BY <1>3 DEF Joined

\* One step of it.
LEMMA JoinedStep ==
  ASSUME NEW s, Len(s) \in Nat, NEW k \in 1..Len(s)
  PROVE  Joined(s)[k] = IF k = 1 THEN s[1] ELSE Joined(s)[k - 1] \o s[k]
<1> DEFINE J == Joined(s)
<1>1. J = [n \in 1..Len(s) |-> Step(s, J, n)]
  BY JoinedExists
<1> HIDE DEF J
<1>2. J[k] = Step(s, J, k)
  BY <1>1
<1> QED BY <1>2 DEF J, Step

\* What comes before the k-th of the sequences.
Before(s, k) == IF k = 1 THEN <<>> ELSE Joined(s)[k - 1]

\* FlattenSeq returns what comes before the end.
LEMMA FlattenIsBefore ==
  ASSUME NEW S, NEW s \in Seq(Seq(S))
  PROVE  FlattenSeq(s) = Before(s, Len(s) + 1)
<1>1. CASE Len(s) = 0
  BY <1>1 DEF FlattenSeq, Before
<1>2. CASE Len(s) # 0
  <2>1. FlattenSeq(s) = Joined(s)[Len(s)]
    BY <1>2, Zenon DEF FlattenSeq, Joined, Step
  <2> QED BY <1>2, <2>1 DEF Before
<1> QED BY <1>1, <1>2

LEMMA ConcatType ==
  ASSUME NEW S, NEW s \in Seq(S), NEW t \in Seq(S)
  PROVE  s \o t \in Seq(S)
OBVIOUS

LEMMA BeforeStep ==
  ASSUME NEW S, NEW s \in Seq(Seq(S)), NEW k \in 1..Len(s)
  PROVE  /\ k = 1 => Before(s, k + 1) = s[k]
         /\ k # 1 => Before(s, k + 1) = Before(s, k) \o s[k]
<1>1. Len(s) \in Nat /\ k + 1 # 1 /\ k + 1 - 1 = k
  OBVIOUS
<1>2. Joined(s)[k] = IF k = 1 THEN s[1] ELSE Joined(s)[k - 1] \o s[k]
  BY <1>1, JoinedStep
<1>3. Before(s, k + 1) = Joined(s)[k]
  <2> DEFINE m == k + 1
  <2>1. m # 1 /\ m - 1 = k
    BY <1>1
  <2> HIDE DEF m
  <2>2. Before(s, m) = Joined(s)[m - 1]
    BY <2>1, Zenon DEF Before
  <2>3. Before(s, m) = Joined(s)[k]
    BY <2>1, <2>2
  <2> QED BY <2>3 DEF m
<1>4. k # 1 => Before(s, k) = Joined(s)[k - 1]
  BY Zenon DEF Before
<1> QED BY <1>2, <1>3, <1>4

\* The k-th sequence begins behind what comes before it.
LEMMA BeforeType ==
  ASSUME NEW S, NEW s \in Seq(Seq(S))
  PROVE  \A k \in 1..(Len(s) + 1) : Before(s, k) \in Seq(S)
<1> DEFINE T == {n \in Nat : n <= Len(s) => Before(s, n + 1) \in Seq(S)}
<1>1. 0 \in T
  BY DEF Before
<1>2. ASSUME NEW n \in Nat, n \in T PROVE n + 1 \in T
  <2> SUFFICES ASSUME n + 1 <= Len(s) PROVE Before(s, n + 1 + 1) \in Seq(S)
    OBVIOUS
  <2>1. n + 1 \in 1..Len(s) /\ s[n + 1] \in Seq(S) /\ Before(s, n + 1) \in Seq(S)
    BY <1>2
  <2>2. /\ n + 1 = 1 => Before(s, n + 1 + 1) = s[n + 1]
        /\ n + 1 # 1 => Before(s, n + 1 + 1) = Before(s, n + 1) \o s[n + 1]
    <3> DEFINE m == n + 1
    <3>1. m \in 1..Len(s)
      BY <2>1
    <3> HIDE DEF m
    <3>2. /\ m = 1 => Before(s, m + 1) = s[m]
          /\ m # 1 => Before(s, m + 1) = Before(s, m) \o s[m]
      BY <3>1, BeforeStep
    <3> QED BY <3>2 DEF m
  <2> QED BY <2>1, <2>2, ConcatType
<1>3. Nat \subseteq T
  <2> HIDE DEF T
  <2> QED BY <1>1, <1>2, SetInduction
<1>4. ASSUME NEW k \in 1..(Len(s) + 1) PROVE Before(s, k) \in Seq(S)
  <2>1. k - 1 \in Nat /\ k - 1 <= Len(s) /\ k - 1 + 1 = k
    OBVIOUS
  <2>2. k - 1 \in T
    BY <1>3, <2>1
  <2> QED BY <2>1, <2>2
<1> QED BY <1>4

\* Where the k-th sequence lies within all of them.
LEMMA Placed ==
  ASSUME NEW S, NEW s \in Seq(Seq(S)), NEW k \in 1..Len(s)
  PROVE  /\ Before(s, k) \in Seq(S) /\ Before(s, k + 1) \in Seq(S)
         /\ Len(Before(s, k + 1)) = Len(Before(s, k)) + Len(s[k])
         /\ \A x \in 1..Len(Before(s, k)) : Before(s, k + 1)[x] = Before(s, k)[x]
         /\ \A x \in 1..Len(s[k]) :
              Before(s, k + 1)[Len(Before(s, k)) + x] = s[k][x]
<1>1. /\ k = 1 => Before(s, k + 1) = s[k]
      /\ k # 1 => Before(s, k + 1) = Before(s, k) \o s[k]
  BY BeforeStep
<1>2. Before(s, k) \in Seq(S) /\ Before(s, k + 1) \in Seq(S)
  <2>1. k \in 1..(Len(s) + 1) /\ k + 1 \in 1..(Len(s) + 1)
    OBVIOUS
  <2> QED BY <2>1, BeforeType
<1>3. s[k] \in Seq(S)
  OBVIOUS
<1>4. CASE k = 1
  <2>1. Before(s, k) = <<>>
    BY <1>4 DEF Before
  <2> QED BY <1>1, <1>2, <1>3, <1>4, <2>1
<1>5. CASE k # 1
  <2> DEFINE b == Before(s, k)
             c == Before(s, k + 1)
  <2>1. c = b \o s[k] /\ b \in Seq(S)
    BY <1>1, <1>2, <1>5
  <2> HIDE DEF b, c
  <2>2. Len(c) = Len(b) + Len(s[k])
    BY <1>3, <2>1
  <2>3. \A x \in 1..Len(b) : c[x] = b[x]
    BY <1>3, <2>1
  <2>4. \A x \in 1..Len(s[k]) : c[Len(b) + x] = s[k][x]
    BY <1>3, <2>1
  <2> QED BY <1>2, <2>2, <2>3, <2>4 DEF b, c
<1> QED BY <1>4, <1>5

\* What comes before a sequence is a prefix of what FlattenSeq returns.
LEMMA BeforeIsPrefix ==
  ASSUME NEW S, NEW s \in Seq(Seq(S))
  PROVE  \A k \in 1..(Len(s) + 1) :
           /\ Len(Before(s, k)) <= Len(FlattenSeq(s))
           /\ \A x \in 1..Len(Before(s, k)) : FlattenSeq(s)[x] = Before(s, k)[x]
<1> DEFINE Prefix(k) ==
             /\ Len(Before(s, k)) <= Len(FlattenSeq(s))
             /\ \A x \in 1..Len(Before(s, k)) : FlattenSeq(s)[x] = Before(s, k)[x]
           T == {d \in Nat : \A k \in 1..(Len(s) + 1) : k + d = Len(s) + 1 => Prefix(k)}
<1>0. Len(s) \in Nat
  OBVIOUS
<1>1. 0 \in T
  <2>1. FlattenSeq(s) = Before(s, Len(s) + 1)
    BY FlattenIsBefore
  <2>2. Before(s, Len(s) + 1) \in Seq(S)
    <3>1. Len(s) + 1 \in 1..(Len(s) + 1)
      BY <1>0
    <3> QED BY <3>1, BeforeType
  <2>3. Prefix(Len(s) + 1)
    BY <2>1, <2>2
  <2>4. ASSUME NEW k \in 1..(Len(s) + 1), k + 0 = Len(s) + 1 PROVE Prefix(k)
    <3>1. k = Len(s) + 1
      BY <1>0, <2>4
    <3> HIDE DEF Prefix
    <3> QED BY <2>3, <3>1
  <2> HIDE DEF Prefix
  <2> QED BY <2>4
<1>2. ASSUME NEW d \in Nat, d \in T,
             NEW k \in 1..(Len(s) + 1), k + (d + 1) = Len(s) + 1
      PROVE  Prefix(k)
  <2>1. k \in 1..Len(s) /\ k + 1 \in 1..(Len(s) + 1) /\ (k + 1) + d = Len(s) + 1
    BY <1>0, <1>2
  <2>2. Prefix(k + 1)
    <3> HIDE DEF Prefix
    <3> QED BY <1>2, <2>1
  <2> DEFINE b == Before(s, k)
             c == Before(s, k + 1)
             f == FlattenSeq(s)
  <2>3. /\ b \in Seq(S) /\ c \in Seq(S) /\ s[k] \in Seq(S)
        /\ Len(c) = Len(b) + Len(s[k])
        /\ \A x \in 1..Len(b) : c[x] = b[x]
    <3>1. k \in 1..Len(s)
      BY <2>1
    <3>2. s[k] \in Seq(S)
      BY <3>1
    <3> QED BY <3>1, <3>2, Placed, ZenonT(60)
  <2>4. Len(c) <= Len(f) /\ \A x \in 1..Len(c) : f[x] = c[x]
    BY <2>2
  <2>5. Len(f) \in Int
    <3>1. FlattenSeq(s) = Before(s, Len(s) + 1)
      BY FlattenIsBefore
    <3>2. Len(s) + 1 \in 1..(Len(s) + 1)
      BY <1>0
    <3> QED BY <3>1, <3>2, BeforeType
  <2> HIDE DEF b, c, f
  <2>6. Len(b) <= Len(f) /\ \A x \in 1..Len(b) : f[x] = b[x]
    BY <2>3, <2>4, <2>5
  <2> QED BY <2>6 DEF b, f
<1>3. Nat \subseteq T
  <2> HIDE DEF Prefix
  <2>1. ASSUME NEW d \in Nat, d \in T PROVE d + 1 \in T
    <3>1. \A k \in 1..(Len(s) + 1) : k + (d + 1) = Len(s) + 1 => Prefix(k)
      BY <1>2, <2>1, Zenon
    <3>2. d + 1 \in Nat
      OBVIOUS
    <3> QED BY <3>1, <3>2, Zenon
  <2> HIDE DEF T
  <2> QED BY <1>1, <2>1, SetInduction
<1>4. ASSUME NEW k \in 1..(Len(s) + 1) PROVE Prefix(k)
  <2>1. Len(s) + 1 - k \in Nat /\ k + (Len(s) + 1 - k) = Len(s) + 1
    BY <1>0
  <2>2. Len(s) + 1 - k \in T
    BY <1>3, <2>1
  <2> HIDE DEF Prefix
  <2> QED BY <2>1, <2>2
<1> QED BY <1>4

-----------------------------------------------------------------------------
(* The content of a list of parts.                                          *)

Datas == [k \in DOMAIN parts |-> parts[k].data]

\* The offset at which a part begins.
StartOf(k) == Len(Before(Datas, k))

\* A run of bytes that stands in the content behind an offset.
StandsAt(bytes, p) ==
  \A k \in 1..Len(bytes) : p + k <= Size /\ bytes[k] = Content[p + k]

LEMMA DatasType ==
  ASSUME parts \in PartLists
  PROVE  /\ Datas \in Seq(Seq(Byte)) /\ Len(Datas) = Len(parts) /\ Len(parts) \in Nat
         /\ DOMAIN parts = 1..Len(parts)
         /\ \A k \in 1..Len(parts) :
              parts[k] \in Part /\ Datas[k] = parts[k].data /\ SizeOf(k) = Len(Datas[k])
<1>1. parts \in Seq(Part)
  BY AssembledAssumption
<1>2. /\ Len(parts) \in Nat /\ DOMAIN parts = 1..Len(parts)
      /\ \A k \in 1..Len(parts) : parts[k] \in Part
  BY <1>1
<1>3. \A k \in 1..Len(parts) : parts[k].data \in Seq(Byte)
  BY <1>2 DEF Part
<1>4. Datas = [k \in 1..Len(parts) |-> parts[k].data]
  BY <1>2 DEF Datas
<1>5. Datas \in Seq(Seq(Byte)) /\ Len(Datas) = Len(parts)
  BY <1>2, <1>3, <1>4
<1> QED BY <1>2, <1>4, <1>5 DEF SizeOf

\* The parts follow each other without a gap and fill the content.
LEMMA PartsInContent ==
  ASSUME parts \in PartLists
  PROVE  /\ Content \in Seq(Byte) /\ Size \in Nat
         /\ StartOf(1) = 0 /\ StartOf(Len(parts) + 1) = Size
         /\ \A k \in 1..Len(parts) :
              /\ StartOf(k) \in Nat /\ SizeOf(k) \in Nat
              /\ StartOf(k + 1) = StartOf(k) + SizeOf(k)
              /\ StartOf(k + 1) <= Size
              /\ \A x \in 1..SizeOf(k) : Content[StartOf(k) + x] = parts[k].data[x]
<1> DEFINE D == Datas
           F == FlattenSeq(D)
<1>1. Content = F
  BY DEF Content, Datas
<1>2. /\ D \in Seq(Seq(Byte)) /\ Len(D) = Len(parts) /\ Len(parts) \in Nat
      /\ \A k \in 1..Len(parts) : D[k] = parts[k].data /\ SizeOf(k) = Len(D[k])
  BY DatasType
<1> HIDE DEF D
<1>3. F = Before(D, Len(D) + 1)
  BY <1>2, FlattenIsBefore
<1>4. F \in Seq(Byte) /\ Len(F) \in Nat
  <2>1. Len(D) + 1 \in 1..(Len(D) + 1)
    BY <1>2
  <2>2. Before(D, Len(D) + 1) \in Seq(Byte)
    BY <1>2, <2>1, BeforeType
  <2> QED BY <1>3, <2>2
<1>5. Len(Before(D, 1)) = 0
  BY DEF Before
<1>6. ASSUME NEW k \in 1..Len(parts)
      PROVE  /\ Len(Before(D, k)) \in Nat /\ Len(D[k]) \in Nat
             /\ Len(Before(D, k + 1)) = Len(Before(D, k)) + Len(D[k])
             /\ Len(Before(D, k + 1)) <= Len(F)
             /\ \A x \in 1..Len(D[k]) : F[Len(Before(D, k)) + x] = D[k][x]
  <2> DEFINE b == Before(D, k)
             c == Before(D, k + 1)
  <2>1. k \in 1..Len(D) /\ D[k] \in Seq(Byte)
    BY <1>2
  <2>2. /\ b \in Seq(Byte) /\ c \in Seq(Byte)
        /\ Len(c) = Len(b) + Len(D[k])
        /\ \A x \in 1..Len(D[k]) : c[Len(b) + x] = D[k][x]
    BY <1>2, <2>1, Placed, Zenon
  <2>3. k + 1 \in 1..(Len(D) + 1)
    BY <1>2
  <2>4. Len(c) <= Len(F) /\ \A x \in 1..Len(c) : F[x] = c[x]
    BY <1>2, <2>3, BeforeIsPrefix, Zenon
  <2> HIDE DEF b, c, F
  <2>5. \A x \in 1..Len(D[k]) : Len(b) + x \in 1..Len(c)
    BY <2>1, <2>2
  <2>6. \A x \in 1..Len(D[k]) : F[Len(b) + x] = D[k][x]
    BY <2>2, <2>4, <2>5
  <2>7. Len(b) \in Nat /\ Len(D[k]) \in Nat
    BY <2>1, <2>2
  <2> QED BY <2>2, <2>4, <2>6, <2>7 DEF b, c
<1>7. ASSUME NEW k \in 1..Len(parts)
      PROVE  /\ StartOf(k) \in Nat /\ SizeOf(k) \in Nat
             /\ StartOf(k + 1) = StartOf(k) + SizeOf(k)
             /\ StartOf(k + 1) <= Size
             /\ \A x \in 1..SizeOf(k) : Content[StartOf(k) + x] = parts[k].data[x]
  <2> HIDE DEF F
  <2> QED BY <1>1, <1>2, <1>6, Zenon DEF StartOf, Size, D
<1>8. StartOf(1) = 0 /\ StartOf(Len(parts) + 1) = Size /\ Size \in Nat
  <2> HIDE DEF F
  <2> QED BY <1>1, <1>2, <1>3, <1>4, <1>5, Zenon DEF StartOf, Size, D
<1>9. Content \in Seq(Byte)
  <2> HIDE DEF F
  <2> QED BY <1>1, <1>4, Zenon
<1> QED BY <1>7, <1>8, <1>9

-----------------------------------------------------------------------------
(* What a buffer answers.                                                   *)

\* What copy moves: the bytes from the offset, as many as fit.
LEMMA CopiedBytes ==
  ASSUME NEW d \in Seq(Byte), NEW n \in Nat, NEW o \in Nat
  PROVE  /\ Copied(d, n, o) \in Seq(Byte)
         /\ Len(Copied(d, n, o)) = IF o >= Len(d) THEN 0
                                   ELSE IF o + n <= Len(d) THEN n ELSE Len(d) - o
         /\ \A x \in 1..Len(Copied(d, n, o)) :
              o + x <= Len(d) /\ Copied(d, n, o)[x] = d[o + x]
<1> DEFINE e == IF o + n < Len(d) THEN o + n ELSE Len(d)
           c == SubSeq(d, o + 1, e)
<1>1. Len(d) \in Nat /\ e \in Nat /\ e <= Len(d) /\ e <= o + n
  OBVIOUS
<1> HIDE DEF e
<1>2. \A x \in (o + 1)..e : d[x] \in Byte
  BY <1>1
<1>3. c = [x \in 1..(e - o) |-> d[o + x]]
  BY <1>1
<1>4. c \in Seq(Byte)
  <2> HIDE DEF c
  <2>1. CASE e >= o
    <3>1. \A x \in 1..(e - o) : d[o + x] \in Byte
      BY <1>1, <1>2
    <3> DEFINE m == e - o
    <3>2. m \in Nat
      BY <1>1, <2>1
    <3> HIDE DEF m
    <3>3. [x \in 1..m |-> d[o + x]] \in Seq(Byte)
      BY <3>1, <3>2 DEF m
    <3>4. c = [x \in 1..m |-> d[o + x]]
      BY <1>3 DEF m
    <3> QED BY <3>3, <3>4
  <2>2. CASE e < o
    <3>1. c = <<>>
      BY <1>1, <2>2 DEF c
    <3> QED BY <3>1
  <2> QED BY <1>1, <2>1, <2>2
<1>5. Len(c) = IF e > o THEN e - o ELSE 0
  BY <1>1
<1>6. \A x \in 1..Len(c) : o + x <= Len(d) /\ c[x] = d[o + x]
  <2> HIDE DEF c
  <2> TAKE x \in 1..Len(c)
  <2>1. x \in 1..(e - o)
    BY <1>1, <1>5
  <2>2. c[x] = d[o + x]
    BY <1>3, <2>1
  <2> QED BY <1>1, <2>1, <2>2
<1>7. Copied(d, n, o) = c
  BY DEF Copied, e
<1> HIDE DEF c
<1>8. Len(c) = IF o >= Len(d) THEN 0 ELSE IF o + n <= Len(d) THEN n ELSE Len(d) - o
  BY <1>1, <1>5 DEF e
<1> QED BY <1>4, <1>6, <1>7, <1>8, Zenon

\* ReadAt of a buffer within its content fails without a byte or fills the
\* slice as far as the content goes.
LEMMA ReadAtAnswer ==
  ASSUME NEW b \in Part, NEW n \in Nat, NEW o \in Nat, NEW c \in BOOLEAN,
         o + n <= Len(b.data)
  PROVE  LET r == BufferReadAt(b, n, o, c)
         IN  /\ r.bytes \in Seq(Byte)
             /\ r.status \in {"nil", "error"}
             /\ Len(r.bytes) = IF r.status = "error" THEN 0 ELSE n
             /\ \A x \in 1..Len(r.bytes) : r.bytes[x] = b.data[o + x]
<1>1. b.data \in Seq(Byte)
  BY DEF Part
<1> DEFINE d == b.data
<1>2. Len(d) \in Nat
  BY <1>1
<1>3. /\ Copied(d, n, o) \in Seq(Byte) /\ Len(Copied(d, n, o)) = n
      /\ \A x \in 1..Len(Copied(d, n, o)) : Copied(d, n, o)[x] = d[o + x]
  BY <1>1, <1>2, CopiedBytes
<1>4. ~(o + n > Len(d))
  BY <1>2
<1>5. BufferReadAt(b, n, o, c) = Answer(<<>>, "error")
      \/ BufferReadAt(b, n, o, c) = Answer(Copied(d, n, o), "nil")
  BY <1>4, Zenon DEF BufferReadAt, FileRead, MemoryReadAt
<1>6. CASE BufferReadAt(b, n, o, c) = Answer(<<>>, "error")
  BY <1>6 DEF Answer
<1>7. CASE BufferReadAt(b, n, o, c) = Answer(Copied(d, n, o), "nil")
  <2> DEFINE e == Copied(d, n, o)
             r == BufferReadAt(b, n, o, c)
  <2>1. r.bytes = e /\ r.status = "nil"
    BY <1>7 DEF Answer
  <2> HIDE DEF e, r, d
  <2>2. /\ r.bytes \in Seq(Byte) /\ Len(r.bytes) = n /\ r.status # "error"
        /\ \A x \in 1..Len(r.bytes) : r.bytes[x] = d[o + x]
    BY <1>3, <2>1 DEF e
  <2> QED BY <2>1, <2>2 DEF r, d
<1> QED BY <1>5, <1>6, <1>7

\* Read of an open buffer answers EOF only if it leaves nothing behind.
LEMMA ReadAnswer ==
  ASSUME NEW b \in Part, NEW n \in Nat, NEW o \in Nat
  PROVE  LET r == BufferRead(b, n, o, FALSE)
         IN  /\ r.bytes \in Seq(Byte) /\ Len(r.bytes) <= n
             /\ r.status \in {"nil", "EOF"}
             /\ r.status = "EOF" => o + Len(r.bytes) >= Len(b.data)
             /\ \A x \in 1..Len(r.bytes) :
                  o + x <= Len(b.data) /\ r.bytes[x] = b.data[o + x]
<1> DEFINE d == b.data
           e == Copied(d, n, o)
           r == BufferRead(b, n, o, FALSE)
<1>1. d \in Seq(Byte) /\ Len(d) \in Nat
  BY DEF Part
<1>2. /\ e \in Seq(Byte)
      /\ Len(e) = IF o >= Len(d) THEN 0 ELSE IF o + n <= Len(d) THEN n ELSE Len(d) - o
      /\ \A x \in 1..Len(e) : o + x <= Len(d) /\ e[x] = d[o + x]
  <2> HIDE DEF d
  <2> QED BY <1>1, CopiedBytes
<1>3. \/ o >= Len(d) /\ r = Answer(<<>>, "EOF")
      \/ o + n > Len(d) /\ r = Answer(e, "EOF")
      \/ r = Answer(e, "nil")
  <2>1. b.file => r = Answer(e, IF o + n > Len(d) THEN "EOF" ELSE "nil")
    BY Zenon DEF BufferRead, FileRead, MemoryReadAt
  <2>2. ~b.file => r = IF o >= Len(d) THEN Answer(<<>>, "EOF") ELSE Answer(e, "nil")
    BY Zenon DEF BufferRead, MemoryRead
  <2> HIDE DEF e, r, d
  <2> QED BY <2>1, <2>2
<1>4. \/ o >= Len(d) /\ r.bytes = <<>> /\ r.status = "EOF"
      \/ o + n > Len(d) /\ r.bytes = e /\ r.status = "EOF"
      \/ r.bytes = e /\ r.status = "nil"
  <2> HIDE DEF e, r, d
  <2> QED BY <1>3 DEF Answer
<1> HIDE DEF e, r, d
<1>5. Len(e) <= n /\ (o + n > Len(d) => o + Len(e) >= Len(d))
  BY <1>1, <1>2
<1>6. CASE r.bytes = <<>> /\ o >= Len(d) /\ r.status = "EOF"
  <2>1. Len(r.bytes) = 0 /\ r.bytes \in Seq(Byte)
    BY <1>6
  <2>2. /\ r.bytes \in Seq(Byte) /\ Len(r.bytes) <= n
        /\ r.status \in {"nil", "EOF"}
        /\ r.status = "EOF" => o + Len(r.bytes) >= Len(d)
        /\ \A x \in 1..Len(r.bytes) : o + x <= Len(d) /\ r.bytes[x] = d[o + x]
    BY <1>1, <1>6, <2>1
  <2> QED BY <2>2 DEF d, r
<1>7. CASE r.bytes = e /\ r.status \in {"nil", "EOF"} /\ (r.status = "EOF" => o + n > Len(d))
  <2>1. /\ r.bytes \in Seq(Byte) /\ Len(r.bytes) <= n
        /\ r.status \in {"nil", "EOF"}
        /\ r.status = "EOF" => o + Len(r.bytes) >= Len(d)
        /\ \A x \in 1..Len(r.bytes) : o + x <= Len(d) /\ r.bytes[x] = d[o + x]
    BY <1>2, <1>5, <1>7
  <2> QED BY <2>1 DEF d, r
<1> QED BY <1>4, <1>6, <1>7

-----------------------------------------------------------------------------
(* The invariant.  Within the loop of ReadAt the offset into the parts and  *)
(* the bytes written so far belong to one place of the content; what the    *)
(* consumer has copied stands in the content behind its last Seek.          *)

SingleAlone ==
  single => Len(parts) = 1 /\ closed = {} /\ pc = "idle"

Positioned ==
  pc = "loop" =>
    /\ pos < Size /\ Len(written) < len
    /\ StandsAt(written, pos)
    /\ pos + Len(written) = StartOf(i) + off

Fresh ==
  pc = "idle" => i = 1 /\ written = <<>>

CopiedFrom ==
  /\ StandsAt(copied, from)
  /\ pos = from + Len(copied)
  /\ got.status = "EOF" => pos >= Size

ReaderInv == TypeOK /\ SingleAlone /\ Fresh /\ Positioned /\ CopiedFrom

\* The parts never change.
LEMMA SameContent ==
  ASSUME parts' = parts
  PROVE  /\ Content' = Content /\ Size' = Size
         /\ \A k : SizeOf(k)' = SizeOf(k) /\ StartOf(k)' = StartOf(k)
         /\ \A bytes, p : StandsAt(bytes, p)' <=> StandsAt(bytes, p)
<1>1. Content' = Content
  BY DEF Content
<1>2. Size' = Size
  BY <1>1 DEF Size
<1>3. Datas' = Datas
  BY DEF Datas
<1>4. ASSUME NEW k PROVE SizeOf(k)' = SizeOf(k) /\ StartOf(k)' = StartOf(k)
  BY <1>3, Zenon DEF SizeOf, StartOf
<1>5. ASSUME NEW bytes, NEW p PROVE StandsAt(bytes, p)' <=> StandsAt(bytes, p)
  BY <1>1, <1>2, Zenon DEF StandsAt
<1> QED BY <1>1, <1>2, <1>4, <1>5

\* Bytes that stand in the content are a slice of it.
LEMMA StandsAsSlice ==
  ASSUME parts \in PartLists, NEW bytes \in Seq(Byte), NEW p \in Nat, StandsAt(bytes, p)
  PROVE  /\ bytes = SubSeq(Content, p + 1, p + Len(bytes))
         /\ Len(bytes) = 0 \/ p + Len(bytes) <= Size
<1>1. Content \in Seq(Byte) /\ Size = Len(Content) /\ Size \in Nat
  BY PartsInContent DEF Size
<1>2. \A k \in 1..Len(bytes) : p + k <= Size /\ bytes[k] = Content[p + k]
  BY DEF StandsAt
<1>3. Len(bytes) \in Nat /\ (Len(bytes) = 0 \/ p + Len(bytes) <= Size)
  <2>1. Len(bytes) \in Nat /\ (Len(bytes) # 0 => Len(bytes) \in 1..Len(bytes))
    OBVIOUS
  <2> QED BY <1>2, <2>1
<1> DEFINE e == SubSeq(Content, p + 1, p + Len(bytes))
<1>4. e = [k \in 1..Len(bytes) |-> Content[p + k]]
  <2> DEFINE n == Len(bytes)
  <2>1. n \in Nat
    BY <1>3
  <2> HIDE DEF n
  <2>2. SubSeq(Content, p + 1, p + n) = [k \in 1..n |-> Content[p + k]]
    BY <1>1, <2>1
  <2> QED BY <2>2 DEF n
<1>5. bytes = [k \in 1..Len(bytes) |-> bytes[k]]
  OBVIOUS
<1> HIDE DEF e
<1>6. bytes = e
  BY <1>2, <1>4, <1>5
<1> QED BY <1>3, <1>6 DEF e

\* The concatenation of what stands at one place with what stands behind it.
LEMMA StandsAfter ==
  ASSUME NEW b \in Seq(Byte), NEW c \in Seq(Byte), NEW p \in Nat,
         StandsAt(b, p), StandsAt(c, p + Len(b))
  PROVE  b \o c \in Seq(Byte) /\ Len(b \o c) = Len(b) + Len(c) /\ StandsAt(b \o c, p)
<1> DEFINE e == b \o c
<1>1. /\ e \in Seq(Byte) /\ Len(e) = Len(b) + Len(c)
      /\ Len(b) \in Nat /\ Len(c) \in Nat
  OBVIOUS
<1>2. \A k \in 1..Len(e) : e[k] = IF k <= Len(b) THEN b[k] ELSE c[k - Len(b)]
  OBVIOUS
<1> HIDE DEF e
<1>3. ASSUME NEW k \in 1..Len(e) PROVE p + k <= Size /\ e[k] = Content[p + k]
  <2>1. CASE k <= Len(b)
    <3>1. k \in 1..Len(b)
      BY <1>1, <2>1
    <3>2. p + k <= Size /\ b[k] = Content[p + k]
      BY <3>1 DEF StandsAt
    <3> QED BY <1>2, <2>1, <3>2
  <2>2. CASE k > Len(b)
    <3> DEFINE j == k - Len(b)
    <3>1. j \in 1..Len(c) /\ p + Len(b) + j = p + k
      BY <1>1, <2>2
    <3> HIDE DEF j
    <3>2. p + Len(b) + j <= Size /\ c[j] = Content[p + Len(b) + j]
      BY <3>1 DEF StandsAt
    <3>3. e[k] = c[j]
      BY <1>1, <1>2, <2>2 DEF j
    <3> QED BY <3>1, <3>2, <3>3
  <2> QED BY <1>1, <2>1, <2>2
<1>4. StandsAt(e, p)
  BY <1>3 DEF StandsAt
<1> QED BY <1>1, <1>4 DEF e

-----------------------------------------------------------------------------
(* The invariant holds initially and every step keeps it; the steps are     *)
(* those of a contiguous source.                                            *)

LEMMA ReaderInitInv == Init => ReaderInv
<1> SUFFICES ASSUME Init PROVE ReaderInv
  OBVIOUS
<1>1. parts \in PartLists /\ Size \in Nat /\ Len(parts) \in Nat
  BY PartsInContent, DatasType DEF Init
<1>2. MaxRead \in Nat /\ MaxSeek \in Nat
  BY AssembledAssumption
<1>3. TypeOK
  <2>1. single \in BOOLEAN
    BY DEF Init
  <2>2. 0 \in 0..(IF MaxSeek > Size THEN MaxSeek ELSE Size) /\ 1 \in 1..(Len(parts) + 1)
    BY <1>1, <1>2
  <2>3. <<>> \in Seq(Byte) /\ Len(<<>>) = 0
    OBVIOUS
  <2> QED BY <1>1, <1>2, <2>1, <2>2, <2>3 DEF Init, TypeOK, Nothing
<1>4. SingleAlone /\ Fresh
  BY DEF Init, SingleAlone, Fresh
<1>5. Positioned
  BY DEF Init, Positioned
<1>6. CopiedFrom
  <2>1. StandsAt(<<>>, 0)
    BY DEF StandsAt
  <2>2. Len(<<>>) = 0
    OBVIOUS
  <2> QED BY <2>1, <2>2 DEF Init, CopiedFrom, Nothing
<1> QED BY <1>3, <1>4, <1>5, <1>6 DEF ReaderInv

\* Every Read that returns hands over bytes that stand in the content at its
\* position, and says EOF only at its end.
LEMMA Returned ==
  ASSUME ReaderInv, NEW bytes \in Seq(Byte), NEW status \in {"nil", "EOF", "error"},
         StandsAt(bytes, pos), status = "EOF" => pos + Len(bytes) >= Size,
         Return(bytes, status), UNCHANGED <<parts, single, closed, from>>,
         len' \in 0..MaxRead
  PROVE  ReaderInv' /\ Source!Read
<1>1. /\ parts \in PartLists /\ Size \in Nat /\ Size = Len(Content) /\ Len(parts) \in Nat
      /\ MaxRead \in Nat /\ MaxSeek \in Nat
  BY PartsInContent, DatasType, AssembledAssumption DEF ReaderInv, TypeOK, Size
<1>2. pos \in Nat /\ from \in Nat /\ copied \in Seq(Byte)
  BY <1>1 DEF ReaderInv, TypeOK
<1>3. /\ bytes = SubSeq(Content, pos + 1, pos + Len(bytes))
      /\ Len(bytes) = 0 \/ pos + Len(bytes) <= Size
      /\ Len(bytes) \in Nat
  BY <1>1, <1>2, StandsAsSlice
<1>4. /\ got' = [bytes |-> bytes, status |-> status] /\ pos' = pos + Len(bytes)
      /\ copied' = copied \o bytes
      /\ pc' = "idle" /\ off' = 0 /\ i' = 1 /\ written' = <<>>
  BY DEF Return
<1>5. Content' = Content /\ Size' = Size
      /\ \A b, p : StandsAt(b, p)' <=> StandsAt(b, p)
  BY SameContent
<1>6. StandsAt(copied, from) /\ pos = from + Len(copied)
  BY DEF ReaderInv, CopiedFrom
<1>7. /\ copied \o bytes \in Seq(Byte) /\ Len(copied \o bytes) = Len(copied) + Len(bytes)
      /\ StandsAt(copied \o bytes, from)
  BY <1>2, <1>6, StandsAfter
<1>8. TypeOK'
  <2>1. pos' \in 0..(IF MaxSeek > Size THEN MaxSeek ELSE Size)
    <3>1. pos \in 0..(IF MaxSeek > Size THEN MaxSeek ELSE Size)
      BY DEF ReaderInv, TypeOK
    <3> QED BY <1>1, <1>3, <1>4, <3>1
  <2>2. parts \in PartLists /\ single \in BOOLEAN /\ closed \subseteq DOMAIN parts
        /\ from \in 0..MaxSeek
    BY DEF ReaderInv, TypeOK
  <2>3. written' \in Seq(Byte) /\ Len(written') <= len'
    BY <1>1, <1>4
  <2>4. got' \in [bytes : Seq(Byte), status : {"none", "nil", "EOF", "error"}]
    BY <1>4
  <2>5. off' \in 0..Size' /\ i' \in 1..(Len(parts') + 1)
    BY <1>1, <1>4, <1>5
  <2>6. copied' \in Seq(Byte)
    BY <1>4, <1>7
  <2> QED BY <1>4, <1>5, <2>1, <2>2, <2>3, <2>4, <2>5, <2>6 DEF TypeOK
<1>9. SingleAlone' /\ Fresh' /\ Positioned'
  BY <1>4 DEF ReaderInv, SingleAlone, Fresh, Positioned
<1>10. CopiedFrom'
  <2>1. StandsAt(copied, from)'
    <3> DEFINE e == copied \o bytes
    <3>1. copied' = e /\ from' = from /\ StandsAt(e, from)
      BY <1>4, <1>7
    <3> HIDE DEF e
    <3> QED BY <1>5, <3>1 DEF StandsAt
  <2>2. pos' = from' + Len(copied')
    BY <1>2, <1>3, <1>4, <1>6, <1>7
  <2>3. got'.status = "EOF" => pos' >= Size'
    BY <1>4, <1>5
  <2> QED BY <2>1, <2>2, <2>3 DEF CopiedFrom
<1>11. Source!Read
  <2> DEFINE n == Len(bytes)
  <2>1. n \in 0..Len(Content) /\ (pos + n <= Len(Content) \/ n = 0)
    BY <1>1, <1>2, <1>3
  <2>2. /\ status = "EOF" => pos + n >= Len(Content)
        /\ got' = [bytes |-> SubSeq(Content, pos + 1, pos + n), status |-> status]
        /\ pos' = pos + n
    BY <1>1, <1>3, <1>4
  <2> HIDE DEF n
  <2> QED BY <1>5, <2>1, <2>2 DEF Source!Read
<1> QED BY <1>8, <1>9, <1>10, <1>11 DEF ReaderInv

\* What the invariant says of a state, for the steps below.
LEMMA ReaderFacts ==
  ASSUME ReaderInv
  PROVE  /\ parts \in PartLists /\ Size \in Nat /\ Len(parts) \in Nat
         /\ DOMAIN parts = 1..Len(parts)
         /\ MaxRead \in Nat /\ MaxSeek \in Nat
         /\ pos \in Nat /\ len \in 0..MaxRead /\ len \in Nat /\ off \in Nat
         /\ i \in 1..(Len(parts) + 1)
         /\ written \in Seq(Byte) /\ Len(written) \in Nat
<1>1. /\ parts \in PartLists /\ pos \in 0..(IF MaxSeek > Size THEN MaxSeek ELSE Size)
      /\ len \in 0..MaxRead /\ off \in 0..Size /\ i \in 1..(Len(parts) + 1)
      /\ written \in Seq(Byte)
  BY DEF ReaderInv, TypeOK
<1>2. /\ Size \in Nat /\ Len(parts) \in Nat /\ MaxRead \in Nat /\ MaxSeek \in Nat
      /\ DOMAIN parts = 1..Len(parts)
  BY <1>1, PartsInContent, DatasType, AssembledAssumption
<1> QED BY <1>1, <1>2

LEMMA ReadSingleStep ==
  ASSUME ReaderInv, NEW n \in 1..MaxRead, ReadSingle(n)
  PROVE  ReaderInv' /\ Source!Read
<1>1. /\ parts \in PartLists /\ Size \in Nat /\ pos \in Nat /\ MaxRead \in Nat
      /\ Len(parts) = 1 /\ closed = {}
  BY ReaderFacts DEF ReadSingle, ReaderInv, SingleAlone
<1> DEFINE b == parts[1]
           r == BufferRead(b, n, pos, FALSE)
<1>2. /\ b \in Part /\ SizeOf(1) = Len(b.data) /\ SizeOf(1) \in Nat
      /\ StartOf(1) = 0 /\ StartOf(1 + 1) = StartOf(1) + SizeOf(1)
      /\ StartOf(Len(parts) + 1) = Size
      /\ \A x \in 1..SizeOf(1) : Content[StartOf(1) + x] = b.data[x]
  <2>1. 1 \in 1..Len(parts)
    BY <1>1
  <2>2. b \in Part
    BY <1>1, <2>1, DatasType
  <2>3. SizeOf(1) = Len(b.data)
    BY DEF SizeOf
  <2> QED BY <1>1, <2>1, <2>2, <2>3, PartsInContent
<1>3. /\ Len(b.data) = Size /\ Len(b.data) \in Nat
      /\ \A x \in 1..Size : Content[x] = b.data[x]
  <2>1. StartOf(Len(parts) + 1) = StartOf(1 + 1)
    BY <1>1
  <2>2. SizeOf(1) = Size
    BY <1>2, <2>1
  <2>3. \A x \in 1..SizeOf(1) : Content[x] = b.data[x]
    BY <1>2
  <2> QED BY <1>1, <1>2, <2>2, <2>3
<1>4. n \in Nat
  BY <1>1
<1>5. /\ r.bytes \in Seq(Byte) /\ Len(r.bytes) <= n
      /\ r.status \in {"nil", "EOF"}
      /\ r.status = "EOF" => pos + Len(r.bytes) >= Len(b.data)
      /\ \A x \in 1..Len(r.bytes) :
           pos + x <= Len(b.data) /\ r.bytes[x] = b.data[pos + x]
  <2> HIDE DEF b
  <2> QED BY <1>1, <1>2, <1>4, ReadAnswer, Zenon
<1>6. Return(r.bytes, r.status) /\ len' = n /\ UNCHANGED <<parts, single, closed, from>>
  <2>1. BufferRead(b, n, pos, 1 \in closed) = r
    BY <1>1 DEF BufferRead, FileRead
  <2>2. /\ Return(BufferRead(b, n, pos, 1 \in closed).bytes,
                  BufferRead(b, n, pos, 1 \in closed).status)
        /\ len' = n /\ UNCHANGED <<parts, single, closed, from>>
    BY DEF ReadSingle
  <2> HIDE DEF r, b
  <2> QED BY <2>1, <2>2
<1> HIDE DEF r, b
<1>7. StandsAt(r.bytes, pos)
  <2> SUFFICES ASSUME NEW k \in 1..Len(r.bytes)
               PROVE  pos + k <= Size /\ r.bytes[k] = Content[pos + k]
    BY DEF StandsAt
  <2>1. pos + k <= Len(b.data) /\ r.bytes[k] = b.data[pos + k]
    BY <1>5
  <2>2. pos + k \in 1..Size
    BY <1>1, <1>3, <1>5, <2>1
  <2> QED BY <1>3, <2>1, <2>2
<1>8. r.status = "EOF" => pos + Len(r.bytes) >= Size
  BY <1>3, <1>5
<1>9. len' \in 0..MaxRead
  BY <1>1, <1>6
<1> QED BY <1>5, <1>6, <1>7, <1>8, <1>9, Returned

LEMMA ReadStep ==
  ASSUME ReaderInv, NEW n \in 1..MaxRead, Read(n)
  PROVE  ReaderInv' /\ (Source!Read \/ UNCHANGED <<parts, pos, got>>)
<1>1. /\ parts \in PartLists /\ Size \in Nat /\ pos \in Nat /\ MaxRead \in Nat
      /\ len' = n /\ len' \in 0..MaxRead /\ UNCHANGED <<parts, single, closed, from>>
      /\ ~single /\ pc = "idle"
  BY ReaderFacts DEF Read, Reading
<1>2. CASE pos >= Size
  <2>1. Return(<<>>, "EOF")
    BY <1>2 DEF Read
  <2>2. <<>> \in Seq(Byte) /\ StandsAt(<<>>, pos) /\ pos + Len(<<>>) >= Size
    BY <1>1, <1>2 DEF StandsAt
  <2> QED BY <1>1, <2>1, <2>2, Returned
<1>3. CASE ~(pos >= Size)
  <2>1. pc' = "loop" /\ off' = pos /\ UNCHANGED <<pos, got, copied, i, written>>
    BY <1>3 DEF Read
  <2>2. /\ Content' = Content /\ Size' = Size
        /\ \A k : StartOf(k)' = StartOf(k)
    BY <1>1, SameContent
  <2>3. i = 1 /\ written = <<>> /\ Len(written) = 0
    BY <1>1 DEF ReaderInv, Fresh
  <2>4. TypeOK'
    <3>1. off' \in 0..Size' /\ len' \in 0..MaxRead /\ Len(written') <= len'
      BY <1>1, <1>3, <2>1, <2>2, <2>3
    <3> QED BY <1>1, <2>1, <2>2, <3>1 DEF ReaderInv, TypeOK
  <2>5. SingleAlone' /\ Fresh'
    BY <1>1, <2>1 DEF SingleAlone, Fresh
  <2>6. Positioned'
    <3>1. StandsAt(written, pos)'
      BY <2>1, <2>3 DEF StandsAt
    <3>2. StartOf(i)' = 0
      BY <1>1, <2>1, <2>2, <2>3, PartsInContent
    <3>3. pos' < Size' /\ Len(written') < len'
      BY <1>1, <1>3, <2>1, <2>2, <2>3
    <3>4. pos' + Len(written') = 0 + off'
      BY <1>1, <2>1, <2>3
    <3> QED BY <2>1, <3>1, <3>2, <3>3, <3>4 DEF Positioned
  <2>7. CopiedFrom'
    <3>1. StandsAt(copied, from)'
      BY <1>1, <2>1, <2>2 DEF ReaderInv, CopiedFrom, StandsAt
    <3> QED BY <1>1, <2>1, <2>2, <3>1 DEF ReaderInv, CopiedFrom
  <2> QED BY <2>1, <2>4, <2>5, <2>6, <2>7, <1>1 DEF ReaderInv
<1> QED BY <1>2, <1>3

LEMMA SkipPartStep ==
  ASSUME ReaderInv, SkipPart
  PROVE  ReaderInv' /\ UNCHANGED <<parts, pos, got>>
<1>1. /\ parts \in PartLists /\ Size \in Nat /\ Len(parts) \in Nat /\ pos \in Nat
      /\ off \in Nat /\ i \in 1..Len(parts) /\ Len(written) \in Nat
  BY ReaderFacts DEF SkipPart
<1>2. /\ pc = "loop" /\ off >= SizeOf(i) /\ off' = off - SizeOf(i) /\ i' = i + 1
      /\ UNCHANGED <<pos, pc, got, copied>>
      /\ UNCHANGED <<parts, single, closed, len, written, from>>
  BY DEF SkipPart, InLoop
<1>3. /\ StartOf(i) \in Nat /\ SizeOf(i) \in Nat
      /\ StartOf(i + 1) = StartOf(i) + SizeOf(i)
  BY <1>1, PartsInContent
<1>4. /\ Content' = Content /\ Size' = Size
      /\ \A k : StartOf(k)' = StartOf(k)
  BY <1>2, SameContent
<1>5. TypeOK'
  <2>1. off' \in 0..Size'
    <3>1. off \in 0..Size
      BY DEF ReaderInv, TypeOK
    <3> QED BY <1>1, <1>2, <1>3, <1>4, <3>1
  <2>2. i' \in 1..(Len(parts') + 1)
    BY <1>1, <1>2
  <2> QED BY <1>2, <1>4, <2>1, <2>2 DEF ReaderInv, TypeOK
<1>6. SingleAlone' /\ Fresh'
  BY <1>2 DEF ReaderInv, SingleAlone, Fresh
<1>7. Positioned'
  <2>1. pos < Size /\ Len(written) < len /\ StandsAt(written, pos)
        /\ pos + Len(written) = StartOf(i) + off
    BY <1>2 DEF ReaderInv, Positioned
  <2>2. StandsAt(written, pos)'
    BY <1>2, <1>4, <2>1 DEF StandsAt
  <2>3. StartOf(i)' = StartOf(i + 1)
    BY <1>2, <1>4
  <2>4. pos' + Len(written') = StartOf(i)' + off'
    BY <1>1, <1>2, <1>3, <2>1, <2>3
  <2> QED BY <1>2, <1>4, <2>1, <2>2, <2>4 DEF Positioned
<1>8. CopiedFrom'
  <2>1. StandsAt(copied, from)'
    BY <1>2, <1>4 DEF ReaderInv, CopiedFrom, StandsAt
  <2> QED BY <1>2, <1>4, <2>1 DEF ReaderInv, CopiedFrom
<1> QED BY <1>2, <1>5, <1>6, <1>7, <1>8 DEF ReaderInv

LEMMA ReadPartStep ==
  ASSUME ReaderInv, ReadPart
  PROVE  ReaderInv' /\ (Source!Read \/ UNCHANGED <<parts, pos, got>>)
<1>1. /\ parts \in PartLists /\ Size \in Nat /\ Len(parts) \in Nat /\ pos \in Nat
      /\ len \in Nat /\ len \in 0..MaxRead
      /\ off \in Nat /\ i \in 1..Len(parts) /\ written \in Seq(Byte) /\ Len(written) \in Nat
  BY ReaderFacts DEF ReadPart
<1> DEFINE r == BufferReadAt(parts[i], Limit, off, i \in closed)
           more == written \o r.bytes
<1>2. /\ pc = "loop" /\ off < SizeOf(i)
      /\ r.status = "error" => Return(more, "error")
      /\ r.status # "error" /\ Len(more) = len => Return(more, "nil")
      /\ r.status # "error" /\ Len(more) # len =>
           written' = more /\ off' = NextOff /\ i' = i + 1 /\ InLoop
      /\ UNCHANGED <<parts, single, closed, len, from>>
  BY Zenon DEF ReadPart
<1>3. pos < Size /\ Len(written) < len /\ StandsAt(written, pos)
      /\ pos + Len(written) = StartOf(i) + off
  BY <1>2 DEF ReaderInv, Positioned
<1>4. /\ StartOf(i) \in Nat /\ SizeOf(i) \in Nat
      /\ StartOf(i + 1) = StartOf(i) + SizeOf(i)
      /\ StartOf(i + 1) <= Size
      /\ \A x \in 1..SizeOf(i) : Content[StartOf(i) + x] = parts[i].data[x]
  BY <1>1, PartsInContent
<1>5. /\ Limit \in Nat /\ off + Limit <= SizeOf(i) /\ Len(written) + Limit <= len
      /\ Len(written) + Limit = len \/ off + Limit = SizeOf(i)
  <2> DEFINE a == len - Len(written)
             z == SizeOf(i) - off
  <2>1. a \in Nat /\ z \in Nat /\ Len(written) + a = len /\ off + z = SizeOf(i)
    BY <1>1, <1>2, <1>3, <1>4
  <2>2. Limit = IF a > z THEN z ELSE a
    BY DEF Limit
  <2> HIDE DEF a, z
  <2>3. Limit \in Nat /\ Limit <= a /\ Limit <= z /\ (Limit = a \/ Limit = z)
    BY <2>1, <2>2
  <2> QED BY <1>1, <1>4, <2>1, <2>3
<1>6. /\ r.bytes \in Seq(Byte)
      /\ r.status \in {"nil", "error"}
      /\ Len(r.bytes) = IF r.status = "error" THEN 0 ELSE Limit
      /\ \A x \in 1..Len(r.bytes) : r.bytes[x] = parts[i].data[off + x]
  <2>1. parts[i] \in Part
    BY <1>1, DatasType
  <2>2. (i \in closed) \in BOOLEAN
    OBVIOUS
  <2>3. off + Limit <= Len(parts[i].data)
    BY <1>5 DEF SizeOf
  <2>4. ASSUME NEW c \in BOOLEAN
        PROVE  LET q == BufferReadAt(parts[i], Limit, off, c)
               IN  /\ q.bytes \in Seq(Byte)
                   /\ q.status \in {"nil", "error"}
                   /\ Len(q.bytes) = IF q.status = "error" THEN 0 ELSE Limit
                   /\ \A x \in 1..Len(q.bytes) : q.bytes[x] = parts[i].data[off + x]
    BY ZenonT(60), <1>1, <1>5, <2>1, <2>3, ReadAtAnswer
  <2> QED BY <2>2, <2>4, Zenon
<1> HIDE DEF r
<1>7. StandsAt(r.bytes, pos + Len(written))
  <2> SUFFICES ASSUME NEW k \in 1..Len(r.bytes)
               PROVE  /\ pos + Len(written) + k <= Size
                      /\ r.bytes[k] = Content[pos + Len(written) + k]
    BY DEF StandsAt
  <2>1. Len(r.bytes) <= Limit /\ Len(r.bytes) \in Nat
    BY <1>5, <1>6
  <2>2. off + k \in 1..SizeOf(i)
    BY SMTT(60), <1>1, <1>4, <1>5, <2>1
  <2>3. pos + Len(written) + k = StartOf(i) + (off + k)
    BY SMTT(60), <1>1, <1>3, <1>4, <2>1
  <2>4. r.bytes[k] = Content[StartOf(i) + (off + k)]
    BY <1>4, <1>6, <2>2
  <2>5. StartOf(i) + (off + k) <= Size
    BY <1>1, <1>4, <2>2
  <2> QED BY <2>3, <2>4, <2>5
<1>8. /\ more \in Seq(Byte) /\ Len(more) = Len(written) + Len(r.bytes)
      /\ StandsAt(more, pos)
  BY <1>1, <1>3, <1>6, <1>7, StandsAfter
<1> HIDE DEF more
<1>9. CASE r.status = "error"
  <2>1. Return(more, "error")
    BY <1>2, <1>9
  <2>2. len' \in 0..MaxRead
    BY <1>1, <1>2
  <2> QED BY <1>2, <1>8, <2>1, <2>2, Returned
<1>10. CASE r.status # "error" /\ Len(more) = len
  <2>1. Return(more, "nil")
    BY <1>2, <1>10
  <2>2. len' \in 0..MaxRead
    BY <1>1, <1>2
  <2> QED BY <1>2, <1>8, <2>1, <2>2, Returned
<1>11. CASE r.status # "error" /\ Len(more) # len
  <2>1. /\ written' = more /\ off' = 0 /\ i' = i + 1
        /\ UNCHANGED <<pos, pc, got, copied, parts, single, closed, len, from>>
    BY <1>2, <1>11 DEF InLoop, NextOff
  <2>2. /\ Content' = Content /\ Size' = Size
        /\ \A k : StartOf(k)' = StartOf(k)
    BY <2>1, SameContent
  <2>3. Len(more) < len /\ pos + Len(more) = StartOf(i + 1)
    <3>1. Len(r.bytes) = Limit
      BY <1>6, <1>11
    <3>2. Len(more) = Len(written) + Limit
      BY <1>8, <3>1
    <3>3. Len(more) < len /\ off + Limit = SizeOf(i)
      BY <1>1, <1>5, <1>11, <3>2
    <3>4. pos + Len(more) = StartOf(i) + (off + Limit)
      <4> DEFINE w == Len(written)
                 l == Limit
                 b == StartOf(i)
      <4>1. /\ pos \in Nat /\ w \in Nat /\ l \in Nat /\ b \in Nat /\ off \in Nat
            /\ pos + w = b + off /\ Len(more) = w + l
        BY <1>1, <1>3, <1>4, <1>5, <3>2
      <4> HIDE DEF w, l, b
      <4>2. pos + Len(more) = b + (off + l)
        BY <4>1
      <4> QED BY <4>2 DEF b, l
    <3> QED BY <1>4, <3>3, <3>4
  <2>4. TypeOK'
    <3>1. off' \in 0..Size' /\ i' \in 1..(Len(parts') + 1)
      BY <1>1, <2>1, <2>2
    <3>2. written' \in Seq(Byte) /\ Len(written') <= len'
      BY <1>1, <1>3, <1>8, <2>1, <2>3
    <3> QED BY <2>1, <2>2, <3>1, <3>2 DEF ReaderInv, TypeOK
  <2>5. SingleAlone' /\ Fresh'
    BY <1>2, <2>1 DEF ReaderInv, SingleAlone, Fresh
  <2>6. Positioned'
    <3>1. StandsAt(written, pos)'
      BY <1>8, <2>1, <2>2 DEF StandsAt
    <3>2. StartOf(i)' = StartOf(i + 1)
      BY <2>1, <2>2
    <3>3. pos' + Len(written') = StartOf(i)' + off'
      BY <1>1, <1>4, <2>1, <2>3, <3>2
    <3> QED BY <1>3, <2>1, <2>2, <2>3, <3>1, <3>3 DEF Positioned
  <2>7. CopiedFrom'
    <3>1. StandsAt(copied, from)'
      BY <2>1, <2>2 DEF ReaderInv, CopiedFrom, StandsAt
    <3> QED BY <2>1, <2>2, <3>1 DEF ReaderInv, CopiedFrom
  <2> QED BY <2>1, <2>4, <2>5, <2>6, <2>7 DEF ReaderInv
<1> QED BY <1>6, <1>9, <1>10, <1>11

LEMMA LastPartStep ==
  ASSUME ReaderInv, LastPart
  PROVE  ReaderInv' /\ Source!Read
<1>1. /\ parts \in PartLists /\ Size \in Nat /\ Len(parts) \in Nat /\ pos \in Nat
      /\ len \in 0..MaxRead
      /\ off \in Nat /\ i = Len(parts) + 1 /\ written \in Seq(Byte) /\ Len(written) \in Nat
  BY ReaderFacts DEF LastPart
<1>2. pc = "loop" /\ Return(written, "EOF") /\ UNCHANGED <<parts, single, closed, len, from>>
  BY DEF LastPart
<1>3. StandsAt(written, pos) /\ pos + Len(written) = StartOf(i) + off
  BY <1>2 DEF ReaderInv, Positioned
<1>4. StartOf(i) = Size
  BY <1>1, PartsInContent
<1>5. pos + Len(written) >= Size
  BY <1>1, <1>3, <1>4
<1>6. len' \in 0..MaxRead
  BY <1>1, <1>2
<1> QED BY <1>1, <1>2, <1>3, <1>5, <1>6, Returned

LEMMA SeekStep ==
  ASSUME ReaderInv, NEW o \in 0..MaxSeek, Seek(o)
  PROVE  ReaderInv' /\ Source!Seek
<1>1. /\ parts \in PartLists /\ Size \in Nat /\ MaxSeek \in Nat
      /\ pc = "idle" /\ pos' = o /\ from' = o /\ copied' = <<>> /\ got' = Nothing
      /\ UNCHANGED <<parts, single, closed, pc, len, off, i, written>>
  BY ReaderFacts DEF Seek
<1>2. Content' = Content /\ Size' = Size
  BY <1>1, SameContent
<1>3. TypeOK'
  <2>1. pos' \in 0..(IF MaxSeek > Size' THEN MaxSeek ELSE Size')
    BY <1>1, <1>2
  <2>2. got' \in [bytes : Seq(Byte), status : {"none", "nil", "EOF", "error"}]
        /\ copied' \in Seq(Byte)
    BY <1>1 DEF Nothing
  <2> QED BY <1>1, <1>2, <2>1, <2>2 DEF ReaderInv, TypeOK
<1>4. SingleAlone' /\ Fresh' /\ Positioned'
  BY <1>1 DEF ReaderInv, SingleAlone, Fresh, Positioned
<1>5. CopiedFrom'
  <2>1. StandsAt(copied, from)'
    BY <1>1 DEF StandsAt
  <2>2. pos' = from' + Len(copied')
    BY <1>1
  <2> QED BY <1>1, <2>1, <2>2 DEF CopiedFrom, Nothing
<1>6. Source!Seek
  <2>1. pos' \in Nat /\ got' = Source!Nothing
    BY <1>1 DEF Nothing, Source!Nothing
  <2> QED BY <1>2, <2>1 DEF Source!Seek
<1> QED BY <1>3, <1>4, <1>5, <1>6 DEF ReaderInv

\* A part that is closed, and a step that changes nothing.
LEMMA ClosePartStep ==
  ASSUME ReaderInv, (\E k \in DOMAIN parts : ClosePart(k)) \/ UNCHANGED vars
  PROVE  ReaderInv' /\ UNCHANGED <<parts, pos, got>>
<1>1. /\ UNCHANGED <<parts, single, pos, pc, len, off, i, written, got, from, copied>>
      /\ closed' = closed \/ ~single
      /\ closed' \subseteq DOMAIN parts
  BY DEF ClosePart, vars, ReaderInv, TypeOK
<1>2. /\ Content' = Content /\ Size' = Size
      /\ \A k : StartOf(k)' = StartOf(k)
  BY <1>1, SameContent
<1>3. TypeOK'
  BY <1>1, <1>2 DEF ReaderInv, TypeOK
<1>4. SingleAlone' /\ Fresh'
  BY <1>1 DEF ReaderInv, SingleAlone, Fresh
<1>5. Positioned'
  <2>1. pc = "loop" => StandsAt(written, pos)'
    BY <1>1, <1>2 DEF ReaderInv, Positioned, StandsAt
  <2>2. StartOf(i)' = StartOf(i)
    BY <1>1, <1>2
  <2> QED BY <1>1, <1>2, <2>1, <2>2 DEF ReaderInv, Positioned
<1>6. CopiedFrom'
  <2>1. StandsAt(copied, from)'
    BY <1>1, <1>2 DEF ReaderInv, CopiedFrom, StandsAt
  <2> QED BY <1>1, <1>2, <2>1 DEF ReaderInv, CopiedFrom
<1> QED BY <1>1, <1>3, <1>4, <1>5, <1>6 DEF ReaderInv

LEMMA ReaderNextInv ==
  ReaderInv /\ [Next]_vars => ReaderInv' /\ [Source!Next]_(Source!vars)
<1> SUFFICES ASSUME ReaderInv, [Next]_vars
             PROVE  ReaderInv' /\ [Source!Next]_(Source!vars)
  OBVIOUS
<1>1. UNCHANGED <<parts, pos, got>> => UNCHANGED Source!vars
  BY SameContent DEF Source!vars
<1>2. ASSUME NEW n \in 1..MaxRead, ReadSingle(n) \/ Read(n)
      PROVE  ReaderInv' /\ (Source!Read \/ UNCHANGED <<parts, pos, got>>)
  BY <1>2, ReadSingleStep, ReadStep
<1>3. CASE SkipPart \/ ReadPart \/ LastPart
  BY <1>1, <1>3, SkipPartStep, ReadPartStep, LastPartStep DEF Source!Next
<1>4. ASSUME NEW o \in 0..MaxSeek, Seek(o) PROVE ReaderInv' /\ Source!Seek
  BY <1>4, SeekStep
<1>5. CASE (\E k \in DOMAIN parts : ClosePart(k)) \/ UNCHANGED vars
  BY <1>1, <1>5, ClosePartStep
<1> QED BY <1>1, <1>2, <1>3, <1>4, <1>5 DEF Next, Source!Next

THEOREM ReaderInvariance == Spec => []ReaderInv
<1>1. ReaderInv /\ [Next]_vars => ReaderInv'
  BY ReaderNextInv
<1> QED BY ReaderInitInv, <1>1, PTL DEF Spec

\* What the variables hold, for every list of parts and every slice read into.
THEOREM TypeCorrect == Spec => []TypeOK
<1>1. ReaderInv => TypeOK
  BY DEF ReaderInv
<1> QED BY ReaderInvariance, <1>1, PTL

\* A consumer that is told EOF has the whole body from where it has sought to.
THEOREM EOFCoversBody == Spec => []EOFMeansAll
<1>1. ReaderInv => EOFMeansAll
  <2> SUFFICES ASSUME ReaderInv, got.status = "EOF"
               PROVE  copied = SubSeq(Content, from + 1, Size)
    BY DEF EOFMeansAll
  <2>1. /\ parts \in PartLists /\ Size \in Nat /\ from \in Nat
        /\ copied \in Seq(Byte) /\ Len(copied) \in Nat
    BY ReaderFacts DEF ReaderInv, TypeOK
  <2>2. StandsAt(copied, from) /\ pos = from + Len(copied) /\ pos >= Size
    BY DEF ReaderInv, CopiedFrom
  <2>3. /\ copied = SubSeq(Content, from + 1, from + Len(copied))
        /\ Len(copied) = 0 \/ from + Len(copied) <= Size
    BY <2>1, <2>2, StandsAsSlice
  <2>4. CASE Len(copied) = 0
    <3>1. copied = <<>> /\ from >= Size
      BY <2>1, <2>2, <2>4
    <3>2. SubSeq(Content, from + 1, Size) = <<>>
      BY <2>1, <3>1
    <3> QED BY <3>1, <3>2
  <2>5. CASE Len(copied) # 0
    <3>1. from + Len(copied) = Size
      BY <2>1, <2>2, <2>3, <2>5
    <3> QED BY <2>3, <3>1
  <2> QED BY <2>4, <2>5
<1> QED BY ReaderInvariance, <1>1, PTL

\* The reader implements a contiguous source: every Read of one buffer or over
\* parts is a Read of the concatenated content, and the steps of the loop and
\* the closing of parts are invisible.
THEOREM ReaderImplementsSource == Spec => ImplementsSource
<1>1. Init => Source!Init
  <2> SUFFICES ASSUME Init PROVE Source!Init
    OBVIOUS
  <2>1. Content \in Seq(Byte)
    BY PartsInContent DEF Init
  <2> QED BY <2>1 DEF Init, Source!Init, Nothing, Source!Nothing
<1>2. ReaderInv /\ [Next]_vars => [Source!Next]_(Source!vars)
  BY ReaderNextInv
<1> QED BY ReaderInvariance, <1>1, <1>2, PTL DEF Spec, Source!Spec, ImplementsSource
=============================================================================
