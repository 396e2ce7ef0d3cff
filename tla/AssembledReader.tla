-------------------------- MODULE AssembledReader --------------------------
(***************************************************************************)
(* The body of an upload and the consumer that copies it                   *)
(* (hashUploadReader, copyWithContext): the one buffer of a single upload, *)
(* or the buffers of the parts of a completed multipart upload, read as    *)
(* one contiguous body (internal/reader/assembled.go).  While parts are    *)
(* read, another request may close the buffer of one of them (a late       *)
(* UploadPart or an AbortMultipartUpload).                                 *)
(***************************************************************************)
EXTENDS Buffers, SequencesExt

CONSTANTS
  Byte,
  PartLists,   \* the lists of parts, each with its content and its kind
  MaxRead,     \* the largest slice the consumer reads into
  MaxSeek      \* the largest offset the consumer seeks to

Part == [data : Seq(Byte), file : BOOLEAN]

ASSUME AssembledAssumption ==
  /\ PartLists \subseteq Seq(Part)
  /\ MaxRead \in Nat \ {0}
  /\ MaxSeek \in Nat

VARIABLES
  parts,     \* AssembledReader.parts, or the one buffer of a single upload
  single,    \* the body of a single upload: its buffer is read by itself
  closed,    \* the parts whose buffers were closed
  pos,       \* AssembledReader.pos, or readPos of the one buffer
  pc,        \* "idle", or in the loop of ReadAt
  len,       \* len(p) of the running Read
  off, i,    \* off and i of the loop
  written,   \* p[:written]
  got,       \* what the last Read returned
  from,      \* where the consumer has sought to
  copied     \* what it has read since

vars == <<parts, single, closed, pos, pc, len, off, i, written, got, from, copied>>

Nothing == [bytes |-> <<>>, status |-> "none"]
SizeOf(k) == Len(parts[k].data)
Content == FlattenSeq([k \in DOMAIN parts |-> parts[k].data])
Size == Len(Content)

TypeOK ==
  /\ parts \in PartLists
  /\ single \in BOOLEAN
  /\ closed \subseteq DOMAIN parts
  /\ pos \in 0..(IF MaxSeek > Size THEN MaxSeek ELSE Size)
  /\ pc \in {"idle", "loop"}
  /\ len \in 0..MaxRead
  /\ off \in 0..Size
  /\ i \in 1..(Len(parts) + 1)
  /\ written \in Seq(Byte) /\ Len(written) <= len
  /\ got \in [bytes : Seq(Byte), status : {"none", "nil", "EOF", "error"}]
  /\ from \in 0..MaxSeek
  /\ copied \in Seq(Byte)

Init ==
  /\ parts \in PartLists
  /\ single \in IF Len(parts) = 1 THEN BOOLEAN ELSE {FALSE}
  /\ closed = {}
  /\ pos = 0
  /\ pc = "idle"
  /\ len = 0
  /\ off = 0
  /\ i = 1
  /\ written = <<>>
  /\ got = Nothing
  /\ from = 0
  /\ copied = <<>>

\* Read returns to the consumer, which keeps the bytes; Read advances pos.
Return(bytes, status) ==
  /\ got' = [bytes |-> bytes, status |-> status]
  /\ pos' = pos + Len(bytes)
  /\ copied' = copied \o bytes
  /\ pc' = "idle"
  /\ off' = 0 /\ i' = 1 /\ written' = <<>>

InLoop == UNCHANGED <<pos, pc, got, copied>>

\* The consumer stops after an error and at the end.
Reading == pc = "idle" /\ got.status \in {"none", "nil"}

\* Read of the one buffer.
ReadSingle(n) ==
  /\ single /\ Reading
  /\ len' = n
  /\ LET r == BufferRead(parts[1], n, pos, 1 \in closed)
     IN  Return(r.bytes, r.status)
  /\ UNCHANGED <<parts, single, closed, from>>

\* The tests of ReadAt before its loop.
Read(n) ==
  /\ ~single /\ Reading
  /\ len' = n
  /\ IF pos >= Size
     THEN Return(<<>>, "EOF")
     ELSE /\ pc' = "loop" /\ off' = pos
          /\ UNCHANGED <<pos, got, copied, i, written>>
  /\ UNCHANGED <<parts, single, closed, from>>

\* Parts that end before the offset.
SkipPart ==
  /\ pc = "loop" /\ i <= Len(parts) /\ off >= SizeOf(i)
  /\ off' = off - SizeOf(i)
  /\ i' = i + 1
  /\ InLoop
  /\ UNCHANGED <<parts, single, closed, len, written, from>>

Limit ==
  IF len - Len(written) > SizeOf(i) - off THEN SizeOf(i) - off
                                          ELSE len - Len(written)

\* Variant: the offset stays for the next part.
NextOffSame == off

NextOff == 0

\* ReadAt of the part the offset falls into; only an error of the part ends
\* the loop, its end of file does not.
ReadPart ==
  /\ pc = "loop" /\ i <= Len(parts) /\ off < SizeOf(i)
  /\ LET r == BufferReadAt(parts[i], Limit, off, i \in closed)
         more == written \o r.bytes
     IN  CASE r.status = "error" -> Return(more, "error")
           [] r.status /= "error" /\ Len(more) = len -> Return(more, "nil")
           [] OTHER -> /\ written' = more
                       /\ off' = NextOff
                       /\ i' = i + 1
                       /\ InLoop
  /\ UNCHANGED <<parts, single, closed, len, from>>

LastPart ==
  /\ pc = "loop" /\ i > Len(parts)
  /\ Return(written, "EOF")
  /\ UNCHANGED <<parts, single, closed, len, from>>

\* The consumer starts over at an offset (hashUploadReader, seekTo).
Seek(o) ==
  /\ pc = "idle"
  /\ pos' = o /\ from' = o
  /\ copied' = <<>> /\ got' = Nothing
  /\ UNCHANGED <<parts, single, closed, pc, len, off, i, written>>

\* A request closes the buffer of a part.  The buffer of a single upload is
\* closed by its own handler, after the upload.
ClosePart(k) ==
  /\ ~single
  /\ k \in DOMAIN parts \ closed
  /\ closed' = closed \cup {k}
  /\ UNCHANGED <<parts, single, pos, pc, len, off, i, written, got, from, copied>>

Next ==
  \/ \E n \in 1..MaxRead : ReadSingle(n) \/ Read(n)
  \/ SkipPart \/ ReadPart \/ LastPart
  \/ \E o \in 0..MaxSeek : Seek(o)
  \/ \E k \in DOMAIN parts : ClosePart(k)

Spec == Init /\ [][Next]_vars

-----------------------------------------------------------------------------
(* Properties.                                                              *)

\* A body is read as one contiguous content, whether it is one buffer in
\* memory or in a file or consists of parts, also when a part is empty, when a
\* slice spans several parts and when parts are closed meanwhile.
Source == INSTANCE ByteSource WITH content <- Content
ImplementsSource == Source!Spec

\* A consumer that is told EOF has everything from the offset it has sought
\* to: a hash or an upload that ends without an error covers the whole body.
EOFMeansAll ==
  got.status = "EOF" => copied = SubSeq(Content, from + 1, Size)
=============================================================================
