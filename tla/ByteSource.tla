----------------------------- MODULE ByteSource -----------------------------
(***************************************************************************)
(* What the pipeline expects of a body it can upload again: contiguous     *)
(* content that is read piece by piece from any offset (io.Reader and      *)
(* io.Seeker, as hashUploadReader and copyWithContext use them).           *)
(***************************************************************************)
EXTENDS Naturals, Sequences

CONSTANT Byte

VARIABLES
  content,   \* what the body consists of
  pos,       \* the offset the next Read starts at
  got        \* what the last Read returned

vars == <<content, pos, got>>

Nothing == [bytes |-> <<>>, status |-> "none"]

Init ==
  /\ content \in Seq(Byte)
  /\ pos = 0
  /\ got = Nothing

\* A Read returns the bytes at pos, io.EOF only when there are no more, and
\* it may fail after some bytes.
Read ==
  /\ \E n \in 0..Len(content), status \in {"nil", "EOF", "error"} :
       /\ pos + n <= Len(content) \/ n = 0
       /\ status = "EOF" => pos + n >= Len(content)
       /\ got' = [bytes |-> SubSeq(content, pos + 1, pos + n), status |-> status]
       /\ pos' = pos + n
  /\ UNCHANGED content

Seek ==
  /\ pos' \in Nat
  /\ got' = Nothing
  /\ UNCHANGED content

Next == Read \/ Seek

Spec == Init /\ [][Next]_vars
=============================================================================
