------------------------------ MODULE Buffers ------------------------------
(***************************************************************************)
(* How a buffer of one body or part answers a read: the memory buffer and  *)
(* the file buffer (internal/buffer/memory.go, file.go) end differently.   *)
(* At the end of the content a Read of a file returns the last bytes       *)
(* together with io.EOF, a Read of memory returns them without it.  A      *)
(* closed file cannot be read; a closed memory buffer can.                 *)
(***************************************************************************)
EXTENDS Naturals, Sequences

Answer(bytes, status) == [bytes |-> bytes, status |-> status]

\* What copy moves into a slice of n bytes.
Copied(data, n, off) ==
  SubSeq(data, off + 1, IF off + n < Len(data) THEN off + n ELSE Len(data))

\* Variant: the border is tested one byte too early.
MemoryReadEarly(data, n, off) ==
  IF off + 1 >= Len(data) THEN Answer(<<>>, "EOF")
                          ELSE Answer(Copied(data, n, off), "nil")

MemoryRead(data, n, off) ==
  IF off >= Len(data) THEN Answer(<<>>, "EOF")
                      ELSE Answer(Copied(data, n, off), "nil")

MemoryReadAt(data, n, off) ==
  Answer(Copied(data, n, off), IF off + n > Len(data) THEN "EOF" ELSE "nil")

\* Read and ReadAt of a file are one function of the operating system's file.
FileRead(data, n, off, closed) ==
  IF closed THEN Answer(<<>>, "error") ELSE MemoryReadAt(data, n, off)

BufferRead(b, n, off, closed) ==
  IF b.file THEN FileRead(b.data, n, off, closed) ELSE MemoryRead(b.data, n, off)

BufferReadAt(b, n, off, closed) ==
  IF b.file THEN FileRead(b.data, n, off, closed) ELSE MemoryReadAt(b.data, n, off)
=============================================================================
