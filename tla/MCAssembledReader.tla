------------------------- MODULE MCAssembledReader -------------------------
(***************************************************************************)
(* Model checking of AssembledReader: single buffers, and up to three      *)
(* parts of which some are empty, in memory and in files, read with slices *)
(* shorter than a part, as long as one and longer than all of them.        *)
(***************************************************************************)
EXTENDS AssembledReader

MCByte == 1..4

Memory(content) == [data |-> content, file |-> FALSE]
File(content) == [data |-> content, file |-> TRUE]

MCPartLists ==
  {<<>>, <<File(<<>>)>>, <<File(<<1, 2>>)>>, <<Memory(<<1, 2, 3>>)>>,
   <<Memory(<<1, 2>>), File(<<3, 4>>)>>,
   <<File(<<1>>), Memory(<<>>), File(<<2, 3>>)>>,
   <<Memory(<<>>), File(<<1, 2, 3>>), Memory(<<4>>)>>}
=============================================================================
