-------------------------- MODULE MCBufferManager --------------------------
(***************************************************************************)
(* Model checking of BufferManager: bodies that are empty, of unknown      *)
(* length, as long as buffer.memory and longer, and a budget that two      *)
(* bodies fill exactly or exceed by one.                                   *)
(***************************************************************************)
EXTENDS BufferManager, TLC

CONSTANTS b1, b2, b3, b4, b5, b6

MCBuffers == {b1, b2, b3, b4, b5, b6}
MCSizeOf == (b1 :> 2) @@ (b2 :> 3) @@ (b3 :> 1) @@ (b4 :> 4) @@ (b5 :> 0) @@ (b6 :> -1)
=============================================================================
