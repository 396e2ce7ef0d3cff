----------------------------- MODULE MCHandlers -----------------------------
(***************************************************************************)
(* Model checking of Handlers: three requests, of which two share a key,   *)
(* in every combination of buffered, streamed, attached and detached keys. *)
(* Two of the bodies fit into memory one at a time, the length of the      *)
(* third one is not announced.                                             *)
(***************************************************************************)
EXTENDS Handlers, TLC

CONSTANTS first, second, other, shared, own

MCRequests == {first, second, other}
MCUrls == {shared, own}

MCSizeOf == (first :> 2) @@ (second :> -1) @@ (other :> 1)

Configured(unknown, off, detached) ==
  [urlOf |-> (first :> shared) @@ (second :> shared) @@ (other :> own),
   unknown |-> unknown, off |-> off, detached |-> detached]

MCCases ==
  {Configured({}, {}, {shared}), Configured({}, {shared}, {shared, own}),
   Configured({}, {own}, {}), Configured({own}, {}, {own})}
=============================================================================
