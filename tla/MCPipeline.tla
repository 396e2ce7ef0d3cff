---------------------------- MODULE MCPipeline ----------------------------
(***************************************************************************)
(* Model checking of Pipeline: two values of content beside Zero, a body   *)
(* longer than one chunk and the empty body, headers that are absent,      *)
(* right, right in upper case and wrong, and a storage path that is free   *)
(* or holds a shorter, an equally long or a longer file.  A storage that   *)
(* damages bytes is given detached uploads of the longer body.             *)
(***************************************************************************)
EXTENDS Pipeline

MCByte == {0, 1, 2}
MCZero == 0

Body == <<1, 2, 1>>
Free == [exists |-> FALSE, data |-> <<>>]
Holds(content) == [exists |-> TRUE, data |-> content]
Hexes == {NoHeader, [digest |-> Body, upper |-> FALSE],
          [digest |-> Body, upper |-> TRUE], [digest |-> <<2>>, upper |-> FALSE]}

RequestsOver(bodies, priors, detached, damaged) ==
  [mode : Modes, verification : BOOLEAN, detach : detached, header : Hexes,
   body : bodies, prior : priors, damage : damaged]

IntactRequests ==
  RequestsOver({Body, <<>>},
               {Free, Holds(<<2>>), Holds(<<2, 2, 2>>), Holds(<<2, 2, 2, 2>>)},
               BOOLEAN, {FALSE})
DamagedRequests == RequestsOver({Body}, {Free, Holds(<<2, 2, 2>>)}, {TRUE}, {TRUE})

\* Every kind of request, of file already at the path and of storage.
AllRequests == IntactRequests \cup DamagedRequests

\* The path is free, as when no other upload of the key ran in the same second.
FreshRequests == RequestsOver({Body, <<>>}, {Free}, BOOLEAN, {FALSE})
=============================================================================
