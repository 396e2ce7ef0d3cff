----------------------------- MODULE MCServer -----------------------------
(***************************************************************************)
(* Model checking of Server: header mode and port mode, with and without   *)
(* the debug server, and three requests that come to any server.           *)
(***************************************************************************)
EXTENDS Server

CONSTANTS r1, r2, r3

MCRequests == {r1, r2, r3}

Debug == <<"debug">>
Header == <<"api">>
Port == <<"http", "s3">>

MCConfigs == {<<Header>>, <<Port>>, <<Debug, Header>>, <<Debug, Port>>}
=============================================================================
