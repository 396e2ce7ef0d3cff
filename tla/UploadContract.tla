--------------------------- MODULE UploadContract ---------------------------
(***************************************************************************)
(* What one upload promises its client and the older backups, whatever     *)
(* calls it makes: the object under the storage path may change freely     *)
(* while the upload is storing, it is acceptable at the moment the upload  *)
(* is accepted, and from then on (while older backups are deleted, and     *)
(* after the answer) it does not change any more.                          *)
(***************************************************************************)
EXTENDS Naturals, Sequences

CONSTANTS Byte, Requests, NoHeader

VARIABLES req, phase, object, outcome

vars == <<req, phase, object, outcome>>

File == [exists : BOOLEAN, data : Seq(Byte)]

\* The digest the object is verified against, as verifier.go compares it.
Wanted(r) == IF r.header = NoHeader THEN [digest |-> r.body, upper |-> FALSE]
                                    ELSE r.header

\* The body is not the one the client announced.
Misannounced(r) == r.header # NoHeader /\ r.header.digest # r.body

Acceptable(r, file) ==
  /\ r.verification => [digest |-> file.data, upper |-> FALSE] = Wanted(r)
  /\ ~r.damage /\ ~r.prior.exists => file = [exists |-> TRUE, data |-> r.body]
  /\ r.mode # "FULLY_IMMEDIATELY" => ~Misannounced(r)

\* A request that is checked as a whole before anything is stored.
Untouchable(r) == r.mode = "FULLY_COMPLETE" /\ Misannounced(r)

Init ==
  /\ req \in Requests
  /\ phase = "storing"
  /\ object = req.prior
  /\ outcome = "none"

Store ==
  /\ phase = "storing" /\ ~Untouchable(req)
  /\ object' \in File
  /\ UNCHANGED <<req, phase, outcome>>

Accept ==
  /\ phase = "storing"
  /\ phase' = "accepted"
  /\ object' \in File
  /\ Acceptable(req, object')
  /\ UNCHANGED <<req, outcome>>

Refuse ==
  /\ phase = "storing"
  /\ phase' = "done"
  /\ outcome' \in {"verificationFailed", "error"}
  /\ IF Untouchable(req) THEN UNCHANGED object ELSE object' \in File
  /\ UNCHANGED req

Finish ==
  /\ phase = "accepted"
  /\ phase' = "done"
  /\ outcome' \in {"ok", "error"}
  /\ UNCHANGED <<req, object>>

Next == Store \/ Accept \/ Refuse \/ Finish

Spec == Init /\ [][Next]_vars
=============================================================================
