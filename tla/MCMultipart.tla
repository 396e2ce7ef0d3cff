---------------------------- MODULE MCMultipart ----------------------------
(***************************************************************************)
(* Model checking of Multipart: the requests of one or two uploads of a    *)
(* key that all run at the same time.  Every part has the size of the      *)
(* whole memory budget, so that one part at a time is kept in memory and   *)
(* the others in files.                                                    *)
(***************************************************************************)
EXTENDS Multipart, TLC

CONSTANTS create, part1, part2, again1, complete, completeAll, abort, id,
          otherCreate, otherPart, otherComplete, otherId

MCOp == (create :> "create") @@ (part1 :> "part") @@ (part2 :> "part")
        @@ (again1 :> "part") @@ (complete :> "complete")
        @@ (completeAll :> "complete") @@ (abort :> "abort")
        @@ (otherCreate :> "create") @@ (otherPart :> "part")
        @@ (otherComplete :> "complete")

MCRequests == DOMAIN MCOp
MCUploadIds == {id, otherId}
MCPartNumbers == {1, 2}

\* A part is uploaded twice while the upload is completed.
Reuploaded == {create, part1, part2, again1, complete}
\* The upload is completed twice, once without a list of parts.
CompletedTwice == {create, part1, part2, complete, completeAll}
\* The upload is aborted while it is completed.
Aborted == {create, part1, again1, completeAll, abort}
\* Two uploads of the key are completed under its one lock.
TwoUploads == {create, part1, completeAll, otherCreate, otherPart, otherComplete}
MCSent == {Reuploaded, CompletedTwice, Aborted, TwoUploads}

MCIdOf == [r \in MCRequests |->
             IF r \in {otherCreate, otherPart, otherComplete} THEN otherId ELSE id]
MCPartOf == [r \in MCRequests |-> IF r = part2 THEN 2 ELSE 1]
MCListOf == [r \in MCRequests |-> IF r = complete THEN <<2, 1>> ELSE <<>>]
MCSizeOf == [r \in {q \in MCRequests : MCOp[q] = "part"} |-> 1]
=============================================================================
