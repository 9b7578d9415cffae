--------------------------- MODULE MCSharedSchema ---------------------------
(***************************************************************************)
(* Instances of SharedSchema for TLC.                                      *)
(***************************************************************************)
EXTENDS SharedSchema, TLC

CONSTANTS p1, p2, r1, r2

\* Each plan is deployed once.
DistinctRequests == (r1 :> p1) @@ (r2 :> p2)

\* The README's rename-v1 and a second plan that adds one of its columns.
MCInitialCols == {"full_name"}
MCAdds == (p1 :> {"display_name", "phone"}) @@ (p2 :> {"phone"})
MCDrops == (p1 :> {"full_name"}) @@ (p2 :> {})
=============================================================================
