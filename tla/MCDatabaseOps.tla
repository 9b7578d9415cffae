--------------------------- MODULE MCDatabaseOps ---------------------------
(***************************************************************************)
(* Instances of DatabaseOps for TLC.                                       *)
(***************************************************************************)
EXTENDS DatabaseOps, TLC

CONSTANTS p1, p2, r1, r2, r3

\* Two people deploy p1, one of them perhaps again, and one deploys p2.
RacingRequests == (r1 :> p1) @@ (r2 :> p1) @@ (r3 :> p2)
=============================================================================
