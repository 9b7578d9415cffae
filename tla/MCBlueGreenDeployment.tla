----------------------- MODULE MCBlueGreenDeployment -----------------------
(***************************************************************************)
(* Instances of BlueGreenDeployment for TLC: the migration plan of         *)
(* cmd/blue-green/README.md (rename full_name to display_name, add phone)  *)
(* and plans without IF [NOT] EXISTS.                                      *)
(***************************************************************************)
EXTENDS BlueGreenDeployment

Add(c, g) == [op |-> "add", cols |-> {c}, guarded |-> g]
Drop(C, g) == [op |-> "drop", cols |-> C, guarded |-> g]
Backfill == [op |-> "dml", cols |-> {}, guarded |-> FALSE]

MCInitialCols == {"full_name", "search_key"}
MCBlueCols == {"full_name"}
MCGreenCols == {"display_name", "phone"}

\* The README's plan; DROP ... CASCADE takes search_key along.
ReadmeExpand == <<Add("display_name", TRUE), Add("phone", TRUE), Backfill>>
ReadmeContract == <<Drop({"full_name", "search_key"}, TRUE), Add("search_key", TRUE)>>
ReadmeRollback == <<Drop({"display_name"}, TRUE), Drop({"phone"}, TRUE)>>

\* One renamed column, written without guards: once the column is there, an
\* expand attempt that stopped at the backfill cannot be repeated.
PlainGreenCols == {"display_name"}
PlainExpand == <<Add("display_name", FALSE), Backfill>>
PlainContract == <<Drop({"full_name"}, FALSE)>>
PlainRollback == <<Drop({"display_name"}, FALSE)>>
=============================================================================
