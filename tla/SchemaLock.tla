----------------------------- MODULE SchemaLock -----------------------------
(***************************************************************************)
(* What the per-database coordinator promises: at most one deployment      *)
(* works on the schema at a time, and only the one the lock was granted    *)
(* to ("at most one blue-green deployment runs at a time against this      *)
(* database", src/internal/bluegreen/db_ops_workflow.go:26).  Clients,     *)
(* signals, timers and the coordinator's recycling do not appear.          *)
(***************************************************************************)
CONSTANTS Plans, NoPlan

VARIABLES
    holder,   \* the plan the lock is granted to, or NoPlan
    working   \* the plans a deployment is working on the schema for

vars == <<holder, working>>

Init == holder = NoPlan /\ working = {}

Acquire(p) ==
    /\ holder = NoPlan
    /\ holder' = p
    /\ UNCHANGED working

Begin ==
    /\ holder # NoPlan
    /\ working = {}
    /\ working' = {holder}
    /\ UNCHANGED holder

End ==
    /\ working = {holder}
    /\ working' = {}
    /\ UNCHANGED holder

Release ==
    /\ holder # NoPlan
    /\ working = {}
    /\ holder' = NoPlan
    /\ UNCHANGED working

Next == (\E p \in Plans : Acquire(p)) \/ Begin \/ End \/ Release

Spec == Init /\ [][Next]_vars
=============================================================================
