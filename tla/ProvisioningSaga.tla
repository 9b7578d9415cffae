-------------------------- MODULE ProvisioningSaga --------------------------
(***************************************************************************)
(* What a provisioning workflow promises (the doc comments of              *)
(* src/internal/temporal/workflow.go:22-24 and session2_workflow.go:22-24):*)
(* it succeeds with every resource it needs, or it fails, and then it has  *)
(* turned once to each resource it knew it had, and to no other.           *)
(***************************************************************************)
CONSTANT Needed \* the resources a successful run has acquired

VARIABLES
    phase,      \* "none", "forward", "undoing", "completed" or "failed"
    acquired,   \* resources this run knows it has
    toUndo      \* of these, the ones its compensation has yet to turn to

vars == <<phase, acquired, toUndo>>

Init == phase = "none" /\ acquired = {} /\ toUndo = {}

\* A run starts afresh, with no memory of the one before.
Begin ==
    /\ phase \in {"none", "completed", "failed"}
    /\ phase' = "forward" /\ acquired' = {} /\ toUndo' = {}

Acquire ==
    /\ phase = "forward"
    /\ \E r \in Needed \ acquired : acquired' = acquired \cup {r}
    /\ UNCHANGED <<phase, toUndo>>

Succeed ==
    /\ phase = "forward" /\ acquired = Needed
    /\ phase' = "completed"
    /\ UNCHANGED <<acquired, toUndo>>

\* An error before anything is acquired may end the run at once.
Refuse ==
    /\ phase = "forward" /\ acquired = {}
    /\ phase' = "failed"
    /\ UNCHANGED <<acquired, toUndo>>

Abort ==
    /\ phase = "forward"
    /\ phase' = "undoing" /\ toUndo' = acquired
    /\ UNCHANGED acquired

\* Deleted, or given up.
Undo ==
    /\ phase = "undoing"
    /\ \E r \in toUndo : toUndo' = toUndo \ {r}
    /\ UNCHANGED <<phase, acquired>>

Fail ==
    /\ phase = "undoing" /\ toUndo = {}
    /\ phase' = "failed"
    /\ UNCHANGED <<acquired, toUndo>>

Next == Begin \/ Acquire \/ Succeed \/ Refuse \/ Abort \/ Undo \/ Fail

Spec == Init /\ [][Next]_vars
=============================================================================
