------------------------ MODULE DeploymentLifecycle ------------------------
(***************************************************************************)
(* What a blue-green deployment promises the people who approve it and the *)
(* coordinator that holds the schema lock for it, without activities,      *)
(* retries, statements or signals: the phase diagram at the head of        *)
(* src/internal/bluegreen/workflow.go, the rule that the blue schema is    *)
(* only destroyed once the contract gate has been cleared, and one         *)
(* notification on a terminal exit.                                        *)
(***************************************************************************)
EXTENDS Naturals

VARIABLES
    phase,       \* the deployment's phase
    cleared,     \* the contract gate has been cleared
    blueIntact,  \* the blue application still finds its columns
    notices      \* deployment_complete signals sent

vars == <<phase, cleared, blueIntact, notices>>

Terminal == {"complete", "rolled_back", "failed"}
BeforeContract == {"plan_review", "expanding", "expand_verify",
                   "cutover", "monitoring", "contract_wait"}

\* The forward arrows of the phase diagram.
Forward == [pending       |-> "plan_review",
            plan_review   |-> "expanding",
            expanding     |-> "expand_verify",
            expand_verify |-> "cutover",
            cutover       |-> "monitoring",
            monitoring    |-> "contract_wait",
            contract_wait |-> "contracting",
            contracting   |-> "complete"]

Init ==
    /\ phase = "pending"
    /\ cleared = FALSE
    /\ blueIntact = TRUE
    /\ notices = 0

Advance ==
    /\ phase \in DOMAIN Forward
    /\ phase' = Forward[phase]
    /\ cleared' = (cleared \/ phase = "contract_wait")
    /\ UNCHANGED <<blueIntact, notices>>

\* any_phase -> rolled_back, never once contracting has begun.
Undo ==
    /\ phase \in BeforeContract
    /\ phase' = "rolled_back"
    /\ UNCHANGED <<cleared, blueIntact, notices>>

\* An invalid plan, or a contract statement that failed.
Fail ==
    /\ \/ phase = "plan_review" /\ UNCHANGED blueIntact
       \/ phase = "contracting" /\ blueIntact' \in BOOLEAN
    /\ phase' = "failed"
    /\ UNCHANGED <<cleared, notices>>

\* Contract statements change the blue schema, possibly late.
Contract ==
    /\ cleared
    /\ blueIntact' \in BOOLEAN
    /\ UNCHANGED <<phase, cleared, notices>>

Notify ==
    /\ phase \in Terminal
    /\ notices = 0
    /\ notices' = 1
    /\ UNCHANGED <<phase, cleared, blueIntact>>

Next == Advance \/ Undo \/ Fail \/ Contract \/ Notify

Spec == Init /\ [][Next]_vars
=============================================================================
