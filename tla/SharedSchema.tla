---------------------------- MODULE SharedSchema ----------------------------
(***************************************************************************)
(* Deployments one after another on one schema: the coordinator and its    *)
(* clients (DatabaseOps) composed with what the deployment runs do to the  *)
(* table (src/internal/bluegreen/workflow.go, activities.go), and with the *)
(* dashboard's buttons (ui.go).                                            *)
(*                                                                         *)
(* DatabaseOps knows of a run that it works; here a run works by attempts  *)
(* of its expand, contract and rollback SQL.  An attempt that the server   *)
(* has timed out goes on in its worker: after the run's retry, after its   *)
(* end, and under a later holder of the lock.  BlueGreenDeployment has the *)
(* inside of one run, statement by statement; an attempt is one step here. *)
(***************************************************************************)
EXTENDS DatabaseOps

CONSTANTS
    InitialCols,  \* columns of the table before any deployment
    Adds,         \* the columns each plan's expand adds and its rollback drops
    Drops,        \* the columns each plan's contract drops
    Pages,        \* dashboard requests
    MaxLeftover   \* bound: timed-out attempts executing at a time

ASSUME PlansAssumption ==
    /\ Adds \in [Plans -> SUBSET UNION {Adds[p] : p \in Plans}]
    /\ Drops \in [Plans -> SUBSET UNION {Drops[p] : p \in Plans}]
    /\ \A p \in Plans : Drops[p] \cap Adds[p] = {}
    /\ MaxLeftover \in Nat

Columns == InitialCols \cup UNION {Adds[p] \cup Drops[p] : p \in Plans}

VARIABLES
    work,      \* how far the newest run of each plan is
    attempt,   \* the server waits for an attempt of that run's current SQL
    leftover,  \* timed-out attempts still executing: pairs of plan and SQL
    columns,   \* columns of the customer table
    clicked,   \* the plan a rollback button is about to signal
    \* history variable, read by properties only
    overran    \* an attempt has been timed out

schemaVars == <<work, attempt, leftover, columns, overran>>
sharedVars == <<vars, schemaVars, clicked>>

\* A run at work on one of the three lists of SQL; the run goes by its
\* phase, compensation is the rollback SQL.
SQL == {"expanding", "contracting", "compensating"}

SharedTypeOK ==
    /\ TypeOK
    /\ work \in [Plans -> SQL \cup {"review", "expanded", "complete", "rolled_back", "failed"}]
    /\ attempt \in [Plans -> BOOLEAN]
    /\ leftover \subseteq Plans \X SQL
    /\ columns \subseteq Columns
    /\ clicked \in [Pages -> Plans \cup {NoPlan}]
    /\ overran \in BOOLEAN
    /\ \A p \in Plans : attempt[p] => work[p] \in SQL

SharedInit ==
    /\ Init
    /\ work = [p \in Plans |-> "review"]
    /\ attempt = [p \in Plans |-> FALSE]
    /\ leftover = {}
    /\ columns = InitialCols
    /\ clicked = [d \in Pages |-> NoPlan]
    /\ overran = FALSE

-----------------------------------------------------------------------------
(***************************************************************************)
(* A deployment run and the schema.                                        *)
(***************************************************************************)
\* What the SQL of one list leaves of the table.  The statements are guarded
\* by IF [NOT] EXISTS.
Effect(p, sql, cols) ==
    CASE sql = "expanding"    -> cols \cup Adds[p]
      [] sql = "contracting"  -> cols \ Drops[p]
      [] sql = "compensating" -> cols \ Adds[p]

\* StartRun, of a run that begins at plan_review.
StartDeployment(c) ==
    LET p == PlanOf[c] IN
    /\ StartRun(c)
    /\ work' = [work EXCEPT ![p] = IF run'[p] # run[p] THEN "review" ELSE @]
    /\ UNCHANGED <<attempt, leftover, columns, overran, clicked>>

\* The run goes on to the SQL of the next phase, or back to it for a retry.
Dispatch(p, sql) ==
    /\ run[p] = "running"
    /\ ~attempt[p]
    /\ work' = [work EXCEPT ![p] = sql]
    /\ attempt' = [attempt EXCEPT ![p] = TRUE]
    /\ UNCHANGED <<vars, leftover, columns, overran, clicked>>

\* The gates of plan_review and contract_wait are approved.
Expand(p) == work[p] = "review" /\ Dispatch(p, "expanding")
Contract(p) == work[p] = "expanded" /\ Dispatch(p, "contracting")

\* compensate, from a gate answered with a rollback or after a failure.
Compensate(p) == work[p] \in {"review", "expanding", "expanded"} /\ Dispatch(p, "compensating")

Retry(p) == work[p] \in SQL /\ Dispatch(p, work[p])

\* Faulty variant: the server goes on waiting for an attempt that is over.
AttemptSucceedsUnheard(p) ==
    /\ attempt[p]
    /\ columns' = Effect(p, work[p], columns)
    /\ work' = [work EXCEPT ![p] =
          CASE @ = "expanding"    -> "expanded"
            [] @ = "contracting"  -> "complete"
            [] @ = "compensating" -> "rolled_back"]
    /\ UNCHANGED <<vars, attempt, leftover, overran, clicked>>

\* The attempt the server waits for has executed its SQL and reports it.
AttemptSucceeds(p) ==
    /\ attempt[p]
    /\ columns' = Effect(p, work[p], columns)
    /\ attempt' = [attempt EXCEPT ![p] = FALSE]
    /\ work' = [work EXCEPT ![p] =
          CASE @ = "expanding"    -> "expanded"
            [] @ = "contracting"  -> "complete"
            [] @ = "compensating" -> "rolled_back"]
    /\ UNCHANGED <<vars, leftover, overran, clicked>>

\* It fails before its effect, or its result is lost.
AttemptFails(p) ==
    /\ attempt[p]
    /\ columns' \in {columns, Effect(p, work[p], columns)}
    /\ attempt' = [attempt EXCEPT ![p] = FALSE]
    /\ UNCHANGED <<vars, work, leftover, overran, clicked>>

\* No heartbeat for 30 s: the server gives the attempt up, its worker does not.
AttemptTimesOut(p) ==
    /\ attempt[p]
    /\ Cardinality(leftover) < MaxLeftover
    /\ attempt' = [attempt EXCEPT ![p] = FALSE]
    /\ leftover' = leftover \cup {<<p, work[p]>>}
    /\ overran' = TRUE
    /\ UNCHANGED <<vars, work, columns, clicked>>

\* A leftover attempt executes its SQL, or dies with its worker.
LeftoverEnds(p, sql) ==
    /\ <<p, sql>> \in leftover
    /\ leftover' = leftover \ {<<p, sql>>}
    /\ columns' \in {columns, Effect(p, sql, columns)}
    /\ UNCHANGED <<vars, work, attempt, overran, clicked>>

\* Faulty variant: the coordinator is told before the attempt is over.
EndBeside(p) ==
    /\ work[p] # "expanded"
    /\ Notify(p)
    /\ UNCHANGED <<schemaVars, clicked>>

\* A run that is over with its SQL, has run out of attempts of it, or was
\* given an invalid plan, notifies the coordinator.  A failed rollback SQL
\* is recorded as rolled back.
End(p) ==
    /\ ~attempt[p]
    /\ work[p] \in {"complete", "rolled_back", "review", "contracting", "compensating"}
    /\ Notify(p)
    /\ work' = [work EXCEPT ![p] =
          CASE @ = "complete" -> @
            [] @ \in {"rolled_back", "compensating"} -> "rolled_back"
            [] OTHER -> "failed"]
    /\ UNCHANGED <<attempt, leftover, columns, overran, clicked>>

-----------------------------------------------------------------------------
(***************************************************************************)
(* The dashboard's rollback button.                                        *)
(***************************************************************************)
\* activePlanID asks the coordinator for the active deployment.
ReadActivePlan(d) ==
    /\ clicked[d] = NoPlan
    /\ active # NoPlan
    /\ clicked' = [clicked EXCEPT ![d] = active]
    /\ UNCHANGED <<vars, schemaVars>>

\* Faulty variant: the signal finds a run whether or not one is open.
SignalRollbackBlindly(d) ==
    /\ clicked[d] # NoPlan
    /\ rollback' = [rollback EXCEPT ![clicked[d]] = TRUE]
    /\ clicked' = [clicked EXCEPT ![d] = NoPlan]
    /\ UNCHANGED <<request, coordinator, lockVars, opsVars, run, netVars, failures, schemaVars>>

\* RollbackDeployment signals the open run of that id, whichever it is now.
SignalRollback(d) ==
    /\ clicked[d] # NoPlan
    /\ rollback' = [rollback EXCEPT ![clicked[d]] = @ \/ run[clicked[d]] = "running"]
    /\ clicked' = [clicked EXCEPT ![d] = NoPlan]
    /\ UNCHANGED <<request, coordinator, lockVars, opsVars, run, netVars, failures, schemaVars>>

-----------------------------------------------------------------------------
\* The coordinator, its clients and the messages: no step of theirs is the
\* schema's.
CoordinatorStep ==
    /\ \/ \E c \in Requests : EnsureCoordinator(c) \/ AcquireLock(c)
                                \/ RejectLocked(c) \/ RequestFails(c)
       \/ \E p \in Plans : ReceiveCompletion(p) \/ DeliverRollback(p)
                              \/ PressRollback(p) \/ Close(p)
       \/ LockTimerFires
       \/ ContinueTimerFires
    /\ UNCHANGED <<schemaVars, clicked>>

SchemaStep(p) ==
    \/ Expand(p)
    \/ Contract(p)
    \/ Compensate(p)
    \/ Retry(p)
    \/ AttemptSucceeds(p)
    \/ AttemptFails(p)
    \/ AttemptTimesOut(p)
    \/ \E sql \in SQL : LeftoverEnds(p, sql)
    \/ End(p)

SharedNext ==
    \/ CoordinatorStep
    \/ \E c \in Requests : StartDeployment(c)
    \/ \E p \in Plans : SchemaStep(p)
    \/ \E d \in Pages : ReadActivePlan(d) \/ SignalRollback(d)

SharedSpec == SharedInit /\ [][SharedNext]_sharedVars

-----------------------------------------------------------------------------
(***************************************************************************)
(* Properties.                                                             *)
(***************************************************************************)
\* The SQL a run is waiting for is the lock holder's, and no second run
\* executes any: the lock is about statements, not only about runs
\* ("two engineers can never run competing migrations simultaneously",
\* cmd/blue-green/README.md:264).  Attempts the server has given up are not
\* covered, see PromptExpandIntact.
StatementsExcluded ==
    \A p \in Plans : attempt[p] => active = p /\ \A q \in Plans \ {p} : ~attempt[q]

\* The columns a run has expanded are there for as long as it works with
\* them, whatever other plans share the columns, were rolled back before or
\* are deployed again - as long as no attempt outlives its timeout.
PromptExpandIntact ==
    ~overran =>
      \A p \in Plans :
          run[p] = "running" /\ work[p] \in {"expanded", "contracting", "complete"}
            => Adds[p] \subseteq columns

\* A rollback from the dashboard goes to the plan that was active when the
\* button was pressed (ui.go:245-248); when it arrives, a run that takes it
\* is the lock holder's: a stale click disturbs nobody else's deployment.
ClickReachesHolder ==
    [][\A p \in Plans :
          rollback'[p] /\ ~rollback[p] /\ signals = signals' => active = p]_sharedVars

\* With what the runs do to the table added, and a button that reads and then
\* signals, the coordinator still is DatabaseOps: its safety properties, and
\* the lock's abstract specification, hold of the composition.
ImplementsDatabaseOps == Spec
=============================================================================
