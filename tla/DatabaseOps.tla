---------------------------- MODULE DatabaseOps ----------------------------
(***************************************************************************)
(* The schema lock of one database: the coordinator DatabaseOpsWorkflow    *)
(* (src/internal/bluegreen/db_ops_workflow.go), the HTTP requests that     *)
(* create deployments through StartDeployment (src/cmd/blue-green/main.go) *)
(* and the deployment runs, of which only the start, the notification of   *)
(* the coordinator and the end matter here.                                *)
(*                                                                         *)
(* A request takes three calls to the Temporal server, and may fail before *)
(* any of them; nothing undoes the calls already made.  A run is named by  *)
(* its plan: signals go to whichever run of that name is open, and a start *)
(* request that finds an open run attaches to it without an error.         *)
(***************************************************************************)
EXTENDS Naturals, Sequences, FiniteSets

CONSTANTS
    Plans,        \* plan ids
    NoPlan,       \* activeDeployment = nil
    Requests,     \* POST /v1/deployments requests
    PlanOf,       \* the plan each request carries
    MaxFailures   \* bound: requests that fail half-way

ASSUME LockAssumption ==
    /\ NoPlan \notin Plans
    /\ PlanOf \in [Requests -> Plans]
    /\ MaxFailures \in Nat

VARIABLES
    request,      \* the call each request is about to make, or its outcome
    coordinator,  \* the coordinator workflow has been started
    active,       \* activeDeployment.PlanID
    lockTimer,    \* the lock-timeout goroutine of the active deployment
    continueAsNewRequested,
    completedOps, \* plan ids of completedOps, oldest first
    run,          \* status of the newest run of each plan
    rollback,     \* that run has received the lock-timeout rollback
    completions,  \* deployment_complete signals not yet received, per plan
    signals,      \* lock-timeout rollback signals under way, per plan
    failures      \* requests that have failed half-way

lockVars == <<active, lockTimer>>
opsVars  == <<continueAsNewRequested, completedOps>>
runVars  == <<run, rollback>>
netVars  == <<completions, signals>>
vars == <<request, coordinator, lockVars, opsVars, runVars, netVars, failures>>

Answers == {"created", "locked", "failed"}

TypeOK ==
    /\ request \in [Requests -> {"ensure", "acquire", "start"} \cup Answers]
    /\ coordinator \in BOOLEAN
    /\ active \in Plans \cup {NoPlan}
    /\ lockTimer \in {"off", "armed", "fired"}
    /\ continueAsNewRequested \in BOOLEAN
    /\ completedOps \in Seq(Plans)
    /\ run \in [Plans -> {"none", "running", "closing", "closed"}]
    /\ rollback \in [Plans -> BOOLEAN]
    /\ completions \in [Plans -> Nat]
    /\ signals \in [Plans -> Nat]
    /\ failures \in Nat

Init ==
    /\ request = [c \in Requests |-> "ensure"]
    /\ coordinator = FALSE
    /\ active = NoPlan
    /\ lockTimer = "off"
    /\ continueAsNewRequested = FALSE
    /\ completedOps = <<>>
    /\ run = [p \in Plans |-> "none"]
    /\ rollback = [p \in Plans |-> FALSE]
    /\ completions = [p \in Plans |-> 0]
    /\ signals = [p \in Plans |-> 0]
    /\ failures = 0

-----------------------------------------------------------------------------
(***************************************************************************)
(* StartDeployment.                                                        *)
(***************************************************************************)
Answer(c, a) == request' = [request EXCEPT ![c] = a]

\* 1. Start the coordinator, or find it running.
EnsureCoordinator(c) ==
    /\ request[c] = "ensure"
    /\ coordinator' = TRUE
    /\ Answer(c, "acquire")
    /\ UNCHANGED <<lockVars, opsVars, runVars, netVars, failures>>

\* Faulty variants: no validator; the request is recorded, not its plan.
AcquireLockUnvalidated(c) ==
    /\ request[c] = "acquire"
    /\ active' = PlanOf[c]
    /\ lockTimer' = "armed"
    /\ Answer(c, "start")
    /\ UNCHANGED <<coordinator, opsVars, runVars, netVars, failures>>

AcquireLockMislabelled(c) ==
    /\ request[c] = "acquire"
    /\ active = NoPlan
    /\ active' = c
    /\ lockTimer' = "armed"
    /\ Answer(c, "start")
    /\ UNCHANGED <<coordinator, opsVars, runVars, netVars, failures>>

\* Faulty variant: the lock-timeout goroutine is not started.
AcquireLockUntimed(c) ==
    /\ request[c] = "acquire"
    /\ active = NoPlan
    /\ active' = PlanOf[c]
    /\ Answer(c, "start")
    /\ UNCHANGED <<coordinator, lockTimer, opsVars, runVars, netVars, failures>>

\* 2. The update, granted: validator and handler run in one workflow task.
AcquireLock(c) ==
    /\ request[c] = "acquire"
    /\ active = NoPlan
    /\ active' = PlanOf[c]
    /\ lockTimer' = "armed"
    /\ Answer(c, "start")
    /\ UNCHANGED <<coordinator, opsVars, runVars, netVars, failures>>

\* 2. The update, rejected by the validator.
RejectLocked(c) ==
    /\ request[c] = "acquire"
    /\ active # NoPlan
    /\ Answer(c, "locked")
    /\ UNCHANGED <<coordinator, lockVars, opsVars, runVars, netVars, failures>>

\* 3. Start the run, or attach to the open run of the same id.  A closed
\* run does not stand in the way of a new one.
StartRun(c) ==
    /\ request[c] = "start"
    /\ LET p == PlanOf[c] IN
         IF run[p] \in {"running", "closing"}
         THEN UNCHANGED runVars
         ELSE /\ run' = [run EXCEPT ![p] = "running"]
              /\ rollback' = [rollback EXCEPT ![p] = FALSE]
    /\ Answer(c, "created")
    /\ UNCHANGED <<coordinator, lockVars, opsVars, netVars, failures>>

\* The caller's context ends, the API process dies or a call fails.
RequestFails(c) ==
    /\ request[c] \notin Answers
    /\ failures < MaxFailures
    /\ failures' = failures + 1
    /\ Answer(c, "failed")
    /\ UNCHANGED <<coordinator, lockVars, opsVars, runVars, netVars>>

-----------------------------------------------------------------------------
(***************************************************************************)
(* DatabaseOpsWorkflow.                                                    *)
(***************************************************************************)
\* Faulty variant: the signal is not sent.
LockTimerFiresSilently ==
    /\ lockTimer = "armed"
    /\ lockTimer' = "fired"
    /\ UNCHANGED <<request, coordinator, active, opsVars, runVars, netVars, failures>>

\* The timer goroutine gives up after its signal, delivered or not: the lock
\* stays with the deployment.
LockTimerFires ==
    /\ lockTimer = "armed"
    /\ lockTimer' = "fired"
    /\ signals' = [signals EXCEPT ![active] = @ + 1]
    /\ UNCHANGED <<request, coordinator, active, opsVars, runVars, completions, failures>>

\* Faulty variant: continue-as-new is only considered when its timer fires.
ReceiveCompletionForgetful(p) ==
    /\ completions[p] > 0
    /\ completions' = [completions EXCEPT ![p] = @ - 1]
    /\ active' = NoPlan
    /\ lockTimer' = "off"
    /\ completedOps' = Append(completedOps, p)
    /\ UNCHANGED <<request, coordinator, continueAsNewRequested, runVars, signals, failures>>

\* One turn of the main loop on deployment_complete.  Whose completion it is
\* is not compared with activeDeployment.  A requested continue-as-new takes
\* place at the end of the turn and starts over with an empty history.
ReceiveCompletion(p) ==
    /\ completions[p] > 0
    /\ completions' = [completions EXCEPT ![p] = @ - 1]
    /\ active' = NoPlan
    /\ lockTimer' = "off"
    /\ IF continueAsNewRequested
       THEN completedOps' = <<>>
       ELSE completedOps' = Append(completedOps, p)
    /\ continueAsNewRequested' = FALSE
    /\ UNCHANGED <<request, coordinator, runVars, signals, failures>>

\* Faulty variant: the coordinator recycles with the lock held.
ContinueTimerFiresAtOnce ==
    /\ coordinator
    /\ active' = NoPlan
    /\ lockTimer' = "off"
    /\ completedOps' = <<>>
    /\ UNCHANGED <<request, coordinator, continueAsNewRequested, runVars, netVars, failures>>

\* One turn of the main loop on the 24h timer: deferred while a deployment
\* holds the lock.
ContinueTimerFires ==
    /\ coordinator
    /\ ~continueAsNewRequested
    /\ IF active = NoPlan
       THEN completedOps' = <<>> /\ UNCHANGED continueAsNewRequested
       ELSE continueAsNewRequested' = TRUE /\ UNCHANGED completedOps
    /\ UNCHANGED <<request, coordinator, lockVars, runVars, netVars, failures>>

-----------------------------------------------------------------------------
(***************************************************************************)
(* Deployment runs, as the coordinator sees them.                          *)
(***************************************************************************)
\* The rollback signal goes to the open run of that id; with none open the
\* error is discarded.
DeliverRollback(p) ==
    /\ signals[p] > 0
    /\ signals' = [signals EXCEPT ![p] = @ - 1]
    /\ rollback' = [rollback EXCEPT ![p] = @ \/ run[p] = "running"]
    /\ UNCHANGED <<request, coordinator, lockVars, opsVars, run, completions, failures>>

\* Somebody rolls the deployment back by hand; with no open run of that id
\* the signal is an error.
PressRollback(p) ==
    /\ run[p] = "running"
    /\ rollback' = [rollback EXCEPT ![p] = TRUE]
    /\ UNCHANGED <<request, coordinator, lockVars, opsVars, run, netVars, failures>>

\* Faulty variant: the coordinator is told before the work is over.
NotifyEarly(p) ==
    /\ run[p] = "running"
    /\ completions[p] = 0
    /\ completions' = [completions EXCEPT ![p] = @ + 1]
    /\ UNCHANGED <<request, coordinator, lockVars, opsVars, runVars, signals, failures>>

\* notifyParent on any terminal exit; the run is still open.
Notify(p) ==
    /\ run[p] = "running"
    /\ run' = [run EXCEPT ![p] = "closing"]
    /\ completions' = [completions EXCEPT ![p] = @ + 1]
    /\ UNCHANGED <<request, coordinator, lockVars, opsVars, rollback, signals, failures>>

Close(p) ==
    /\ run[p] = "closing"
    /\ run' = [run EXCEPT ![p] = "closed"]
    /\ UNCHANGED <<request, coordinator, lockVars, opsVars, rollback, netVars, failures>>

RequestStep(c) == EnsureCoordinator(c) \/ AcquireLock(c) \/ RejectLocked(c) \/ StartRun(c)

Next ==
    \/ \E c \in Requests : RequestStep(c) \/ RequestFails(c)
    \/ \E p \in Plans : ReceiveCompletion(p) \/ DeliverRollback(p) \/ PressRollback(p)
                          \/ Notify(p) \/ Close(p)
    \/ LockTimerFires
    \/ ContinueTimerFires

Spec == Init /\ [][Next]_vars

\* The server fires timers and delivers signals, a worker is up, requests go
\* on.  Nobody has to approve: a run need only end once it has been told to
\* roll back (PendingRollbackEnds of BlueGreenDeployment).
FairSpec ==
    /\ Spec
    /\ WF_vars(LockTimerFires)
    /\ \A c \in Requests : WF_vars(RequestStep(c))
    /\ \A p \in Plans :
          /\ WF_vars(ReceiveCompletion(p))
          /\ WF_vars(DeliverRollback(p))
          /\ WF_vars(rollback[p] /\ Notify(p))
          /\ WF_vars(Close(p))

-----------------------------------------------------------------------------
(***************************************************************************)
(* Safety.                                                                 *)
(***************************************************************************)
\* Only the deployment that holds the lock is at work, whatever requests
\* fail half-way, are repeated or race with the end of a run, and across
\* the coordinator's recycling (db_ops_workflow.go:26-27 and 31-32).
MutualExclusion == \A p \in Plans : run[p] = "running" => active = p

\* The completion handler clears the lock without comparing plan ids
\* (db_ops_workflow.go:144-165).  That is harmless: every completion under
\* way is the holder's, there is only one, and its sender is done.
CompletionFromHolder ==
    \A p \in Plans :
        completions[p] > 0 => active = p /\ completions[p] = 1 /\ run[p] # "running"

\* Nobody is about to start the run of the lock's holder, no run of it is
\* open that has not notified, and no completion is under way.
Orphaned(p) ==
    /\ active = p
    /\ run[p] # "running"
    /\ completions[p] = 0
    /\ \A c \in Requests : PlanOf[c] = p => request[c] # "start"

\* The holder's run is open and the lock timeout has passed it by: nobody but
\* a person will end it.
Overlooked(p) ==
    /\ active = p
    /\ run[p] = "running"
    /\ ~rollback[p]
    /\ lockTimer = "fired"
    /\ signals[p] = 0

Lost(p) == Orphaned(p) \/ Overlooked(p)

\* There are three ways to lose the lock and no fourth: StartDeployment fails
\* between the grant and the start of the run (main.go:217), or it attaches
\* to the previous run of the plan, which has notified and is about to close
\* (main.go:222), or the lock timeout fires before the run is started and
\* signals a run that does not exist (db_ops_workflow.go:101-106).  Signals,
\* completions, recycling and other plans lose none.
LockLostOnlyBy ==
    [][\A p \in Plans : Lost(p)' /\ ~Lost(p) =>
          \E c \in Requests :
              /\ PlanOf[c] = p
              /\ request[c] = "start"
              /\ request'[c] = "failed" \/ run[p] = "closing" \/ lockTimer = "fired"]_vars

(***************************************************************************)
(* Liveness.                                                               *)
(***************************************************************************)
\* The lock timeout sees to it that a lock is given back ("releases the lock
\* automatically", cmd/blue-green/README.md:339-346), whether or not anybody
\* approves, unless it is lost in one of the ways of LockLostOnlyBy.
LockReleased == \A p \in Plans : active = p ~> active # p \/ Lost(p)

\* The coordinator recycles after "waiting for any in-flight deployment to
\* complete" (db_ops_workflow.go:31-32): the wait has an end, but for a lock
\* that is lost.
RecycleHappens ==
    continueAsNewRequested ~> ~continueAsNewRequested \/ \E p \in Plans : Lost(p)

(***************************************************************************)
(* Refinement.                                                             *)
(***************************************************************************)
Lock == INSTANCE SchemaLock WITH
    holder  <- active,
    working <- {p \in Plans : run[p] = "running"}

ImplementsSchemaLock == Lock!Spec
=============================================================================
