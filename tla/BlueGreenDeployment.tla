------------------------ MODULE BlueGreenDeployment ------------------------
(***************************************************************************)
(* One run of BlueGreenDeploymentWorkflow                                  *)
(* (src/internal/bluegreen/workflow.go) together with the worker that      *)
(* executes its activities and the database the activities change.         *)
(*                                                                         *)
(* The workflow is a sequence of activities and human gates.  pc is the    *)
(* activity or gate its main coroutine is at; an activity is retried by    *)
(* the Temporal server up to its RetryPolicy and then its error reaches    *)
(* the workflow.  The DDL activities run several SQL statements, each in   *)
(* a transaction of its own, and heartbeat only once, when they start: the *)
(* server may time an attempt out while the worker is still executing its  *)
(* statements.  Such an attempt stays in jobs and goes on changing the     *)
(* schema beside the retry, the rollback, and whatever comes after.        *)
(***************************************************************************)
EXTENDS Naturals, Sequences, FiniteSets

CONSTANTS
    InitialCols,      \* columns before the migration
    BlueCols,         \* columns the blue (old) application's queries use
    GreenCols,        \* columns the green (new) application's queries use
    ExpandSQL,        \* the plan's statements: sequences of [op, cols, guarded]
    ContractSQL,
    RollbackSQL,
    DefaultAttempts,  \* MaximumAttempts of defaultBGActivityOptions
    DDLAttempts,      \* MaximumAttempts of ddlActivityOptions
    HasParent,        \* req.ParentWorkflowID is set
    MaxBuffered       \* bound: unread signals of one name

(***************************************************************************)
(* Phases, gates and activities.                                           *)
(***************************************************************************)
Gates == {"plan_review", "expand_verify", "monitoring", "contract_wait"}
Terminal == {"complete", "rolled_back", "failed"}
Phases == Gates \cup Terminal
            \cup {"pending", "expanding", "cutover", "contracting"}
NoPhase == "none"

\* Activities that run SQL statements under ddlActivityOptions.
DDL == {"ExecuteExpand", "ExecuteContract", "ExecuteRollback"}
\* Activities that are over in one call; ReleaseReadOnlyActivity appears
\* twice because compensate runs it again under other options.
Quick == {"ValidatePlan", "VerifyExpand", "CompatAfterExpand",
          "AcquireReadOnly", "SwitchTraffic", "ReleaseReadOnly",
          "CompatBeforeContract", "VerifyContract", "CompReleaseReadOnly"}
Activities == DDL \cup Quick
Places == Activities \cup {"Start", "Select", "Blocked",
                           "NotifyParent", "Return", "Closed"}

MaxAttempts(a) ==
    IF a \in DDL \cup {"CompReleaseReadOnly"} THEN DDLAttempts
                                              ELSE DefaultAttempts

(***************************************************************************)
(* A statement adds columns, drops columns, or leaves the schema alone     *)
(* (a backfill).  guarded stands for IF [NOT] EXISTS.                      *)
(***************************************************************************)
Columns ==
    InitialCols \cup BlueCols \cup GreenCols
      \cup (UNION {ExpandSQL[i].cols : i \in DOMAIN ExpandSQL})
      \cup (UNION {ContractSQL[i].cols : i \in DOMAIN ContractSQL})
      \cup (UNION {RollbackSQL[i].cols : i \in DOMAIN RollbackSQL})

Statement == [op : {"add", "drop", "dml"}, cols : SUBSET Columns, guarded : BOOLEAN]

SQL == [ExecuteExpand |-> ExpandSQL,
        ExecuteContract |-> ContractSQL,
        ExecuteRollback |-> RollbackSQL]

Added(sql) == UNION {sql[i].cols : i \in {k \in DOMAIN sql : sql[k].op = "add"}}
Dropped(sql) == UNION {sql[i].cols : i \in {k \in DOMAIN sql : sql[k].op = "drop"}}

Applicable(s, cols) ==
    \/ s.op = "dml"
    \/ s.guarded
    \/ s.op = "add" /\ s.cols \cap cols = {}
    \/ s.op = "drop" /\ s.cols \subseteq cols

Apply(s, cols) ==
    CASE s.op = "add"  -> cols \cup s.cols
      [] s.op = "drop" -> cols \ s.cols
      [] OTHER         -> cols

\* What MigrationPlan's comments promise of the three statement lists.
ASSUME PlanAssumption ==
    /\ ExpandSQL \in Seq(Statement)
    /\ ContractSQL \in Seq(Statement)
    /\ RollbackSQL \in Seq(Statement)
    /\ BlueCols \subseteq InitialCols
    /\ GreenCols \subseteq InitialCols \cup Added(ExpandSQL)
    /\ Dropped(ExpandSQL) = {}
    /\ Dropped(ContractSQL) \cap GreenCols = {}
    /\ Dropped(RollbackSQL) \cap BlueCols = {}

ASSUME BoundsAssumption ==
    /\ DefaultAttempts \in Nat \ {0}
    /\ DDLAttempts \in Nat \ {0}
    /\ HasParent \in BOOLEAN
    /\ MaxBuffered \in Nat

VARIABLES
    pc,          \* where the workflow's main coroutine is
    phase,       \* the workflow's phase variable (deployment_state query)
    attempt,     \* failed attempts of the current activity
    running,     \* the server waits for an attempt of the current DDL activity
    jobs,        \* DDL attempts the worker is executing
    approvals,   \* unread approve signals, each with the phase it arrived in
    rollbacks,   \* number of unread rollback signals
    timer,       \* the read-only window's timer goroutine
    switched,    \* trafficSwitched
    columns,     \* columns of the customer table
    readOnly,    \* the read-only flag set by SetReadOnly
    traffic,     \* the environment the last traffic switch selected
    notices,     \* deployment_complete signals sent to the coordinator
    \* history variables, read by properties only
    approvedAt,  \* for each gate passed, the phase its approval arrived in
    gaveUp,      \* activities that ran out of attempts
    timedOut     \* DDL activities an attempt of which was timed out

wfVars  == <<pc, phase, attempt, running>>
sigVars == <<approvals, rollbacks>>
dbVars  == <<columns, readOnly, traffic>>
histVars == <<approvedAt, gaveUp, timedOut>>
vars == <<wfVars, jobs, sigVars, timer, switched, dbVars, notices, histVars>>

Job == [act : DDL, n : Nat, next : Nat \ {0}]

TypeOK ==
    /\ pc \in Places
    /\ phase \in Phases
    /\ attempt \in Nat
    /\ running \in BOOLEAN
    /\ jobs \subseteq Job
    /\ approvals \in Seq(Phases)
    /\ rollbacks \in Nat
    /\ timer \in {"off", "armed", "fired", "cancelled"}
    /\ switched \in BOOLEAN
    /\ columns \subseteq Columns
    /\ readOnly \in BOOLEAN
    /\ traffic \in {"blue", "green"}
    /\ notices \in Nat
    /\ approvedAt \in [Gates -> Phases \cup {NoPhase}]
    /\ gaveUp \subseteq Activities
    /\ timedOut \subseteq DDL

\* The run has been started and its first workflow task is still to come.
Init ==
    /\ pc = "Start"
    /\ phase = "pending"
    /\ attempt = 0
    /\ running = FALSE
    /\ jobs = {}
    /\ approvals = <<>>
    /\ rollbacks = 0
    /\ timer = "off"
    /\ switched = FALSE
    /\ columns = InitialCols
    /\ readOnly = FALSE
    /\ traffic = "blue"
    /\ notices = 0
    /\ approvedAt = [g \in Gates |-> NoPhase]
    /\ gaveUp = {}
    /\ timedOut = {}

-----------------------------------------------------------------------------
(***************************************************************************)
(* Control flow of the main coroutine.                                     *)
(***************************************************************************)
Goto(place) ==
    /\ pc' = place
    /\ attempt' = 0
    /\ running' = FALSE

Enter(p, place) == phase' = p /\ Goto(place)

\* Faulty variant of compensate: no release.
CompensateLocked == Goto("ExecuteRollback") /\ UNCHANGED phase

\* compensate: release the read-only flag, run the rollback SQL, and only
\* then record rolled_back; the two activities' errors are discarded.
Compensate == Goto("CompReleaseReadOnly") /\ UNCHANGED phase

\* setPhase(terminal), then notifyParent, then return.
Finish(p) == Enter(p, "NotifyParent")

\* The phase and the activity behind each gate.
PhaseAfter == [plan_review   |-> "expanding",
               expand_verify |-> "cutover",
               monitoring    |-> "contract_wait",
               contract_wait |-> "contracting"]
\* Faulty variant: the contract runs without its own gate.
ActivityAfterWithoutGate == [plan_review   |-> "ExecuteExpand",
                             expand_verify |-> "AcquireReadOnly",
                             monitoring    |-> "ExecuteContract",
                             contract_wait |-> "ExecuteContract"]

ActivityAfter == [plan_review   |-> "ExecuteExpand",
                  expand_verify |-> "AcquireReadOnly",
                  monitoring    |-> "CompatBeforeContract",
                  contract_wait |-> "ExecuteContract"]

\* A gate consumes an approval that arrived when the phase was p.
Pass(p) ==
    /\ Enter(PhaseAfter[phase], ActivityAfter[phase])
    /\ approvedAt' = [approvedAt EXCEPT ![phase] = p]

\* Faulty variant: the timer goroutine's flag is not looked at.
AfterWindowUntimed ==
    IF switched THEN Enter("monitoring", "Select") ELSE Compensate

\* What follows the read-only window: the checks of lines 233-239.
AfterWindow ==
    IF timer = "fired" \/ ~switched THEN Compensate
                                    ELSE Enter("monitoring", "Select")

\* cancelTimer() is a no-op once the timer goroutine has set its flag.
CancelTimer == timer' = IF timer = "armed" THEN "cancelled" ELSE timer

\* Faulty variant: a failed contract is rolled back like the rest.
OnErrorUndoing ==
    \/ pc = "ValidatePlan" /\ Finish("failed")
    \/ pc = "SwitchTraffic" /\ Goto("ReleaseReadOnly") /\ UNCHANGED phase
    \/ pc = "ReleaseReadOnly" /\ AfterWindow
    \/ pc = "VerifyContract" /\ Finish("complete")
    \/ pc = "CompReleaseReadOnly" /\ Goto("ExecuteRollback") /\ UNCHANGED phase
    \/ pc = "ExecuteRollback" /\ Finish("rolled_back")
    \/ pc \in {"ExecuteExpand", "ExecuteContract", "AcquireReadOnly"} /\ Compensate

\* The error of an activity whose attempts are exhausted.
OnError ==
    \/ pc = "ValidatePlan" /\ Finish("failed")
    \/ /\ pc \in {"ExecuteExpand", "VerifyExpand", "CompatAfterExpand",
                  "AcquireReadOnly", "CompatBeforeContract"}
       /\ Compensate
    \/ pc = "SwitchTraffic" /\ Goto("ReleaseReadOnly") /\ UNCHANGED phase
    \/ pc = "ReleaseReadOnly" /\ AfterWindow
    \/ pc = "ExecuteContract" /\ Finish("failed")
    \/ pc = "VerifyContract" /\ Finish("complete")
    \/ pc = "CompReleaseReadOnly" /\ Goto("ExecuteRollback") /\ UNCHANGED phase
    \/ pc = "ExecuteRollback" /\ Finish("rolled_back")

\* Faulty variant: a RetryPolicy without MaximumAttempts.
AttemptFailsForever == running' = FALSE /\ UNCHANGED <<pc, phase, attempt, gaveUp, timer>>

AttemptFails ==
    IF attempt + 1 < MaxAttempts(pc)
    THEN /\ attempt' = attempt + 1
         /\ running' = FALSE
         /\ UNCHANGED <<pc, phase, gaveUp, timer>>
    ELSE /\ OnError
         /\ gaveUp' = gaveUp \cup {pc}
         /\ IF pc = "SwitchTraffic" THEN CancelTimer ELSE UNCHANGED timer

StartWorkflow ==
    /\ pc = "Start"
    /\ Enter("plan_review", "ValidatePlan")
    /\ UNCHANGED <<jobs, sigVars, timer, switched, dbVars, notices, histVars>>

-----------------------------------------------------------------------------
(***************************************************************************)
(* waitForApproval.  Select tests approveCh before rollbackCh, so among    *)
(* signals already buffered an approval wins; once it has blocked, the     *)
(* first signal delivered decides.                                         *)
(***************************************************************************)
SelectApprove ==
    /\ pc = "Select"
    /\ approvals # <<>>
    /\ approvals' = Tail(approvals)
    /\ Pass(Head(approvals))
    /\ UNCHANGED <<jobs, rollbacks, timer, switched, dbVars, notices, gaveUp, timedOut>>

\* Faulty variants: a receive that does not wait for a signal; a rollback
\* that is recorded and not carried out.
SelectRollbackUnsent ==
    /\ pc = "Select"
    /\ approvals = <<>>
    /\ rollbacks' = rollbacks - 1
    /\ Compensate
    /\ UNCHANGED <<jobs, approvals, timer, switched, dbVars, notices, histVars>>

SelectRollbackRecorded ==
    /\ pc = "Select"
    /\ approvals = <<>>
    /\ rollbacks > 0
    /\ rollbacks' = rollbacks - 1
    /\ Finish("rolled_back")
    /\ UNCHANGED <<jobs, approvals, timer, switched, dbVars, notices, histVars>>

SelectRollback ==
    /\ pc = "Select"
    /\ approvals = <<>>
    /\ rollbacks > 0
    /\ rollbacks' = rollbacks - 1
    /\ Compensate
    /\ UNCHANGED <<jobs, approvals, timer, switched, dbVars, notices, histVars>>

\* Faulty variant: only signals still to come are waited for.
SelectBlocksDeaf ==
    /\ pc = "Select"
    /\ approvals = <<>>
    /\ pc' = "Blocked"
    /\ UNCHANGED <<phase, attempt, running, jobs, sigVars, timer, switched,
                   dbVars, notices, histVars>>

SelectBlocks ==
    /\ pc = "Select"
    /\ approvals = <<>>
    /\ rollbacks = 0
    /\ pc' = "Blocked"
    /\ UNCHANGED <<phase, attempt, running, jobs, sigVars, timer, switched,
                   dbVars, notices, histVars>>

ApproveAtGate ==
    /\ pc = "Blocked"
    /\ Pass(phase)
    /\ UNCHANGED <<jobs, sigVars, timer, switched, dbVars, notices, gaveUp, timedOut>>

RollbackAtGate ==
    /\ pc = "Blocked"
    /\ Compensate
    /\ UNCHANGED <<jobs, sigVars, timer, switched, dbVars, notices, histVars>>

\* ApproveDeployment and RollbackDeployment at any other time: the server
\* accepts a signal until the run is closed and the SDK buffers it.
ApproveBuffered ==
    /\ pc \notin {"Blocked", "Closed"}
    /\ Len(approvals) < MaxBuffered
    /\ approvals' = Append(approvals, phase)
    /\ UNCHANGED <<wfVars, jobs, rollbacks, timer, switched, dbVars, notices, histVars>>

RollbackBuffered ==
    /\ pc \notin {"Blocked", "Closed"}
    /\ rollbacks < MaxBuffered
    /\ rollbacks' = rollbacks + 1
    /\ UNCHANGED <<wfVars, jobs, approvals, timer, switched, dbVars, notices, histVars>>

-----------------------------------------------------------------------------
(***************************************************************************)
(* Activities that are over in one call.                                   *)
(***************************************************************************)
Quiet == UNCHANGED <<jobs, sigVars, notices, histVars>>

ValidatePlan ==
    /\ pc = "ValidatePlan"
    /\ Goto("Select")
    /\ Quiet /\ UNCHANGED <<phase, timer, switched, dbVars>>

VerifyExpand ==
    /\ pc = "VerifyExpand"
    /\ Goto("CompatAfterExpand")
    /\ Quiet /\ UNCHANGED <<phase, timer, switched, dbVars>>

\* Only a blue failure is an error here; the green result is reported and
\* not tested.
CompatAfterExpand ==
    /\ pc = "CompatAfterExpand"
    /\ BlueCols \subseteq columns
    /\ Goto("Select")
    /\ Quiet /\ UNCHANGED <<phase, timer, switched, dbVars>>

\* The timer goroutine starts when the acquisition has returned.
AcquireReadOnly ==
    /\ pc = "AcquireReadOnly"
    /\ readOnly' = TRUE
    /\ timer' = "armed"
    /\ Goto("SwitchTraffic")
    /\ Quiet /\ UNCHANGED <<phase, switched, columns, traffic>>

WindowTimerFires ==
    /\ timer = "armed"
    /\ timer' = "fired"
    /\ Quiet /\ UNCHANGED <<wfVars, switched, dbVars>>

SwitchTraffic ==
    /\ pc = "SwitchTraffic"
    /\ traffic' = "green"
    /\ switched' = TRUE
    /\ CancelTimer
    /\ Goto("ReleaseReadOnly")
    /\ Quiet /\ UNCHANGED <<phase, columns, readOnly>>

ReleaseReadOnly ==
    /\ pc = "ReleaseReadOnly"
    /\ readOnly' = FALSE
    /\ AfterWindow
    /\ Quiet /\ UNCHANGED <<timer, switched, columns, traffic>>

\* A failing green check is a result of the activity, not an error of it:
\* no retry.  A query may also fail for reasons other than the schema.
CompatBeforeContract ==
    /\ pc = "CompatBeforeContract"
    /\ \/ GreenCols \subseteq columns /\ Goto("Select") /\ UNCHANGED phase
       \/ Compensate
    /\ Quiet /\ UNCHANGED <<timer, switched, dbVars>>

VerifyContract ==
    /\ pc = "VerifyContract"
    /\ Finish("complete")
    /\ Quiet /\ UNCHANGED <<timer, switched, dbVars>>

CompReleaseReadOnly ==
    /\ pc = "CompReleaseReadOnly"
    /\ readOnly' = FALSE
    /\ Goto("ExecuteRollback")
    /\ Quiet /\ UNCHANGED <<phase, timer, switched, columns, traffic>>

\* An attempt returns an error, or times out, or its result is lost with
\* the worker: whatever it does may or may not have taken effect.
QuickAttemptFails ==
    /\ pc \in Quick
    /\ AttemptFails
    /\ readOnly' \in CASE pc = "AcquireReadOnly" -> {readOnly, TRUE}
                       [] pc \in {"ReleaseReadOnly", "CompReleaseReadOnly"} -> {readOnly, FALSE}
                       [] OTHER -> {readOnly}
    /\ traffic' \in IF pc = "SwitchTraffic" THEN {traffic, "green"} ELSE {traffic}
    /\ UNCHANGED <<jobs, sigVars, switched, columns, notices, approvedAt, timedOut>>

-----------------------------------------------------------------------------
(***************************************************************************)
(* DDL activities: PgDatabaseMigrator.ExecuteSQL, statement by statement.  *)
(***************************************************************************)
IsCurrent(j) == running /\ j.act = pc /\ j.n = attempt
Statements(j) == SQL[j.act]

\* Faulty variant: a retry resumes behind the statement that failed.
DispatchResuming ==
    /\ pc \in DDL
    /\ ~running
    /\ running' = TRUE
    /\ jobs' = jobs \cup {[act |-> pc, n |-> attempt, next |-> attempt + 1]}
    /\ UNCHANGED <<pc, phase, attempt, sigVars, timer, switched, dbVars,
                   notices, histVars>>

Dispatch ==
    /\ pc \in DDL
    /\ ~running
    /\ running' = TRUE
    /\ jobs' = jobs \cup {[act |-> pc, n |-> attempt, next |-> 1]}
    /\ UNCHANGED <<pc, phase, attempt, sigVars, timer, switched, dbVars,
                   notices, histVars>>

RunStatement(j) ==
    /\ j.next <= Len(Statements(j))
    /\ Applicable(Statements(j)[j.next], columns)
    /\ columns' = Apply(Statements(j)[j.next], columns)
    /\ jobs' = (jobs \ {j}) \cup {[j EXCEPT !.next = @ + 1]}
    /\ UNCHANGED <<wfVars, sigVars, timer, switched, readOnly, traffic,
                   notices, histVars>>

\* The statement fails, or is committed and its acknowledgement lost;
\* statements before it stay committed.
StatementFails(j) ==
    /\ j.next <= Len(Statements(j))
    /\ \/ UNCHANGED columns
       \/ /\ Applicable(Statements(j)[j.next], columns)
          /\ columns' = Apply(Statements(j)[j.next], columns)
    /\ jobs' = jobs \ {j}
    /\ IF IsCurrent(j) THEN AttemptFails
                       ELSE UNCHANGED <<wfVars, gaveUp, timer>>
    /\ UNCHANGED <<sigVars, switched, readOnly, traffic, notices,
                   approvedAt, timedOut>>

\* Faulty variant: the activity answers before its statements are executed.
JobReturnsAtOnce(j) ==
    /\ \/ ~IsCurrent(j) /\ UNCHANGED wfVars
       \/ IsCurrent(j) /\ pc = "ExecuteExpand" /\ Enter("expand_verify", "VerifyExpand")
       \/ IsCurrent(j) /\ pc = "ExecuteContract" /\ Goto("VerifyContract") /\ UNCHANGED phase
       \/ IsCurrent(j) /\ pc = "ExecuteRollback" /\ Finish("rolled_back")
    /\ UNCHANGED <<jobs, sigVars, timer, switched, dbVars, notices, histVars>>

\* The result of an attempt the server has timed out is discarded.
JobReturns(j) ==
    /\ j.next > Len(Statements(j))
    /\ jobs' = jobs \ {j}
    /\ \/ ~IsCurrent(j) /\ UNCHANGED wfVars
       \/ IsCurrent(j) /\ pc = "ExecuteExpand" /\ Enter("expand_verify", "VerifyExpand")
       \/ IsCurrent(j) /\ pc = "ExecuteContract" /\ Goto("VerifyContract") /\ UNCHANGED phase
       \/ IsCurrent(j) /\ pc = "ExecuteRollback" /\ Finish("rolled_back")
    /\ UNCHANGED <<sigVars, timer, switched, dbVars, notices, histVars>>

\* Heartbeat timeout: the worker is not told.
AttemptTimesOut ==
    /\ pc \in DDL
    /\ running
    /\ timedOut' = timedOut \cup {pc}
    /\ AttemptFails
    /\ UNCHANGED <<jobs, sigVars, switched, dbVars, notices, approvedAt>>

\* The worker process dies and restarts; the server finds out by timeout.
WorkerCrash ==
    /\ jobs # {}
    /\ jobs' = {}
    /\ UNCHANGED <<wfVars, sigVars, timer, switched, dbVars, notices, histVars>>

-----------------------------------------------------------------------------
\* Faulty variant: the notification is repeated until acknowledged.
NotifyParentRepeated ==
    /\ pc = "NotifyParent"
    /\ notices < 2
    /\ notices' = IF HasParent THEN notices + 1 ELSE notices
    /\ pc' \in {"NotifyParent", "Return"}
    /\ UNCHANGED <<phase, attempt, running, jobs, sigVars, timer, switched,
                   dbVars, histVars>>

NotifyParent ==
    /\ pc = "NotifyParent"
    /\ notices' = IF HasParent THEN notices + 1 ELSE notices
    /\ pc' = "Return"
    /\ UNCHANGED <<phase, attempt, running, jobs, sigVars, timer, switched,
                   dbVars, histVars>>

Return ==
    /\ pc = "Return"
    /\ pc' = "Closed"
    /\ UNCHANGED <<phase, attempt, running, jobs, sigVars, timer, switched,
                   dbVars, notices, histVars>>

QuickActivity ==
    \/ ValidatePlan \/ VerifyExpand \/ CompatAfterExpand \/ AcquireReadOnly
    \/ SwitchTraffic \/ ReleaseReadOnly \/ CompatBeforeContract
    \/ VerifyContract \/ CompReleaseReadOnly \/ QuickAttemptFails

DDLActivity ==
    \/ Dispatch \/ AttemptTimesOut
    \/ \E j \in jobs : RunStatement(j) \/ StatementFails(j) \/ JobReturns(j)

Gate == SelectApprove \/ SelectRollback \/ SelectBlocks

\* What the Temporal server and a live worker carry out by themselves.
Progress ==
    StartWorkflow \/ Gate \/ QuickActivity \/ DDLActivity \/ NotifyParent \/ Return

Human == ApproveAtGate \/ RollbackAtGate \/ ApproveBuffered \/ RollbackBuffered

Next == Progress \/ Human \/ WindowTimerFires \/ WorkerCrash

Spec == Init /\ [][Next]_vars

\* No step of Progress can recur for ever, so weak fairness of the whole
\* says only that a worker is up and that the server dispatches tasks and
\* enforces timeouts.  Nobody has to send a signal.
FairSpec == Spec /\ WF_vars(Progress)

-----------------------------------------------------------------------------
(***************************************************************************)
(* Safety.                                                                 *)
(***************************************************************************)
InContract == {"contracting", "complete", "failed"}
Compensating == pc \in {"CompReleaseReadOnly", "ExecuteRollback"}
                  \/ phase = "rolled_back"

\* The blue application finds all its columns until the contract gate has
\* been approved, with traffic on green and no rollback under way: retries,
\* leftover attempts and rollback SQL never take a blue column away
\* (MigrationPlan.ContractSQL, domain.go:178-180).
BlueServable ==
    ~(BlueCols \subseteq columns) =>
        /\ approvedAt["contract_wait"] # NoPhase
        /\ traffic = "green"
        /\ phase \in InContract

\* Once traffic is on green, and unless the run compensates, every column the
\* green application uses is there, whichever attempts of the expand SQL
\* succeeded, were repeated or are still running (workflow.go:243).
GreenServable ==
    traffic = "green" /\ ~Compensating => GreenCols \subseteq columns

\* The database is read-only in the cutover phase alone, unless the release
\* that ends the phase (or the compensation) ran out of attempts
\* (workflow.go:145-146 and 230-231).
ReadOnlyConfined ==
    readOnly =>
        \/ phase = "cutover"
        \/ phase = "rolled_back" /\ "CompReleaseReadOnly" \in gaveUp
        \/ phase # "rolled_back" /\ "ReleaseReadOnly" \in gaveUp

\* A read-only window that outlasted its limit, or a switch that failed, is
\* never followed by monitoring: the run ends rolled back (workflow.go:233-239).
OverlongWindowUndone ==
    timer = "fired" \/ "SwitchTraffic" \in gaveUp =>
        phase \in {"cutover", "rolled_back"}

\* A run that ended rolled back has removed every column its expand SQL had
\* added, however far the expand attempts got, provided the rollback SQL
\* went through and no expand attempt outlived its timeout (workflow.go:137-150).
RolledBackUndone ==
    phase = "rolled_back" /\ "ExecuteRollback" \notin gaveUp
        /\ "ExecuteExpand" \notin timedOut
      => (Added(ExpandSQL) \cap Dropped(RollbackSQL)) \cap columns = {}

\* Rollback SQL and contract SQL of one run never execute in the same life,
\* not even as a leftover attempt beside the other: "Contract failure is NOT
\* rolled back" (workflow.go:277).
ContractXorRollback ==
    \A j \in jobs :
        /\ j.act = "ExecuteRollback" => approvedAt["contract_wait"] = NoPhase
        /\ j.act = "ExecuteContract" => phase \in InContract

\* A run at a terminal phase executes nothing any more: what the worker still
\* has are attempts the server had timed out, whichever exit the run took
\* and however often its activities were repeated (workflow.go:47-49 and 80-93).
TerminalMeansIdle ==
    phase \in Terminal => \A j \in jobs : j.act \in timedOut

\* The places of the workflow in the order in which a run may come to them.
Order == [Start               |-> 0,  ValidatePlan    |-> 1,
          ExecuteExpand       |-> 4,  VerifyExpand    |-> 5,
          CompatAfterExpand   |-> 6,  AcquireReadOnly |-> 9,
          SwitchTraffic       |-> 10, ReleaseReadOnly |-> 11,
          CompatBeforeContract |-> 14, ExecuteContract |-> 17,
          VerifyContract      |-> 18, CompReleaseReadOnly |-> 19,
          ExecuteRollback     |-> 20, NotifyParent    |-> 21,
          Return              |-> 22, Closed          |-> 23]

GateOrder == [plan_review |-> 2, expand_verify |-> 7, monitoring |-> 12, contract_wait |-> 15]

Position ==
    CASE pc = "Select"  -> GateOrder[phase]
      [] pc = "Blocked" -> GateOrder[phase] + 1
      [] OTHER          -> Order[pc]

\* Every step takes the run forward or leaves it where it is: no activity is
\* begun twice, no gate asked twice, no compensation entered twice, and an
\* activity is tried again only up to its RetryPolicy (workflow.go:13-28 and
\* 137-300).  This is why ReachesGateOrEnd may be asked of the code.
NeverBack ==
    [][\/ Position' > Position
       \/ pc' = pc /\ attempt < attempt' /\ attempt' < MaxAttempts(pc)
       \/ pc' = pc /\ attempt' = attempt /\ (running => running')]_vars

(***************************************************************************)
(* Liveness.                                                               *)
(***************************************************************************)
\* A deployment never hangs between gates: whatever fails, it comes to a
\* gate or closes (bounded RetryPolicy of workflow.go:13-28).
ReachesGateOrEnd == []<>(pc \in {"Blocked", "Closed"})

\* A rollback that waits unread ends the run, at whatever gate it is read:
\* approvals may overtake it, but only as many as there are gates
\* (workflow.go:118-135).
PendingRollbackEnds == rollbacks > 0 ~> pc = "Closed"

(***************************************************************************)
(* Refinement: the run keeps the promises of DeploymentLifecycle.          *)
(***************************************************************************)
Lifecycle == INSTANCE DeploymentLifecycle WITH
    cleared    <- approvedAt["contract_wait"] # NoPhase,
    blueIntact <- BlueCols \subseteq columns

ImplementsLifecycle == Lifecycle!Spec

(***************************************************************************)
(* What the documentation says and the code does not do.                   *)
(***************************************************************************)
\* "Separate explicit approval for contract (destructive - cannot be undone)"
\* (workflow.go:265): the approval that starts the contract SQL was given
\* while the deployment was waiting for it.
ContractExplicitlyApproved ==
    approvedAt["contract_wait"] \in {NoPhase, "contract_wait"}

\* "Between expand and contract you have a safe window where you can roll
\* back at any time" (cmd/blue-green/README.md:16): after a rollback that was
\* asked for, with nothing gone wrong before it, the application that has the
\* traffic finds its columns.
RollbackIsSafe ==
    phase = "rolled_back" /\ timer # "fired" /\ gaveUp = {} =>
        (IF traffic = "green" THEN GreenCols ELSE BlueCols) \subseteq columns
=============================================================================
