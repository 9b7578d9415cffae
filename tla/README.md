# A TLA+ verification project for the Temporal replication workshop

The repository holds two systems built on Temporal workflows:

* **blue-green schema deployments** (`src/internal/bluegreen`, `src/cmd/blue-green`):
  a deployment workflow expands a PostgreSQL schema, switches traffic inside a
  read-only window, watches, and contracts the schema, with human gates in
  between; a coordinator workflow per database gives out a schema lock; a
  dashboard shows and signals them;
* **a replication platform** (`src/internal/temporal`, `src/internal/api`,
  `src/internal/store`, `src/internal/connectors`): an HTTP API that starts
  workflows which provision, pause, resume and decommission CDC pipelines.

This directory models their control flow in TLA+, checks it with TLC on small
instances and proves the safety properties with TLAPS.

## 1. Inventory

| Component | State | Operations | Talks to |
|---|---|---|---|
| `BlueGreenDeploymentWorkflow` (`workflow.go`) | `phase`, `trafficSwitched`, `readOnlyTimedOut`, signal channels | four gates, ten activities, the read-only timer goroutine, `compensate`, `notifyParent` | activities; signals from people and the coordinator; one signal to the coordinator |
| `BGActivities`, worker (`activities.go`, `registration.go`) | attempts being executed | one function per activity | migrator, app simulator |
| `PgDatabaseMigrator` (`migrator_pg.go`) | a pool of connections with their sessions | `ExecuteSQL`, `SetReadOnly`, `ValidateQuery` (two calls), `QueryCheck` | PostgreSQL |
| `FakeDatabaseMigrator`, `AppSimulator` | columns; the applications' queries | statements by pattern; compatibility checks | |
| `DatabaseOpsWorkflow` (`db_ops_workflow.go`) | `activeDeployment`, lock timer, `completedOps`, `continueAsNewRequested` | update handler with validator, completion handler, two timers, continue-as-new | rollback signal to deployment runs |
| Deployment client and API (`cmd/blue-green/main.go`, `handler.go`) | none of its own | `StartDeployment` (three calls), approve, rollback | coordinator, deployment runs |
| Dashboard (`ui.go`) | none: reads the active plan, then signals it | rendering, approve, rollback, a compatibility panel | the same client; the migrator's pool |
| Provisioning workflows (`temporal/workflow.go`, `session2_workflow.go`) | results received (`result`) | provision, CDC provision, pause, resume, decommission, two compensations | activities |
| Activities (`temporal/activities.go`, `session2_activities.go`) | none | one or two calls each | stores, provisioners, registry, Kafka Connect |
| Metadata and connector stores (`store/*.go`) | pipeline specs and states, connector records, audit entries | create, update, set state, delete | |
| Connectors (`connectors/*.go`) | entries of the stream and sink provisioners | ensure, delete; the Kafka Connect client | Kafka Connect |
| Schema registry (`connectors/schema.go`) | versions per subject, an id counter | register with compatibility check, latest, by id | |
| Platform API (`api/*.go`, `cmd/session-*`) | none | `createPipeline`, four connector operations, reads | stores, Temporal |
| Observability, audit, domain validation | counters, a list, pure functions | | |

What makes them hard:

* **Activities are not atomic.** The server retries an activity after an error,
  a timeout or a lost result; its effect may have taken place wholly or in
  part. The DDL activities heartbeat once and then execute statements, so an
  attempt the server has given up may still be changing the schema.
* **Signals are buffered** and not tied to the gate they were meant for; the
  selector reads them in the order in which its cases were added.
* **Errors are discarded** in compensation and release paths.
* **Sessions carry state**: a setting and a prepared statement belong to one
  connection of a pool, and a call gets whichever is idle.
* **Several workflows act on one thing** (a database, a pipeline, a schema
  subject), each with a workflow id as its only guard; a workflow id is not a run.
* **Timers** race with what they guard: the read-only window, the lock timeout,
  the 24-hour recycling.
* **Stores die with the program**, workflows and connectors do not.

What makes each of them correct:

* deployment run: neither application ever loses a column it is being served
  with; the read-only flag does not leave the cutover phase; an overlong window
  is undone; a rollback undoes the expand; rollback and contract never both
  execute; a run never hangs, and tells the coordinator once;
* coordinator: one deployment works on the schema at a time, and it is the lock
  holder; a completion is the holder's; the lock is given back; recycling
  neither loses the lock nor is put off for ever;
* pool: connections come back on every path, callers are served, checks tell the
  truth, a release reaches the session it is meant for;
* registry: BACKWARD histories lose no field, an id names what was registered, a
  retry is not refused for its own first attempt;
* pipeline: a run that succeeds leaves the metadata store, the connector record
  and Kafka Connect in agreement; a failed provisioning is recorded, and its
  compensation turns to all it was told of.

`PROJECT.json` lists every component with what is and is not modelled, and under
`hazards` the places in the code where these can go wrong.

## 2. Modules

| Module | Models |
|---|---|
| `BlueGreenDeployment` | one run of the deployment workflow with worker, server retries and database |
| `DeploymentLifecycle` | abstract specification of a deployment: phase diagram, blue schema destroyed only behind the contract gate, one notification |
| `MCBlueGreenDeployment` | instances: the migration plan of `cmd/blue-green/README.md`, and one without `IF [NOT] EXISTS` |
| `DatabaseOps` | coordinator workflow, the clients' three-call `StartDeployment`, deployment runs as the coordinator sees them |
| `SchemaLock` | abstract specification of the coordinator: an exclusive lock |
| `MCDatabaseOps` | instance: racing and repeated requests |
| `SharedSchema` | composition: `DatabaseOps`, what its runs do to one table, attempts that outlive their run, the dashboard's buttons |
| `MCSharedSchema` | instance: two plans that add the same column |
| `MigratorPool` | the pool under `PgDatabaseMigrator` and the worker and pages that share it |
| `CDCPipeline` | the five pipeline workflows of one pipeline, their activities call by call, stores, provisioners, Kafka Connect, the API that starts them, restarts of the program |
| `ProvisioningSaga` | abstract specification of a provisioning run: all resources, or each known one turned to once |
| `SchemaRegistry` | the registry, and the policy check and registration of concurrent provisioning runs |
| `MCSchemaRegistry` | instance: five schemas, nine specifications |
| `BlueGreenDeploymentProofs`, `BlueGreenCompensationProofs`, `DatabaseOpsProofs`, `SharedSchemaProofs`, `MigratorPoolProofs`, `SchemaRegistryProofs`, `CDCPipelineProofs`, `CDCPipelineAgreementProofs` | theorems |

### BlueGreenDeployment

`pc` is the activity or gate of the workflow's main coroutine; `phase` is the
workflow variable of that name. `attempt` counts failed attempts of the current
activity, and `MaxAttempts` is its `RetryPolicy`. Activities fall into two groups:

* *quick* ones, over in one call: an action for success, and
  `QuickAttemptFails`, where the effect may or may not have taken place;
* *DDL* ones: `Dispatch` puts an attempt into `jobs`, `RunStatement` and
  `StatementFails` execute it statement by statement (each in a transaction of
  its own, as `migrator_pg.go:22-50` does), `JobReturns` delivers the result.
  `AttemptTimesOut` is the heartbeat timeout: the attempt stays in `jobs`.
  `WorkerCrash` removes it. A result that is not the current attempt's is ignored.

The schema is the set of columns of the one table. A statement adds columns,
drops columns or leaves them alone; `guarded` is `IF [NOT] EXISTS`.
`PlanAssumption` says what the comments of `MigrationPlan` (`domain.go:163-192`)
promise of the three statement lists. `OnError` is where the error of each activity
leads; `Compensate`, `AfterWindow` and `Finish` carry the names of the code paths.

A gate is two steps, as in the SDK. `Select*` looks at buffered signals, an
approval first; with none it blocks, and then the first signal to arrive decides
(`ApproveAtGate`, `RollbackAtGate`). Signals at any other time are buffered with
the phase they arrived in, which only properties read.

`approvedAt`, `gaveUp` and `timedOut` are history variables.

### DatabaseOps

A request goes through `EnsureCoordinator`, `AcquireLock` or `RejectLocked`, and
`StartRun`, and may fail before each (`RequestFails`). `StartRun` attaches to an
open run of the same id, because `ExecuteWorkflow` with the options of
`main.go:217-233` does. The coordinator's update handler and its validator run in
one workflow task, hence one action. `ReceiveCompletion` and `ContinueTimerFires`
are turns of the main loop, with continue-as-new at the end of the turn.
A deployment run is `running` until it notifies, then `closing`, then `closed`;
the signals both ways are counters, delivered in any order.

### SharedSchema

EXTENDS `DatabaseOps`; what a running deployment does there in one breath is here
a life of its own. `work` is how far the plan's run is, `attempt` whether the
server waits for an attempt of its current SQL, `leftover` the timed-out attempts
that execute on, after their run's retry, its end, or under the next lock holder.
An attempt is one step: `BlueGreenDeployment` has it statement by statement. A
plan's rollback drops what its expand adds, so two plans may share columns.
A button on the dashboard is two steps (`ReadActivePlan`, `SignalRollback`), as
`activePlanID` and the signal are two calls. `ImplementsDatabaseOps` says that
nothing of this adds a behaviour to the coordinator, which is why the theorems
about `DatabaseOps` hold here.

### MigratorPool

A caller (the worker's activity, a dashboard page) has a list of calls to make
(`todo`); each takes a connection (`AcquireConn`: an idle one, a new one only
when none is idle), works on it and gives it back. `SetReadOnly` changes the
session that served it; a compatibility check prepares `_bg_compat_check` in one
call and deallocates it in a second, on whichever connection that gets. A call is
interrupted (its context ends, the connection breaks: pgx closes it); a page's
schema query that breaks off counts with the rows it had returned, since
`querySchema` does not look at `rows.Err()`. A connection is retired, an activity is
tried again or abandoned for the compensation.
`told` is what `SetReadOnly` last reported; `disturbed` and `falseAlarm` are history.

### SchemaRegistry

The registry's maps and id counter are one variable each; `validated` holds the
histories of the `<subject>.__validate__` subjects. `Accepts` is `Register`'s
check, which enforces BACKWARD only. An unset mode is passed on as it is by the
policy check (`activities.go:53`), and so enforces nothing there, and becomes
BACKWARD in the registration (`activities.go:62-65`). A run goes
through `policy`, `checking` (the check's second call) and `ensure`; each attempt
may lose its result and is repeated, also when it was refused. A schema is a
function from field names to "required".

### CDCPipeline

A run of a workflow is the list of activities still to do, the failed attempts of
the first one, and the results received. `OnError` is where errors lead: returned
from the checks and from pause, resume and decommission, compensated in the
provisioning workflows, discarded in a compensation. `Undo` builds the
compensation from the results *received*, as `compensate` and `compensateCDC` do.
Activities that make two calls (create, wait, pause, resume, delete a connector)
are two actions with `half` in between, so other runs come in between, and an
attempt may end there. `Finish` is the end of an attempt whose work is done: the
result is received or lost. `Restart` empties the stores and provisioners, which
live in the program; runs and the connector survive, and a pipeline created again
may find its workflow id taken (`AttachProvision`). `gaveUp` and `alone` are
history fields, and `own` is a history variable: whether the newest CDC provisioning
run is the one that created the connector there is.

### Faulty variants

Operators marked "Faulty variant" are not part of any specification. Each is a
plausible bug in one mapped definition (a dropped guard, a swapped order, a
missing step); put in its place, it makes TLC find the property named in
`PROJECT.json` violated. They show that each property depends on the code.

## 3. Runs

All specifications stop in states where nothing is left to do (runs are closed,
requests answered) or could stop between two requests, so every configuration has
`CHECK_DEADLOCK FALSE`; that nothing stops too early is what the liveness
properties say.

| Run | Shows |
|---|---|
| `bluegreen_readme` | types, `BlueServable`, `ReadOnlyConfined`, `OverlongWindowUndone`, `ContractXorRollback`, `TerminalMeansIdle`, `NeverBack` and the refinement of `DeploymentLifecycle`, for the README's plan with the code's retry policies (3 and 2 attempts) |
| `bluegreen_unguarded` | `GreenServable` and `RolledBackUndone` for a plan in which a repeated statement fails, the harder of the two plans for both; `ReachesGateOrEnd` and `PendingRollbackEnds` under `FairSpec` |
| `coordinator` | `MutualExclusion`, `CompletionFromHolder`, the refinement of `SchemaLock`; `LockLostOnlyBy`, the three ways to lose the lock; `LockReleased` and `RecycleHappens`, which no other way stands against |
| `shared_schema` | `StatementsExcluded`, `PromptExpandIntact`, `ClickReachesHolder` and the refinement of `DatabaseOps` for two plans that share a column |
| `pool` | `ConnectionsAccounted`, `UndisturbedChecksTruthful`, `UndisturbedReleaseComplete`; `EveryCallServed` under `FairSpec` |
| `pipeline` | `SuccessAgrees`, `FailureRecorded`, `ReportedConnectorUndone`, `OthersConnectorKept`, `RunsAdvance` and the refinement of `ProvisioningSaga` by both provisioning workflows, over all pairs of runs, overlapping or one after the other, and a restart |
| `schema_registry` | `BackwardKeepsFields`, `IdNamesOwnSchema`, `OwnRetryAccepted` with three concurrent runs |

and, where what the documentation says is not what the code does, a run whose
counterexample shows it:

| Run | Documentation | Code |
|---|---|---|
| `bluegreen_stale_approval` | "Separate explicit approval for contract" (`workflow.go:265`) | two early approvals carry the run through the monitoring and contract gates |
| `bluegreen_rollback_traffic` | "you can roll back at any time" (`cmd/blue-green/README.md:16`) | a rollback asked for at the monitoring gate, with nothing failed before it, drops green's columns and leaves traffic on green |
| `pool_release_missed` | the release "removes the read-only restriction" (`activities.go:148`) | it sets a session other than the one that was made read-only, which stays so in the pool |
| `schema_policy` | the policy check "checks schema compatibility" (`activities.go:43`) | it compares with schemas that other runs have validated and never registered |
| `pipeline_leak` | failure "compensates in reverse order" (`session2_workflow.go:24`) | a connector whose creation was not reported survives |

### Observed while modelling

Behaviours of the code that a reader of its documentation may not expect and that
have no run of their own:

* a buffered approval overtakes a buffered rollback, although a rollback signal
  works "at any point before contract" (`workflow.go:34`);
* the error of `ReleaseReadOnly` is discarded and monitoring may begin read-only
  (`workflow.go:230`): the reason for the exceptions of `ReadOnlyConfined`;
* the notification is sent although a timed-out attempt still executes statements
  (`workflow.go:47-49`): the premise of `PromptExpandIntact`;
* the lock timer signals the run; with no run to receive it, the lock stays
  (`cmd/blue-green/README.md:339-346` says it is released): `LockLostOnlyBy`;
* the lock-timeout signal names a workflow id and may reach a later run of the plan
  (`db_ops_workflow.go:101`); continue-as-new starts over with an empty
  `completedOps` (`db_ops_workflow.go:183`);
* rollback SQL that was given up is recorded as `rolled_back` (`workflow.go:148`),
  although "the workflow completed its compensation successfully"
  (`workflow.go:138-139`): the premise of `RolledBackUndone`;
* a completed plan deployed again and rolled back at `plan_review` drops live columns,
  and so does the rollback of another plan that adds the same ones;
* the dashboard's rollback names a plan, not a run (`ui.go:245-249`), and reaches a
  later run of that plan when it has been deployed again;
* pool calls that overlap can leave `_bg_compat_check` prepared in one session and
  drop it in another (`migrator_pg.go:66-72`), with the result of the next point;
* a name left prepared by a cancelled check makes the next check report a sound
  query as broken, and the deployment compensates: the premise of
  `UndisturbedChecksTruthful`;
* "making optional fields required" (`schema.go:22`) is not refused, so what one
  BACKWARD version can read a later one may not; the formats that `types.go:91` names
  (`avro`, `protobuf`, `jsonschema`) do not parse as the registry's schemas;
* a pipeline whose schema activities fail stays PENDING; decommissioning is started
  with empty stream and sink ids, so both stay; the order of `compensateCDC` is
  connector, sink, stream, which is not strictly the reverse of the creation;
* a repeated `EnsureStream`, `EnsureSink` or registration adds another entry or version
  (`fakes.go:93-145`, `schema.go:99`), although activities "must be idempotent" and
  `Ensure*` activities "return existing resource IDs"
  (`cmd/replication-platform/PRD.md:567-572`);
* a second `createConnector` on an active pipeline fails on the existing connector,
  and its compensation deletes a stream entry of the first run and marks the pipeline
  ERROR (`session2_workflow.go:194-197`); the connector stays (`OthersConnectorKept`);
* after a restart, an open run of the earlier life can mark a pipeline that was
  created again ACTIVE without stream or sink; a start whose answer was lost marks
  the pipeline ERROR while its run goes on;
* `FakeDatabaseMigrator` takes `IF` for the column in `ADD COLUMN IF NOT EXISTS`
  (`migrator_fake.go:67`).

### Bounds

* `MaxBuffered`: unread signals of one name. One is enough for an approval to
  overtake a rollback; `bluegreen_stale_approval` takes two, for the two gates.
  More would repeat what a gate does with the first.
* `DefaultAttempts`, `DDLAttempts`: 3 and 2, the code's, in the README's plan. Two
  DDL attempts are the least for a retry beside a leftover attempt.
  `bluegreen_unguarded` gives quick activities two, one retry being enough for a
  release or a switch that is repeated.
* The README's plan has three expand, two contract and two rollback statements:
  enough for a failure in the middle. The unguarded one has a column and a
  backfill to expand: an attempt that stops between the two cannot be repeated.
* `coordinator`: two plans and three requests, that is two requests for one plan
  and a competitor; a fourth would do what one of the three does. `MaxFailures` 2, so
  that both requests of one plan may fail half-way.
* `shared_schema`: two plans with a request each, one failure, one page, one leftover
  attempt at a time. The second plan's expand adds a column of the first's, so a
  rollback, an expansion or a leftover of either can meet the other's columns.
* `pool`: two connections, the worker and one page: the least with which two calls
  overlap, get different sessions, and wait when both are taken.
* `pipeline`: `MaxAttempts` 2 instead of 3, one retry being enough for an effect
  that is repeated; `MaxStarts` 2, so every pair of workflows overlaps and every run
  also follows every other; one restart; `MaxEntries` 2, an entry beside a
  repeated one.
* `schema_registry`: three runs (two that interleave and one that comes after),
  two subjects, two attempts. The runs are interchangeable, hence the symmetry: no
  property names one, and none is a liveness property.

`completions`, `signals` and `completedOps` are bounded by the number of
requests, the registry's histories by runs and attempts.

## 4. Fairness

* `BlueGreenDeployment`: weak fairness of `Progress` as a whole, that is: a worker
  is up, and the server dispatches tasks and enforces timeouts. No step of
  `Progress` can recur for ever, so weak fairness of the disjunction is enough and
  asks nothing of a particular attempt: each may fail or time out. Nobody has to
  approve or roll back (`Human` is not fair), nor does the read-only timer have to
  fire.
* `DatabaseOps`: weak fairness of timers, deliveries, started requests, and of
  the end of a run *that has received a rollback*. The last is what
  `PendingRollbackEnds` shows of `BlueGreenDeployment`. The 24-hour timer need not
  fire, and a request may stop or be slower than the lock timeout: what that costs
  is `Lost`, and `LockLostOnlyBy` says when it happens.
* `MigratorPool`: weak fairness of `Use`: PostgreSQL answers, well or ill. Strong
  fairness of `AcquireConn`: the pool serves waiting callers first come, first
  served, so one that waits while connections come free again and again gets one.
* `SharedSchema`, `SchemaRegistry` and `CDCPipeline` state safety only. Every step of a
  pipeline run is nearer to its end in a well-founded order (`RunsAdvance`), so a run
  that is always given another step ends.

## 5. Proofs

TLAPS checks every safety property of the passing runs for every value of the
constants:

| Module | Theorems |
|---|---|
| `BlueGreenDeploymentProofs` | `TypeCorrect`, `BlueAlwaysServable`, `GreenAlwaysServable`, `ContractExcludesRollback`, `RefinesLifecycle`, `RunKeepsPromises` |
| `BlueGreenCompensationProofs` | `ReadOnlyStaysConfined`, `OverlongWindowsUndone`, `RollbackUndoes`, `RunsNeverGoBack`, `SignalsNeverMissed`, `TerminalRunsIdle` |
| `DatabaseOpsProofs` | `TypeCorrect`, `MutualExclusionHolds`, `CompletionsFromHolder`, `LockLostOnlyByRequests`, `HolderOnlyAdvances`, `RefinesSchemaLock` |
| `SharedSchemaProofs` | `SharedTypeCorrect`, `StatementsAreExcluded`, `ExpandStaysIntact`, `RefinesDatabaseOps`, `ClicksReachHolder`, `CoordinatorHoldsInComposition` |
| `MigratorPoolProofs` | `TypeCorrect`, `ConnectionsAreAccounted`, `WaitersServable`, `UndisturbedTruthful`, `UndisturbedRelease` |
| `SchemaRegistryProofs` | `TypeCorrect`, `BackwardHistoriesKeepFields`, `IdsNameOwnSchemas`, `RetriesAreAccepted`, `RegistrationsStayBounded` |
| `CDCPipelineProofs` | `TypeCorrect`, `ReportedConnectorsUndone`, `OthersConnectorsKept`, `RefinesSaga`, `SagasSettle`, `RunsOnlyAdvance` |
| `CDCPipelineAgreementProofs` | `SuccessesAgree`, `FailuresRecorded` |

They rest on the named assumptions of the modules (`PlanAssumption`,
`LockAssumption`, `PlansAssumption`, `PoolAssumption`, `RegistryAssumption` and the
`BoundsAssumption`s), which TLC evaluates in every run. That the pool has a connection at all
(`Conns # {}`) is what `WaitersServable` needs of the pool. `RollbackUndoes` has one
premise more, `NoReAdd`: no rollback statement adds a column that the rollback is to
take away. Both plans of the runs satisfy it; a plan that does not restores nothing.

**Deployment.** None of the schema properties is inductive: a leftover attempt may
execute a statement long after its phase. `IInv` adds

* `PlaceInv`: which phase each place of the coroutine belongs to;
* `TrafficInv`, `ClearedInv`: traffic is on green from monitoring on, and the
  contract gate is cleared in just the phases that follow it;
* `JobsInv`: an attempt of the contract SQL, current or leftover, exists only once
  the gate is cleared; one of the rollback SQL only in a run that is undoing;
* `BlueInv`: until the gate is cleared the blue columns are there;
* `ExpandInv`: unless the run is undoing, an expand attempt that is at statement k
  has provided the green columns of the statements before it, and columns once
  provided stay. This carries `GreenServable` over retries from the first
  statement, over partial success, and over attempts that time out.

The step lemma splits on the actions, one conjunct each; lemmas about `Apply` say
what one statement of each list does to the column set. `RefinesLifecycle` maps the
run to `DeploymentLifecycle` by `cleared` and `blueIntact`; `RunKeepsPromises` proves
what the abstract specification promises of its own steps and carries it over.

**Deployment, forward.** `Position` numbers the places of the coroutine in the order
of the code; a gate is asked, then waited at. `RunsNeverGoBack` needs `PlaceInv` only,
to know which gate a place is. `SignalsNeverMissed` is inductive with the one fact that
a signal which meets a blocked gate is consumed in the same step. `TerminalRunsIdle`
needs `LiveInv`: every attempt is the one the server waits for or one of an activity
that was timed out, attempts of one activity differ in their number, the current
activity has none that is newer than the one waited for, and no activity has an
attempt before the run has come to it. The last two are what lets a new attempt be
told from every older one when an activity is dispatched.

**Compensation.** `WindowInv` says that the timer is armed beside the switch alone and
that a window that went wrong has not been recorded as switched; `ReadOnlyInv` carries
the flag through the compensation. For the rollback, `ExpandJobsInv` says that with no
attempt timed out the worker executes only the expand attempt the server waits for,
so none is left when the rollback begins, and `RollbackJobsInv` that a rollback attempt
has removed what the statements behind it drop, whichever earlier attempt did so.

**Coordinator.** The completion handler clears the lock without comparing plan ids,
so exclusion depends on nobody else sending a completion. The argument is a
token: the right to work is with the granted request, then with the run, then with
the completion under way. `GrantToken` and `CompletionToken` say that its owner's plan
is `active` and that there is no second one; a failed request loses the token (the
lock leaks), no step makes another. `SchemaLock` follows by reading `Acquire`, `Begin`,
`End` and `Release` off the token's moves; `LockLostOnlyBy` by asking each action who
had the token before it. `HolderOnlyAdvances` looks at the one who has it: while it has
yet to start its run nothing is behind it, and once it has, no request may start a run
(that takes the token) or be granted the lock again, which `StageKept` says part by part.

**Shared schema.** Each step is one of `DatabaseOps` or a stutter of it, so `IInv` of the
coordinator is inherited; `AttemptsOfRuns` ties an attempt to a run at work, and
`ExpandKept` says that without leftovers the table is changed by that run alone.
`CoordinatorHoldsInComposition` puts the theorems about the coordinator and the
refinement together.

**Pool.** `Quiet` says what holds until calls overlap: the pool is one session, one
call is at work, and the session carries only what this call has still to undo.
`WaitersServable` needs only the accounting: a connection that is open and not idle is
held, its holder is at a stage of use, and a stage of use waits for nothing.

**Registry.** `Written`, `KeepsAlong` and `IdsApart` describe the histories; appending a
version that `Accepts` let in keeps them, whichever run does it. `Budget` bounds the
versions a run has in each history by the attempts it has had of the activity that
adds them: a version counts for its author only (`CountAppend`), and a step that adds
one either uses up an attempt or leaves the activity.

**Pipeline.** `RunInv` is an invariant of one run and the connector: only the CDC run
has a creation in its list, an undoing run that knows of the connector still has the
deletion first in its list or the connector is gone. `OthersConnectorsKept` rests on
`OwnInv`: a list deletes the connector for a decommissioning or for a run that claims it
(it was told of the creation, or is between its two calls), only the CDC run claims, and
what it claims is its own or gone. No other run can have created one since, because the
run holds the only workflow id that does. `SagaInv` splits a workflow's
resources into those the run knows of and those its list will still create (`Pending`),
with no activity twice; lemmas about concatenation and tails carry it, and `SagaStep`
reads the steps of `ProvisioningSaga` off two states of a run. `SuccessesAgree` rests
on `AloneInv` (a run that is alone is the only open one, and the request is answered)
and `DoneInv`: each activity that is no longer in the list of a run that is alone has
its `Effect` in the stores, and an attempt between its two calls half of it. A list
marks the pipeline once and moves the connector once (`OneOfEach`), so no later step of
the same run takes an effect back. `RunsOnlyAdvance` compares a run before and after a
step by `Nearer`, which is lexicographic: status, activities to do, attempts left, calls
of the attempt. It rests on `TodoInv` (an open run has something to do). The run's own
steps are strictly nearer, every other step is nearer or changes nothing but who else is
about, and a restart in the middle of an attempt is a failed attempt: a run takes
finitely many steps. `SagasSettle` reads off the refinement what a provisioning run's end
means.

Only model-checked: the liveness properties `ReachesGateOrEnd`, `PendingRollbackEnds`,
`LockReleased`, `RecycleHappens` and `EveryCallServed`; fairness and `ENABLED` are beyond
the proof system. Most have a safety half that is proved, and that says why the
fairness assumed is enough:

| Liveness, model-checked | Safety half, proved |
|---|---|
| `ReachesGateOrEnd` | `NeverBack`: no activity, gate or compensation is entered twice, no attempt made beyond its policy |
| `PendingRollbackEnds` | `NoSignalMissed`: no gate blocks beside a signal |
| `LockReleased` | `HolderNeverSetBack`, `LockLostOnlyBy` |
| `EveryCallServed` | `WaitsOnUserOnly`: no circle of waiters |

`NoSignalMissed`, `HolderNeverSetBack` and `WaitsOnUserOnly` are defined in the proof
modules, next to their theorems, and so is `RegistrationsBounded`; no run repeats them.

## 6. What is not modelled, and why

* The Temporal server and SDK are external: what is assumed of them is stated at
  the action (buffered signals, selector order, retries, attaching to an open run,
  a closed run not standing in the way of a new one). So are PostgreSQL, pgxpool and
  Kafka Connect.
* An operator who terminates or resets a workflow.
* Leftover attempts of quick activities, and calls of a timed-out attempt that reach
  Kafka Connect or the stores late: their one call is short, and its effect is taken
  within the attempt.
* `BlueGreenDeployment` and `SharedSchema` take `readOnly` and the checks as the
  migrator's interface promises them; `MigratorPool` has what sessions make of it.
* Traffic switching is a stub in the code; `traffic` is what the stub stands for.
* A second connector of a pipeline, tenants and authorisation: runs of different
  pipelines share nothing but the registry, which `SchemaRegistry` has.
* `FakeDatabaseMigrator`'s recognition of SQL text: regular expressions on text;
  its effect on columns is `Apply`.
* The audit list, observability, field validation and rendering have no control flow
  that the system depends on. Of the dashboard, the reads and signals are modelled and
  the rest of `ui.go` is text. The session programs build and wire the parts above.

## 7. Plan

Done: the deployment run, the coordinator and their composition; the pool; the
registry; the pipeline with its saga; a proof of every safety property that a
passing run checks, and the safety halves of its liveness.

Left, in this order:

1. a pipeline with two connectors and calls of timed-out attempts that arrive late;
2. larger instances of `SharedSchema` (a plan deployed twice beside another) as the
   length of a run allows;
3. a refinement of `SharedSchema`'s attempts by the statement lists of
   `BlueGreenDeployment`, for plans that share a table;
4. `FakeDatabaseMigrator`'s statement patterns as operators, should a property of the
   workshop's exercises ever depend on them.
