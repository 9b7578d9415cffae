---------------------------- MODULE CDCPipeline ----------------------------
(***************************************************************************)
(* One replication pipeline of one tenant: the workflows that provision,   *)
(* pause, resume and decommission it (src/internal/temporal/workflow.go,   *)
(* session2_workflow.go), their activities, the stores and provisioners    *)
(* they write, and the Kafka Connect cluster that runs its connector.      *)
(*                                                                         *)
(* Each kind of workflow has one workflow id per pipeline, so at most one  *)
(* run of a kind is open, but runs of different kinds overlap freely: the  *)
(* API checks that the pipeline exists and nothing else.  A run is a list  *)
(* of activities still to do.  An attempt of an activity may fail before   *)
(* its effect, between two calls, or after its effect (a timeout, a lost   *)
(* result); the server repeats it up to its RetryPolicy, and then the      *)
(* provisioning workflows undo what they know they have created.           *)
(*                                                                         *)
(* The stores and the stream and sink provisioners are maps in the memory  *)
(* of the program that also serves the API and runs the activities: when   *)
(* it restarts they are empty, while the server still has the runs and     *)
(* Kafka Connect the connector.                                            *)
(***************************************************************************)
EXTENDS Naturals, Sequences, FiniteSets

CONSTANTS
    MaxAttempts,  \* MaximumAttempts of defaultActivityOptions and compOpts
    MaxStarts,    \* bound: workflow runs started
    MaxRestarts,  \* bound: restarts of the program
    MaxEntries    \* bound: entries of a provisioner for this pipeline

ASSUME BoundsAssumption ==
    /\ MaxAttempts \in Nat \ {0}
    /\ MaxStarts \in Nat /\ MaxRestarts \in Nat /\ MaxEntries \in Nat

Provisioning == {"provision", "cdc"}
Workflows == Provisioning \cup {"pause", "resume", "decommission"}

(***************************************************************************)
(* The activities of each workflow in order.  Validate stands for the      *)
(* three checks of specification and schema, after which a failure leaves  *)
(* nothing to undo.  Both programs start the decommissioning with empty    *)
(* stream and sink ids, so its two deletions are skipped.                  *)
(***************************************************************************)
\* Faulty variant: the connector is not waited for.
ProvisionCDCStepsImpatient ==
    <<"Validate", "PrepareSource", "EnsureStream", "CreateConnector",
      "EnsureSink", "MarkActive">>

ProvisionCDCSteps ==
    <<"Validate", "PrepareSource", "EnsureStream", "CreateConnector",
      "WaitRunning", "EnsureSink", "MarkActive">>

PauseSteps == <<"PauseConnector", "MarkPaused">>
ResumeSteps == <<"ResumeConnector", "MarkActive">>
DecommissionSteps == <<"DeleteConnector", "MarkDecommissioned">>

Steps == [
    provision    |-> <<"Validate", "PrepareSource", "EnsureStream",
                       "EnsureSink", "StartCapture", "MarkActive">>,
    cdc          |-> ProvisionCDCSteps,
    pause        |-> PauseSteps,
    resume       |-> ResumeSteps,
    decommission |-> DecommissionSteps]

Activities ==
    (UNION {{Steps[w][i] : i \in DOMAIN Steps[w]} : w \in Workflows})
      \cup {"StopCapture", "DeleteSink", "DeleteStream", "MarkError"}

\* The results a provisioning run keeps and its compensation goes by.
Results == {"connector", "capture", "sink", "stream"}

If(condition, activity) == IF condition THEN <<activity>> ELSE <<>>

\* Faulty variant: the compensation of the base workflow, which knows no connector.
UndoBase(got) ==
    If("capture" \in got, "StopCapture")
      \o If("sink" \in got, "DeleteSink")
      \o If("stream" \in got, "DeleteStream")
      \o <<"MarkError">>

\* compensate and compensateCDC: what is known to exist, newest first.
Undo(got) ==
    If("connector" \in got, "DeleteConnector")
      \o If("capture" \in got, "StopCapture")
      \o If("sink" \in got, "DeleteSink")
      \o If("stream" \in got, "DeleteStream")
      \o <<"MarkError">>

Attempts(a) == IF a = "WaitRunning" THEN 1 ELSE MaxAttempts

VARIABLES
    state,      \* the pipeline's state in the metadata store, or "none"
    connector,  \* the connector in Kafka Connect
    record,     \* the state in the connector's record, or "absent"
    streams,    \* entries of the stream provisioner for this pipeline
    sinks,      \* entries of the sink provisioner for this pipeline
    request,    \* the createPipeline request that starts the provisioning
    run,        \* the newest run of each workflow
    starts,     \* runs started
    restarts,   \* restarts of the program
    own         \* history: the newest "cdc" run has created the connector there is

resources == <<connector, record, streams, sinks>>
vars == <<state, resources, request, run, starts, restarts, own>>

States == {"PENDING", "ACTIVE", "PAUSED", "ERROR", "DECOMMISSIONED"}
ConnectorStates == {"UNASSIGNED", "RUNNING", "PAUSED", "FAILED"}

\* Undo activities whose failure the properties ask about.
Watched == {"DeleteConnector", "MarkError"}

Run == [status : {"none", "forward", "undoing", "completed", "failed"},
        todo : Seq(Activities),      \* the first one is being attempted
        attempt : Nat,               \* failed attempts of it
        half : BOOLEAN,              \* the attempt's first call is made
        got : SUBSET Results,        \* results received
        \* history, read by properties only
        gaveUp : SUBSET Watched,     \* of these, the ones out of attempts
        alone : BOOLEAN]             \* no other run, no restart since it started

TypeOK ==
    /\ state \in States \cup {"none"}
    /\ connector \in ConnectorStates \cup {"absent"}
    /\ record \in ConnectorStates \cup {"absent"}
    /\ streams \in Nat
    /\ sinks \in Nat
    /\ request \in {"none", "starting", "failing", "answered"}
    /\ run \in [Workflows -> Run]
    /\ starts \in Nat
    /\ restarts \in Nat
    /\ own \in BOOLEAN

NoRun == [status |-> "none", todo |-> <<>>, attempt |-> 0, half |-> FALSE,
          got |-> {}, gaveUp |-> {}, alone |-> FALSE]

Init ==
    /\ state = "none"
    /\ connector = "absent"
    /\ record = "absent"
    /\ streams = 0
    /\ sinks = 0
    /\ request = "none"
    /\ run = [w \in Workflows |-> NoRun]
    /\ starts = 0
    /\ restarts = 0
    /\ own = FALSE

-----------------------------------------------------------------------------
(***************************************************************************)
(* Control flow of a run.                                                  *)
(***************************************************************************)
Open(w) == run[w].status \in {"forward", "undoing"}
At(w, a) == Open(w) /\ Head(run[w].todo) = a

\* The current activity is over; a compensation ends in an error.
Advance(r, gained) ==
    [r EXCEPT !.todo = Tail(@), !.attempt = 0, !.half = FALSE,
              !.got = @ \cup gained,
              !.status = IF Tail(r.todo) # <<>> THEN @
                         ELSE IF @ = "forward" THEN "completed" ELSE "failed"]

\* Faulty variant: an error of the last step is returned at once.
CompensatesEarly(w, a) ==
    w \in Provisioning /\ a \notin {"Validate", "MarkActive"}

\* Errors of the checks are returned at once, later ones after compensation.
Compensates(w, a) == w \in Provisioning /\ a # "Validate"

\* Faulty variant: the compensation returns the first error it meets.
OnErrorGivesUp(w, r) ==
    IF r.status = "forward" /\ Compensates(w, Head(r.todo))
    THEN [r EXCEPT !.status = "undoing", !.todo = Undo(r.got),
                   !.attempt = 0, !.half = FALSE]
    ELSE [r EXCEPT !.status = "failed", !.todo = <<>>,
                   !.attempt = 0, !.half = FALSE]

\* Faulty variant: an error of the compensation starts it over.
OnErrorStartsOver(w, r) ==
    IF r.status = "undoing" \/ Compensates(w, Head(r.todo))
    THEN [r EXCEPT !.status = "undoing", !.todo = Undo(r.got),
                   !.attempt = 0, !.half = FALSE]
    ELSE [r EXCEPT !.status = "failed", !.todo = <<>>,
                   !.attempt = 0, !.half = FALSE]

\* The error of an activity whose attempts are exhausted.
OnError(w, r) ==
    CASE r.status = "undoing" ->
           Advance([r EXCEPT !.gaveUp = @ \cup ({Head(r.todo)} \cap Watched)], {})
      [] r.status = "forward" /\ Compensates(w, Head(r.todo)) ->
           [r EXCEPT !.status = "undoing", !.todo = Undo(r.got),
                     !.attempt = 0, !.half = FALSE]
      [] OTHER ->
           [r EXCEPT !.status = "failed", !.todo = <<>>,
                     !.attempt = 0, !.half = FALSE]

Fail(w, r) ==
    IF r.attempt + 1 < Attempts(Head(r.todo))
    THEN [r EXCEPT !.attempt = @ + 1, !.half = FALSE]
    ELSE OnError(w, r)

Become(w, r) == run' = [run EXCEPT ![w] = r]

\* The attempt's work is done: its result is received, or lost.
Finish(w, gained) ==
    \/ Become(w, Advance(run[w], gained))
    \/ Become(w, Fail(w, run[w]))

\* The first of two calls is made: the second follows, or the attempt ends.
FirstCall(w) ==
    \/ Become(w, [run[w] EXCEPT !.half = TRUE])
    \/ Become(w, Fail(w, run[w]))

-----------------------------------------------------------------------------
(***************************************************************************)
(* The platform API.                                                       *)
(***************************************************************************)
Busy == (\E w \in Workflows : Open(w)) \/ request \in {"starting", "failing"}

\* A start request that finds an open run of the same id attaches to it.
Start(w, alone) ==
    /\ ~Open(w)
    /\ starts < MaxStarts
    /\ starts' = starts + 1
    /\ UNCHANGED restarts
    /\ own' = (own /\ w # "cdc")
    /\ run' = [v \in Workflows |->
                 IF v = w
                 THEN [NoRun EXCEPT !.status = "forward", !.todo = Steps[w],
                                    !.alone = alone]
                 ELSE [run[v] EXCEPT !.alone = FALSE]]

CreatePipeline ==
    /\ state = "none"
    /\ state' = "PENDING"
    /\ request' = "starting"
    /\ UNCHANGED <<resources, run, starts, restarts, own>>

\* The start may reach the server and its answer be lost.
StartProvision ==
    /\ request = "starting"
    /\ \/ request' = "answered" /\ Start("provision", \A w \in Workflows : ~Open(w))
       \/ request' = "failing" /\ Start("provision", FALSE)
    /\ UNCHANGED <<state, resources>>

\* The id is taken by a run that an earlier life of the program started.
AttachProvision ==
    /\ request = "starting"
    /\ Open("provision")
    /\ request' = "answered"
    /\ UNCHANGED <<state, resources, run, starts, restarts, own>>

StartFails ==
    /\ request = "starting"
    /\ request' = "failing"
    /\ UNCHANGED <<state, resources, run, starts, restarts, own>>

\* "Best-effort state correction" of a request whose start failed.
CorrectState ==
    /\ request = "failing"
    /\ state' = "ERROR"
    /\ request' = "answered"
    /\ UNCHANGED <<resources, run, starts, restarts, own>>

\* createConnector, pauseConnector, resumeConnector, deleteConnector.
StartOperation(w) ==
    /\ w # "provision"
    /\ state # "none"
    /\ Start(w, ~Busy)
    /\ UNCHANGED <<state, resources, request>>

-----------------------------------------------------------------------------
(***************************************************************************)
(* Activities.                                                             *)
(***************************************************************************)
Unchanged == UNCHANGED <<request, starts, restarts, own>>

\* Activities that leave nothing behind; StopCapture is a no-op of the
\* provisioner the programs are built with.
NoEffect(w) ==
    /\ \E a \in {"Validate", "PrepareSource", "StopCapture"} : At(w, a)
    /\ Become(w, Advance(run[w], {}))
    /\ Unchanged /\ UNCHANGED <<state, resources>>

StartCapture(w) ==
    /\ At(w, "StartCapture")
    /\ Become(w, Advance(run[w], {"capture"}))
    /\ Unchanged /\ UNCHANGED <<state, resources>>

\* EnsureStream and EnsureSink append an entry each time they are called.
EnsureStream(w) ==
    /\ At(w, "EnsureStream") /\ streams < MaxEntries
    /\ streams' = streams + 1
    /\ Finish(w, {"stream"})
    /\ Unchanged /\ UNCHANGED <<state, connector, record, sinks>>

EnsureSink(w) ==
    /\ At(w, "EnsureSink") /\ sinks < MaxEntries
    /\ sinks' = sinks + 1
    /\ Finish(w, {"sink"})
    /\ Unchanged /\ UNCHANGED <<state, connector, record, streams>>

\* Deletions remove one entry and succeed when there is none.
DeleteStream(w) ==
    /\ At(w, "DeleteStream")
    /\ streams' = IF streams > 0 THEN streams - 1 ELSE 0
    /\ Finish(w, {})
    /\ Unchanged /\ UNCHANGED <<state, connector, record, sinks>>

\* Faulty variant: an entry is taken away without looking for it.
DeleteSinkBlindly(w) ==
    /\ At(w, "DeleteSink")
    /\ sinks' = sinks - 1
    /\ Finish(w, {})
    /\ Unchanged /\ UNCHANGED <<state, connector, record, streams>>

DeleteSink(w) ==
    /\ At(w, "DeleteSink")
    /\ sinks' = IF sinks > 0 THEN sinks - 1 ELSE 0
    /\ Finish(w, {})
    /\ Unchanged /\ UNCHANGED <<state, connector, record, streams>>

\* SetPipelineState fails when the store does not know the pipeline.
Mark(w, a, s) ==
    /\ At(w, a)
    /\ state # "none"
    /\ state' = s
    /\ Finish(w, {})
    /\ Unchanged /\ UNCHANGED resources

MarkState(w) ==
    \/ Mark(w, "MarkActive", "ACTIVE")
    \/ Mark(w, "MarkPaused", "PAUSED")
    \/ Mark(w, "MarkError", "ERROR")
    \/ Mark(w, "MarkDecommissioned", "DECOMMISSIONED")

\* Faulty variant: a connector that is there is taken for the attempt's own.
CreateConnectorAdopting(w) ==
    /\ At(w, "CreateConnector") /\ ~run[w].half
    /\ connector' = IF connector = "absent" THEN "UNASSIGNED" ELSE connector
    /\ own' = (own \/ connector = "absent")
    /\ FirstCall(w)
    /\ UNCHANGED <<request, starts, restarts, state, record, streams, sinks>>

\* POST /connectors answers 409 when the name is taken, by whomever: then,
\* as for any other error, the attempt fails (AttemptFails).
CreateConnector(w) ==
    /\ At(w, "CreateConnector") /\ ~run[w].half
    /\ connector = "absent"
    /\ connector' = "UNASSIGNED"
    /\ own' = TRUE
    /\ FirstCall(w)
    /\ UNCHANGED <<request, starts, restarts, state, record, streams, sinks>>

CreateRecord(w) ==
    /\ At(w, "CreateConnector") /\ run[w].half
    /\ record = "absent"
    /\ record' = "UNASSIGNED"
    /\ Finish(w, {"connector"})
    /\ Unchanged /\ UNCHANGED <<state, connector, streams, sinks>>

\* The poll that sees RUNNING; while it sees UNASSIGNED or PAUSED it goes on.
SeeRunning(w) ==
    /\ At(w, "WaitRunning") /\ ~run[w].half
    /\ connector = "RUNNING"
    /\ FirstCall(w)
    /\ Unchanged /\ UNCHANGED <<state, resources>>

PauseConnector(w) ==
    /\ At(w, "PauseConnector") /\ ~run[w].half
    /\ connector # "absent"
    /\ connector' = IF connector = "FAILED" THEN "FAILED" ELSE "PAUSED"
    /\ FirstCall(w)
    /\ Unchanged /\ UNCHANGED <<state, record, streams, sinks>>

ResumeConnector(w) ==
    /\ At(w, "ResumeConnector") /\ ~run[w].half
    /\ connector # "absent"
    /\ connector' = IF connector = "PAUSED" THEN "RUNNING" ELSE connector
    /\ FirstCall(w)
    /\ Unchanged /\ UNCHANGED <<state, record, streams, sinks>>

\* UpdateConnectorState fails when there is no record.
UpdateRecord(w) ==
    /\ run[w].half
    /\ record # "absent"
    /\ \/ At(w, "PauseConnector") /\ record' = "PAUSED"
       \/ At(w, "ResumeConnector") /\ record' = "RUNNING"
       \/ At(w, "WaitRunning") /\ record' = "RUNNING"
    /\ Finish(w, {})
    /\ Unchanged /\ UNCHANGED <<state, connector, streams, sinks>>

DeleteConnector(w) ==
    /\ At(w, "DeleteConnector") /\ ~run[w].half
    /\ connector' = "absent"
    /\ own' = FALSE
    /\ FirstCall(w)
    /\ UNCHANGED <<request, starts, restarts, state, record, streams, sinks>>

DeleteRecord(w) ==
    /\ At(w, "DeleteConnector") /\ run[w].half
    /\ record' = "absent"
    /\ Finish(w, {})
    /\ Unchanged /\ UNCHANGED <<state, connector, streams, sinks>>

\* An attempt ends in an error, or times out, without (further) effect: a
\* failing check, a refused call, a poll that runs out of time.
AttemptFails(w) ==
    /\ Open(w)
    /\ Become(w, Fail(w, run[w]))
    /\ Unchanged /\ UNCHANGED <<state, resources>>

-----------------------------------------------------------------------------
\* Kafka Connect by itself.
ConnectorStarts ==
    /\ connector = "UNASSIGNED"
    /\ connector' = "RUNNING"
    /\ UNCHANGED <<state, record, streams, sinks, request, run, starts, restarts, own>>

ConnectorFails ==
    /\ connector \in {"UNASSIGNED", "RUNNING"}
    /\ connector' = "FAILED"
    /\ UNCHANGED <<state, record, streams, sinks, request, run, starts, restarts, own>>

\* The program restarts with empty stores and provisioners: a request in
\* progress is lost, and so is an attempt that stopped between two calls.
Restart ==
    /\ restarts < MaxRestarts
    /\ restarts' = restarts + 1
    /\ state' = "none"
    /\ record' = "absent"
    /\ streams' = 0
    /\ sinks' = 0
    /\ request' = "none"
    /\ run' = [w \in Workflows |->
                 LET r == [run[w] EXCEPT !.alone = FALSE]
                 IN  IF Open(w) /\ r.half THEN Fail(w, r) ELSE r]
    /\ UNCHANGED <<connector, starts, own>>

Step(w) ==
    \/ NoEffect(w) \/ StartCapture(w)
    \/ EnsureStream(w) \/ EnsureSink(w) \/ DeleteStream(w) \/ DeleteSink(w)
    \/ MarkState(w)
    \/ CreateConnector(w) \/ CreateRecord(w) \/ SeeRunning(w)
    \/ PauseConnector(w) \/ ResumeConnector(w) \/ UpdateRecord(w)
    \/ DeleteConnector(w) \/ DeleteRecord(w)
    \/ AttemptFails(w)

API ==
    \/ CreatePipeline \/ StartProvision \/ AttachProvision \/ StartFails \/ CorrectState
    \/ \E w \in Workflows : StartOperation(w)

Next == API \/ (\E w \in Workflows : Step(w))
        \/ ConnectorStarts \/ ConnectorFails \/ Restart

Spec == Init /\ [][Next]_vars

-----------------------------------------------------------------------------
(***************************************************************************)
(* Safety.                                                                 *)
(***************************************************************************)
\* A run that succeeded, and that no other run overlapped or followed, has
\* left the metadata store, the connector's record and Kafka Connect in
\* agreement, whatever earlier runs left behind and however often its own
\* attempts were repeated (session2_workflow.go:22-169).
Agreement == [
    provision    |-> state = "ACTIVE" /\ streams > 0 /\ sinks > 0,
    cdc          |-> /\ state = "ACTIVE" /\ streams > 0 /\ sinks > 0
                     /\ record = "RUNNING" /\ connector \in {"RUNNING", "FAILED"},
    pause        |-> /\ state = "PAUSED" /\ record = "PAUSED"
                     /\ connector \in {"PAUSED", "FAILED"},
    resume       |-> /\ state = "ACTIVE" /\ record = "RUNNING"
                     /\ connector \in ConnectorStates \ {"PAUSED"},
    decommission |-> /\ state = "DECOMMISSIONED"
                     /\ record = "absent" /\ connector = "absent"]

SuccessAgrees ==
    \A w \in Workflows :
        run[w].status = "completed" /\ run[w].alone => Agreement[w]

\* A provisioning run that had to compensate has told the metadata store,
\* and nobody is left with the belief that the pipeline is active
\* (workflow.go:117-118, session2_workflow.go:197).
FailureRecorded ==
    \A w \in Provisioning :
        /\ run[w].status = "failed" /\ run[w].todo = <<>> /\ run[w].alone
        /\ run[w].got # {} /\ "MarkError" \notin run[w].gaveUp
        => state = "ERROR"

\* A connector whose creation was reported does not survive the failure of
\* the run that created it, whatever other runs do meanwhile, unless its
\* deletion ran out of attempts (session2_workflow.go:67 and 187-190).
ReportedConnectorUndone ==
    LET r == run["cdc"] IN
        /\ r.status = "failed"
        /\ "connector" \in r.got
        /\ "DeleteConnector" \notin r.gaveUp
        => connector = "absent"

\* A connector that the newest CDC provisioning run did not create goes away
\* by a decommissioning only: a second createConnector, which fails on the
\* connector it finds, does not delete it in its compensation, whatever was
\* lost, repeated or restarted before (session2_activities.go:50,
\* session2_workflow.go:67 and 187-190).
OthersConnectorKept ==
    [][connector # "absent" /\ connector' = "absent"
         => own \/ At("decommission", "DeleteConnector")]_vars

\* Each provisioning run implements ProvisioningSaga: it succeeds with every
\* resource of its list, and its compensation turns to all the resources it
\* was told of, one by one, before the run fails, across lost results,
\* repeated attempts, other runs and restarts of the program
\* (workflow.go:92-121, session2_workflow.go:172-200).
Resources == [provision |-> {"stream", "sink", "capture"},
              cdc       |-> {"stream", "connector", "sink"}]

Deletes == [connector |-> "DeleteConnector", capture |-> "StopCapture",
            sink |-> "DeleteSink", stream |-> "DeleteStream"]

ToUndo(r) ==
    IF r.status = "undoing"
    THEN {x \in r.got : \E i \in DOMAIN r.todo : r.todo[i] = Deletes[x]}
    ELSE {}

ProvisionSaga == INSTANCE ProvisioningSaga WITH
    Needed <- Resources["provision"], phase <- run["provision"].status,
    acquired <- run["provision"].got, toUndo <- ToUndo(run["provision"])

CDCSaga == INSTANCE ProvisioningSaga WITH
    Needed <- Resources["cdc"], phase <- run["cdc"].status,
    acquired <- run["cdc"].got, toUndo <- ToUndo(run["cdc"])

ImplementsSaga == ProvisionSaga!Spec /\ CDCSaga!Spec

\* How far the status of a run is from its end.
Remaining == [none |-> 0, forward |-> 2, undoing |-> 1, completed |-> 0, failed |-> 0]

\* s is nearer to the end of the run than r: in status, in activities to do,
\* in attempts left, or in calls of the attempt.
Nearer(r, s) ==
    \/ Remaining[s.status] < Remaining[r.status]
    \/ /\ s.status = r.status
       /\ \/ Len(s.todo) < Len(r.todo)
          \/ /\ s.todo = r.todo
             /\ \/ r.attempt < s.attempt /\ s.attempt < Attempts(Head(r.todo))
                \/ s.attempt = r.attempt /\ ~r.half /\ s.half

\* Whatever fails and whoever interferes, every step of an open run brings it
\* nearer to its end, and no other step takes it back: a compensation is
\* entered once and never started over, and nothing is attempted more often
\* than its RetryPolicy allows, restarts included (workflow.go:92-121,
\* session2_workflow.go:172-200).
RunsAdvance ==
    [][\A w \in Workflows : Open(w) =>
          \/ Nearer(run[w], run'[w])
          \/ ~Step(w) /\ run'[w] = [run[w] EXCEPT !.alone = run'[w].alone]]_vars

(***************************************************************************)
(* What the documentation says and the code does not do.                   *)
(***************************************************************************)
\* "On failure after resource creation it compensates in reverse order"
\* (session2_workflow.go:24): a failed provisioning whose compensation was
\* able to delete leaves no connector behind when it is the only run so far.
CompensationComplete ==
    LET r == run["cdc"] IN
        /\ r.status = "failed" /\ starts = 1
        /\ "DeleteConnector" \notin r.gaveUp
        => connector = "absent"
=============================================================================
