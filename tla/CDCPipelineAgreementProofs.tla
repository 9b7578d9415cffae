--------------------- MODULE CDCPipelineAgreementProofs ---------------------
(***************************************************************************)
(* What a run of CDCPipeline leaves in the stores when no other run, no    *)
(* request and no restart came in between: SuccessAgrees and               *)
(* FailureRecorded, for every retry policy.                                *)
(***************************************************************************)
EXTENDS CDCPipelineProofs

(***************************************************************************)
(* A run that is alone: the others are closed, the request is answered,    *)
(* and the store knows the pipeline.                                       *)
(***************************************************************************)
AloneInv ==
    /\ request # "none" <=> state # "none"
    /\ \A w \in Workflows : run[w].alone =>
          /\ request = "answered"
          /\ \A v \in Workflows : v # w => ~Open(v)

LEMMA AloneStays ==
    ASSUME NEW w, NEW r \in Run
    PROVE  /\ [r EXCEPT !.half = TRUE].alone = r.alone
           /\ Fail(w, r).alone = r.alone
           /\ \A gained : Advance(r, gained).alone = r.alone
  BY DEF Fail, OnError, Advance, Run

LEMMA AloneStep == RunsInv /\ StoresOK /\ AloneInv /\ [Next]_vars => AloneInv'
  <1> SUFFICES ASSUME RunsInv, StoresOK, AloneInv, [Next]_vars
               PROVE  AloneInv'
    OBVIOUS
  <1> USE DEF AloneInv
  <1>1. ASSUME UNCHANGED run, request' = request \/ request' = "answered"
               \/ \A w \in Workflows : ~run[w].alone,
               request' # "none" <=> state' # "none"
        PROVE  AloneInv'
    BY <1>1 DEF Open
  <1>2. ASSUME NEW v \in Workflows, Step(v)
        PROVE  AloneInv'
    <2>1. Open(v)
      BY <1>2, StepCases
    <2>2. PICK q : Become(v, q) /\ q.alone = run[v].alone
      <3>1. run[v] \in Run
        BY DEF RunsInv
      <3>2. /\ [run[v] EXCEPT !.half = TRUE].alone = run[v].alone
            /\ Fail(v, run[v]).alone = run[v].alone
            /\ Advance(run[v], GainOf(Head(run[v].todo))).alone = run[v].alone
        BY <3>1, AloneStays
      <3>3. QED
        BY <1>2, <3>2, StepCases
    <2>3. \A w \in Workflows : w # v => run'[w] = run[w]
      BY <2>2 DEF Become, RunsInv
    <2>4. run'[v].alone = run[v].alone
      <3>1. run'[v] = q
        BY <2>2 DEF Become, RunsInv
      <3>2. QED
        BY <2>2, <3>1
    <2>5. request' = request /\ (state' # "none" <=> state # "none")
      <3> USE DEF Unchanged, resources
      <3>1. CASE MarkState(v)
        BY <3>1 DEF MarkState, Mark
      <3>2. CASE NoEffect(v) \/ StartCapture(v) \/ AttemptFails(v) \/ SeeRunning(v)
        BY <3>2 DEF NoEffect, StartCapture, AttemptFails, SeeRunning
      <3>3. CASE EnsureStream(v) \/ EnsureSink(v) \/ DeleteStream(v) \/ DeleteSink(v)
        BY <3>3 DEF EnsureStream, EnsureSink, DeleteStream, DeleteSink
      <3>4. CASE \/ CreateConnector(v) \/ CreateRecord(v) \/ DeleteConnector(v)
                 \/ DeleteRecord(v)
        BY <3>4 DEF CreateConnector, CreateRecord, DeleteConnector, DeleteRecord
      <3>5. CASE PauseConnector(v) \/ ResumeConnector(v) \/ UpdateRecord(v)
        BY <3>5 DEF PauseConnector, ResumeConnector, UpdateRecord
      <3>6. QED
        BY <1>2, <3>1, <3>2, <3>3, <3>4, <3>5 DEF Step
    <2>6. ASSUME NEW w \in Workflows, run'[w].alone
          PROVE  /\ request' = "answered"
                 /\ \A u \in Workflows : u # w => ~Open(u)'
      <3>1. run[w].alone
        BY <2>3, <2>4, <2>6
      <3>2. w = v
        BY <2>1, <3>1
      <3>3. QED
        BY <2>3, <2>5, <3>1, <3>2 DEF Open
    <2>7. QED
      BY <2>5, <2>6
  <1>3. CASE CreatePipeline \/ AttachProvision \/ StartFails \/ CorrectState
    BY <1>1, <1>3 DEF CreatePipeline, AttachProvision, StartFails, CorrectState
  <1>4. ASSUME NEW v \in Workflows, NEW alone \in BOOLEAN, Start(v, alone),
               alone => request' = "answered" /\ \A w \in Workflows : ~Open(w),
               request' # "none" <=> state' # "none"
        PROVE  AloneInv'
    <2>1. ASSUME NEW w \in Workflows
          PROVE  /\ w = v => run'[w].alone = alone
                 /\ w # v => ~run'[w].alone
                 /\ w # v /\ ~Open(w) => ~Open(w)'
      <3>1. run[w] \in Run
        BY DEF RunsInv
      <3>2. w = v => run'[w] = [NoRun EXCEPT !.status = "forward", !.todo = Steps[v],
                                             !.alone = alone]
        BY <1>4 DEF Start
      <3>3. w # v => run'[w] = [run[w] EXCEPT !.alone = FALSE]
        BY <1>4 DEF Start
      <3>4. QED
        BY <3>1, <3>2, <3>3 DEF NoRun, Run, Open
    <2>2. QED
      BY <1>4, <2>1
  <1>5. CASE StartProvision
    <2>1. "provision" \in Workflows /\ request' # "none" /\ state' # "none"
      BY <1>5 DEF StartProvision, Workflows, Provisioning
    <2>2. CASE request' = "answered" /\ Start("provision", \A w \in Workflows : ~Open(w))
      BY <1>4, <2>1, <2>2
    <2>3. CASE Start("provision", FALSE)
      BY <1>4, <2>1, <2>3
    <2>4. QED
      BY <1>5, <2>2, <2>3 DEF StartProvision
  <1>6. ASSUME NEW v \in Workflows, StartOperation(v)
        PROVE  AloneInv'
    <2>1. Start(v, ~Busy) /\ (~Busy) \in BOOLEAN /\ UNCHANGED <<state, request>>
      BY <1>6 DEF StartOperation, Busy
    <2>2. ~Busy => request' = "answered" /\ \A w \in Workflows : ~Open(w)
      <3>1. request \in {"none", "starting", "failing", "answered"} /\ request # "none"
        BY <1>6 DEF StartOperation, StoresOK
      <3>2. QED
        BY <2>1, <3>1 DEF Busy
    <2>3. QED
      BY <1>4, <2>1, <2>2
  <1>7. CASE ConnectorStarts \/ ConnectorFails \/ UNCHANGED vars
    BY <1>1, <1>7 DEF ConnectorStarts, ConnectorFails, vars
  <1>8. CASE Restart
    <2>1. ASSUME NEW w \in Workflows
          PROVE  ~run'[w].alone
      <3> DEFINE q == [run[w] EXCEPT !.alone = FALSE]
      <3>1. q \in Run /\ ~q.alone
        BY DEF RunsInv, Run
      <3>2. run'[w] = IF Open(w) /\ q.half THEN Fail(w, q) ELSE q
        BY <1>8 DEF Restart
      <3> HIDE DEF q
      <3>3. QED
        BY <3>1, <3>2, AloneStays
    <2>2. QED
      BY <1>8, <2>1 DEF Restart
  <1>9. QED
    BY <1>2, <1>3, <1>5, <1>6, <1>7, <1>8 DEF Next, API
-----------------------------------------------------------------------------
(***************************************************************************)
(* What an activity has brought about when its result is received, and     *)
(* when only its first call is made.                                       *)
(***************************************************************************)
ListOf(w) == {Steps[w][i] : i \in DOMAIN Steps[w]}

Marks == {"MarkActive", "MarkPaused", "MarkDecommissioned"}
Moves == {"WaitRunning", "PauseConnector", "ResumeConnector", "DeleteConnector"}

Effect(a) ==
    /\ a = "EnsureStream" => streams > 0
    /\ a = "EnsureSink" => sinks > 0
    /\ a = "MarkActive" => state = "ACTIVE"
    /\ a = "MarkPaused" => state = "PAUSED"
    /\ a = "MarkDecommissioned" => state = "DECOMMISSIONED"
    /\ a = "WaitRunning" => record = "RUNNING" /\ connector \in {"RUNNING", "FAILED"}
    /\ a = "PauseConnector" => record = "PAUSED" /\ connector \in {"PAUSED", "FAILED"}
    /\ a = "ResumeConnector" =>
         record = "RUNNING" /\ connector \in ConnectorStates \ {"PAUSED"}
    /\ a = "DeleteConnector" => record = "absent" /\ connector = "absent"

HalfEffect(a) ==
    /\ a = "WaitRunning" => connector \in {"RUNNING", "FAILED"}
    /\ a = "PauseConnector" => connector \in {"PAUSED", "FAILED"}
    /\ a = "ResumeConnector" => connector \in ConnectorStates \ {"PAUSED"}
    /\ a = "DeleteConnector" => connector = "absent"

\* A list marks the pipeline once and moves the connector once, and holds
\* what the agreement of its workflow speaks of.
LEMMA ListsAre ==
    /\ ListOf("provision") = {"Validate", "PrepareSource", "EnsureStream", "EnsureSink",
                              "StartCapture", "MarkActive"}
    /\ ListOf("cdc") = {"Validate", "PrepareSource", "EnsureStream", "CreateConnector",
                        "WaitRunning", "EnsureSink", "MarkActive"}
    /\ ListOf("pause") = {"PauseConnector", "MarkPaused"}
    /\ ListOf("resume") = {"ResumeConnector", "MarkActive"}
    /\ ListOf("decommission") = {"DeleteConnector", "MarkDecommissioned"}
  <1> DEFINE Of(s) == {s[i] : i \in DOMAIN s}
  <1>1. Of(<<"Validate", "PrepareSource", "EnsureStream", "EnsureSink",
             "StartCapture", "MarkActive">>)
          = {"Validate", "PrepareSource", "EnsureStream", "EnsureSink",
             "StartCapture", "MarkActive"}
    OBVIOUS
  <1>2. Of(<<"Validate", "PrepareSource", "EnsureStream", "CreateConnector",
             "WaitRunning", "EnsureSink", "MarkActive">>)
          = {"Validate", "PrepareSource", "EnsureStream", "CreateConnector",
             "WaitRunning", "EnsureSink", "MarkActive"}
    OBVIOUS
  <1>3. /\ Of(<<"PauseConnector", "MarkPaused">>) = {"PauseConnector", "MarkPaused"}
        /\ Of(<<"ResumeConnector", "MarkActive">>) = {"ResumeConnector", "MarkActive"}
        /\ Of(<<"DeleteConnector", "MarkDecommissioned">>)
             = {"DeleteConnector", "MarkDecommissioned"}
    OBVIOUS
  <1>4. QED
    BY <1>1, <1>2, <1>3 DEF ListOf, Steps, ProvisionCDCSteps,
       PauseSteps, ResumeSteps, DecommissionSteps

LEMMA OneOfEach ==
    ASSUME NEW w \in Workflows, NEW a \in ListOf(w), NEW b \in ListOf(w), a # b
    PROVE  ~(a \in Marks /\ b \in Marks) /\ ~(a \in Moves /\ b \in Moves)
  BY ListsAre DEF Workflows, Provisioning, Marks, Moves

(***************************************************************************)
(* A run that is alone finds the effects of all it has done.               *)
(***************************************************************************)
Done(w) == {a \in ListOf(w) : ~Holds(run[w].todo, a)}

DoneInv(w) ==
    /\ run[w].status = "forward" => \A i \in DOMAIN run[w].todo : run[w].todo[i] \in ListOf(w)
    /\ run[w].status = "completed" => run[w].todo = <<>>
    /\ run[w].alone /\ run[w].status \in {"forward", "completed"} =>
         /\ \A a \in Done(w) : Effect(a)
         /\ run[w].status = "forward" /\ run[w].half => HalfEffect(Head(run[w].todo))

\* A failed run that was told of a resource has marked the pipeline, or
\* has given up on that.
FailedInv(w) ==
    /\ run[w].status = "failed" /\ run[w].alone /\ run[w].got # {}
    /\ "MarkError" \notin run[w].gaveUp
    => state = "ERROR"

\* What the step of a run does beyond its control flow: h is the activity
\* it is at.
LEMMA StepEffects ==
    ASSUME RunsInv, StoresOK, NEW w \in Workflows, Step(w), DoneInv(w),
           run[w].alone, run[w].status = "forward",
           NEW h \in ListOf(w), h = Head(run[w].todo)
    PROVE  /\ \A a \in ListOf(w) : a # h /\ Effect(a) => Effect(a)'
           /\ \/ Become(w, Fail(w, run[w]))
              \/ Become(w, [run[w] EXCEPT !.half = TRUE]) /\ HalfEffect(h)'
              \/ Become(w, Advance(run[w], GainOf(h))) /\ Effect(h)'
  <1> USE DEF At, Finish, FirstCall, resources, Effect
  <1>1. run[w].half => HalfEffect(h)
    BY DEF DoneInv
  <1>2. CASE NoEffect(w) \/ StartCapture(w) \/ AttemptFails(w)
    BY <1>2, Gains DEF NoEffect, StartCapture, AttemptFails
  <1>3. CASE EnsureStream(w) \/ EnsureSink(w)
    <2>1. streams \in Nat /\ sinks \in Nat
      BY DEF StoresOK
    <2>2. /\ EnsureStream(w) => streams' > 0 /\ UNCHANGED <<state, connector, record, sinks>>
          /\ EnsureSink(w) => sinks' > 0 /\ UNCHANGED <<state, connector, record, streams>>
      BY <2>1 DEF EnsureStream, EnsureSink
    <2>3. /\ EnsureStream(w) => h = "EnsureStream" /\ Finish(w, {"stream"})
          /\ EnsureSink(w) => h = "EnsureSink" /\ Finish(w, {"sink"})
      BY DEF EnsureStream, EnsureSink
    <2>4. \A a \in ListOf(w) : a # h /\ Effect(a) => Effect(a)'
      BY <1>3, <2>2, <2>3
    <2>5. Effect(h)'
      BY <1>3, <2>2, <2>3
    <2>6. QED
      BY <1>3, <2>3, <2>4, <2>5, Gains
  <1>4. CASE DeleteStream(w) \/ DeleteSink(w)
    <2>1. h = "DeleteStream" \/ h = "DeleteSink"
      BY <1>4 DEF DeleteStream, DeleteSink
    <2>2. h # "DeleteStream" /\ h # "DeleteSink"
      BY ListsAre DEF Workflows, Provisioning
    <2>3. QED
      BY <2>1, <2>2
  <1>5. CASE MarkState(w)
    <2>1. \A a \in ListOf(w) : a # h => a \notin Marks
      BY <1>5, OneOfEach, ListsAre DEF MarkState, Mark, Marks, Workflows, Provisioning
    <2>2. h # "MarkError"
      BY ListsAre DEF Workflows, Provisioning
    <2>3. QED
      BY <1>5, <2>1, <2>2, Gains DEF MarkState, Mark, Marks
  <1>6. CASE CreateConnector(w)
    <2>1. w = "cdc" /\ connector = "absent"
      BY <1>6, CreatorIsCDC DEF CreateConnector
    <2>2. \A a \in ListOf(w) : Effect(a) => a \notin Moves
      BY <2>1, ListsAre DEF Moves
    <2>3. QED
      BY <1>6, <2>2 DEF CreateConnector, Moves, HalfEffect
  <1>7. CASE CreateRecord(w)
    <2>1. w = "cdc" /\ record = "absent"
      BY <1>7, CreatorIsCDC DEF CreateRecord
    <2>2. \A a \in ListOf(w) : Effect(a) => a \notin Moves
      BY <2>1, ListsAre DEF Moves
    <2>3. QED
      BY <1>7, <2>2, Gains DEF CreateRecord, Moves
  <1>8. CASE \/ SeeRunning(w) \/ PauseConnector(w) \/ ResumeConnector(w)
             \/ DeleteConnector(w)
    <2>1. \A a \in ListOf(w) : a # h => a \notin Moves
      BY <1>8, OneOfEach
         DEF SeeRunning, PauseConnector, ResumeConnector, DeleteConnector, Moves
    <2>2. CASE SeeRunning(w)
      BY <2>1, <2>2 DEF SeeRunning, HalfEffect
    <2>3. CASE PauseConnector(w)
      BY <2>1, <2>3 DEF PauseConnector, HalfEffect, Moves
    <2>4. CASE ResumeConnector(w)
      BY <2>1, <2>4 DEF ResumeConnector, HalfEffect, Moves, StoresOK, ConnectorStates
    <2>5. CASE DeleteConnector(w)
      BY <2>1, <2>5 DEF DeleteConnector, HalfEffect, Moves
    <2>6. QED
      BY <1>8, <2>2, <2>3, <2>4, <2>5
  <1>9. CASE UpdateRecord(w) \/ DeleteRecord(w)
    <2>1. \A a \in ListOf(w) : a # h => a \notin Moves
      BY <1>9, OneOfEach DEF UpdateRecord, DeleteRecord, Moves
    <2>2. CASE UpdateRecord(w)
      BY <1>1, <2>1, <2>2, Gains DEF UpdateRecord, HalfEffect, Moves
    <2>3. CASE DeleteRecord(w)
      BY <1>1, <2>1, <2>3, Gains DEF DeleteRecord, HalfEffect, Moves
    <2>4. QED
      BY <1>9, <2>2, <2>3
  <1>10. QED
    BY <1>2, <1>3, <1>4, <1>5, <1>6, <1>7, <1>8, <1>9 DEF Step

LEMMA MarkedError ==
    ASSUME NEW w \in Workflows, Step(w), Head(run[w].todo) = "MarkError"
    PROVE  Become(w, Fail(w, run[w])) \/ state' = "ERROR"
  BY DEF Step, At, NoEffect, StartCapture, EnsureStream, EnsureSink, DeleteStream,
     DeleteSink, MarkState, Mark, CreateConnector, CreateRecord, SeeRunning,
     PauseConnector, ResumeConnector, UpdateRecord, DeleteConnector, DeleteRecord,
     AttemptFails
-----------------------------------------------------------------------------
(***************************************************************************)
(* The two invariants, step by step.                                       *)
(***************************************************************************)
FatesInv ==
    /\ \A w \in Workflows : DoneInv(w)
    /\ \A w \in Provisioning : FailedInv(w)

\* With the same run, and effects that stay, both stay.
LEMMA FatesStay ==
    ASSUME FatesInv, NEW w \in Workflows,
           run'[w] = run[w],
           run[w].alone =>
             /\ \A a \in ListOf(w) : Effect(a) => Effect(a)'
             /\ \A a \in ListOf(w) : HalfEffect(a) => HalfEffect(a)'
             /\ state' = state \/ state' = "ERROR",
           InProgress(run[w]) => Head(run[w].todo) \in {run[w].todo[i] : i \in DOMAIN run[w].todo}
    PROVE  DoneInv(w)' /\ (w \in Provisioning => FailedInv(w)')
  <1>1. Done(w)' = Done(w)
    BY DEF Done, ListOf
  <1>2. FailedInv(w) /\ w \in Provisioning => FailedInv(w)'
    BY DEF FailedInv
  <1>3. DoneInv(w)'
    BY <1>1 DEF FatesInv, DoneInv, Done, InProgress
  <1>4. QED
    BY <1>2, <1>3 DEF FatesInv

\* A run that fails goes on only to repeat the activity it is at.
LEMMA FailForward ==
    ASSUME NEW w, NEW r \in Run, InProgress(r)
    PROVE  Fail(w, r).status \in {"forward", "completed"} =>
             /\ r.status = "forward" /\ Fail(w, r).status = "forward"
             /\ Fail(w, r).todo = r.todo
  BY DEF Fail, OnError, Advance, Run, InProgress

\* Where Fail leads.
LEMMA FailLeads ==
    ASSUME NEW w \in Workflows, NEW r \in Run, TodoInv(w, r), InProgress(r),
           w \in Provisioning => SagaInv(w, r)
    PROVE  LET q == Fail(w, r)
           IN  /\ q.status \in {"forward", "completed"} =>
                     r.status = "forward" /\ q.status = "forward"
                       /\ q.todo = r.todo /\ ~q.half
               /\ w \in Provisioning /\ q.status = "failed" =>
                     q.got = {} \/ "MarkError" \in q.gaveUp
  <1> DEFINE q == Fail(w, r)
             h == Head(r.todo)
  <1>1. CASE r.attempt + 1 < Attempts(h)
    <2>1. q = [r EXCEPT !.attempt = @ + 1, !.half = FALSE]
      BY <1>1 DEF Fail
    <2>2. q.status = r.status /\ q.todo = r.todo /\ ~q.half
      BY <2>1 DEF Run
    <2> HIDE DEF q
    <2>3. QED
      BY <2>2 DEF InProgress, q
  <1>2. CASE ~(r.attempt + 1 < Attempts(h)) /\ r.status = "undoing"
    <2> DEFINE p == [r EXCEPT !.gaveUp = @ \cup ({h} \cap Watched)]
    <2>1. q = Advance(p, {})
      BY <1>2 DEF Fail, OnError
    <2>2. /\ q.status = IF Tail(r.todo) # <<>> THEN "undoing" ELSE "failed"
          /\ q.gaveUp = r.gaveUp \cup ({h} \cap Watched)
      BY <1>2, <2>1 DEF Advance, Run
    <2> HIDE DEF q
    <2>3. w \in Provisioning /\ Tail(r.todo) = <<>> => h = "MarkError"
      BY <1>2, TailHolds DEF SagaInv, TodoInv, Run
    <2>4. QED
      BY <2>2, <2>3 DEF q, Watched
  <1>3. CASE ~(r.attempt + 1 < Attempts(h)) /\ r.status = "forward"
    <2>1. CASE Compensates(w, h)
      <3>1. q.status = "undoing"
        BY <1>3, <2>1 DEF Fail, OnError, Run
      <3> HIDE DEF q
      <3>2. QED
        BY <3>1 DEF q
    <2>2. CASE ~Compensates(w, h)
      <3>1. q.status = "failed" /\ q.got = r.got
        BY <1>3, <2>2 DEF Fail, OnError, Run
      <3>2. w \in Provisioning => r.got = {}
        BY <1>3, <2>2 DEF Compensates, SagaInv
      <3> HIDE DEF q
      <3>3. QED
        BY <3>1, <3>2 DEF q
    <2>3. QED
      BY <2>1, <2>2
  <1>4. QED
    BY <1>1, <1>2, <1>3 DEF InProgress

LEMMA FatesWorkflow ==
    ASSUME RunsInv, StoresOK, AloneInv, SagasInv, FatesInv,
           NEW v \in Workflows, Step(v), NEW w \in Workflows
    PROVE  DoneInv(w)' /\ (w \in Provisioning => FailedInv(w)')
  <1>1. run[w] \in Run /\ TodoInv(w, run[w]) /\ run \in [Workflows -> Run]
    BY DEF RunsInv, RunInv
  <1>2. Open(v)
    BY StepCases
  <1>3. CASE v # w
    <2>1. run'[w] = run[w]
      BY <1>1, <1>3, StepCases DEF Become
    <2>2. ~run[w].alone
      BY <1>2, <1>3 DEF AloneInv
    <2>3. QED
      BY <2>1, <2>2 DEF FatesInv, DoneInv, FailedInv
  <1>4. CASE v = w
    <2>0. SUFFICES ASSUME NEW CONSTANT h, h = Head(run[w].todo)
                   PROVE  DoneInv(w)' /\ (w \in Provisioning => FailedInv(w)')
      OBVIOUS
    <2> DEFINE half == [run[w] EXCEPT !.half = TRUE]
               failed == Fail(w, run[w])
               further == Advance(run[w], GainOf(h))
    <2>1. InProgress(run[w]) /\ run[w].todo \in Seq(Activities) /\ run[w].todo # <<>>
      BY <1>1, <1>2, <1>4 DEF Open, InProgress, TodoInv, Run
    <2>2. ASSUME NEW q, Become(w, q)
          PROVE  run'[w] = q
      BY <1>1, <2>2 DEF Become
    <2>3. /\ half.status = run[w].status /\ half.todo = run[w].todo
          /\ half.alone = run[w].alone
          /\ failed.alone = run[w].alone /\ further.alone = run[w].alone
      BY <1>1, AloneStays DEF Run
    <2>4. /\ further.status = IF Tail(run[w].todo) # <<>> THEN run[w].status
                               ELSE IF run[w].status = "forward" THEN "completed"
                                                                 ELSE "failed"
          /\ further.todo = Tail(run[w].todo) /\ ~further.half
          /\ further.gaveUp = run[w].gaveUp
      BY <1>1 DEF Advance, Run
    <2>5. w \in Provisioning => SagaInv(w, run[w])
      BY DEF SagasInv
    <2>6. /\ failed.status \in {"forward", "completed"} =>
               /\ run[w].status = "forward" /\ failed.status = "forward"
               /\ failed.todo = run[w].todo /\ ~failed.half
          /\ w \in Provisioning /\ failed.status = "failed" =>
               failed.got = {} \/ "MarkError" \in failed.gaveUp
      BY <1>1, <2>1, <2>5, FailLeads
    <2>7. h = run[w].todo[1] /\ 1 \in DOMAIN run[w].todo
      BY <2>0, <2>1, HeadIsFirst
    <2>8. ASSUME NEW a, Holds(run[w].todo, a), ~Holds(Tail(run[w].todo), a)
          PROVE  a = h
      <3>1. PICK i \in DOMAIN run[w].todo : run[w].todo[i] = a
        BY <2>8 DEF Holds
      <3>2. i = 1 \/ (i - 1 \in DOMAIN Tail(run[w].todo) /\ Tail(run[w].todo)[i - 1] = a)
        BY <2>1, <3>1
      <3>3. QED
        BY <2>7, <2>8, <3>1, <3>2 DEF Holds
    <2>9. \/ run'[w] = half /\ Become(w, half)
          \/ run'[w] = failed /\ Become(w, failed)
          \/ run'[w] = further /\ Become(w, further)
      BY <1>4, <2>0, <2>2, StepCases
    <2> HIDE DEF half, failed, further
    <2>10. w \in Provisioning => FailedInv(w)'
      <3>1. CASE run'[w] = half
        BY <2>1, <2>3, <3>1 DEF FailedInv, InProgress
      <3>2. CASE run'[w] = failed
        BY <2>6, <3>2 DEF FailedInv
      <3>3. CASE run'[w] = further /\ w \in Provisioning /\ further.status = "failed"
        <4>1. run[w].status = "undoing" /\ Tail(run[w].todo) = <<>>
          BY <2>1, <2>4, <3>3 DEF InProgress
        <4>2. h = "MarkError"
          BY <2>0, <2>1, <2>5, <3>3, <4>1, TailHolds DEF SagaInv
        <4>3. run'[w] = failed \/ state' = "ERROR"
          BY <1>4, <2>0, <2>2, <4>2, MarkedError DEF failed
        <4>4. QED
          BY <2>6, <4>3 DEF FailedInv
      <3>4. CASE run'[w] = further /\ further.status # "failed"
        BY <3>4 DEF FailedInv
      <3>5. QED
        BY <2>9, <3>1, <3>2, <3>3, <3>4
    <2>11. DoneInv(w)'
      <3>1. DoneInv(w)
        BY DEF FatesInv
      <3>2. CASE run[w].status # "forward"
        <4>1. run'[w].status \notin {"forward", "completed"}
          BY <2>1, <2>3, <2>4, <2>6, <2>9, <3>2 DEF InProgress
        <4>2. QED
          BY <4>1 DEF DoneInv
      <3>3. CASE run[w].status = "forward"
        <4>1. h \in ListOf(w)
          BY <2>7, <3>1, <3>3 DEF DoneInv
        <4>2. ASSUME run'[w].status = "forward", NEW i \in DOMAIN run'[w].todo
              PROVE  run'[w].todo[i] \in ListOf(w)
          <5>1. CASE run'[w].todo = run[w].todo
            BY <3>1, <3>3, <4>2, <5>1 DEF DoneInv
          <5>2. CASE run'[w].todo = Tail(run[w].todo)
            <6>1. i + 1 \in DOMAIN run[w].todo /\ run'[w].todo[i] = run[w].todo[i + 1]
              BY <2>1, <4>2, <5>2, HeadIsFirst
            <6>2. QED
              BY <3>1, <3>3, <6>1 DEF DoneInv
          <5>3. QED
            BY <2>3, <2>4, <2>6, <2>9, <4>2, <5>1, <5>2
        <4>3. ASSUME run'[w].alone, run'[w].status \in {"forward", "completed"}
              PROVE  /\ \A a \in ListOf(w) : ~Holds(run'[w].todo, a) => Effect(a)'
                     /\ run'[w].status = "forward" /\ run'[w].half =>
                          HalfEffect(Head(run[w].todo))'
          <5>1. run[w].alone
            BY <2>3, <2>9, <4>3
          <5>2. Holds(run[w].todo, h)
            BY <2>7 DEF Holds
          <5>3. /\ \A a \in ListOf(w) : a # h /\ Effect(a) => Effect(a)'
                /\ \/ run'[w] = failed
                   \/ run'[w] = half /\ HalfEffect(h)'
                   \/ run'[w] = further /\ Effect(h)'
            BY <1>4, <2>0, <2>2, <3>1, <3>3, <4>1, <5>1, StepEffects DEF half, failed, further
          <5>4. \A a \in ListOf(w) : ~Holds(run[w].todo, a) => Effect(a)
            BY <3>1, <3>3, <5>1 DEF DoneInv, Done
          <5>5. \A a \in ListOf(w) : ~Holds(run[w].todo, a) => Effect(a)'
            BY <5>2, <5>3, <5>4
          <5>6. CASE run'[w] = failed
            BY <2>6, <4>3, <5>5, <5>6
          <5>7. CASE run'[w] = half /\ HalfEffect(h)'
            <6>1. Head(run'[w].todo) = h
              BY <2>0, <2>3, <5>7
            <6>2. HalfEffect(Head(run[w].todo))'
              BY <5>7, <6>1 DEF HalfEffect
            <6>3. QED
              BY <2>3, <5>5, <5>7, <6>2
          <5>8. CASE run'[w] = further /\ Effect(h)'
            BY <2>4, <2>8, <5>5, <5>8
          <5>9. QED
            BY <5>3, <5>6, <5>7, <5>8
        <4>4. run'[w].status = "completed" => run'[w].todo = <<>>
          BY <2>3, <2>4, <2>6, <2>9, <3>3
        <4>5. QED
          BY <4>2, <4>3, <4>4 DEF DoneInv, Done, ListOf
      <3>4. QED
        BY <3>2, <3>3
    <2>12. QED
      BY <2>10, <2>11
  <1>5. QED
    BY <1>3, <1>4

LEMMA FatesStart ==
    ASSUME RunsInv, FatesInv, NEW v \in Workflows, NEW alone \in BOOLEAN,
           Start(v, alone), NEW w \in Workflows
    PROVE  DoneInv(w)' /\ (w \in Provisioning => FailedInv(w)')
  <1>1. CASE v = w
    <2> DEFINE first == [NoRun EXCEPT !.status = "forward", !.todo = Steps[w],
                                      !.alone = alone]
    <2>1. run'[w] = first
      BY <1>1 DEF Start
    <2>2. first.status = "forward" /\ first.todo = Steps[w] /\ ~first.half
      BY DEF NoRun
    <2> HIDE DEF first
    <2>3. \A a \in ListOf(w) : Holds(Steps[w], a)
      BY DEF ListOf, Holds
    <2>4. QED
      BY <2>1, <2>2, <2>3 DEF DoneInv, FailedInv, Done, ListOf
  <1>2. CASE v # w
    <2> DEFINE q == [run[w] EXCEPT !.alone = FALSE]
    <2>1. run'[w] = q
      BY <1>2 DEF Start
    <2>2. q.status = run[w].status /\ q.todo = run[w].todo /\ ~q.alone
      BY DEF RunsInv, Run
    <2> HIDE DEF q
    <2>3. QED
      BY <2>1, <2>2 DEF FatesInv, DoneInv, FailedInv
  <1>3. QED
    BY <1>1, <1>2

LEMMA FatesStep ==
    RunsInv /\ StoresOK /\ AloneInv /\ SagasInv /\ FatesInv /\ [Next]_vars => FatesInv'
  <1> SUFFICES ASSUME RunsInv, StoresOK, AloneInv, SagasInv, FatesInv, [Next]_vars,
                      NEW w \in Workflows
               PROVE  DoneInv(w)' /\ (w \in Provisioning => FailedInv(w)')
    BY DEF FatesInv, Workflows
  <1>1. ASSUME UNCHANGED run,
               run[w].alone =>
                 /\ \A a \in ListOf(w) : Effect(a) => Effect(a)'
                 /\ \A a \in ListOf(w) : HalfEffect(a) => HalfEffect(a)'
                 /\ state' = state \/ state' = "ERROR"
        PROVE  DoneInv(w)' /\ (w \in Provisioning => FailedInv(w)')
    <2>1. run[w].todo \in Seq(Activities) /\ (InProgress(run[w]) => run[w].todo # <<>>)
      BY DEF RunsInv, RunInv, TodoInv, Run
    <2>2. InProgress(run[w]) =>
            Head(run[w].todo) \in {run[w].todo[i] : i \in DOMAIN run[w].todo}
      BY <2>1, HeadIsFirst
    <2>3. QED
      BY <1>1, <2>2, FatesStay
  <1>2. ASSUME NEW v \in Workflows, Step(v)
        PROVE  DoneInv(w)' /\ (w \in Provisioning => FailedInv(w)')
    BY <1>2, FatesWorkflow
  <1>3. CASE CreatePipeline \/ AttachProvision \/ StartFails \/ CorrectState
    <2>1. ~run[w].alone
      BY <1>3 DEF AloneInv, CreatePipeline, AttachProvision, StartFails, CorrectState
    <2>2. QED
      BY <1>1, <1>3, <2>1
         DEF CreatePipeline, AttachProvision, StartFails, CorrectState
  <1>4. CASE StartProvision
    <2>1. "provision" \in Workflows
      BY DEF Workflows, Provisioning
    <2>2. QED
      BY <1>4, <2>1, FatesStart DEF StartProvision
  <1>5. ASSUME NEW v \in Workflows, StartOperation(v)
        PROVE  DoneInv(w)' /\ (w \in Provisioning => FailedInv(w)')
    <2>1. (~Busy) \in BOOLEAN
      BY DEF Busy
    <2>2. QED
      BY <1>5, <2>1, FatesStart DEF StartOperation
  <1>6. CASE ConnectorStarts \/ ConnectorFails
    <2>1. /\ UNCHANGED <<state, record, streams, sinks, run>>
          /\ connector \in {"UNASSIGNED", "RUNNING"} /\ connector' \in {"RUNNING", "FAILED"}
          /\ connector = "RUNNING" => connector' = "FAILED"
      BY <1>6 DEF ConnectorStarts, ConnectorFails
    <2>2. \A a \in ListOf(w) : Effect(a) => Effect(a)'
      BY <2>1 DEF Effect, ConnectorStates
    <2>3. \A a \in ListOf(w) : HalfEffect(a) => HalfEffect(a)'
      BY <2>1 DEF HalfEffect, ConnectorStates
    <2>4. QED
      BY <1>1, <2>1, <2>2, <2>3
  <1>7. CASE Restart
    <2> DEFINE q == [run[w] EXCEPT !.alone = FALSE]
    <2>1. /\ q \in Run /\ ~q.alone /\ q.status = run[w].status /\ q.todo = run[w].todo
      BY DEF RunsInv, Run
    <2>2. run'[w] = IF Open(w) /\ q.half THEN Fail(w, q) ELSE q
      BY <1>7 DEF Restart
    <2> HIDE DEF q
    <2>3. ~run'[w].alone
      BY <2>1, <2>2, AloneStays
    <2>4. run'[w].status \in {"forward", "completed"} =>
            run[w].status = run'[w].status /\ run'[w].todo = run[w].todo
      <3>1. CASE run'[w] = q
        BY <2>1, <3>1
      <3>2. CASE run'[w] = Fail(w, q) /\ Open(w)
        BY <2>1, <3>2, FailForward DEF Open, InProgress
      <3>3. QED
        BY <2>2, <3>1, <3>2
    <2>5. QED
      BY <2>3, <2>4 DEF FatesInv, DoneInv, FailedInv
  <1>8. CASE UNCHANGED vars
    <2>1. UNCHANGED <<state, connector, record, streams, sinks, run>>
      BY <1>8 DEF vars, resources
    <2>2. \A a \in ListOf(w) : (Effect(a) => Effect(a)') /\ (HalfEffect(a) => HalfEffect(a)')
      BY <2>1 DEF Effect, HalfEffect
    <2>3. QED
      BY <1>1, <2>1, <2>2
  <1>9. QED
    BY <1>2, <1>3, <1>4, <1>5, <1>6, <1>7, <1>8 DEF Next, API

LEMMA FatesInit == Init => AloneInv /\ FatesInv
  <1> SUFFICES ASSUME Init
               PROVE  AloneInv /\ FatesInv
    OBVIOUS
  <1>1. \A w \in Workflows : run[w].status = "none" /\ ~run[w].alone
    BY DEF Init, NoRun
  <1>2. QED
    BY <1>1 DEF Init, AloneInv, FatesInv, DoneInv, FailedInv, Workflows

LEMMA FatesInvariant == Spec => [](RunsInv /\ FatesInv)
  <1>1. Init => StoresOK /\ RunsInv /\ SagasInv /\ AloneInv /\ FatesInv
    BY InitInv, SagasInit, FatesInit
  <1>2. StoresOK /\ RunsInv /\ SagasInv /\ AloneInv /\ FatesInv /\ [Next]_vars
          => StoresOK' /\ RunsInv' /\ SagasInv' /\ AloneInv' /\ FatesInv'
    BY StoresStep, RunsStep, SagasStep, AloneStep, FatesStep
  <1>3. QED
    BY <1>1, <1>2, PTL DEF Spec

\* A run that succeeded and that nobody disturbed leaves the metadata store,
\* the connector's record and Kafka Connect in agreement, however often its
\* attempts were repeated (session2_workflow.go:22-169).
THEOREM SuccessesAgree == Spec => []SuccessAgrees
  <1>1. ASSUME RunsInv, FatesInv
        PROVE  SuccessAgrees
    <2> SUFFICES ASSUME NEW w \in Workflows, run[w].status = "completed", run[w].alone
                 PROVE  Agreement[w]
      BY DEF SuccessAgrees
    <2>1. \A a \in ListOf(w) : ~Holds(run[w].todo, a) => Effect(a)
      BY <1>1 DEF FatesInv, DoneInv, Done
    <2>2. \A a : ~Holds(run[w].todo, a)
      BY <1>1 DEF FatesInv, DoneInv, Holds
    <2>3. \A a \in ListOf(w) : Effect(a)
      BY <2>1, <2>2
    <2>4. CASE w = "provision"
      BY <2>3, <2>4, ListsAre DEF Agreement, Effect
    <2>5. CASE w = "cdc"
      BY <2>3, <2>5, ListsAre DEF Agreement, Effect
    <2>6. CASE w = "pause" \/ w = "resume" \/ w = "decommission"
      BY <2>3, <2>6, ListsAre DEF Agreement, Effect
    <2>7. QED
      BY <2>4, <2>5, <2>6 DEF Workflows, Provisioning
  <1>2. QED
    BY <1>1, FatesInvariant, PTL

\* A provisioning run that failed after it was told of a resource has told
\* the metadata store, unless that ran out of attempts (workflow.go:117-118,
\* session2_workflow.go:197).
THEOREM FailuresRecorded == Spec => []FailureRecorded
  <1>1. FatesInv => FailureRecorded
    BY DEF FatesInv, FailedInv, FailureRecorded
  <1>2. QED
    BY <1>1, FatesInvariant, PTL
=============================================================================
