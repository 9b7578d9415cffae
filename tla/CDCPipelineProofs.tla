------------------------- MODULE CDCPipelineProofs -------------------------
(***************************************************************************)
(* Type correctness of CDCPipeline and the fate of a connector whose       *)
(* creation was reported, the refinement of ProvisioningSaga, and that     *)
(* every run only comes nearer to its end, for every retry policy and any  *)
(* number of overlapping runs and restarts.                                *)
(***************************************************************************)
EXTENDS CDCPipeline, TLAPS

(***************************************************************************)
(* The lists of activities.                                                *)
(***************************************************************************)
UndoActivities ==
    {"DeleteConnector", "StopCapture", "DeleteSink", "DeleteStream", "MarkError"}

LEMMA HeadOfConcat ==
    ASSUME NEW S, NEW s \in Seq(S), NEW t \in Seq(S)
    PROVE  /\ s \o t \in Seq(S)
           /\ s # <<>> => s \o t # <<>> /\ Head(s \o t) = Head(s)
           /\ t # <<>> => s \o t # <<>>
  OBVIOUS

LEMMA IfType ==
    ASSUME NEW condition, NEW activity \in UndoActivities
    PROVE  /\ If(condition, activity) \in Seq(UndoActivities)
           /\ condition =>
                If(condition, activity) # <<>> /\ Head(If(condition, activity)) = activity
  BY DEF If

\* What a compensation is made of, and where it begins.
LEMMA UndoType ==
    ASSUME NEW got \in SUBSET Results
    PROVE  /\ Undo(got) \in Seq(UndoActivities)
           /\ Undo(got) # <<>>
           /\ "connector" \in got => Head(Undo(got)) = "DeleteConnector"
  <1> DEFINE s1 == If("connector" \in got, "DeleteConnector")
             s2 == If("capture" \in got, "StopCapture")
             s3 == If("sink" \in got, "DeleteSink")
             s4 == If("stream" \in got, "DeleteStream")
             s5 == <<"MarkError">>
  <1>1. /\ s1 \in Seq(UndoActivities) /\ s2 \in Seq(UndoActivities)
        /\ s3 \in Seq(UndoActivities) /\ s4 \in Seq(UndoActivities)
        /\ "connector" \in got => s1 # <<>> /\ Head(s1) = "DeleteConnector"
    BY IfType DEF UndoActivities
  <1>2. s5 \in Seq(UndoActivities) /\ s5 # <<>>
    BY DEF UndoActivities
  <1>3. Undo(got) = s1 \o s2 \o s3 \o s4 \o s5
    BY DEF Undo
  <1> HIDE DEF s1, s2, s3, s4, s5
  <1>4. /\ s1 \o s2 \in Seq(UndoActivities)
        /\ s1 # <<>> => s1 \o s2 # <<>> /\ Head(s1 \o s2) = Head(s1)
    BY <1>1, HeadOfConcat
  <1>5. /\ s1 \o s2 \o s3 \in Seq(UndoActivities)
        /\ s1 # <<>> => s1 \o s2 \o s3 # <<>> /\ Head(s1 \o s2 \o s3) = Head(s1)
    BY <1>1, <1>4, HeadOfConcat
  <1>6. /\ s1 \o s2 \o s3 \o s4 \in Seq(UndoActivities)
        /\ s1 # <<>> => /\ s1 \o s2 \o s3 \o s4 # <<>>
                        /\ Head(s1 \o s2 \o s3 \o s4) = Head(s1)
    BY <1>1, <1>5, HeadOfConcat
  <1>7. QED
    BY <1>1, <1>2, <1>3, <1>6, HeadOfConcat

LEMMA StepsInActivities ==
    ASSUME NEW w \in Workflows, NEW i \in DOMAIN Steps[w]
    PROVE  Steps[w][i] \in Activities
  <1> DEFINE Used(v) == {Steps[v][k] : k \in DOMAIN Steps[v]}
  <1>1. Steps[w][i] \in Used(w)
    OBVIOUS
  <1>2. Used(w) \in {Used(v) : v \in Workflows}
    OBVIOUS
  <1> HIDE DEF Used
  <1>3. Steps[w][i] \in UNION {Used(v) : v \in Workflows}
    BY <1>1, <1>2
  <1>4. QED
    BY <1>3 DEF Activities, Used

LEMMA UndoInActivities == UndoActivities \subseteq Activities
  <1>1. /\ "decommission" \in Workflows /\ 1 \in DOMAIN Steps["decommission"]
        /\ Steps["decommission"][1] = "DeleteConnector"
    BY DEF Steps, DecommissionSteps, Workflows
  <1>2. "DeleteConnector" \in Activities
    BY <1>1, StepsInActivities
  <1>3. {"StopCapture", "DeleteSink", "DeleteStream", "MarkError"} \subseteq Activities
    BY DEF Activities
  <1>4. QED
    BY <1>2, <1>3 DEF UndoActivities

\* A forward list starts with the only check it contains, and a connector
\* is created by the workflow of CDC pipelines alone.
LEMMA StepsType ==
    ASSUME NEW w \in Workflows
    PROVE  /\ Steps[w] \in Seq(Activities)
           /\ Steps[w] # <<>>
           /\ \A i \in DOMAIN Steps[w] :
                 /\ Steps[w][i] = "CreateConnector" => w = "cdc"
                 /\ i > 1 => Steps[w][i] # "Validate"
  <1> DEFINE Good(list) ==
               /\ list \in Seq({list[i] : i \in DOMAIN list})
               /\ list # <<>>
               /\ \A i \in DOMAIN list :
                    /\ list[i] = "CreateConnector" => w = "cdc"
                    /\ i > 1 => list[i] # "Validate"
  <1>1. CASE w = "provision"
    <2>1. Good(<<"Validate", "PrepareSource", "EnsureStream", "EnsureSink",
                 "StartCapture", "MarkActive">>)
      OBVIOUS
    <2>2. QED
      BY <1>1, <2>1, StepsInActivities DEF Steps
  <1>2. CASE w = "cdc"
    <2>1. Good(<<"Validate", "PrepareSource", "EnsureStream", "CreateConnector",
                 "WaitRunning", "EnsureSink", "MarkActive">>)
      BY <1>2
    <2>2. QED
      BY <1>2, <2>1, StepsInActivities DEF Steps, ProvisionCDCSteps
  <1>3. CASE w = "pause"
    <2>1. Good(<<"PauseConnector", "MarkPaused">>)
      OBVIOUS
    <2>2. QED
      BY <1>3, <2>1, StepsInActivities DEF Steps, PauseSteps
  <1>4. CASE w = "resume"
    <2>1. Good(<<"ResumeConnector", "MarkActive">>)
      OBVIOUS
    <2>2. QED
      BY <1>4, <2>1, StepsInActivities DEF Steps, ResumeSteps
  <1>5. CASE w = "decommission"
    <2>1. Good(<<"DeleteConnector", "MarkDecommissioned">>)
      OBVIOUS
    <2>2. QED
      BY <1>5, <2>1, StepsInActivities DEF Steps, DecommissionSteps
  <1>6. QED
    BY <1>1, <1>2, <1>3, <1>4, <1>5 DEF Workflows, Provisioning
-----------------------------------------------------------------------------
(***************************************************************************)
(* The inductive invariant, of one run at a time: r is the run of w, and c *)
(* the connector.                                                          *)
(***************************************************************************)
InProgress(r) == r.status \in {"forward", "undoing"}

TodoInv(w, r) ==
    /\ InProgress(r) => r.todo # <<>>
    /\ \A i \in DOMAIN r.todo :
          /\ r.todo[i] = "CreateConnector" => w = "cdc" /\ r.status = "forward"
          /\ i > 1 => r.todo[i] # "Validate"

\* The run knows that it created the connector and has not given it up.
Reported(r) == "connector" \in r.got /\ "DeleteConnector" \notin r.gaveUp

\* A compensation turns to the connector first; until its first call has
\* deleted it, nothing else is undone.
ConnectorInv(r, c) ==
    /\ r.status = "forward" /\ Head(r.todo) = "Validate" => r.got = {}
    /\ r.status = "undoing" /\ Reported(r) =>
         c = "absent" \/ (Head(r.todo) = "DeleteConnector" /\ ~r.half)
    /\ r.status = "failed" /\ Reported(r) => c = "absent"

RunInv(w, r, c) ==
    /\ r \in Run
    /\ TodoInv(w, r)
    /\ w = "cdc" => ConnectorInv(r, c)

RunsInv ==
    /\ run \in [Workflows -> Run]
    /\ \A w \in Workflows : RunInv(w, run[w], connector)

-----------------------------------------------------------------------------
(***************************************************************************)
(* What may happen to a run.  d is the connector after the step.           *)
(***************************************************************************)
LEMMA RunStays ==
    ASSUME NEW w, NEW r, NEW c, NEW d, RunInv(w, r, c), c = "absent" => d = "absent"
    PROVE  RunInv(w, r, d)
  BY DEF RunInv, ConnectorInv

LEMMA HeadIsFirst ==
    ASSUME NEW s \in Seq(Activities), s # <<>>
    PROVE  /\ 1 \in DOMAIN s /\ Head(s) = s[1]
           /\ Tail(s) \in Seq(Activities)
           /\ \A i \in DOMAIN Tail(s) : i + 1 \in DOMAIN s /\ Tail(s)[i] = s[i + 1]
           /\ \A i \in DOMAIN Tail(s) : i >= 1
           /\ Tail(s) # <<>> => 1 \in DOMAIN Tail(s) /\ Head(Tail(s)) = Tail(s)[1]
  OBVIOUS

LEMMA AdvanceInv ==
    ASSUME NEW w, NEW r, NEW c, NEW d, RunInv(w, r, c), InProgress(r),
           NEW gained \in SUBSET Results,
           r.status = "undoing" => "connector" \notin gained,
           r.status = "undoing" /\ Reported(r) /\ w = "cdc" => d = "absent"
    PROVE  RunInv(w, Advance(r, gained), d)
  <1> DEFINE q == Advance(r, gained)
             next == IF Tail(r.todo) # <<>> THEN r.status
                     ELSE IF r.status = "forward" THEN "completed" ELSE "failed"
  <1>1. /\ r \in Run /\ r.todo \in Seq(Activities) /\ r.todo # <<>>
      BY DEF RunInv, TodoInv, Run
  <1>2. /\ q \in [status : {"forward", "undoing", "completed", "failed"},
                  todo : Seq(Activities), attempt : Nat, half : BOOLEAN,
                  got : SUBSET Results, gaveUp : SUBSET Watched, alone : BOOLEAN]
        /\ q.todo = Tail(r.todo) /\ q.status = next
        /\ q.got = r.got \cup gained /\ q.gaveUp = r.gaveUp
    BY <1>1, HeadIsFirst DEF Advance, Run, InProgress
  <1>3. q \in Run
    BY <1>2 DEF Run
  <1> HIDE DEF q
  <1>4. TodoInv(w, q)
    <2>1. InProgress(q) => q.todo # <<>>
      BY <1>2 DEF InProgress
    <2>2. ASSUME NEW i \in DOMAIN q.todo
          PROVE  /\ q.todo[i] = "CreateConnector" => w = "cdc" /\ q.status = "forward"
                 /\ i > 1 => q.todo[i] # "Validate"
      <3>1. i + 1 \in DOMAIN r.todo /\ q.todo[i] = r.todo[i + 1] /\ i + 1 > 1
        BY <1>1, <1>2, <2>2, HeadIsFirst
      <3>2. q.todo # <<>>
        BY <1>1, <1>2, <2>2, HeadIsFirst
      <3>3. QED
        BY <1>2, <3>1, <3>2 DEF RunInv, TodoInv
    <2>3. QED
      BY <2>1, <2>2 DEF TodoInv
  <1>5. w = "cdc" => ConnectorInv(q, d)
    <2>1. q.status = "forward" => Head(q.todo) # "Validate"
      <3>1. q.status = "forward" => q.todo # <<>>
        BY <1>4 DEF TodoInv, InProgress
      <3>2. q.todo # <<>> => Head(q.todo) = r.todo[2] /\ 2 \in DOMAIN r.todo
        BY <1>1, <1>2, HeadIsFirst
      <3>3. QED
        BY <3>1, <3>2 DEF RunInv, TodoInv
    <2>2. q.status \in {"undoing", "failed"} => r.status = "undoing"
      BY <1>2 DEF InProgress
    <2>3. r.status = "undoing" => (Reported(q) <=> Reported(r))
      BY <1>2 DEF Reported
    <2>4. QED
      BY <2>1, <2>2, <2>3 DEF ConnectorInv
  <1>6. QED
    BY <1>3, <1>4, <1>5 DEF RunInv, q

LEMMA HalfInv ==
    ASSUME NEW w, NEW r, NEW c, NEW d, RunInv(w, r, c), InProgress(r),
           r.status = "undoing" /\ Reported(r) /\ w = "cdc" => d = "absent"
    PROVE  RunInv(w, [r EXCEPT !.half = TRUE], d)
  <1> DEFINE q == [r EXCEPT !.half = TRUE]
  <1>1. /\ q \in Run /\ q.todo = r.todo /\ q.status = r.status
        /\ q.got = r.got /\ q.gaveUp = r.gaveUp
    BY DEF RunInv, Run
  <1> HIDE DEF q
  <1>2. QED
    BY <1>1 DEF RunInv, TodoInv, ConnectorInv, InProgress, Reported, q

LEMMA FailInv ==
    ASSUME NEW w, NEW r, NEW c, NEW d, RunInv(w, r, c), InProgress(r),
           r.status = "undoing" /\ c = "absent" /\ w = "cdc" => d = "absent"
    PROVE  RunInv(w, Fail(w, r), d)
  <1>1. r \in Run
    BY DEF RunInv
  <1>2. CASE r.attempt + 1 < Attempts(Head(r.todo))
    <2> DEFINE q == [r EXCEPT !.attempt = @ + 1, !.half = FALSE]
    <2>1. /\ q \in Run /\ q.todo = r.todo /\ q.status = r.status /\ ~q.half
          /\ q.got = r.got /\ q.gaveUp = r.gaveUp
      <3>1. r.attempt + 1 \in Nat
        BY <1>1 DEF Run
      <3>2. QED
        BY <1>1, <3>1 DEF Run
    <2>2. Fail(w, r) = q
      BY <1>2 DEF Fail
    <2> HIDE DEF q
    <2>3. TodoInv(w, q)
      BY <2>1 DEF RunInv, TodoInv, InProgress
    <2>4. Reported(q) <=> Reported(r)
      BY <2>1 DEF Reported
    <2>5. ASSUME w = "cdc"
          PROVE  ConnectorInv(q, d)
      <3>1. ConnectorInv(r, c)
        BY <2>5 DEF RunInv
      <3>2. q.status # "failed"
        BY <2>1 DEF InProgress
      <3>3. q.status = "undoing" /\ Reported(q) =>
              d = "absent" \/ Head(q.todo) = "DeleteConnector"
        BY <2>1, <2>4, <2>5, <3>1 DEF ConnectorInv
      <3>4. q.status = "forward" /\ Head(q.todo) = "Validate" => q.got = {}
        BY <2>1, <3>1 DEF ConnectorInv
      <3>5. QED
        BY <2>1, <3>2, <3>3, <3>4 DEF ConnectorInv
    <2>6. QED
      BY <2>1, <2>2, <2>3, <2>5 DEF RunInv
  <1>3. CASE ~(r.attempt + 1 < Attempts(Head(r.todo)))
    <2>1. Fail(w, r) = OnError(w, r)
      BY <1>3 DEF Fail
    <2>2. CASE r.status = "undoing"
      <3> DEFINE q == [r EXCEPT !.gaveUp = @ \cup ({Head(r.todo)} \cap Watched)]
      <3>1. /\ q \in Run /\ q.todo = r.todo /\ q.status = r.status /\ q.half = r.half
            /\ q.got = r.got /\ q.gaveUp = r.gaveUp \cup ({Head(r.todo)} \cap Watched)
        BY <1>1 DEF Run
      <3>2. OnError(w, r) = Advance(q, {})
        BY <2>2 DEF OnError
      <3> HIDE DEF q
      <3>3. Reported(q) => Reported(r) /\ Head(r.todo) # "DeleteConnector"
        BY <3>1 DEF Reported, Watched
      <3>4. RunInv(w, q, c)
        BY <3>1, <3>3 DEF RunInv, TodoInv, ConnectorInv, InProgress
      <3>5. Reported(q) /\ w = "cdc" => d = "absent"
        BY <2>2, <3>3 DEF RunInv, ConnectorInv
      <3>6. InProgress(q) /\ {} \in SUBSET Results
        BY <3>1 DEF InProgress
      <3>7. QED
        BY <2>1, <3>2, <3>4, <3>5, <3>6, AdvanceInv
    <2>3. CASE r.status = "forward" /\ Compensates(w, Head(r.todo))
      <3> DEFINE q == [r EXCEPT !.status = "undoing", !.todo = Undo(r.got),
                                !.attempt = 0, !.half = FALSE]
      <3>1. r.got \in SUBSET Results
        BY <1>1 DEF Run
      <3>2. /\ Undo(r.got) \in Seq(UndoActivities) /\ Undo(r.got) # <<>>
            /\ "connector" \in r.got => Head(Undo(r.got)) = "DeleteConnector"
        BY <3>1, UndoType
      <3>3. Undo(r.got) \in Seq(Activities)
        BY <3>2, UndoInActivities
      <3>4. /\ q \in Run /\ q.todo = Undo(r.got) /\ q.status = "undoing"
            /\ q.half = FALSE /\ q.got = r.got
        BY <1>1, <3>3 DEF Run
      <3>5. Fail(w, r) = q
        BY <2>1, <2>3 DEF OnError
      <3> HIDE DEF q
      <3>6. \A i \in DOMAIN q.todo : q.todo[i] \in UndoActivities
        BY <3>2, <3>4
      <3>7. TodoInv(w, q)
        BY <3>2, <3>4, <3>6 DEF TodoInv, UndoActivities
      <3>8. ConnectorInv(q, d)
        <4>1. Reported(q) => Head(q.todo) = "DeleteConnector"
          BY <3>2, <3>4 DEF Reported
        <4>2. QED
          BY <3>4, <4>1 DEF ConnectorInv
      <3>9. QED
        BY <3>4, <3>5, <3>7, <3>8 DEF RunInv
    <2>4. CASE r.status = "forward" /\ ~Compensates(w, Head(r.todo))
      <3> DEFINE q == [r EXCEPT !.status = "failed", !.todo = <<>>,
                                !.attempt = 0, !.half = FALSE]
      <3>1. q \in Run /\ q.todo = <<>> /\ q.status = "failed" /\ q.got = r.got
        <4>1. <<>> \in Seq(Activities)
          OBVIOUS
        <4>2. QED
          BY <1>1, <4>1 DEF Run
      <3>2. Fail(w, r) = q
        BY <2>1, <2>4 DEF OnError
      <3>3. w = "cdc" => r.got = {}
        BY <2>4 DEF Compensates, Provisioning, RunInv, ConnectorInv
      <3> HIDE DEF q
      <3>4. QED
        BY <3>1, <3>2, <3>3 DEF RunInv, TodoInv, ConnectorInv, InProgress, Reported
    <2>5. QED
      BY <2>2, <2>3, <2>4 DEF InProgress
  <1>4. QED
    BY <1>2, <1>3

LEMMA StartInv ==
    ASSUME NEW w \in Workflows, NEW alone \in BOOLEAN, NEW d
    PROVE  RunInv(w, [NoRun EXCEPT !.status = "forward", !.todo = Steps[w],
                                   !.alone = alone], d)
  <1> DEFINE q == [NoRun EXCEPT !.status = "forward", !.todo = Steps[w],
                                !.alone = alone]
  <1>1. /\ q \in Run /\ q.status = "forward" /\ q.todo = Steps[w] /\ q.got = {}
    BY StepsType DEF NoRun, Run
  <1> HIDE DEF q
  <1>2. TodoInv(w, q)
    BY <1>1, StepsType DEF TodoInv
  <1>3. QED
    BY <1>1, <1>2 DEF RunInv, ConnectorInv, q
-----------------------------------------------------------------------------
(***************************************************************************)
(* Steps of one run among the others.                                      *)
(***************************************************************************)
\* Only the run of CDC pipelines may bring a connector into being.
Keeps(w) == w = "cdc" \/ (connector = "absent" => connector' = "absent")

LEMMA BecomeInv ==
    ASSUME RunsInv, NEW w \in Workflows, NEW STATE r, Become(w, r),
           RunInv(w, r, connector'), Keeps(w)
    PROVE  RunsInv'
  <1>1. r \in Run /\ run \in [Workflows -> Run] /\ run' = [run EXCEPT ![w] = r]
    BY DEF RunInv, RunsInv, Become
  <1>2. ASSUME NEW v \in Workflows
        PROVE  RunInv(v, run'[v], connector')
    <2>1. CASE v = w
      BY <1>1, <2>1
    <2>2. CASE v # w
      <3>1. run'[v] = run[v] /\ RunInv(v, run[v], connector)
        BY <1>1, <2>2 DEF RunsInv
      <3>2. CASE connector = "absent" => connector' = "absent"
        BY <3>1, <3>2, RunStays
      <3>3. CASE w = "cdc"
        BY <2>2, <3>1, <3>3 DEF RunInv
      <3>4. QED
        BY <3>2, <3>3 DEF Keeps
    <2>3. QED
      BY <2>1, <2>2
  <1>3. run' \in [Workflows -> Run]
    BY <1>1
  <1>4. QED
    BY <1>2, <1>3 DEF RunsInv

\* The connector the run knows of is gone, or about to be.
Gone(w) ==
    run[w].status = "undoing" /\ Reported(run[w]) /\ w = "cdc" => connector' = "absent"

StillGone(w) ==
    run[w].status = "undoing" /\ connector = "absent" /\ w = "cdc" => connector' = "absent"

LEMMA FailsInv ==
    ASSUME RunsInv, NEW w \in Workflows, Open(w), Become(w, Fail(w, run[w])),
           StillGone(w), Keeps(w)
    PROVE  RunsInv'
  <1>1. RunInv(w, Fail(w, run[w]), connector')
    BY FailInv DEF RunsInv, Open, InProgress, StillGone
  <1>2. QED
    BY <1>1, BecomeInv

LEMMA AdvancesInv ==
    ASSUME RunsInv, NEW w \in Workflows, Open(w), NEW gained \in SUBSET Results,
           Become(w, Advance(run[w], gained)),
           run[w].status = "undoing" => "connector" \notin gained, Gone(w), Keeps(w)
    PROVE  RunsInv'
  <1>1. RunInv(w, Advance(run[w], gained), connector')
    BY AdvanceInv DEF RunsInv, Open, InProgress, Gone
  <1>2. QED
    BY <1>1, BecomeInv

LEMMA FirstCallInv ==
    ASSUME RunsInv, NEW w \in Workflows, Open(w), FirstCall(w),
           Gone(w), StillGone(w), Keeps(w)
    PROVE  RunsInv'
  <1>1. RunInv(w, [run[w] EXCEPT !.half = TRUE], connector')
    BY HalfInv DEF RunsInv, Open, InProgress, Gone
  <1>2. QED
    BY <1>1, BecomeInv, FailsInv DEF FirstCall

LEMMA FinishInv ==
    ASSUME RunsInv, NEW w \in Workflows, Open(w), NEW gained \in SUBSET Results,
           Finish(w, gained),
           run[w].status = "undoing" => "connector" \notin gained,
           Gone(w), StillGone(w), Keeps(w)
    PROVE  RunsInv'
  BY AdvancesInv, FailsInv DEF Finish

\* Past the deletion's first call, the connector is gone.
LEMMA PastDeletion ==
    ASSUME RunsInv, NEW w \in Workflows,
           run[w].half \/ Head(run[w].todo) # "DeleteConnector",
           connector = "absent" => connector' = "absent"
    PROVE  Gone(w) /\ StillGone(w) /\ Keeps(w)
  BY DEF RunsInv, RunInv, ConnectorInv, Gone, StillGone, Keeps

LEMMA CreatorIsCDC ==
    ASSUME RunsInv, NEW w \in Workflows, At(w, "CreateConnector")
    PROVE  w = "cdc" /\ run[w].status = "forward"
  <1>1. run[w].todo \in Seq(Activities) /\ run[w].todo # <<>> /\ TodoInv(w, run[w])
    BY DEF RunsInv, RunInv, TodoInv, Run, At, Open, InProgress
  <1>2. 1 \in DOMAIN run[w].todo /\ run[w].todo[1] = "CreateConnector"
    BY <1>1, HeadIsFirst DEF At
  <1>3. QED
    BY <1>1, <1>2 DEF TodoInv

LEMMA WorkflowStep ==
    ASSUME RunsInv, NEW w \in Workflows, Step(w)
    PROVE  RunsInv'
  <1> USE DEF At, resources
  <1>1. {} \in SUBSET Results /\ {"capture"} \in SUBSET Results
        /\ {"stream"} \in SUBSET Results /\ {"sink"} \in SUBSET Results
        /\ {"connector"} \in SUBSET Results
    BY DEF Results
  <1>2. CASE NoEffect(w)
    BY <1>1, <1>2, PastDeletion, AdvancesInv DEF NoEffect
  <1>3. CASE StartCapture(w)
    BY <1>1, <1>3, PastDeletion, AdvancesInv DEF StartCapture
  <1>4. CASE EnsureStream(w) \/ EnsureSink(w) \/ DeleteStream(w) \/ DeleteSink(w)
    BY <1>1, <1>4, PastDeletion, FinishInv
       DEF EnsureStream, EnsureSink, DeleteStream, DeleteSink
  <1>5. CASE MarkState(w)
    BY <1>1, <1>5, PastDeletion, FinishInv DEF MarkState, Mark
  <1>6. CASE CreateConnector(w)
    BY <1>6, CreatorIsCDC, FirstCallInv DEF CreateConnector, Gone, StillGone, Keeps
  <1>7. CASE CreateRecord(w)
    BY <1>1, <1>7, CreatorIsCDC, PastDeletion, FinishInv DEF CreateRecord
  <1>8. CASE SeeRunning(w) \/ PauseConnector(w) \/ ResumeConnector(w)
    BY <1>8, PastDeletion, FirstCallInv DEF SeeRunning, PauseConnector, ResumeConnector
  <1>9. CASE UpdateRecord(w)
    BY <1>1, <1>9, PastDeletion, FinishInv DEF UpdateRecord
  <1>10. CASE DeleteConnector(w)
    BY <1>10, FirstCallInv DEF DeleteConnector, Gone, StillGone, Keeps
  <1>11. CASE DeleteRecord(w)
    BY <1>1, <1>11, PastDeletion, FinishInv DEF DeleteRecord
  <1>12. CASE AttemptFails(w)
    BY <1>12, FailsInv DEF AttemptFails, StillGone, Keeps
  <1>13. QED
    BY <1>2, <1>3, <1>4, <1>5, <1>6, <1>7, <1>8, <1>9, <1>10, <1>11, <1>12 DEF Step

(***************************************************************************)
(* The API, Kafka Connect and restarts.                                    *)
(***************************************************************************)
LEMMA NotAloneInv ==
    ASSUME NEW w, NEW r, NEW c, RunInv(w, r, c)
    PROVE  RunInv(w, [r EXCEPT !.alone = FALSE], c)
  <1> DEFINE q == [r EXCEPT !.alone = FALSE]
  <1>1. r \in Run
    BY DEF RunInv
  <1>2. /\ q \in Run /\ q.todo = r.todo /\ q.status = r.status /\ q.half = r.half
        /\ q.got = r.got /\ q.gaveUp = r.gaveUp
    BY <1>1 DEF Run
  <1> HIDE DEF q
  <1>3. QED
    BY <1>2 DEF RunInv, TodoInv, ConnectorInv, InProgress, Reported, q

LEMMA StartsInv ==
    ASSUME RunsInv, NEW w \in Workflows, NEW STATE alone, alone \in BOOLEAN,
           Start(w, alone), UNCHANGED connector
    PROVE  RunsInv'
  <1> DEFINE first == [NoRun EXCEPT !.status = "forward", !.todo = Steps[w],
                                    !.alone = alone]
  <1>1. ASSUME NEW v \in Workflows
        PROVE  RunInv(v, run'[v], connector')
    <2>1. CASE v = w
      <3>1. run'[v] = first
        BY <2>1 DEF Start
      <3>2. RunInv(v, first, connector')
        BY <2>1, StartInv
      <3>3. QED
        BY <3>1, <3>2
    <2>2. CASE v # w
      <3>1. run'[v] = [run[v] EXCEPT !.alone = FALSE]
        BY <2>2 DEF Start
      <3>2. RunInv(v, [run[v] EXCEPT !.alone = FALSE], connector)
        BY NotAloneInv DEF RunsInv
      <3>3. QED
        BY <3>1, <3>2
    <2>3. QED
      BY <2>1, <2>2
  <1>2. run' \in [Workflows -> Run]
    <2>1. \A v \in Workflows : run'[v] \in Run
      BY <1>1 DEF RunInv
    <2>2. run' = [v \in Workflows |-> run'[v]]
      BY DEF Start
    <2>3. QED
      BY <2>1, <2>2
  <1>3. QED
    BY <1>1, <1>2 DEF RunsInv

LEMMA RestartInv ==
    ASSUME RunsInv, Restart
    PROVE  RunsInv'
  <1> DEFINE Lonely(w) == [run[w] EXCEPT !.alone = FALSE]
             After(w) == IF Open(w) /\ Lonely(w).half THEN Fail(w, Lonely(w)) ELSE Lonely(w)
  <1>1. run' = [w \in Workflows |-> After(w)] /\ connector' = connector
    BY DEF Restart
  <1>2. ASSUME NEW w \in Workflows
        PROVE  RunInv(w, After(w), connector)
    <2>1. RunInv(w, Lonely(w), connector)
      BY NotAloneInv DEF RunsInv
    <2>2. Lonely(w).status = run[w].status
      BY DEF RunsInv, Run
    <2> HIDE DEF Lonely
    <2>3. Open(w) => InProgress(Lonely(w))
      BY <2>2 DEF Open, InProgress
    <2>4. Open(w) => RunInv(w, Fail(w, Lonely(w)), connector)
      BY <2>1, <2>3, FailInv
    <2>5. QED
      BY <2>1, <2>4
  <1> HIDE DEF After
  <1>3. \A w \in Workflows : RunInv(w, run'[w], connector')
    BY <1>1, <1>2
  <1>4. \A w \in Workflows : After(w) \in Run
    BY <1>2 DEF RunInv
  <1>5. run' \in [Workflows -> Run]
    BY <1>1, <1>4
  <1>6. QED
    BY <1>3, <1>5 DEF RunsInv

LEMMA RunsStep == RunsInv /\ [Next]_vars => RunsInv'
  <1> SUFFICES ASSUME RunsInv, [Next]_vars
               PROVE  RunsInv'
    OBVIOUS
  <1>1. ASSUME UNCHANGED run, connector = "absent" => connector' = "absent"
        PROVE  RunsInv'
    BY <1>1, RunStays DEF RunsInv
  <1>2. ASSUME NEW w \in Workflows, Step(w)
        PROVE  RunsInv'
    BY <1>2, WorkflowStep
  <1>3. CASE CreatePipeline \/ AttachProvision \/ StartFails \/ CorrectState
    BY <1>1, <1>3 DEF CreatePipeline, AttachProvision, StartFails, CorrectState, resources
  <1>4. CASE StartProvision
    <2>1. UNCHANGED connector
      BY <1>4 DEF StartProvision, resources
    <2>2. "provision" \in Workflows
      BY DEF Workflows, Provisioning
    <2>3. QED
      BY <1>4, <2>1, <2>2, StartsInv DEF StartProvision
  <1>5. ASSUME NEW w \in Workflows, StartOperation(w)
        PROVE  RunsInv'
    BY <1>5, StartsInv DEF StartOperation, resources
  <1>6. CASE ConnectorStarts \/ ConnectorFails
    BY <1>1, <1>6 DEF ConnectorStarts, ConnectorFails
  <1>7. CASE Restart
    BY <1>7, RestartInv
  <1>8. CASE UNCHANGED vars
    BY <1>1, <1>8 DEF vars, resources
  <1>9. QED
    BY <1>2, <1>3, <1>4, <1>5, <1>6, <1>7, <1>8 DEF Next, API

-----------------------------------------------------------------------------
(***************************************************************************)
(* The stores, the provisioners and the counters.                          *)
(***************************************************************************)
StoresOK ==
    /\ state \in States \cup {"none"}
    /\ connector \in ConnectorStates \cup {"absent"}
    /\ record \in ConnectorStates \cup {"absent"}
    /\ streams \in Nat
    /\ sinks \in Nat
    /\ request \in {"none", "starting", "failing", "answered"}
    /\ starts \in Nat
    /\ restarts \in Nat
    /\ own \in BOOLEAN

LEMMA StoresStep == StoresOK /\ [Next]_vars => StoresOK'
  <1> SUFFICES ASSUME StoresOK, [Next]_vars
               PROVE  StoresOK'
    OBVIOUS
  <1> USE DEF StoresOK, resources, States, ConnectorStates
  <1>1. CASE API
    <2>1. CASE CreatePipeline \/ AttachProvision \/ StartFails \/ CorrectState
      BY <2>1 DEF CreatePipeline, AttachProvision, StartFails, CorrectState
    <2>2. \A w, alone : Start(w, alone) =>
             starts' = starts + 1 /\ restarts' = restarts /\ own' \in BOOLEAN
      BY DEF Start
    <2>3. CASE StartProvision
      <3>1. /\ starts' = starts + 1 /\ restarts' = restarts /\ own' \in BOOLEAN
            /\ UNCHANGED <<state, resources>>
        BY <2>2, <2>3 DEF StartProvision
      <3>2. request' \in {"answered", "failing"}
        BY <2>3 DEF StartProvision
      <3>3. QED
        BY <3>1, <3>2
    <2>4. CASE \E w \in Workflows : StartOperation(w)
      BY <2>2, <2>4 DEF StartOperation
    <2>5. QED
      BY <1>1, <2>1, <2>3, <2>4 DEF API
  <1>2. ASSUME NEW w \in Workflows, Step(w)
        PROVE  StoresOK'
    <2> USE DEF Unchanged
    <2>1. CASE NoEffect(w) \/ StartCapture(w) \/ AttemptFails(w) \/ SeeRunning(w)
      BY <2>1 DEF NoEffect, StartCapture, AttemptFails, SeeRunning
    <2>2. CASE EnsureStream(w) \/ EnsureSink(w) \/ DeleteStream(w) \/ DeleteSink(w)
      BY <2>2 DEF EnsureStream, EnsureSink, DeleteStream, DeleteSink
    <2>3. CASE MarkState(w)
      BY <2>3 DEF MarkState, Mark
    <2>4. CASE CreateConnector(w) \/ CreateRecord(w) \/ DeleteConnector(w) \/ DeleteRecord(w)
      BY <2>4 DEF CreateConnector, CreateRecord, DeleteConnector, DeleteRecord
    <2>5. CASE PauseConnector(w) \/ ResumeConnector(w) \/ UpdateRecord(w)
      BY <2>5 DEF PauseConnector, ResumeConnector, UpdateRecord
    <2>6. QED
      BY <1>2, <2>1, <2>2, <2>3, <2>4, <2>5 DEF Step
  <1>3. CASE ConnectorStarts \/ ConnectorFails \/ Restart \/ UNCHANGED vars
    BY <1>3 DEF ConnectorStarts, ConnectorFails, Restart, vars
  <1>4. QED
    BY <1>1, <1>2, <1>3 DEF Next

LEMMA InitInv == Init => StoresOK /\ RunsInv
  <1> SUFFICES ASSUME Init
               PROVE  StoresOK /\ RunsInv
    OBVIOUS
  <1>1. StoresOK
    BY DEF Init, StoresOK
  <1>2. NoRun \in Run
    <2>1. <<>> \in Seq(Activities)
      OBVIOUS
    <2>2. QED
      BY <2>1 DEF NoRun, Run
  <1>3. \A w \in Workflows : RunInv(w, NoRun, connector)
    BY <1>2 DEF RunInv, TodoInv, ConnectorInv, InProgress, NoRun
  <1>4. QED
    BY <1>1, <1>2, <1>3 DEF Init, RunsInv

LEMMA PipelineInvariant == Spec => [](StoresOK /\ RunsInv)
  BY InitInv, StoresStep, RunsStep, PTL DEF Spec

\* Every variable keeps its type; in particular a run's list of activities
\* is never read when it is empty, for every retry policy and any number of
\* runs and restarts (workflow.go:25-121, session2_workflow.go:25-200).
THEOREM TypeCorrect == Spec => []TypeOK
  <1>1. StoresOK /\ RunsInv => TypeOK
    BY DEF StoresOK, RunsInv, TypeOK
  <1>2. QED
    BY <1>1, PipelineInvariant, PTL

\* A connector that a failed run was told of is gone, unless its deletion
\* was given up, whatever other runs, restarts and lost results come in
\* between (session2_workflow.go:67 and 187-190).
THEOREM ReportedConnectorsUndone == Spec => []ReportedConnectorUndone
  <1>1. ASSUME RunsInv
        PROVE  ReportedConnectorUndone
    <2>1. "cdc" \in Workflows
      BY DEF Workflows, Provisioning
    <2>2. ConnectorInv(run["cdc"], connector)
      BY <1>1, <2>1 DEF RunsInv, RunInv
    <2>3. QED
      BY <2>2 DEF ConnectorInv, Reported, ReportedConnectorUndone
  <1>2. QED
    BY <1>1, PipelineInvariant, PTL
-----------------------------------------------------------------------------
(***************************************************************************)
(* Refinement of ProvisioningSaga.  What the lists of activities hold: no  *)
(* activity twice, all that is needed, and marking the pipeline last.      *)
(***************************************************************************)
Holds(s, a) == \E i \in DOMAIN s : s[i] = a
Distinct(s) == \A i, j \in DOMAIN s : s[i] = s[j] => i = j
LastOf(s) == s[Len(s)]

LEMMA ConcatHolds ==
    ASSUME NEW A, NEW B, A \cap B = {}, NEW s \in Seq(A), NEW t \in Seq(B),
           Distinct(s), Distinct(t)
    PROVE  /\ s \o t \in Seq(A \cup B)
           /\ Distinct(s \o t)
           /\ \A a : Holds(s, a) \/ Holds(t, a) => Holds(s \o t, a)
  <1>1. /\ s \o t \in Seq(A \cup B) /\ Len(s \o t) = Len(s) + Len(t)
        /\ \A i \in DOMAIN (s \o t) :
              (s \o t)[i] = IF i <= Len(s) THEN s[i] ELSE t[i - Len(s)]
        /\ DOMAIN s = 1 .. Len(s) /\ DOMAIN t = 1 .. Len(t)
        /\ DOMAIN (s \o t) = 1 .. Len(s) + Len(t)
        /\ Len(s) \in Nat /\ Len(t) \in Nat
    OBVIOUS
  <1>2. \A i \in DOMAIN (s \o t) :
          IF i <= Len(s) THEN (s \o t)[i] \in A ELSE (s \o t)[i] \in B
    BY <1>1
  <1>3. ASSUME NEW i \in DOMAIN (s \o t), NEW j \in DOMAIN (s \o t),
               (s \o t)[i] = (s \o t)[j]
        PROVE  i = j
    <2>1. CASE i <= Len(s) /\ j <= Len(s)
      BY <1>1, <1>3, <2>1 DEF Distinct
    <2>2. CASE ~(i <= Len(s)) /\ ~(j <= Len(s))
      <3>1. i - Len(s) \in DOMAIN t /\ j - Len(s) \in DOMAIN t
        BY <1>1, <2>2
      <3>2. t[i - Len(s)] = t[j - Len(s)]
        BY <1>1, <1>3, <2>2
      <3>3. i - Len(s) = j - Len(s)
        BY <3>1, <3>2 DEF Distinct
      <3>4. QED
        BY <1>1, <3>3
    <2>3. QED
      BY <1>2, <1>3, <2>1, <2>2
  <1>4. ASSUME NEW a, Holds(s, a) \/ Holds(t, a)
        PROVE  Holds(s \o t, a)
    <2>1. CASE Holds(s, a)
      BY <1>1, <2>1 DEF Holds
    <2>2. CASE Holds(t, a)
      <3>1. PICK i \in DOMAIN t : t[i] = a
        BY <2>2 DEF Holds
      <3>2. i + Len(s) \in DOMAIN (s \o t) /\ (s \o t)[i + Len(s)] = a
        BY <1>1, <3>1
      <3>3. QED
        BY <3>2 DEF Holds
    <2>3. QED
      BY <1>4, <2>1, <2>2
  <1>5. QED
    BY <1>1, <1>3, <1>4 DEF Distinct

LEMMA IfHolds ==
    ASSUME NEW condition, NEW activity
    PROVE  /\ If(condition, activity) \in Seq({activity})
           /\ Distinct(If(condition, activity))
           /\ condition => Holds(If(condition, activity), activity)
  <1>1. CASE condition
    <2>1. If(condition, activity) = <<activity>>
      BY <1>1 DEF If
    <2>2. <<activity>> \in Seq({activity}) /\ Distinct(<<activity>>)
      BY DEF Distinct
    <2>3. 1 \in DOMAIN <<activity>> /\ <<activity>>[1] = activity
      OBVIOUS
    <2>4. QED
      BY <2>1, <2>2, <2>3 DEF Holds
  <1>2. CASE ~condition
    <2>1. If(condition, activity) = <<>>
      BY <1>2 DEF If
    <2>2. <<>> \in Seq({activity}) /\ Distinct(<<>>)
      BY DEF Distinct
    <2>3. QED
      BY <1>2, <2>1, <2>2
  <1>3. QED
    BY <1>1, <1>2

LEMMA UndoHolds ==
    ASSUME NEW got \in SUBSET Results
    PROVE  /\ Distinct(Undo(got))
           /\ LastOf(Undo(got)) = "MarkError"
           /\ \A x \in got : Holds(Undo(got), Deletes[x])
  <1> DEFINE s1 == If("connector" \in got, "DeleteConnector")
             s2 == If("capture" \in got, "StopCapture")
             s3 == If("sink" \in got, "DeleteSink")
             s4 == If("stream" \in got, "DeleteStream")
             s5 == <<"MarkError">>
             A2 == {"DeleteConnector"} \cup {"StopCapture"}
             A3 == A2 \cup {"DeleteSink"}
             A4 == A3 \cup {"DeleteStream"}
  <1>1. /\ s1 \in Seq({"DeleteConnector"}) /\ Distinct(s1)
        /\ s2 \in Seq({"StopCapture"}) /\ Distinct(s2)
        /\ s3 \in Seq({"DeleteSink"}) /\ Distinct(s3)
        /\ s4 \in Seq({"DeleteStream"}) /\ Distinct(s4)
        /\ "connector" \in got => Holds(s1, "DeleteConnector")
        /\ "capture" \in got => Holds(s2, "StopCapture")
        /\ "sink" \in got => Holds(s3, "DeleteSink")
        /\ "stream" \in got => Holds(s4, "DeleteStream")
    BY IfHolds
  <1>2. s5 \in Seq({"MarkError"}) /\ s5 # <<>> /\ Distinct(s5) /\ LastOf(s5) = "MarkError"
    BY DEF Distinct, LastOf
  <1>3. Undo(got) = s1 \o s2 \o s3 \o s4 \o s5
    BY DEF Undo
  <1>4. /\ {"DeleteConnector"} \cap {"StopCapture"} = {} /\ A2 \cap {"DeleteSink"} = {}
        /\ A3 \cap {"DeleteStream"} = {} /\ A4 \cap {"MarkError"} = {}
    OBVIOUS
  <1> HIDE DEF s1, s2, s3, s4, s5
  <1>5. /\ s1 \o s2 \in Seq(A2) /\ Distinct(s1 \o s2)
        /\ \A a : Holds(s1, a) \/ Holds(s2, a) => Holds(s1 \o s2, a)
    BY <1>1, <1>4, ConcatHolds
  <1> HIDE DEF A2
  <1>6. /\ s1 \o s2 \o s3 \in Seq(A3) /\ Distinct(s1 \o s2 \o s3)
        /\ \A a : Holds(s1 \o s2, a) \/ Holds(s3, a) => Holds(s1 \o s2 \o s3, a)
    BY <1>1, <1>4, <1>5, ConcatHolds
  <1> HIDE DEF A3
  <1>7. /\ s1 \o s2 \o s3 \o s4 \in Seq(A4) /\ Distinct(s1 \o s2 \o s3 \o s4)
        /\ \A a : Holds(s1 \o s2 \o s3, a) \/ Holds(s4, a) => Holds(s1 \o s2 \o s3 \o s4, a)
    BY <1>1, <1>4, <1>6, ConcatHolds
  <1> HIDE DEF A4
  <1>8. /\ Distinct(s1 \o s2 \o s3 \o s4 \o s5)
        /\ LastOf(s1 \o s2 \o s3 \o s4 \o s5) = "MarkError"
        /\ \A a : Holds(s1 \o s2 \o s3 \o s4, a) => Holds(s1 \o s2 \o s3 \o s4 \o s5, a)
    <2> DEFINE u == s1 \o s2 \o s3 \o s4
    <2>1. /\ u \in Seq(A4) /\ Distinct(u) /\ A4 \cap {"MarkError"} = {}
          /\ s5 \in Seq({"MarkError"}) /\ Distinct(s5)
      BY <1>2, <1>4, <1>7
    <2> DEFINE B == {"MarkError"}
    <2>2. u \in Seq(A4) /\ Distinct(u) /\ A4 \cap B = {} /\ s5 \in Seq(B) /\ Distinct(s5)
      BY <2>1
    <2> HIDE DEF u, B
    <2>3. Distinct(u \o s5)
      BY <2>2, ConcatHolds
    <2>4. \A a : Holds(u, a) \/ Holds(s5, a) => Holds(u \o s5, a)
      BY <2>2, ConcatHolds
    <2>5. s5 # <<>> => LastOf(u \o s5) = LastOf(s5)
      BY <2>2 DEF LastOf
    <2>6. QED
      BY <1>2, <2>3, <2>4, <2>5 DEF u
  <1>9. /\ "connector" \in got => Holds(Undo(got), "DeleteConnector")
        /\ "capture" \in got => Holds(Undo(got), "StopCapture")
        /\ "sink" \in got => Holds(Undo(got), "DeleteSink")
        /\ "stream" \in got => Holds(Undo(got), "DeleteStream")
    BY <1>1, <1>3, <1>5, <1>6, <1>7, <1>8
  <1>10. QED
    BY <1>3, <1>8, <1>9 DEF Deletes, Results

LEMMA TailHolds ==
    ASSUME NEW s \in Seq(Activities), s # <<>>, Distinct(s)
    PROVE  /\ Distinct(Tail(s))
           /\ \A a : Holds(Tail(s), a) <=> Holds(s, a) /\ a # Head(s)
           /\ Tail(s) # <<>> => LastOf(Tail(s)) = LastOf(s)
           /\ Tail(s) = <<>> => LastOf(s) = Head(s) /\ \A a : Holds(s, a) => a = Head(s)
  <1>1. /\ DOMAIN s = 1 .. Len(s) /\ DOMAIN Tail(s) = 1 .. Len(s) - 1
        /\ Len(s) \in Nat /\ Len(s) >= 1 /\ Len(Tail(s)) = Len(s) - 1
        /\ Head(s) = s[1]
        /\ \A i \in DOMAIN Tail(s) : Tail(s)[i] = s[i + 1]
    OBVIOUS
  <1>2. Distinct(Tail(s))
    <2> SUFFICES ASSUME NEW i \in DOMAIN Tail(s), NEW j \in DOMAIN Tail(s),
                        Tail(s)[i] = Tail(s)[j]
                 PROVE  i = j
      BY DEF Distinct
    <2>1. i + 1 \in DOMAIN s /\ j + 1 \in DOMAIN s /\ s[i + 1] = s[j + 1]
      BY <1>1
    <2>2. i + 1 = j + 1
      BY <2>1 DEF Distinct
    <2>3. QED
      BY <1>1, <2>2
  <1>3. ASSUME NEW a, Holds(Tail(s), a)
        PROVE  Holds(s, a) /\ a # Head(s)
    <2>1. PICK i \in DOMAIN Tail(s) : Tail(s)[i] = a
      BY <1>3 DEF Holds
    <2>2. i + 1 \in DOMAIN s /\ s[i + 1] = a /\ 1 \in DOMAIN s /\ i + 1 # 1
      BY <1>1, <2>1
    <2>3. s[i + 1] # s[1]
      BY <2>2 DEF Distinct
    <2>4. QED
      BY <1>1, <2>2, <2>3 DEF Holds
  <1>4. ASSUME NEW a, Holds(s, a), a # Head(s)
        PROVE  Holds(Tail(s), a)
    <2>1. PICK i \in DOMAIN s : s[i] = a
      BY <1>4 DEF Holds
    <2>2. i - 1 \in DOMAIN Tail(s) /\ Tail(s)[i - 1] = a
      BY <1>1, <1>4, <2>1
    <2>3. QED
      BY <2>2 DEF Holds
  <1>5. Tail(s) # <<>> => LastOf(Tail(s)) = LastOf(s)
    BY <1>1 DEF LastOf
  <1>6. Tail(s) = <<>> => LastOf(s) = Head(s) /\ \A a : Holds(s, a) => a = Head(s)
    <2>1. Tail(s) = <<>> => Len(s) = 1
      <3>1. \A n \in Nat : n - 1 = 0 => n = 1
        OBVIOUS
      <3>2. Len(<<>>) = 0
        OBVIOUS
      <3>3. Len(Tail(s)) = Len(s) - 1 /\ Len(s) \in Nat
        BY <1>1
      <3>4. QED
        BY <3>1, <3>2, <3>3
    <2>2. Len(s) = 1 => LastOf(s) = Head(s) /\ \A i \in DOMAIN s : s[i] = Head(s)
      BY <1>1 DEF LastOf
    <2>3. QED
      BY <2>1, <2>2 DEF Holds
  <1>7. QED
    BY <1>2, <1>3, <1>4, <1>5, <1>6

\* The activity that creates each resource, and what its success is told of.
Creates == [connector |-> "CreateConnector", capture |-> "StartCapture",
            sink |-> "EnsureSink", stream |-> "EnsureStream"]

GainOf(a) == {x \in Results : Creates[x] = a}

Pending(list) == {x \in Results : Holds(list, Creates[x])}

LEMMA Gains ==
    /\ GainOf("CreateConnector") = {"connector"}
    /\ GainOf("StartCapture") = {"capture"}
    /\ GainOf("EnsureSink") = {"sink"}
    /\ GainOf("EnsureStream") = {"stream"}
    /\ \A a : a \notin {"CreateConnector", "StartCapture", "EnsureSink", "EnsureStream"}
                => GainOf(a) = {}
  BY DEF GainOf, Results, Creates

LEMMA CreatesApart == \A x, y \in Results : Creates[x] = Creates[y] => x = y
  BY DEF Results, Creates

LEMMA DeletesApart ==
    /\ \A x, y \in Results : Deletes[x] = Deletes[y] => x = y
    /\ \A x \in Results : Deletes[x] # "MarkError"
  BY DEF Results, Deletes

\* The lists of the two provisioning workflows.
LEMMA StepsHold ==
    ASSUME NEW w \in Provisioning
    PROVE  /\ Distinct(Steps[w])
           /\ LastOf(Steps[w]) = "MarkActive"
           /\ Pending(Steps[w]) = Resources[w]
  <1> DEFINE base == <<"Validate", "PrepareSource", "EnsureStream", "EnsureSink",
                       "StartCapture", "MarkActive">>
             cdc == <<"Validate", "PrepareSource", "EnsureStream", "CreateConnector",
                      "WaitRunning", "EnsureSink", "MarkActive">>
  <1>1. CASE w = "provision"
    <2>1. Steps[w] = base /\ Resources[w] = {"stream", "sink", "capture"}
      BY <1>1 DEF Steps, Resources
    <2>2. Distinct(base) /\ LastOf(base) = "MarkActive"
      BY DEF Distinct, LastOf
    <2>3. \A x \in {"stream", "sink", "capture"} : Holds(base, Creates[x])
      <3>1. 3 \in DOMAIN base /\ 4 \in DOMAIN base /\ 5 \in DOMAIN base
        OBVIOUS
      <3>2. base[3] = "EnsureStream" /\ base[4] = "EnsureSink" /\ base[5] = "StartCapture"
        OBVIOUS
      <3> HIDE DEF base
      <3>3. QED
        BY <3>1, <3>2 DEF Holds, Creates
    <2>4. ~Holds(base, "CreateConnector")
      BY DEF Holds
    <2> HIDE DEF base
    <2>5. QED
      BY <2>1, <2>2, <2>3, <2>4 DEF Pending, Results, Creates
  <1>2. CASE w = "cdc"
    <2>1. Steps[w] = cdc /\ Resources[w] = {"stream", "connector", "sink"}
      BY <1>2 DEF Steps, Resources, ProvisionCDCSteps
    <2>2. Distinct(cdc) /\ LastOf(cdc) = "MarkActive"
      BY DEF Distinct, LastOf
    <2>3. \A x \in {"stream", "connector", "sink"} : Holds(cdc, Creates[x])
      <3>1. 3 \in DOMAIN cdc /\ 4 \in DOMAIN cdc /\ 6 \in DOMAIN cdc
        OBVIOUS
      <3>2. cdc[3] = "EnsureStream" /\ cdc[4] = "CreateConnector" /\ cdc[6] = "EnsureSink"
        OBVIOUS
      <3> HIDE DEF cdc
      <3>3. QED
        BY <3>1, <3>2 DEF Holds, Creates
    <2>4. ~Holds(cdc, "StartCapture")
      BY DEF Holds
    <2> HIDE DEF cdc
    <2>5. QED
      BY <2>1, <2>2, <2>3, <2>4 DEF Pending, Results, Creates
  <1>3. QED
    BY <1>1, <1>2 DEF Provisioning
-----------------------------------------------------------------------------
(***************************************************************************)
(* One provisioning run as a saga.  What it knows and what its list will   *)
(* still create are the resources of the workflow, each on one side only.  *)
(***************************************************************************)
SagaInv(w, r) ==
    /\ InProgress(r) => Distinct(r.todo)
    /\ r.status = "forward" =>
         /\ r.got \cup Pending(r.todo) = Resources[w]
         /\ r.got \cap Pending(r.todo) = {}
         /\ LastOf(r.todo) = "MarkActive"
         /\ Head(r.todo) = "Validate" => r.got = {}
    /\ r.status = "undoing" =>
         r.todo \in Seq(UndoActivities) /\ LastOf(r.todo) = "MarkError"

\* A step of ProvisioningSaga, or none, read off two states of a run.
SagaStep(w, r, q) ==
    \/ q.status = r.status /\ q.got = r.got /\ ToUndo(q) = ToUndo(r)
    \/ /\ r.status \in {"none", "completed", "failed"}
       /\ q.status = "forward" /\ q.got = {} /\ ToUndo(q) = {}
    \/ /\ r.status = "forward" /\ q.status = "forward" /\ ToUndo(q) = ToUndo(r)
       /\ \E x \in Resources[w] \ r.got : q.got = r.got \cup {x}
    \/ /\ r.status = "forward" /\ r.got = Resources[w]
       /\ q.status = "completed" /\ q.got = r.got /\ ToUndo(q) = ToUndo(r)
    \/ /\ r.status = "forward" /\ r.got = {}
       /\ q.status = "failed" /\ q.got = r.got /\ ToUndo(q) = ToUndo(r)
    \/ /\ r.status = "forward"
       /\ q.status = "undoing" /\ q.got = r.got /\ ToUndo(q) = r.got
    \/ /\ r.status = "undoing" /\ q.status = "undoing" /\ q.got = r.got
       /\ \E x \in ToUndo(r) : ToUndo(q) = ToUndo(r) \ {x}
    \/ /\ r.status = "undoing" /\ ToUndo(r) = {}
       /\ q.status = "failed" /\ q.got = r.got /\ ToUndo(q) = {}

SagaGoes(w, r, q) == SagaInv(w, q) /\ SagaStep(w, r, q)

LEMMA ToUndoIs ==
    ASSUME NEW r
    PROVE  ToUndo(r) = IF r.status = "undoing"
                       THEN {x \in r.got : Holds(r.todo, Deletes[x])} ELSE {}
  BY DEF ToUndo, Holds

LEMMA SameSaga ==
    ASSUME NEW w, NEW r, NEW q, SagaInv(w, r),
           q.status = r.status, q.got = r.got, q.todo = r.todo
    PROVE  SagaGoes(w, r, q)
  BY DEF SagaGoes, SagaInv, SagaStep, ToUndo, InProgress

LEMMA AdvanceSaga ==
    ASSUME NEW w \in Provisioning, NEW r \in Run, TodoInv(w, r), SagaInv(w, r),
           InProgress(r)
    PROVE  SagaGoes(w, r, Advance(r, GainOf(Head(r.todo))))
  <1> DEFINE h == Head(r.todo)
             t == Tail(r.todo)
             q == Advance(r, GainOf(h))
             next == IF t # <<>> THEN r.status
                     ELSE IF r.status = "forward" THEN "completed" ELSE "failed"
  <1>1. /\ r.todo \in Seq(Activities) /\ r.todo # <<>> /\ Distinct(r.todo)
        /\ r.got \in SUBSET Results
    BY DEF Run, TodoInv, SagaInv
  <1>2. q.status = next /\ q.todo = t /\ q.got = r.got \cup GainOf(h)
    BY DEF Advance, Run
  <1>3. Holds(r.todo, h)
    BY <1>1, HeadIsFirst DEF Holds
  <1>4. /\ Distinct(t)
        /\ \A a : Holds(t, a) <=> Holds(r.todo, a) /\ a # h
        /\ t # <<>> => LastOf(t) = LastOf(r.todo)
        /\ t = <<>> => LastOf(r.todo) = h /\ \A a : Holds(r.todo, a) => a = h
    BY <1>1, TailHolds
  <1>5. GainOf(h) = {} \/ \E x \in Results : GainOf(h) = {x}
    BY CreatesApart DEF GainOf
  <1> HIDE DEF h, t, q
  <1>6. /\ GainOf(h) \subseteq Pending(r.todo)
        /\ Pending(t) = Pending(r.todo) \ GainOf(h)
        /\ t = <<>> => Pending(r.todo) = GainOf(h)
    BY <1>3, <1>4 DEF Pending, GainOf
  <1>7. CASE r.status = "forward" /\ t # <<>>
    <2>1. /\ q.status = "forward" /\ ToUndo(q) = {} /\ ToUndo(r) = {}
          /\ r.got \cup Pending(r.todo) = Resources[w]
          /\ r.got \cap Pending(r.todo) = {} /\ LastOf(r.todo) = "MarkActive"
      BY <1>2, <1>7, ToUndoIs DEF SagaInv
    <2>2. Head(t) # "Validate"
      <3>1. 2 \in DOMAIN r.todo /\ Head(t) = r.todo[2]
        BY <1>1, <1>7, HeadIsFirst DEF t
      <3>2. QED
        BY <3>1 DEF TodoInv
    <2>3. SagaInv(w, q)
      BY <1>2, <1>4, <1>6, <1>7, <2>1, <2>2 DEF SagaInv
    <2>4. CASE GainOf(h) = {}
      BY <1>2, <2>1, <2>3, <2>4 DEF SagaGoes, SagaStep
    <2>5. ASSUME NEW x \in Results, GainOf(h) = {x}
          PROVE  SagaGoes(w, r, q)
      <3>1. x \in Resources[w] \ r.got /\ q.got = r.got \cup {x}
        BY <1>2, <1>6, <2>1, <2>5
      <3>2. QED
        BY <1>7, <2>1, <2>3, <3>1 DEF SagaGoes, SagaStep
    <2>6. QED
      BY <1>5, <2>4, <2>5 DEF q, h
  <1>8. CASE r.status = "forward" /\ t = <<>>
    <2>1. /\ q.status = "completed" /\ ToUndo(q) = {} /\ ToUndo(r) = {}
          /\ r.got \cup Pending(r.todo) = Resources[w] /\ h = "MarkActive"
      BY <1>2, <1>4, <1>8, ToUndoIs DEF SagaInv
    <2>2. GainOf(h) = {}
      BY <2>1, Gains
    <2>3. r.got = Resources[w] /\ q.got = r.got
      BY <1>2, <1>6, <1>8, <2>1, <2>2
    <2>4. SagaInv(w, q)
      BY <2>1 DEF SagaInv, InProgress
    <2>5. QED
      BY <1>8, <2>1, <2>3, <2>4 DEF SagaGoes, SagaStep, q, h
  <1>9. CASE r.status = "undoing"
    <2>1. r.todo \in Seq(UndoActivities) /\ LastOf(r.todo) = "MarkError"
      BY <1>9 DEF SagaInv
    <2>2. h \in UndoActivities /\ t \in Seq(UndoActivities)
      BY <1>1, <2>1 DEF h, t
    <2>3. q.got = r.got
      BY <1>2, <2>2, Gains DEF UndoActivities
    <2>4. ToUndo(r) = {x \in r.got : Holds(r.todo, Deletes[x])}
      BY <1>9, ToUndoIs
    <2>5. CASE t # <<>>
      <3>1. /\ q.status = "undoing"
            /\ ToUndo(q) = {x \in r.got : Holds(t, Deletes[x])}
        BY <1>2, <1>9, <2>3, <2>5, ToUndoIs
      <3>2. SagaInv(w, q)
        BY <1>2, <1>4, <2>1, <2>2, <2>5, <3>1 DEF SagaInv
      <3>3. CASE \A x \in r.got : Deletes[x] # h
        <4>1. ToUndo(q) = ToUndo(r)
          BY <1>4, <2>4, <3>1, <3>3
        <4>2. QED
          BY <1>9, <2>3, <3>1, <3>2, <4>1 DEF SagaGoes, SagaStep, q, h
      <3>4. ASSUME NEW x \in r.got, Deletes[x] = h
            PROVE  SagaGoes(w, r, Advance(r, GainOf(Head(r.todo))))
        <4>1. \A y \in r.got : Deletes[y] = h => y = x
          BY <1>1, <3>4, DeletesApart
        <4>2. x \in ToUndo(r)
          BY <1>3, <2>4, <3>4
        <4>3. ToUndo(q) = ToUndo(r) \ {x}
          BY <1>4, <2>4, <3>1, <3>4, <4>1
        <4>4. QED
          BY <1>9, <2>3, <3>1, <3>2, <4>2, <4>3 DEF SagaGoes, SagaStep, q, h
      <3>5. QED
        BY <3>3, <3>4
    <2>6. CASE t = <<>>
      <3>1. q.status = "failed" /\ ToUndo(q) = {} /\ h = "MarkError"
        BY <1>2, <1>4, <1>9, <2>1, <2>6, ToUndoIs
      <3>2. ToUndo(r) = {}
        BY <1>1, <1>4, <2>4, <2>6, <3>1, DeletesApart
      <3>3. SagaInv(w, q)
        BY <3>1 DEF SagaInv, InProgress
      <3>4. QED
        BY <1>9, <2>3, <3>1, <3>2, <3>3 DEF SagaGoes, SagaStep, q, h
    <2>7. QED
      BY <2>5, <2>6
  <1>10. QED
    BY <1>7, <1>8, <1>9 DEF InProgress, q, h

LEMMA FailSaga ==
    ASSUME NEW w \in Provisioning, NEW r \in Run, TodoInv(w, r), SagaInv(w, r),
           InProgress(r)
    PROVE  SagaGoes(w, r, Fail(w, r))
  <1>1. CASE r.attempt + 1 < Attempts(Head(r.todo))
    <2> DEFINE q == [r EXCEPT !.attempt = @ + 1, !.half = FALSE]
    <2>1. q.status = r.status /\ q.got = r.got /\ q.todo = r.todo /\ Fail(w, r) = q
      BY <1>1 DEF Run, Fail
    <2> HIDE DEF q
    <2>2. QED
      BY <2>1, SameSaga
  <1>2. CASE ~(r.attempt + 1 < Attempts(Head(r.todo))) /\ r.status = "undoing"
    <2> DEFINE q == [r EXCEPT !.gaveUp = @ \cup ({Head(r.todo)} \cap Watched)]
    <2>1. q \in Run /\ q.status = r.status /\ q.got = r.got /\ q.todo = r.todo
      BY DEF Run
    <2>2. Fail(w, r) = Advance(q, {})
      BY <1>2 DEF Fail, OnError
    <2> HIDE DEF q
    <2>3. TodoInv(w, q) /\ InProgress(q)
      BY <2>1 DEF TodoInv, InProgress
    <2>4. SagaInv(w, q)
      BY <2>1, SameSaga DEF SagaGoes
    <2>5. GainOf(Head(q.todo)) = {}
      <3>1. q.todo \in Seq(UndoActivities) /\ q.todo # <<>>
        BY <1>2, <2>1, <2>3, <2>4 DEF SagaInv, TodoInv
      <3>2. Head(q.todo) \in UndoActivities
        BY <3>1
      <3>3. QED
        BY <3>2, Gains DEF UndoActivities
    <2>6. SagaGoes(w, q, Advance(q, {}))
      BY <2>1, <2>3, <2>4, <2>5, AdvanceSaga
    <2>7. ToUndo(q) = ToUndo(r)
      BY <2>1 DEF ToUndo
    <2>8. QED
      BY <2>1, <2>2, <2>6, <2>7 DEF SagaGoes, SagaStep
  <1>3. CASE /\ ~(r.attempt + 1 < Attempts(Head(r.todo)))
             /\ r.status = "forward" /\ Compensates(w, Head(r.todo))
    <2> DEFINE q == [r EXCEPT !.status = "undoing", !.todo = Undo(r.got),
                              !.attempt = 0, !.half = FALSE]
    <2>1. q.status = "undoing" /\ q.got = r.got /\ q.todo = Undo(r.got) /\ Fail(w, r) = q
      BY <1>3 DEF Run, Fail, OnError
    <2>2. r.got \in SUBSET Results
      BY DEF Run
    <2> HIDE DEF q
    <2>3. SagaInv(w, q)
      BY <2>1, <2>2, UndoType, UndoHolds DEF SagaInv
    <2>4. ToUndo(q) = r.got
      BY <2>1, <2>2, UndoHolds, ToUndoIs
    <2>5. QED
      BY <1>3, <2>1, <2>3, <2>4 DEF SagaGoes, SagaStep
  <1>4. CASE /\ ~(r.attempt + 1 < Attempts(Head(r.todo)))
             /\ r.status = "forward" /\ ~Compensates(w, Head(r.todo))
    <2> DEFINE q == [r EXCEPT !.status = "failed", !.todo = <<>>,
                              !.attempt = 0, !.half = FALSE]
    <2>1. q.status = "failed" /\ q.got = r.got /\ Fail(w, r) = q
      BY <1>4 DEF Run, Fail, OnError
    <2>2. r.got = {}
      BY <1>4 DEF Compensates, SagaInv
    <2> HIDE DEF q
    <2>3. SagaInv(w, q) /\ ToUndo(q) = {} /\ ToUndo(r) = {}
      BY <1>4, <2>1 DEF SagaInv, InProgress, ToUndo
    <2>4. QED
      BY <1>4, <2>1, <2>2, <2>3 DEF SagaGoes, SagaStep
  <1>5. QED
    BY <1>1, <1>2, <1>3, <1>4 DEF InProgress

LEMMA StartSaga ==
    ASSUME NEW w \in Provisioning, NEW r \in Run, ~InProgress(r), NEW alone \in BOOLEAN
    PROVE  SagaGoes(w, r, [NoRun EXCEPT !.status = "forward", !.todo = Steps[w],
                                        !.alone = alone])
  <1> DEFINE q == [NoRun EXCEPT !.status = "forward", !.todo = Steps[w],
                                !.alone = alone]
  <1>1. q.status = "forward" /\ q.todo = Steps[w] /\ q.got = {}
    BY DEF NoRun
  <1> HIDE DEF q
  <1>2. SagaInv(w, q)
    BY <1>1, StepsHold DEF SagaInv
  <1>3. ToUndo(q) = {} /\ r.status \in {"none", "completed", "failed"}
    BY <1>1 DEF ToUndo, Run, InProgress
  <1>4. QED
    BY <1>1, <1>2, <1>3 DEF SagaGoes, SagaStep, q

(***************************************************************************)
(* Steps of the pipeline as steps of its two sagas.                        *)
(***************************************************************************)
\* A step of w: an attempt's first call is made, the attempt fails, or the
\* activity is over and the run knows what it created.
LEMMA StepCases ==
    ASSUME NEW w \in Workflows, Step(w)
    PROVE  /\ Open(w)
           /\ \/ ~run[w].half /\ Become(w, [run[w] EXCEPT !.half = TRUE])
              \/ Become(w, Fail(w, run[w]))
              \/ Become(w, Advance(run[w], GainOf(Head(run[w].todo))))
  <1> USE DEF At, Finish, FirstCall
  <1>1. CASE NoEffect(w) \/ StartCapture(w) \/ AttemptFails(w)
    BY <1>1, Gains DEF NoEffect, StartCapture, AttemptFails
  <1>2. CASE EnsureStream(w) \/ EnsureSink(w)
    BY <1>2, Gains DEF EnsureStream, EnsureSink
  <1>3. CASE DeleteStream(w) \/ DeleteSink(w)
    BY <1>3, Gains DEF DeleteStream, DeleteSink
  <1>4. CASE MarkState(w)
    BY <1>4, Gains DEF MarkState, Mark
  <1>5. CASE CreateConnector(w) \/ SeeRunning(w) \/ PauseConnector(w) \/ ResumeConnector(w)
    BY <1>5 DEF CreateConnector, SeeRunning, PauseConnector, ResumeConnector
  <1>6. CASE CreateRecord(w) \/ DeleteRecord(w)
    BY <1>6, Gains DEF CreateRecord, DeleteRecord
  <1>7. CASE UpdateRecord(w)
    BY <1>7, Gains DEF UpdateRecord
  <1>8. CASE DeleteConnector(w)
    BY <1>8 DEF DeleteConnector
  <1>9. QED
    BY <1>1, <1>2, <1>3, <1>4, <1>5, <1>6, <1>7, <1>8 DEF Step

SagasInv == \A w \in Provisioning : SagaInv(w, run[w])

SagasGo == \A w \in Provisioning : SagaGoes(w, run[w], run'[w])

LEMMA ProvisioningRuns ==
    ASSUME RunsInv, NEW w \in Provisioning
    PROVE  w \in Workflows /\ run[w] \in Run /\ TodoInv(w, run[w])
  BY DEF RunsInv, RunInv, Workflows

LEMMA UnchangedSaga ==
    ASSUME SagasInv, NEW w \in Provisioning, run'[w] = run[w]
    PROVE  SagaGoes(w, run[w], run'[w])
  <1>1. SagaGoes(w, run[w], run[w])
    BY SameSaga DEF SagasInv
  <1>2. QED
    BY <1>1

LEMMA BecomeSaga ==
    ASSUME RunsInv, SagasInv, NEW v \in Workflows, Step(v), NEW w \in Provisioning
    PROVE  SagaGoes(w, run[w], run'[w])
  <1>1. w \in Workflows /\ run[w] \in Run /\ TodoInv(w, run[w]) /\ SagaInv(w, run[w])
    BY ProvisioningRuns DEF SagasInv
  <1>2. CASE v # w
    <2>1. run'[w] = run[w]
      BY <1>1, <1>2, StepCases DEF Become, RunsInv
    <2>2. QED
      BY <2>1, UnchangedSaga
  <1>3. CASE v = w
    <2>1. InProgress(run[w])
      BY <1>3, StepCases DEF Open, InProgress
    <2>2. ASSUME NEW q, Become(w, q)
          PROVE  run'[w] = q
      BY <1>1, <2>2 DEF Become, RunsInv
    <2>3. CASE Become(w, [run[w] EXCEPT !.half = TRUE])
      <3> DEFINE q == [run[w] EXCEPT !.half = TRUE]
      <3>1. /\ q.status = run[w].status /\ q.got = run[w].got /\ q.todo = run[w].todo
            /\ run'[w] = q
        BY <1>1, <2>2, <2>3 DEF Run
      <3> HIDE DEF q
      <3>2. SagaGoes(w, run[w], q)
        BY <1>1, <3>1, SameSaga
      <3>3. QED
        BY <3>1, <3>2
    <2>4. CASE Become(w, Fail(w, run[w]))
      <3>1. SagaGoes(w, run[w], Fail(w, run[w]))
        BY <1>1, <2>1, FailSaga
      <3>2. run'[w] = Fail(w, run[w])
        BY <2>2, <2>4
      <3>3. QED
        BY <3>1, <3>2
    <2>5. CASE Become(w, Advance(run[w], GainOf(Head(run[w].todo))))
      <3>1. SagaGoes(w, run[w], Advance(run[w], GainOf(Head(run[w].todo))))
        BY <1>1, <2>1, AdvanceSaga
      <3>2. run'[w] = Advance(run[w], GainOf(Head(run[w].todo)))
        BY <2>2, <2>5
      <3>3. QED
        BY <3>1, <3>2
    <2>6. QED
      BY <1>3, <2>3, <2>4, <2>5, StepCases
  <1>4. QED
    BY <1>2, <1>3

LEMMA LonelySaga ==
    ASSUME NEW w, NEW r \in Run, TodoInv(w, r), SagaInv(w, r)
    PROVE  LET q == [r EXCEPT !.alone = FALSE]
           IN  /\ q \in Run /\ TodoInv(w, q) /\ SagaGoes(w, r, q)
               /\ q.status = r.status /\ q.got = r.got /\ ToUndo(q) = ToUndo(r)
  <1> DEFINE q == [r EXCEPT !.alone = FALSE]
  <1>1. q \in Run /\ q.status = r.status /\ q.got = r.got /\ q.todo = r.todo
    BY DEF Run
  <1> HIDE DEF q
  <1>2. TodoInv(w, q) /\ SagaGoes(w, r, q) /\ ToUndo(q) = ToUndo(r)
    BY <1>1, SameSaga DEF TodoInv, InProgress, ToUndo
  <1>3. QED
    BY <1>1, <1>2 DEF q

LEMMA StartsSaga ==
    ASSUME RunsInv, SagasInv, NEW v \in Workflows, NEW STATE alone, alone \in BOOLEAN,
           Start(v, alone), NEW w \in Provisioning
    PROVE  SagaGoes(w, run[w], run'[w])
  <1>1. w \in Workflows /\ run[w] \in Run /\ TodoInv(w, run[w]) /\ SagaInv(w, run[w])
    BY ProvisioningRuns DEF SagasInv
  <1>2. CASE v = w
    <2> DEFINE q == [NoRun EXCEPT !.status = "forward", !.todo = Steps[w],
                                  !.alone = alone]
    <2>1. run'[w] = q /\ ~InProgress(run[w])
      BY <1>1, <1>2 DEF Start, Open, InProgress
    <2>2. SagaGoes(w, run[w], q)
      BY <1>1, <2>1, StartSaga
    <2> HIDE DEF q
    <2>3. QED
      BY <2>1, <2>2
  <1>3. CASE v # w
    <2> DEFINE q == [run[w] EXCEPT !.alone = FALSE]
    <2>1. run'[w] = q
      BY <1>1, <1>3 DEF Start
    <2>2. SagaGoes(w, run[w], q)
      BY <1>1, LonelySaga
    <2> HIDE DEF q
    <2>3. QED
      BY <2>1, <2>2
  <1>4. QED
    BY <1>2, <1>3

\* A restart may cost a run the attempt it was in the middle of.
LEMMA RestartSaga ==
    ASSUME RunsInv, SagasInv, Restart, NEW w \in Provisioning
    PROVE  SagaGoes(w, run[w], run'[w])
  <1> DEFINE q == [run[w] EXCEPT !.alone = FALSE]
  <1>1. w \in Workflows /\ run[w] \in Run /\ TodoInv(w, run[w]) /\ SagaInv(w, run[w])
    BY ProvisioningRuns DEF SagasInv
  <1>2. run'[w] = IF Open(w) /\ q.half THEN Fail(w, q) ELSE q
    BY <1>1 DEF Restart
  <1>3. /\ q \in Run /\ TodoInv(w, q) /\ SagaGoes(w, run[w], q)
        /\ q.status = run[w].status /\ q.got = run[w].got
        /\ ToUndo(q) = ToUndo(run[w])
    BY <1>1, LonelySaga
  <1> HIDE DEF q
  <1>4. CASE Open(w) /\ q.half
    <2>1. InProgress(q) /\ SagaInv(w, q)
      BY <1>3, <1>4 DEF Open, InProgress, SagaGoes
    <2>2. SagaGoes(w, q, Fail(w, q))
      BY <1>3, <2>1, FailSaga
    <2>3. SagaGoes(w, run[w], Fail(w, q))
      BY <1>3, <2>2 DEF SagaGoes, SagaStep
    <2>4. QED
      BY <1>2, <1>4, <2>3
  <1>5. CASE ~(Open(w) /\ q.half)
    BY <1>2, <1>3, <1>5
  <1>6. QED
    BY <1>4, <1>5

LEMMA SagasStep == RunsInv /\ SagasInv /\ [Next]_vars => SagasInv' /\ SagasGo
  <1> SUFFICES ASSUME RunsInv, SagasInv, [Next]_vars, NEW w \in Provisioning
               PROVE  SagaGoes(w, run[w], run'[w])
    BY DEF SagasInv, SagasGo, SagaGoes
  <1>1. ASSUME NEW v \in Workflows, Step(v)
        PROVE  SagaGoes(w, run[w], run'[w])
    BY <1>1, BecomeSaga
  <1>2. CASE CreatePipeline \/ AttachProvision \/ StartFails \/ CorrectState
    BY <1>2, UnchangedSaga DEF CreatePipeline, AttachProvision, StartFails, CorrectState
  <1>3. CASE StartProvision
    <2>1. CASE UNCHANGED run
      BY <2>1, UnchangedSaga
    <2>2. "provision" \in Workflows
      BY DEF Workflows, Provisioning
    <2>3. QED
      BY <1>3, <2>1, <2>2, StartsSaga DEF StartProvision
  <1>4. ASSUME NEW v \in Workflows, StartOperation(v)
        PROVE  SagaGoes(w, run[w], run'[w])
    <2>1. (~Busy) \in BOOLEAN
      BY DEF Busy
    <2>2. QED
      BY <1>4, <2>1, StartsSaga DEF StartOperation
  <1>5. CASE ConnectorStarts \/ ConnectorFails \/ UNCHANGED vars
    BY <1>5, UnchangedSaga DEF ConnectorStarts, ConnectorFails, vars
  <1>6. CASE Restart
    BY <1>6, RestartSaga
  <1>7. QED
    BY <1>1, <1>2, <1>3, <1>4, <1>5, <1>6 DEF Next, API

LEMMA SagasInit == Init => SagasInv /\ ProvisionSaga!Init /\ CDCSaga!Init
  <1> SUFFICES ASSUME Init
               PROVE  SagasInv /\ ProvisionSaga!Init /\ CDCSaga!Init
    OBVIOUS
  <1>1. \A w \in Provisioning : run[w] = NoRun
    BY DEF Init, Workflows
  <1>2. NoRun.status = "none" /\ NoRun.got = {} /\ ToUndo(NoRun) = {}
    BY DEF NoRun, ToUndo
  <1>3. SagasInv
    BY <1>1, <1>2 DEF SagasInv, SagaInv, InProgress
  <1>4. QED
    BY <1>1, <1>2, <1>3 DEF ProvisionSaga!Init, CDCSaga!Init, Provisioning

LEMMA ProvisionMaps ==
    ASSUME SagasGo
    PROVE  [ProvisionSaga!Next]_ProvisionSaga!vars
  <1>1. SagaStep("provision", run["provision"], run'["provision"])
    BY DEF SagasGo, SagaGoes, Provisioning
  <1>2. QED
    BY <1>1 DEF SagaStep, ProvisionSaga!Next, ProvisionSaga!vars, ProvisionSaga!Begin,
       ProvisionSaga!Acquire, ProvisionSaga!Succeed, ProvisionSaga!Refuse,
       ProvisionSaga!Abort, ProvisionSaga!Undo, ProvisionSaga!Fail, ToUndo

LEMMA CDCMaps ==
    ASSUME SagasGo
    PROVE  [CDCSaga!Next]_CDCSaga!vars
  <1>1. SagaStep("cdc", run["cdc"], run'["cdc"])
    BY DEF SagasGo, SagaGoes, Provisioning
  <1>2. QED
    BY <1>1 DEF SagaStep, CDCSaga!Next, CDCSaga!vars, CDCSaga!Begin,
       CDCSaga!Acquire, CDCSaga!Succeed, CDCSaga!Refuse,
       CDCSaga!Abort, CDCSaga!Undo, CDCSaga!Fail, ToUndo

\* Both provisioning workflows keep the promise of ProvisioningSaga: success
\* with every resource, or a failure that has turned once to each resource
\* the run was told of and to no other, across lost results, repeated
\* attempts, other runs and restarts (workflow.go:92-121,
\* session2_workflow.go:172-200).
THEOREM RefinesSaga == Spec => ImplementsSaga
  <1>1. Init => StoresOK /\ RunsInv /\ SagasInv /\ ProvisionSaga!Init /\ CDCSaga!Init
    BY InitInv, SagasInit
  <1>2. RunsInv /\ SagasInv /\ [Next]_vars =>
          /\ RunsInv' /\ SagasInv'
          /\ [ProvisionSaga!Next]_ProvisionSaga!vars
          /\ [CDCSaga!Next]_CDCSaga!vars
    BY RunsStep, SagasStep, ProvisionMaps, CDCMaps
  <1>3. QED
    BY <1>1, <1>2, PTL DEF Spec, ImplementsSaga, ProvisionSaga!Spec, CDCSaga!Spec

-----------------------------------------------------------------------------
(***************************************************************************)
(* Runs advance.                                                           *)
(***************************************************************************)
LEMMA AdvanceNearer ==
    ASSUME NEW r \in Run, InProgress(r), r.todo # <<>>, NEW gained
    PROVE  Nearer(r, Advance(r, gained))
  <1> DEFINE s == Advance(r, gained)
  <1>1. /\ s.todo = Tail(r.todo)
        /\ s.status = IF Tail(r.todo) # <<>> THEN r.status
                      ELSE IF r.status = "forward" THEN "completed" ELSE "failed"
    BY DEF Advance, Run
  <1>2. Len(Tail(r.todo)) < Len(r.todo)
    BY DEF Run
  <1> HIDE DEF s
  <1>3. Nearer(r, s)
    <2>1. CASE Tail(r.todo) # <<>>
      BY <1>1, <1>2, <2>1 DEF Nearer
    <2>2. CASE Tail(r.todo) = <<>>
      <3>1. /\ s.status \in {"completed", "failed"}
            /\ r.status \in {"forward", "undoing"}
        BY <1>1, <2>2 DEF InProgress
      <3>2. Remaining[s.status] < Remaining[r.status]
        BY <3>1 DEF Remaining
      <3> QED
        BY <3>2 DEF Nearer
    <2> QED
      BY <2>1, <2>2
  <1> QED
    BY <1>3 DEF s

LEMMA FailNearer ==
    ASSUME NEW w, NEW r \in Run, InProgress(r), r.todo # <<>>
    PROVE  Nearer(r, Fail(w, r))
  <1>1. CASE r.attempt + 1 < Attempts(Head(r.todo))
    <2> DEFINE s == [r EXCEPT !.attempt = @ + 1, !.half = FALSE]
    <2>1. Fail(w, r) = s
      BY <1>1 DEF Fail
    <2>2. /\ s.status = r.status /\ s.todo = r.todo /\ s.attempt = r.attempt + 1
          /\ r.attempt \in Nat
      BY DEF Run
    <2> HIDE DEF s
    <2>3. r.attempt < s.attempt
      BY <2>2
    <2> QED
      BY <1>1, <2>1, <2>2, <2>3 DEF Nearer
  <1>2. CASE ~(r.attempt + 1 < Attempts(Head(r.todo)))
    <2>1. Fail(w, r) = OnError(w, r)
      BY <1>2 DEF Fail
    <2>2. CASE r.status = "undoing"
      <3> DEFINE q == [r EXCEPT !.gaveUp = @ \cup ({Head(r.todo)} \cap Watched)]
      <3>1. q \in Run /\ q.status = r.status /\ q.todo = r.todo
        BY DEF Run
      <3>2. OnError(w, r) = Advance(q, {})
        BY <2>2 DEF OnError
      <3> HIDE DEF q
      <3> DEFINE s == Advance(q, {})
      <3>4. /\ s.todo = Tail(r.todo)
            /\ s.status = IF Tail(r.todo) # <<>> THEN "undoing" ELSE "failed"
        BY <2>2, <3>1 DEF Advance, Run
      <3>5. Len(Tail(r.todo)) < Len(r.todo)
        BY DEF Run
      <3> HIDE DEF s
      <3>6. Nearer(r, s)
        BY <2>2, <3>4, <3>5 DEF Remaining, Nearer
      <3> QED
        BY <2>1, <3>2, <3>6 DEF s
    <2>3. CASE r.status = "forward"
      <3>1. (OnError(w, r)).status \in {"undoing", "failed"}
        BY <2>3 DEF OnError, Run
      <3>2. Remaining[(OnError(w, r)).status] < Remaining[r.status]
        BY <2>3, <3>1 DEF Remaining
      <3> QED
        BY <2>1, <3>2 DEF Nearer
    <2> QED
      BY <2>2, <2>3 DEF InProgress
  <1> QED
    BY <1>1, <1>2

\* A run is left where it is.
Stands(w) == run'[w] = [run[w] EXCEPT !.alone = run'[w].alone]

LEMMA LonelyStands ==
    ASSUME NEW w, run[w] \in Run,
           run'[w] = run[w] \/ run'[w] = [run[w] EXCEPT !.alone = FALSE]
    PROVE  Stands(w)
  <1>1. CASE run'[w] = run[w]
    BY <1>1 DEF Run, Stands
  <1>2. CASE run'[w] = [run[w] EXCEPT !.alone = FALSE]
    BY <1>2 DEF Run, Stands
  <1> QED
    BY <1>1, <1>2

LEMMA OpenRun ==
    ASSUME RunsInv, NEW w \in Workflows, Open(w)
    PROVE  run[w] \in Run /\ InProgress(run[w]) /\ run[w].todo # <<>>
  BY DEF RunsInv, RunInv, TodoInv, Open, InProgress

LEMMA StepNearer ==
    ASSUME RunsInv, NEW w \in Workflows, Step(w)
    PROVE  Nearer(run[w], run'[w])
  <1> DEFINE r == run[w]
  <1>1. /\ r \in Run /\ InProgress(r) /\ r.todo # <<>>
        /\ run \in [Workflows -> Run]
    BY OpenRun, StepCases DEF RunsInv
  <1>2. ASSUME NEW q, Become(w, q)
        PROVE  run'[w] = q
    BY <1>1, <1>2 DEF Become
  <1>3. CASE ~r.half /\ Become(w, [run[w] EXCEPT !.half = TRUE])
    <2>1. run'[w] = [r EXCEPT !.half = TRUE]
      BY <1>2, <1>3
    <2>2. /\ run'[w].status = r.status /\ run'[w].todo = r.todo
          /\ run'[w].attempt = r.attempt /\ run'[w].half
      BY <1>1, <2>1 DEF Run
    <2> QED
      BY <1>3, <2>2 DEF Nearer
  <1>4. CASE Become(w, Fail(w, run[w]))
    BY <1>1, <1>2, <1>4, FailNearer
  <1>5. CASE Become(w, Advance(run[w], GainOf(Head(run[w].todo))))
    BY <1>1, <1>2, <1>5, AdvanceNearer
  <1> QED
    BY <1>3, <1>4, <1>5, StepCases

LEMMA OthersStand ==
    ASSUME RunsInv, NEW v \in Workflows, Step(v), NEW w \in Workflows \ {v}
    PROVE  Stands(w)
  <1>1. run[w] \in Run /\ run \in [Workflows -> Run]
    BY DEF RunsInv
  <1>2. run'[w] = run[w]
    BY <1>1, StepCases DEF Become
  <1> QED
    BY <1>1, <1>2, LonelyStands

\* A restart costs an open run at most the attempt it was in the middle of.
LEMMA RestartAdvances ==
    ASSUME RunsInv, Restart, NEW w \in Workflows, Open(w)
    PROVE  Stands(w) \/ Nearer(run[w], run'[w])
  <1> DEFINE q == [run[w] EXCEPT !.alone = FALSE]
  <1>1. run[w] \in Run /\ InProgress(run[w]) /\ run[w].todo # <<>>
    BY OpenRun
  <1>2. run'[w] = IF q.half THEN Fail(w, q) ELSE q
    BY DEF Restart
  <1>3. /\ q \in Run /\ q.status = run[w].status /\ q.todo = run[w].todo
        /\ q.attempt = run[w].attempt /\ q.half = run[w].half
    BY <1>1 DEF Run
  <1>4. CASE q.half
    <2> HIDE DEF q
    <2>1. Nearer(q, Fail(w, q))
      BY <1>1, <1>3, FailNearer DEF InProgress
    <2>2. Nearer(run[w], Fail(w, q))
      BY <1>3, <2>1 DEF Nearer
    <2> QED
      BY <1>2, <1>4, <2>2
  <1>5. CASE ~q.half
    BY <1>1, <1>2, <1>5, LonelyStands
  <1> QED
    BY <1>4, <1>5

\* Every step of a run brings it nearer to its end, and every failure,
\* restart and step of another run brings it nearer or leaves it where it is:
\* what a run can still do is finite under every retry policy
\* (workflow.go:92-121, session2_workflow.go:172-200).
THEOREM RunsOnlyAdvance == Spec => RunsAdvance
  <1> DEFINE Advances == \A w \in Workflows : Open(w) =>
                 \/ Nearer(run[w], run'[w])
                 \/ ~Step(w) /\ run'[w] = [run[w] EXCEPT !.alone = run'[w].alone]
  <1>1. RunsInv /\ [Next]_vars =>
          \A w \in Workflows : Open(w) => Stands(w) \/ Nearer(run[w], run'[w])
    <2> SUFFICES ASSUME RunsInv, [Next]_vars, NEW w \in Workflows, Open(w)
                 PROVE  Stands(w) \/ Nearer(run[w], run'[w])
      OBVIOUS
    <2>1. run[w] \in Run
      BY OpenRun
    <2>2. ASSUME NEW v \in Workflows, Step(v)
          PROVE  Stands(w) \/ Nearer(run[w], run'[w])
      BY <2>2, StepNearer, OthersStand
    <2>3. CASE UNCHANGED run
      BY <2>1, <2>3, LonelyStands
    <2>4. ASSUME NEW v \in Workflows, NEW STATE alone, Start(v, alone)
          PROVE  Stands(w)
      <3>1. run'[w] = [run[w] EXCEPT !.alone = FALSE]
        BY <2>4 DEF Start
      <3> QED
        BY <2>1, <3>1, LonelyStands
    <2>5. CASE API
      <3>1. "provision" \in Workflows
        BY DEF Workflows, Provisioning
      <3> QED
        BY <2>3, <2>4, <2>5, <3>1 DEF API, CreatePipeline, StartProvision, AttachProvision,
           StartFails, CorrectState, StartOperation
    <2>6. CASE ConnectorStarts \/ ConnectorFails \/ UNCHANGED vars
      BY <2>3, <2>6 DEF ConnectorStarts, ConnectorFails, vars
    <2>7. CASE Restart
      BY <2>7, RestartAdvances
    <2> QED
      BY <2>2, <2>5, <2>6, <2>7 DEF Next
  <1>2. RunsInv /\ [Next]_vars => [Advances]_vars
    BY <1>1, StepNearer DEF Stands
  <1> QED
    BY <1>2, PipelineInvariant, PTL DEF Spec, RunsAdvance

-----------------------------------------------------------------------------
(***************************************************************************)
(* Whose connector a run deletes.  A run claims the connector when it was  *)
(* told that it created it, or is between the two calls of its creation.   *)
(* Only the CDC provisioning ever does, and then the connector is its own  *)
(* or has been deleted by somebody else: nobody can have created another.  *)
(***************************************************************************)
Claims(r) ==
    /\ InProgress(r)
    /\ "connector" \in r.got \/ (r.half /\ Head(r.todo) = "CreateConnector")

NobodyElses == own \/ connector = "absent"

\* A list deletes the connector only for a decommissioning or a claim.
DeletionJust(w, r) ==
    \A i \in DOMAIN r.todo :
        r.todo[i] = "DeleteConnector" => w = "decommission" \/ "connector" \in r.got

OwnInv ==
    \A w \in Workflows :
        /\ DeletionJust(w, run[w])
        /\ Claims(run[w]) => w = "cdc" /\ NobodyElses

\* A compensation that was not told of a connector deletes none.
LEMMA UndoSpares ==
    ASSUME NEW got \in SUBSET Results, "connector" \notin got,
           NEW i \in DOMAIN Undo(got)
    PROVE  Undo(got)[i] # "DeleteConnector"
  <1> DEFINE B == UndoActivities \ {"DeleteConnector"}
             s2 == If("capture" \in got, "StopCapture")
             s3 == If("sink" \in got, "DeleteSink")
             s4 == If("stream" \in got, "DeleteStream")
             s5 == <<"MarkError">>
  <1>1. /\ s2 \in Seq(B) /\ s3 \in Seq(B) /\ s4 \in Seq(B) /\ s5 \in Seq(B)
    <2>1. {"StopCapture", "DeleteSink", "DeleteStream", "MarkError"} \subseteq B
      BY DEF UndoActivities
    <2> HIDE DEF B
    <2>2. ASSUME NEW condition, NEW activity \in B
          PROVE  If(condition, activity) \in Seq(B) /\ <<activity>> \in Seq(B)
      <3>1. <<activity>> \in Seq(B) /\ <<>> \in Seq(B)
        OBVIOUS
      <3> QED
        BY <3>1 DEF If
    <2> QED
      BY <2>1, <2>2
  <1>2. Undo(got) = <<>> \o s2 \o s3 \o s4 \o s5
    BY DEF Undo, If
  <1> HIDE DEF s2, s3, s4, s5
  <1>3. <<>> \o s2 \in Seq(B)
    BY <1>1
  <1>4. <<>> \o s2 \o s3 \in Seq(B)
    BY <1>1, <1>3
  <1>5. <<>> \o s2 \o s3 \o s4 \in Seq(B)
    BY <1>1, <1>4
  <1>6. Undo(got) \in Seq(B)
    BY <1>1, <1>2, <1>5
  <1> HIDE DEF B
  <1>7. Undo(got)[i] \in B
    BY <1>6
  <1> QED
    BY <1>7 DEF B

LEMMA StepsSpare ==
    ASSUME NEW w \in Workflows, w # "decommission", NEW i \in DOMAIN Steps[w]
    PROVE  Steps[w][i] # "DeleteConnector"
  <1>1. CASE w = "provision"
    BY <1>1 DEF Steps
  <1>2. CASE w = "cdc"
    BY <1>2 DEF Steps, ProvisionCDCSteps
  <1>3. CASE w = "pause"
    BY <1>3 DEF Steps, PauseSteps
  <1>4. CASE w = "resume"
    BY <1>4 DEF Steps, ResumeSteps
  <1> QED
    BY <1>1, <1>2, <1>3, <1>4 DEF Workflows, Provisioning

LEMMA AdvanceJust ==
    ASSUME NEW w, NEW r \in Run, r.todo # <<>>, DeletionJust(w, r), NEW gained
    PROVE  DeletionJust(w, Advance(r, gained))
  <1> DEFINE q == Advance(r, gained)
  <1>1. q.todo = Tail(r.todo) /\ q.got = r.got \cup gained /\ r.todo \in Seq(Activities)
    BY DEF Advance, Run
  <1> HIDE DEF q
  <1>2. DeletionJust(w, q)
    BY <1>1, HeadIsFirst DEF DeletionJust
  <1> QED
    BY <1>2 DEF q

\* A failed attempt adds no deletion without a claim, and no claim.
LEMMA FailJust ==
    ASSUME NEW w, NEW r \in Run, InProgress(r), r.todo # <<>>, DeletionJust(w, r)
    PROVE  /\ DeletionJust(w, Fail(w, r))
           /\ Claims(Fail(w, r)) => Claims(r)
  <1>1. CASE r.attempt + 1 < Attempts(Head(r.todo))
    <2> DEFINE q == [r EXCEPT !.attempt = @ + 1, !.half = FALSE]
    <2>1. Fail(w, r) = q
      BY <1>1 DEF Fail
    <2>2. q.todo = r.todo /\ q.got = r.got /\ ~q.half /\ q.status = r.status
      BY DEF Run
    <2> HIDE DEF q
    <2> QED
      BY <2>1, <2>2 DEF DeletionJust, Claims, InProgress
  <1>2. CASE ~(r.attempt + 1 < Attempts(Head(r.todo)))
    <2>1. Fail(w, r) = OnError(w, r)
      BY <1>2 DEF Fail
    <2>2. CASE r.status = "undoing"
      <3> DEFINE q == [r EXCEPT !.gaveUp = @ \cup ({Head(r.todo)} \cap Watched)]
      <3>1. q \in Run /\ q.todo = r.todo /\ q.got = r.got
        BY DEF Run
      <3>2. OnError(w, r) = Advance(q, {})
        BY <2>2 DEF OnError
      <3> HIDE DEF q
      <3>3. DeletionJust(w, Advance(q, {}))
        BY <3>1, AdvanceJust DEF DeletionJust
      <3>4. (Advance(q, {})).got = r.got /\ ~(Advance(q, {})).half
        BY <3>1 DEF Advance, Run
      <3> QED
        BY <2>1, <3>2, <3>3, <3>4 DEF Claims
    <2>3. CASE r.status = "forward" /\ Compensates(w, Head(r.todo))
      <3> DEFINE q == [r EXCEPT !.status = "undoing", !.todo = Undo(r.got),
                                !.attempt = 0, !.half = FALSE]
      <3>1. q.todo = Undo(r.got) /\ q.got = r.got /\ ~q.half /\ r.got \in SUBSET Results
        BY DEF Run
      <3>2. OnError(w, r) = q
        BY <2>3 DEF OnError
      <3> HIDE DEF q
      <3>3. DeletionJust(w, q)
        BY <3>1, UndoSpares DEF DeletionJust
      <3> QED
        BY <2>1, <3>1, <3>2, <3>3 DEF Claims
    <2>4. CASE r.status = "forward" /\ ~Compensates(w, Head(r.todo))
      <3> DEFINE q == [r EXCEPT !.status = "failed", !.todo = <<>>,
                                !.attempt = 0, !.half = FALSE]
      <3>1. q.todo = <<>> /\ q.status = "failed"
        BY DEF Run
      <3>2. OnError(w, r) = q
        BY <2>4 DEF OnError
      <3> HIDE DEF q
      <3> QED
        BY <2>1, <3>1, <3>2 DEF DeletionJust, Claims, InProgress
    <2> QED
      BY <2>2, <2>3, <2>4 DEF InProgress
  <1> QED
    BY <1>1, <1>2

\* The connector changes hands only when a CDC provisioning starts.
LEMMA StepKeepsHands ==
    ASSUME NEW w \in Workflows, Step(w)
    PROVE  NobodyElses => NobodyElses'
  <1> USE DEF NobodyElses, Unchanged, resources
  <1>1. CASE NoEffect(w) \/ StartCapture(w) \/ AttemptFails(w) \/ SeeRunning(w)
    BY <1>1 DEF NoEffect, StartCapture, AttemptFails, SeeRunning
  <1>2. CASE EnsureStream(w) \/ EnsureSink(w) \/ DeleteStream(w) \/ DeleteSink(w)
    BY <1>2 DEF EnsureStream, EnsureSink, DeleteStream, DeleteSink
  <1>3. CASE MarkState(w)
    BY <1>3 DEF MarkState, Mark
  <1>4. CASE CreateConnector(w) \/ CreateRecord(w) \/ DeleteConnector(w) \/ DeleteRecord(w)
    BY <1>4 DEF CreateConnector, CreateRecord, DeleteConnector, DeleteRecord
  <1>5. CASE PauseConnector(w) \/ ResumeConnector(w) \/ UpdateRecord(w)
    BY <1>5 DEF PauseConnector, ResumeConnector, UpdateRecord
  <1> QED
    BY <1>1, <1>2, <1>3, <1>4, <1>5 DEF Step

\* Past the first call of its creation, only a failure ends the attempt
\* without a claim.
LEMMA CreationClaims ==
    ASSUME NEW w \in Workflows, Step(w), Head(run[w].todo) = "CreateConnector"
    PROVE  CreateConnector(w) \/ AttemptFails(w) \/ run[w].half
  BY DEF Step, At, NoEffect, StartCapture, EnsureStream, EnsureSink, DeleteStream,
     DeleteSink, MarkState, Mark, CreateRecord, SeeRunning, PauseConnector,
     ResumeConnector, UpdateRecord, DeleteConnector, DeleteRecord

LEMMA OwnStep ==
    ASSUME RunsInv, OwnInv, NEW w \in Workflows, Step(w)
    PROVE  OwnInv'
  <1> DEFINE r == run[w]
  <1>1. /\ r \in Run /\ InProgress(r) /\ r.todo # <<>> /\ DeletionJust(w, r)
        /\ Claims(r) => w = "cdc" /\ NobodyElses
        /\ run \in [Workflows -> Run]
    BY OpenRun, StepCases DEF RunsInv, OwnInv
  <1>2. ASSUME NEW q, Become(w, q)
        PROVE  run'[w] = q /\ \A v \in Workflows \ {w} : run'[v] = run[v]
    BY <1>1, <1>2 DEF Become
  <1>3. NobodyElses => NobodyElses'
    BY StepKeepsHands
  <1>4. \A v \in Workflows \ {w} : run'[v] = run[v]
    BY <1>2, StepCases
  <1>5. /\ DeletionJust(w, run'[w])
        /\ Claims(run'[w]) => w = "cdc" /\ NobodyElses'
    <2>1. CASE Become(w, Fail(w, r))
      BY <1>1, <1>2, <1>3, <2>1, FailJust
    <2>2. CASE CreateConnector(w)
      <3>1. w = "cdc" /\ NobodyElses'
        BY <2>2, CreatorIsCDC DEF CreateConnector, NobodyElses
      <3>2. CASE Become(w, [run[w] EXCEPT !.half = TRUE])
        <4>1. run'[w].todo = r.todo /\ run'[w].got = r.got
          BY <1>1, <1>2, <3>2 DEF Run
        <4> QED
          BY <1>1, <3>1, <4>1 DEF DeletionJust
      <3> QED
        BY <2>1, <2>2, <3>1, <3>2 DEF CreateConnector, FirstCall
    <2>3. CASE AttemptFails(w)
      BY <2>1, <2>3 DEF AttemptFails
    <2>4. CASE ~CreateConnector(w) /\ ~AttemptFails(w)
      <3>1. Head(r.todo) = "CreateConnector" => Claims(r)
        BY <1>1, <2>4, CreationClaims DEF Claims
      <3>2. CASE Become(w, [run[w] EXCEPT !.half = TRUE])
        <4> DEFINE q == [run[w] EXCEPT !.half = TRUE]
        <4>1. q.todo = r.todo /\ q.got = r.got /\ q.status = r.status /\ run'[w] = q
          BY <1>1, <1>2, <3>2 DEF Run
        <4> HIDE DEF q
        <4>2. DeletionJust(w, q) /\ (Claims(q) => Claims(r))
          BY <1>1, <3>1, <4>1 DEF DeletionJust, Claims, InProgress
        <4> QED
          BY <1>1, <1>3, <4>1, <4>2
      <3>3. CASE Become(w, Advance(run[w], GainOf(Head(run[w].todo))))
        <4> DEFINE gained == GainOf(Head(run[w].todo))
                   q == Advance(run[w], gained)
        <4>1. "connector" \in gained => Head(r.todo) = "CreateConnector"
          BY Gains
        <4> HIDE DEF gained
        <4>2. DeletionJust(w, q)
          BY <1>1, AdvanceJust
        <4>3. q.got = r.got \cup gained /\ ~q.half
          BY <1>1 DEF Advance, Run
        <4>4. run'[w] = q
          BY <1>2, <3>3 DEF gained
        <4> HIDE DEF q
        <4>5. Claims(q) => Claims(r)
          BY <1>1, <3>1, <4>1, <4>3 DEF Claims
        <4> QED
          BY <1>1, <1>3, <4>2, <4>4, <4>5
      <3> QED
        BY <2>1, <3>2, <3>3, StepCases
    <2> QED
      BY <2>2, <2>3, <2>4
  <1> QED
    <2>1. ASSUME NEW v \in Workflows, v # w
          PROVE  /\ DeletionJust(v, run'[v])
                 /\ Claims(run'[v]) => v = "cdc" /\ NobodyElses'
      BY <1>3, <1>4, <2>1 DEF OwnInv
    <2> QED
      BY <1>5, <2>1 DEF OwnInv, DeletionJust, Claims, InProgress

LEMMA LonelyOwn ==
    ASSUME NEW w, NEW r \in Run, DeletionJust(w, r)
    PROVE  /\ DeletionJust(w, [r EXCEPT !.alone = FALSE])
           /\ Claims([r EXCEPT !.alone = FALSE]) => Claims(r)
  <1> DEFINE q == [r EXCEPT !.alone = FALSE]
  <1>1. q.todo = r.todo /\ q.got = r.got /\ q.status = r.status /\ q.half = r.half
    BY DEF Run
  <1> HIDE DEF q
  <1>2. DeletionJust(w, q) /\ (Claims(q) => Claims(r))
    BY <1>1 DEF DeletionJust, Claims, InProgress
  <1> QED
    BY <1>2 DEF q

\* No other workflow has a claim that a new CDC provisioning could void.
LEMMA StartOwn ==
    ASSUME RunsInv, OwnInv, NEW w \in Workflows, NEW STATE alone, Start(w, alone),
           UNCHANGED connector
    PROVE  OwnInv'
  <1>1. ASSUME NEW v \in Workflows
        PROVE  /\ DeletionJust(v, run'[v])
               /\ Claims(run'[v]) => v = "cdc" /\ NobodyElses'
    <2>1. CASE v = w
      <3> DEFINE q == [NoRun EXCEPT !.status = "forward", !.todo = Steps[w],
                                    !.alone = alone]
      <3>1. q.todo = Steps[w] /\ q.got = {} /\ ~q.half /\ run'[v] = q
        BY <2>1 DEF NoRun, Start
      <3> HIDE DEF q
      <3> QED
        BY <2>1, <3>1, StepsSpare DEF DeletionJust, Claims
    <2>2. CASE v # w
      <3>1. run[v] \in Run /\ run'[v] = [run[v] EXCEPT !.alone = FALSE]
        BY <2>2 DEF RunsInv, Start
      <3>2. DeletionJust(v, run'[v]) /\ (Claims(run'[v]) => Claims(run[v]))
        BY <3>1, LonelyOwn DEF OwnInv
      <3>3. v = "cdc" => (NobodyElses => NobodyElses')
        BY <2>2 DEF Start, NobodyElses
      <3> QED
        BY <3>2, <3>3 DEF OwnInv
    <2> QED
      BY <2>1, <2>2
  <1> QED
    BY <1>1 DEF OwnInv, DeletionJust, Claims, InProgress

LEMMA OwnGoes == RunsInv /\ OwnInv /\ [Next]_vars => OwnInv'
  <1> SUFFICES ASSUME RunsInv, OwnInv, [Next]_vars
               PROVE  OwnInv'
    OBVIOUS
  <1>1. ASSUME UNCHANGED <<run, own>>, connector = "absent" => connector' = "absent"
        PROVE  OwnInv'
    BY <1>1 DEF OwnInv, DeletionJust, Claims, InProgress, NobodyElses
  <1>2. ASSUME NEW w \in Workflows, Step(w)
        PROVE  OwnInv'
    BY <1>2, OwnStep
  <1>3. CASE CreatePipeline \/ AttachProvision \/ StartFails \/ CorrectState
    BY <1>1, <1>3 DEF CreatePipeline, AttachProvision, StartFails, CorrectState, resources
  <1>4. CASE StartProvision
    <2>1. UNCHANGED connector /\ "provision" \in Workflows
      BY <1>4 DEF StartProvision, resources, Workflows, Provisioning
    <2> QED
      BY <1>4, <2>1, StartOwn DEF StartProvision
  <1>5. ASSUME NEW w \in Workflows, StartOperation(w)
        PROVE  OwnInv'
    BY <1>5, StartOwn DEF StartOperation, resources
  <1>6. CASE ConnectorStarts \/ ConnectorFails \/ UNCHANGED vars
    BY <1>1, <1>6 DEF ConnectorStarts, ConnectorFails, vars, resources
  <1>7. CASE Restart
    <2>1. UNCHANGED <<connector, own>>
      BY <1>7 DEF Restart
    <2>2. ASSUME NEW w \in Workflows
          PROVE  DeletionJust(w, run'[w]) /\ (Claims(run'[w]) => Claims(run[w]))
      <3> DEFINE q == [run[w] EXCEPT !.alone = FALSE]
      <3>1. run[w] \in Run /\ TodoInv(w, run[w])
        BY DEF RunsInv, RunInv
      <3>2. DeletionJust(w, q) /\ (Claims(q) => Claims(run[w]))
        BY <3>1, LonelyOwn DEF OwnInv
      <3>3. run'[w] = IF Open(w) /\ q.half THEN Fail(w, q) ELSE q
        BY <1>7 DEF Restart
      <3>4. q \in Run /\ q.status = run[w].status /\ q.todo = run[w].todo
        BY <3>1 DEF Run
      <3>5. Open(w) => InProgress(q) /\ q.todo # <<>>
        BY <3>1, <3>4 DEF Open, InProgress, TodoInv
      <3> HIDE DEF q
      <3>6. Open(w) => DeletionJust(w, Fail(w, q)) /\ (Claims(Fail(w, q)) => Claims(q))
        BY <3>2, <3>4, <3>5, FailJust
      <3> QED
        BY <3>2, <3>3, <3>6
    <2> QED
      BY <2>1, <2>2 DEF OwnInv, DeletionJust, Claims, InProgress, NobodyElses
  <1> QED
    BY <1>2, <1>3, <1>4, <1>5, <1>6, <1>7 DEF Next, API

\* Only a deletion takes the connector away, and it is a decommissioning's
\* or that of a run with a claim to it.
LEMMA DeletionsJust ==
    ASSUME RunsInv, OwnInv, [Next]_vars, connector # "absent", connector' = "absent"
    PROVE  own \/ At("decommission", "DeleteConnector")
  <1>1. CASE API \/ ConnectorStarts \/ ConnectorFails \/ Restart \/ UNCHANGED vars
    BY <1>1 DEF API, CreatePipeline, StartProvision, AttachProvision, StartFails,
       CorrectState, StartOperation, ConnectorStarts, ConnectorFails, Restart, vars,
       resources
  <1>2. ASSUME NEW w \in Workflows, Step(w)
        PROVE  own \/ At("decommission", "DeleteConnector")
    <2>1. DeleteConnector(w)
      <3> USE DEF Unchanged, resources
      <3>1. ~(NoEffect(w) \/ StartCapture(w) \/ AttemptFails(w) \/ SeeRunning(w))
        BY DEF NoEffect, StartCapture, AttemptFails, SeeRunning
      <3>2. ~(EnsureStream(w) \/ EnsureSink(w) \/ DeleteStream(w) \/ DeleteSink(w))
        BY DEF EnsureStream, EnsureSink, DeleteStream, DeleteSink
      <3>3. ~(MarkState(w) \/ CreateConnector(w) \/ CreateRecord(w) \/ DeleteRecord(w))
        BY DEF MarkState, Mark, CreateConnector, CreateRecord, DeleteRecord
      <3>4. ~(PauseConnector(w) \/ ResumeConnector(w) \/ UpdateRecord(w))
        BY DEF PauseConnector, ResumeConnector, UpdateRecord
      <3> QED
        BY <1>2, <3>1, <3>2, <3>3, <3>4 DEF Step
    <2>2. At(w, "DeleteConnector")
      BY <2>1 DEF DeleteConnector
    <2>3. run[w] \in Run /\ InProgress(run[w]) /\ run[w].todo # <<>>
      BY <2>2, OpenRun DEF At
    <2>4. 1 \in DOMAIN run[w].todo /\ run[w].todo[1] = "DeleteConnector"
      BY <2>2, <2>3, HeadIsFirst DEF At, Run
    <2>5. w = "decommission" \/ Claims(run[w])
      BY <2>3, <2>4 DEF OwnInv, DeletionJust, Claims
    <2> QED
      BY <2>2, <2>5 DEF OwnInv, NobodyElses
  <1> QED
    BY <1>1, <1>2 DEF Next

\* A connector that the newest CDC provisioning run did not create goes away
\* by a decommissioning only, whatever is lost, repeated, overlaps or
\* restarts: no compensation deletes the connector of an earlier run
\* (session2_activities.go:50, session2_workflow.go:67 and 187-190).
THEOREM OthersConnectorsKept == Spec => OthersConnectorKept
  <1> DEFINE Just == connector # "absent" /\ connector' = "absent"
                       => own \/ At("decommission", "DeleteConnector")
  <1>1. Init => OwnInv
    <2>1. ASSUME Init, NEW w \in Workflows
          PROVE  run[w] = NoRun
      BY <2>1 DEF Init
    <2>2. NoRun.todo = <<>> /\ NoRun.status = "none"
      BY DEF NoRun
    <2>3. \A w : DeletionJust(w, NoRun) /\ ~Claims(NoRun)
      BY <2>2 DEF DeletionJust, Claims, InProgress
    <2> QED
      BY <2>1, <2>3 DEF OwnInv
  <1>2. RunsInv /\ OwnInv /\ [Next]_vars => OwnInv' /\ [Just]_vars
    BY OwnGoes, DeletionsJust
  <1> QED
    BY <1>1, <1>2, PipelineInvariant, PTL DEF Spec, OthersConnectorKept

-----------------------------------------------------------------------------
(***************************************************************************)
(* What ProvisioningSaga promises, carried over to the workflows.          *)
(***************************************************************************)
Settled(w) ==
    /\ run[w].status = "completed" => run[w].got = Resources[w]
    /\ run[w].status = "undoing" => run[w].got \subseteq Resources[w]
    /\ run[w].status = "failed" => run[w].got \subseteq Resources[w] /\ ToUndo(run[w]) = {}

\* Its inductive form: what is known is needed, what is to undo is known.
KnownNeeded(r, needed) ==
    /\ r.got \subseteq needed
    /\ r.status = "completed" => r.got = needed
    /\ r.status # "undoing" => ToUndo(r) = {}

LEMMA ProvisionSagaPromises ==
    ProvisionSaga!Spec => []KnownNeeded(run["provision"], Resources["provision"])
  <1> DEFINE Known == KnownNeeded(run["provision"], Resources["provision"])
  <1> USE DEF KnownNeeded
  <1>1. ProvisionSaga!Init => Known
    BY DEF ProvisionSaga!Init
  <1>2. Known /\ [ProvisionSaga!Next]_(ProvisionSaga!vars) => Known'
    BY DEF ProvisionSaga!Next, ProvisionSaga!vars, ProvisionSaga!Begin,
       ProvisionSaga!Acquire, ProvisionSaga!Succeed, ProvisionSaga!Refuse,
       ProvisionSaga!Abort, ProvisionSaga!Undo, ProvisionSaga!Fail
  <1> QED
    BY <1>1, <1>2, PTL DEF ProvisionSaga!Spec

LEMMA CDCSagaPromises == CDCSaga!Spec => []KnownNeeded(run["cdc"], Resources["cdc"])
  <1> DEFINE Known == KnownNeeded(run["cdc"], Resources["cdc"])
  <1> USE DEF KnownNeeded
  <1>1. CDCSaga!Init => Known
    BY DEF CDCSaga!Init
  <1>2. Known /\ [CDCSaga!Next]_(CDCSaga!vars) => Known'
    BY DEF CDCSaga!Next, CDCSaga!vars, CDCSaga!Begin,
       CDCSaga!Acquire, CDCSaga!Succeed, CDCSaga!Refuse,
       CDCSaga!Abort, CDCSaga!Undo, CDCSaga!Fail
  <1> QED
    BY <1>1, <1>2, PTL DEF CDCSaga!Spec

\* A provisioning workflow that completed was told of every resource it
\* needs, and no failed one has stopped short of a resource it was told of
\* (workflow.go:92-121, session2_workflow.go:172-200).
THEOREM SagasSettle == Spec => [](\A w \in Provisioning : Settled(w))
  <1>1. /\ KnownNeeded(run["provision"], Resources["provision"])
        /\ KnownNeeded(run["cdc"], Resources["cdc"])
        => \A w \in Provisioning : Settled(w)
    BY DEF KnownNeeded, Settled, Provisioning
  <1> QED
    BY <1>1, RefinesSaga, ProvisionSagaPromises, CDCSagaPromises, PTL DEF ImplementsSaga
=============================================================================
