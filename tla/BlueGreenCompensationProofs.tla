-------------------- MODULE BlueGreenCompensationProofs --------------------
(***************************************************************************)
(* What compensate and the read-only window of BlueGreenDeployment come    *)
(* to, for every plan, retry policy and signal history: the flag stays     *)
(* within the cutover phase, an overlong window is undone, and a rollback  *)
(* takes away what the expand SQL had added.  And that a run gets there:   *)
(* it only moves forward, misses no signal at a gate, and leaves no        *)
(* attempt of its own behind but those that were timed out.                *)
(***************************************************************************)
EXTENDS BlueGreenDeploymentProofs

\* The timer runs beside the switch alone, and until the switch is made
\* neither its flag nor its failure is recorded.
WindowInv ==
    /\ timer = "armed" => pc = "SwitchTraffic"
    /\ pc \in {"AcquireReadOnly", "SwitchTraffic"} =>
         ~switched /\ "SwitchTraffic" \notin gaveUp
    /\ "SwitchTraffic" \in gaveUp => ~switched
    /\ OverlongWindowUndone

\* The release of a compensation that came to the rollback SQL is done or
\* given up.
ReadOnlyInv ==
    /\ readOnly /\ pc = "ExecuteRollback" => "CompReleaseReadOnly" \in gaveUp
    /\ ReadOnlyConfined

Window == WindowInv /\ ReadOnlyInv

-----------------------------------------------------------------------------
(***************************************************************************)
(* Passing a gate, compensating, and an attempt that fails.                *)
(***************************************************************************)
LEMMA PassWindow ==
    ASSUME TrafficInv, Window, phase \in Gates, pc \in {"Select", "Blocked"},
           NEW STATE p, Pass(p), UNCHANGED <<timer, switched, gaveUp, readOnly>>
    PROVE  Window'
  <1>1. timer # "armed" /\ timer # "fired" /\ "SwitchTraffic" \notin gaveUp
    BY DEF Window, WindowInv, OverlongWindowUndone, Gates
  <1>2. /\ pc' \notin {"SwitchTraffic", "ExecuteRollback"}
        /\ phase' # "rolled_back"
        /\ pc' = "AcquireReadOnly" => phase = "expand_verify"
    BY BehindGates DEF Pass, Enter, Goto, Gates
  <1>3. phase = "expand_verify" => ~switched
    BY DEF TrafficInv
  <1>4. WindowInv'
    BY <1>1, <1>2, <1>3 DEF WindowInv, OverlongWindowUndone
  <1>5. ReadOnlyInv'
    BY <1>2 DEF Window, ReadOnlyInv, ReadOnlyConfined, Gates
  <1>6. QED
    BY <1>4, <1>5 DEF Window

LEMMA CompensateWindow ==
    ASSUME Window, Compensate, pc # "SwitchTraffic", UNCHANGED <<timer, switched>>,
           gaveUp' = gaveUp \/ gaveUp' = gaveUp \cup {pc},
           readOnly' => readOnly \/ phase = "cutover"
    PROVE  Window'
  <1>1. pc' = "CompReleaseReadOnly" /\ phase' = phase
    BY DEF Compensate, Goto
  <1>2. "SwitchTraffic" \in gaveUp' <=> "SwitchTraffic" \in gaveUp
    OBVIOUS
  <1>3. gaveUp \subseteq gaveUp'
    OBVIOUS
  <1>4. WindowInv'
    BY <1>1, <1>2 DEF Window, WindowInv, OverlongWindowUndone
  <1>5. ReadOnlyInv'
    BY <1>1, <1>3 DEF Window, ReadOnlyInv, ReadOnlyConfined
  <1>6. QED
    BY <1>4, <1>5 DEF Window

\* A terminal phase other than rolled_back is never entered from the window.
LEMMA FinishWindow ==
    ASSUME PlaceInv, Window, NEW p \in Terminal, Finish(p),
           p = "rolled_back" => pc = "ExecuteRollback",
           p # "rolled_back" =>
             pc \in {"ValidatePlan", "ExecuteContract", "VerifyContract"},
           UNCHANGED <<timer, switched, readOnly>>,
           gaveUp' = gaveUp \/ gaveUp' = gaveUp \cup {pc}
    PROVE  Window'
  <1>1. pc' = "NotifyParent" /\ phase' = p
    BY DEF Finish, Enter, Goto
  <1>2. "SwitchTraffic" \in gaveUp' <=> "SwitchTraffic" \in gaveUp
    BY DEF Terminal
  <1>3. gaveUp \subseteq gaveUp'
    OBVIOUS
  <1>4. CASE p = "rolled_back"
    BY <1>1, <1>2, <1>3, <1>4
       DEF Window, WindowInv, OverlongWindowUndone, ReadOnlyInv, ReadOnlyConfined
  <1>5. CASE p # "rolled_back"
    <2>1. phase \in {"plan_review", "contracting"}
      BY <1>5 DEF PlaceInv
    <2>2. QED
      BY <1>1, <1>2, <1>3, <1>5, <2>1
         DEF Window, WindowInv, OverlongWindowUndone, ReadOnlyInv, ReadOnlyConfined
  <1>6. QED
    BY <1>4, <1>5

LEMMA AttemptFailsWindow ==
    ASSUME PlaceInv, Window, pc \in Activities, AttemptFails, UNCHANGED switched,
           readOnly' => readOnly \/ pc = "AcquireReadOnly",
           readOnly' = readOnly \/
             pc \in {"AcquireReadOnly", "ReleaseReadOnly", "CompReleaseReadOnly"}
    PROVE  Window'
  <1>1. CASE attempt + 1 < MaxAttempts(pc)
    BY <1>1 DEF AttemptFails, PlaceInv, Window, WindowInv, OverlongWindowUndone,
                ReadOnlyInv, ReadOnlyConfined
  <1>2. CASE ~(attempt + 1 < MaxAttempts(pc))
    <2>1. OnError /\ gaveUp' = gaveUp \cup {pc}
      BY <1>2 DEF AttemptFails
    <2>2. pc # "SwitchTraffic" => timer' = timer
      BY <1>2 DEF AttemptFails
    <2>3. CASE pc = "SwitchTraffic"
      <3>1. timer' # "armed" /\ (timer' = "fired" => timer = "fired")
        BY <1>2, <2>3 DEF AttemptFails, CancelTimer
      <3>2. pc' = "ReleaseReadOnly" /\ phase = "cutover" /\ phase' = "cutover"
        BY <2>1, <2>3 DEF OnError, Goto, PlaceInv
      <3>3. QED
        BY <2>1, <2>3, <3>1, <3>2
           DEF Window, WindowInv, OverlongWindowUndone, ReadOnlyInv, ReadOnlyConfined
    <2>4. CASE pc = "ReleaseReadOnly"
      <3>1. CASE Compensate
        BY <2>1, <2>2, <2>4, <3>1, CompensateWindow
      <3>2. CASE timer # "fired" /\ switched /\ Enter("monitoring", "Select")
        BY <2>1, <2>2, <2>4, <3>2
           DEF Enter, Goto, Window, WindowInv, OverlongWindowUndone,
               ReadOnlyInv, ReadOnlyConfined
      <3>3. QED
        BY <2>1, <2>4, <3>1, <3>2 DEF OnError, AfterWindow
    <2>5. CASE pc = "CompReleaseReadOnly"
      <3>1. pc' = "ExecuteRollback" /\ phase' = phase /\ phase # "rolled_back"
        BY <2>1, <2>5 DEF OnError, Goto, PlaceInv, PreContract
      <3>2. QED
        BY <2>1, <2>2, <2>5, <3>1
           DEF Window, WindowInv, OverlongWindowUndone, ReadOnlyInv, ReadOnlyConfined
    <2>6. CASE Compensate /\ pc # "SwitchTraffic"
      BY <2>1, <2>2, <2>6, CompensateWindow DEF PlaceInv
    <2>7. CASE \/ pc = "ValidatePlan" /\ Finish("failed")
               \/ pc = "ExecuteContract" /\ Finish("failed")
               \/ pc = "VerifyContract" /\ Finish("complete")
               \/ pc = "ExecuteRollback" /\ Finish("rolled_back")
      BY <2>1, <2>2, <2>7, FinishWindow DEF Terminal
    <2>8. QED
      BY <2>1, <2>3, <2>4, <2>5, <2>6, <2>7 DEF OnError
  <1>3. QED
    BY <1>1, <1>2

-----------------------------------------------------------------------------
LEMMA WindowStep ==
    TypeOK /\ PlaceInv /\ TrafficInv /\ Window /\ [Next]_vars => Window'
  <1> SUFFICES ASSUME TypeOK, PlaceInv, TrafficInv, Window, [Next]_vars
               PROVE  Window'
    OBVIOUS
  <1> USE DEF wfVars, dbVars, histVars, Quiet
  <1> DEFINE Same == UNCHANGED <<timer, switched, gaveUp, readOnly>>
  <1>1. ASSUME Same, UNCHANGED <<pc, phase>>
        PROVE  Window'
    BY <1>1 DEF Window, WindowInv, OverlongWindowUndone, ReadOnlyInv, ReadOnlyConfined
  \* Places outside the window, within a phase or from one to the next.
  <1>2. ASSUME Same, pc # "SwitchTraffic",
               pc' \notin {"AcquireReadOnly", "SwitchTraffic", "ExecuteRollback"},
               phase' = phase \/ (phase \in {"pending", "expanding"}
                                    /\ phase' \in {"plan_review", "expand_verify"})
        PROVE  Window'
    BY <1>2 DEF Window, WindowInv, OverlongWindowUndone, ReadOnlyInv, ReadOnlyConfined
  <1>3. CASE Gate
    <2>1. CASE SelectApprove
      BY <2>1, PassWindow DEF SelectApprove, PlaceInv
    <2>2. CASE SelectRollback
      BY <2>2, CompensateWindow DEF SelectRollback
    <2>3. CASE SelectBlocks
      BY <1>2, <2>3 DEF SelectBlocks
    <2>4. QED
      BY <1>3, <2>1, <2>2, <2>3 DEF Gate
  <1>4. CASE Human
    <2>1. CASE ApproveAtGate
      BY <2>1, PassWindow DEF ApproveAtGate, PlaceInv
    <2>2. CASE RollbackAtGate
      BY <2>2, CompensateWindow DEF RollbackAtGate
    <2>3. CASE ApproveBuffered \/ RollbackBuffered
      BY <1>1, <2>3 DEF ApproveBuffered, RollbackBuffered
    <2>4. QED
      BY <1>4, <2>1, <2>2, <2>3 DEF Human
  <1>5. CASE QuickActivity
    <2>1. CASE QuickAttemptFails
      <3>1. /\ readOnly' => readOnly \/ pc = "AcquireReadOnly"
            /\ readOnly' = readOnly \/
                 pc \in {"AcquireReadOnly", "ReleaseReadOnly", "CompReleaseReadOnly"}
        BY <2>1 DEF QuickAttemptFails
      <3>2. QED
        BY <2>1, <3>1, AttemptFailsWindow, NameSets DEF QuickAttemptFails
    <2>2. CASE ValidatePlan \/ VerifyExpand \/ CompatAfterExpand
      BY <1>2, <2>2 DEF ValidatePlan, VerifyExpand, CompatAfterExpand, Goto
    <2>3. CASE AcquireReadOnly
      BY <2>3 DEF AcquireReadOnly, Goto, PlaceInv, Window, WindowInv,
                  OverlongWindowUndone, ReadOnlyInv, ReadOnlyConfined
    <2>4. CASE SwitchTraffic
      BY <2>4 DEF SwitchTraffic, CancelTimer, Goto, PlaceInv, Window, WindowInv,
                  OverlongWindowUndone, ReadOnlyInv, ReadOnlyConfined
    <2>5. CASE ReleaseReadOnly
      <3>1. CASE Compensate
        BY <2>5, <3>1, CompensateWindow DEF ReleaseReadOnly
      <3>2. CASE timer # "fired" /\ switched /\ Enter("monitoring", "Select")
        BY <2>5, <3>2
           DEF ReleaseReadOnly, Enter, Goto, Window, WindowInv, OverlongWindowUndone,
               ReadOnlyInv, ReadOnlyConfined
      <3>3. QED
        BY <2>5, <3>1, <3>2 DEF ReleaseReadOnly, AfterWindow
    <2>6. CASE CompatBeforeContract
      <3>1. CASE Compensate
        BY <2>6, <3>1, CompensateWindow DEF CompatBeforeContract
      <3>2. CASE Goto("Select") /\ UNCHANGED phase
        BY <1>2, <2>6, <3>2 DEF CompatBeforeContract, Goto
      <3>3. QED
        BY <2>6, <3>1, <3>2 DEF CompatBeforeContract
    <2>7. CASE VerifyContract
      BY <2>7, FinishWindow DEF VerifyContract, Terminal
    <2>8. CASE CompReleaseReadOnly
      BY <2>8 DEF CompReleaseReadOnly, Goto, Window, WindowInv,
                  OverlongWindowUndone, ReadOnlyInv, ReadOnlyConfined
    <2>9. QED
      BY <1>5, <2>1, <2>2, <2>3, <2>4, <2>5, <2>6, <2>7, <2>8 DEF QuickActivity
  <1>6. CASE DDLActivity
    <2>1. CASE Dispatch
      BY <1>1, <2>1 DEF Dispatch
    <2>2. CASE AttemptTimesOut
      BY <2>2, AttemptFailsWindow, NameSets DEF AttemptTimesOut
    <2>3. ASSUME NEW j \in jobs, RunStatement(j) \/ (StatementFails(j) /\ ~IsCurrent(j))
          PROVE  Window'
      BY <1>1, <2>3 DEF RunStatement, StatementFails
    <2>4. ASSUME NEW j \in jobs, StatementFails(j), IsCurrent(j)
          PROVE  Window'
      BY <2>4, AttemptFailsWindow, NameSets DEF StatementFails, IsCurrent, TypeOK, Job
    <2>5. ASSUME NEW j \in jobs, JobReturns(j)
          PROVE  Window'
      <3>1. CASE UNCHANGED <<pc, phase>>
        BY <1>1, <2>5, <3>1 DEF JobReturns
      <3>2. CASE pc = "ExecuteExpand" /\ Enter("expand_verify", "VerifyExpand")
        BY <1>2, <2>5, <3>2 DEF JobReturns, Enter, Goto, PlaceInv
      <3>3. CASE pc = "ExecuteContract" /\ Goto("VerifyContract") /\ UNCHANGED phase
        BY <1>2, <2>5, <3>3 DEF JobReturns, Goto
      <3>4. CASE pc = "ExecuteRollback" /\ Finish("rolled_back")
        BY <2>5, <3>4, FinishWindow DEF JobReturns, Terminal
      <3>5. QED
        BY <2>5, <3>1, <3>2, <3>3, <3>4 DEF JobReturns
    <2>6. QED
      BY <1>6, <2>1, <2>2, <2>3, <2>4, <2>5 DEF DDLActivity
  <1>7. CASE StartWorkflow
    BY <1>2, <1>7 DEF StartWorkflow, Enter, Goto, PlaceInv
  <1>8. CASE NotifyParent \/ Return
    BY <1>2, <1>8 DEF NotifyParent, Return
  <1>9. CASE WindowTimerFires
    BY <1>9 DEF WindowTimerFires, PlaceInv, Window, WindowInv, OverlongWindowUndone,
                ReadOnlyInv, ReadOnlyConfined
  <1>10. CASE WorkerCrash
    BY <1>1, <1>10 DEF WorkerCrash
  <1>11. CASE UNCHANGED vars
    BY <1>1, <1>11 DEF vars
  <1>12. QED
    BY <1>3, <1>4, <1>5, <1>6, <1>7, <1>8, <1>9, <1>10, <1>11 DEF Next, Progress

LEMMA WindowInvariant == Spec => []Window
  <1>1. Init => Window
    BY DEF Init, Window, WindowInv, OverlongWindowUndone, ReadOnlyInv, ReadOnlyConfined
  <1>2. IInv /\ Window /\ [Next]_vars => Window'
    BY WindowStep DEF IInv
  <1>3. QED
    BY <1>1, <1>2, InductiveInvariant, PTL DEF Spec

\* Outside the cutover phase the flag is set only when a release ran out of
\* attempts, for every retry policy and wherever the run compensates from
\* (workflow.go:145-146 and 230-231).
THEOREM ReadOnlyStaysConfined == Spec => []ReadOnlyConfined
  <1>1. Window => ReadOnlyConfined
    BY DEF Window, ReadOnlyInv
  <1>2. QED
    BY <1>1, WindowInvariant, PTL

\* However the timer races with the switch and the release, a window that
\* it ended, and a switch that failed, leads to rolled_back
\* (workflow.go:204-239).
THEOREM OverlongWindowsUndone == Spec => []OverlongWindowUndone
  <1>1. Window => OverlongWindowUndone
    BY DEF Window, WindowInv
  <1>2. QED
    BY <1>1, WindowInvariant, PTL
-----------------------------------------------------------------------------
(***************************************************************************)
(* The columns a rollback owes.  A plan may be written so that a rollback  *)
(* statement adds what an earlier one dropped; such a plan restores        *)
(* nothing and is left out by NoReAdd.                                     *)
(***************************************************************************)
Owed == Added(ExpandSQL) \cap Dropped(RollbackSQL)

NoReAdd == Added(RollbackSQL) \cap Owed = {}

\* Unless an expand attempt outlived its timeout, the worker executes the
\* one the server waits for, and no other.
ExpandJobsInv ==
    "ExecuteExpand" \notin timedOut =>
        \A j \in jobs : j.act = "ExecuteExpand" =>
            IsCurrent(j) /\ \A k \in jobs : k.act = "ExecuteExpand" => k = j

\* A rollback attempt has removed what the statements behind it drop.
RollbackJobsInv ==
    "ExecuteExpand" \notin timedOut =>
        \A j \in jobs : j.act = "ExecuteRollback" =>
            \A i \in DOMAIN RollbackSQL :
                i < j.next /\ RollbackSQL[i].op = "drop"
                  => RollbackSQL[i].cols \cap Owed \cap columns = {}

RollbackInv == ExpandJobsInv /\ RollbackJobsInv /\ RolledBackUndone

LEMMA NoExpandJobs ==
    ASSUME ExpandJobsInv, "ExecuteExpand" \notin timedOut,
           ~running \/ pc # "ExecuteExpand"
    PROVE  \A j \in jobs : j.act # "ExecuteExpand"
  BY DEF ExpandJobsInv, IsCurrent

LEMMA HistoryGrows == [Next]_vars => gaveUp \subseteq gaveUp' /\ timedOut \subseteq timedOut'
  <1> SUFFICES ASSUME [Next]_vars
               PROVE  gaveUp \subseteq gaveUp' /\ timedOut \subseteq timedOut'
    OBVIOUS
  <1> USE DEF histVars, Quiet
  <1>1. AttemptFails => gaveUp \subseteq gaveUp'
    BY DEF AttemptFails
  <1>2. CASE Gate \/ Human \/ StartWorkflow \/ NotifyParent \/ Return
               \/ WindowTimerFires \/ WorkerCrash \/ UNCHANGED vars
    BY <1>2 DEF Gate, Human, SelectApprove, SelectRollback, SelectBlocks, ApproveAtGate,
                RollbackAtGate, ApproveBuffered, RollbackBuffered, StartWorkflow,
                NotifyParent, Return, WindowTimerFires, WorkerCrash, vars
  <1>3. CASE QuickActivity
    BY <1>1, <1>3 DEF QuickActivity, QuickAttemptFails, ValidatePlan, VerifyExpand,
                CompatAfterExpand, AcquireReadOnly, SwitchTraffic, ReleaseReadOnly,
                CompatBeforeContract, VerifyContract, CompReleaseReadOnly
  <1>4. CASE DDLActivity
    BY <1>1, <1>4 DEF DDLActivity, Dispatch, AttemptTimesOut, RunStatement,
                      StatementFails, JobReturns
  <1>5. QED
    BY <1>2, <1>3, <1>4 DEF Next, Progress

(***************************************************************************)
(* One expand attempt at a time.                                           *)
(***************************************************************************)
LEMMA ExpandJobsStep ==
    TypeOK /\ PlaceInv /\ ExpandJobsInv /\ [Next]_vars => ExpandJobsInv'
  <1> SUFFICES ASSUME TypeOK, PlaceInv, ExpandJobsInv, [Next]_vars,
                      "ExecuteExpand" \notin timedOut'
               PROVE  ExpandJobsInv'
    BY DEF ExpandJobsInv
  <1> USE DEF wfVars
  <1>1. "ExecuteExpand" \notin timedOut
    BY HistoryGrows
  \* Nothing new, and the current attempt stays current.
  <1>2. ASSUME jobs' \subseteq jobs, UNCHANGED wfVars
        PROVE  ExpandJobsInv'
    BY <1>1, <1>2 DEF ExpandJobsInv, IsCurrent
  \* Nothing new where there is no expand attempt.
  <1>3. ASSUME jobs' \subseteq jobs, ~running \/ pc # "ExecuteExpand"
        PROVE  ExpandJobsInv'
    BY <1>1, <1>3, NoExpandJobs DEF ExpandJobsInv
  \* The current attempt ends, whatever it was.
  <1>4. ASSUME NEW j \in jobs, IsCurrent(j), jobs' = jobs \ {j}
        PROVE  ExpandJobsInv'
    <2>1. CASE j.act = "ExecuteExpand"
      BY <1>1, <1>4, <2>1 DEF ExpandJobsInv
    <2>2. CASE j.act # "ExecuteExpand"
      BY <1>3, <1>4, <2>2 DEF IsCurrent
    <2>3. QED
      BY <2>1, <2>2
  <1>5. CASE Gate \/ ApproveAtGate \/ RollbackAtGate \/ StartWorkflow
               \/ NotifyParent \/ Return
    BY <1>3, <1>5 DEF Gate, SelectApprove, SelectRollback, SelectBlocks, ApproveAtGate,
                      RollbackAtGate, StartWorkflow, NotifyParent, Return
  <1>6. CASE ApproveBuffered \/ RollbackBuffered \/ WindowTimerFires \/ WorkerCrash
               \/ UNCHANGED vars
    BY <1>2, <1>6 DEF ApproveBuffered, RollbackBuffered, WindowTimerFires,
                      WorkerCrash, Quiet, vars
  <1>7. CASE QuickActivity
    <2>1. pc # "ExecuteExpand" /\ jobs' = jobs
      BY <1>7 DEF QuickActivity, QuickAttemptFails, ValidatePlan, VerifyExpand,
                  CompatAfterExpand, AcquireReadOnly, SwitchTraffic, ReleaseReadOnly,
                  CompatBeforeContract, VerifyContract, CompReleaseReadOnly, Quiet, Quick
    <2>2. QED
      BY <1>3, <2>1
  <1>8. CASE Dispatch
    <2> DEFINE new == [act |-> pc, n |-> attempt, next |-> 1]
    <2>1. /\ ~running /\ jobs' = jobs \cup {new}
          /\ running' = TRUE /\ pc' = pc /\ attempt' = attempt
      BY <1>8 DEF Dispatch
    <2>2. \A j \in jobs : j.act # "ExecuteExpand"
      BY <1>1, <2>1, NoExpandJobs
    <2>3. new.act = pc /\ new.n = attempt
      OBVIOUS
    <2>4. QED
      BY <2>1, <2>2, <2>3 DEF ExpandJobsInv, IsCurrent
  <1>9. CASE AttemptTimesOut
    BY <1>3, <1>9 DEF AttemptTimesOut
  <1>10. ASSUME NEW j \in jobs, RunStatement(j)
         PROVE  ExpandJobsInv'
    <2> DEFINE new == [j EXCEPT !.next = @ + 1]
    <2>1. jobs' = (jobs \ {j}) \cup {new} /\ UNCHANGED wfVars
      BY <1>10 DEF RunStatement
    <2>2. new.act = j.act /\ new.n = j.n
      BY DEF TypeOK, Job
    <2>3. CASE j.act = "ExecuteExpand"
      <3>1. IsCurrent(j) /\ \A k \in jobs : k.act = "ExecuteExpand" => k = j
        BY <1>1, <2>3 DEF ExpandJobsInv
      <3>2. \A k \in jobs' : k.act = "ExecuteExpand" => k = new
        BY <2>1, <3>1
      <3>3. IsCurrent(new)'
        BY <2>1, <2>2, <3>1 DEF IsCurrent
      <3>4. QED
        BY <3>2, <3>3 DEF ExpandJobsInv
    <2>4. CASE j.act # "ExecuteExpand"
      <3>1. \A k \in jobs' : k.act = "ExecuteExpand" => k \in jobs
        BY <2>1, <2>2, <2>4
      <3>2. \A k \in jobs : IsCurrent(k)' <=> IsCurrent(k)
        BY <2>1 DEF IsCurrent
      <3>3. QED
        BY <1>1, <3>1, <3>2 DEF ExpandJobsInv
    <2>5. QED
      BY <2>3, <2>4
  <1>11. ASSUME NEW j \in jobs, StatementFails(j) \/ JobReturns(j)
         PROVE  ExpandJobsInv'
    <2>1. jobs' = jobs \ {j} /\ (~IsCurrent(j) => UNCHANGED wfVars)
      BY <1>11 DEF StatementFails, JobReturns
    <2>2. QED
      BY <1>2, <1>4, <2>1
  <1>12. QED
    BY <1>5, <1>6, <1>7, <1>8, <1>9, <1>10, <1>11
       DEF Next, Progress, Human, DDLActivity

(***************************************************************************)
(* The columns of a run that is undoing.                                   *)
(***************************************************************************)
\* Rollback statements give back nothing that is owed.
LEMMA ApplyRollback ==
    ASSUME NoReAdd, NEW cols \in SUBSET Columns, NEW i \in DOMAIN RollbackSQL
    PROVE  /\ Owed \cap Apply(RollbackSQL[i], cols) \subseteq cols
           /\ RollbackSQL[i].op = "drop" =>
                RollbackSQL[i].cols \cap Apply(RollbackSQL[i], cols) = {}
  <1>1. RollbackSQL[i].op = "add" => RollbackSQL[i].cols \subseteq Added(RollbackSQL)
    BY DEF Added
  <1>2. QED
    BY <1>1 DEF Apply, NoReAdd

LEMMA OwedShrinks ==
    ASSUME NoReAdd, TypeOK, PlaceInv, ClearedInv, JobsInv, ExpandJobsInv, Undoing,
           "ExecuteExpand" \notin timedOut, [Next]_vars
    PROVE  Owed \cap columns' \subseteq columns
  <1>1. ~Cleared /\ pc # "ExecuteExpand"
    BY DEF Undoing, PlaceInv, ClearedInv, PreContract, InContract, Terminal
  <1>2. ASSUME NEW j \in jobs, j.next <= Len(SQL[j.act]),
               columns' = Apply(SQL[j.act][j.next], columns)
        PROVE  Owed \cap columns' \subseteq columns
    <2>1. j \in Job /\ columns \in SUBSET Columns
      BY DEF TypeOK
    <2>2. j.act = "ExecuteRollback"
      BY <1>1, <2>1, NoExpandJobs DEF JobsInv, Job, DDL
    <2>3. SQL[j.act] = RollbackSQL /\ j.next \in DOMAIN RollbackSQL
      BY <1>2, <2>1, <2>2, StatementType DEF SQL
    <2>4. QED
      BY <1>2, <2>1, <2>3, ApplyRollback
  <1>3. CASE UNCHANGED columns
    BY <1>3
  <1>4. QED
    BY <1>2, <1>3, JobsStepCases

LEMMA RollbackJobsStep ==
    ASSUME NoReAdd, TypeOK, PlaceInv, ClearedInv, JobsInv, ExpandJobsInv,
           RollbackJobsInv, [Next]_vars
    PROVE  RollbackJobsInv'
  <1> SUFFICES ASSUME "ExecuteExpand" \notin timedOut',
                      NEW k \in jobs', k.act = "ExecuteRollback",
                      NEW i \in DOMAIN RollbackSQL,
                      i < k.next, RollbackSQL[i].op = "drop"
               PROVE  RollbackSQL[i].cols \cap Owed \cap columns' = {}
    BY DEF RollbackJobsInv
  <1>1. "ExecuteExpand" \notin timedOut
    BY HistoryGrows
  <1>2. Undoing => Owed \cap columns' \subseteq columns
    BY <1>1, OwedShrinks
  \* An attempt that was there, at the same statement or an earlier one.
  <1>3. ASSUME NEW j \in jobs, j.act = "ExecuteRollback", i < j.next
        PROVE  RollbackSQL[i].cols \cap Owed \cap columns' = {}
    <2>1. Undoing
      BY <1>3 DEF JobsInv
    <2>2. RollbackSQL[i].cols \cap Owed \cap columns = {}
      BY <1>1, <1>3 DEF RollbackJobsInv
    <2>3. QED
      BY <1>2, <2>1, <2>2
  <1>4. CASE jobs' \subseteq jobs
    BY <1>3, <1>4
  <1>5. CASE jobs' = jobs \cup {[act |-> pc, n |-> attempt, next |-> 1]}
    <2>1. k \in jobs \/ k.next = 1
      BY <1>5
    <2>2. ~(i < 1)
      BY PlanAssumption
    <2>3. QED
      BY <1>3, <2>1, <2>2
  <1>6. ASSUME NEW j \in jobs, j.next <= Len(SQL[j.act]),
               columns' = Apply(SQL[j.act][j.next], columns),
               jobs' = (jobs \ {j}) \cup {[j EXCEPT !.next = @ + 1]}
        PROVE  RollbackSQL[i].cols \cap Owed \cap columns' = {}
    <2>1. CASE k \in jobs
      BY <1>3, <2>1
    <2>2. CASE k = [j EXCEPT !.next = @ + 1]
      <3>1. j \in Job /\ columns \in SUBSET Columns
        BY DEF TypeOK
      <3>2. k.act = j.act /\ k.next = j.next + 1 /\ j.next \in Nat
        BY <2>2, <3>1 DEF Job
      <3>3. SQL[j.act] = RollbackSQL
        BY <3>2 DEF SQL
      <3>4. CASE i = j.next
        BY <1>6, <3>1, <3>3, <3>4, ApplyRollback
      <3>5. CASE i # j.next
        <4>1. i < j.next
          BY <3>2, <3>5, PlanAssumption
        <4>2. QED
          BY <1>3, <3>2, <4>1
      <3>6. QED
        BY <3>4, <3>5
    <2>3. QED
      BY <1>6, <2>1, <2>2
  <1>7. QED
    BY <1>4, <1>5, <1>6, JobsStepCases

\* How a run comes to be rolled back: its rollback SQL is done or given up.
RollsBack ==
    /\ pc = "ExecuteRollback"
    /\ \/ "ExecuteRollback" \in gaveUp'
       \/ /\ UNCHANGED columns
          /\ \E j \in jobs : j.act = "ExecuteRollback" /\ j.next > Len(RollbackSQL)

LEMMA RollsBackStep ==
    ASSUME TypeOK, PlaceInv, [Next]_vars, phase # "rolled_back", phase' = "rolled_back"
    PROVE  RollsBack
  <1> USE DEF wfVars, Quiet
  <1>1. ASSUME AttemptFails
        PROVE  RollsBack
    BY <1>1 DEF AttemptFails, OnError, AfterWindow, Compensate, Finish, Enter, Goto, RollsBack
  <1>2. \A p : ~(phase \in Gates /\ Pass(p))
    BY BehindGates DEF Pass, Enter, Gates
  <1>3. CASE Gate \/ Human \/ StartWorkflow \/ NotifyParent \/ Return
               \/ WindowTimerFires \/ WorkerCrash \/ UNCHANGED vars
    BY <1>2, <1>3
       DEF Gate, Human, SelectApprove, SelectRollback, SelectBlocks, ApproveAtGate,
           RollbackAtGate, ApproveBuffered, RollbackBuffered, StartWorkflow,
           NotifyParent, Return, WindowTimerFires, WorkerCrash, vars, PlaceInv,
           Compensate, Enter, Goto
  <1>4. CASE QuickActivity
    BY <1>1, <1>4
       DEF QuickActivity, QuickAttemptFails, ValidatePlan, VerifyExpand,
           CompatAfterExpand, AcquireReadOnly, SwitchTraffic, ReleaseReadOnly,
           CompatBeforeContract, VerifyContract, CompReleaseReadOnly, AfterWindow,
           Compensate, Finish, Enter, Goto
  <1>5. CASE Dispatch \/ AttemptTimesOut
    BY <1>1, <1>5 DEF Dispatch, AttemptTimesOut
  <1>6. ASSUME NEW j \in jobs, RunStatement(j) \/ StatementFails(j)
        PROVE  RollsBack
    BY <1>1, <1>6 DEF RunStatement, StatementFails
  <1>7. ASSUME NEW j \in jobs, JobReturns(j)
        PROVE  RollsBack
    <2>1. pc = "ExecuteRollback" /\ IsCurrent(j)
      BY <1>7 DEF JobReturns, Enter
    <2>2. j.next > Len(RollbackSQL) /\ UNCHANGED columns
      BY <1>7, <2>1 DEF JobReturns, IsCurrent, Statements, SQL, dbVars
    <2>3. QED
      BY <2>1, <2>2 DEF RollsBack, IsCurrent
  <1>8. QED
    BY <1>3, <1>4, <1>5, <1>6, <1>7 DEF Next, Progress, DDLActivity

LEMMA RolledBackStep ==
    ASSUME NoReAdd, TypeOK, PlaceInv, ClearedInv, JobsInv, RollbackInv, [Next]_vars
    PROVE  RolledBackUndone'
  <1> SUFFICES ASSUME phase' = "rolled_back", "ExecuteRollback" \notin gaveUp',
                      "ExecuteExpand" \notin timedOut'
               PROVE  Owed \cap columns' = {}
    BY DEF RolledBackUndone, Owed
  <1>1. "ExecuteExpand" \notin timedOut /\ "ExecuteRollback" \notin gaveUp
    BY HistoryGrows
  <1>2. CASE phase = "rolled_back"
    <2>1. Owed \cap columns = {}
      BY <1>1, <1>2 DEF RollbackInv, RolledBackUndone, Owed
    <2>2. Owed \cap columns' \subseteq columns
      BY <1>1, <1>2, OwedShrinks DEF RollbackInv, Undoing
    <2>3. QED
      BY <2>1, <2>2
  <1>3. CASE phase # "rolled_back"
    <2>1. columns' = columns
      BY <1>3, RollsBackStep DEF RollsBack
    <2>2. PICK j \in jobs : j.act = "ExecuteRollback" /\ j.next > Len(RollbackSQL)
      BY <1>3, RollsBackStep DEF RollsBack
    <2>3. \A i \in DOMAIN RollbackSQL :
            RollbackSQL[i].op = "drop" => RollbackSQL[i].cols \cap Owed \cap columns = {}
      <3>1. \A i \in DOMAIN RollbackSQL : i < j.next
        BY <2>2, PlanAssumption DEF TypeOK, Job
      <3>2. QED
        BY <1>1, <2>2, <3>1 DEF RollbackInv, RollbackJobsInv
    <2>4. \A c \in Owed : \E i \in DOMAIN RollbackSQL :
            RollbackSQL[i].op = "drop" /\ c \in RollbackSQL[i].cols
      BY DEF Owed, Dropped
    <2>5. QED
      BY <2>1, <2>3, <2>4
  <1>4. QED
    BY <1>2, <1>3

\* A rolled back run has removed what its expand SQL added, for every plan
\* that does not add it again, however far the expand attempts came and
\* however often the rollback SQL was repeated (workflow.go:137-150).
THEOREM RollbackUndoes ==
    ASSUME NoReAdd
    PROVE  Spec => []RolledBackUndone
  <1>1. Init => RollbackInv
    BY DEF Init, RollbackInv, ExpandJobsInv, RollbackJobsInv, RolledBackUndone
  <1>2. IInv /\ RollbackInv /\ [Next]_vars => RollbackInv'
    BY ExpandJobsStep, RollbackJobsStep, RolledBackStep DEF IInv, RollbackInv
  <1>3. RollbackInv => RolledBackUndone
    BY DEF RollbackInv
  <1>4. QED
    BY <1>1, <1>2, <1>3, InductiveInvariant, PTL DEF Spec
-----------------------------------------------------------------------------
(***************************************************************************)
(* Progress.  Why ReachesGateOrEnd may be asked: no step takes the run     *)
(* back, and a gate that waits has nothing left to read.                   *)
(***************************************************************************)
\* The ways a step may move the main coroutine.
MovesOn == Position' > Position
TriesAgain == UNCHANGED <<pc, phase>> /\ attempt < attempt' /\ attempt' < MaxAttempts(pc)
Stays == UNCHANGED <<pc, phase, attempt>> /\ (running => running')

LEMMA Orders ==
    /\ Order["Start"] = 0
    /\ Order["ValidatePlan"] = 1
    /\ Order["ExecuteExpand"] = 4
    /\ Order["VerifyExpand"] = 5
    /\ Order["CompatAfterExpand"] = 6
    /\ Order["AcquireReadOnly"] = 9
    /\ Order["SwitchTraffic"] = 10
    /\ Order["ReleaseReadOnly"] = 11
    /\ Order["CompatBeforeContract"] = 14
    /\ Order["ExecuteContract"] = 17
    /\ Order["VerifyContract"] = 18
    /\ Order["CompReleaseReadOnly"] = 19
    /\ Order["ExecuteRollback"] = 20
    /\ Order["NotifyParent"] = 21
    /\ Order["Return"] = 22
    /\ Order["Closed"] = 23
  BY DEF Order

LEMMA GateOrders ==
    /\ GateOrder["plan_review"] = 2
    /\ GateOrder["expand_verify"] = 7
    /\ GateOrder["monitoring"] = 12
    /\ GateOrder["contract_wait"] = 15
  BY DEF GateOrder

\* A compensation lies behind every place it is entered from.
LEMMA CompensateMovesOn ==
    ASSUME PlaceInv, Compensate,
           pc \in {"Select", "Blocked", "ExecuteExpand", "VerifyExpand",
                   "CompatAfterExpand", "AcquireReadOnly", "ReleaseReadOnly",
                   "CompatBeforeContract"}
    PROVE  MovesOn
  <1>1. Position' = 19
    BY Orders DEF Compensate, Goto, Position
  <1>2. Position \in Nat /\ Position < 19
    BY Orders, GateOrders DEF PlaceInv, Gates, Position
  <1>3. QED
    BY <1>1, <1>2 DEF MovesOn

LEMMA PassMovesOn ==
    ASSUME PlaceInv, pc \in {"Select", "Blocked"}, NEW STATE p, Pass(p)
    PROVE  MovesOn
  <1>1. phase \in Gates /\ pc' = ActivityAfter[phase]
    BY DEF PlaceInv, Pass, Enter, Goto
  <1>2. Position \in {GateOrder[phase], GateOrder[phase] + 1}
    BY DEF Position
  <1>3. Position' = Order[ActivityAfter[phase]]
    BY <1>1, BehindGates DEF Gates, Position
  <1>4. QED
    BY <1>1, <1>2, <1>3, BehindGates, Orders, GateOrders DEF Gates, MovesOn

LEMMA FinishMovesOn ==
    ASSUME NEW p \in Terminal, Finish(p),
           pc \in {"ValidatePlan", "ExecuteContract", "VerifyContract", "ExecuteRollback"}
    PROVE  MovesOn
  <1>1. Position' = 21
    BY Orders DEF Finish, Enter, Goto, Position
  <1>2. Position \in Nat /\ Position < 21
    BY Orders DEF Position
  <1>3. QED
    BY <1>1, <1>2 DEF MovesOn

LEMMA AfterWindowMovesOn ==
    ASSUME PlaceInv, pc = "ReleaseReadOnly", AfterWindow
    PROVE  MovesOn
  <1>1. CASE Compensate
    BY <1>1, CompensateMovesOn
  <1>2. CASE Enter("monitoring", "Select")
    BY <1>2, Orders, GateOrders DEF Enter, Goto, Position, MovesOn
  <1>3. QED
    BY <1>1, <1>2 DEF AfterWindow

LEMMA AttemptFailsProgress ==
    ASSUME TypeOK, PlaceInv, AttemptFails
    PROVE  MovesOn \/ TriesAgain
  <1>1. CASE attempt + 1 < MaxAttempts(pc)
    BY <1>1 DEF AttemptFails, TriesAgain, TypeOK
  <1>2. CASE ~(attempt + 1 < MaxAttempts(pc))
    <2>1. OnError
      BY <1>2 DEF AttemptFails
    <2>2. CASE pc \in {"SwitchTraffic", "CompReleaseReadOnly"}
      BY <2>1, <2>2, Orders DEF OnError, Goto, Position, MovesOn
    <2>3. CASE pc \notin {"SwitchTraffic", "CompReleaseReadOnly"}
      BY <2>1, <2>3, CompensateMovesOn, FinishMovesOn, AfterWindowMovesOn
         DEF OnError, Terminal
    <2>4. QED
      BY <2>2, <2>3
  <1>3. QED
    BY <1>1, <1>2

LEMMA ProgressStep ==
    TypeOK /\ PlaceInv /\ [Next]_vars => MovesOn \/ TriesAgain \/ Stays
  <1> SUFFICES ASSUME TypeOK, PlaceInv, [Next]_vars
               PROVE  MovesOn \/ TriesAgain \/ Stays
    OBVIOUS
  <1> USE DEF wfVars
  <1>1. CASE UNCHANGED wfVars
    BY <1>1 DEF Stays
  <1>2. CASE Gate
    <2>1. CASE SelectApprove
      BY <2>1, PassMovesOn DEF SelectApprove
    <2>2. CASE SelectRollback
      BY <2>2, CompensateMovesOn DEF SelectRollback
    <2>3. CASE SelectBlocks
      <3>1. Position = GateOrder[phase] /\ Position' = GateOrder[phase] + 1
        BY <2>3 DEF SelectBlocks, Position
      <3>2. phase \in Gates
        BY <2>3 DEF SelectBlocks, PlaceInv
      <3>3. QED
        BY <3>1, <3>2, GateOrders DEF Gates, MovesOn
    <2>4. QED
      BY <1>2, <2>1, <2>2, <2>3 DEF Gate
  <1>3. CASE Human
    BY <1>1, <1>3, PassMovesOn, CompensateMovesOn
       DEF Human, ApproveAtGate, RollbackAtGate, ApproveBuffered, RollbackBuffered
  <1>4. CASE QuickActivity
    <2>1. CASE QuickAttemptFails
      BY <2>1, AttemptFailsProgress DEF QuickAttemptFails
    <2>2. CASE ValidatePlan \/ VerifyExpand \/ CompatAfterExpand \/ AcquireReadOnly
                 \/ SwitchTraffic \/ CompReleaseReadOnly
      BY <2>2, Orders, GateOrders
         DEF ValidatePlan, VerifyExpand, CompatAfterExpand, AcquireReadOnly,
             SwitchTraffic, CompReleaseReadOnly, Goto, PlaceInv, Position, MovesOn
    <2>3. CASE ReleaseReadOnly
      BY <2>3, AfterWindowMovesOn DEF ReleaseReadOnly
    <2>4. CASE CompatBeforeContract
      <3>1. CASE Compensate
        BY <2>4, <3>1, CompensateMovesOn DEF CompatBeforeContract
      <3>2. CASE Goto("Select") /\ UNCHANGED phase
        BY <2>4, <3>2, Orders, GateOrders
           DEF CompatBeforeContract, Goto, PlaceInv, Position, MovesOn
      <3>3. QED
        BY <2>4, <3>1, <3>2 DEF CompatBeforeContract
    <2>5. CASE VerifyContract
      BY <2>5, FinishMovesOn DEF VerifyContract, Terminal
    <2>6. QED
      BY <1>4, <2>1, <2>2, <2>3, <2>4, <2>5 DEF QuickActivity
  <1>5. CASE DDLActivity
    <2>1. CASE Dispatch
      BY <2>1 DEF Dispatch, Stays
    <2>2. CASE AttemptTimesOut
      BY <2>2, AttemptFailsProgress DEF AttemptTimesOut
    <2>3. ASSUME NEW j \in jobs, RunStatement(j) \/ StatementFails(j)
          PROVE  MovesOn \/ TriesAgain \/ Stays
      BY <1>1, <2>3, AttemptFailsProgress DEF RunStatement, StatementFails
    <2>4. ASSUME NEW j \in jobs, JobReturns(j)
          PROVE  MovesOn \/ TriesAgain \/ Stays
      <3>1. CASE pc = "ExecuteExpand" /\ Enter("expand_verify", "VerifyExpand")
        BY <3>1, Orders DEF Enter, Goto, Position, MovesOn
      <3>2. CASE pc = "ExecuteContract" /\ Goto("VerifyContract")
        BY <3>2, Orders DEF Goto, Position, MovesOn
      <3>3. CASE pc = "ExecuteRollback" /\ Finish("rolled_back")
        BY <3>3, FinishMovesOn DEF Terminal
      <3>4. QED
        BY <1>1, <2>4, <3>1, <3>2, <3>3 DEF JobReturns
    <2>5. QED
      BY <1>5, <2>1, <2>2, <2>3, <2>4 DEF DDLActivity
  <1>6. CASE StartWorkflow
    BY <1>6, Orders DEF StartWorkflow, Enter, Goto, Position, MovesOn
  <1>7. CASE NotifyParent \/ Return
    BY <1>7, Orders DEF NotifyParent, Return, Position, MovesOn
  <1>8. CASE WindowTimerFires \/ WorkerCrash \/ UNCHANGED vars
    BY <1>1, <1>8 DEF WindowTimerFires, WorkerCrash, vars
  <1>9. QED
    BY <1>2, <1>3, <1>4, <1>5, <1>6, <1>7, <1>8 DEF Next, Progress

\* The run only moves forward: a step leads to a later place, to the next
\* attempt its RetryPolicy allows, or leaves the coroutine where it is, for
\* every policy and every history of signals, failures and crashes
\* (workflow.go:13-28 and 137-300).
THEOREM RunsNeverGoBack == Spec => NeverBack
  <1>1. TypeOK /\ PlaceInv /\ [Next]_vars =>
          [\/ Position' > Position
           \/ pc' = pc /\ attempt < attempt' /\ attempt' < MaxAttempts(pc)
           \/ pc' = pc /\ attempt' = attempt /\ (running => running')]_vars
    BY ProgressStep DEF MovesOn, TriesAgain, Stays
  <1>2. IInv => TypeOK /\ PlaceInv
    BY DEF IInv
  <1>3. QED
    BY <1>1, <1>2, InductiveInvariant, PTL DEF Spec, NeverBack


(***************************************************************************)
(* A gate that blocks has read both buffers, and a signal that arrives     *)
(* while it is blocked is not buffered.                                    *)
(***************************************************************************)
\* A gate never waits beside a signal that has arrived: signals sent at any
\* other time are buffered, and the gate reads the buffers of both names
\* before it blocks (workflow.go:118-135).
NoSignalMissed == pc = "Blocked" => approvals = <<>> /\ rollbacks = 0

LEMMA BlocksOnlyHere ==
    ASSUME PlaceInv, [Next]_vars, pc' = "Blocked"
    PROVE  SelectBlocks \/ (pc = "Blocked" /\ UNCHANGED sigVars)
  <1> USE DEF wfVars, sigVars, Quiet
  <1>1. ASSUME AttemptFails
        PROVE  pc = "Blocked"
    BY <1>1 DEF AttemptFails, OnError, AfterWindow, Compensate, Finish, Enter, Goto
  <1>2. ASSUME phase \in Gates, NEW STATE p, Pass(p)
        PROVE  FALSE
    BY <1>2, BehindGates DEF Pass, Enter, Goto, Gates
  <1>3. CASE Gate \/ Human
    BY <1>2, <1>3
       DEF Gate, Human, SelectApprove, SelectRollback, ApproveAtGate, RollbackAtGate,
           ApproveBuffered, RollbackBuffered, PlaceInv, Compensate, Goto
  <1>4. CASE QuickActivity
    BY <1>1, <1>4
       DEF QuickActivity, QuickAttemptFails, ValidatePlan, VerifyExpand,
           CompatAfterExpand, AcquireReadOnly, SwitchTraffic, ReleaseReadOnly,
           CompatBeforeContract, VerifyContract, CompReleaseReadOnly, AfterWindow,
           Compensate, Finish, Enter, Goto
  <1>5. CASE Dispatch \/ AttemptTimesOut
    BY <1>1, <1>5 DEF Dispatch, AttemptTimesOut
  <1>6. ASSUME NEW j \in jobs, RunStatement(j) \/ StatementFails(j) \/ JobReturns(j)
        PROVE  pc = "Blocked" /\ UNCHANGED sigVars
    BY <1>1, <1>6 DEF RunStatement, StatementFails, JobReturns, Finish, Enter, Goto
  <1>7. CASE StartWorkflow \/ NotifyParent \/ Return
    BY <1>7 DEF StartWorkflow, NotifyParent, Return, Enter, Goto
  <1>8. CASE WindowTimerFires \/ WorkerCrash \/ UNCHANGED vars
    BY <1>8 DEF WindowTimerFires, WorkerCrash, vars
  <1>9. QED
    BY <1>3, <1>4, <1>5, <1>6, <1>7, <1>8 DEF Next, Progress, DDLActivity

\* A signal is never left waiting beside a gate that is blocked, however
\* many of either name arrived, and when (workflow.go:118-135).
THEOREM SignalsNeverMissed == Spec => []NoSignalMissed
  <1>1. Init => NoSignalMissed
    BY DEF Init, NoSignalMissed
  <1>2. IInv /\ NoSignalMissed /\ [Next]_vars => NoSignalMissed'
    BY BlocksOnlyHere DEF IInv, NoSignalMissed, SelectBlocks, sigVars
  <1>3. QED
    BY <1>1, <1>2, InductiveInvariant, PTL DEF Spec

(***************************************************************************)
(* Attempts that live: the one the server waits for, and attempts of       *)
(* activities that were timed out.  An activity has no attempt before the  *)
(* run comes to it, so two attempts of one activity differ in their        *)
(* number, and the one that answers is not mistaken for another.           *)
(***************************************************************************)
LiveInv ==
    /\ \A j \in jobs : IsCurrent(j) \/ j.act \in timedOut
    /\ \A i, j \in jobs : i.act = j.act /\ i.n = j.n => i = j
    /\ \A j \in jobs : j.act = pc => j.n < attempt \/ (j.n = attempt /\ running)
    /\ \A j \in jobs : Order[j.act] <= Position

LEMMA PositionType ==
    ASSUME TypeOK, PlaceInv
    PROVE  Position \in Nat
  <1>1. CASE pc \in {"Select", "Blocked"}
    <2>1. phase \in Gates
      BY <1>1 DEF PlaceInv
    <2>2. QED
      BY <1>1, <2>1, GateOrders DEF Gates, Position
  <1>2. CASE pc \notin {"Select", "Blocked"}
    <2>1. pc \in Places
      BY DEF TypeOK
    <2>2. QED
      BY <1>2, <2>1, Orders DEF Places, Activities, DDL, Quick, Position
  <1>3. QED
    BY <1>1, <1>2

LEMMA PositionsType ==
    ASSUME TypeOK, PlaceInv, TypeOK', PlaceInv', [Next]_vars
    PROVE  /\ Position \in Nat /\ Position' \in Nat
           /\ Position <= Position'
  <1>1. Position \in Nat
    BY PositionType
  <1>2. CASE MovesOn
    <2>1. CASE pc' \in {"Select", "Blocked"}
      <3>1. phase' \in Gates
        BY <2>1 DEF PlaceInv
      <3>2. Position' \in Nat
        BY <2>1, <3>1, GateOrders DEF Gates, Position
      <3>3. QED
        BY <1>1, <1>2, <3>2 DEF MovesOn
    <2>2. CASE pc' \notin {"Select", "Blocked"}
      <3>1. pc' \in Places
        BY DEF TypeOK
      <3>2. Position' \in Nat
        BY <2>2, <3>1, Orders DEF Places, Activities, DDL, Quick, Position
      <3>3. QED
        BY <1>1, <1>2, <3>2 DEF MovesOn
    <2>3. QED
      BY <2>1, <2>2
  <1>3. CASE TriesAgain \/ Stays
    BY <1>1, <1>3 DEF TriesAgain, Stays, Position
  <1>4. QED
    BY <1>2, <1>3, ProgressStep

LEMMA OrderOfDDL ==
    /\ \A a \in DDL : Order[a] \in Nat
    /\ pc \in DDL => Position = Order[pc]
    /\ pc' \in DDL => Position' = Order[pc']
  BY Orders DEF DDL, Position

\* The run moves while attempts only go away.
LEMMA FewerLive ==
    ASSUME TypeOK, PlaceInv, TypeOK', PlaceInv', LiveInv, [Next]_vars, jobs' \subseteq jobs,
           \A j \in jobs' : IsCurrent(j)' \/ j.act \in timedOut'
    PROVE  LiveInv'
  <1>1. MovesOn \/ TriesAgain \/ Stays
    BY ProgressStep
  <1>2. /\ Position \in Nat /\ Position' \in Nat
        /\ Position <= Position'
    BY PositionsType
  <1>3. attempt \in Nat /\ attempt' \in Nat /\ jobs \subseteq Job
    BY DEF TypeOK
  <1>4. \A j \in jobs' : j.act = pc' => j.n < attempt' \/ (j.n = attempt' /\ running')
    <2> SUFFICES ASSUME NEW j \in jobs', j.act = pc'
                 PROVE  j.n < attempt' \/ (j.n = attempt' /\ running')
      OBVIOUS
    <2>1. j \in jobs /\ j.act \in DDL /\ j.n \in Nat
      BY <1>3 DEF Job
    <2>2. CASE MovesOn
      <3>1. Order[j.act] <= Position /\ Order[j.act] = Position'
        BY <2>1, OrderOfDDL DEF LiveInv
      <3>2. QED
        BY <1>2, <2>2, <3>1 DEF MovesOn
    <2>3. CASE TriesAgain
      BY <1>3, <2>1, <2>3 DEF LiveInv, TriesAgain
    <2>4. CASE Stays
      BY <2>1, <2>4 DEF LiveInv, Stays
    <2>5. QED
      BY <1>1, <2>2, <2>3, <2>4
  <1>5. QED
    <2>1. \A j \in jobs' : Order[j.act] <= Position'
      BY <1>2, <1>3, OrderOfDDL DEF LiveInv, Job
    <2>2. QED
      BY <1>4, <2>1 DEF LiveInv


LEMMA LiveStep ==
    ASSUME TypeOK, PlaceInv, TypeOK', PlaceInv', LiveInv, [Next]_vars
    PROVE  LiveInv'
  <1> USE DEF wfVars, Quiet
  <1>1. timedOut \subseteq timedOut'
    BY HistoryGrows
  \* The attempts that remain are as current as they were.
  <1>2. ASSUME jobs' \subseteq jobs, UNCHANGED wfVars
        PROVE  LiveInv'
    BY <1>1, <1>2, FewerLive DEF LiveInv, IsCurrent
  \* None of those that remain was current.
  <1>3. ASSUME jobs' \subseteq jobs, \A j \in jobs' : ~IsCurrent(j) \/ j.act \in timedOut'
        PROVE  LiveInv'
    BY <1>1, <1>3, FewerLive DEF LiveInv
  <1>4. ASSUME pc \notin DDL, jobs' = jobs
        PROVE  LiveInv'
    BY <1>3, <1>4 DEF IsCurrent, TypeOK, Job
  <1>5. CASE Gate \/ ApproveAtGate \/ RollbackAtGate \/ StartWorkflow
               \/ NotifyParent \/ Return
    BY <1>4, <1>5 DEF Gate, SelectApprove, SelectRollback, SelectBlocks, ApproveAtGate,
                      RollbackAtGate, StartWorkflow, NotifyParent, Return, DDL
  <1>6. CASE ApproveBuffered \/ RollbackBuffered \/ WindowTimerFires \/ WorkerCrash
               \/ UNCHANGED vars
    BY <1>2, <1>6 DEF ApproveBuffered, RollbackBuffered, WindowTimerFires,
                      WorkerCrash, vars
  <1>7. CASE QuickActivity
    <2>1. pc \notin DDL /\ jobs' = jobs
      BY <1>7 DEF QuickActivity, QuickAttemptFails, ValidatePlan, VerifyExpand,
                  CompatAfterExpand, AcquireReadOnly, SwitchTraffic, ReleaseReadOnly,
                  CompatBeforeContract, VerifyContract, CompReleaseReadOnly, Quick, DDL
    <2>2. QED
      BY <1>4, <2>1
  <1>8. CASE Dispatch
    <2> DEFINE new == [act |-> pc, n |-> attempt, next |-> 1]
    <2>1. /\ pc \in DDL /\ ~running /\ jobs' = jobs \cup {new}
          /\ running' = TRUE /\ UNCHANGED <<pc, phase, attempt, timedOut>>
      BY <1>8 DEF Dispatch, histVars
    <2>2. /\ new.act = pc /\ new.n = attempt
          /\ \A j \in jobs : j \in Job
      BY DEF TypeOK
    <2> HIDE DEF new
    <2>3. \A j \in jobs : j.act = pc => j.n < attempt
      BY <2>1 DEF LiveInv
    <2>4. \A j \in jobs' : IsCurrent(j)' \/ j.act \in timedOut'
      BY <2>1, <2>2 DEF LiveInv, IsCurrent
    <2>5. \A i, j \in jobs' : i.act = j.act /\ i.n = j.n => i = j
      BY <2>1, <2>2, <2>3 DEF LiveInv, TypeOK
    <2>6. \A j \in jobs' : j.act = pc' => j.n < attempt' \/ (j.n = attempt' /\ running')
      BY <2>1, <2>2, <2>3
    <2>7. Position' = Position /\ Position = Order[pc] /\ Position \in Nat
      BY <2>1, PositionType, OrderOfDDL DEF Position
    <2>8. \A j \in jobs' : Order[j.act] <= Position'
      BY <2>1, <2>2, <2>7 DEF LiveInv
    <2>9. QED
      BY <2>4, <2>5, <2>6, <2>8 DEF LiveInv
  <1>9. CASE AttemptTimesOut
    <2>1. jobs' = jobs /\ pc \in timedOut'
      BY <1>9 DEF AttemptTimesOut
    <2>2. QED
      BY <1>3, <2>1 DEF IsCurrent
  <1>10. ASSUME NEW j \in jobs, RunStatement(j)
         PROVE  LiveInv'
    <2> DEFINE new == [j EXCEPT !.next = @ + 1]
    <2>1. /\ jobs' = (jobs \ {j}) \cup {new}
          /\ UNCHANGED <<pc, phase, attempt, running, timedOut>>
      BY <1>10 DEF RunStatement, histVars
    <2>2. new.act = j.act /\ new.n = j.n
      BY DEF TypeOK, Job
    <2> HIDE DEF new
    <2>3. Position' = Position
      BY <2>1 DEF Position
    <2>4. \A k \in jobs' : IsCurrent(k)' \/ k.act \in timedOut'
      BY <2>1, <2>2 DEF LiveInv, IsCurrent
    <2>5. \A i, k \in jobs' : i.act = k.act /\ i.n = k.n => i = k
      BY <2>1, <2>2 DEF LiveInv
    <2>6. QED
      BY <2>1, <2>2, <2>3, <2>4, <2>5 DEF LiveInv
  <1>11. ASSUME NEW j \in jobs, StatementFails(j) \/ JobReturns(j)
         PROVE  LiveInv'
    <2>1. jobs' = jobs \ {j} /\ (~IsCurrent(j) => UNCHANGED wfVars)
      BY <1>11 DEF StatementFails, JobReturns
    <2>2. ASSUME IsCurrent(j), NEW k \in jobs', IsCurrent(k)
          PROVE  FALSE
      BY <2>1, <2>2 DEF IsCurrent, LiveInv
    <2>3. QED
      BY <1>2, <1>3, <2>1, <2>2
  <1>12. QED
    BY <1>5, <1>6, <1>7, <1>8, <1>9, <1>10, <1>11
       DEF Next, Progress, Human, DDLActivity

\* Once the run has come to its terminal phase nothing of it executes but
\* attempts the server had timed out, for every plan and retry policy and
\* whichever exit the run took (workflow.go:47-49 and 80-93).
THEOREM TerminalRunsIdle == Spec => []TerminalMeansIdle
  <1>1. Init => LiveInv
    BY DEF Init, LiveInv
  <1>2. IInv /\ IInv' /\ LiveInv /\ [Next]_vars => LiveInv'
    BY LiveStep DEF IInv
  <1>3. IInv /\ LiveInv => TerminalMeansIdle
    BY DEF IInv, PlaceInv, LiveInv, IsCurrent, TypeOK, Job, DDL, TerminalMeansIdle
  <1>4. QED
    BY <1>1, <1>2, <1>3, InductiveInvariant, PTL DEF Spec
=============================================================================
