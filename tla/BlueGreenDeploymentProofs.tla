--------------------- MODULE BlueGreenDeploymentProofs ---------------------
(***************************************************************************)
(* Type correctness of BlueGreenDeployment, its schema-safety invariants   *)
(* for every plan that satisfies PlanAssumption, every retry policy and    *)
(* every signal history, and the refinement of DeploymentLifecycle.        *)
(***************************************************************************)
EXTENDS BlueGreenDeployment, TLAPS

(***************************************************************************)
(* The inductive invariant.                                                *)
(***************************************************************************)
Cleared == approvedAt["contract_wait"] # NoPhase

PreContract == {"plan_review", "expanding", "expand_verify",
                "cutover", "monitoring", "contract_wait"}

\* The rollback SQL may be running, or may have run.
Undoing == pc = "ExecuteRollback" \/ phase = "rolled_back"

\* Which phases each place of the main coroutine is reached in.
PlaceInv ==
    /\ pc = "Start" => phase = "pending"
    /\ pc = "ValidatePlan" => phase = "plan_review"
    /\ pc = "ExecuteExpand" => phase = "expanding"
    /\ pc \in {"VerifyExpand", "CompatAfterExpand"} => phase = "expand_verify"
    /\ pc \in {"AcquireReadOnly", "SwitchTraffic", "ReleaseReadOnly"} => phase = "cutover"
    /\ pc = "CompatBeforeContract" => phase = "contract_wait"
    /\ pc \in {"ExecuteContract", "VerifyContract"} => phase = "contracting"
    /\ pc \in {"Select", "Blocked"} => phase \in Gates
    /\ pc \in {"CompReleaseReadOnly", "ExecuteRollback"} => phase \in PreContract
    /\ pc \in {"NotifyParent", "Return", "Closed"} <=> phase \in Terminal

TrafficInv ==
    /\ switched => traffic = "green"
    /\ traffic = "green" => phase \notin {"pending", "plan_review", "expanding", "expand_verify"}
    /\ phase \in {"monitoring", "contract_wait", "contracting", "complete"} => traffic = "green"

ClearedInv ==
    /\ Cleared => phase \in InContract /\ traffic = "green"
    /\ phase \in {"contracting", "complete"} => Cleared
    /\ phase = "failed" /\ traffic = "green" => Cleared

JobsInv ==
    \A j \in jobs :
        /\ j.act = "ExecuteContract" => Cleared
        /\ j.act = "ExecuteRollback" => Undoing

BlueInv == Cleared \/ BlueCols \subseteq columns

\* The green columns the first k expand statements provide, with those the
\* table has from the start.
GreenUpTo(k) ==
    \A c \in GreenCols :
        \/ c \in columns
        \/ /\ c \notin InitialCols
           /\ \A i \in DOMAIN ExpandSQL :
                 i <= k /\ ExpandSQL[i].op = "add" => c \notin ExpandSQL[i].cols

Expanded ==
    Cleared \/ phase \in {"expand_verify", "cutover", "monitoring", "contract_wait"}

ExpandInv ==
    \/ Undoing
    \/ /\ GreenUpTo(0)
       /\ \A j \in jobs : j.act = "ExecuteExpand" => GreenUpTo(j.next - 1)
       /\ Expanded => GreenCols \subseteq columns

IInv == TypeOK /\ PlaceInv /\ TrafficInv /\ ClearedInv /\ JobsInv /\ BlueInv /\ ExpandInv

-----------------------------------------------------------------------------
(***************************************************************************)
(* The statement lists.                                                    *)
(***************************************************************************)
LEMMA StatementLists == \A a \in DDL : SQL[a] \in Seq(Statement)
  BY PlanAssumption DEF SQL, DDL

LEMMA StatementType ==
    ASSUME NEW j \in Job, j.next <= Len(SQL[j.act])
    PROVE  /\ SQL[j.act][j.next] \in Statement
           /\ j.next \in DOMAIN SQL[j.act]
  BY StatementLists DEF Job

\* Executing a statement of the plan keeps the table within Columns.
LEMMA ApplyType ==
    ASSUME NEW st \in Statement, NEW cols \in SUBSET Columns
    PROVE  Apply(st, cols) \in SUBSET Columns
  BY DEF Apply, Statement

(***************************************************************************)
(* Type correctness, the Boolean variables apart from the others.          *)
(***************************************************************************)
BoolOK ==
    /\ running \in BOOLEAN
    /\ switched \in BOOLEAN
    /\ readOnly \in BOOLEAN

RestOK ==
    /\ pc \in Places
    /\ phase \in Phases
    /\ attempt \in Nat
    /\ jobs \subseteq Job
    /\ approvals \in Seq(Phases)
    /\ rollbacks \in Nat
    /\ timer \in {"off", "armed", "fired", "cancelled"}
    /\ columns \subseteq Columns
    /\ traffic \in {"blue", "green"}
    /\ notices \in Nat
    /\ approvedAt \in [Gates -> Phases \cup {NoPhase}]
    /\ gaveUp \subseteq Activities
    /\ timedOut \subseteq DDL

\* The names, one by one: leaves that cite these need not expand the sets.
LEMMA PlaceNames ==
    /\ "ExecuteExpand" \in Places
    /\ "ExecuteContract" \in Places
    /\ "ExecuteRollback" \in Places
    /\ "ValidatePlan" \in Places
    /\ "VerifyExpand" \in Places
    /\ "CompatAfterExpand" \in Places
    /\ "AcquireReadOnly" \in Places
    /\ "SwitchTraffic" \in Places
    /\ "ReleaseReadOnly" \in Places
    /\ "CompatBeforeContract" \in Places
    /\ "VerifyContract" \in Places
    /\ "CompReleaseReadOnly" \in Places
    /\ "Start" \in Places
    /\ "Select" \in Places
    /\ "Blocked" \in Places
    /\ "NotifyParent" \in Places
    /\ "Return" \in Places
    /\ "Closed" \in Places
  BY DEF Places, Activities, DDL, Quick

LEMMA PhaseNames ==
    /\ "plan_review" \in Phases
    /\ "expand_verify" \in Phases
    /\ "monitoring" \in Phases
    /\ "contract_wait" \in Phases
    /\ "complete" \in Phases
    /\ "rolled_back" \in Phases
    /\ "failed" \in Phases
    /\ "pending" \in Phases
    /\ "expanding" \in Phases
    /\ "cutover" \in Phases
    /\ "contracting" \in Phases
  BY DEF Phases, Gates, Terminal

LEMMA NameSets ==
    /\ DDL \subseteq Activities
    /\ Quick \subseteq Activities
    /\ Activities \subseteq Places
    /\ Gates \subseteq Phases
  BY DEF Activities, Places, Phases

LEMMA BehindGates ==
    /\ PhaseAfter["plan_review"] = "expanding"
    /\ PhaseAfter["expand_verify"] = "cutover"
    /\ PhaseAfter["monitoring"] = "contract_wait"
    /\ PhaseAfter["contract_wait"] = "contracting"
    /\ ActivityAfter["plan_review"] = "ExecuteExpand"
    /\ ActivityAfter["expand_verify"] = "AcquireReadOnly"
    /\ ActivityAfter["monitoring"] = "CompatBeforeContract"
    /\ ActivityAfter["contract_wait"] = "ExecuteContract"
  BY DEF PhaseAfter, ActivityAfter

LEMMA PassType ==
    ASSUME RestOK, phase \in Gates, NEW STATE p, p \in Phases, Pass(p)
    PROVE  /\ pc' \in Places /\ phase' \in Phases /\ attempt' \in Nat
           /\ approvedAt' \in [Gates -> Phases \cup {NoPhase}]
  <1>1. pc' \in Places /\ phase' \in Phases
    BY BehindGates, PlaceNames, PhaseNames DEF Pass, Enter, Goto, Gates
  <1>2. approvedAt' \in [Gates -> Phases \cup {NoPhase}]
    BY DEF RestOK, Pass
  <1>3. QED
    BY <1>1, <1>2 DEF Pass, Enter, Goto

LEMMA AttemptFailsType ==
    ASSUME RestOK, pc \in Activities, AttemptFails
    PROVE  /\ pc' \in Places /\ phase' \in Phases /\ attempt' \in Nat
           /\ gaveUp' \subseteq Activities
           /\ timer' \in {"off", "armed", "fired", "cancelled"}
  <1>1. CASE attempt + 1 < MaxAttempts(pc)
    BY <1>1 DEF RestOK, AttemptFails
  <1>2. CASE ~(attempt + 1 < MaxAttempts(pc))
    <2>1. OnError /\ gaveUp' = gaveUp \cup {pc}
      BY <1>2 DEF AttemptFails
    <2>2. timer' \in {"off", "armed", "fired", "cancelled"}
      BY <1>2 DEF RestOK, AttemptFails, CancelTimer
    <2>3. /\ pc' \in Places /\ phase' \in Phases /\ attempt' \in Nat
      BY <2>1, PlaceNames, PhaseNames
         DEF RestOK, OnError, AfterWindow, Compensate, Finish, Enter, Goto
    <2>4. QED
      BY <2>1, <2>2, <2>3 DEF RestOK
  <1>3. QED
    BY <1>1, <1>2

LEMMA RestStep == RestOK /\ PlaceInv /\ [Next]_vars => RestOK'
  <1> SUFFICES ASSUME RestOK, PlaceInv, [Next]_vars
               PROVE  RestOK'
    OBVIOUS
  <1> USE DEF RestOK, wfVars, sigVars, dbVars, histVars
  <1>1. CASE StartWorkflow
    BY <1>1, PlaceNames, PhaseNames DEF StartWorkflow, Enter, Goto
  <1>2. CASE SelectApprove
    BY <1>2, PassType DEF SelectApprove, PlaceInv
  <1>3. CASE SelectRollback
    BY <1>3, PlaceNames DEF SelectRollback, Compensate, Goto
  <1>4. CASE SelectBlocks
    BY <1>4, PlaceNames DEF SelectBlocks
  <1>5. CASE ApproveAtGate
    BY <1>5, PassType DEF ApproveAtGate, PlaceInv
  <1>6. CASE RollbackAtGate
    BY <1>6, PlaceNames DEF RollbackAtGate, Compensate, Goto
  <1>7. CASE ApproveBuffered
    BY <1>7 DEF ApproveBuffered
  <1>8. CASE RollbackBuffered
    BY <1>8 DEF RollbackBuffered
  <1>9. CASE QuickActivity
    <2>1. CASE QuickAttemptFails
      <3>1. traffic' \in {"blue", "green"}
        BY <2>1 DEF QuickAttemptFails
      <3>2. QED
        BY <2>1, <3>1, AttemptFailsType, NameSets DEF QuickAttemptFails
    <2>2. CASE ValidatePlan \/ VerifyExpand \/ CompatAfterExpand
                 \/ CompReleaseReadOnly \/ VerifyContract
      BY <2>2, PlaceNames, PhaseNames
         DEF ValidatePlan, VerifyExpand, CompatAfterExpand, CompReleaseReadOnly,
             VerifyContract, Quiet, Finish, Enter, Goto
    <2>3. CASE AcquireReadOnly \/ SwitchTraffic
      BY <2>3, PlaceNames DEF AcquireReadOnly, SwitchTraffic, Quiet, CancelTimer, Goto
    <2>4. CASE ReleaseReadOnly \/ CompatBeforeContract
      BY <2>4, PlaceNames, PhaseNames
         DEF ReleaseReadOnly, CompatBeforeContract, Quiet, AfterWindow,
             Compensate, Enter, Goto
    <2>5. QED
      BY <1>9, <2>1, <2>2, <2>3, <2>4 DEF QuickActivity
  <1>10. CASE Dispatch
    BY <1>10 DEF Dispatch, Job
  <1>11. CASE AttemptTimesOut
    BY <1>11, AttemptFailsType, NameSets DEF AttemptTimesOut
  <1>12. ASSUME NEW j \in jobs, RunStatement(j)
         PROVE  RestOK'
    <2>1. j \in Job
      OBVIOUS
    <2>2. columns' \in SUBSET Columns
      BY <1>12, <2>1, StatementType, ApplyType DEF RunStatement, Statements
    <2>3. [j EXCEPT !.next = @ + 1] \in Job
      BY <2>1 DEF Job
    <2>4. QED
      BY <1>12, <2>2, <2>3 DEF RunStatement
  <1>13. ASSUME NEW j \in jobs, StatementFails(j)
         PROVE  RestOK'
    <2>1. j \in Job
      OBVIOUS
    <2>2. columns' \in SUBSET Columns
      BY <1>13, <2>1, StatementType, ApplyType DEF StatementFails, Statements
    <2>3. CASE IsCurrent(j)
      BY <1>13, <2>1, <2>2, <2>3, AttemptFailsType, NameSets
         DEF StatementFails, IsCurrent, Job
    <2>4. CASE ~IsCurrent(j)
      BY <1>13, <2>2, <2>4 DEF StatementFails
    <2>5. QED
      BY <2>3, <2>4
  <1>14. ASSUME NEW j \in jobs, JobReturns(j)
         PROVE  RestOK'
    BY <1>14, PlaceNames, PhaseNames DEF JobReturns, Finish, Enter, Goto
  <1>15. CASE NotifyParent \/ Return
    BY <1>15, PlaceNames DEF NotifyParent, Return
  <1>16. CASE WindowTimerFires \/ WorkerCrash
    BY <1>16 DEF WindowTimerFires, WorkerCrash, Quiet
  <1>17. CASE UNCHANGED vars
    BY <1>17 DEF vars
  <1>18. QED
    BY <1>1, <1>2, <1>3, <1>4, <1>5, <1>6, <1>7, <1>8, <1>9, <1>10, <1>11,
       <1>12, <1>13, <1>14, <1>15, <1>16, <1>17
       DEF Next, Progress, Human, Gate, DDLActivity
LEMMA BoolStep == BoolOK /\ [Next]_vars => BoolOK'
  <1> SUFFICES ASSUME BoolOK, [Next]_vars
               PROVE  BoolOK'
    OBVIOUS
  <1> USE DEF BoolOK, wfVars, dbVars
  <1>1. AttemptFails => running' \in BOOLEAN
    BY DEF AttemptFails, OnError, AfterWindow, Compensate, Finish, Enter, Goto
  <1>2. CASE Gate \/ Human \/ StartWorkflow
    BY <1>2 DEF Gate, Human, StartWorkflow, SelectApprove, SelectRollback,
                SelectBlocks, ApproveAtGate, RollbackAtGate, ApproveBuffered,
                RollbackBuffered, Pass, Compensate, Enter, Goto
  <1>3. CASE QuickAttemptFails
    BY <1>1, <1>3 DEF QuickAttemptFails
  <1>4. CASE QuickActivity /\ ~QuickAttemptFails
    BY <1>4 DEF QuickActivity, ValidatePlan, VerifyExpand, CompatAfterExpand,
                AcquireReadOnly, SwitchTraffic, ReleaseReadOnly,
                CompatBeforeContract, VerifyContract, CompReleaseReadOnly,
                AfterWindow, Compensate, Finish, Enter, Goto
  <1>5. CASE Dispatch \/ AttemptTimesOut
    BY <1>1, <1>5 DEF Dispatch, AttemptTimesOut
  <1>6. ASSUME NEW j \in jobs, RunStatement(j) \/ StatementFails(j) \/ JobReturns(j)
        PROVE  BoolOK'
    BY <1>1, <1>6 DEF RunStatement, StatementFails, JobReturns, Finish, Enter, Goto
  <1>7. CASE NotifyParent \/ Return \/ WindowTimerFires \/ WorkerCrash
    BY <1>7 DEF NotifyParent, Return, WindowTimerFires, WorkerCrash
  <1>8. CASE UNCHANGED vars
    BY <1>8 DEF vars
  <1>9. QED
    BY <1>2, <1>3, <1>4, <1>5, <1>6, <1>7, <1>8 DEF Next, Progress, DDLActivity

LEMMA TypeStep == TypeOK /\ PlaceInv /\ [Next]_vars => TypeOK'
  <1>1. TypeOK <=> BoolOK /\ RestOK
    BY DEF TypeOK, BoolOK, RestOK
  <1>2. TypeOK' <=> BoolOK' /\ RestOK'
    BY DEF TypeOK, BoolOK, RestOK
  <1>3. QED
    BY <1>1, <1>2, BoolStep, RestStep
-----------------------------------------------------------------------------
(***************************************************************************)
(* Places and phases.                                                      *)
(***************************************************************************)
LEMMA AttemptFailsPlace ==
    ASSUME PlaceInv, pc \in Activities, AttemptFails
    PROVE  PlaceInv'
  <1>1. CASE attempt + 1 < MaxAttempts(pc)
    BY <1>1 DEF AttemptFails, PlaceInv
  <1>2. CASE ~(attempt + 1 < MaxAttempts(pc))
    <2>1. OnError
      BY <1>2 DEF AttemptFails
    <2>2. CASE Compensate /\ pc \in {"ExecuteExpand", "VerifyExpand", "CompatAfterExpand",
                        "AcquireReadOnly", "CompatBeforeContract", "ReleaseReadOnly"}
      BY <2>2 DEF Compensate, Goto, PlaceInv, PreContract, Gates, Terminal
    <2>3. CASE \E p \in Terminal : Finish(p)
      BY <2>3 DEF Finish, Enter, Goto, PlaceInv, Gates, Terminal
    <2>4. CASE /\ pc \in {"SwitchTraffic", "CompReleaseReadOnly"}
               /\ Goto(IF pc = "SwitchTraffic" THEN "ReleaseReadOnly" ELSE "ExecuteRollback")
               /\ UNCHANGED phase
      BY <2>4 DEF Goto, PlaceInv, PreContract, Gates, Terminal
    <2>5. CASE Enter("monitoring", "Select")
      BY <2>5 DEF Enter, Goto, PlaceInv, Gates, Terminal
    <2>6. QED
      BY <2>1, <2>2, <2>3, <2>4, <2>5 DEF OnError, AfterWindow, Terminal
  <1>3. QED
    BY <1>1, <1>2

LEMMA PlaceStep == TypeOK /\ PlaceInv /\ [Next]_vars => PlaceInv'
  <1> SUFFICES ASSUME TypeOK, PlaceInv, [Next]_vars
               PROVE  PlaceInv'
    OBVIOUS
  <1> USE DEF wfVars
  <1>1. ASSUME NEW STATE p, pc \in {"Select", "Blocked"}, Pass(p)
        PROVE  PlaceInv'
    BY <1>1, BehindGates DEF Pass, Enter, Goto, PlaceInv, Gates, Terminal
  <1>2. CASE Gate
    <2>1. CASE SelectApprove
      BY <1>1, <2>1 DEF SelectApprove
    <2>2. CASE SelectRollback \/ SelectBlocks
      BY <2>2 DEF SelectRollback, SelectBlocks, Compensate, Goto, PlaceInv,
                  PreContract, Gates, Terminal
    <2>3. QED
      BY <1>2, <2>1, <2>2 DEF Gate
  <1>3. CASE Human
    <2>1. CASE ApproveAtGate
      BY <1>1, <2>1 DEF ApproveAtGate
    <2>2. CASE RollbackAtGate
      BY <2>2 DEF RollbackAtGate, Compensate, Goto, PlaceInv, PreContract, Gates, Terminal
    <2>3. CASE ApproveBuffered \/ RollbackBuffered
      BY <2>3 DEF ApproveBuffered, RollbackBuffered, PlaceInv
    <2>4. QED
      BY <1>3, <2>1, <2>2, <2>3 DEF Human
  <1>4. CASE QuickActivity
    <2>1. CASE QuickAttemptFails
      BY <2>1, AttemptFailsPlace, NameSets DEF QuickAttemptFails
    <2>2. CASE ValidatePlan \/ VerifyExpand \/ CompatAfterExpand \/ CompReleaseReadOnly
      BY <2>2 DEF ValidatePlan, VerifyExpand, CompatAfterExpand, CompReleaseReadOnly,
                  Goto, PlaceInv, PreContract, Gates, Terminal
    <2>3. CASE AcquireReadOnly \/ SwitchTraffic
      BY <2>3 DEF AcquireReadOnly, SwitchTraffic, Goto, PlaceInv, Gates, Terminal
    <2>4. CASE ReleaseReadOnly \/ CompatBeforeContract
      BY <2>4 DEF ReleaseReadOnly, CompatBeforeContract, AfterWindow, Compensate,
                  Enter, Goto, PlaceInv, PreContract, Gates, Terminal
    <2>5. CASE VerifyContract
      BY <2>5 DEF VerifyContract, Finish, Enter, Goto, PlaceInv, Terminal
    <2>6. QED
      BY <1>4, <2>1, <2>2, <2>3, <2>4, <2>5 DEF QuickActivity
  <1>5. CASE DDLActivity
    <2>1. CASE Dispatch
      BY <2>1 DEF Dispatch, PlaceInv
    <2>2. CASE AttemptTimesOut
      BY <2>2, AttemptFailsPlace, NameSets DEF AttemptTimesOut
    <2>3. ASSUME NEW j \in jobs, RunStatement(j) \/ (StatementFails(j) /\ ~IsCurrent(j))
          PROVE  PlaceInv'
      BY <2>3 DEF RunStatement, StatementFails, PlaceInv
    <2>4. ASSUME NEW j \in jobs, StatementFails(j), IsCurrent(j)
          PROVE  PlaceInv'
      BY <2>4, AttemptFailsPlace, NameSets DEF StatementFails, IsCurrent, TypeOK, Job
    <2>5. ASSUME NEW j \in jobs, JobReturns(j)
          PROVE  PlaceInv'
      BY <2>5 DEF JobReturns, Finish, Enter, Goto, PlaceInv, Gates, Terminal
    <2>6. QED
      BY <1>5, <2>1, <2>2, <2>3, <2>4, <2>5 DEF DDLActivity
  <1>6. CASE StartWorkflow
    BY <1>6 DEF StartWorkflow, Enter, Goto, PlaceInv, Terminal
  <1>7. CASE NotifyParent \/ Return
    BY <1>7 DEF NotifyParent, Return, PlaceInv
  <1>8. CASE WindowTimerFires \/ WorkerCrash
    BY <1>8 DEF WindowTimerFires, WorkerCrash, PlaceInv
  <1>9. CASE UNCHANGED vars
    BY <1>9 DEF vars, PlaceInv
  <1>10. QED
    BY <1>2, <1>3, <1>4, <1>5, <1>6, <1>7, <1>8, <1>9 DEF Next, Progress

\* Every variable keeps its type for every plan and every bound; the places
\* of the main coroutine go with their phases, so no gate is evaluated in a
\* phase that has none (workflow.go:118-300).
THEOREM TypeCorrect == Spec => []TypeOK
  <1>1. Init => TypeOK /\ PlaceInv
    <2> SUFFICES ASSUME Init
                 PROVE  TypeOK /\ PlaceInv
      OBVIOUS
    <2>1. RestOK
      BY PlaceNames, PhaseNames DEF Init, RestOK, Columns
    <2>2. BoolOK
      BY DEF Init, BoolOK
    <2>3. PlaceInv
      BY DEF Init, PlaceInv, Terminal
    <2>4. QED
      BY <2>1, <2>2, <2>3 DEF TypeOK, RestOK, BoolOK
  <1>2. TypeOK /\ PlaceInv /\ [Next]_vars => (TypeOK /\ PlaceInv)'
    BY TypeStep, PlaceStep
  <1>3. QED
    BY <1>1, <1>2, PTL DEF Spec
-----------------------------------------------------------------------------
(***************************************************************************)
(* Traffic and the contract gate.                                          *)
(***************************************************************************)
LEMMA PassClears ==
    ASSUME TypeOK, phase \in Gates, NEW STATE p, p \in Phases, Pass(p)
    PROVE  Cleared' <=> (Cleared \/ phase = "contract_wait")
  BY DEF TypeOK, Pass, Cleared, Gates, Phases, Terminal, NoPhase

Control == TrafficInv /\ ClearedInv

LEMMA PassControl ==
    ASSUME TypeOK, Control, phase \in Gates, NEW STATE p, p \in Phases, Pass(p),
           UNCHANGED <<traffic, switched>>
    PROVE  Control'
  BY PassClears, BehindGates
     DEF Control, TrafficInv, ClearedInv, Pass, Enter, Goto, Gates, InContract

LEMMA CompensateControl ==
    ASSUME Control, Compensate, UNCHANGED <<approvedAt, traffic, switched>>
    PROVE  Control'
  BY DEF Control, TrafficInv, ClearedInv, Compensate, Goto, Cleared

LEMMA AttemptFailsControl ==
    ASSUME PlaceInv, Control, pc \in Activities, AttemptFails,
           UNCHANGED <<approvedAt, switched>>,
           traffic' = traffic \/ (pc = "SwitchTraffic" /\ traffic' = "green")
    PROVE  Control'
  <1>1. Cleared' <=> Cleared
    BY DEF Cleared
  <1>2. CASE pc = "SwitchTraffic"
    <2>1. phase = "cutover" /\ phase' = "cutover"
      BY <1>2 DEF AttemptFails, OnError, Goto, PlaceInv
    <2>2. QED
      BY <1>1, <1>2, <2>1 DEF Control, TrafficInv, ClearedInv, InContract
  <1>3. CASE pc # "SwitchTraffic" /\ phase' = phase
    BY <1>1, <1>3 DEF Control, TrafficInv, ClearedInv
  <1>4. CASE pc = "ReleaseReadOnly" /\ phase' # phase
    <2>1. phase = "cutover" /\ phase' = "monitoring" /\ switched
      BY <1>4 DEF AttemptFails, OnError, AfterWindow, Compensate, Enter, PlaceInv
    <2>2. QED
      BY <1>1, <1>4, <2>1 DEF Control, TrafficInv, ClearedInv, InContract
  <1>5. CASE pc \notin {"SwitchTraffic", "ReleaseReadOnly"} /\ phase' # phase
    <2>1. \/ pc = "ValidatePlan" /\ phase' = "failed"
          \/ pc = "ExecuteContract" /\ phase' = "failed"
          \/ pc = "VerifyContract" /\ phase' = "complete"
          \/ pc = "ExecuteRollback" /\ phase' = "rolled_back"
      BY <1>5 DEF AttemptFails, OnError, Compensate, Finish, Enter, Goto
    <2>2. QED
      BY <1>1, <1>5, <2>1
         DEF Control, TrafficInv, ClearedInv, PlaceInv, PreContract, InContract
  <1>6. QED
    BY <1>2, <1>3, <1>4, <1>5

LEMMA ControlStep == TypeOK /\ PlaceInv /\ Control /\ [Next]_vars => Control'
  <1> SUFFICES ASSUME TypeOK, PlaceInv, Control, [Next]_vars
               PROVE  Control'
    OBVIOUS
  <1> USE DEF wfVars, dbVars, histVars, Quiet
  <1> DEFINE Same == UNCHANGED <<phase, approvedAt, traffic, switched>>
  <1>1. ASSUME Same PROVE Control'
    BY <1>1 DEF Control, TrafficInv, ClearedInv, Cleared
  <1>2. CASE Gate
    <2>1. CASE SelectApprove
      <3>1. Head(approvals) \in Phases
        BY <2>1 DEF SelectApprove, TypeOK
      <3>2. QED
        BY <2>1, <3>1, PassControl DEF SelectApprove, PlaceInv
    <2>2. CASE SelectRollback
      BY <2>2, CompensateControl DEF SelectRollback
    <2>3. CASE SelectBlocks
      BY <1>1, <2>3 DEF SelectBlocks
    <2>4. QED
      BY <1>2, <2>1, <2>2, <2>3 DEF Gate
  <1>3. CASE Human
    <2>1. CASE ApproveAtGate
      BY <2>1, PassControl DEF ApproveAtGate, PlaceInv, TypeOK
    <2>2. CASE RollbackAtGate
      BY <2>2, CompensateControl DEF RollbackAtGate
    <2>3. CASE ApproveBuffered \/ RollbackBuffered
      BY <1>1, <2>3 DEF ApproveBuffered, RollbackBuffered
    <2>4. QED
      BY <1>3, <2>1, <2>2, <2>3 DEF Human
  <1>4. CASE QuickActivity
    <2>1. CASE QuickAttemptFails
      <3>1. traffic' = traffic \/ (pc = "SwitchTraffic" /\ traffic' = "green")
        BY <2>1 DEF QuickAttemptFails
      <3>2. QED
        BY <2>1, <3>1, AttemptFailsControl, NameSets DEF QuickAttemptFails
    <2>2. CASE ValidatePlan \/ VerifyExpand \/ CompatAfterExpand
                 \/ CompReleaseReadOnly \/ AcquireReadOnly
      BY <1>1, <2>2 DEF ValidatePlan, VerifyExpand, CompatAfterExpand,
                        CompReleaseReadOnly, AcquireReadOnly
    <2>3. CASE SwitchTraffic
      BY <2>3 DEF SwitchTraffic, Control, TrafficInv, ClearedInv, Cleared,
                  PlaceInv, InContract
    <2>4. CASE ReleaseReadOnly
      <3>1. CASE Compensate
        BY <2>4, <3>1, CompensateControl DEF ReleaseReadOnly
      <3>2. CASE switched /\ Enter("monitoring", "Select")
        BY <2>4, <3>2 DEF ReleaseReadOnly, Enter, Control, TrafficInv, ClearedInv,
                          Cleared, PlaceInv, InContract
      <3>3. QED
        BY <2>4, <3>1, <3>2 DEF ReleaseReadOnly, AfterWindow
    <2>5. CASE CompatBeforeContract
      BY <1>1, <2>5, CompensateControl DEF CompatBeforeContract
    <2>6. CASE VerifyContract
      BY <2>6 DEF VerifyContract, Finish, Enter, Control, TrafficInv, ClearedInv,
                  Cleared, PlaceInv, InContract
    <2>7. QED
      BY <1>4, <2>1, <2>2, <2>3, <2>4, <2>5, <2>6 DEF QuickActivity
  <1>5. CASE DDLActivity
    <2>1. CASE Dispatch
      BY <1>1, <2>1 DEF Dispatch
    <2>2. CASE AttemptTimesOut
      BY <2>2, AttemptFailsControl, NameSets DEF AttemptTimesOut
    <2>3. ASSUME NEW j \in jobs, RunStatement(j) \/ (StatementFails(j) /\ ~IsCurrent(j))
          PROVE  Control'
      BY <1>1, <2>3 DEF RunStatement, StatementFails
    <2>4. ASSUME NEW j \in jobs, StatementFails(j), IsCurrent(j)
          PROVE  Control'
      BY <2>4, AttemptFailsControl, NameSets DEF StatementFails, IsCurrent, TypeOK, Job
    <2>5. ASSUME NEW j \in jobs, JobReturns(j), phase' # phase
          PROVE  Control'
      <3>1. \/ pc = "ExecuteExpand" /\ phase' = "expand_verify"
            \/ pc = "ExecuteRollback" /\ phase' = "rolled_back"
        BY <2>5 DEF JobReturns, Finish, Enter
      <3>2. UNCHANGED <<approvedAt, traffic, switched>>
        BY <2>5 DEF JobReturns
      <3>3. QED
        BY <3>1, <3>2 DEF Control, TrafficInv, ClearedInv, Cleared, PlaceInv,
                          PreContract, InContract
    <2>6. ASSUME NEW j \in jobs, JobReturns(j), phase' = phase
          PROVE  Control'
      BY <1>1, <2>6 DEF JobReturns
    <2>7. QED
      BY <1>5, <2>1, <2>2, <2>3, <2>4, <2>5, <2>6 DEF DDLActivity
  <1>6. CASE StartWorkflow
    BY <1>6 DEF StartWorkflow, Enter, Control, TrafficInv, ClearedInv, Cleared,
                PlaceInv, InContract
  <1>7. CASE NotifyParent \/ Return \/ WindowTimerFires \/ WorkerCrash
    BY <1>1, <1>7 DEF NotifyParent, Return, WindowTimerFires, WorkerCrash
  <1>8. CASE UNCHANGED vars
    BY <1>1, <1>8 DEF vars
  <1>9. QED
    BY <1>2, <1>3, <1>4, <1>5, <1>6, <1>7, <1>8 DEF Next, Progress
-----------------------------------------------------------------------------
(***************************************************************************)
(* What never goes back: a rollback under way, a cleared contract gate.    *)
(***************************************************************************)
LEMMA AttemptFailsUndoing ==
    ASSUME PlaceInv, Undoing, pc \in Activities, AttemptFails
    PROVE  Undoing'
  BY DEF AttemptFails, OnError, AfterWindow, Compensate, Finish, Enter, Goto,
         Undoing, PlaceInv, PreContract, Gates, Terminal

LEMMA UndoingStable == TypeOK /\ PlaceInv /\ Undoing /\ [Next]_vars => Undoing'
  <1> SUFFICES ASSUME TypeOK, PlaceInv, Undoing, [Next]_vars
               PROVE  Undoing'
    OBVIOUS
  <1> USE DEF wfVars
  <1>1. pc \in {"ExecuteRollback", "NotifyParent", "Return", "Closed"}
    BY DEF Undoing, PlaceInv, TypeOK, Places, Activities, DDL, Quick, PreContract,
           Gates, Terminal
  <1>2. CASE Gate \/ StartWorkflow
    BY <1>1, <1>2 DEF Gate, SelectApprove, SelectRollback, SelectBlocks, StartWorkflow
  <1>3. CASE Human
    BY <1>1, <1>3 DEF Human, ApproveAtGate, RollbackAtGate, ApproveBuffered,
                      RollbackBuffered, Undoing
  <1>4. CASE QuickActivity
    BY <1>1, <1>4 DEF QuickActivity, QuickAttemptFails, ValidatePlan, VerifyExpand,
                      CompatAfterExpand, AcquireReadOnly, SwitchTraffic,
                      ReleaseReadOnly, CompatBeforeContract, VerifyContract,
                      CompReleaseReadOnly, Quick
  <1>5. CASE Dispatch
    BY <1>5 DEF Dispatch, Undoing
  <1>6. CASE AttemptTimesOut
    BY <1>6, AttemptFailsUndoing, NameSets DEF AttemptTimesOut
  <1>7. ASSUME NEW j \in jobs, RunStatement(j) \/ (StatementFails(j) /\ ~IsCurrent(j))
        PROVE  Undoing'
    BY <1>7 DEF RunStatement, StatementFails, Undoing
  <1>8. ASSUME NEW j \in jobs, StatementFails(j), IsCurrent(j)
        PROVE  Undoing'
    BY <1>8, AttemptFailsUndoing, NameSets DEF StatementFails, IsCurrent, TypeOK, Job
  <1>9. ASSUME NEW j \in jobs, JobReturns(j)
        PROVE  Undoing'
    BY <1>1, <1>9 DEF JobReturns, Finish, Enter, Goto, Undoing
  <1>10. CASE NotifyParent \/ Return \/ WindowTimerFires \/ WorkerCrash
    BY <1>1, <1>10 DEF NotifyParent, Return, WindowTimerFires, WorkerCrash, Undoing
  <1>11. CASE UNCHANGED vars
    BY <1>11 DEF vars, Undoing
  <1>12. QED
    BY <1>2, <1>3, <1>4, <1>5, <1>6, <1>7, <1>8, <1>9, <1>10, <1>11
       DEF Next, Progress, DDLActivity

\* approvedAt changes at gates only, and there as PassClears says.
LEMMA ApprovedStep ==
    ASSUME TypeOK, PlaceInv, [Next]_vars
    PROVE  \/ UNCHANGED approvedAt
           \/ phase \in Gates /\ \E p \in Phases : Pass(p)
  <1> USE DEF histVars, Quiet
  <1>1. CASE SelectApprove
    BY <1>1 DEF SelectApprove, PlaceInv, TypeOK
  <1>2. CASE ApproveAtGate
    BY <1>2 DEF ApproveAtGate, PlaceInv, TypeOK
  <1>3. CASE SelectRollback \/ SelectBlocks \/ RollbackAtGate \/ ApproveBuffered
               \/ RollbackBuffered \/ StartWorkflow \/ NotifyParent \/ Return
               \/ WindowTimerFires \/ WorkerCrash
    BY <1>3 DEF SelectRollback, SelectBlocks, RollbackAtGate, ApproveBuffered,
                RollbackBuffered, StartWorkflow, NotifyParent, Return,
                WindowTimerFires, WorkerCrash
  <1>4. CASE QuickActivity
    BY <1>4 DEF QuickActivity, QuickAttemptFails, ValidatePlan, VerifyExpand,
                CompatAfterExpand, AcquireReadOnly, SwitchTraffic, ReleaseReadOnly,
                CompatBeforeContract, VerifyContract, CompReleaseReadOnly
  <1>5. CASE DDLActivity
    BY <1>5 DEF DDLActivity, Dispatch, AttemptTimesOut, RunStatement,
                StatementFails, JobReturns
  <1>6. CASE UNCHANGED vars
    BY <1>6 DEF vars
  <1>7. QED
    BY <1>1, <1>2, <1>3, <1>4, <1>5, <1>6 DEF Next, Progress, Human, Gate

LEMMA ClearedStable ==
    ASSUME TypeOK, PlaceInv, [Next]_vars
    PROVE  /\ Cleared => Cleared'
           /\ Cleared' => Cleared \/ phase = "contract_wait"
  <1>1. CASE UNCHANGED approvedAt
    BY <1>1 DEF Cleared
  <1>2. ASSUME phase \in Gates, NEW p \in Phases, Pass(p)
        PROVE  Cleared' <=> (Cleared \/ phase = "contract_wait")
    BY <1>2, PassClears
  <1>3. QED
    BY <1>1, <1>2, ApprovedStep

(***************************************************************************)
(* Jobs and columns.                                                       *)
(***************************************************************************)
\* Where the jobs and the columns after a step come from.
LEMMA JobsStepCases ==
    ASSUME TypeOK, [Next]_vars
    PROVE  \/ jobs' \subseteq jobs /\ UNCHANGED columns
           \/ /\ Dispatch
              /\ jobs' = jobs \cup {[act |-> pc, n |-> attempt, next |-> 1]}
              /\ UNCHANGED <<columns, phase, pc, approvedAt>>
           \/ \E j \in jobs :
                 /\ j.next <= Len(SQL[j.act])
                 /\ columns' = Apply(SQL[j.act][j.next], columns)
                 /\ \/ /\ jobs' = (jobs \ {j}) \cup {[j EXCEPT !.next = @ + 1]}
                       /\ UNCHANGED <<phase, approvedAt>>
                    \/ jobs' \subseteq jobs
  <1> USE DEF dbVars, histVars, wfVars, Quiet
  <1>1. CASE Gate \/ Human
    BY <1>1 DEF Gate, Human, SelectApprove, SelectRollback, SelectBlocks, ApproveAtGate,
                RollbackAtGate, ApproveBuffered, RollbackBuffered
  <1>2. CASE QuickActivity
    BY <1>2 DEF QuickActivity, QuickAttemptFails, ValidatePlan, VerifyExpand,
                CompatAfterExpand, AcquireReadOnly, SwitchTraffic, ReleaseReadOnly,
                CompatBeforeContract, VerifyContract, CompReleaseReadOnly
  <1>3. CASE StartWorkflow \/ NotifyParent \/ Return \/ WindowTimerFires \/ WorkerCrash
    BY <1>3 DEF StartWorkflow, NotifyParent, Return, WindowTimerFires, WorkerCrash
  <1>4. CASE Dispatch \/ AttemptTimesOut
    BY <1>4 DEF Dispatch, AttemptTimesOut
  <1>5. ASSUME NEW j \in jobs, RunStatement(j)
        PROVE  /\ j.next <= Len(SQL[j.act])
               /\ columns' = Apply(SQL[j.act][j.next], columns)
               /\ jobs' = (jobs \ {j}) \cup {[j EXCEPT !.next = @ + 1]}
               /\ UNCHANGED <<phase, approvedAt>>
    BY <1>5 DEF RunStatement, Statements
  <1>6. ASSUME NEW j \in jobs, StatementFails(j)
        PROVE  /\ jobs' \subseteq jobs
               /\ \/ UNCHANGED columns
                  \/ /\ j.next <= Len(SQL[j.act])
                     /\ columns' = Apply(SQL[j.act][j.next], columns)
    BY <1>6 DEF StatementFails, Statements
  <1>7. ASSUME NEW j \in jobs, JobReturns(j)
        PROVE  jobs' \subseteq jobs /\ UNCHANGED columns
    BY <1>7 DEF JobReturns
  <1>8. CASE UNCHANGED vars
    BY <1>8 DEF vars
  <1>9. QED
    BY <1>1, <1>2, <1>3, <1>4, <1>5, <1>6, <1>7, <1>8 DEF Next, Progress, DDLActivity

LEMMA JobsInvStep ==
    TypeOK /\ PlaceInv /\ Control /\ JobsInv /\ [Next]_vars => JobsInv'
  <1> SUFFICES ASSUME TypeOK, PlaceInv, Control, JobsInv, [Next]_vars,
                      NEW k \in jobs'
               PROVE  /\ k.act = "ExecuteContract" => Cleared'
                      /\ k.act = "ExecuteRollback" => Undoing'
    BY DEF JobsInv
  <1>1. ASSUME NEW j \in jobs, k.act = j.act
        PROVE  /\ k.act = "ExecuteContract" => Cleared'
               /\ k.act = "ExecuteRollback" => Undoing'
    BY <1>1, ClearedStable, UndoingStable DEF JobsInv
  <1>2. ASSUME k.act = pc, UNCHANGED <<pc, phase, approvedAt>>
        PROVE  /\ k.act = "ExecuteContract" => Cleared'
               /\ k.act = "ExecuteRollback" => Undoing'
    BY <1>2 DEF PlaceInv, Control, ClearedInv, Undoing, Cleared
  <1>3. CASE jobs' \subseteq jobs
    BY <1>1, <1>3
  <1>4. CASE Dispatch /\ jobs' = jobs \cup {[act |-> pc, n |-> attempt, next |-> 1]}
               /\ UNCHANGED <<pc, phase, approvedAt>>
    BY <1>1, <1>2, <1>4
  <1>5. ASSUME NEW j \in jobs, jobs' = (jobs \ {j}) \cup {[j EXCEPT !.next = @ + 1]}
        PROVE  /\ k.act = "ExecuteContract" => Cleared'
               /\ k.act = "ExecuteRollback" => Undoing'
    <2>1. j \in Job
      BY DEF TypeOK
    <2>2. [j EXCEPT !.next = @ + 1].act = j.act
      BY <2>1 DEF Job
    <2>3. k \in jobs \/ k = [j EXCEPT !.next = @ + 1]
      BY <1>5
    <2>4. QED
      BY <1>1, <2>2, <2>3
  <1>6. QED
    BY <1>3, <1>4, <1>5, JobsStepCases
(***************************************************************************)
(* The blue columns.                                                       *)
(***************************************************************************)
\* Expand statements take nothing away, rollback statements nothing blue,
\* contract statements nothing green: one statement at a time.
LEMMA ApplyKeeps ==
    ASSUME NEW cols \in SUBSET Columns
    PROVE  /\ \A i \in DOMAIN ExpandSQL : cols \subseteq Apply(ExpandSQL[i], cols)
           /\ \A i \in DOMAIN RollbackSQL :
                 BlueCols \subseteq cols => BlueCols \subseteq Apply(RollbackSQL[i], cols)
           /\ \A i \in DOMAIN ContractSQL :
                 GreenCols \cap cols \subseteq Apply(ContractSQL[i], cols)
  <1>1. ASSUME NEW i \in DOMAIN ExpandSQL
        PROVE  cols \subseteq Apply(ExpandSQL[i], cols)
    <2>1. ExpandSQL[i].op = "drop" => ExpandSQL[i].cols \subseteq Dropped(ExpandSQL)
      BY <1>1 DEF Dropped
    <2>2. QED
      BY <2>1, PlanAssumption DEF Apply
  <1>2. ASSUME NEW i \in DOMAIN RollbackSQL, BlueCols \subseteq cols
        PROVE  BlueCols \subseteq Apply(RollbackSQL[i], cols)
    <2>1. RollbackSQL[i].op = "drop" => RollbackSQL[i].cols \subseteq Dropped(RollbackSQL)
      BY <1>2 DEF Dropped
    <2>2. QED
      BY <1>2, <2>1, PlanAssumption DEF Apply
  <1>3. ASSUME NEW i \in DOMAIN ContractSQL
        PROVE  GreenCols \cap cols \subseteq Apply(ContractSQL[i], cols)
    <2>1. ContractSQL[i].op = "drop" => ContractSQL[i].cols \subseteq Dropped(ContractSQL)
      BY <1>3 DEF Dropped
    <2>2. QED
      BY <2>1, PlanAssumption DEF Apply
  <1>4. QED
    BY <1>1, <1>2, <1>3

\* How the columns may change in one step.
LEMMA ColumnsStep ==
    ASSUME TypeOK, JobsInv, [Next]_vars
    PROVE  /\ ~Cleared /\ BlueCols \subseteq columns => BlueCols \subseteq columns'
           /\ ~Undoing => GreenCols \cap columns \subseteq columns'
  <1>1. CASE UNCHANGED columns
    BY <1>1
  <1>2. ASSUME NEW j \in jobs, j.next <= Len(SQL[j.act]),
               columns' = Apply(SQL[j.act][j.next], columns)
        PROVE  /\ ~Cleared /\ BlueCols \subseteq columns => BlueCols \subseteq columns'
               /\ ~Undoing => GreenCols \cap columns \subseteq columns'
    <2>1. j \in Job /\ j.act \in DDL /\ columns \in SUBSET Columns
      BY DEF TypeOK, Job
    <2>2. j.next \in DOMAIN SQL[j.act]
      BY <1>2, <2>1, StatementType
    <2>3. CASE j.act = "ExecuteExpand"
      <3>1. SQL[j.act] = ExpandSQL
        BY <2>3 DEF SQL
      <3>2. columns \subseteq columns'
        BY <1>2, <2>1, <2>2, <3>1, ApplyKeeps
      <3>3. QED
        BY <3>2
    <2>4. CASE j.act = "ExecuteContract"
      <3>1. SQL[j.act] = ContractSQL
        BY <2>4 DEF SQL
      <3>2. GreenCols \cap columns \subseteq columns'
        BY <1>2, <2>1, <2>2, <3>1, ApplyKeeps
      <3>3. Cleared
        BY <2>4 DEF JobsInv
      <3>4. QED
        BY <3>2, <3>3
    <2>5. CASE j.act = "ExecuteRollback"
      <3>1. SQL[j.act] = RollbackSQL
        BY <2>5 DEF SQL
      <3>2. BlueCols \subseteq columns => BlueCols \subseteq columns'
        BY <1>2, <2>1, <2>2, <3>1, ApplyKeeps
      <3>3. Undoing
        BY <2>5 DEF JobsInv
      <3>4. QED
        BY <3>2, <3>3
    <2>6. QED
      BY <2>1, <2>3, <2>4, <2>5 DEF DDL
  <1>3. QED
    BY <1>1, <1>2, JobsStepCases

LEMMA BlueStep ==
    TypeOK /\ PlaceInv /\ JobsInv /\ BlueInv /\ [Next]_vars => BlueInv'
  BY ColumnsStep, ClearedStable DEF BlueInv

(***************************************************************************)
(* The green columns.                                                      *)
(***************************************************************************)
LEMMA GreenUpToStable ==
    ASSUME GreenCols \cap columns \subseteq columns', NEW k \in Nat, GreenUpTo(k)
    PROVE  GreenUpTo(k)'
  BY DEF GreenUpTo

\* When all statements have been executed the green columns are there.
LEMMA GreenUpToEnd ==
    ASSUME NEW k \in Nat, k >= Len(ExpandSQL), GreenUpTo(k)
    PROVE  GreenCols \subseteq columns
  <1> SUFFICES ASSUME NEW c \in GreenCols, c \notin columns
               PROVE  FALSE
    OBVIOUS
  <1>1. c \notin InitialCols
    BY DEF GreenUpTo
  <1>2. PICK i \in DOMAIN ExpandSQL : ExpandSQL[i].op = "add" /\ c \in ExpandSQL[i].cols
    BY <1>1, PlanAssumption DEF Added
  <1>3. i <= k
    BY <1>2, PlanAssumption
  <1>4. QED
    BY <1>2, <1>3 DEF GreenUpTo

\* One more statement executed.
LEMMA GreenUpToNext ==
    ASSUME TypeOK, NEW k \in Nat \ {0}, k \in DOMAIN ExpandSQL, GreenUpTo(k - 1),
           columns' = Apply(ExpandSQL[k], columns)
    PROVE  GreenUpTo(k)'
  <1>1. columns \subseteq columns'
    BY ApplyKeeps DEF TypeOK
  <1>2. ExpandSQL[k].op = "add" => ExpandSQL[k].cols \subseteq columns'
    BY DEF Apply
  <1>3. \A i \in DOMAIN ExpandSQL : i <= k => i <= k - 1 \/ i = k
    BY PlanAssumption
  <1>4. QED
    BY <1>1, <1>2, <1>3 DEF GreenUpTo

\* The deployment is past the expand only if an expand attempt returned.
LEMMA ExpandedStep ==
    ASSUME TypeOK, PlaceInv, [Next]_vars, ~Expanded, Expanded', ~Undoing'
    PROVE  \E j \in jobs : JobReturns(j) /\ j.act = "ExecuteExpand"
  <1> USE DEF wfVars, Quiet
  <1>1. ~Cleared'
    BY ClearedStable DEF Expanded
  <1>2. /\ phase \notin {"expand_verify", "cutover", "monitoring", "contract_wait"}
        /\ phase' \in {"expand_verify", "cutover", "monitoring", "contract_wait"}
    BY <1>1 DEF Expanded
  <1>3. ~(pc \in Activities /\ AttemptFails)
    BY <1>2 DEF AttemptFails, OnError, AfterWindow, Compensate, Finish, Enter, Goto, PlaceInv
  <1>4. ~\E p \in Phases : pc \in {"Select", "Blocked"} /\ Pass(p)
    BY <1>2, BehindGates DEF Pass, Enter, PlaceInv, Gates
  <1>5. ~Gate
    BY <1>2, <1>4 DEF Gate, SelectApprove, SelectRollback, SelectBlocks, Compensate, TypeOK
  <1>6. ~Human
    BY <1>2, <1>4 DEF Human, ApproveAtGate, RollbackAtGate, ApproveBuffered,
                      RollbackBuffered, Compensate, TypeOK
  <1>7. ~QuickActivity
    BY <1>2, <1>3, NameSets
       DEF QuickActivity, QuickAttemptFails, ValidatePlan, VerifyExpand,
           CompatAfterExpand, AcquireReadOnly, SwitchTraffic, ReleaseReadOnly,
           CompatBeforeContract, VerifyContract, CompReleaseReadOnly,
           AfterWindow, Compensate, Finish, Enter, PlaceInv
  <1>8. ~(StartWorkflow \/ NotifyParent \/ Return \/ WindowTimerFires \/ WorkerCrash
            \/ Dispatch \/ AttemptTimesOut \/ UNCHANGED vars)
    BY <1>2, <1>3, NameSets
       DEF StartWorkflow, NotifyParent, Return, WindowTimerFires, WorkerCrash, Dispatch,
           AttemptTimesOut, Enter, vars
  <1>9. ASSUME NEW j \in jobs, RunStatement(j) \/ StatementFails(j)
        PROVE  FALSE
    BY <1>2, <1>3, <1>9, NameSets DEF RunStatement, StatementFails, IsCurrent, TypeOK, Job
  <1>10. PICK j \in jobs : JobReturns(j)
    BY <1>5, <1>6, <1>7, <1>8, <1>9 DEF Next, Progress, DDLActivity
  <1>11. j.act = "ExecuteExpand"
    BY <1>2, <1>10 DEF JobReturns, IsCurrent, Finish, Enter
  <1>12. QED
    BY <1>10, <1>11

LEMMA ExpandInvStep ==
    TypeOK /\ PlaceInv /\ JobsInv /\ ExpandInv /\ [Next]_vars => ExpandInv'
  <1> SUFFICES ASSUME TypeOK, PlaceInv, JobsInv, ExpandInv, [Next]_vars, ~Undoing'
               PROVE  /\ GreenUpTo(0)'
                      /\ \A k \in jobs' : k.act = "ExecuteExpand" => GreenUpTo(k.next - 1)'
                      /\ Expanded' => (GreenCols \subseteq columns)'
    BY DEF ExpandInv
  <1>1. ~Undoing
    BY UndoingStable
  <1>2. /\ GreenUpTo(0)
        /\ \A j \in jobs : j.act = "ExecuteExpand" => GreenUpTo(j.next - 1)
        /\ Expanded => GreenCols \subseteq columns
    BY <1>1 DEF ExpandInv
  <1>3. GreenCols \cap columns \subseteq columns'
    BY <1>1, ColumnsStep
  <1>4. GreenUpTo(0)'
    BY <1>2, <1>3, GreenUpToStable
  <1>5. ASSUME NEW j \in jobs, j.act = "ExecuteExpand"
        PROVE  GreenUpTo(j.next - 1)'
    BY <1>2, <1>3, <1>5, GreenUpToStable DEF TypeOK, Job
  <1>6. ASSUME NEW k \in jobs', k.act = "ExecuteExpand"
        PROVE  GreenUpTo(k.next - 1)'
    <2>1. CASE jobs' \subseteq jobs
      BY <1>5, <1>6, <2>1
    <2>2. CASE jobs' = jobs \cup {[act |-> pc, n |-> attempt, next |-> 1]}
      BY <1>4, <1>5, <1>6, <2>2
    <2>3. ASSUME NEW j \in jobs, j.next <= Len(SQL[j.act]),
                 columns' = Apply(SQL[j.act][j.next], columns),
                 jobs' = (jobs \ {j}) \cup {[j EXCEPT !.next = @ + 1]}
          PROVE  GreenUpTo(k.next - 1)'
      <3>1. j \in Job /\ j.next \in Nat \ {0}
        BY DEF TypeOK, Job
      <3>2. CASE k = [j EXCEPT !.next = @ + 1]
        <4>1. j.act = "ExecuteExpand" /\ k.next - 1 = j.next
          BY <1>6, <3>1, <3>2 DEF Job
        <4>2. j.next \in DOMAIN ExpandSQL /\ columns' = Apply(ExpandSQL[j.next], columns)
          BY <2>3, <3>1, <4>1, StatementType DEF SQL
        <4>3. GreenUpTo(j.next)'
          BY <1>2, <3>1, <4>1, <4>2, GreenUpToNext
        <4>4. QED
          BY <4>1, <4>3
      <3>3. CASE k \in jobs
        BY <1>5, <1>6, <3>3
      <3>4. QED
        BY <2>3, <3>2, <3>3
    <2>4. QED
      BY <2>1, <2>2, <2>3, JobsStepCases
  <1>7. ASSUME Expanded'
        PROVE  GreenCols \subseteq columns'
    <2>1. CASE Expanded
      BY <1>2, <1>3, <2>1
    <2>2. CASE ~Expanded
      <3>1. PICK j \in jobs : JobReturns(j) /\ j.act = "ExecuteExpand"
        BY <1>7, <2>2, ExpandedStep
      <3>2. j.next > Len(ExpandSQL) /\ UNCHANGED columns
        BY <3>1 DEF JobReturns, Statements, SQL, dbVars
      <3>3. j.next - 1 \in Nat /\ j.next - 1 >= Len(ExpandSQL)
        BY <3>2, PlanAssumption DEF TypeOK, Job
      <3>4. GreenCols \subseteq columns
        BY <1>2, <3>1, <3>3, GreenUpToEnd
      <3>5. QED
        BY <3>2, <3>4
    <2>3. QED
      BY <2>1, <2>2
  <1>8. QED
    BY <1>4, <1>6, <1>7
-----------------------------------------------------------------------------
(***************************************************************************)
(* The inductive invariant and what follows from it.                       *)
(***************************************************************************)
LEMMA InitIInv == Init => IInv
  <1> SUFFICES ASSUME Init
               PROVE  IInv
    OBVIOUS
  <1>1. RestOK
    BY PlaceNames, PhaseNames DEF Init, RestOK, Columns
  <1>2. BoolOK
    BY DEF Init, BoolOK
  <1>3. TypeOK /\ PlaceInv
    BY <1>1, <1>2 DEF Init, TypeOK, RestOK, BoolOK, PlaceInv, Terminal
  <1>4. ~Cleared /\ ~Expanded
    BY DEF Init, Cleared, Expanded, Gates
  <1>5. TrafficInv /\ ClearedInv /\ JobsInv
    BY <1>4 DEF Init, TrafficInv, ClearedInv, JobsInv
  <1>6. BlueInv
    BY PlanAssumption DEF Init, BlueInv
  <1>7. GreenUpTo(0)
    BY PlanAssumption DEF Init, GreenUpTo
  <1>8. ExpandInv
    BY <1>4, <1>7 DEF Init, ExpandInv
  <1>9. QED
    BY <1>3, <1>5, <1>6, <1>8 DEF IInv

LEMMA NextIInv == IInv /\ [Next]_vars => IInv'
  <1> SUFFICES ASSUME IInv, [Next]_vars
               PROVE  IInv'
    OBVIOUS
  <1>1. TypeOK /\ PlaceInv /\ Control /\ JobsInv /\ BlueInv /\ ExpandInv
    BY DEF IInv, Control
  <1>2. TypeOK' /\ PlaceInv'
    BY <1>1, TypeStep, PlaceStep
  <1>3. TrafficInv' /\ ClearedInv'
    BY <1>1, ControlStep DEF Control
  <1>4. JobsInv' /\ BlueInv' /\ ExpandInv'
    BY <1>1, JobsInvStep, BlueStep, ExpandInvStep
  <1>5. QED
    BY <1>2, <1>3, <1>4 DEF IInv

\* The invariant the theorems below rest on holds in every reachable state.
THEOREM InductiveInvariant == Spec => []IInv
  BY InitIInv, NextIInv, PTL DEF Spec

\* Until the contract gate has been cleared with traffic on green, the blue
\* application finds all its columns, for every plan whose rollback
\* statements spare them (domain.go:178-183).
THEOREM BlueAlwaysServable == Spec => []BlueServable
  <1>1. IInv => BlueServable
    BY DEF IInv, BlueInv, Cleared, ClearedInv, BlueServable
  <1>2. QED
    BY <1>1, InductiveInvariant, PTL

\* With traffic on green and no compensation, the green application finds
\* all its columns: an expand statement that was skipped, repeated or left
\* over never leaves a gap behind the cutover (activities.go:62-85).
THEOREM GreenAlwaysServable == Spec => []GreenServable
  <1>1. ASSUME IInv, traffic = "green", ~Compensating
        PROVE  GreenCols \subseteq columns
    <2>1. ~Undoing
      BY <1>1 DEF Compensating, Undoing
    <2>2. phase \in {"cutover", "monitoring", "contract_wait", "contracting",
                     "complete", "failed"}
      BY <1>1 DEF IInv, TypeOK, TrafficInv, Phases, Gates, Terminal, Compensating
    <2>3. Expanded
      BY <1>1, <2>2 DEF IInv, ClearedInv, Expanded
    <2>4. QED
      BY <1>1, <2>1, <2>3 DEF IInv, ExpandInv
  <1>2. IInv => GreenServable
    BY <1>1 DEF GreenServable
  <1>3. QED
    BY <1>2, InductiveInvariant, PTL

\* No attempt of the rollback SQL lives once the contract gate is cleared,
\* and no attempt of the contract SQL before it or in a run that rolls back
\* (workflow.go:272-282).
THEOREM ContractExcludesRollback == Spec => []ContractXorRollback
  <1>1. ASSUME IInv
        PROVE  ContractXorRollback
    <2>1. ~(Undoing /\ Cleared)
      BY <1>1 DEF IInv, ClearedInv, PlaceInv, Undoing, InContract, PreContract
    <2>2. Cleared => phase \in InContract
      BY <1>1 DEF IInv, ClearedInv
    <2>3. QED
      BY <1>1, <2>1, <2>2 DEF IInv, JobsInv, ContractXorRollback, Cleared
  <1>2. QED
    BY <1>1, InductiveInvariant, PTL
-----------------------------------------------------------------------------
(***************************************************************************)
(* Refinement.  Every step of a run is a step of DeploymentLifecycle or    *)
(* leaves its variables alone.                                             *)
(***************************************************************************)
\* The notification is the step before the last.
NoticeInv == pc \notin {"Return", "Closed"} => notices = 0

\* The abstract variables but the notices.
Abstract == <<phase, approvedAt, columns>>

Advances ==
    /\ phase \in DOMAIN Lifecycle!Forward
    /\ phase' = Lifecycle!Forward[phase]
    /\ Cleared' <=> (Cleared \/ phase = "contract_wait")
    /\ UNCHANGED <<columns, notices>>

Undoes ==
    /\ phase \in PreContract
    /\ phase' = "rolled_back"
    /\ UNCHANGED <<approvedAt, notices>>

Fails ==
    /\ \/ phase = "plan_review" /\ UNCHANGED columns
       \/ phase = "contracting"
    /\ phase' = "failed"
    /\ UNCHANGED <<approvedAt, notices>>

ChangesColumns == UNCHANGED <<phase, approvedAt, notices>>

Notifies ==
    /\ pc = "NotifyParent"
    /\ notices' \in {notices, notices + 1}
    /\ UNCHANGED Abstract

AbstractStep == Advances \/ Undoes \/ Fails \/ ChangesColumns \/ Notifies

LEMMA AttemptFailsSimulates ==
    ASSUME PlaceInv, pc \in Activities, AttemptFails, UNCHANGED <<approvedAt, notices>>,
           pc \notin DDL => UNCHANGED columns
    PROVE  AbstractStep
  <1>1. CASE phase' = phase
    BY <1>1 DEF AbstractStep, ChangesColumns
  <1>2. CASE phase' # phase
    <2>1. \/ pc = "ValidatePlan" /\ phase' = "failed"
          \/ pc = "ReleaseReadOnly" /\ phase' = "monitoring"
          \/ pc = "ExecuteContract" /\ phase' = "failed"
          \/ pc = "VerifyContract" /\ phase' = "complete"
          \/ pc = "ExecuteRollback" /\ phase' = "rolled_back"
      BY <1>2 DEF AttemptFails, OnError, AfterWindow, Compensate, Finish, Enter, Goto
    <2>2. pc = "ValidatePlan" => Fails
      BY <2>1 DEF Fails, PlaceInv, DDL
    <2>3. pc = "ExecuteContract" => Fails
      BY <2>1 DEF Fails, PlaceInv
    <2>4. pc = "ExecuteRollback" => Undoes
      BY <2>1 DEF Undoes, PlaceInv
    <2>5. pc \in {"ReleaseReadOnly", "VerifyContract"} => Advances
      BY <2>1 DEF Advances, PlaceInv, DDL, Cleared, Lifecycle!Forward
    <2>6. QED
      BY <2>1, <2>2, <2>3, <2>4, <2>5 DEF AbstractStep
  <1>3. QED
    BY <1>1, <1>2

LEMMA StepSimulates == TypeOK /\ PlaceInv /\ [Next]_vars => AbstractStep
  <1> SUFFICES ASSUME TypeOK, PlaceInv, [Next]_vars
               PROVE  AbstractStep
    OBVIOUS
  <1> USE DEF dbVars, histVars, wfVars, Quiet
  <1>1. ASSUME phase \in Gates, NEW p \in Phases, Pass(p), UNCHANGED <<columns, notices>>
        PROVE  Advances
    <2>1. Cleared' <=> (Cleared \/ phase = "contract_wait")
      BY <1>1, PassClears
    <2>2. QED
      BY <1>1, <2>1 DEF Advances, Pass, Enter, Gates, PhaseAfter, Lifecycle!Forward
  <1>2. CASE SelectApprove
    <2>1. phase \in Gates /\ Head(approvals) \in Phases /\ Pass(Head(approvals))
      BY <1>2 DEF SelectApprove, PlaceInv, TypeOK
    <2>2. UNCHANGED <<columns, notices>>
      BY <1>2 DEF SelectApprove
    <2>3. QED
      BY <1>1, <2>1, <2>2 DEF AbstractStep
  <1>3. CASE ApproveAtGate
    <2>1. phase \in Gates /\ phase \in Phases /\ Pass(phase)
      BY <1>3 DEF ApproveAtGate, PlaceInv, TypeOK
    <2>2. UNCHANGED <<columns, notices>>
      BY <1>3 DEF ApproveAtGate
    <2>3. QED
      BY <1>1, <2>1, <2>2 DEF AbstractStep
  <1>4. CASE SelectRollback \/ SelectBlocks \/ RollbackAtGate \/ ApproveBuffered
               \/ RollbackBuffered \/ Return \/ WindowTimerFires \/ WorkerCrash
               \/ Dispatch
    BY <1>4 DEF SelectRollback, SelectBlocks, RollbackAtGate, ApproveBuffered,
                RollbackBuffered, Return, WindowTimerFires, WorkerCrash, Dispatch,
                Compensate, AbstractStep, ChangesColumns
  <1>5. CASE StartWorkflow
    BY <1>5 DEF StartWorkflow, Enter, PlaceInv, Cleared, AbstractStep, Advances,
                Lifecycle!Forward
  <1>6. CASE NotifyParent
    BY <1>6 DEF NotifyParent, Abstract, AbstractStep, Notifies
  <1>7. CASE ReleaseReadOnly
    BY <1>7 DEF ReleaseReadOnly, AfterWindow, Compensate, Enter, PlaceInv, Cleared,
                AbstractStep, ChangesColumns, Advances, Lifecycle!Forward
  <1>8. CASE VerifyContract
    BY <1>8 DEF VerifyContract, Finish, Enter, PlaceInv, Cleared, AbstractStep,
                Advances, Lifecycle!Forward
  <1>9. CASE ValidatePlan \/ VerifyExpand \/ CompatAfterExpand \/ AcquireReadOnly
               \/ SwitchTraffic \/ CompatBeforeContract \/ CompReleaseReadOnly
    BY <1>9 DEF ValidatePlan, VerifyExpand, CompatAfterExpand, AcquireReadOnly,
                SwitchTraffic, CompatBeforeContract, CompReleaseReadOnly, Compensate,
                AbstractStep, ChangesColumns
  <1>10. CASE QuickAttemptFails
    BY <1>10, AttemptFailsSimulates, NameSets DEF QuickAttemptFails
  <1>11. CASE AttemptTimesOut
    BY <1>11, AttemptFailsSimulates, NameSets DEF AttemptTimesOut
  <1>12. ASSUME NEW j \in jobs, RunStatement(j) \/ (StatementFails(j) /\ ~IsCurrent(j))
         PROVE  AbstractStep
    BY <1>12 DEF RunStatement, StatementFails, AbstractStep, ChangesColumns
  <1>13. ASSUME NEW j \in jobs, StatementFails(j), IsCurrent(j)
         PROVE  AbstractStep
    <2>1. pc \in DDL /\ pc \in Activities
      BY <1>13, NameSets DEF IsCurrent, TypeOK, Job
    <2>2. QED
      BY <1>13, <2>1, AttemptFailsSimulates DEF StatementFails
  <1>14. ASSUME NEW j \in jobs, JobReturns(j), phase' = phase
         PROVE  AbstractStep
    BY <1>14 DEF JobReturns, AbstractStep, ChangesColumns
  <1>15. ASSUME NEW j \in jobs, JobReturns(j), pc = "ExecuteExpand", phase' # phase
         PROVE  Advances
    BY <1>15 DEF JobReturns, Enter, PlaceInv, Cleared, Advances, Lifecycle!Forward
  <1>16. ASSUME NEW j \in jobs, JobReturns(j), pc # "ExecuteExpand", phase' # phase
         PROVE  Undoes
    BY <1>16 DEF JobReturns, Finish, Enter, PlaceInv, Undoes
  <1>17. CASE UNCHANGED vars
    BY <1>17 DEF vars, AbstractStep, ChangesColumns
  <1>18. QED
    BY <1>2, <1>3, <1>4, <1>5, <1>6, <1>7, <1>8, <1>9, <1>10, <1>11, <1>12, <1>13,
       <1>14, <1>15, <1>16, <1>17
       DEF Next, Progress, Human, Gate, QuickActivity, DDLActivity, AbstractStep

LEMMA NoticeStep == TypeOK /\ PlaceInv /\ NoticeInv /\ [Next]_vars => NoticeInv'
  <1> SUFFICES ASSUME TypeOK, PlaceInv, NoticeInv, [Next]_vars
               PROVE  NoticeInv'
    OBVIOUS
  <1> USE DEF histVars, wfVars, Quiet, NoticeInv
  <1>1. CASE Gate \/ Human
    <2>1. UNCHANGED notices
      BY <1>1 DEF Gate, Human, SelectApprove, SelectRollback, SelectBlocks,
                  ApproveAtGate, RollbackAtGate, ApproveBuffered, RollbackBuffered
    <2>2. pc \in {"Return", "Closed"} => UNCHANGED pc
      BY <1>1 DEF Gate, Human, SelectApprove, SelectRollback, SelectBlocks,
                  ApproveAtGate, RollbackAtGate, ApproveBuffered, RollbackBuffered
    <2>3. QED
      BY <2>1, <2>2
  <1>2. CASE QuickActivity
    <2>1. UNCHANGED notices /\ pc \in Quick
      BY <1>2 DEF QuickActivity, QuickAttemptFails, ValidatePlan, VerifyExpand,
                  CompatAfterExpand, AcquireReadOnly, SwitchTraffic, ReleaseReadOnly,
                  CompatBeforeContract, VerifyContract, CompReleaseReadOnly, Quick
    <2>2. QED
      BY <2>1 DEF Quick
  <1>3. CASE NotifyParent \/ Return
    BY <1>3 DEF NotifyParent, Return
  <1>4. CASE StartWorkflow \/ WindowTimerFires \/ WorkerCrash
    BY <1>4 DEF StartWorkflow, WindowTimerFires, WorkerCrash
  <1>5. CASE Dispatch \/ AttemptTimesOut
    BY <1>5 DEF Dispatch, AttemptTimesOut, DDL
  <1>6. ASSUME NEW j \in jobs, RunStatement(j) \/ StatementFails(j) \/ JobReturns(j)
        PROVE  NoticeInv'
    <2>1. UNCHANGED notices
      BY <1>6 DEF RunStatement, StatementFails, JobReturns
    <2>2. UNCHANGED pc \/ IsCurrent(j)
      BY <1>6 DEF RunStatement, StatementFails, JobReturns
    <2>3. IsCurrent(j) => pc \in DDL
      BY DEF IsCurrent, TypeOK, Job
    <2>4. QED
      BY <2>1, <2>2, <2>3 DEF DDL
  <1>7. CASE UNCHANGED vars
    BY <1>7 DEF vars
  <1>8. QED
    BY <1>1, <1>2, <1>3, <1>4, <1>5, <1>6, <1>7 DEF Next, Progress, DDLActivity

\* An abstract step taken where the inductive invariant holds is a step of
\* DeploymentLifecycle: blue columns only change behind the contract gate.
LEMMA AbstractNext ==
    ASSUME IInv, IInv', NoticeInv, AbstractStep
    PROVE  [Lifecycle!Next]_(Lifecycle!vars)
  <1> DEFINE blue == BlueCols \subseteq columns
  <1>1. ~Cleared => blue
    BY DEF IInv, BlueInv
  <1>2. ~Cleared' => blue'
    BY DEF IInv, BlueInv
  <1>3. CASE Advances
    <2>1. UNCHANGED columns
      BY <1>3 DEF Advances
    <2>2. Lifecycle!Advance
      BY <1>3, <2>1 DEF Advances, Cleared, Lifecycle!Advance
    <2>3. QED
      BY <2>2 DEF Lifecycle!Next
  <1>4. CASE Undoes
    <2>1. ~Cleared /\ ~Cleared'
      BY <1>4 DEF Undoes, Cleared, IInv, ClearedInv, PreContract, InContract
    <2>2. blue /\ blue'
      BY <1>1, <1>2, <2>1
    <2>3. Lifecycle!Undo
      BY <1>4, <2>2 DEF Undoes, PreContract, Lifecycle!Undo, Lifecycle!BeforeContract
    <2>4. QED
      BY <2>3 DEF Lifecycle!Next
  <1>5. CASE Fails
    <2>1. Lifecycle!Fail
      BY <1>5 DEF Fails, Lifecycle!Fail
    <2>2. QED
      BY <2>1 DEF Lifecycle!Next
  <1>6. CASE ChangesColumns /\ Cleared
    <2>1. Lifecycle!Contract
      BY <1>6 DEF ChangesColumns, Cleared, Lifecycle!Contract
    <2>2. QED
      BY <2>1 DEF Lifecycle!Next
  <1>7. CASE ChangesColumns /\ ~Cleared
    <2>1. ~Cleared'
      BY <1>7 DEF ChangesColumns, Cleared
    <2>2. blue /\ blue'
      BY <1>1, <1>2, <1>7, <2>1
    <2>3. QED
      BY <1>7, <2>2 DEF ChangesColumns, Lifecycle!vars
  <1>8. CASE Notifies
    <2>1. notices = 0 /\ phase \in Terminal
      BY <1>8 DEF Notifies, NoticeInv, IInv, PlaceInv
    <2>2. CASE notices' = notices
      BY <1>8, <2>2 DEF Notifies, Abstract, Lifecycle!vars
    <2>3. CASE notices' = notices + 1
      <3>1. Lifecycle!Notify
        BY <1>8, <2>1, <2>3 DEF Notifies, Abstract, Terminal, Lifecycle!Notify,
                                Lifecycle!Terminal
      <3>2. QED
        BY <3>1 DEF Lifecycle!Next
    <2>4. QED
      BY <1>8, <2>2, <2>3 DEF Notifies
  <1>9. QED
    BY <1>3, <1>4, <1>5, <1>6, <1>7, <1>8 DEF AbstractStep

\* A run, with its retries, leftover attempts, crashes and signals, is a
\* DeploymentLifecycle: it follows the phase diagram of workflow.go:36-41,
\* touches the blue columns only behind the contract gate, and notifies the
\* coordinator at most once, in a terminal phase.
THEOREM RefinesLifecycle == Spec => ImplementsLifecycle
  <1>1. Init => Lifecycle!Init
    <2> SUFFICES ASSUME Init
                 PROVE  Lifecycle!Init
      OBVIOUS
    <2>1. approvedAt["contract_wait"] = NoPhase
      BY DEF Init, Gates
    <2>2. BlueCols \subseteq columns
      BY PlanAssumption DEF Init
    <2>3. QED
      BY <2>1, <2>2 DEF Init, Lifecycle!Init
  <1>2. Init => NoticeInv
    BY DEF Init, NoticeInv
  <1>3. IInv /\ NoticeInv /\ [Next]_vars => NoticeInv'
    BY NoticeStep DEF IInv
  <1>4. IInv /\ IInv' /\ NoticeInv /\ [Next]_vars => [Lifecycle!Next]_(Lifecycle!vars)
    BY StepSimulates, AbstractNext DEF IInv
  <1>5. QED
    BY <1>1, <1>2, <1>3, <1>4, InductiveInvariant, PTL
       DEF Spec, ImplementsLifecycle, Lifecycle!Spec

\* What the abstract specification promises, said of its variables.
Promised ==
    /\ phase \in {"contracting", "complete"} \/ ~(BlueCols \subseteq columns) => Cleared
    /\ notices \in {0, 1}
    /\ notices = 1 => phase \in Terminal

LEMMA LifecyclePromises == Lifecycle!Spec => []Promised
  <1> USE DEF Promised, Cleared, Terminal
  <1>1. Lifecycle!Init => Promised
    BY DEF Lifecycle!Init
  <1>2. Promised /\ [Lifecycle!Next]_(Lifecycle!vars) => Promised'
    <2> SUFFICES ASSUME Promised, [Lifecycle!Next]_(Lifecycle!vars)
                 PROVE  Promised'
      OBVIOUS
    <2>1. CASE Lifecycle!Advance
      BY <2>1 DEF Lifecycle!Advance, Lifecycle!Forward
    <2>2. CASE Lifecycle!Undo
      BY <2>2 DEF Lifecycle!Undo, Lifecycle!BeforeContract
    <2>3. CASE Lifecycle!Fail
      BY <2>3 DEF Lifecycle!Fail
    <2>4. CASE Lifecycle!Contract
      BY <2>4 DEF Lifecycle!Contract
    <2>5. CASE Lifecycle!Notify
      BY <2>5 DEF Lifecycle!Notify, Lifecycle!Terminal
    <2>6. CASE UNCHANGED Lifecycle!vars
      BY <2>6 DEF Lifecycle!vars
    <2> QED
      BY <2>1, <2>2, <2>3, <2>4, <2>5, <2>6 DEF Lifecycle!Next
  <1> QED
    BY <1>1, <1>2, PTL DEF Lifecycle!Spec

\* Carried over to the run: it never contracts, nor loses a blue column,
\* before its contract gate is cleared, and its parent hears from it at most
\* once, when it is over (workflow.go:36-41 and 80-93).
THEOREM RunKeepsPromises == Spec => []Promised
  BY RefinesLifecycle, LifecyclePromises, PTL DEF ImplementsLifecycle
=============================================================================
