------------------------- MODULE SharedSchemaProofs -------------------------
(***************************************************************************)
(* SharedSchema refines DatabaseOps, and what the lock is worth to the     *)
(* table: for every set of plans, requests and dashboard pages, whatever   *)
(* columns the plans share.                                                *)
(***************************************************************************)
EXTENDS SharedSchema, DatabaseOpsProofs

Phase == SQL \cup {"review", "expanded", "complete", "rolled_back", "failed"}

\* The variables that are the schema's own.
TableOK ==
    /\ work \in [Plans -> Phase]
    /\ leftover \subseteq Plans \X SQL
    /\ columns \subseteq Columns

PagesOK == clicked \in [Pages -> Plans \cup {NoPlan}]

BoolsOK == attempt \in [Plans -> BOOLEAN] /\ overran \in BOOLEAN

\* Only a run that is at work waits for an attempt, of the SQL of its phase.
AttemptsOfRuns == \A p \in Plans : attempt[p] => run[p] = "running" /\ work[p] \in SQL

\* A run with its columns in place.
Expanded(p) == run[p] = "running" /\ work[p] \in {"expanded", "contracting", "complete"}

\* Why PromptExpandIntact holds: with no attempt left over, only the attempt
\* of the one run at work changes the table.
ExpandKept ==
    ~overran => leftover = {} /\ \A p \in Plans : Expanded(p) => Adds[p] \subseteq columns

SharedInv ==
    IInv /\ TableOK /\ PagesOK /\ BoolsOK /\ AttemptsOfRuns /\ ExpandKept

LEMMA SharedTypeParts ==
    IInv /\ TableOK /\ PagesOK /\ BoolsOK /\ AttemptsOfRuns => SharedTypeOK
  BY DEF IInv, TableOK, PagesOK, BoolsOK, AttemptsOfRuns, SharedTypeOK, Phase

LEMMA InitShared == SharedInit => SharedInv
  <1> SUFFICES ASSUME SharedInit
               PROVE  SharedInv
    OBVIOUS
  <1>1. IInv
    BY InitIInv DEF SharedInit
  <1>2. TableOK
    BY DEF SharedInit, TableOK, Phase, Columns
  <1>3. PagesOK
    BY DEF SharedInit, PagesOK
  <1>4. BoolsOK
    BY DEF SharedInit, BoolsOK
  <1>5. AttemptsOfRuns
    BY DEF SharedInit, AttemptsOfRuns
  <1>6. ExpandKept
    BY DEF SharedInit, Init, ExpandKept, Expanded
  <1> QED
    BY <1>1, <1>2, <1>3, <1>4, <1>5, <1>6 DEF SharedInv

-----------------------------------------------------------------------------
(***************************************************************************)
(* Every step is one of DatabaseOps or a stutter of it.                    *)
(***************************************************************************)
\* A click signals a run that is open, or finds none and changes nothing.
LEMMA ClickSimulates ==
    ASSUME TypeOK, PagesOK, NEW d \in Pages, SignalRollback(d)
    PROVE  \/ PressRollback(clicked[d])
           \/ UNCHANGED vars
  <1> DEFINE p == clicked[d]
  <1>1. p \in Plans
    BY DEF SignalRollback, PagesOK
  <1>2. CASE run[p] = "running"
    <2>1. (rollback[p] \/ run[p] = "running") = TRUE
      BY <1>2
    <2>2. rollback' = [rollback EXCEPT ![p] = TRUE]
      BY <2>1 DEF SignalRollback
    <2> QED
      BY <1>2, <2>2 DEF SignalRollback, PressRollback
  <1>3. CASE run[p] # "running"
    <2>0. rollback \in [Plans -> BOOLEAN]
      BY DEF TypeOK
    <2>1. (rollback[p] \/ run[p] = "running") = rollback[p]
      BY <1>1, <1>3, <2>0
    <2>2. rollback' = [rollback EXCEPT ![p] = rollback[p]]
      BY <2>1 DEF SignalRollback
    <2>3. rollback' = rollback
      BY <1>1, <2>0, <2>2
    <2> QED
      BY <2>3 DEF SignalRollback, vars, runVars
  <1> QED
    BY <1>2, <1>3

LEMMA SharedStepSimulates ==
    TypeOK /\ PagesOK /\ [SharedNext]_sharedVars => [Next]_vars
  <1> SUFFICES ASSUME TypeOK, PagesOK, [SharedNext]_sharedVars
               PROVE  [Next]_vars
    OBVIOUS
  <1>1. CASE CoordinatorStep
    BY <1>1 DEF CoordinatorStep, Next, RequestStep
  <1>2. ASSUME NEW c \in Requests, StartDeployment(c)
        PROVE  [Next]_vars
    BY <1>2 DEF StartDeployment, Next, RequestStep
  <1>3. ASSUME NEW p \in Plans, SchemaStep(p)
        PROVE  [Next]_vars
    <2>1. CASE End(p)
      BY <2>1 DEF End, Next
    <2>2. CASE ~End(p)
      BY <1>3, <2>2 DEF SchemaStep, Expand, Contract, Compensate, Retry, Dispatch,
         AttemptSucceeds, AttemptFails, AttemptTimesOut, LeftoverEnds
    <2> QED
      BY <2>1, <2>2
  <1>4. ASSUME NEW d \in Pages, ReadActivePlan(d) \/ SignalRollback(d)
        PROVE  [Next]_vars
    <2>1. CASE ReadActivePlan(d)
      BY <2>1 DEF ReadActivePlan
    <2>2. CASE SignalRollback(d)
      <3>1. clicked[d] \in Plans
        BY <2>2 DEF SignalRollback, PagesOK
      <3> QED
        BY <2>2, <3>1, ClickSimulates DEF Next
    <2> QED
      BY <1>4, <2>1, <2>2
  <1>5. CASE UNCHANGED sharedVars
    BY <1>5 DEF sharedVars
  <1> QED
    BY <1>1, <1>2, <1>3, <1>4, <1>5 DEF SharedNext

-----------------------------------------------------------------------------
(***************************************************************************)
(* Types.                                                                  *)
(***************************************************************************)
LEMMA EffectType ==
    ASSUME NEW p \in Plans, NEW sql \in SQL, columns \subseteq Columns
    PROVE  Effect(p, sql, columns) \subseteq Columns
  <1>1. Adds[p] \subseteq Columns
    BY DEF Columns
  <1> QED
    BY <1>1 DEF Effect, SQL

LEMMA SharedTypeStep ==
    SharedInv /\ [SharedNext]_sharedVars => (TableOK /\ PagesOK /\ BoolsOK)'
  <1> SUFFICES ASSUME SharedInv, [SharedNext]_sharedVars
               PROVE  (TableOK /\ PagesOK /\ BoolsOK)'
    OBVIOUS
  <1> USE DEF SharedInv, TableOK, PagesOK, BoolsOK
  <1>1. CASE CoordinatorStep
    BY <1>1 DEF CoordinatorStep, schemaVars
  <1>2. ASSUME NEW c \in Requests, StartDeployment(c)
        PROVE  (TableOK /\ PagesOK /\ BoolsOK)'
    BY <1>2, LockAssumption DEF StartDeployment, Phase
  <1>3. ASSUME NEW p \in Plans, NEW sql \in SQL, Dispatch(p, sql)
        PROVE  (TableOK /\ PagesOK /\ BoolsOK)'
    BY <1>3 DEF Dispatch, Phase
  <1>4. ASSUME NEW p \in Plans, AttemptSucceeds(p)
        PROVE  (TableOK /\ PagesOK /\ BoolsOK)'
    <2>1. work[p] \in SQL
      BY <1>4 DEF AttemptSucceeds, AttemptsOfRuns
    <2>2. columns' \subseteq Columns
      BY <1>4, <2>1, EffectType DEF AttemptSucceeds
    <2>3. work' \in [Plans -> Phase]
      BY <1>4, <2>1 DEF AttemptSucceeds, Phase, SQL
    <2> QED
      BY <1>4, <2>2, <2>3 DEF AttemptSucceeds
  <1>5. ASSUME NEW p \in Plans, AttemptFails(p)
        PROVE  (TableOK /\ PagesOK /\ BoolsOK)'
    <2>1. work[p] \in SQL
      BY <1>5 DEF AttemptFails, AttemptsOfRuns
    <2> QED
      BY <1>5, <2>1, EffectType DEF AttemptFails
  <1>6. ASSUME NEW p \in Plans, AttemptTimesOut(p)
        PROVE  (TableOK /\ PagesOK /\ BoolsOK)'
    <2>1. work[p] \in SQL
      BY <1>6 DEF AttemptTimesOut, AttemptsOfRuns
    <2> QED
      BY <1>6, <2>1 DEF AttemptTimesOut
  <1>7. ASSUME NEW p \in Plans, NEW sql \in SQL, LeftoverEnds(p, sql)
        PROVE  (TableOK /\ PagesOK /\ BoolsOK)'
    BY <1>7, EffectType DEF LeftoverEnds
  <1>8. ASSUME NEW p \in Plans, End(p)
        PROVE  (TableOK /\ PagesOK /\ BoolsOK)'
    BY <1>8 DEF End, Phase
  <1>9. ASSUME NEW d \in Pages, ReadActivePlan(d) \/ SignalRollback(d)
        PROVE  (TableOK /\ PagesOK /\ BoolsOK)'
    BY <1>9 DEF ReadActivePlan, SignalRollback, schemaVars, IInv, TypeOK
  <1>10. CASE UNCHANGED sharedVars
    BY <1>10 DEF sharedVars, schemaVars
  <1> QED
    BY <1>1, <1>2, <1>3, <1>4, <1>5, <1>6, <1>7, <1>8, <1>9, <1>10
       DEF SharedNext, SchemaStep, Expand, Contract, Compensate, Retry, SQL


-----------------------------------------------------------------------------
(***************************************************************************)
(* Attempts and what they leave of the table.                              *)
(***************************************************************************)
\* Under the lock one run works at a time.
LEMMA OneAtWork ==
    IInv => \A p, q \in Plans : run[p] = "running" /\ run[q] = "running" => p = q
  BY DEF IInv, MutualExclusion

\* The coordinator and its clients end no run that is at work.
LEMMA CoordinatorKeepsRuns ==
    ASSUME SharedInv, CoordinatorStep, NEW p \in Plans
    PROVE  (run'[p] = "running") <=> (run[p] = "running")
  BY DEF SharedInv, IInv, TypeOK, CoordinatorStep, EnsureCoordinator, AcquireLock, RejectLocked,
     RequestFails, ReceiveCompletion, DeliverRollback, PressRollback, Close, LockTimerFires,
     ContinueTimerFires, runVars

LEMMA AttemptsStep ==
    SharedInv /\ [SharedNext]_sharedVars => AttemptsOfRuns'
  <1> SUFFICES ASSUME SharedInv, [SharedNext]_sharedVars
               PROVE  AttemptsOfRuns'
    OBVIOUS
  <1> USE DEF AttemptsOfRuns
  <1>a. AttemptsOfRuns /\ TableOK /\ BoolsOK /\ TypeOK
    BY DEF SharedInv, IInv
  <1> USE <1>a DEF TableOK, BoolsOK
  <1>1. CASE CoordinatorStep
    BY <1>1, CoordinatorKeepsRuns DEF CoordinatorStep, schemaVars
  <1>2. ASSUME NEW c \in Requests, StartDeployment(c)
        PROVE  AttemptsOfRuns'
    BY <1>2, LockAssumption DEF StartDeployment, StartRun, runVars, TypeOK
  <1>3. ASSUME NEW p \in Plans, NEW sql \in SQL, Dispatch(p, sql)
        PROVE  AttemptsOfRuns'
    BY <1>3 DEF Dispatch, vars, runVars
  <1>4. ASSUME NEW p \in Plans, AttemptSucceeds(p)
        PROVE  AttemptsOfRuns'
    BY <1>4 DEF AttemptSucceeds, vars, runVars
  <1>5. ASSUME NEW p \in Plans, AttemptFails(p) \/ AttemptTimesOut(p)
        PROVE  AttemptsOfRuns'
    BY <1>5 DEF AttemptFails, AttemptTimesOut, vars, runVars
  <1>6. ASSUME NEW p \in Plans, NEW sql \in SQL, LeftoverEnds(p, sql)
        PROVE  AttemptsOfRuns'
    BY <1>6 DEF LeftoverEnds, vars, runVars
  <1>7. ASSUME NEW p \in Plans, End(p)
        PROVE  AttemptsOfRuns'
    BY <1>7 DEF End, Notify, TypeOK
  <1>8. ASSUME NEW d \in Pages, ReadActivePlan(d) \/ SignalRollback(d)
        PROVE  AttemptsOfRuns'
    BY <1>8 DEF ReadActivePlan, SignalRollback, schemaVars, vars, runVars
  <1>9. CASE UNCHANGED sharedVars
    BY <1>9 DEF sharedVars, schemaVars, vars, runVars
  <1> QED
    BY <1>1, <1>2, <1>3, <1>4, <1>5, <1>6, <1>7, <1>8, <1>9
       DEF SharedNext, SchemaStep, Expand, Contract, Compensate, Retry, SQL

\* What an attempt of run p leaves, when it is the run's own table: no other
\* run has columns to lose, and p's are lost only to its compensation.
LEMMA OwnAttemptKeeps ==
    ASSUME SharedInv, NEW p \in Plans, attempt[p], NEW q \in Plans, Expanded(q),
           Adds[q] \subseteq columns
    PROVE  p = q /\ work[p] = "contracting" /\ Adds[q] \subseteq Effect(p, work[p], columns)
  <1>1. p = q
    BY OneAtWork DEF SharedInv, AttemptsOfRuns, Expanded
  <1>2. work[p] = "contracting"
    BY <1>1 DEF SharedInv, AttemptsOfRuns, Expanded, SQL
  <1>3. Effect(p, work[p], columns) = columns \ Drops[p]
    BY <1>2 DEF Effect
  <1> QED
    BY <1>1, <1>2, <1>3, PlansAssumption

LEMMA ExpandKeptStep ==
    SharedInv /\ [SharedNext]_sharedVars => ExpandKept'
  <1> SUFFICES ASSUME SharedInv, [SharedNext]_sharedVars, ~overran'
               PROVE  leftover' = {} /\ \A q \in Plans : Expanded(q)' => Adds[q] \subseteq columns'
    BY DEF ExpandKept
  <1> DEFINE Kept == leftover' = {} /\ \A q \in Plans : Expanded(q)' => Adds[q] \subseteq columns'
  <1>a. ExpandKept /\ AttemptsOfRuns /\ TableOK /\ TypeOK
    BY DEF SharedInv, IInv
  <1>b. overran' = overran => leftover = {} /\ \A q \in Plans : Expanded(q) => Adds[q] \subseteq columns
    BY <1>a DEF ExpandKept
  <1> HIDE DEF Kept
  <1> USE DEF TableOK
  <1>1. ASSUME CoordinatorStep
        PROVE  Kept
    <2>1. UNCHANGED <<work, leftover, columns, overran>>
      BY <1>1 DEF CoordinatorStep, schemaVars
    <2> QED
      BY <1>1, <1>b, <2>1, CoordinatorKeepsRuns DEF Kept, Expanded
  <1>2. ASSUME NEW c \in Requests, StartDeployment(c)
        PROVE  Kept
    <2>1. UNCHANGED <<leftover, columns, overran>>
      BY <1>2 DEF StartDeployment
    <2>2. ASSUME NEW q \in Plans, Expanded(q)'
          PROVE  Expanded(q)
      BY <1>2, <1>a, <2>2, LockAssumption DEF StartDeployment, StartRun, Expanded, TypeOK, runVars
    <2> QED
      BY <1>b, <2>1, <2>2 DEF Kept
  <1>3. ASSUME NEW p \in Plans, NEW sql \in SQL, Dispatch(p, sql),
               sql = "contracting" => work[p] \in {"expanded", "contracting"}
        PROVE  Kept
    <2>1. UNCHANGED <<leftover, columns, overran, run>>
      BY <1>3 DEF Dispatch, vars, runVars
    <2>2. ASSUME NEW q \in Plans, Expanded(q)'
          PROVE  Expanded(q)
      BY <1>3, <1>a, <2>1, <2>2 DEF Dispatch, Expanded, SQL
    <2> QED
      BY <1>b, <2>1, <2>2 DEF Kept
  <1>4. ASSUME NEW p \in Plans, AttemptSucceeds(p)
        PROVE  Kept
    <2>0. attempt[p] /\ work[p] \in SQL /\ run[p] = "running"
      BY <1>4, <1>a DEF AttemptSucceeds, AttemptsOfRuns
    <2>1. UNCHANGED <<leftover, overran, run>>
      BY <1>4 DEF AttemptSucceeds, vars, runVars
    <2>2. columns' = Effect(p, work[p], columns)
      BY <1>4 DEF AttemptSucceeds
    <2>3. ASSUME NEW q \in Plans, Expanded(q)'
          PROVE  Adds[q] \subseteq columns'
      <3>1. p = q
        BY <2>0, <2>1, <2>3, OneAtWork DEF SharedInv, Expanded
      <3>2. CASE work[p] = "expanding"
        BY <2>2, <3>1, <3>2 DEF Effect
      <3>3. CASE work[p] = "contracting"
        <4>1. Expanded(q)
          BY <2>0, <3>1, <3>3 DEF Expanded
        <4> QED
          BY <1>b, <2>0, <2>1, <2>2, <4>1, OwnAttemptKeeps
      <3>4. CASE work[p] = "compensating"
        <4>1. work'[p] = "rolled_back"
          BY <1>4, <1>a, <3>4 DEF AttemptSucceeds
        <4> QED
          BY <2>3, <3>1, <4>1 DEF Expanded
      <3> QED
        BY <2>0, <3>2, <3>3, <3>4 DEF SQL
    <2> QED
      BY <1>b, <2>1, <2>3 DEF Kept
  <1>5. ASSUME NEW p \in Plans, AttemptFails(p)
        PROVE  Kept
    <2>1. UNCHANGED <<leftover, overran, run, work>>
      BY <1>5 DEF AttemptFails, vars, runVars
    <2>2. attempt[p] /\ columns' \in {columns, Effect(p, work[p], columns)}
      BY <1>5 DEF AttemptFails
    <2> QED
      BY <1>b, <2>1, <2>2, OwnAttemptKeeps DEF Kept, Expanded
  <1>6. ASSUME NEW p \in Plans, AttemptTimesOut(p)
        PROVE  Kept
    BY <1>6 DEF AttemptTimesOut
  <1>7. ASSUME NEW p \in Plans, NEW sql \in SQL, LeftoverEnds(p, sql)
        PROVE  Kept
    BY <1>7, <1>b DEF LeftoverEnds
  <1>8. ASSUME NEW p \in Plans, End(p)
        PROVE  Kept
    <2>1. UNCHANGED <<leftover, columns, overran>>
      BY <1>8 DEF End
    <2>2. ASSUME NEW q \in Plans, Expanded(q)'
          PROVE  Expanded(q)
      BY <1>8, <1>a, <2>2 DEF End, Notify, Expanded, TypeOK
    <2> QED
      BY <1>b, <2>1, <2>2 DEF Kept
  <1>9. ASSUME NEW d \in Pages, ReadActivePlan(d) \/ SignalRollback(d)
        PROVE  Kept
    <2>1. UNCHANGED <<leftover, columns, overran, work, run>>
      BY <1>9 DEF ReadActivePlan, SignalRollback, schemaVars, vars, runVars
    <2> QED
      BY <1>b, <2>1 DEF Kept, Expanded
  <1>10. ASSUME UNCHANGED sharedVars
         PROVE  Kept
    <2>1. UNCHANGED <<leftover, columns, overran, work, run>>
      BY <1>10 DEF sharedVars, schemaVars, vars, runVars
    <2> QED
      BY <1>b, <2>1 DEF Kept, Expanded
  <1>11. ASSUME NEW p \in Plans, Expand(p) \/ Contract(p) \/ Compensate(p) \/ Retry(p)
         PROVE  Kept
    BY <1>3, <1>11 DEF Expand, Contract, Compensate, Retry, SQL
  <1>12. ASSUME NEW p \in Plans, SchemaStep(p)
         PROVE  Kept
    BY <1>4, <1>5, <1>6, <1>7, <1>8, <1>11, <1>12 DEF SchemaStep
  <1>13. Kept
    BY <1>1, <1>2, <1>9, <1>10, <1>12 DEF SharedNext
  <1> QED
    BY <1>13 DEF Kept

-----------------------------------------------------------------------------
(***************************************************************************)
(* The theorems.                                                           *)
(***************************************************************************)
THEOREM SharedInductive == SharedSpec => []SharedInv
  <1>1. SharedInv /\ [SharedNext]_sharedVars => IInv'
    <2>1. IInv /\ [Next]_vars => IInv'
      BY TypeStep, TokenStep DEF IInv
    <2> QED
      BY <2>1, SharedStepSimulates DEF SharedInv, IInv
  <1>2. SharedInv /\ [SharedNext]_sharedVars => SharedInv'
    BY <1>1, SharedTypeStep, AttemptsStep, ExpandKeptStep DEF SharedInv
  <1> QED
    BY <1>2, InitShared, PTL DEF SharedSpec

\* Every variable of the composition keeps its type, and a run waits for an
\* attempt only in a phase that has SQL.
THEOREM SharedTypeCorrect == SharedSpec => []SharedTypeOK
  BY SharedInductive, SharedTypeParts, PTL DEF SharedInv

\* The composition with the runs' SQL and the dashboard implements
\* DatabaseOps, so everything proved of the coordinator holds of it.
THEOREM RefinesDatabaseOps == SharedSpec => ImplementsDatabaseOps
  <1>1. SharedInit => Init
    BY DEF SharedInit
  <1>2. SharedInv /\ [SharedNext]_sharedVars => [Next]_vars
    BY SharedStepSimulates DEF SharedInv, IInv
  <1> QED
    BY <1>1, <1>2, SharedInductive, PTL DEF SharedSpec, ImplementsDatabaseOps, Spec

\* Statements of two deployments never execute at the same time, as far as
\* the server knows of them (cmd/blue-green/README.md:264).
THEOREM StatementsAreExcluded == SharedSpec => []StatementsExcluded
  <1>1. SharedInv => StatementsExcluded
    BY OneAtWork DEF SharedInv, AttemptsOfRuns, StatementsExcluded, IInv, MutualExclusion
  <1> QED
    BY <1>1, SharedInductive, PTL

\* What a run has expanded stays for as long as it works with it, for every
\* way the plans share columns, as long as no attempt outlives its timeout.
THEOREM ExpandStaysIntact == SharedSpec => []PromptExpandIntact
  <1>1. SharedInv => PromptExpandIntact
    BY DEF SharedInv, ExpandKept, Expanded, PromptExpandIntact
  <1> QED
    BY <1>1, SharedInductive, PTL

\* A rollback button that read the active plan before it signals reaches the
\* lock holder's run or none (ui.go:235-260).
THEOREM ClicksReachHolder == SharedSpec => ClickReachesHolder
  <1> DEFINE Reached == \A p \in Plans :
                          rollback'[p] /\ ~rollback[p] /\ signals = signals' => active = p
  <1>1. SharedInv /\ [SharedNext]_sharedVars => [Reached]_sharedVars
    <2> SUFFICES ASSUME SharedInv, SharedNext, NEW p \in Plans,
                        rollback'[p], ~rollback[p], signals = signals'
                 PROVE  active = p
      OBVIOUS
    <2>1. [Next]_vars
      BY SharedStepSimulates DEF SharedInv, IInv
    <2>2. ASSUME NEW q \in Plans, PressRollback(q)
          PROVE  active = p
      <3>1. p = q
        BY <2>2 DEF PressRollback, SharedInv, IInv, TypeOK
      <3> QED
        BY <2>2, <3>1 DEF PressRollback, SharedInv, IInv, MutualExclusion
    <2>3. ASSUME NEW q \in Plans, DeliverRollback(q)
          PROVE  FALSE
      BY <2>3 DEF DeliverRollback, SharedInv, IInv, TypeOK
    <2>4. ASSUME NEW c \in Requests, StartRun(c)
          PROVE  FALSE
      BY <2>4, LockAssumption DEF StartRun, runVars, SharedInv, IInv, TypeOK
    <2>5. rollback' # rollback
      OBVIOUS
    <2> QED
      BY <2>1, <2>2, <2>3, <2>4, <2>5 DEF Next, vars, RequestStep, EnsureCoordinator, AcquireLock,
         RejectLocked, RequestFails, ReceiveCompletion, Notify, Close, LockTimerFires,
         ContinueTimerFires, runVars
  <1> QED
    BY <1>1, SharedInductive, PTL DEF SharedSpec, ClickReachesHolder

\* What is proved of the coordinator holds in the composition: only the lock
\* holder is at work, the completion under way is its own, the lock is lost
\* in the three known ways and no fourth, and the holder is never set back,
\* whatever the SQL, leftover attempts and dashboard pages do besides
\* (db_ops_workflow.go:24-35, ui.go:235-260).
THEOREM CoordinatorHoldsInComposition ==
    SharedSpec => /\ [](MutualExclusion /\ CompletionFromHolder)
                  /\ LockLostOnlyBy
                  /\ HolderNeverSetBack
                  /\ ImplementsSchemaLock
  BY RefinesDatabaseOps, MutualExclusionHolds, CompletionsFromHolder, LockLostOnlyByRequests,
     HolderOnlyAdvances, RefinesSchemaLock, PTL DEF ImplementsDatabaseOps
=============================================================================
