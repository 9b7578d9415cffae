------------------------- MODULE DatabaseOpsProofs -------------------------
(***************************************************************************)
(* Mutual exclusion of DatabaseOps, the ways of its lock holder, and its   *)
(* refinement of SchemaLock, for every set of plans and requests and any   *)
(* number of failures.                                                     *)
(***************************************************************************)
EXTENDS DatabaseOps, TLAPS

(***************************************************************************)
(* The right to work on the schema is a token: it is with the request that *)
(* was granted the lock, then with the run, then with the completion under *)
(* way, and its owner's plan is the active one.  A failed request or an    *)
(* attachment to a closing run loses it; no step makes a second one.       *)
(***************************************************************************)
Granted(c) == request[c] = "start"
Running(p) == run[p] = "running"
Completing(p) == completions[p] > 0

GrantToken ==
    \A c \in Requests :
        Granted(c) =>
            /\ active = PlanOf[c]
            /\ \A d \in Requests : Granted(d) => d = c
            /\ ~Running(active)
            /\ ~Completing(active)

CompletionToken ==
    \A p \in Plans :
        Completing(p) => active = p /\ completions[p] = 1 /\ ~Running(p)

IInv == TypeOK /\ GrantToken /\ MutualExclusion /\ CompletionToken

(***************************************************************************)
(* Types, the Boolean variables apart from the others.                     *)
(***************************************************************************)
BoolOK ==
    /\ coordinator \in BOOLEAN
    /\ continueAsNewRequested \in BOOLEAN
    /\ rollback \in [Plans -> BOOLEAN]

RestOK ==
    /\ request \in [Requests -> {"ensure", "acquire", "start"} \cup Answers]
    /\ active \in Plans \cup {NoPlan}
    /\ lockTimer \in {"off", "armed", "fired"}
    /\ completedOps \in Seq(Plans)
    /\ run \in [Plans -> {"none", "running", "closing", "closed"}]
    /\ completions \in [Plans -> Nat]
    /\ signals \in [Plans -> Nat]
    /\ failures \in Nat

LEMMA TypeParts == TypeOK <=> BoolOK /\ RestOK
  BY DEF TypeOK, BoolOK, RestOK

LEMMA BoolStep == BoolOK /\ [Next]_vars => BoolOK'
  <1> SUFFICES ASSUME BoolOK, [Next]_vars
               PROVE  BoolOK'
    OBVIOUS
  <1> USE DEF BoolOK, lockVars, opsVars, runVars, netVars
  <1>1. ASSUME NEW c \in Requests, StartRun(c)
        PROVE  BoolOK'
    BY <1>1 DEF StartRun
  <1>2. ASSUME NEW c \in Requests,
               EnsureCoordinator(c) \/ AcquireLock(c) \/ RejectLocked(c) \/ RequestFails(c)
        PROVE  BoolOK'
    BY <1>2 DEF EnsureCoordinator, AcquireLock, RejectLocked, RequestFails
  <1>3. ASSUME NEW p \in Plans, DeliverRollback(p)
        PROVE  BoolOK'
    <2>1. (rollback[p] \/ run[p] = "running") \in BOOLEAN
      OBVIOUS
    <2>2. rollback' = [rollback EXCEPT ![p] = rollback[p] \/ run[p] = "running"]
      BY <1>3 DEF DeliverRollback
    <2>3. rollback' \in [Plans -> BOOLEAN]
      BY <2>1, <2>2
    <2>4. UNCHANGED <<coordinator, continueAsNewRequested>>
      BY <1>3 DEF DeliverRollback
    <2>5. QED
      BY <2>3, <2>4
  <1>4. ASSUME NEW p \in Plans, ReceiveCompletion(p)
        PROVE  BoolOK'
    BY <1>4 DEF ReceiveCompletion
  <1>5. ASSUME NEW p \in Plans, PressRollback(p) \/ Notify(p) \/ Close(p)
        PROVE  BoolOK'
    BY <1>5 DEF PressRollback, Notify, Close
  <1>6. CASE LockTimerFires \/ ContinueTimerFires
    BY <1>6 DEF LockTimerFires, ContinueTimerFires
  <1>7. CASE UNCHANGED vars
    BY <1>7 DEF vars
  <1>8. QED
    BY <1>1, <1>2, <1>3, <1>4, <1>5, <1>6, <1>7 DEF Next, RequestStep

LEMMA RestStep == RestOK /\ [Next]_vars => RestOK'
  <1> SUFFICES ASSUME RestOK, [Next]_vars
               PROVE  RestOK'
    OBVIOUS
  <1> USE LockAssumption DEF RestOK, lockVars, opsVars, runVars, netVars
  <1>1. ASSUME NEW c \in Requests, EnsureCoordinator(c)
        PROVE  RestOK'
    BY <1>1 DEF EnsureCoordinator, Answer
  <1>2. ASSUME NEW c \in Requests, AcquireLock(c)
        PROVE  RestOK'
    BY <1>2 DEF AcquireLock, Answer
  <1>3. ASSUME NEW c \in Requests, RejectLocked(c)
        PROVE  RestOK'
    BY <1>3 DEF RejectLocked, Answer, Answers
  <1>4. ASSUME NEW c \in Requests, StartRun(c)
        PROVE  RestOK'
    BY <1>4 DEF StartRun, Answer, Answers
  <1>5. ASSUME NEW c \in Requests, RequestFails(c)
        PROVE  RestOK'
    BY <1>5 DEF RequestFails, Answer, Answers
  <1>6. ASSUME NEW p \in Plans, ReceiveCompletion(p)
        PROVE  RestOK'
    <2>1. completions' \in [Plans -> Nat]
      <3>1. completions[p] - 1 \in Nat
        BY <1>6 DEF ReceiveCompletion
      <3>2. completions' = [completions EXCEPT ![p] = completions[p] - 1]
        BY <1>6 DEF ReceiveCompletion
      <3>3. QED
        BY <3>1, <3>2
    <2>2. completedOps' \in Seq(Plans)
      <3>1. completedOps' = <<>> \/ completedOps' = Append(completedOps, p)
        BY <1>6 DEF ReceiveCompletion
      <3>2. <<>> \in Seq(Plans) /\ Append(completedOps, p) \in Seq(Plans)
        OBVIOUS
      <3>3. QED
        BY <3>1, <3>2
    <2>3. active' = NoPlan /\ lockTimer' = "off" /\ UNCHANGED <<request, run, signals, failures>>
      BY <1>6 DEF ReceiveCompletion
    <2>4. QED
      BY <2>1, <2>2, <2>3
  <1>7. ASSUME NEW p \in Plans, DeliverRollback(p) \/ PressRollback(p)
        PROVE  RestOK'
    BY <1>7 DEF DeliverRollback, PressRollback
  <1>8. ASSUME NEW p \in Plans, Notify(p)
        PROVE  RestOK'
    <2>1. run' \in [Plans -> {"none", "running", "closing", "closed"}]
      BY <1>8 DEF Notify
    <2>2. completions' \in [Plans -> Nat]
      BY <1>8 DEF Notify
    <2>3. QED
      BY <1>8, <2>1, <2>2 DEF Notify
  <1>9. CASE LockTimerFires
    <2>1. signals' \in [Plans -> Nat]
      <3>1. signals' = [signals EXCEPT ![active] = signals[active] + 1]
        BY <1>9 DEF LockTimerFires
      <3>2. CASE active \in Plans
        BY <3>1, <3>2
      <3>3. CASE active \notin Plans
        <4>1. signals' = signals
          BY <3>1, <3>3
        <4>2. QED
          BY <4>1
      <3>4. QED
        BY <3>2, <3>3
    <2>2. UNCHANGED <<request, active, completedOps, run, completions, failures>>
      BY <1>9 DEF LockTimerFires
    <2>3. lockTimer' = "fired"
      BY <1>9 DEF LockTimerFires
    <2>4. QED
      BY <2>1, <2>2, <2>3
  <1>10. CASE ContinueTimerFires
    <2>1. completedOps' \in Seq(Plans)
      <3>1. completedOps' = <<>> \/ UNCHANGED completedOps
        BY <1>10 DEF ContinueTimerFires
      <3>2. <<>> \in Seq(Plans)
        OBVIOUS
      <3>3. QED
        BY <3>1, <3>2
    <2>2. UNCHANGED <<request, active, lockTimer, run, completions, signals, failures>>
      BY <1>10 DEF ContinueTimerFires
    <2>3. QED
      BY <2>1, <2>2
  <1>11. ASSUME NEW p \in Plans, Close(p)
         PROVE  RestOK'
    BY <1>11 DEF Close
  <1>12. CASE UNCHANGED vars
    BY <1>12 DEF vars
  <1>13. QED
    BY <1>1, <1>2, <1>3, <1>4, <1>5, <1>6, <1>7, <1>8, <1>9, <1>10, <1>11, <1>12
       DEF Next, RequestStep

LEMMA TypeStep == TypeOK /\ [Next]_vars => TypeOK'
  BY BoolStep, RestStep, TypeParts DEF TypeOK, BoolOK, RestOK

LEMMA InitIInv == Init => IInv
  <1> SUFFICES ASSUME Init
               PROVE  IInv
    OBVIOUS
  <1>1. BoolOK
    BY DEF Init, BoolOK
  <1>2. RestOK
    BY DEF Init, RestOK
  <1>3. GrantToken /\ MutualExclusion /\ CompletionToken
    BY DEF Init, GrantToken, MutualExclusion, CompletionToken, Granted, Completing
  <1>4. QED
    BY <1>1, <1>2, <1>3, TypeParts DEF IInv

-----------------------------------------------------------------------------
(***************************************************************************)
(* The token.                                                              *)
(***************************************************************************)
LEMMA TokenStep ==
    IInv /\ [Next]_vars => (GrantToken /\ MutualExclusion /\ CompletionToken)'
  <1> SUFFICES ASSUME IInv, [Next]_vars
               PROVE  (GrantToken /\ MutualExclusion /\ CompletionToken)'
    OBVIOUS
  <1> DEFINE Token == GrantToken /\ MutualExclusion /\ CompletionToken
  <1> USE LockAssumption DEF IInv, TypeOK, lockVars, opsVars, runVars, netVars,
          GrantToken, MutualExclusion, CompletionToken, Granted, Running, Completing
  <1>1. ASSUME NEW c \in Requests, EnsureCoordinator(c) \/ RejectLocked(c) \/ RequestFails(c)
        PROVE  Token'
    <2>1. \E a \in {"acquire", "locked", "failed"} : request' = [request EXCEPT ![c] = a]
      BY <1>1 DEF EnsureCoordinator, RejectLocked, RequestFails, Answer
    <2>2. \A d \in Requests : Granted(d)' => Granted(d)
      BY <2>1
    <2>3. UNCHANGED <<active, run, completions>>
      BY <1>1 DEF EnsureCoordinator, RejectLocked, RequestFails
    <2>4. QED
      BY <2>2, <2>3
  <1>2. ASSUME NEW c \in Requests, AcquireLock(c)
        PROVE  Token'
    BY <1>2 DEF AcquireLock, Answer
  <1>3. ASSUME NEW c \in Requests, StartRun(c)
        PROVE  Token'
    <2>1. active = PlanOf[c] /\ ~Completing(active)
      BY <1>3 DEF StartRun
    <2>2. \A d \in Requests : ~Granted(d)'
      BY <1>3 DEF StartRun, Answer
    <2>3. \A p \in Plans : run'[p] = "running" => run[p] = "running" \/ p = PlanOf[c]
      BY <1>3 DEF StartRun
    <2>4. UNCHANGED <<active, completions>>
      BY <1>3 DEF StartRun
    <2>5. QED
      BY <2>1, <2>2, <2>3, <2>4
  <1>4. ASSUME NEW p \in Plans, ReceiveCompletion(p)
        PROVE  Token'
    <2>1. active = p /\ completions[p] = 1 /\ ~Running(p)
      BY <1>4 DEF ReceiveCompletion
    <2>2. \A q \in Plans : ~Running(q) /\ completions'[q] = 0
      BY <1>4, <2>1 DEF ReceiveCompletion
    <2>3. \A c \in Requests : ~Granted(c)
      BY <2>1
    <2>4. UNCHANGED <<run, request>>
      BY <1>4 DEF ReceiveCompletion
    <2>5. QED
      BY <2>2, <2>3, <2>4
  <1>5. ASSUME NEW p \in Plans, Notify(p)
        PROVE  Token'
    <2>1. active = p /\ completions[p] = 0 /\ \A c \in Requests : ~Granted(c)
      BY <1>5 DEF Notify
    <2>2. run' = [run EXCEPT ![p] = "closing"] /\ completions' = [completions EXCEPT ![p] = @ + 1]
      BY <1>5 DEF Notify
    <2>3. UNCHANGED <<active, request>>
      BY <1>5 DEF Notify
    <2>4. QED
      BY <2>1, <2>2, <2>3
  <1>6. ASSUME NEW p \in Plans, DeliverRollback(p) \/ PressRollback(p) \/ Close(p)
        PROVE  Token'
    BY <1>6 DEF DeliverRollback, PressRollback, Close
  <1>7. CASE LockTimerFires \/ ContinueTimerFires
    BY <1>7 DEF LockTimerFires, ContinueTimerFires
  <1>8. CASE UNCHANGED vars
    BY <1>8 DEF vars
  <1>9. QED
    BY <1>1, <1>2, <1>3, <1>4, <1>5, <1>6, <1>7, <1>8 DEF Next, RequestStep

THEOREM InductiveInvariant == Spec => []IInv
  <1>1. IInv /\ [Next]_vars => IInv'
    BY TypeStep, TokenStep DEF IInv
  <1>2. QED
    BY <1>1, InitIInv, PTL DEF Spec

\* Every variable keeps its type: no signal count goes negative and no lock
\* timer is armed for a plan that is none.
THEOREM TypeCorrect == Spec => []TypeOK
  BY InductiveInvariant, PTL DEF IInv

\* A deployment is at work only while it holds the schema lock, for every
\* set of plans and requests, whatever fails half-way and however often the
\* coordinator continues as new (db_ops_workflow.go:26-32).
THEOREM MutualExclusionHolds == Spec => []MutualExclusion
  BY InductiveInvariant, PTL DEF IInv

\* The completion handler may clear the lock unseen: the one completion
\* under way is the holder's (db_ops_workflow.go:144-165).
THEOREM CompletionsFromHolder == Spec => []CompletionFromHolder
  <1>1. IInv => CompletionFromHolder
    BY DEF IInv, CompletionToken, CompletionFromHolder, Completing, Running
  <1>2. QED
    BY <1>1, InductiveInvariant, PTL

-----------------------------------------------------------------------------
(***************************************************************************)
(* How the lock is lost.                                                   *)
(***************************************************************************)
\* The step that loses the lock of plan p.
Loses(p) ==
    \E c \in Requests :
        /\ PlanOf[c] = p
        /\ request[c] = "start"
        /\ request'[c] = "failed" \/ run[p] = "closing" \/ lockTimer = "fired"

\* A lock becomes orphaned only by a request that fails or attaches.
LEMMA OrphanStep ==
  ASSUME IInv, Next, NEW p \in Plans, Orphaned(p)', ~Lost(p)
  PROVE  Loses(p)
  <1> USE LockAssumption DEF IInv, TypeOK, lockVars, opsVars, runVars, netVars
  <1>1. ~Orphaned(p)
    BY DEF Lost
  <1>2. ASSUME NEW c \in Requests, EnsureCoordinator(c) \/ RejectLocked(c)
        PROVE  FALSE
    <2>1. \A d \in Requests : request[d] = "start" => request'[d] = "start"
      BY <1>2 DEF EnsureCoordinator, RejectLocked, Answer
    <2> QED
      BY <1>1, <1>2, <2>1 DEF Orphaned, EnsureCoordinator, RejectLocked
  <1>3. ASSUME NEW c \in Requests, AcquireLock(c)
        PROVE  FALSE
    BY <1>3 DEF AcquireLock, Answer, Orphaned
  <1>4. ASSUME NEW c \in Requests, StartRun(c)
        PROVE  Loses(p)
    <2>1. PlanOf[c] = active /\ active' = active /\ active = p
      BY <1>4 DEF StartRun, GrantToken, Granted, Orphaned
    <2>2. run[p] = "closing"
      BY <1>4, <2>1 DEF StartRun, Orphaned, GrantToken, Granted, Running
    <2> QED
      BY <1>4, <2>1, <2>2 DEF StartRun, Loses
  <1>5. ASSUME NEW c \in Requests, RequestFails(c)
        PROVE  Loses(p)
    <2>1. /\ request' = [request EXCEPT ![c] = "failed"]
          /\ UNCHANGED <<active, run, completions>>
      BY <1>5 DEF RequestFails, Answer
    <2>2. PICK d \in Requests : PlanOf[d] = p /\ request[d] = "start"
      BY <1>1, <2>1 DEF Orphaned
    <2>3. request'[d] # "start"
      BY <2>1, <2>2 DEF Orphaned
    <2> QED
      BY <2>1, <2>2, <2>3 DEF Loses
  <1>6. ASSUME NEW q \in Plans, ReceiveCompletion(q)
        PROVE  FALSE
    BY <1>6 DEF ReceiveCompletion, Orphaned
  <1>7. ASSUME NEW q \in Plans, Notify(q)
        PROVE  FALSE
    <2>1. q = active /\ completions[q] = 0
      BY <1>7 DEF Notify, MutualExclusion, CompletionToken, Completing, Running
    <2> QED
      BY <1>7, <2>1 DEF Notify, Orphaned
  <1>8. ASSUME NEW q \in Plans, DeliverRollback(q) \/ PressRollback(q) \/ Close(q)
        PROVE  FALSE
    <2>1. UNCHANGED <<active, completions, request>>
      BY <1>8 DEF DeliverRollback, PressRollback, Close
    <2>2. run[p] = "running" => run'[p] = "running"
      BY <1>8 DEF DeliverRollback, PressRollback, Close
    <2> QED
      BY <1>1, <2>1, <2>2 DEF Orphaned
  <1>9. CASE LockTimerFires \/ ContinueTimerFires
    BY <1>1, <1>9 DEF LockTimerFires, ContinueTimerFires, Orphaned
  <1> QED
    BY <1>2, <1>3, <1>4, <1>5, <1>6, <1>7, <1>8, <1>9 DEF Next, RequestStep

\* A run is overlooked only if it starts after the lock timeout.
LEMMA OverlookedStep ==
  ASSUME IInv, Next, NEW p \in Plans, Overlooked(p)', ~Lost(p)
  PROVE  Loses(p)
  <1> USE LockAssumption DEF IInv, TypeOK, lockVars, opsVars, runVars, netVars
  <1>1. ~Overlooked(p)
    BY DEF Lost
  <1>2. ASSUME NEW c \in Requests,
               EnsureCoordinator(c) \/ RejectLocked(c) \/ RequestFails(c)
        PROVE  FALSE
    BY <1>1, <1>2 DEF EnsureCoordinator, RejectLocked, RequestFails, Overlooked
  <1>3. ASSUME NEW c \in Requests, AcquireLock(c)
        PROVE  FALSE
    BY <1>3 DEF AcquireLock, Overlooked
  <1>4. ASSUME NEW c \in Requests, StartRun(c)
        PROVE  Loses(p)
    <2>1. PlanOf[c] = active /\ active' = active /\ active = p
      BY <1>4 DEF StartRun, GrantToken, Granted, Overlooked
    <2> QED
      BY <1>4, <2>1 DEF StartRun, Overlooked, Loses
  <1>5. ASSUME NEW q \in Plans, ReceiveCompletion(q)
        PROVE  FALSE
    BY <1>5 DEF ReceiveCompletion, Overlooked
  <1>6. ASSUME NEW q \in Plans, DeliverRollback(q)
        PROVE  FALSE
    <2>1. UNCHANGED <<active, run, lockTimer>>
      BY <1>6 DEF DeliverRollback
    <2>2. CASE q = p
      <3>1. rollback' = [rollback EXCEPT ![p] = @ \/ run[p] = "running"]
        BY <1>6, <2>2 DEF DeliverRollback
      <3>2. run[p] = "running" /\ ~rollback'[p]
        BY <2>1 DEF Overlooked
      <3>3. rollback'[p] = (rollback[p] \/ run[p] = "running")
        BY <3>1
      <3> QED
        BY <3>2, <3>3
    <2>3. CASE q # p
      <3>1. signals'[p] = signals[p] /\ rollback'[p] = rollback[p]
        BY <1>6, <2>3 DEF DeliverRollback
      <3> QED
        BY <1>1, <2>1, <3>1 DEF Overlooked
    <2> QED
      BY <2>2, <2>3
  <1>7. ASSUME NEW q \in Plans, PressRollback(q)
        PROVE  FALSE
    <2>1. q = active /\ UNCHANGED <<active, run, lockTimer, signals>>
      BY <1>7 DEF PressRollback, MutualExclusion
    <2>2. rollback'[q] = TRUE
      BY <1>7 DEF PressRollback
    <2> QED
      BY <2>1, <2>2 DEF Overlooked
  <1>8. ASSUME NEW q \in Plans, Notify(q) \/ Close(q)
        PROVE  FALSE
    <2>1. UNCHANGED <<active, lockTimer, signals, rollback>>
      BY <1>8 DEF Notify, Close
    <2>2. run'[p] = "running" => run[p] = "running"
      BY <1>8 DEF Notify, Close
    <2> QED
      BY <1>1, <2>1, <2>2 DEF Overlooked
  <1>9. CASE LockTimerFires
    <2>1. active' = active /\ signals' = [signals EXCEPT ![active] = @ + 1]
      BY <1>9 DEF LockTimerFires
    <2> QED
      BY <2>1 DEF Overlooked
  <1>10. CASE ContinueTimerFires
    BY <1>1, <1>10 DEF ContinueTimerFires, Overlooked
  <1> QED
    BY <1>2, <1>3, <1>4, <1>5, <1>6, <1>7, <1>8, <1>9, <1>10 DEF Next, RequestStep

\* The lock is lost by a request that fails after the grant, attaches to a
\* closing run, or starts its run after the lock timeout, and in no other
\* way (main.go:217-233, db_ops_workflow.go:101-106).
THEOREM LockLostOnlyByRequests == Spec => LockLostOnlyBy
  <1>1. IInv /\ [Next]_vars =>
          [\A p \in Plans : Lost(p)' /\ ~Lost(p) => Loses(p)]_vars
    BY OrphanStep, OverlookedStep DEF Lost
  <1>2. [\A p \in Plans : Lost(p)' /\ ~Lost(p) => Loses(p)]_vars =>
          [\A p \in Plans : Lost(p)' /\ ~Lost(p) =>
              \E c \in Requests :
                  /\ PlanOf[c] = p
                  /\ request[c] = "start"
                  /\ request'[c] = "failed" \/ run[p] = "closing" \/ lockTimer = "fired"]_vars
    BY DEF Loses
  <1> QED
    BY <1>1, <1>2, InductiveInvariant, PTL DEF Spec, LockLostOnlyBy

-----------------------------------------------------------------------------
(***************************************************************************)
(* The holder's way to giving the lock back.                               *)
(***************************************************************************)
\* How far the holder is on its way to give the lock back: its run is still
\* to be started; it is open; the lock timeout has fired; it has been told to
\* roll back; it is over.
HolderStage(p) ==
    IF \E c \in Requests : PlanOf[c] = p /\ request[c] = "start" THEN 0
    ELSE IF run[p] # "running" THEN 4
    ELSE IF rollback[p] THEN 3
    ELSE IF lockTimer = "fired" THEN 2 ELSE 1

\* Nothing sets the holder of the lock back: no repeated request starts its
\* run anew or asks for a second grant, no rollback it was told of is
\* forgotten, and the lock timeout is not armed again (main.go:204-233,
\* db_ops_workflow.go:87-113).  This is why LockReleased may be asked.
HolderNeverSetBack ==
    [][\A p \in Plans :
          active = p /\ active' = p => HolderStage(p)' >= HolderStage(p)]_vars

Starting(p) == \E c \in Requests : PlanOf[c] = p /\ request[c] = "start"

\* What makes up a stage is kept while the lock is: no second grant, no run
\* but the granted one, no rollback forgotten, no lock timeout armed again.
StageKept(p) ==
    ~Starting(p) =>
        /\ ~Starting(p)'
        /\ ~Running(p) => ~Running(p)'
        /\ rollback[p] => rollback'[p]
        /\ lockTimer = "fired" => lockTimer' = "fired"

LEMMA KeptStep ==
    ASSUME IInv, [Next]_vars, NEW p \in Plans, active = p, active' = p
    PROVE  StageKept(p)
  <1> SUFFICES ASSUME ~Starting(p)
               PROVE  /\ ~Starting(p)'
                      /\ ~Running(p) => ~Running(p)'
                      /\ rollback[p] => rollback'[p]
                      /\ lockTimer = "fired" => lockTimer' = "fired"
    BY DEF StageKept
  <1> USE LockAssumption DEF IInv, TypeOK, lockVars, opsVars, runVars, netVars, Running
  <1>1. ASSUME NEW c \in Requests,
               EnsureCoordinator(c) \/ RejectLocked(c) \/ RequestFails(c)
        PROVE  ~Starting(p)' /\ UNCHANGED <<run, rollback, lockTimer>>
    <2>1. \E a \in {"acquire", "locked", "failed"} : request' = [request EXCEPT ![c] = a]
      BY <1>1 DEF EnsureCoordinator, RejectLocked, RequestFails, Answer
    <2>2. \A d \in Requests : request'[d] = "start" => request[d] = "start"
      BY <2>1
    <2>3. QED
      BY <1>1, <2>2 DEF Starting, EnsureCoordinator, RejectLocked, RequestFails
  <1>2. ASSUME NEW c \in Requests, AcquireLock(c)
        PROVE  FALSE
    BY <1>2 DEF AcquireLock
  <1>3. ASSUME NEW c \in Requests, StartRun(c)
        PROVE  FALSE
    BY <1>3 DEF StartRun, GrantToken, Granted, Starting
  <1>4. ASSUME NEW q \in Plans, ReceiveCompletion(q)
        PROVE  FALSE
    BY <1>4 DEF ReceiveCompletion
  <1>5. ASSUME NEW q \in Plans, DeliverRollback(q)
        PROVE  rollback[p] => rollback'[p]
    <2>1. rollback' = [rollback EXCEPT ![q] = rollback[q] \/ run[q] = "running"]
      BY <1>5 DEF DeliverRollback
    <2>2. CASE q = p
      <3>1. rollback'[p] = (rollback[p] \/ run[p] = "running")
        BY <2>1, <2>2
      <3>2. QED
        BY <3>1
    <2>3. CASE q # p
      BY <2>1, <2>3
    <2>4. QED
      BY <2>2, <2>3
  <1>6. ASSUME NEW q \in Plans, PressRollback(q)
        PROVE  rollback[p] => rollback'[p]
    BY <1>6 DEF PressRollback
  <1>7. ASSUME NEW q \in Plans, DeliverRollback(q) \/ PressRollback(q)
        PROVE  UNCHANGED <<request, run, lockTimer>>
    BY <1>7 DEF DeliverRollback, PressRollback
  <1>8. ASSUME NEW q \in Plans, Notify(q) \/ Close(q)
        PROVE  UNCHANGED <<request, rollback, lockTimer>> /\ (~Running(p) => ~Running(p)')
    BY <1>8 DEF Notify, Close
  <1>9. CASE LockTimerFires \/ ContinueTimerFires \/ UNCHANGED vars
    BY <1>9 DEF LockTimerFires, ContinueTimerFires, vars, Starting
  <1>10. ASSUME UNCHANGED request
         PROVE  ~Starting(p)'
    BY <1>10 DEF Starting
  <1>11. QED
    BY <1>1, <1>2, <1>3, <1>4, <1>5, <1>6, <1>7, <1>8, <1>9, <1>10 DEF Next, RequestStep

LEMMA KeptStage ==
    ASSUME NEW p \in Plans, StageKept(p)
    PROVE  HolderStage(p)' >= HolderStage(p)
  <1>1. CASE Starting(p)
    <2>1. HolderStage(p) = 0
      BY <1>1 DEF HolderStage, Starting
    <2>2. HolderStage(p)' \in {0, 1, 2, 3, 4}
      BY DEF HolderStage
    <2>3. QED
      BY <2>1, <2>2
  <1>2. CASE ~Starting(p)
    <2>1. ~Starting(p)'
      BY <1>2 DEF StageKept
    <2>2. CASE ~Running(p)
      <3>1. ~Running(p)'
        BY <1>2, <2>2 DEF StageKept
      <3>2. HolderStage(p) = 4 /\ HolderStage(p)' = 4
        BY <1>2, <2>1, <2>2, <3>1 DEF HolderStage, Starting, Running
      <3>3. QED
        BY <3>2
    <2>3. CASE Running(p) /\ ~Running(p)'
      <3>1. HolderStage(p)' = 4 /\ HolderStage(p) \in {1, 2, 3}
        BY <1>2, <2>1, <2>3 DEF HolderStage, Starting, Running
      <3>2. QED
        BY <3>1
    <2>4. CASE Running(p) /\ Running(p)'
      <3>1. /\ HolderStage(p) = IF rollback[p] THEN 3 ELSE IF lockTimer = "fired" THEN 2 ELSE 1
            /\ HolderStage(p)' = IF rollback'[p] THEN 3 ELSE IF lockTimer' = "fired" THEN 2 ELSE 1
        BY <1>2, <2>1, <2>4 DEF HolderStage, Starting, Running
      <3>2. QED
        BY <1>2, <3>1 DEF StageKept
    <2>5. QED
      BY <2>2, <2>3, <2>4
  <1>3. QED
    BY <1>1, <1>2

\* Every step leaves the holder at least as near to giving the lock back,
\* for every set of plans and requests and any number of failures
\* (main.go:204-233, db_ops_workflow.go:87-113).
THEOREM HolderOnlyAdvances == Spec => HolderNeverSetBack
  <1>1. IInv /\ [Next]_vars =>
          [\A p \in Plans : active = p /\ active' = p =>
              HolderStage(p)' >= HolderStage(p)]_vars
    BY KeptStep, KeptStage
  <1>2. QED
    BY <1>1, InductiveInvariant, PTL DEF Spec, HolderNeverSetBack

-----------------------------------------------------------------------------
(***************************************************************************)
(* Refinement.                                                             *)
(***************************************************************************)
Working == {p \in Plans : run[p] = "running"}

LEMMA WorkingIsHolder ==
    ASSUME IInv
    PROVE  \A p \in Plans : Running(p) => Working = {p} /\ active = p
  BY DEF IInv, MutualExclusion, Running, Working

LEMMA StepSimulates ==
    IInv /\ [Next]_vars => [Lock!Next]_(Lock!vars)
  <1> SUFFICES ASSUME IInv, [Next]_vars
               PROVE  [Lock!Next]_(Lock!vars)
    OBVIOUS
  <1> USE DEF lockVars, opsVars, runVars, netVars
  <1>1. ASSUME UNCHANGED <<active, run>>
        PROVE  UNCHANGED Lock!vars
    BY <1>1 DEF Lock!vars
  <1>2. ASSUME NEW c \in Requests, AcquireLock(c)
        PROVE  Lock!Next
    <2>1. Lock!Acquire(PlanOf[c])
      BY <1>2 DEF AcquireLock, Lock!Acquire
    <2>2. QED
      BY <2>1, LockAssumption DEF Lock!Next
  <1>3. ASSUME NEW c \in Requests, StartRun(c), run[PlanOf[c]] \notin {"running", "closing"}
        PROVE  Lock!Next
    <2>1. active = PlanOf[c] /\ PlanOf[c] \in Plans /\ active # NoPlan /\ UNCHANGED active
      BY <1>3, LockAssumption DEF StartRun, IInv, GrantToken, Granted
    <2>2. Working = {}
      BY <1>3, <2>1, WorkingIsHolder DEF Running, Working
    <2>3. run' = [run EXCEPT ![PlanOf[c]] = "running"]
      BY <1>3 DEF StartRun
    <2>4. Working' = {active}
      BY <2>1, <2>2, <2>3 DEF Working, IInv, TypeOK
    <2>5. Lock!Begin
      BY <2>1, <2>2, <2>4 DEF Working, Lock!Begin
    <2>6. QED
      BY <2>5 DEF Lock!Next
  <1>4. ASSUME NEW p \in Plans, Notify(p)
        PROVE  Lock!Next
    <2>1. Working = {p} /\ active = p
      BY <1>4, WorkingIsHolder DEF Notify, Running
    <2>2. run' = [run EXCEPT ![p] = "closing"] /\ UNCHANGED active
      BY <1>4 DEF Notify
    <2>3. Working' = {}
      BY <2>1, <2>2 DEF Working, IInv, TypeOK
    <2>4. Lock!End
      BY <2>1, <2>2, <2>3 DEF Working, Lock!End
    <2>5. QED
      BY <2>4 DEF Lock!Next
  <1>5. ASSUME NEW p \in Plans, ReceiveCompletion(p)
        PROVE  Lock!Next
    <2>1. active = p /\ active # NoPlan /\ ~Running(p)
      BY <1>5, LockAssumption DEF ReceiveCompletion, IInv, CompletionToken, Completing
    <2>2. Working = {}
      BY <2>1, WorkingIsHolder DEF Working, Running
    <2>3. active' = NoPlan /\ UNCHANGED run
      BY <1>5 DEF ReceiveCompletion
    <2>4. Lock!Release
      BY <2>1, <2>2, <2>3 DEF Working, Lock!Release
    <2>5. QED
      BY <2>4 DEF Lock!Next
  <1>6. ASSUME NEW p \in Plans, Close(p)
        PROVE  UNCHANGED Lock!vars
    <2>1. \A q \in Plans : run'[q] = "running" <=> run[q] = "running"
      BY <1>6 DEF Close, IInv, TypeOK
    <2>2. UNCHANGED active
      BY <1>6 DEF Close
    <2>3. QED
      BY <2>1, <2>2 DEF Lock!vars
  <1>7. ASSUME NEW c \in Requests,
               \/ EnsureCoordinator(c) \/ RejectLocked(c) \/ RequestFails(c)
               \/ StartRun(c) /\ run[PlanOf[c]] \in {"running", "closing"}
        PROVE  UNCHANGED <<active, run>>
    BY <1>7 DEF EnsureCoordinator, RejectLocked, RequestFails, StartRun
  <1>8. ASSUME NEW p \in Plans, DeliverRollback(p) \/ PressRollback(p)
        PROVE  UNCHANGED <<active, run>>
    BY <1>8 DEF DeliverRollback, PressRollback
  <1>9. CASE LockTimerFires \/ ContinueTimerFires
    BY <1>1, <1>9 DEF LockTimerFires, ContinueTimerFires
  <1>10. CASE UNCHANGED vars
    BY <1>1, <1>10 DEF vars
  <1>11. QED
    BY <1>1, <1>2, <1>3, <1>4, <1>5, <1>6, <1>7, <1>8, <1>9, <1>10
       DEF Next, RequestStep

\* The coordinator, its requests and the runs implement SchemaLock: the lock
\* passes from holder to holder, each works at most one after the other and
\* never without it (db_ops_workflow.go:24-35).
THEOREM RefinesSchemaLock == Spec => ImplementsSchemaLock
  <1>1. Init => Lock!Init
    BY DEF Init, Lock!Init
  <1>2. QED
    BY <1>1, StepSimulates, InductiveInvariant, PTL
       DEF Spec, ImplementsSchemaLock, Lock!Spec
=============================================================================
