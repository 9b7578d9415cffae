------------------------- MODULE MigratorPoolProofs -------------------------
(***************************************************************************)
(* Theorems about MigratorPool, for every number of connections and pages. *)
(***************************************************************************)
EXTENDS MigratorPool, SequenceTheorems, TLAPS

Busy(w) == stage[w] # "idle"

(***************************************************************************)
(* What holds until calls overlap: the pool is one session, one call is at *)
(* work, and the session carries only what this call has still to undo or  *)
(* what the window asks for.                                               *)
(***************************************************************************)
Quiet ==
    ~disturbed =>
        /\ \A c, d \in open : c = d
        /\ \A v, w \in Callers : Busy(v) /\ Busy(w) => v = w
        /\ \A c \in open : prepared[c] =>
              \E w \in Callers : stage[w] \in {"acquireAgain", "useAgain"}
        /\ ~told => \A c \in open : ~readOnly[c]
        /\ ~falseAlarm

IInv == TypeOK /\ ConnectionsAccounted /\ Quiet

-----------------------------------------------------------------------------
(***************************************************************************)
(* Types.                                                                  *)
(***************************************************************************)
\* The lists a caller starts or goes on with are lists of calls.
LEMMA ListsTyped ==
    /\ Deployment \in Seq(Calls)
    /\ Compensation \in Seq(Calls)
    /\ CompatPanel \in Seq(Calls)
    /\ Page \in Seq(Calls)
    /\ <<>> \in Seq(Calls)
  BY DEF Deployment, Compensation, Page, CompatPanel, Calls, Statements, Checks, Queries

\* A call that returns leaves the caller idle, with a list of calls.
LEMMA ReturnTyped ==
  ASSUME TypeOK, NEW w \in Callers, NEW rest \in Seq(Calls), Return(w, rest)
  PROVE  /\ todo' \in [Callers -> Seq(Calls)]
         /\ stage' \in [Callers -> Stages]
         /\ \A v \in Callers : todo'[v] = <<>> => stage'[v] = "idle"
  BY DEF TypeOK, Return, Become, Stages

\* Both ways of returning leave a list of calls.
LEMMA RestTyped ==
  ASSUME TypeOK, NEW w \in Callers, stage[w] # "idle", Succeed(w) \/ Fail(w)
  PROVE  /\ todo' \in [Callers -> Seq(Calls)]
         /\ stage' \in [Callers -> Stages]
         /\ \A v \in Callers : todo'[v] = <<>> => stage'[v] = "idle"
  <1>1. todo[w] \in Seq(Calls) /\ todo[w] # <<>>
    BY DEF TypeOK
  <1>2. Tail(todo[w]) \in Seq(Calls)
    BY <1>1
  <1>3. \E rest \in Seq(Calls) : Return(w, rest)
    BY <1>1, <1>2, ListsTyped DEF Succeed, Fail
  <1> QED
    BY <1>3, ReturnTyped

\* A caller that has returned is idle, and the others are where they were.
LEMMA ReturnIdle ==
  ASSUME TypeOK, NEW w \in Callers, Succeed(w) \/ Fail(w)
  PROVE  stage' = [stage EXCEPT ![w] = "idle"]
  BY DEF Succeed, Fail, Return, Become

\* Every step keeps the types.
LEMMA TypeStep ==
  ASSUME TypeOK, Next
  PROVE  TypeOK'
  <1> USE DEF Stages
  <1>1. ASSUME NEW w \in Callers, Begin(w) PROVE TypeOK'
    <2>1. stage[w] = "idle"
      BY <1>1 DEF TypeOK, Begin
    <2> QED
      BY <1>1, <2>1, ListsTyped DEF TypeOK, Begin, poolVars
  <1>2. ASSUME NEW w \in Callers, Call(w) PROVE TypeOK'
    BY <1>2 DEF TypeOK, Call, Become, poolVars
  <1>3. ASSUME NEW w \in Callers, AcquireConn(w) PROVE TypeOK'
    <2>1. PICK c \in Conns :
             /\ open' = open \cup {c}
             /\ held' = [held EXCEPT ![w] = @ \cup {c}]
             /\ readOnly' = [readOnly EXCEPT ![c] = @ /\ c \in open]
             /\ prepared' = [prepared EXCEPT ![c] = @ /\ c \in open]
      BY <1>3 DEF AcquireConn
    <2>2. open' \subseteq Conns /\ held' \in [Callers -> SUBSET Conns]
      BY <2>1 DEF TypeOK
    <2>3. readOnly' \in [Conns -> BOOLEAN] /\ prepared' \in [Conns -> BOOLEAN]
      BY <2>1 DEF TypeOK
    <2> QED
      BY <1>3, <2>2, <2>3 DEF TypeOK, AcquireConn, Become
  <1>4. ASSUME NEW w \in Callers, NEW c \in Conns, SetReadOnly(w, c) PROVE TypeOK'
    <2>1. told' \in BOOLEAN
      BY <1>4 DEF SetReadOnly
    <2> QED
      BY <1>4, <2>1, RestTyped DEF TypeOK, SetReadOnly, Using, Release
  <1>5. ASSUME NEW w \in Callers, NEW c \in Conns,
               ExecuteSQL(w, c) \/ ExecuteSQLFails(w, c) \/ Query(w, c)
        PROVE  TypeOK'
    <2>1. stage[w] # "idle" /\ (Succeed(w) \/ Fail(w)) /\ Release(w)
      BY <1>5 DEF ExecuteSQL, ExecuteSQLFails, Query, Using
    <2>2. UNCHANGED <<open, readOnly, prepared, told, disturbed, falseAlarm>>
      BY <1>5 DEF ExecuteSQL, ExecuteSQLFails, Query
    <2> QED
      BY <2>1, <2>2, RestTyped DEF TypeOK, Release
  <1>6. ASSUME NEW w \in Callers, NEW c \in Conns, Prepare(w, c) PROVE TypeOK'
    BY <1>6 DEF TypeOK, Prepare, Using, Release, Become
  <1>7. ASSUME NEW w \in Callers, NEW c \in Conns, PrepareFails(w, c) PROVE TypeOK'
    <2>1. falseAlarm' \in BOOLEAN
      BY <1>7 DEF PrepareFails, TypeOK
    <2> QED
      BY <1>7, <2>1, RestTyped DEF TypeOK, PrepareFails, Using, Release
  <1>8. ASSUME NEW w \in Callers, NEW c \in Conns, Deallocate(w, c) PROVE TypeOK'
    BY <1>8, RestTyped DEF TypeOK, Deallocate, Release
  <1>9. ASSUME NEW w \in Callers, Interrupt(w) PROVE TypeOK'
    BY <1>9, RestTyped DEF TypeOK, Interrupt, Release
  <1>10. ASSUME NEW w \in Callers, Cancel(w) PROVE TypeOK'
    <2>1. disturbed' \in BOOLEAN
      BY <1>10 DEF Cancel, TypeOK
    <2> QED
      BY <1>10, <2>1, RestTyped DEF TypeOK, Cancel, poolVars
  <1>11. ASSUME Abandon PROVE TypeOK'
    <2>1. todo[Worker] \in Seq(Calls) /\ Worker \in Callers
      BY DEF TypeOK, Callers
    <2>2. Tail(todo[Worker]) \in Seq(Calls)
      BY <2>1, <1>11 DEF Abandon
    <2>3. \E rest \in Seq(Calls) : todo' = [todo EXCEPT ![Worker] = rest]
      BY <1>11, <2>1, <2>2, ListsTyped DEF Abandon
    <2> QED
      BY <1>11, <2>3 DEF TypeOK, Abandon, poolVars
  <1>12. ASSUME NEW c \in Conns, Retire(c) PROVE TypeOK'
    BY <1>12 DEF TypeOK, Retire, callVars
  <1> QED
    BY <1>1, <1>2, <1>3, <1>4, <1>5, <1>6, <1>7, <1>8, <1>9, <1>10, <1>11, <1>12
    DEF Next, Use

-----------------------------------------------------------------------------
(***************************************************************************)
(* The pool's connections.                                                 *)
(***************************************************************************)
\* A call that gives its connection back and returns accounts for it.
LEMMA ReleaseAccounted ==
  ASSUME TypeOK, ConnectionsAccounted, NEW w \in Callers,
         Release(w), open' = open,
         stage'[w] \in {"idle", "acquireAgain"},
         \A v \in Callers \ {w} : stage'[v] = stage[v]
  PROVE  ConnectionsAccounted'
  BY DEF TypeOK, ConnectionsAccounted, Release

\* Every step keeps the account.
LEMMA AccountedStep ==
  ASSUME TypeOK, ConnectionsAccounted, Next
  PROVE  ConnectionsAccounted'
  <1>1. ASSUME NEW w \in Callers, Begin(w) PROVE ConnectionsAccounted'
    BY <1>1 DEF ConnectionsAccounted, Begin, poolVars
  <1>2. ASSUME NEW w \in Callers, Call(w) PROVE ConnectionsAccounted'
    BY <1>2 DEF TypeOK, ConnectionsAccounted, Call, Become, poolVars
  <1>3. ASSUME NEW w \in Callers, AcquireConn(w) PROVE ConnectionsAccounted'
    <2>1. PICK c \in Conns :
             /\ IF \E d \in open : Idle(d) THEN Idle(c) ELSE c \notin open
             /\ open' = open \cup {c}
             /\ held' = [held EXCEPT ![w] = @ \cup {c}]
      BY <1>3 DEF AcquireConn
    <2>2. \A v \in Callers : c \notin held[v]
      BY <2>1 DEF Idle, ConnectionsAccounted
    <2>3. held[w] = {}
      BY <1>3 DEF AcquireConn, ConnectionsAccounted
    <2>4. stage' = [stage EXCEPT ![w] = IF stage[w] = "acquire" THEN "use" ELSE "useAgain"]
      BY <1>3 DEF AcquireConn, Become
    <2> QED
      BY <2>1, <2>2, <2>3, <2>4 DEF TypeOK, ConnectionsAccounted
  <1>4. ASSUME NEW w \in Callers, NEW c \in Conns,
               \/ SetReadOnly(w, c)
               \/ ExecuteSQL(w, c)
               \/ ExecuteSQLFails(w, c)
               \/ Query(w, c)
               \/ PrepareFails(w, c)
               \/ Deallocate(w, c)
        PROVE  ConnectionsAccounted'
    <2>1. (Succeed(w) \/ Fail(w)) /\ Release(w) /\ open' = open
      BY <1>4 DEF SetReadOnly, ExecuteSQL, ExecuteSQLFails, Query, PrepareFails, Deallocate
    <2>2. stage'[w] = "idle" /\ \A v \in Callers \ {w} : stage'[v] = stage[v]
      BY <2>1, ReturnIdle DEF TypeOK
    <2> QED
      BY <2>1, <2>2, ReleaseAccounted
  <1>5. ASSUME NEW w \in Callers, NEW c \in Conns, Prepare(w, c)
        PROVE  ConnectionsAccounted'
    <2>1. stage'[w] = "acquireAgain" /\ \A v \in Callers \ {w} : stage'[v] = stage[v]
      BY <1>5 DEF Prepare, Become, TypeOK
    <2> QED
      BY <1>5, <2>1, ReleaseAccounted DEF Prepare
  <1>6. ASSUME NEW w \in Callers, Interrupt(w) PROVE ConnectionsAccounted'
    <2>1. Succeed(w) \/ Fail(w)
      BY <1>6 DEF Interrupt
    <2>2. stage'[w] = "idle" /\ \A v \in Callers \ {w} : stage'[v] = stage[v]
      BY <2>1, ReturnIdle DEF TypeOK
    <2> QED
      BY <1>6, <2>2 DEF TypeOK, ConnectionsAccounted, Interrupt, Release
  <1>7. ASSUME NEW w \in Callers, Cancel(w) PROVE ConnectionsAccounted'
    <2>1. Succeed(w) \/ Fail(w)
      BY <1>7 DEF Cancel
    <2>2. stage' = [stage EXCEPT ![w] = "idle"]
      BY <2>1, ReturnIdle
    <2> QED
      BY <1>7, <2>2 DEF TypeOK, ConnectionsAccounted, Cancel, poolVars
  <1>8. ASSUME Abandon PROVE ConnectionsAccounted'
    BY <1>8 DEF ConnectionsAccounted, Abandon, poolVars
  <1>9. ASSUME NEW c \in Conns, Retire(c) PROVE ConnectionsAccounted'
    BY <1>9 DEF ConnectionsAccounted, Retire, Idle, callVars
  <1> QED
    BY <1>1, <1>2, <1>3, <1>4, <1>5, <1>6, <1>7, <1>8, <1>9 DEF Next, Use

-----------------------------------------------------------------------------
(***************************************************************************)
(* Before calls overlap.                                                   *)
(***************************************************************************)
\* Quiet's conjuncts without the premise.
OneSession == \A c, d \in open : c = d
OneCall == \A v, w \in Callers : Busy(v) /\ Busy(w) => v = w
NameInUse ==
    \A c \in open : prepared[c] =>
        \E w \in Callers : stage[w] \in {"acquireAgain", "useAgain"}
Writable == ~told => \A c \in open : ~readOnly[c]

\* The parts make up the whole.
LEMMA QuietParts ==
  Quiet <=> (~disturbed => OneSession /\ OneCall /\ NameInUse /\ Writable /\ ~falseAlarm)
  BY DEF Quiet, OneSession, OneCall, NameInUse, Writable

\* A call that returns leaves nobody at work if it was the only one.
LEMMA ReturnAlone ==
  ASSUME TypeOK, OneCall, NEW w \in Callers, Busy(w), Succeed(w) \/ Fail(w)
  PROVE  /\ OneCall'
         /\ \A v \in Callers \ {w} : ~Busy(v)
  BY ReturnIdle DEF TypeOK, OneCall, Busy

\* Every step keeps Quiet.
LEMMA QuietStep ==
  ASSUME IInv, Next
  PROVE  Quiet'
  <1> SUFFICES ASSUME ~disturbed'
               PROVE  OneSession' /\ OneCall' /\ NameInUse' /\ Writable' /\ ~falseAlarm'
    BY DEF Quiet, OneSession, OneCall, NameInUse, Writable
  <1> USE DEF IInv
  <1>1. ASSUME NEW w \in Callers, Begin(w)
        PROVE  OneSession' /\ OneCall' /\ NameInUse' /\ Writable' /\ ~falseAlarm'
    BY <1>1 DEF Quiet, OneSession, OneCall, NameInUse, Writable, Busy, Begin, poolVars
  <1>2. ASSUME NEW w \in Callers, Call(w)
        PROVE  OneSession' /\ OneCall' /\ NameInUse' /\ Writable' /\ ~falseAlarm'
    <2>1. ~disturbed /\ \A v \in Callers \ {w} : stage[v] = "idle"
      BY <1>2 DEF Call, TypeOK
    <2>2. stage' = [stage EXCEPT ![w] = "acquire"] /\ stage[w] = "idle"
      BY <1>2 DEF Call, Become
    <2> QED
      BY <1>2, <2>1, <2>2
      DEF TypeOK, Quiet, OneSession, OneCall, NameInUse, Writable, Busy, Call, poolVars
  <1>3. ASSUME NEW w \in Callers, AcquireConn(w)
        PROVE  OneSession' /\ OneCall' /\ NameInUse' /\ Writable' /\ ~falseAlarm'
    <2>1. PICK c \in Conns :
             /\ IF \E d \in open : Idle(d) THEN Idle(c) ELSE c \notin open
             /\ open' = open \cup {c}
             /\ readOnly' = [readOnly EXCEPT ![c] = @ /\ c \in open]
             /\ prepared' = [prepared EXCEPT ![c] = @ /\ c \in open]
      BY <1>3 DEF AcquireConn
    <2>2. ~disturbed /\ told' = told /\ ~falseAlarm'
      BY <1>3 DEF AcquireConn, Quiet
    <2>3. stage[w] \in {"acquire", "acquireAgain"}
          /\ stage' = [stage EXCEPT ![w] = IF stage[w] = "acquire" THEN "use" ELSE "useAgain"]
      BY <1>3 DEF AcquireConn, Become
    <2>4. \A d \in open : Idle(d)
      <3> SUFFICES ASSUME NEW d \in open, NEW v \in Callers, d \in held[v] PROVE FALSE
        BY DEF Idle
      <3>1. stage[v] \in {"use", "useAgain"}
        BY DEF ConnectionsAccounted
      <3> QED
        BY <2>2, <2>3, <3>1 DEF Quiet, Busy
    <2>5. open = {} \/ c \in open
      BY <2>1, <2>4 DEF Idle
    <2>6. OneSession'
      BY <2>1, <2>2, <2>5 DEF Quiet, OneSession
    <2>7. OneCall'
      BY <2>2, <2>3 DEF TypeOK, Quiet, OneCall, Busy
    <2>8. NameInUse'
      <3> SUFFICES ASSUME NEW d \in open', prepared'[d]
                   PROVE  \E v \in Callers : stage'[v] \in {"acquireAgain", "useAgain"}
        BY DEF NameInUse
      <3>1. d \in open /\ prepared[d]
        BY <2>1, <2>5 DEF TypeOK
      <3>2. PICK v \in Callers : stage[v] \in {"acquireAgain", "useAgain"}
        BY <2>2, <3>1 DEF Quiet
      <3>3. v = w
        BY <2>2, <2>3, <3>2 DEF Quiet, Busy
      <3> QED
        BY <2>3, <3>2, <3>3 DEF TypeOK
    <2>9. Writable'
      BY <2>1, <2>2 DEF TypeOK, Quiet, Writable
    <2> QED
      BY <2>2, <2>6, <2>7, <2>8, <2>9
  <1>4. ASSUME NEW w \in Callers, NEW c \in Conns, Use(w)
        PROVE  OneSession' /\ OneCall' /\ NameInUse' /\ Writable' /\ ~falseAlarm'
    <2>1. ~disturbed /\ open' = open /\ Busy(w) /\ w \in Callers
      BY <1>4 DEF Use, Using, Busy, SetReadOnly, ExecuteSQL, ExecuteSQLFails, Query,
                  Prepare, PrepareFails, Deallocate
    <2>2. OneSession'
      BY <2>1 DEF Quiet, OneSession
    <2>3. OneCall /\ \A v \in Callers \ {w} : ~Busy(v)
      BY <2>1 DEF Quiet, OneCall, Busy
    <2>4. PICK d \in Conns : \/ SetReadOnly(w, d)
                             \/ ExecuteSQL(w, d)
                             \/ ExecuteSQLFails(w, d)
                             \/ Query(w, d)
                             \/ Prepare(w, d)
                             \/ PrepareFails(w, d)
                             \/ Deallocate(w, d)
      BY <1>4 DEF Use
    <2>5. d \in open /\ \A e \in open : e = d
      BY <2>1, <2>4 DEF Using, Deallocate, SetReadOnly, ExecuteSQL, ExecuteSQLFails, Query,
                        Prepare, PrepareFails, ConnectionsAccounted, Quiet
    <2>6. stage[w] = "use" => ~prepared[d]
      BY <2>1, <2>3, <2>5 DEF Quiet, Busy
    <2>7. CASE SetReadOnly(w, d) \/ ExecuteSQL(w, d) \/ ExecuteSQLFails(w, d)
                 \/ Query(w, d) \/ PrepareFails(w, d)
      <3>1. (Succeed(w) \/ Fail(w)) /\ prepared' = prepared /\ stage[w] = "use"
        BY <2>7 DEF SetReadOnly, ExecuteSQL, ExecuteSQLFails, Query, PrepareFails, Using
      <3>2. OneCall'
        BY <2>1, <2>3, <3>1, ReturnAlone
      <3>3. NameInUse'
        BY <2>1, <2>5, <2>6, <3>1 DEF NameInUse
      <3>4. Writable'
        BY <2>1, <2>5, <2>7 DEF TypeOK, Quiet, Writable, SetReadOnly, ExecuteSQL,
                                ExecuteSQLFails, Query, PrepareFails
      <3>5. ~falseAlarm'
        BY <2>1, <2>6, <2>7, <3>1 DEF Quiet, SetReadOnly, ExecuteSQL,
                                      ExecuteSQLFails, Query, PrepareFails
      <3> QED
        BY <2>2, <3>2, <3>3, <3>4, <3>5
    <2>8. CASE Prepare(w, d)
      <3>1. stage' = [stage EXCEPT ![w] = "acquireAgain"]
        BY <2>8 DEF Prepare, Become
      <3>2. OneCall' /\ NameInUse'
        BY <2>1, <2>3, <3>1 DEF TypeOK, OneCall, NameInUse, Busy
      <3> QED
        BY <2>1, <2>2, <2>8, <3>2 DEF Quiet, Writable, Prepare
    <2>9. CASE Deallocate(w, d)
      <3>1. OneCall'
        BY <2>1, <2>3, <2>9, ReturnAlone DEF Deallocate
      <3>2. NameInUse'
        BY <2>1, <2>5, <2>9 DEF TypeOK, NameInUse, Deallocate
      <3> QED
        BY <2>1, <2>2, <2>9, <3>1, <3>2 DEF Quiet, Writable, Deallocate
    <2> QED
      BY <2>4, <2>7, <2>8, <2>9
  <1>5. ASSUME NEW w \in Callers, Interrupt(w)
        PROVE  OneSession' /\ OneCall' /\ NameInUse' /\ Writable' /\ ~falseAlarm'
    <2>1. ~disturbed /\ Busy(w) /\ (Succeed(w) \/ Fail(w)) /\ OneCall
      BY <1>5 DEF Interrupt, Busy, Quiet, OneCall
    <2>2. PICK d \in held[w] : d \in open
      BY <1>5 DEF Interrupt, ConnectionsAccounted
    <2>3. OneCall'
      BY <2>1, ReturnAlone
    <2>4. open' = {}
      BY <1>5, <2>1, <2>2 DEF Interrupt, Quiet
    <2> QED
      BY <1>5, <2>1, <2>3, <2>4 DEF Interrupt, Quiet, OneSession, NameInUse, Writable
  <1>6. ASSUME NEW w \in Callers, Cancel(w)
        PROVE  OneSession' /\ OneCall' /\ NameInUse' /\ Writable' /\ ~falseAlarm'
    <2>1. ~disturbed /\ stage[w] = "acquire" /\ Busy(w) /\ (Succeed(w) \/ Fail(w)) /\ OneCall
      BY <1>6 DEF Cancel, Busy, Quiet, OneCall, TypeOK
    <2>2. OneCall'
      BY <2>1, ReturnAlone
    <2>3. NameInUse'
      BY <1>6, <2>1 DEF Cancel, Quiet, Busy, NameInUse, poolVars
    <2> QED
      BY <1>6, <2>1, <2>2, <2>3 DEF Cancel, Quiet, OneSession, Writable, poolVars
  <1>7. ASSUME Abandon
        PROVE  OneSession' /\ OneCall' /\ NameInUse' /\ Writable' /\ ~falseAlarm'
    BY <1>7 DEF Quiet, OneSession, OneCall, NameInUse, Writable, Busy, Abandon, poolVars
  <1>8. ASSUME NEW c \in Conns, Retire(c)
        PROVE  OneSession' /\ OneCall' /\ NameInUse' /\ Writable' /\ ~falseAlarm'
    BY <1>8 DEF Quiet, OneSession, OneCall, NameInUse, Writable, Busy, Retire, callVars
  <1> QED
    BY <1>1, <1>2, <1>3, <1>4, <1>5, <1>6, <1>7, <1>8 DEF Next, Use

-----------------------------------------------------------------------------
(***************************************************************************)
(* Theorems.                                                               *)
(***************************************************************************)
\* The strengthened invariant holds of every behaviour.
LEMMA Invariance == Spec => []IInv
  <1>1. Init => IInv
    <2> SUFFICES ASSUME Init PROVE IInv
      OBVIOUS
    <2>1. TypeOK
      BY ListsTyped DEF Init, TypeOK, Stages
    <2>2. ConnectionsAccounted
      BY DEF Init, ConnectionsAccounted
    <2>3. Quiet
      BY DEF Init, Quiet, Busy
    <2> QED
      BY <2>1, <2>2, <2>3 DEF IInv
  <1>2. IInv /\ [Next]_vars => IInv'
    <2> SUFFICES ASSUME IInv, [Next]_vars PROVE IInv'
      OBVIOUS
    <2>1. CASE Next
      BY <2>1, TypeStep, AccountedStep, QuietStep DEF IInv
    <2>2. CASE UNCHANGED vars
      BY <2>2 DEF vars, poolVars, callVars, IInv, TypeOK, ConnectionsAccounted, Quiet, Busy
    <2> QED
      BY <2>1, <2>2
  <1> QED
    BY <1>1, <1>2, PTL DEF Spec

\* The pool, the callers and the sessions keep their types.
THEOREM TypeCorrect == Spec => []TypeOK
  <1>1. IInv => TypeOK
    BY DEF IInv
  <1> QED
    BY <1>1, Invariance, PTL

\* Exactly the calls at work hold a connection, one each and each its own:
\* no path of the migrator or the dashboard leaks one (migrator_pg.go:37-47).
THEOREM ConnectionsAreAccounted == Spec => []ConnectionsAccounted
  <1>1. IInv => ConnectionsAccounted
    BY DEF IInv
  <1> QED
    BY <1>1, Invariance, PTL

\* Until calls overlap or a check is cancelled half-way, ValidateQuery
\* reports no sound query as broken (migrator_pg.go:66-74).
THEOREM UndisturbedTruthful == Spec => []UndisturbedChecksTruthful
  <1>1. IInv => UndisturbedChecksTruthful
    BY DEF IInv, Quiet, UndisturbedChecksTruthful
  <1> QED
    BY <1>1, Invariance, PTL

\* Until then a release that is reported leaves no session read-only
\* (migrator_pg.go:80-90).
THEOREM UndisturbedRelease == Spec => []UndisturbedReleaseComplete
  <1>1. IInv => UndisturbedReleaseComplete
    BY DEF IInv, Quiet, UndisturbedReleaseComplete
  <1> QED
    BY <1>1, Invariance, PTL

\* Nobody waits on callers that wait themselves: beside a caller that waits
\* for a connection there is one to be had, or another caller has one and
\* is about to give it back (migrator_pg.go:66-74, at the pool's limit).
WaitsOnUserOnly ==
    \A w \in Callers :
        stage[w] \in {"acquire", "acquireAgain"} =>
            \/ \E c \in Conns : Idle(c) \/ c \notin open
            \/ \E v \in Callers \ {w} : stage[v] \in {"use", "useAgain"}

\* A caller that waits is never the end of a chain of waiters: there is a
\* connection to be had, or a caller that has one waits for nothing more,
\* for every number of connections and pages (migrator_pg.go:66-74).
THEOREM WaitersServable == Spec => []WaitsOnUserOnly
  <1>1. ASSUME IInv
        PROVE  WaitsOnUserOnly
    <2> SUFFICES ASSUME NEW w \in Callers, stage[w] \in {"acquire", "acquireAgain"}
                 PROVE  \/ \E c \in Conns : Idle(c) \/ c \notin open
                        \/ \E v \in Callers \ {w} : stage[v] \in {"use", "useAgain"}
      BY DEF WaitsOnUserOnly
    <2>1. PICK c \in Conns : TRUE
      BY PoolAssumption
    <2>2. CASE c \notin open \/ Idle(c)
      BY <2>2
    <2>3. CASE c \in open /\ ~Idle(c)
      <3>1. PICK v \in Callers : c \in held[v]
        BY <2>3 DEF Idle
      <3>2. stage[v] \in {"use", "useAgain"}
        BY <1>1, <3>1 DEF IInv, ConnectionsAccounted
      <3> QED
        BY <3>2
    <2> QED
      BY <2>2, <2>3
  <1> QED
    BY <1>1, Invariance, PTL
=============================================================================
