---------------------------- MODULE MigratorPool ----------------------------
(***************************************************************************)
(* The connection pool under PgDatabaseMigrator                            *)
(* (src/internal/bluegreen/migrator_pg.go) and the two that share it: the  *)
(* worker that executes a deployment's activities and the dashboard's page *)
(* requests (collectData in src/internal/bluegreen/ui.go).                 *)
(*                                                                         *)
(* Every call of the migrator takes a connection of the pool and gives it  *)
(* back; two of them leave something behind in its session.  SetReadOnly   *)
(* sets default_transaction_read_only, and ValidateQuery prepares a        *)
(* statement under a fixed name in one call and drops it in another.       *)
(* Which connection a call gets is the pool's choice.                      *)
(***************************************************************************)
EXTENDS Naturals, Sequences, FiniteSets

CONSTANTS
    Conns,   \* the connections the pool may have open at a time (MaxConns)
    Worker,  \* the worker's activity, one at a time
    Pages    \* the dashboard's page requests

\* pgxpool has at least one connection.
ASSUME PoolAssumption == Worker \notin Pages /\ Conns # {}

Callers == {Worker} \cup Pages

(***************************************************************************)
(* The migrator's calls of a deployment, of its compensation and of a      *)
(* page, in order.  An activity that makes several calls of one kind       *)
(* stands here with one.                                                   *)
(***************************************************************************)
Deployment ==
    <<"ExecuteExpand", "VerifyExpand", "CompatAfterExpand", "AcquireReadOnly",
      "ReleaseReadOnly", "CompatBeforeContract", "ExecuteContract", "VerifyContract">>

Compensation == <<"ReleaseReadOnly", "ExecuteRollback">>

CompatPanel == <<"BlueCompat", "GreenCompat">>

Page == <<"QuerySchema", "QueryRows">> \o CompatPanel

Statements == {"ExecuteExpand", "ExecuteContract", "ExecuteRollback"}
Checks == {"CompatAfterExpand", "CompatBeforeContract", "VerifyContract",
           "BlueCompat", "GreenCompat"}
Queries == {"VerifyExpand", "QuerySchema", "QueryRows"}
Calls == Statements \cup Checks \cup Queries \cup {"AcquireReadOnly", "ReleaseReadOnly"}

VARIABLES
    open,        \* connections of the pool
    held,        \* the connections each caller has taken from it
    readOnly,    \* default_transaction_read_only of each session
    prepared,    \* _bg_compat_check is prepared in the session
    todo,        \* the calls each caller has still to make
    stage,       \* how far it is with the first of them
    told,        \* the last value SetReadOnly reported as set
    \* history variables, read by properties only
    disturbed,   \* two calls overlapped, or a check was cancelled half-way
    falseAlarm   \* a query that fits the schema was reported as broken

poolVars == <<open, held, readOnly, prepared>>
callVars == <<todo, stage>>
vars == <<poolVars, callVars, told, disturbed, falseAlarm>>

Stages == {"idle", "acquire", "use", "acquireAgain", "useAgain"}

TypeOK ==
    /\ open \subseteq Conns
    /\ held \in [Callers -> SUBSET Conns]
    /\ readOnly \in [Conns -> BOOLEAN]
    /\ prepared \in [Conns -> BOOLEAN]
    /\ todo \in [Callers -> Seq(Calls)]
    /\ stage \in [Callers -> Stages]
    /\ \A w \in Callers : todo[w] = <<>> => stage[w] = "idle"
    /\ told \in BOOLEAN
    /\ disturbed \in BOOLEAN
    /\ falseAlarm \in BOOLEAN

Init ==
    /\ open = {}
    /\ held = [w \in Callers |-> {}]
    /\ readOnly = [c \in Conns |-> FALSE]
    /\ prepared = [c \in Conns |-> FALSE]
    /\ todo = [w \in Callers |-> <<>>]
    /\ stage = [w \in Callers |-> "idle"]
    /\ told = FALSE
    /\ disturbed = FALSE
    /\ falseAlarm = FALSE

-----------------------------------------------------------------------------
(***************************************************************************)
(* The callers.                                                            *)
(***************************************************************************)
Become(w, s) == stage' = [stage EXCEPT ![w] = s]

\* The call has returned; the caller goes on with the rest.
Return(w, rest) ==
    /\ Become(w, "idle")
    /\ todo' = [todo EXCEPT ![w] = rest]

Succeed(w) == Return(w, Tail(todo[w]))

\* Faulty variant: the caller's place is not cleared.
FailInPlace(w) ==
    /\ todo' = [todo EXCEPT ![w] = Tail(@)]
    /\ UNCHANGED stage

\* A page goes on after an error, but asks for no rows when its schema query
\* has returned none.  An activity is tried again, or given up (Abandon).
Fail(w) ==
    Return(w, IF w = Worker THEN todo[w]
              ELSE IF Head(todo[w]) = "QuerySchema" THEN CompatPanel
              ELSE Tail(todo[w]))

Begin(w) ==
    /\ todo[w] = <<>>
    /\ todo' = [todo EXCEPT ![w] = IF w = Worker THEN Deployment ELSE Page]
    /\ UNCHANGED <<poolVars, stage, told, disturbed, falseAlarm>>

\* A failed activity is out of attempts, or a gate is answered with a
\* rollback: errors of the release, of the last check and of the rollback
\* are discarded, the contract is not undone, the rest compensates.
Abandon ==
    /\ stage[Worker] = "idle"
    /\ todo[Worker] # <<>>
    /\ todo' = [todo EXCEPT ![Worker] =
          CASE Head(@) \in {"ReleaseReadOnly", "VerifyContract", "ExecuteRollback"} -> Tail(@)
            [] Head(@) = "ExecuteContract" -> <<>>
            [] OTHER -> Compensation]
    /\ UNCHANGED <<poolVars, stage, told, disturbed, falseAlarm>>

Call(w) ==
    /\ stage[w] = "idle"
    /\ todo[w] # <<>>
    /\ Become(w, "acquire")
    /\ disturbed' = (disturbed \/ \E v \in Callers \ {w} : stage[v] # "idle")
    /\ UNCHANGED <<poolVars, todo, told, falseAlarm>>

-----------------------------------------------------------------------------
(***************************************************************************)
(* The pool.                                                               *)
(***************************************************************************)
Idle(c) == c \in open /\ \A w \in Callers : c \notin held[w]

\* pgxpool prefers an idle connection, and dials a new one only with none
\* idle.  A new session has the server's defaults.
AcquireConn(w) ==
    /\ stage[w] \in {"acquire", "acquireAgain"}
    /\ \E c \in Conns :
          /\ IF \E d \in open : Idle(d) THEN Idle(c) ELSE c \notin open
          /\ open' = open \cup {c}
          /\ held' = [held EXCEPT ![w] = @ \cup {c}]
          /\ readOnly' = [readOnly EXCEPT ![c] = @ /\ c \in open]
          /\ prepared' = [prepared EXCEPT ![c] = @ /\ c \in open]
    /\ Become(w, IF stage[w] = "acquire" THEN "use" ELSE "useAgain")
    /\ UNCHANGED <<todo, told, disturbed, falseAlarm>>

Release(w) == held' = [held EXCEPT ![w] = {}]

\* An idle connection has reached its age limit, or the server closed it.
Retire(c) ==
    /\ Idle(c)
    /\ open' = open \ {c}
    /\ UNCHANGED <<held, readOnly, prepared, callVars, told, disturbed, falseAlarm>>

-----------------------------------------------------------------------------
(***************************************************************************)
(* PgDatabaseMigrator, on the connection c the call has got.               *)
(***************************************************************************)
Using(w, c, calls) == stage[w] = "use" /\ c \in held[w] /\ Head(todo[w]) \in calls

\* Faulty variant: the release is reported without having been sent.
SetReadOnlyOnce(w, c) ==
    /\ Using(w, c, {"AcquireReadOnly", "ReleaseReadOnly"})
    /\ told' = (Head(todo[w]) = "AcquireReadOnly")
    /\ readOnly' = [readOnly EXCEPT ![c] = @ \/ told']
    /\ Release(w)
    /\ Succeed(w)
    /\ UNCHANGED <<open, prepared, disturbed, falseAlarm>>

\* A session setting: it outlives the call, in this session.
SetReadOnly(w, c) ==
    /\ Using(w, c, {"AcquireReadOnly", "ReleaseReadOnly"})
    /\ told' = (Head(todo[w]) = "AcquireReadOnly")
    /\ readOnly' = [readOnly EXCEPT ![c] = told']
    /\ Release(w)
    /\ Succeed(w)
    /\ UNCHANGED <<open, prepared, disturbed, falseAlarm>>

\* A transaction of its own, refused by a read-only session.
ExecuteSQL(w, c) ==
    /\ Using(w, c, Statements)
    /\ ~readOnly[c]
    /\ Release(w)
    /\ Succeed(w)
    /\ UNCHANGED <<open, readOnly, prepared, told, disturbed, falseAlarm>>

\* Faulty variant: the failed transaction is not rolled back.
ExecuteSQLFailsOpen(w, c) ==
    /\ Using(w, c, Statements)
    /\ Fail(w)
    /\ UNCHANGED <<poolVars, told, disturbed, falseAlarm>>

\* The statement fails; Rollback ends the transaction and frees the connection.
ExecuteSQLFails(w, c) ==
    /\ Using(w, c, Statements)
    /\ Release(w)
    /\ Fail(w)
    /\ UNCHANGED <<open, readOnly, prepared, told, disturbed, falseAlarm>>

\* QueryCheck, querySchema and queryRows: rows are closed on every path.
Query(w, c) ==
    /\ Using(w, c, Queries)
    /\ Release(w)
    /\ Succeed(w) \/ Fail(w)
    /\ UNCHANGED <<open, readOnly, prepared, told, disturbed, falseAlarm>>

\* Faulty variant: the connection is kept for the second call, which takes
\* another one all the same.
PrepareKept(w, c) ==
    /\ Using(w, c, Checks)
    /\ ~prepared[c]
    /\ prepared' = [prepared EXCEPT ![c] = TRUE]
    /\ Become(w, "acquireAgain")
    /\ UNCHANGED <<open, held, readOnly, todo, told, disturbed, falseAlarm>>

\* ValidateQuery's first call.
Prepare(w, c) ==
    /\ Using(w, c, Checks)
    /\ ~prepared[c]
    /\ prepared' = [prepared EXCEPT ![c] = TRUE]
    /\ Release(w)
    /\ Become(w, "acquireAgain")
    /\ UNCHANGED <<open, readOnly, todo, told, disturbed, falseAlarm>>

\* The query does not fit the schema, or it does and the name is taken.
\* RunAppCompat and checkCompat go on, with the verdict that it is broken;
\* whether the workflow tries again or compensates is Abandon.
PrepareFails(w, c) ==
    /\ Using(w, c, Checks)
    /\ falseAlarm' \in {falseAlarm, falseAlarm \/ prepared[c]}
    /\ Release(w)
    /\ Succeed(w) \/ Fail(w)
    /\ UNCHANGED <<open, readOnly, prepared, told, disturbed>>

\* Faulty variant: the statement is left prepared.
DeallocateForgotten(w, c) ==
    /\ stage[w] = "useAgain"
    /\ c \in held[w]
    /\ Release(w)
    /\ Succeed(w)
    /\ UNCHANGED <<open, readOnly, prepared, told, disturbed, falseAlarm>>

\* ValidateQuery's second call; its error is discarded.
Deallocate(w, c) ==
    /\ stage[w] = "useAgain"
    /\ c \in held[w]
    /\ prepared' = [prepared EXCEPT ![c] = FALSE]
    /\ Release(w)
    /\ Succeed(w)
    /\ UNCHANGED <<open, readOnly, told, disturbed, falseAlarm>>

\* The caller's context ends, or the connection breaks, during a call: pgx
\* closes the connection.  The second call of a check does not matter to it,
\* and a schema query that breaks off counts with the rows it had returned.
Interrupt(w) ==
    /\ stage[w] \in {"use", "useAgain"}
    /\ open' = open \ held[w]
    /\ Release(w)
    /\ \/ stage[w] = "use" /\ Fail(w)
       \/ stage[w] = "useAgain" /\ Succeed(w)
       \/ Head(todo[w]) = "QuerySchema" /\ Succeed(w)
    /\ UNCHANGED <<readOnly, prepared, told, disturbed, falseAlarm>>

\* The caller's context ends before it gets a connection: nothing is sent,
\* and between the two calls of a check the name stays.
Cancel(w) ==
    /\ stage[w] \in {"acquire", "acquireAgain"}
    /\ IF stage[w] = "acquire" THEN Fail(w) ELSE Succeed(w)
    /\ disturbed' = (disturbed \/ stage[w] = "acquireAgain")
    /\ UNCHANGED <<poolVars, told, falseAlarm>>

-----------------------------------------------------------------------------
Use(w) ==
    \E c \in Conns :
        \/ SetReadOnly(w, c)
        \/ ExecuteSQL(w, c)
        \/ ExecuteSQLFails(w, c)
        \/ Query(w, c)
        \/ Prepare(w, c)
        \/ PrepareFails(w, c)
        \/ Deallocate(w, c)

Next ==
    \/ \E w \in Callers : Begin(w) \/ Call(w) \/ AcquireConn(w) \/ Use(w)
                            \/ Interrupt(w) \/ Cancel(w)
    \/ Abandon
    \/ \E c \in Conns : Retire(c)

Spec == Init /\ [][Next]_vars

\* PostgreSQL answers, and the pool serves its waiting callers first come,
\* first served: whoever waits while connections come free gets one.
FairSpec ==
    /\ Spec
    /\ \A w \in Callers : WF_vars(Use(w)) /\ SF_vars(AcquireConn(w))

-----------------------------------------------------------------------------
(***************************************************************************)
(* Properties.                                                             *)
(***************************************************************************)
\* A connection is out of the pool only while one call uses it, on every
\* path of ExecuteSQL, ValidateQuery and the dashboard's queries, failed
\* and cancelled ones included (migrator_pg.go:37-47, ui.go:480 and 507).
ConnectionsAccounted ==
    \A w \in Callers :
        /\ held[w] \subseteq open
        /\ held[w] # {} <=> stage[w] \in {"use", "useAgain"}
        /\ \A c, d \in held[w] : c = d
        /\ \A v \in Callers \ {w} : held[v] \cap held[w] = {}

\* As long as the migrator's calls have not overlapped and no check has been
\* cancelled between PREPARE and DEALLOCATE, a check never takes a sound
\* query for a broken one (migrator_pg.go:66-74), whatever connections are
\* retired or broken in between.
UndisturbedChecksTruthful == ~disturbed => ~falseAlarm

\* Under the same condition no session stays read-only once the release has
\* been reported (activities.go:148-156), however the window was left.
UndisturbedReleaseComplete == ~disturbed /\ ~told => \A c \in open : ~readOnly[c]

\* ReleaseReadOnlyActivity "removes the read-only restriction"
\* (activities.go:148): after a release that succeeded no session has it.
ReleaseComplete == ~told => \A c \in open : ~readOnly[c]

\* No caller waits for a connection for ever: nobody takes a second one
\* while holding one, and all are given back (migrator_pg.go:66-74).
EveryCallServed ==
    \A w \in Callers : stage[w] \in {"acquire", "acquireAgain"}
                         ~> stage[w] \notin {"acquire", "acquireAgain"}
=============================================================================
