--------------------------- MODULE SchemaRegistry ---------------------------
(***************************************************************************)
(* The schema registry (src/internal/connectors/schema.go) and its only    *)
(* users, the second and third step of the two provisioning workflows      *)
(* (src/internal/temporal/workflow.go, session2_workflow.go): a check of   *)
(* the schema policy before anything is provisioned, and the registration  *)
(* under the pipeline's subject.                                           *)
(*                                                                         *)
(* Pipelines name their subjects freely, so runs of several pipelines      *)
(* register under one subject at the same time.  Each activity is repeated *)
(* up to MaxAttempts times, also when it was refused and when only its     *)
(* result was lost; the policy check is two calls of the registry.         *)
(***************************************************************************)
EXTENDS Naturals, Sequences

CONSTANTS
    Runs,         \* provisioning runs
    Subjects,     \* schema subjects
    NoSubject,    \* SchemaSpec.Subject = ""
    Documents,    \* schemas: functions from field names to "is required"
    NoSchema,     \* SchemaSpec.Format = ""
    Unparseable,  \* a Format that is no JSON schema, such as "avro"
    Specs,        \* the SchemaSpecs that are submitted
    MaxAttempts   \* MaximumAttempts of defaultActivityOptions

\* Any other compatibility than BACKWARD is enforced by nobody: "NONE" stands
\* for those that are given, "unset" for the empty string.
SchemaSpec == [subject : Subjects \cup {NoSubject},
               format : Documents \cup {NoSchema, Unparseable},
               compatibility : {"BACKWARD", "NONE", "unset"}]

ASSUME RegistryAssumption ==
    /\ NoSubject \notin Subjects
    /\ NoSchema \notin Documents
    /\ Unparseable \notin Documents \cup {NoSchema}
    /\ \A d \in Documents : d \in [DOMAIN d -> BOOLEAN]
    /\ Specs \subseteq SchemaSpec
    /\ MaxAttempts \in Nat \ {0}

VARIABLES
    versions,   \* the versions of each subject, oldest first
    validated,  \* the same of the subject's ".__validate__" subject
    counter,    \* ids given out
    run         \* the provisioning runs

vars == <<versions, validated, counter, run>>

\* by and mode are history, read by properties only.
Version == [id : Nat, fields : Documents \cup {<<>>}, by : Runs,
            mode : {"BACKWARD", "NONE", "unset"}]

Run == [spec : Specs,
        step : {"policy", "checking", "ensure", "provisioning", "failed"},
        attempt : Nat,                           \* failed attempts of the activity
        id : Nat,                                \* SchemaID received
        refusal : {"none", "policy", "ensure"}]  \* who refused the newest attempt

TypeOK ==
    /\ versions \in [Subjects -> Seq(Version)]
    /\ validated \in [Subjects -> Seq(Version)]
    /\ counter \in Nat
    /\ run \in [Runs -> Run]

Init ==
    /\ versions = [s \in Subjects |-> <<>>]
    /\ validated = [s \in Subjects |-> <<>>]
    /\ counter = 0
    /\ \E spec \in [Runs -> Specs] :
          run = [r \in Runs |-> [spec |-> spec[r], step |-> "policy", attempt |-> 0,
                                 id |-> 0, refusal |-> "none"]]

-----------------------------------------------------------------------------
(***************************************************************************)
(* The registry.                                                           *)
(***************************************************************************)
\* parseFields of a format that parses.
Fields(format) == IF format = NoSchema THEN <<>> ELSE format

\* Faulty variant: every field of the new schema must be optional.
CompatibleAllOptional(prev, next) ==
    /\ DOMAIN prev \subseteq DOMAIN next
    /\ \A f \in DOMAIN next : ~next[f]

\* checkBackwardCompat: no field goes, and new ones are optional.
Compatible(prev, next) ==
    /\ DOMAIN prev \subseteq DOMAIN next
    /\ \A f \in DOMAIN next \ DOMAIN prev : ~next[f]

Latest(history) == history[Len(history)]

\* Faulty variants: the first version is asked; the format is not parsed.
AcceptsFirst(history, format, mode) ==
    /\ format # Unparseable
    /\ history # <<>> /\ mode = "BACKWARD" => Compatible(history[1].fields, Fields(format))

AcceptsUnparsed(history, format, mode) ==
    format # Unparseable /\ history # <<>> /\ mode = "BACKWARD"
        => Compatible(Latest(history).fields, Fields(format))

\* Register does not return an error; only BACKWARD is enforced.
Accepts(history, format, mode) ==
    /\ format # Unparseable
    /\ history # <<>> /\ mode = "BACKWARD"
         => Compatible(Latest(history).fields, Fields(format))

Entry(r, mode) ==
    [id |-> counter + 1, fields |-> Fields(run[r].spec.format), by |-> r, mode |-> mode]

-----------------------------------------------------------------------------
(***************************************************************************)
(* The activities.                                                         *)
(***************************************************************************)
Subject(r) == run[r].spec.subject
Format(r) == run[r].spec.format
At(r, step) == run[r].step = step

\* EnsureSchemaSubjectActivity defaults the mode, the policy check does not.
Mode(r) == IF run[r].spec.compatibility = "unset" THEN "BACKWARD" ELSE run[r].spec.compatibility

Goes(r, step, attempt, id, refusal) ==
    run' = [run EXCEPT ![r] = [spec |-> run[r].spec, step |-> step, attempt |-> attempt,
                               id |-> id, refusal |-> refusal]]

\* The result of the activity is received.
Passes(r, next, id) == Goes(r, next, 0, id, "none")

\* The attempt is over without a result: the server repeats the activity, or
\* the workflow returns the error; nothing is compensated and the pipeline
\* is not marked.
Fails(r, refusal) ==
    LET again == IF At(r, "ensure") THEN "ensure" ELSE "policy" IN
    Goes(r, IF run[r].attempt + 1 < MaxAttempts THEN again ELSE "failed",
         run[r].attempt + 1, run[r].id, refusal)

HasPredecessor(r) ==
    /\ Subject(r) # NoSubject
    /\ Format(r) # NoSchema
    /\ versions[Subject(r)] # <<>>

\* ValidateSchemaPolicyActivity, up to GetLatest.
PolicySkips(r) ==
    /\ At(r, "policy") /\ ~HasPredecessor(r)
    /\ Passes(r, "ensure", 0)
    /\ UNCHANGED <<versions, validated, counter>>

PolicyReads(r) ==
    /\ At(r, "policy") /\ HasPredecessor(r)
    /\ Goes(r, "checking", run[r].attempt, run[r].id, "none")
    /\ UNCHANGED <<versions, validated, counter>>

\* Its second call registers the schema under the ".__validate__" subject,
\* whose own history decides; what GetLatest returned is not used.
PolicyAccepts(r) ==
    LET s == Subject(r)  mode == run[r].spec.compatibility IN
    /\ At(r, "checking")
    /\ Accepts(validated[s], Format(r), mode)
    /\ validated' = [validated EXCEPT ![s] = Append(@, Entry(r, mode))]
    /\ counter' = counter + 1
    /\ Passes(r, "ensure", 0) \/ Fails(r, "none")
    /\ UNCHANGED versions

PolicyRefuses(r) ==
    /\ At(r, "checking")
    /\ ~Accepts(validated[Subject(r)], Format(r), run[r].spec.compatibility)
    /\ Fails(r, "policy")
    /\ UNCHANGED <<versions, validated, counter>>

\* EnsureSchemaSubjectActivity.
EnsureSkips(r) ==
    /\ At(r, "ensure") /\ Subject(r) = NoSubject
    /\ Passes(r, "provisioning", 0)
    /\ UNCHANGED <<versions, validated, counter>>

\* Faulty variant: the id is the number of the version.
EnsureRegistersNumbered(r) ==
    LET s == Subject(r) IN
    /\ At(r, "ensure") /\ s # NoSubject
    /\ Accepts(versions[s], Format(r), Mode(r))
    /\ versions' = [versions EXCEPT ![s] = Append(@, Entry(r, Mode(r)))]
    /\ counter' = counter + 1
    /\ Passes(r, "provisioning", Len(versions'[s])) \/ Fails(r, "none")
    /\ UNCHANGED validated

EnsureRegisters(r) ==
    LET s == Subject(r) IN
    /\ At(r, "ensure") /\ s # NoSubject
    /\ Accepts(versions[s], Format(r), Mode(r))
    /\ versions' = [versions EXCEPT ![s] = Append(@, Entry(r, Mode(r)))]
    /\ counter' = counter + 1
    /\ Passes(r, "provisioning", counter') \/ Fails(r, "none")
    /\ UNCHANGED validated

EnsureRefuses(r) ==
    /\ At(r, "ensure") /\ Subject(r) # NoSubject
    /\ ~Accepts(versions[Subject(r)], Format(r), Mode(r))
    /\ Fails(r, "ensure")
    /\ UNCHANGED <<versions, validated, counter>>

\* A timeout or a dead worker, before any effect of the call.
AttemptFails(r) ==
    /\ run[r].step \in {"policy", "checking", "ensure"}
    /\ Fails(r, "none")
    /\ UNCHANGED <<versions, validated, counter>>

Step(r) ==
    \/ PolicySkips(r)
    \/ PolicyReads(r)
    \/ PolicyAccepts(r)
    \/ PolicyRefuses(r)
    \/ EnsureSkips(r)
    \/ EnsureRegisters(r)
    \/ EnsureRefuses(r)
    \/ AttemptFails(r)

Next == \E r \in Runs : Step(r)

Spec == Init /\ [][Next]_vars

-----------------------------------------------------------------------------
(***************************************************************************)
(* Properties.                                                             *)
(***************************************************************************)
Keeps(older, newer) == DOMAIN older.fields \subseteq DOMAIN newer.fields

Introduced(history, i) ==
    IF i = 1 THEN {} ELSE DOMAIN history[i].fields \ DOMAIN history[i - 1].fields

\* Whatever pipelines register under one subject, at the same time and
\* repeatedly: along every stretch of BACKWARD registrations no field is ever
\* lost and every field that joined was optional then ("adding optional
\* fields", "no removals/renames", schema.go:21-22 and 64-65).  That an
\* optional field is not made required later is said there too
\* (schema.go:22), and nothing checks it.
BackwardKeepsFields ==
    \A s \in Subjects :
        LET h == versions[s] IN
        \A i, j \in 1..Len(h) :
            i < j /\ (\A k \in (i + 1)..j : h[k].mode = "BACKWARD") =>
                /\ Keeps(h[i], h[j])
                /\ \A f \in Introduced(h, j) : ~h[j].fields[f]

\* The SchemaID a run goes on with names the schema it has registered, and no
\* other version of any subject, however many runs and retries interleave,
\* the validate subjects included (schema.go:99, workflow.go:47).
IdNamesOwnSchema ==
    \A r \in Runs :
        run[r].step = "provisioning" /\ Subject(r) # NoSubject =>
            /\ \E i \in DOMAIN versions[Subject(r)] : versions[Subject(r)][i].id = run[r].id
            /\ \A s \in Subjects :
                  /\ \A i \in DOMAIN versions[s] :
                        versions[s][i].id = run[r].id =>
                            s = Subject(r) /\ versions[s][i].fields = Fields(Format(r))
                  /\ \A i \in DOMAIN validated[s] : validated[s][i].id # run[r].id

\* Neither activity is idempotent: a repeated attempt registers again.  But it
\* is never refused for what its own earlier attempt has registered, unlike
\* the connector's creation (session2_activities.go:50): a refusal of a
\* schema that parses is another run's doing.
OwnRetryAccepted ==
    [][\A r \in Runs :
          LET history == IF run'[r].refusal = "policy" THEN validated ELSE versions IN
          /\ run'[r] # run[r]
          /\ run'[r].refusal # "none"
          /\ Format(r) # Unparseable
          => history[Subject(r)] # <<>> /\ Latest(history[Subject(r)]).by # r]_vars

\* "ValidateSchemaPolicyActivity checks schema compatibility before
\* provisioning" (activities.go:43): what it refuses is not compatible with
\* the subject.
PolicyRefusalJust ==
    [][\A r \in Runs :
          run'[r] # run[r] /\ run'[r].refusal = "policy"
              => ~Accepts(versions[Subject(r)], Format(r), Mode(r))]_vars
=============================================================================
