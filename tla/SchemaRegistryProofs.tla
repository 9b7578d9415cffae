------------------------ MODULE SchemaRegistryProofs ------------------------
(***************************************************************************)
(* What BACKWARD registration and the ids of SchemaRegistry are worth, for *)
(* every set of runs, subjects, schemas and submitted specifications, and  *)
(* how often a run registers.                                              *)
(***************************************************************************)
EXTENDS SchemaRegistry, FiniteSetTheorems, TLAPS

\* The history of one subject: every version is its author's schema, ...
Written(h, runs) == \A i \in 1..Len(h) : h[i].fields = Fields(runs[h[i].by].spec.format)

\* ... and along a stretch of BACKWARD registrations no field is lost.
KeepsAlong(h) ==
    \A i, j \in 1..Len(h) :
        i < j /\ (\A k \in (i + 1)..j : h[k].mode = "BACKWARD") =>
            /\ Keeps(h[i], h[j])
            /\ \A f \in Introduced(h, j) : ~h[j].fields[f]

Histories == \A s \in Subjects : Written(versions[s], run) /\ Written(validated[s], run)

\* Every id has been given out once.
Given(h, n) == \A i \in 1..Len(h) : h[i].id \in 1..n

IdsGiven == \A s \in Subjects : Given(versions[s], counter) /\ Given(validated[s], counter)

IdsApart ==
    \A s, t \in Subjects :
        \A i \in 1..Len(versions[s]) :
            /\ \A j \in 1..Len(versions[t]) :
                  versions[s][i].id = versions[t][j].id => s = t /\ i = j
            /\ \A j \in 1..Len(validated[t]) : versions[s][i].id # validated[t][j].id

\* The version a provisioning run goes on with.
OwnVersion(r) ==
    \E i \in 1..Len(versions[Subject(r)]) :
        /\ versions[Subject(r)][i].id = run[r].id
        /\ versions[Subject(r)][i].fields = Fields(Format(r))

Provisioned ==
    \A r \in Runs : run[r].step = "provisioning" /\ Subject(r) # NoSubject => OwnVersion(r)

\* The policy check has got past its first call only with a subject.
CheckingSubject == \A r \in Runs : At(r, "checking") => Subject(r) # NoSubject

IInv ==
    /\ TypeOK
    /\ CheckingSubject
    /\ Histories
    /\ BackwardKeepsFields
    /\ IdsGiven
    /\ IdsApart
    /\ Provisioned

-----------------------------------------------------------------------------
(***************************************************************************)
(* Steps, apart from what they do to the histories.                        *)
(***************************************************************************)
\* What every step of a run does to the runs: it goes on with its own
\* specification, and the others stand still.
RunStep(r) ==
    /\ run' \in [Runs -> Run]
    /\ \A q \in Runs : run'[q].spec = run[q].spec
    /\ \A q \in Runs \ {r} : run'[q] = run[q]

LEMMA GoesStep ==
    ASSUME run \in [Runs -> Run], NEW r \in Runs,
           NEW step \in {"policy", "checking", "ensure", "provisioning", "failed"},
           NEW attempt \in Nat, NEW id \in Nat, NEW refusal \in {"none", "policy", "ensure"},
           Goes(r, step, attempt, id, refusal)
    PROVE  RunStep(r) /\ run'[r].step = step /\ run'[r].id = id /\ run'[r].refusal = refusal
  <1> DEFINE new == [spec |-> run[r].spec, step |-> step, attempt |-> attempt,
                     id |-> id, refusal |-> refusal]
  <1>1. run' = [run EXCEPT ![r] = new]
    BY DEF Goes
  <1>2. run[r].spec \in Specs
    BY DEF Run
  <1>3. new \in Run
    BY <1>2 DEF Run
  <1>4. new.spec = run[r].spec /\ new.step = step /\ new.id = id /\ new.refusal = refusal
    OBVIOUS
  <1> HIDE DEF new
  <1> QED
    BY <1>1, <1>3, <1>4 DEF RunStep

LEMMA PassesStep ==
    ASSUME TypeOK, NEW r \in Runs, NEW next \in {"ensure", "provisioning"}, NEW id \in Nat,
           Passes(r, next, id)
    PROVE  RunStep(r) /\ run'[r].step = next /\ run'[r].id = id /\ run'[r].refusal = "none"
  BY GoesStep DEF TypeOK, Passes

LEMMA FailsStep ==
    ASSUME TypeOK, NEW r \in Runs, NEW refusal \in {"none", "policy", "ensure"}, Fails(r, refusal)
    PROVE  RunStep(r) /\ run'[r].step # "provisioning" /\ run'[r].refusal = refusal
  <1> DEFINE again == IF At(r, "ensure") THEN "ensure" ELSE "policy"
             next  == IF run[r].attempt + 1 < MaxAttempts THEN again ELSE "failed"
  <1>1. Goes(r, next, run[r].attempt + 1, run[r].id, refusal)
    BY DEF Fails
  <1>2. next \in {"ensure", "policy", "failed"}
    OBVIOUS
  <1> HIDE DEF next
  <1>3. run \in [Runs -> Run] /\ run[r].attempt \in Nat /\ run[r].id \in Nat
    BY DEF TypeOK, Run
  <1>4. run[r].attempt + 1 \in Nat
    BY <1>3
  <1> QED
    BY <1>1, <1>2, <1>3, <1>4, GoesStep

LEMMA ReadsStep ==
    ASSUME TypeOK, NEW r \in Runs, PolicyReads(r)
    PROVE  RunStep(r) /\ run'[r].step = "checking" /\ run'[r].refusal = "none"
  <1>1. run \in [Runs -> Run] /\ run[r].attempt \in Nat /\ run[r].id \in Nat
    BY DEF TypeOK, Run
  <1> QED
    BY <1>1, GoesStep DEF PolicyReads

LEMMA EntryType ==
    ASSUME TypeOK, NEW r \in Runs, Format(r) # Unparseable, NEW mode \in {"BACKWARD", "NONE", "unset"}
    PROVE  /\ Entry(r, mode) \in Version
           /\ Entry(r, mode).id = counter + 1
           /\ Entry(r, mode).fields = Fields(Format(r))
           /\ Entry(r, mode).by = r
           /\ Entry(r, mode).mode = mode
  <1> DEFINE id == counter + 1
             fields == Fields(Format(r))
  <1>1. run[r].spec \in SchemaSpec
    BY RegistryAssumption DEF TypeOK, Run
  <1>2. fields \in Documents \cup {<<>>}
    BY <1>1 DEF Fields, Format, SchemaSpec
  <1>3. counter \in Nat
    BY DEF TypeOK
  <1>4. id \in Nat
    BY <1>3
  <1>5. Entry(r, mode) = [id |-> id, fields |-> fields, by |-> r, mode |-> mode]
    BY DEF Entry, Format
  <1> HIDE DEF id, fields
  <1>6. Entry(r, mode) \in Version
    BY <1>2, <1>4, <1>5 DEF Version
  <1> QED
    BY <1>5, <1>6 DEF id, fields

LEMMA ModeType ==
    ASSUME TypeOK, NEW r \in Runs
    PROVE  /\ Subject(r) \in Subjects \cup {NoSubject}
           /\ run[r].spec.compatibility \in {"BACKWARD", "NONE", "unset"}
           /\ Mode(r) \in {"BACKWARD", "NONE"}
  <1>1. run[r].spec \in SchemaSpec
    BY RegistryAssumption DEF TypeOK, Run
  <1> QED
    BY <1>1 DEF SchemaSpec, Subject, Mode

-----------------------------------------------------------------------------
(***************************************************************************)
(* One history and a version that joins it.                                *)
(***************************************************************************)
LEMMA Appended ==
    ASSUME NEW h \in Seq(Version), NEW v \in Version
    PROVE  /\ Append(h, v) \in Seq(Version)
           /\ Len(Append(h, v)) = Len(h) + 1
           /\ Len(h) \in Nat
           /\ Append(h, v)[Len(h) + 1] = v
           /\ \A i \in 1..Len(h) : Append(h, v)[i] = h[i] /\ h[i] \in Version
  OBVIOUS

\* The step of the induction: what joins under BACKWARD keeps the fields of
\* the latest version, and with them those of the whole stretch.
LEMMA AppendKeeps ==
    ASSUME NEW h \in Seq(Version), NEW v \in Version, KeepsAlong(h),
           h # <<>> /\ v.mode = "BACKWARD" => Compatible(Latest(h).fields, v.fields)
    PROVE  KeepsAlong(Append(h, v))
  <1> DEFINE g == Append(h, v)
             n == Len(h)
  <1>1. /\ Len(g) = n + 1 /\ n \in Nat /\ g[n + 1] = v
        /\ \A i \in 1..n : g[i] = h[i]
    BY Appended
  <1> HIDE DEF g
  <1>2. ASSUME NEW i \in 1..(n + 1), NEW j \in 1..(n + 1), i < j,
               \A k \in (i + 1)..j : g[k].mode = "BACKWARD"
        PROVE  Keeps(g[i], g[j]) /\ \A f \in Introduced(g, j) : ~g[j].fields[f]
    <2>1. CASE j \in 1..n
      <3>1. i \in 1..n /\ \A k \in (i + 1)..j : k \in 1..n /\ h[k].mode = "BACKWARD"
        BY <1>1, <1>2, <2>1
      <3>2. Keeps(h[i], h[j]) /\ \A f \in Introduced(h, j) : ~h[j].fields[f]
        BY <1>2, <2>1, <3>1 DEF KeepsAlong
      <3>3. Introduced(g, j) = Introduced(h, j)
        <4>1. j # 1 => j - 1 \in 1..n
          BY <1>1, <2>1
        <4>2. g[j] = h[j] /\ (j # 1 => g[j - 1] = h[j - 1])
          BY <1>1, <2>1, <4>1
        <4> QED
          BY <4>2 DEF Introduced
      <3> QED
        BY <1>1, <2>1, <3>1, <3>2, <3>3
    <2>2. CASE j = n + 1
      <3>1. v.mode = "BACKWARD" /\ n \in 1..n /\ i \in 1..n
        BY <1>1, <1>2, <2>2
      <3>2. Compatible(h[n].fields, v.fields)
        BY <3>1 DEF Latest
      <3>3. Keeps(h[i], h[n])
        <4>1. CASE i = n
          BY <4>1 DEF Keeps
        <4>2. CASE i < n
          <5>1. \A k \in (i + 1)..n : h[k].mode = "BACKWARD"
            BY <1>1, <1>2, <2>2, <3>1
          <5> QED
            BY <3>1, <4>2, <5>1 DEF KeepsAlong
        <4> QED
          BY <1>1, <3>1, <4>1, <4>2
      <3>4. Keeps(g[i], g[j])
        BY <1>1, <2>2, <3>1, <3>2, <3>3 DEF Keeps, Compatible
      <3>5. Introduced(g, j) = DOMAIN v.fields \ DOMAIN h[n].fields
        <4>1. j - 1 = n /\ j # 1
          BY <1>1, <2>2, <3>1
        <4> QED
          BY <1>1, <2>2, <3>1, <4>1 DEF Introduced
      <3>6. \A f \in Introduced(g, j) : ~g[j].fields[f]
        BY <1>1, <2>2, <3>2, <3>5 DEF Compatible
      <3> QED
        BY <3>4, <3>6
    <2> QED
      BY <1>1, <2>1, <2>2
  <1> QED
    BY <1>1, <1>2 DEF KeepsAlong, g

LEMMA KeepsAlongAll ==
    BackwardKeepsFields <=> \A s \in Subjects : KeepsAlong(versions[s])
  BY DEF BackwardKeepsFields, KeepsAlong

LEMMA InitIInv == Init => IInv
  <1> SUFFICES ASSUME Init
               PROVE  IInv
    OBVIOUS
  <1>1. PICK spec \in [Runs -> Specs] :
          run = [r \in Runs |-> [spec |-> spec[r], step |-> "policy", attempt |-> 0,
                                 id |-> 0, refusal |-> "none"]]
    BY DEF Init
  <1>2. TypeOK
    <2>1. run \in [Runs -> Run]
      BY <1>1 DEF Run
    <2>2. <<>> \in Seq(Version)
      OBVIOUS
    <2> QED
      BY <2>1, <2>2 DEF Init, TypeOK
  <1>3. \A r \in Runs : run[r].step = "policy"
    BY <1>1
  <1>4. \A s \in Subjects : versions[s] = <<>> /\ validated[s] = <<>>
    BY DEF Init
  <1>5. \A s \in Subjects : 1..Len(versions[s]) = {} /\ 1..Len(validated[s]) = {}
    BY <1>4
  <1>6. CheckingSubject /\ Provisioned
    BY <1>3 DEF CheckingSubject, Provisioned, At
  <1>7. Histories
    BY <1>5 DEF Histories, Written
  <1>8. BackwardKeepsFields
    BY <1>5, KeepsAlongAll DEF KeepsAlong
  <1>9. IdsGiven /\ IdsApart
    BY <1>5 DEF IdsGiven, IdsApart, Given
  <1> QED
    BY <1>2, <1>6, <1>7, <1>8, <1>9 DEF IInv

-----------------------------------------------------------------------------
(***************************************************************************)
(* The three kinds of steps.                                               *)
(***************************************************************************)
\* A step that leaves the registry alone.
Quiet(r) ==
    /\ RunStep(r)
    /\ UNCHANGED <<versions, validated, counter>>
    /\ run'[r].step = "provisioning" => Subject(r) = NoSubject
    /\ run'[r].step = "checking" => Subject(r) # NoSubject

LEMMA StepKinds ==
    ASSUME IInv, NEW r \in Runs, Step(r)
    PROVE  Quiet(r) \/ PolicyAccepts(r) \/ EnsureRegisters(r)
  <1>1. CASE PolicySkips(r)
    BY <1>1, PassesStep DEF IInv, PolicySkips, Quiet
  <1>2. CASE PolicyReads(r)
    BY <1>2, ReadsStep DEF IInv, PolicyReads, HasPredecessor, Quiet
  <1>3. CASE PolicyRefuses(r)
    <2>1. Fails(r, "policy") /\ UNCHANGED <<versions, validated, counter>> /\ Subject(r) # NoSubject
      BY <1>3 DEF PolicyRefuses, IInv, CheckingSubject
    <2> QED
      BY <2>1, FailsStep DEF IInv, Quiet
  <1>4. CASE EnsureSkips(r)
    BY <1>4, PassesStep DEF IInv, EnsureSkips, Quiet
  <1>5. CASE EnsureRefuses(r)
    BY <1>5, FailsStep DEF IInv, EnsureRefuses, Quiet
  <1>6. CASE AttemptFails(r)
    <2>1. Fails(r, "none") /\ UNCHANGED <<versions, validated, counter>>
      BY <1>6 DEF AttemptFails
    <2>2. run'[r].step # "checking"
      BY <2>1 DEF Fails, Goes, IInv, TypeOK
    <2> QED
      BY <2>1, <2>2, FailsStep DEF IInv, Quiet
  <1> QED
    BY <1>1, <1>2, <1>3, <1>4, <1>5, <1>6 DEF Step

\* The specifications stand, so what was written by their runs still is.
LEMMA WrittenStands ==
    ASSUME NEW h \in Seq(Version), NEW runs, NEW others, Written(h, runs),
           \A q \in Runs : others[q].spec = runs[q].spec
    PROVE  Written(h, others)
  <1>1. ASSUME NEW i \in 1..Len(h)
        PROVE  h[i].by \in Runs
    <2>1. h[i] \in Version
      OBVIOUS
    <2> QED
      BY <2>1 DEF Version
  <1> QED
    BY <1>1 DEF Written

LEMMA GivenStands ==
    ASSUME NEW h \in Seq(Version), NEW n \in Nat, NEW m \in Nat, Given(h, n), n <= m
    PROVE  Given(h, m)
  BY DEF Given

\* What joins a history is its author's schema, under an id of its own.
LEMMA AppendWritten ==
    ASSUME NEW h \in Seq(Version), NEW v \in Version, NEW runs, Written(h, runs),
           v.fields = Fields(runs[v.by].spec.format)
    PROVE  Written(Append(h, v), runs)
  BY Appended DEF Written

LEMMA AppendGiven ==
    ASSUME NEW h \in Seq(Version), NEW v \in Version, NEW n \in Nat, Given(h, n), v.id = n + 1
    PROVE  Given(Append(h, v), n + 1)
  <1> DEFINE g == Append(h, v)
  <1>1. /\ Len(g) = Len(h) + 1 /\ Len(h) \in Nat /\ g[Len(h) + 1] = v
        /\ \A i \in 1..Len(h) : g[i] = h[i]
    BY Appended
  <1> HIDE DEF g
  <1>2. ASSUME NEW i \in 1..(Len(h) + 1)
        PROVE  g[i].id \in 1..(n + 1)
    <2>1. CASE i = Len(h) + 1
      BY <1>1, <2>1
    <2>2. CASE i \in 1..Len(h)
      BY <1>1, <2>2 DEF Given
    <2> QED
      BY <1>1, <2>1, <2>2
  <1> QED
    BY <1>1, <1>2 DEF Given, g

LEMMA QuietStep ==
    ASSUME IInv, NEW r \in Runs, Quiet(r)
    PROVE  IInv'
  <1> USE DEF Quiet
  <1>1. TypeOK'
    BY DEF IInv, TypeOK, RunStep
  <1>2. CheckingSubject'
    BY DEF IInv, CheckingSubject, At, Subject, RunStep
  <1>3. Histories'
    BY WrittenStands DEF IInv, TypeOK, Histories, RunStep
  <1>4. BackwardKeepsFields'
    BY DEF IInv, BackwardKeepsFields
  <1>5. (IdsGiven /\ IdsApart)'
    BY DEF IInv, IdsGiven, IdsApart
  <1>6. Provisioned'
    BY DEF IInv, Provisioned, OwnVersion, Subject, Format, RunStep
  <1> QED
    BY <1>1, <1>2, <1>3, <1>4, <1>5, <1>6 DEF IInv

-----------------------------------------------------------------------------
(***************************************************************************)
(* Registration.                                                           *)
(***************************************************************************)
\* Under the subject the policy check keeps for itself: nobody's SchemaID.
LEMMA PolicyAcceptsStep ==
    ASSUME IInv, NEW r \in Runs, PolicyAccepts(r)
    PROVE  IInv'
  <1> DEFINE s == Subject(r)
             v == Entry(r, run[r].spec.compatibility)
  <1>1. s \in Subjects /\ Format(r) # Unparseable
    BY ModeType DEF PolicyAccepts, IInv, CheckingSubject, Accepts
  <1>2. /\ v \in Version /\ v.id = counter + 1
        /\ v.fields = Fields(run[r].spec.format) /\ v.by = r
    BY <1>1, ModeType, EntryType DEF IInv, Format
  <1>3. /\ validated' = [validated EXCEPT ![s] = Append(validated[s], v)]
        /\ counter' = counter + 1 /\ versions' = versions
    BY DEF PolicyAccepts
  <1>4. RunStep(r) /\ run'[r].step \notin {"provisioning", "checking"}
    <2>1. CASE Passes(r, "ensure", 0)
      BY <2>1, PassesStep DEF IInv
    <2>2. CASE Fails(r, "none")
      <3>1. run'[r].step # "checking"
        BY <2>2 DEF Fails, Goes, IInv, TypeOK
      <3> QED
        BY <2>2, <3>1, FailsStep DEF IInv
    <2> QED
      BY <2>1, <2>2 DEF PolicyAccepts
  <1> HIDE DEF s, v
  <1>5. /\ validated \in [Subjects -> Seq(Version)] /\ versions \in [Subjects -> Seq(Version)]
        /\ counter \in Nat
    BY DEF IInv, TypeOK
  <1>6. /\ validated'[s] = Append(validated[s], v)
        /\ \A t \in Subjects \ {s} : validated'[t] = validated[t]
    BY <1>1, <1>3, <1>5
  <1>7. TypeOK'
    <2>1. Append(validated[s], v) \in Seq(Version)
      BY <1>1, <1>2, <1>5
    <2> QED
      BY <1>1, <1>3, <1>4, <1>5, <2>1 DEF TypeOK, RunStep
  <1>8. CheckingSubject'
    BY <1>4 DEF IInv, CheckingSubject, At, Subject, RunStep
  <1>9. Histories'
    <2>1. \A q \in Runs : run'[q].spec = run[q].spec
      BY <1>4 DEF RunStep
    <2>2. ASSUME NEW t \in Subjects
          PROVE  Written(versions[t], run') /\ Written(validated[t], run')
      BY <1>5, <2>1, WrittenStands DEF IInv, Histories
    <2>3. v.fields = Fields(run'[v.by].spec.format)
      BY <1>2, <2>1
    <2>4. Written(validated'[s], run')
      BY <1>1, <1>2, <1>5, <1>6, <2>2, <2>3, AppendWritten
    <2> QED
      BY <1>3, <1>6, <2>2, <2>4 DEF Histories
  <1>10. BackwardKeepsFields'
    BY <1>3 DEF IInv, BackwardKeepsFields
  <1>11. IdsGiven'
    <2>1. ASSUME NEW t \in Subjects
          PROVE  Given(versions[t], counter + 1) /\ Given(validated[t], counter + 1)
      BY <1>5, GivenStands DEF IInv, IdsGiven
    <2>2. Given(validated'[s], counter + 1)
      BY <1>1, <1>2, <1>5, <1>6, AppendGiven DEF IInv, IdsGiven
    <2> QED
      BY <1>3, <1>6, <2>1, <2>2 DEF IdsGiven
  <1>12. IdsApart'
    <2>1. ASSUME NEW t \in Subjects, NEW i \in 1..Len(versions[t]), NEW u \in Subjects,
                 NEW j \in 1..Len(validated'[u])
          PROVE  versions[t][i].id # validated'[u][j].id
      <3>1. CASE u = s /\ j = Len(validated[s]) + 1
        <4>1. validated'[u][j].id = counter + 1
          BY <1>1, <1>2, <1>5, <1>6, <3>1, Appended
        <4>2. versions[t][i].id \in 1..counter
          BY DEF IInv, IdsGiven, Given
        <4> QED
          BY <1>5, <4>1, <4>2
      <3>2. CASE u # s
        BY <1>6, <3>2 DEF IInv, IdsApart
      <3>3. CASE u = s /\ j # Len(validated[s]) + 1
        <4>0. /\ Len(validated'[s]) = Len(validated[s]) + 1 /\ Len(validated[s]) \in Nat
              /\ \A k \in 1..Len(validated[s]) : validated'[s][k] = validated[s][k]
          BY <1>1, <1>2, <1>5, <1>6, Appended
        <4>1. j \in 1..Len(validated[s]) /\ validated'[u][j] = validated[s][j]
          BY <3>3, <4>0
        <4> QED
          BY <1>1, <4>1 DEF IInv, IdsApart
      <3> QED
        BY <3>1, <3>2, <3>3
    <2> QED
      BY <1>3, <2>1 DEF IInv, IdsApart
  <1>13. Provisioned'
    BY <1>3, <1>4 DEF IInv, Provisioned, OwnVersion, Subject, Format, RunStep
  <1> QED
    BY <1>7, <1>8, <1>9, <1>10, <1>11, <1>12, <1>13 DEF IInv

\* Under the pipeline's own subject.
LEMMA EnsureRegistersStep ==
    ASSUME IInv, NEW r \in Runs, EnsureRegisters(r)
    PROVE  IInv'
  <1> DEFINE s == Subject(r)
             v == Entry(r, Mode(r))
  <1>1. s \in Subjects /\ Format(r) # Unparseable
    BY ModeType DEF EnsureRegisters, IInv, Accepts
  <1>2. /\ v \in Version /\ v.id = counter + 1 /\ v.mode = Mode(r)
        /\ v.fields = Fields(run[r].spec.format) /\ v.by = r
    BY <1>1, ModeType, EntryType DEF IInv, Format
  <1>3. /\ versions' = [versions EXCEPT ![s] = Append(versions[s], v)]
        /\ counter' = counter + 1 /\ validated' = validated
        /\ Passes(r, "provisioning", counter + 1) \/ Fails(r, "none")
        /\ Accepts(versions[s], Format(r), Mode(r))
    BY DEF EnsureRegisters
  <1>5. /\ validated \in [Subjects -> Seq(Version)] /\ versions \in [Subjects -> Seq(Version)]
        /\ counter \in Nat /\ counter + 1 \in Nat
    BY DEF IInv, TypeOK
  <1>4. /\ RunStep(r) /\ run'[r].step # "checking"
        /\ run'[r].step = "provisioning" => run'[r].id = counter + 1
    <2>1. CASE Passes(r, "provisioning", counter + 1)
      BY <1>5, <2>1, PassesStep DEF IInv
    <2>2. CASE Fails(r, "none")
      <3>1. run'[r].step # "checking"
        BY <2>2 DEF Fails, Goes, IInv, TypeOK
      <3> QED
        BY <2>2, <3>1, FailsStep DEF IInv
    <2> QED
      BY <1>3, <2>1, <2>2
  <1>14. versions[s] # <<>> /\ v.mode = "BACKWARD" => Compatible(Latest(versions[s]).fields, v.fields)
    BY <1>2, <1>3 DEF Accepts, Format
  <1>15. s = Subject(r) /\ v.fields = Fields(Format(r))
    BY <1>2 DEF Format
  <1> HIDE DEF s, v
  <1>6. /\ versions'[s] = Append(versions[s], v)
        /\ \A t \in Subjects \ {s} : versions'[t] = versions[t]
    BY <1>1, <1>3, <1>5
  <1>16. /\ Len(versions'[s]) = Len(versions[s]) + 1 /\ Len(versions[s]) \in Nat
         /\ versions'[s][Len(versions[s]) + 1] = v
         /\ \A i \in 1..Len(versions[s]) : versions'[s][i] = versions[s][i]
         /\ versions'[s] \in Seq(Version)
    BY <1>1, <1>2, <1>5, <1>6, Appended
  <1>7. TypeOK'
    BY <1>1, <1>3, <1>4, <1>5, <1>6, <1>16 DEF TypeOK, RunStep
  <1>8. CheckingSubject'
    BY <1>4 DEF IInv, CheckingSubject, At, Subject, RunStep
  <1>9. Histories'
    <2>1. \A q \in Runs : run'[q].spec = run[q].spec
      BY <1>4 DEF RunStep
    <2>2. ASSUME NEW t \in Subjects
          PROVE  Written(versions[t], run') /\ Written(validated[t], run')
      BY <1>5, <2>1, WrittenStands DEF IInv, Histories
    <2>3. v.fields = Fields(run'[v.by].spec.format)
      BY <1>2, <2>1
    <2>4. Written(versions'[s], run')
      BY <1>1, <1>2, <1>5, <1>6, <2>2, <2>3, AppendWritten
    <2> QED
      BY <1>3, <1>6, <2>2, <2>4 DEF Histories
  <1>10. BackwardKeepsFields'
    <2>1. \A t \in Subjects : KeepsAlong(versions[t])
      BY KeepsAlongAll DEF IInv
    <2>2. KeepsAlong(versions'[s])
      BY <1>1, <1>2, <1>5, <1>6, <1>14, <2>1, AppendKeeps
    <2>3. \A t \in Subjects : KeepsAlong(versions'[t])
      BY <1>6, <2>1, <2>2
    <2> QED
      BY <2>3 DEF BackwardKeepsFields, KeepsAlong
  <1>11. IdsGiven'
    <2>1. ASSUME NEW t \in Subjects
          PROVE  Given(versions[t], counter + 1) /\ Given(validated[t], counter + 1)
      BY <1>5, GivenStands DEF IInv, IdsGiven
    <2>2. Given(versions'[s], counter + 1)
      BY <1>1, <1>2, <1>5, <1>6, AppendGiven DEF IInv, IdsGiven
    <2> QED
      BY <1>3, <1>6, <2>1, <2>2 DEF IdsGiven
  <1>17. ASSUME NEW t \in Subjects, NEW i \in 1..Len(versions'[t])
         PROVE  \/ i \in 1..Len(versions[t]) /\ versions'[t][i] = versions[t][i]
                \/ t = s /\ i = Len(versions[s]) + 1 /\ versions'[t][i] = v
    BY <1>6, <1>16
  <1>18. ASSUME NEW t \in Subjects
         PROVE  /\ \A i \in 1..Len(versions[t]) : versions[t][i].id # counter + 1
                /\ \A i \in 1..Len(validated[t]) : validated[t][i].id # counter + 1
    BY <1>5 DEF IInv, IdsGiven, Given
  <1>12. IdsApart'
    <2>1. ASSUME NEW t \in Subjects, NEW u \in Subjects,
                 NEW i \in 1..Len(versions'[t]), NEW j \in 1..Len(versions'[u]),
                 versions'[t][i].id = versions'[u][j].id
          PROVE  t = u /\ i = j
      <3>1. CASE versions'[t][i] = v /\ t = s /\ i = Len(versions[s]) + 1
        BY <1>2, <1>17, <1>18, <2>1, <3>1
      <3>2. CASE i \in 1..Len(versions[t]) /\ versions'[t][i] = versions[t][i]
        <4>1. versions'[u][j].id # counter + 1
          BY <1>18, <2>1, <3>2
        <4>2. j \in 1..Len(versions[u]) /\ versions'[u][j] = versions[u][j]
          BY <1>2, <1>17, <4>1
        <4> QED
          BY <2>1, <3>2, <4>2 DEF IInv, IdsApart
      <3> QED
        BY <1>17, <3>1, <3>2
    <2>2. ASSUME NEW t \in Subjects, NEW u \in Subjects,
                 NEW i \in 1..Len(versions'[t]), NEW j \in 1..Len(validated[u])
          PROVE  versions'[t][i].id # validated[u][j].id
      <3>1. CASE versions'[t][i] = v
        BY <1>2, <1>18, <3>1
      <3>2. CASE i \in 1..Len(versions[t]) /\ versions'[t][i] = versions[t][i]
        BY <3>2 DEF IInv, IdsApart
      <3> QED
        BY <1>17, <3>1, <3>2
    <2> QED
      BY <1>3, <2>1, <2>2 DEF IdsApart
  <1>13. Provisioned'
    <2> SUFFICES ASSUME NEW q \in Runs, run'[q].step = "provisioning", run'[q].spec.subject # NoSubject
                 PROVE  \E i \in 1..Len(versions'[run'[q].spec.subject]) :
                            /\ versions'[run'[q].spec.subject][i].id = run'[q].id
                            /\ versions'[run'[q].spec.subject][i].fields
                                 = Fields(run'[q].spec.format)
      BY DEF Provisioned, OwnVersion, Subject, Format
    <2>0. run'[q].spec = run[q].spec
      BY <1>4 DEF RunStep
    <2>1. CASE q = r
      <3>1. run'[q].spec.subject = s /\ run'[q].id = counter + 1
        BY <1>4, <1>15, <2>0, <2>1 DEF Subject
      <3>2. v.fields = Fields(run'[q].spec.format)
        BY <1>2, <2>0, <2>1
      <3>3. Len(versions[s]) + 1 \in 1..Len(versions'[s])
        BY <1>16
      <3> QED
        BY <1>2, <1>16, <3>1, <3>2, <3>3
    <2>2. CASE q # r
      <3>1. run'[q] = run[q]
        BY <1>4, <2>2 DEF RunStep
      <3> DEFINE t == run[q].spec.subject
      <3>2. t \in Subjects
        BY <3>1, ModeType DEF IInv, Subject
      <3>3. PICK i \in 1..Len(versions[t]) :
                versions[t][i].id = run[q].id /\ versions[t][i].fields = Fields(run[q].spec.format)
        BY <3>1 DEF IInv, Provisioned, OwnVersion, Subject, Format
      <3>4. i \in 1..Len(versions'[t]) /\ versions'[t][i] = versions[t][i]
        <4>1. CASE t = s
          BY <1>16, <3>3, <4>1
        <4>2. CASE t # s
          BY <1>6, <3>2, <3>3, <4>2
        <4> QED
          BY <4>1, <4>2
      <3> QED
        BY <3>1, <3>3, <3>4
    <2> QED
      BY <2>1, <2>2
  <1> QED
    BY <1>7, <1>8, <1>9, <1>10, <1>11, <1>12, <1>13 DEF IInv

-----------------------------------------------------------------------------
(***************************************************************************)
(* The theorems.                                                           *)
(***************************************************************************)
THEOREM InductiveInvariant == Spec => []IInv
  <1>1. IInv /\ [Next]_vars => IInv'
    <2> SUFFICES ASSUME IInv, [Next]_vars
                 PROVE  IInv'
      OBVIOUS
    <2>1. ASSUME NEW r \in Runs, Step(r)
          PROVE  IInv'
      BY <2>1, StepKinds, QuietStep, PolicyAcceptsStep, EnsureRegistersStep
    <2>2. CASE UNCHANGED vars
      <3>1. TypeOK' /\ CheckingSubject'
        BY <2>2 DEF vars, IInv, TypeOK, CheckingSubject, At, Subject
      <3>2. Histories' /\ IdsGiven' /\ IdsApart' /\ BackwardKeepsFields'
        BY <2>2 DEF vars, IInv, Histories, IdsGiven, IdsApart, BackwardKeepsFields
      <3>3. Provisioned'
        BY <2>2 DEF vars, IInv, Provisioned, OwnVersion, Subject, Format
      <3> QED
        BY <3>1, <3>2, <3>3 DEF IInv
    <2> QED
      BY <2>1, <2>2 DEF Next
  <1> QED
    BY <1>1, InitIInv, PTL DEF Spec

\* Every variable keeps its type: nothing that does not parse is registered,
\* and an id is a number.
THEOREM TypeCorrect == Spec => []TypeOK
  BY InductiveInvariant, PTL DEF IInv

\* No field is lost along BACKWARD registrations, and those that join are
\* optional, whoever registers (schema.go:66-80).
THEOREM BackwardHistoriesKeepFields == Spec => []BackwardKeepsFields
  BY InductiveInvariant, PTL DEF IInv

\* The id a run goes on with is its own schema's and no other's
\* (schema.go:99-104, workflow.go:47).
THEOREM IdsNameOwnSchemas == Spec => []IdNamesOwnSchema
  <1>1. IInv => IdNamesOwnSchema
    <2> SUFFICES ASSUME IInv, NEW r \in Runs, run[r].step = "provisioning", Subject(r) # NoSubject
                 PROVE  /\ \E i \in DOMAIN versions[Subject(r)] :
                              versions[Subject(r)][i].id = run[r].id
                        /\ \A s \in Subjects :
                              /\ \A i \in DOMAIN versions[s] :
                                    versions[s][i].id = run[r].id =>
                                        s = Subject(r) /\ versions[s][i].fields = Fields(Format(r))
                              /\ \A i \in DOMAIN validated[s] : validated[s][i].id # run[r].id
      BY DEF IdNamesOwnSchema
    <2>1. \A s \in Subjects : /\ DOMAIN versions[s] = 1..Len(versions[s])
                              /\ DOMAIN validated[s] = 1..Len(validated[s])
      BY DEF IInv, TypeOK
    <2>2. Subject(r) \in Subjects
      BY ModeType DEF IInv
    <2>3. PICK i \in 1..Len(versions[Subject(r)]) :
              /\ versions[Subject(r)][i].id = run[r].id
              /\ versions[Subject(r)][i].fields = Fields(Format(r))
      BY DEF IInv, Provisioned, OwnVersion
    <2> QED
      BY <2>1, <2>2, <2>3 DEF IInv, IdsApart
  <1> QED
    BY <1>1, InductiveInvariant, PTL

\* A repeated attempt is not refused for what an earlier attempt of the same
\* run has registered (activities.go:53, 66).
THEOREM RetriesAreAccepted == Spec => OwnRetryAccepted
  <1> DEFINE Accepted ==
          \A r \in Runs :
              LET history == IF run'[r].refusal = "policy" THEN validated ELSE versions IN
              /\ run'[r] # run[r]
              /\ run'[r].refusal # "none"
              /\ Format(r) # Unparseable
              => history[Subject(r)] # <<>> /\ Latest(history[Subject(r)]).by # r
  <1>1. ASSUME IInv, NEW r \in Runs, NEW h \in Seq(Version), NEW mode, Written(h, run),
               ~Accepts(h, Format(r), mode), Format(r) # Unparseable
        PROVE  h # <<>> /\ Latest(h).by # r
    <2>1. h # <<>> /\ ~Compatible(Latest(h).fields, Fields(Format(r)))
      BY <1>1 DEF Accepts
    <2>2. Len(h) \in 1..Len(h)
      BY <1>1, <2>1
    <2>3. Latest(h).by = r => Latest(h).fields = Fields(Format(r))
      BY <1>1, <2>2 DEF Written, Latest, Format
    <2> QED
      BY <2>1, <2>3 DEF Compatible
  <1>2. IInv /\ [Next]_vars => [Accepted]_vars
    <2> SUFFICES ASSUME IInv, NEW q \in Runs, Step(q), NEW r \in Runs,
                        run'[r] # run[r], run'[r].refusal # "none", Format(r) # Unparseable
                 PROVE  LET history == IF run'[r].refusal = "policy" THEN validated ELSE versions IN
                        history[Subject(r)] # <<>> /\ Latest(history[Subject(r)]).by # r
      BY DEF Next
    <2>1. \A s \in Subjects : /\ validated[s] \in Seq(Version) /\ Written(validated[s], run)
                              /\ versions[s] \in Seq(Version) /\ Written(versions[s], run)
      BY DEF IInv, TypeOK, Histories
    <2>2. Subject(q) \in Subjects \cup {NoSubject}
      BY ModeType DEF IInv
    <2>3. CASE PolicyRefuses(q)
      <3>1. /\ run'[q].refusal = "policy" /\ RunStep(q)
            /\ ~Accepts(validated[Subject(q)], Format(q), run[q].spec.compatibility)
            /\ Subject(q) \in Subjects
        BY <2>2, <2>3, FailsStep DEF PolicyRefuses, IInv, CheckingSubject
      <3>2. r = q
        BY <3>1 DEF RunStep
      <3> QED
        BY <1>1, <2>1, <3>1, <3>2
    <2>4. CASE EnsureRefuses(q)
      <3>1. /\ run'[q].refusal = "ensure" /\ RunStep(q)
            /\ ~Accepts(versions[Subject(q)], Format(q), Mode(q))
            /\ Subject(q) \in Subjects
        BY <2>2, <2>4, FailsStep DEF EnsureRefuses, IInv
      <3>2. r = q
        BY <3>1 DEF RunStep
      <3> QED
        BY <1>1, <2>1, <3>1, <3>2
    <2>5. CASE ~PolicyRefuses(q) /\ ~EnsureRefuses(q)
      <3>1. RunStep(q) /\ run'[q].refusal = "none"
        <4>1. counter + 1 \in Nat
          BY DEF IInv, TypeOK
        <4>2. CASE Fails(q, "none")
          BY <4>2, FailsStep DEF IInv
        <4>3. CASE PolicyReads(q)
          BY <4>3, ReadsStep DEF IInv
        <4>4. CASE Passes(q, "ensure", 0) \/ Passes(q, "provisioning", 0)
                     \/ Passes(q, "provisioning", counter + 1)
          BY <4>1, <4>4, PassesStep DEF IInv
        <4> QED
          BY <2>5, <4>2, <4>3, <4>4 DEF Step, PolicySkips, PolicyAccepts, EnsureSkips,
             EnsureRegisters, AttemptFails
      <3> QED
        BY <3>1 DEF RunStep
    <2> QED
      BY <2>3, <2>4, <2>5
  <1> QED
    BY <1>2, InductiveInvariant, PTL DEF Spec, OwnRetryAccepted

-----------------------------------------------------------------------------
(***************************************************************************)
(* How often a run registers.                                              *)
(***************************************************************************)
\* The versions a run has registered in a history.
Registered(history, r) == {i \in DOMAIN history : history[i].by = r}

Count(h, r) == Cardinality(Registered(h, r))

\* The attempts that may have registered so far under the subject of the
\* check, and under the pipeline's own.
Checks(r) ==
    IF run[r].step \in {"policy", "checking"} THEN run[r].attempt ELSE MaxAttempts
Ensures(r) ==
    IF run[r].step \in {"policy", "checking"} THEN 0
    ELSE IF run[r].step = "ensure" THEN run[r].attempt ELSE MaxAttempts

WithinBudget(r) ==
    Subject(r) # NoSubject =>
        /\ run[r].step \in {"policy", "checking", "ensure"} => run[r].attempt < MaxAttempts
        /\ Count(validated[Subject(r)], r) <= Checks(r)
        /\ Count(versions[Subject(r)], r) <= Ensures(r)

Budget == \A r \in Runs : WithinBudget(r)

\* A version counts for the run that registered it, and for no other.
LEMMA CountAppend ==
    ASSUME NEW h \in Seq(Version), NEW v \in Version, NEW r
    PROVE  /\ Count(h, r) \in Nat
           /\ Count(Append(h, v), r) = IF v.by = r THEN Count(h, r) + 1 ELSE Count(h, r)
  <1> DEFINE g == Append(h, v)
             n == Len(h)
             old == Registered(h, r)
  <1>1. /\ n \in Nat /\ DOMAIN h = 1..n /\ DOMAIN g = 1..(n + 1) /\ g[n + 1] = v
        /\ \A i \in 1..n : g[i] = h[i]
    BY Appended
  <1>2. IsFiniteSet(old)
    <2>1. IsFiniteSet(1..n)
      BY <1>1, FS_Interval
    <2>2. old \in SUBSET (1..n)
      BY <1>1 DEF Registered
    <2> QED
      BY <2>1, <2>2, FS_Subset
  <1>3. Cardinality(old) \in Nat
    BY <1>2, FS_CardinalityType
  <1>4. n + 1 \notin old
    BY <1>1 DEF Registered
  <1> HIDE DEF g, n
  <1>5. CASE v.by = r
    <2>1. Registered(g, r) = old \cup {n + 1}
      BY <1>1, <1>5 DEF Registered
    <2>2. Cardinality(old \cup {n + 1}) = Cardinality(old) + 1
      <3> HIDE DEF old
      <3> QED
        BY <1>2, <1>4, FS_AddElement
    <2> QED
      BY <1>3, <1>5, <2>1, <2>2 DEF Count, g
  <1>6. CASE v.by # r
    <2>1. Registered(g, r) = old
      BY <1>1, <1>6 DEF Registered
    <2> QED
      BY <1>3, <1>6, <2>1 DEF Count, g
  <1> QED
    BY <1>5, <1>6

LEMMA CountType ==
    ASSUME TypeOK, NEW s \in Subjects, NEW r
    PROVE  Count(versions[s], r) \in Nat /\ Count(validated[s], r) \in Nat
  <1>1. versions[s] \in Seq(Version) /\ validated[s] \in Seq(Version)
    BY DEF TypeOK
  <1>2. ASSUME NEW h \in Seq(Version)
        PROVE  Count(h, r) \in Nat
    <2>1. Registered(h, r) \in SUBSET (1..Len(h)) /\ Len(h) \in Nat
      BY DEF Registered
    <2>2. IsFiniteSet(1..Len(h))
      BY <2>1, FS_Interval
    <2>3. IsFiniteSet(Registered(h, r))
      BY <2>1, <2>2, FS_Subset
    <2> QED
      BY <2>3, FS_CardinalityType DEF Count
  <1> QED
    BY <1>1, <1>2

\* Where a run goes, and with how many failed attempts.
Comes(r, step, attempt) ==
    /\ run'[r].spec = run[r].spec
    /\ run'[r].step = step
    /\ run'[r].attempt = attempt

\* An attempt that ends without a result uses up one of the run's.
FailsTo(r) ==
    Comes(r, IF run[r].attempt + 1 < MaxAttempts
             THEN IF At(r, "ensure") THEN "ensure" ELSE "policy"
             ELSE "failed", run[r].attempt + 1)

LEMMA GoesComes ==
    ASSUME TypeOK, NEW r \in Runs, NEW step, NEW attempt, NEW id, NEW refusal,
           Goes(r, step, attempt, id, refusal)
    PROVE  Comes(r, step, attempt) /\ \A q \in Runs \ {r} : run'[q] = run[q]
  <1> DEFINE new == [spec |-> run[r].spec, step |-> step, attempt |-> attempt,
                     id |-> id, refusal |-> refusal]
  <1>1. run' = [run EXCEPT ![r] = new] /\ run \in [Runs -> Run]
    BY DEF Goes, TypeOK
  <1>2. new.spec = run[r].spec /\ new.step = step /\ new.attempt = attempt
    OBVIOUS
  <1> HIDE DEF new
  <1> QED
    BY <1>1, <1>2 DEF Comes

LEMMA FailsComes ==
    ASSUME TypeOK, NEW r \in Runs, NEW refusal, Fails(r, refusal)
    PROVE  FailsTo(r) /\ \A q \in Runs \ {r} : run'[q] = run[q]
  BY GoesComes DEF Fails, FailsTo

\* A registration under subject s of a run q that is not the one at work
\* does not count.
LEMMA OthersBudget ==
    ASSUME IInv, Budget, NEW r \in Runs, NEW q \in Runs \ {r}, run'[q] = run[q],
           \A s \in Subjects : /\ Count(versions'[s], q) = Count(versions[s], q)
                               /\ Count(validated'[s], q) = Count(validated[s], q)
    PROVE  WithinBudget(q)'
  <1>1. Subject(q) \in Subjects \cup {NoSubject}
    BY ModeType DEF IInv
  <1> QED
    BY <1>1 DEF Budget, WithinBudget, Checks, Ensures, Subject

\* The run at work, by what it registers and where it goes.
LEMMA OwnBudget ==
    ASSUME IInv, Budget, NEW r \in Runs, NEW m \in {0, 1}, NEW n \in {0, 1},
           m = 1 => At(r, "checking"),
           n = 1 => At(r, "ensure"),
           Subject(r) # NoSubject =>
               /\ Count(validated'[Subject(r)], r) = Count(validated[Subject(r)], r) + m
               /\ Count(versions'[Subject(r)], r) = Count(versions[Subject(r)], r) + n,
           \/ FailsTo(r) /\ run[r].step \in {"policy", "checking", "ensure"}
           \/ run[r].step \in {"policy", "checking"} /\ Comes(r, "ensure", 0)
           \/ At(r, "policy") /\ Comes(r, "checking", run[r].attempt)
           \/ At(r, "ensure") /\ Comes(r, "provisioning", 0)
    PROVE  WithinBudget(r)'
  <1> SUFFICES ASSUME Subject(r) # NoSubject
               PROVE  /\ run'[r].step \in {"policy", "checking", "ensure"} =>
                            run'[r].attempt < MaxAttempts
                      /\ Count(validated'[Subject(r)], r) <= Checks(r)'
                      /\ Count(versions'[Subject(r)], r) <= Ensures(r)'
    BY DEF WithinBudget, Comes, FailsTo, Subject
  <1> DEFINE a == run[r].attempt
             c == Count(validated[Subject(r)], r)
             e == Count(versions[Subject(r)], r)
  <1>1. a \in Nat /\ MaxAttempts \in Nat \ {0} /\ c \in Nat /\ e \in Nat
    <2>1. Subject(r) \in Subjects
      BY ModeType DEF IInv
    <2> QED
      BY <2>1, CountType, RegistryAssumption DEF IInv, TypeOK, Run
  <1>2. /\ run[r].step \in {"policy", "checking", "ensure"} => a < MaxAttempts
        /\ c <= Checks(r)
        /\ e <= Ensures(r)
    BY DEF Budget, WithinBudget
  <1>3. /\ Count(validated'[Subject(r)], r) = c + m
        /\ Count(versions'[Subject(r)], r) = e + n
    OBVIOUS
  <1> HIDE DEF a, c, e
  <1>4. CASE run[r].step \in {"policy", "checking"}
    <2>1. c <= a /\ e = 0 /\ n = 0 /\ a < MaxAttempts
      BY <1>1, <1>2, <1>4 DEF Checks, Ensures, At, a
    <2>2. CASE FailsTo(r)
      <3>1. /\ run'[r].attempt = a + 1
            /\ run'[r].step = IF a + 1 < MaxAttempts THEN "policy" ELSE "failed"
        BY <1>4, <2>2 DEF FailsTo, Comes, At, a
      <3> QED
        BY <1>1, <1>3, <2>1, <3>1 DEF Checks, Ensures
    <2>3. CASE Comes(r, "ensure", 0)
      BY <1>1, <1>3, <2>1, <2>3 DEF Comes, Checks, Ensures
    <2>4. CASE At(r, "policy") /\ Comes(r, "checking", run[r].attempt)
      <3>1. m = 0 /\ run'[r].step = "checking" /\ run'[r].attempt = a
        BY <2>4 DEF At, Comes, a
      <3> QED
        BY <1>1, <1>3, <2>1, <3>1 DEF Checks, Ensures
    <2> QED
      BY <1>4, <2>2, <2>3, <2>4 DEF At
  <1>5. CASE At(r, "ensure")
    <2>1. c <= MaxAttempts /\ e <= a /\ m = 0 /\ a < MaxAttempts
      BY <1>1, <1>2, <1>5 DEF Checks, Ensures, At, a
    <2>2. CASE FailsTo(r)
      <3>1. /\ run'[r].attempt = a + 1
            /\ run'[r].step = IF a + 1 < MaxAttempts THEN "ensure" ELSE "failed"
        BY <1>5, <2>2 DEF FailsTo, Comes, At, a
      <3> QED
        BY <1>1, <1>3, <2>1, <3>1 DEF Checks, Ensures
    <2>3. CASE Comes(r, "provisioning", 0)
      BY <1>1, <1>3, <2>1, <2>3 DEF Comes, Checks, Ensures
    <2> QED
      BY <1>5, <2>2, <2>3 DEF At
  <1> QED
    BY <1>4, <1>5 DEF At

\* What a step registers counts for the run at work, if it counts at all.
LEMMA StepCounts ==
    ASSUME IInv, NEW r \in Runs, Step(r)
    PROVE  \E m, n \in {0, 1} :
              /\ m = 1 => At(r, "checking")
              /\ n = 1 => At(r, "ensure")
              /\ Subject(r) # NoSubject =>
                     /\ Count(validated'[Subject(r)], r) = Count(validated[Subject(r)], r) + m
                     /\ Count(versions'[Subject(r)], r) = Count(versions[Subject(r)], r) + n
              /\ \A q \in Runs \ {r}, s \in Subjects :
                     /\ Count(versions'[s], q) = Count(versions[s], q)
                     /\ Count(validated'[s], q) = Count(validated[s], q)
  <1>1. /\ Subject(r) \in Subjects \cup {NoSubject}
        /\ run[r].spec.compatibility \in {"BACKWARD", "NONE", "unset"}
        /\ Mode(r) \in {"BACKWARD", "NONE", "unset"}
    BY ModeType DEF IInv
  <1>2. /\ versions \in [Subjects -> Seq(Version)]
        /\ validated \in [Subjects -> Seq(Version)]
    BY DEF IInv, TypeOK
  <1>3. CASE UNCHANGED <<versions, validated>>
    <2>1. Subject(r) # NoSubject =>
              /\ Count(validated'[Subject(r)], r) = Count(validated[Subject(r)], r) + 0
              /\ Count(versions'[Subject(r)], r) = Count(versions[Subject(r)], r) + 0
      BY <1>1, <1>3, CountType DEF IInv
    <2> WITNESS 0 \in {0, 1}, 0 \in {0, 1}
    <2> QED
      BY <1>3, <2>1
  <1>4. CASE PolicyAccepts(r)
    <2> DEFINE s == Subject(r)
               v == Entry(r, run[r].spec.compatibility)
    <2>1. s \in Subjects
      BY <1>4, <1>1 DEF PolicyAccepts, IInv, CheckingSubject
    <2>2. /\ At(r, "checking") /\ Format(r) # Unparseable
          /\ validated' = [validated EXCEPT ![s] = Append(validated[s], v)]
          /\ UNCHANGED versions
      BY <1>4 DEF PolicyAccepts, Accepts
    <2>3. v \in Version /\ v.by = r
      BY <1>1, <2>2, EntryType DEF IInv
    <2> HIDE DEF s, v
    <2>4. /\ Count(validated'[s], r) = Count(validated[s], r) + 1
          /\ \A q \in Runs \ {r}, t \in Subjects :
                 Count(validated'[t], q) = Count(validated[t], q)
      BY <1>2, <2>1, <2>2, <2>3, CountAppend
    <2>5. Count(versions'[s], r) = Count(versions[s], r) + 0
      BY <2>1, <2>2, CountType DEF IInv
    <2> WITNESS 1 \in {0, 1}, 0 \in {0, 1}
    <2> QED
      BY <2>2, <2>4, <2>5 DEF s
  <1>5. CASE EnsureRegisters(r)
    <2> DEFINE s == Subject(r)
               v == Entry(r, Mode(r))
    <2>1. s \in Subjects
      BY <1>5, <1>1 DEF EnsureRegisters
    <2>2. /\ At(r, "ensure") /\ Format(r) # Unparseable
          /\ versions' = [versions EXCEPT ![s] = Append(versions[s], v)]
          /\ UNCHANGED validated
      BY <1>5 DEF EnsureRegisters, Accepts
    <2>3. v \in Version /\ v.by = r
      BY <1>1, <2>2, EntryType DEF IInv
    <2> HIDE DEF s, v
    <2>4. /\ Count(versions'[s], r) = Count(versions[s], r) + 1
          /\ \A q \in Runs \ {r}, t \in Subjects :
                 Count(versions'[t], q) = Count(versions[t], q)
      BY <1>2, <2>1, <2>2, <2>3, CountAppend
    <2>5. Count(validated'[s], r) = Count(validated[s], r) + 0
      BY <2>1, <2>2, CountType DEF IInv
    <2> WITNESS 0 \in {0, 1}, 1 \in {0, 1}
    <2> QED
      BY <2>2, <2>4, <2>5 DEF s
  <1> QED
    BY <1>3, <1>4, <1>5 DEF Step, PolicySkips, PolicyReads, PolicyRefuses, EnsureSkips,
       EnsureRefuses, AttemptFails

\* Where a step takes the run at work; the others stay where they are.
LEMMA StepComes ==
    ASSUME IInv, NEW r \in Runs, Step(r)
    PROVE  /\ \/ FailsTo(r) /\ run[r].step \in {"policy", "checking", "ensure"}
              \/ run[r].step \in {"policy", "checking"} /\ Comes(r, "ensure", 0)
              \/ At(r, "policy") /\ Comes(r, "checking", run[r].attempt)
              \/ At(r, "ensure") /\ Comes(r, "provisioning", 0)
           /\ \A q \in Runs \ {r} : run'[q] = run[q]
  <1>1. TypeOK
    BY DEF IInv
  <1>2. ASSUME NEW refusal, Fails(r, refusal), run[r].step \in {"policy", "checking", "ensure"}
        PROVE  /\ FailsTo(r) /\ run[r].step \in {"policy", "checking", "ensure"}
               /\ \A q \in Runs \ {r} : run'[q] = run[q]
    BY <1>1, <1>2, FailsComes
  <1>3. ASSUME NEW step, NEW id, Passes(r, step, id)
        PROVE  Comes(r, step, 0) /\ \A q \in Runs \ {r} : run'[q] = run[q]
    BY <1>1, <1>3, GoesComes DEF Passes
  <1>4. CASE PolicySkips(r)
    BY <1>3, <1>4 DEF PolicySkips, At
  <1>5. CASE PolicyReads(r)
    BY <1>1, <1>5, GoesComes DEF PolicyReads
  <1>6. CASE PolicyAccepts(r)
    BY <1>2, <1>3, <1>6 DEF PolicyAccepts, At
  <1>7. CASE PolicyRefuses(r)
    BY <1>2, <1>7 DEF PolicyRefuses, At
  <1>8. CASE EnsureSkips(r)
    BY <1>3, <1>8 DEF EnsureSkips
  <1>9. CASE EnsureRegisters(r)
    BY <1>2, <1>3, <1>9 DEF EnsureRegisters, At
  <1>10. CASE EnsureRefuses(r)
    BY <1>2, <1>10 DEF EnsureRefuses, At
  <1>11. CASE AttemptFails(r)
    BY <1>2, <1>11 DEF AttemptFails
  <1> QED
    BY <1>4, <1>5, <1>6, <1>7, <1>8, <1>9, <1>10, <1>11 DEF Step

LEMMA BudgetStep ==
    ASSUME IInv, Budget, NEW r \in Runs, Step(r)
    PROVE  Budget'
  <1>1. PICK m \in {0, 1}, n \in {0, 1} :
              /\ m = 1 => At(r, "checking")
              /\ n = 1 => At(r, "ensure")
              /\ Subject(r) # NoSubject =>
                     /\ Count(validated'[Subject(r)], r) = Count(validated[Subject(r)], r) + m
                     /\ Count(versions'[Subject(r)], r) = Count(versions[Subject(r)], r) + n
              /\ \A q \in Runs \ {r}, s \in Subjects :
                     /\ Count(versions'[s], q) = Count(versions[s], q)
                     /\ Count(validated'[s], q) = Count(validated[s], q)
    BY StepCounts
  <1>2. WithinBudget(r)'
    BY <1>1, StepComes, OwnBudget
  <1>3. ASSUME NEW q \in Runs \ {r}
        PROVE  WithinBudget(q)'
    BY <1>1, <1>3, StepComes, OthersBudget
  <1> QED
    BY <1>2, <1>3 DEF Budget

\* A repeated attempt registers again (activities.go:53 and 66), so a run may
\* add more than one version to its subject and to the subject of its check,
\* but never more than it has attempts.
RegistrationsBounded ==
    \A r \in Runs :
        Subject(r) # NoSubject =>
            /\ Cardinality(Registered(versions[Subject(r)], r)) <= MaxAttempts
            /\ Cardinality(Registered(validated[Subject(r)], r)) <= MaxAttempts

\* A run registers at most once for each of its attempts, under its subject
\* and under the subject of its check (activities.go:53 and 66), whichever
\* attempts fail, are refused, or succeed without their result being received.
THEOREM RegistrationsStayBounded == Spec => []RegistrationsBounded
  <1>1. Init => Budget
    <2> SUFFICES ASSUME Init, NEW r \in Runs, Subject(r) # NoSubject
                 PROVE  /\ run[r].attempt < MaxAttempts
                        /\ run[r].step = "policy"
                        /\ Count(validated[Subject(r)], r) <= run[r].attempt
                        /\ Count(versions[Subject(r)], r) <= 0
      BY DEF Budget, WithinBudget, Checks, Ensures
    <2>1. TypeOK /\ run[r].attempt = 0 /\ run[r].step = "policy"
      BY InitIInv DEF Init, IInv
    <2>2. Subject(r) \in Subjects
      BY <2>1, ModeType
    <2>3. Registered(<<>>, r) = {}
      BY DEF Registered
    <2>4. Count(validated[Subject(r)], r) = 0 /\ Count(versions[Subject(r)], r) = 0
      BY <2>2, <2>3, FS_EmptySet DEF Init, Count
    <2> QED
      BY <2>1, <2>4, RegistryAssumption
  <1>2. IInv /\ Budget /\ [Next]_vars => Budget'
    <2> SUFFICES ASSUME IInv, Budget, [Next]_vars
                 PROVE  Budget'
      OBVIOUS
    <2>1. CASE UNCHANGED vars
      BY <2>1 DEF vars, Budget, WithinBudget, Checks, Ensures, Subject
    <2> QED
      BY <2>1, BudgetStep DEF Next
  <1>3. IInv /\ Budget => RegistrationsBounded
    <2> SUFFICES ASSUME IInv, Budget, NEW r \in Runs, Subject(r) # NoSubject
                 PROVE  /\ Count(versions[Subject(r)], r) <= MaxAttempts
                        /\ Count(validated[Subject(r)], r) <= MaxAttempts
      BY DEF RegistrationsBounded, Count
    <2> DEFINE c == Count(validated[Subject(r)], r)
               e == Count(versions[Subject(r)], r)
    <2>1. c \in Nat /\ e \in Nat /\ run[r].attempt \in Nat /\ MaxAttempts \in Nat
      BY ModeType, CountType, RegistryAssumption DEF IInv, TypeOK, Run
    <2>2. /\ run[r].step \in {"policy", "checking", "ensure"} => run[r].attempt < MaxAttempts
          /\ c <= Checks(r)
          /\ e <= Ensures(r)
      BY DEF Budget, WithinBudget
    <2> HIDE DEF c, e
    <2>3. c <= MaxAttempts /\ e <= MaxAttempts
      BY <2>1, <2>2 DEF Checks, Ensures
    <2> QED
      BY <2>3 DEF c, e
  <1> QED
    BY <1>1, <1>2, <1>3, InductiveInvariant, PTL DEF Spec
=============================================================================
