-------------------------- MODULE MCSchemaRegistry --------------------------
(***************************************************************************)
(* Instances of SchemaRegistry for TLC.                                    *)
(***************************************************************************)
EXTENDS SchemaRegistry, TLC

CONSTANTS subject, other

\* Schemas as in schema_test.go: optional and required fields that come and go.
Id == "id" :> TRUE
IdMaybe == "id" :> FALSE
IdEmail == ("id" :> TRUE) @@ ("email" :> FALSE)
IdEmailRequired == ("id" :> TRUE) @@ ("email" :> TRUE)
Email == "email" :> FALSE

MCDocuments == {Id, IdMaybe, IdEmail, IdEmailRequired, Email}

Spc(s, f, c) == [subject |-> s, format |-> f, compatibility |-> c]

MCSpecs == {
    Spc(subject, Id, "BACKWARD"),
    Spc(subject, IdEmail, "unset"),
    Spc(subject, IdEmailRequired, "BACKWARD"),
    Spc(subject, Email, "BACKWARD"),
    Spc(subject, IdMaybe, "NONE"),
    Spc(subject, NoSchema, "BACKWARD"),
    Spc(other, Id, "unset"),
    Spc(other, Unparseable, "unset"),
    Spc(NoSubject, Id, "BACKWARD")}

\* All runs do the same, so their names do not matter.
RunSymmetry == Permutations(Runs)
=============================================================================
