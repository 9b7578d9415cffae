SPECIFICATION Spec
CONSTANTS
    subject = subject
    other = other
    NoSubject = NoSubject
    NoSchema = NoSchema
    Unparseable = Unparseable
    Runs = {r1, r2, r3}
    Subjects = {subject, other}
    Documents <- MCDocuments
    Specs <- MCSpecs
    MaxAttempts = 2
SYMMETRY RunSymmetry
CHECK_DEADLOCK FALSE
INVARIANTS
    TypeOK
    BackwardKeepsFields
    IdNamesOwnSchema
PROPERTY
    OwnRetryAccepted
