SPECIFICATION Spec
CONSTANTS
    Exec = {e1}
    Manual = {m1}
    Initial = v0
    Run = {r1, r2}
    Key = {k1}
    Scope = {s1, s2}
    Password <- PasswordValues
    PasswordOf <- DistinctPasswords
    MaxRevision = 2
    ConfirmListed = TRUE
    None = None
SYMMETRY Symmetry
INVARIANTS SendOnce KnownOutcome OutcomeIsTrue InFlightPinned PointerIsActive
PROPERTY ImplementsRotation
CHECK_DEADLOCK FALSE
