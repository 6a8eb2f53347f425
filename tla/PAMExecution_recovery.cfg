SPECIFICATION LiveSpec
CONSTANTS
    Exec = {e1}
    Manual = {}
    Initial = v0
    Run = {r1, r2}
    Key = {k1}
    Scope = {s1}
    Password <- PasswordValues
    PasswordOf <- DistinctPasswords
    MaxRevision = 2
    ConfirmListed = TRUE
    None = None
PROPERTY Recoverable
CHECK_DEADLOCK FALSE
