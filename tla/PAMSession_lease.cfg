CONSTANTS
    Session = {s1, s2}
    s1 = s1
    s2 = s2
    TTL = 2
    Interval = 1
    Timeout = 1
    Limit = 3
    Max = {1}
    GrantEnd = {4}
    MaxRevision = 2
    MaxTime = 4
    Prompt = TRUE
SPECIFICATION Spec
SYMMETRY Symmetry
INVARIANTS
    WithinLimit
    NothingLeftOpen
    Covered
    WithdrawnEnds
CHECK_DEADLOCK FALSE
