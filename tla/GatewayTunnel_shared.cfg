CONSTANTS
    Tunnel = {t1, t2, t3}
    Check = {t1}
    Closing = {t1, t2}
    Client = {c1, c2}
    PortTaken = TRUE
    None = None
SPECIFICATION LiveSpec
INVARIANTS
    VerdictTrue
PROPERTIES
    LastCloses
    MutexReleased
CHECK_DEADLOCK FALSE
