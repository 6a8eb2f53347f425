CONSTANTS
    InCap = 1
    OutCap = 1
    Managed = {TRUE, FALSE}
    MaxInput = 2
    MaxOutput = 1
    Monitored = TRUE
SPECIFICATION LiveSpec
INVARIANTS
    CleanedLast
PROPERTIES
    CleanedUp
    ClosedEnds
    EndNoticed
    ConnectorEnds
CHECK_DEADLOCK FALSE
