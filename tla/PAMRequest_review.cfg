CONSTANTS
    Req = {r1}
    r1 = r1
    w1 = w1
    View = {}
    Worker = {w1}
    MaxAttempts = 1
    MaxRevision = 2
    MaxLate = 0
    Decision = {"approved", "unqualified", "rejected", "withdrawn"}
    None = None
SPECIFICATION LiveSpec
INVARIANTS
    PolicyCurrent
PROPERTIES
    TicketClosed
    VerdictArrives
