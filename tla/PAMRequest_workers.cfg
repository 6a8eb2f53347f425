CONSTANTS
    Req = {r1}
    r1 = r1
    View = {}
    Worker = {w1, w2}
    w1 = w1
    w2 = w2
    MaxAttempts = 1
    MaxRevision = 1
    MaxLate = 2
    Decision = {"approved", "unqualified", "rejected", "withdrawn"}
    None = None
SPECIFICATION Spec
SYMMETRY Symmetry
INVARIANTS
    ApprovedByProvider
    DoneIsClosed
PROPERTIES
    RevocationKept
    ImplementsAccess
