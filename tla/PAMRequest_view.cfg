CONSTANTS
    Req = {r1, r2}
    r1 = r1
    r2 = r2
    View = {r1, r2}
    Worker = {w1}
    w1 = w1
    MaxAttempts = 1
    MaxRevision = 1
    MaxLate = 0
    Decision = {"approved", "rejected"}
    None = None
SPECIFICATION Spec
SYMMETRY Symmetry
INVARIANTS
    OneOpenView
