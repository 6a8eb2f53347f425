SPECIFICATION Spec
CONSTANTS
    Pages <- AllPages
    Records = {1, 2, 3}
    Stored = {1, 2}
    Queries = {"all", "some"}
    NoFilter = "all"
    Hits <- MCHits
    PageSize = 1
    MaxOps = 3
INVARIANTS SpinnerEnds LatestShown BatchAgreed
CHECK_DEADLOCK FALSE
