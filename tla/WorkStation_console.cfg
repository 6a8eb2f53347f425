SPECIFICATION Spec
CONSTANTS
    Tree <- MCTree
    Nowhere = nowhere
    MaxLoads = 3
    MaxUploads = 1
    MaxTabs = 2
    MaxActs = 5
INVARIANTS
    StatusTrue
    DirectoryShown
PROPERTIES
    StatusSettles
    ConnectionEnds
CHECK_DEADLOCK FALSE
