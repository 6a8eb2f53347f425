SPECIFICATION SignInSpec
CONSTANTS
    MaxTries = 3
    MaxInfos = 2
INVARIANTS
    RoutesFirst
PROPERTIES
    NavigationEnds
    SignOutLands
CHECK_DEADLOCK FALSE
