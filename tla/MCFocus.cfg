SPECIFICATION FairSpec
CONSTANTS
    Schemas = {s1, s2}
    MaxInFlight = 1
    Racing = FALSE
INVARIANTS
    OnlyFocusIsLit
    NeverBlank
    LaidOut
    StatusBarTrue
PROPERTIES
    EscReturns
