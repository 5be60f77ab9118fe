SPECIFICATION FairSpec
CONSTANTS
    N = 3
    MaxConcurrency = 2
    Kind <- MCKind
INVARIANTS
    CanSend
    ConnectionsCapped
    NothingLeftBehind
    ReportInOrder
PROPERTIES
    Implements
    CancelReturns
