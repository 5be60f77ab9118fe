CONSTANTS
    Queries = {"query"}
    MaxQueries = 2
    MaxTokens = 5
    MaxPicks = 1
SPECIFICATION Spec
CONSTRAINT ShortRegister
INVARIANTS
    TypeOK
    SingleRunsItsLine
    NoOperatorWhileTyping
PROPERTIES
    PickStandsAlone
    LinesKept
