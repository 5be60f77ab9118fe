SPECIFICATION Spec
CONSTANTS
    None = None
    v1 = v1
    v2 = v2
    Names = {v1, v2}
    Goroutines = {g1, g2}
    Conns = {c1, c2}
    Seconds <- SecondsDef
    Sanitize <- SanitizeDef
    OpTypes <- OpTypesDef
    Documents <- DocumentsDef
    Statements <- StatementsDef
    MaxStatements <- MaxStatementsDef
SYMMETRY Symmetry
INVARIANTS
    RowsKept
    AlignedOnce
    ReorderingIsQuiet
    ComparesWithNewest
    AnalyzeUndone
    RunsForReal
CHECK_DEADLOCK FALSE
