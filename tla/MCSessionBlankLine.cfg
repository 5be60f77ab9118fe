SPECIFICATION FairSpec
CONSTANTS
    Batches = {b1, b2}
    Tables = {t1}
    Views = {v1}
    RawCounts <- MCRawCounts
    MaxQueries = 5
    DDL = {b1, b2}
    None = None
    Overlap = FALSE
INVARIANTS
    BlankIgnored
