SPECIFICATION HistorySpec
CONSTANTS
    Saves = {s1, s2, s3, s4}
    Faults = TRUE
INVARIANTS
    StaysReadable
    SerialKept
    OldestFirst
