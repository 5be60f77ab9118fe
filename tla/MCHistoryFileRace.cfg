SPECIFICATION HistorySpec
CONSTANTS
    Saves = {s1, s2, s3}
    Faults = FALSE
INVARIANTS
    LoneSaveKept
