SPECIFICATION FairCancelSpec
CONSTANTS
    Call = {t1, t2}
    NativeCall = {t1}
    Loop = Loop
    PolledFirst = TRUE
    MaxBatch = 2
    MaxRuns = 2
    MaxRequests = 2
    MaxCancels = 2
CHECK_DEADLOCK FALSE
INVARIANTS
    CancelHeard
    CancelNotForgotten
PROPERTIES
    CancelledRunsEnd
