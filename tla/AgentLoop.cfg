SPECIFICATION FairSpec
CONSTANTS
    Call = {1, 2, 3}
    ReadOnly = {1, 2}
    Configured = 0
    PolicyLimit = 2
    NoLimit = NoLimit
    MaxRetries = 1
    QueueLimit = 1
    MaxRuns = 2
    MaxInput = 1
CHECK_DEADLOCK FALSE
INVARIANTS
    SessionSound
    SettledOnce
    SnapshotInStep
PROPERTIES
    RunsEnd
