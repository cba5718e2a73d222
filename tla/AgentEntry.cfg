SPECIFICATION FairSpec
CONSTANTS
    Waiter = {w1, w2}
    Observer = {o1}
    HistoryLimit = 2
    MaxEvents = 3
    Nobody = Nobody
    Task = Task
CHECK_DEADLOCK FALSE
INVARIANTS
    StreamsWhole
PROPERTIES
    WaitersReturnUnlessCollected
    StreamsEnd
