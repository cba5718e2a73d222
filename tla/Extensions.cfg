SPECIFICATION AllSpec
CONSTANTS
    Agent = {d, y1, y2}
    Root = d
    Tool = {t1, t2}
    Process = {t2}
    Read = {t1}
    All = All
    NoAgent = NoAgent
    NoAccess = NoAgent
    MaxCalls = 2
    View = {x1, x2}
    Sub = d
    MaxNumber = 4
    TeamOwner = {"self", "peer"}
    Self = "self"
    MaxMembers = 2
    Capacity = 1
    MaxTries = 1
    MaxRetired = 1
    MaxFinished = 1
    MaxPending = 1
    MaxHandles = 3
    MaxMessages = 1
    MaxRuns = 2
    PlanSession = {x1, x2, d}
    MaxPlans = 2
    MaxUpdates = 2
    MaxStarts = 2
    HistoryProcess = {x1, x2}
    PastSession = {y1, y2}
    MaxRevision = 2
    MaxFaults = 1
    MaxSyncs = 2
    MemoryText = {x1, x2}
    MaxMemories = 2
    MaxSequence = 3
    MaxWriteFaults = 1
    Run = {x1, x2}
    RunCall = {y1, y2}
    Directory = {d}
    NoCall = NoCall
    NoDirectory = NoDirectory
    MaxApprovals = 2
    MaxModes = 1
    Subscriber = {x1, x2}
    NoBody = NoBody
    BusDispatch = {d}
    MaxSubscriptions = 2
    ToolCall = {d}
    Width = {1, 2}
    NoValue = NoValue
    MaxReady = 1
    MaxResizes = 2
    MaxTicks = 1
    NoRun = NoRun
    MaxProcesses = 1
    MaxEvents = 1
    MaxGuestCalls = 3
    PluginRequest = {f1, f2, f3, f4}
    Size = {1, 2}
    MaxBytes = 3
    MaxRequests = 2
    Sender = {x1, x2}
    NoEvent = NoEvent
    MaxWaiting = 2
    MaxWeight = 1
    MaxOffers = 4
    Provider = {x1, x2}
    Model = {"m"}
    Endpoint <- Endpoints
    Short = {"i"}
    Long = {y1, y2}
    CutIds <- SharedPrefixes
    Plain = Plain
    Legacy = Legacy
    NoRequest = NoRequest
    MaxMessagesSent = 4
    MaxRebinds = 1
    Name = {y1, y2}
    ItemSize = {1, 2, 3}
    MaxItem = 2
    MaxOwned = 3
    MaxNames = 1
    MaxEmitted = 2
    Output <- Outputs
    MaxLine = 2
    Policy = 2
    MaxChildren = 1
    MaxSockets = 3
    MaxTransfer = 2
    ReadBudget = 2
    MaxHandlesHeld = 2
SYMMETRY Symmetry
\* Every component stops at its bounds.
CHECK_DEADLOCK FALSE
INVARIANTS
    StoredSound
    HostSound
    LimitsSound
    RoundsSound
PROPERTIES
    TeammatesKept
    PlansKept
    ApprovalsKept
    FramesSound
