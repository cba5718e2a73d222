SPECIFICATION FairSpec
CONSTANTS
    Agent = {a1, a2, a3}
    Principal = {p1}
    NoAgent = NoAgent
    NoPrincipal = NoPrincipal
    MaxDepth = 1
    MaxChildren = 1
    MaxPerPrincipal = 3
    MaxConcurrent = 1
PROPERTIES
    CancelConverges
    RevokeReturns
CHECK_DEADLOCK FALSE
