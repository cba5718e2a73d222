SPECIFICATION Spec
CONSTANTS
    Agent = {a1, a2, a3, a4}
    Principal = {p1, p2}
    NoAgent = NoAgent
    NoPrincipal = NoPrincipal
    MaxDepth = 2
    MaxChildren = 1
    MaxPerPrincipal = 2
    MaxConcurrent = 1
SYMMETRY Symmetry
INVARIANTS
    LedgerExact
    TreeInOrder
    TasksAccounted
    RevokedAreCancelled
PROPERTY OutcomesAreFinal
CHECK_DEADLOCK FALSE
