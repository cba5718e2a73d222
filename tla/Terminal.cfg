SPECIFICATION AllSpec
CONSTANTS
    Input = {a, b, c}
    None = None
    Ids = 2
    MaxReloads = 1
    MaxFaults = 1
    Call = {c1, c2}
    Instance = {i1}
    Page = {p1}
SYMMETRY Symmetry
CONSTRAINT ThirdAlone
\* Every component stops at its bounds.
CHECK_DEADLOCK FALSE
INVARIANTS
    LostOnlyByReplacing
PROPERTIES
    QueueObeysUser
    SavesInStep
    ScreenTrue
