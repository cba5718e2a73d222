SPECIFICATION AllSpec
CONSTANTS
    p1 = p1
    p2 = p2
    f1 = f1
    f2 = f2
    f3 = f3
    f4 = f4
    None = None
    User = {u}
    Plugin = {p1, p2}
    Version = {1, 2}
    Profile <- Profiles
    Needs <- Dependencies
    NoPlugin = None
    NoProfile = None
    Nothing = None
    MaxManagerFaults = 1
    Component = {p1, p2}
    Frame = {f1, f2, f3, f4}
    NoFrame = None
    Budget = 1
    MaxTime = 1
SYMMETRY Symmetry
\* Every component stops at its bounds.
CHECK_DEADLOCK FALSE
INVARIANTS
    ManagerSound
    CallsSound
    LoadingSound
    ContextSound
