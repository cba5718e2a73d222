SPECIFICATION Spec
CONSTANTS
    Task = {t1, t2}
    Id = {s1, s2}
    None = None
    MaxSaves = 3
    MaxFaults = 1
CHECK_DEADLOCK FALSE
SYMMETRY Symmetry
INVARIANTS
    NoLostSave
    IndexAgrees
PROPERTIES
    Implements
