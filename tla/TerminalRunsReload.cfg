SPECIFICATION Spec
CONSTANTS
    Input = {a, b}
    None = None
    Ids = 2
    MaxReloads = 1
    MaxFaults = 0
CHECK_DEADLOCK FALSE
PROPERTIES
    ReloadKeepsOut
