\* Three plugins, the second of them the owner of the tool policy; a run with
\* one tool call; two attempts to clean up, as in the code.
SPECIFICATION FairSpec
CONSTANTS
    Plugins = 3
    Owner = 2
    Declared <- ThreePriorities
    Run = {r1}
    MaxCalls = 1
    MaxAttempts = 2
INVARIANTS AdmittedByAll EndReaches
PROPERTIES NotToldTwice SnapshotReleased
\* A run is over some day, and all plugins are loaded.
CHECK_DEADLOCK FALSE
