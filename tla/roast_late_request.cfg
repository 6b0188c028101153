SPECIFICATION Spec
CONSTANTS
    ClusterSize = 4
    Running = {0, 1, 2, 3}
    MaxView = 1
    MaxDuplicates = 0
    MaxCrashes = 0
INVARIANT FinalSessionSound
CHECK_DEADLOCK FALSE
