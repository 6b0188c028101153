SPECIFICATION Spec
CONSTANTS
    ClusterSize = 1
    Running = {0}
    MaxView = 2
    MaxDuplicates = 4
    MaxCrashes = 0
INVARIANTS TypeOK SessionsBounded
CHECK_DEADLOCK FALSE
