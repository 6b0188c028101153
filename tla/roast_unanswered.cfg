SPECIFICATION FairSpec
CONSTANTS
    ClusterSize = 4
    Running = {0, 1, 2, 3}
    MaxView = 0
    MaxDuplicates = 0
    MaxCrashes = 0
PROPERTY AskedSigns
CHECK_DEADLOCK FALSE
