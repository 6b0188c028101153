SPECIFICATION FairSpec
CONSTANTS
    ClusterSize = 4
    Running = {0, 1, 2, 3}
    MaxView = 0
    MaxDuplicates = 0
    MaxCrashes = 1
INVARIANTS FinalSessionSound SessionsBounded NonceUsedOnce
PROPERTY SignedUnlessSilent
CHECK_DEADLOCK FALSE
