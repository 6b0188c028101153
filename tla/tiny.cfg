SPECIFICATION RestartSpec
CONSTANTS
    ClusterSize = 2
    Running = {0, 1}
    StartHeight <- LaggingStart
    StartView <- LastOneViewBehind
    MaxNumGeneratedRequests = 2
    Tags = {1}
    MaxRequest = 2
    MaxView = 1
    MaxRestarts = 2
INVARIANTS ChainOnSchedule StateOnChain
PROPERTY NeverBack
CHECK_DEADLOCK FALSE
