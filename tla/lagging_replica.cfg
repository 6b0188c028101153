SPECIFICATION Spec
CONSTANTS
    ClusterSize = 4
    Running = {0, 1, 2, 3}
    StartHeight <- LaggingStart
    StartView <- FirstView
    MaxNumGeneratedRequests = 2
    Tags = {1}
    MaxRequest = 2
    MaxView = 1
INVARIANTS NoAbort
CHECK_DEADLOCK FALSE
