SPECIFICATION Spec
CONSTANTS
    ClusterSize = 4
    Running = {0, 1, 2}
    StartHeight <- GenesisStart
    StartView <- FirstView
    MaxNumGeneratedRequests = 1
    Tags = {1}
    MaxRequest = 1
    MaxView = 2
INVARIANTS ViewChangeKeepsPrepared
CHECK_DEADLOCK FALSE
