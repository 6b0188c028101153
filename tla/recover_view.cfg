SPECIFICATION Spec
CONSTANTS
    ClusterSize = 4
    Running = {0, 1, 2, 3}
    StartHeight <- GenesisStart
    StartView <- LastOneViewBehind
    MaxNumGeneratedRequests = 1
    Tags = {1}
    MaxRequest = 1
    MaxView = 1
INVARIANTS TypeOK ExecutedByQuorum ActiveViewJustified StateOnChain
CHECK_DEADLOCK FALSE
