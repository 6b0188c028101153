SPECIFICATION Spec
CONSTANTS
    ClusterSize = 4
    Running = {0, 1, 2}
    StartHeight <- GenesisStart
    StartView <- FirstView
    MaxNumGeneratedRequests = 1
    Tags = {1}
    MaxRequest = 2
    MaxView = 1
INVARIANTS SlotAgreement ViewChangeKeepsPrepared NewViewHasQuorum NewViewKeepsExecuted NoAbort RoastInCurrentView
PROPERTY LedgerSpec
CHECK_DEADLOCK FALSE
