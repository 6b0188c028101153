SPECIFICATION FairSpec
CONSTANTS
    MaxHeight = 3
    ClockLag = 1
    MAX_NUM_APPLIED_ACTIONS = 2
INVARIANT EarlyKept
PROPERTIES CaughtUp BufferDrains
