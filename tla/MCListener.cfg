SPECIFICATION FairSpec
CONSTANTS
    Scripts <- MCScripts
    Safe = 1
    EnvId = 1
    MinPage = 1
    MaxPage = 3
    InitialPage = 2
    LogLimit = 2
    ChanCap = 2
    MaxL2 = 1
    MaxFaults = 2
    None = None
INVARIANTS TypeOK NoEventSkipped RangeCurrent MarkBelowBatches
PROPERTIES EventsApplied ReplaySettles
CHECK_DEADLOCK FALSE
