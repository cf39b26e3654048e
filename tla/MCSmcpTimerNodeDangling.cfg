CONSTANTS
    InitPeriod <- MCInitPeriod
    Periods <- MCPeriods
    Remainings <- MCRemainings
    MaxReq = 4
SPECIFICATION Spec
INVARIANT NoDanglingTimer
CHECK_DEADLOCK FALSE
