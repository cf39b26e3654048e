CONSTANTS
    InitPeriod <- MCInitPeriod
    Periods <- MCPeriods
    Remainings <- MCRemainings
    MaxReq = 4
SPECIFICATION Spec
INVARIANT TypeOK
PROPERTY ImplementsCountdown
CHECK_DEADLOCK FALSE
