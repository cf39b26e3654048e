CONSTANTS
    Rtt <- MCRtt
    Jitters = {0, 299}
    StartDelays = {0}
    Expiration <- MCDistantFuture
    ObserveModes = {TRUE}
    KeepAlive = TRUE
    KeepAliveInterval = 30000
    DefaultMaxAge = 60000
    NonConfirmable = {FALSE}
    ResendResults = {"OK"}
    MaxTime = 70000
SPECIFICATION Spec
PROPERTY
    RetryDelayPositive
CHECK_DEADLOCK FALSE
