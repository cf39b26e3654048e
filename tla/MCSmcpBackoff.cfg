\* A confirmable request retried for thirty seconds (as smcpctl list does),
\* with every resend result and the extreme jitters.  The run ends when the
\* transaction has ended, so deadlock is not checked.
CONSTANTS
    Rtt <- MCRtt
    Jitters = {0, 299}
    StartDelays = {0}
    Expiration <- MCThirtySeconds
    ObserveModes = {FALSE, TRUE}
    KeepAlive = FALSE
    KeepAliveInterval = 30000
    DefaultMaxAge = 60000
    NonConfirmable = {FALSE, TRUE}
    ResendResults = {"OK", "WAIT_FOR_DNS", "FAILURE"}
    MaxTime = 40000
SPECIFICATION FairSpec
INVARIANTS
    TypeOK
    WakeNotAfterExpiration
PROPERTIES
    RetryDelayPositive
    EventuallyEnds
    BackoffRestartsOnRenewal
CHECK_DEADLOCK FALSE
