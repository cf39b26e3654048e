\* The list command against a server that may redirect, paginate, fail or
\* stay silent, with a user who may press Ctrl-C.  The command returning
\* (or being killed) is the end of a behaviour, so deadlock is not checked.
CONSTANTS
    Responses <- MCResponses
    BeginResults = {"OK", "FAIL"}
    ArgResults = {"follow", "nofollow", "help", "badarg"}
    MaxFollow = 3
    MaxChunks = 3
    Timeout = 2
SPECIFICATION FairSpec
INVARIANTS
    TypeOK
    LoopWaitsOnTransaction
PROPERTIES
    CommandReturns
CHECK_DEADLOCK FALSE
