\* Ctrl-C pressed while the command waits for a paginated directory: the
\* interrupt status must survive the reply being handled.
CONSTANTS
    Responses <- MCResponses
    BeginResults = {"OK"}
    ArgResults = {"nofollow"}
    MaxFollow = 3
    MaxChunks = 3
    Timeout = 2
SPECIFICATION Spec
PROPERTY
    InterruptIsFinal
CHECK_DEADLOCK FALSE
