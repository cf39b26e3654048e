\* A request handler completes the deferred response of an earlier GET
\* while it dispatches a new confirmable request.
CONSTANTS
    Peers = {"p1"}
    PeerBytes <- MCPeerBytes
    TTs = {"CON"}
    Codes <- MCCodes
    Mids = {7}
    RequestResults = {"OK"}
    ResponseResults = {"OK"}
    RingSize = 2
    MaxIn = 2
    AsyncFlags = {"ACK"}
    SnapshotFits = {TRUE}
    SendResults = {"OK"}
    MaxPending = 1
    AnswerInDispatch = {FALSE, TRUE}
SPECIFICATION Spec
INVARIANT ConfirmableAnsweredOnce
CHECK_DEADLOCK FALSE
