CONSTANTS
    Peers = {"p1"}
    PeerBytes <- MCPeerBytes
    TTs = {"CON", "NON"}
    Codes <- MCCodes
    Mids = {7}
    RequestResults = {"OK", "NOT_FOUND"}
    ResponseResults = {"OK", "FAILURE"}
    RingSize = 2
    MaxIn = 3
    AsyncFlags = {"ACK", "DONT_ACK"}
    SnapshotFits = {TRUE, FALSE}
    SendResults = {"OK", "FAILURE"}
    MaxPending = 1
    AnswerInDispatch = {FALSE}
SPECIFICATION Spec
INVARIANTS TypeOK RingIsRecentWindow OneFinalAnswer
CHECK_DEADLOCK FALSE
