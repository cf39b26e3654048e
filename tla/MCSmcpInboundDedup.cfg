CONSTANTS
    Peers = {"p1"}
    PeerBytes <- MCPeerBytes
    TTs = {"CON"}
    Codes <- MCCodes
    Mids = {7}
    RequestResults = {"OK"}
    ResponseResults = {"OK"}
    RingSize = 2
    MaxIn = 2
    AsyncFlags = {"ACK"}
    SnapshotFits = {TRUE}
    SendResults = {"OK"}
    MaxPending = 1
    AnswerInDispatch = {FALSE}
SPECIFICATION Spec
INVARIANT DedupDetectsRetransmission
CHECK_DEADLOCK FALSE
