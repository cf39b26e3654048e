CONSTANTS
    t1 = t1
    t2 = t2
    Txn = {t1}
    Flags <- MCFlagsObserve
    HasResend <- MCResendObserve
    CallbackActs = {"Return"}
    ResendResults = {"OK"}
    AuthResults = {"OK"}
    ObsSeqs = {1,9000000}
    RandomIds = {1}
    MaxIds = 3
    MaxIn = 3
    MaxEpoch = 1
    NoObs = NoObs
    NoTok = NoTok
    ServerMid = ServerMid
    NoTxn = NoTxn
SPECIFICATION Spec
PROPERTY
    ObservationEndsOnlyViaCallback
CHECK_DEADLOCK FALSE
