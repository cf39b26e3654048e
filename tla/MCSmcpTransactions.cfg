\* An observation with keep-alive beside a plain request, under the
\* fairness of FairSpec (timers are serviced, time passes): the safety
\* invariants, and that the plain request always leaves the table.
\* Deadlock is not checked: with nothing in flight and the bounds spent, the
\* engine idles in poll(), which is a legitimate state.
CONSTANTS
    t1 = t1
    t2 = t2
    Txn = {t1, t2}
    Flags <- MCFlagsObservePlain
    HasResend <- MCResendObservePlain
    CallbackActs = {"Return", "Error", "End", "Restart"}
    ResendResults = {"OK", "FAILURE"}
    AuthResults = {"OK", "FAILURE"}
    ObsSeqs = {1, 9000000}
    RandomIds = {1}
    MaxIds = 3
    MaxIn = 3
    MaxEpoch = 2
    NoObs = NoObs
    NoTok = NoTok
    ServerMid = ServerMid
    NoTxn = NoTxn
SPECIFICATION FairSpec
INVARIANTS
    TypeOK
    TimerMatchesTable
    
PROPERTIES
    RestartInCallbackSurvives
    NonObservationTerminates
CHECK_DEADLOCK FALSE
