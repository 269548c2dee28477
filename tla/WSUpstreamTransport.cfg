SPECIFICATION FairSpec
CONSTANTS
    timed = timed
    untimed = untimed
    NoCall = NoCall
    Calls = {timed, untimed}
    Timed = {timed}
    MaxId = 2
    MaxSockets = 2
INVARIANTS
    TypeOK
    PendingMatchesCalls
    NoneWaitsOnDeadSocket
    AwaitedAttemptRuns
PROPERTIES
    KeepsPromises
    TimedCallsSettle
    ClosedSocketSettlesCalls
CHECK_DEADLOCK FALSE
