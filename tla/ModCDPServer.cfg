SPECIFICATION Spec
CONSTANTS
    Requests = {r1, r2}
    Starts = {s1, s2}
    Events = {e1}
    MaxPorts = 2
    Asks <- MCAsks
SYMMETRY CallerSymmetry
INVARIANTS
    KeepsPolling
    NoEventTwice
    AnswersGoHome
    UpstreamIsWired
CHECK_DEADLOCK FALSE
