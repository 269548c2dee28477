SPECIFICATION LinkFairSpec
CONSTANTS
    NoCall = NoCall
    Calls = {}
    Timed = {}
    MaxId = 0
    MaxSlots = 3
    Waiters = {}
    MaxTime = 1
    MaxFaults = 1
INVARIANTS
    LiveSocketIsActive
    EndsAgree
PROPERTIES
    LinkComesUp
CHECK_DEADLOCK FALSE
