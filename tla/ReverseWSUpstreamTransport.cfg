SPECIFICATION Spec
CONSTANTS
    timed = timed
    untimed = untimed
    waiter = waiter
    NoCall = NoCall
    Calls = {timed, untimed}
    Timed = {timed}
    MaxId = 2
    MaxSlots = 2
    Waiters = {waiter}
    MaxTime = 2
INVARIANTS
    OnePeerOpen
    NoWaiterOverlooked
PROPERTIES
    KeepsPromises
    RejectedWithCurrentPeer
CHECK_DEADLOCK FALSE
