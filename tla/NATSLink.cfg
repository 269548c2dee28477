SPECIFICATION FairSpec
CONSTANTS
    u1 = u1
    u2 = u2
    a = a
    b = b
    Clients <- TwoClients
    Extension = Extension
    Calls <- TwoCalls
    ClientOf <- OneEach
    Timed = {b}
    Waiters <- OneWaiter
    MaxSlots = 2
    MaxDials = 3
    MaxBreaks = 1
INVARIANTS
    NoneWaitsOnDeadSocket
    NoHelloMissed
    NoCallForgotten
PROPERTIES
    KeepsPromises
    PeerAnswers
CHECK_DEADLOCK FALSE
