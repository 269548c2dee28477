SPECIFICATION FairSpec
CONSTANTS
    page = page
    main = main
    child = child
    x1 = x1
    x2 = x2
    s1 = s1
    s2 = s2
    call = call
    frameCall = frameCall
    NoTarget = NoTarget
    NoSession = NoSession
    NoContext = NoContext
    Targets = {page}
    Sessions = {s1, s2}
    Contexts = {x1, x2}
    Frames = {main, child}
    Callers = {call, frameCall}
    Enables = {frameCall}
    HomeOf <- MCHomeOf
    FrameOf <- MCFrameOf
    TargetOf <- MCTargetOf
    Accepts <- MCAccepts
    Chunked = FALSE
    MaxEvents = 2
INVARIANTS
    TypeOK
    MapsAgree
    NoMissedWakeup
    WaitersCanBeRejected
    RoutesAreCurrent
    ContextsAreCurrent
PROPERTIES
    SendsOnCurrentRoute
    CallsSettle
CHECK_DEADLOCK FALSE
