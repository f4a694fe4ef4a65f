\* Only the destructor quits the loop.
SPECIFICATION TSpec
CONSTANTS
    Threads = {o, t1}
    Functors = {f1, f2}
    Channels = {c1}
    WakeupChannel = wake
    InitEventListSize = 2
    MaxWakeups = 1
    EarlyUse = TRUE
    Owner = o
    CallbacksQuit = FALSE
PROPERTY DestructorReturns
