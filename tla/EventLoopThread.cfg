\* One more thread beside the owner; callbacks may quit the loop behind the
\* owner's back.  A loop that quits before startLoop() has seen loop_ leaves
\* startLoop() waiting for ever, so the system may stop.
CHECK_DEADLOCK FALSE
SPECIFICATION TSpec
CONSTANTS
    Threads = {o, t1}
    Functors = {f1, f2}
    Channels = {c1}
    WakeupChannel = wake
    InitEventListSize = 2
    MaxWakeups = 1
    EarlyUse = TRUE
    Owner = o
    CallbacksQuit = TRUE
INVARIANTS
    StartedLoopIsLive
PROPERTY JoinsRunningLoop
