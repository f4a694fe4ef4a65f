\* Two foreign threads, three functors, one I/O channel: batches of up to three,
\* functors queued from threads, callbacks and other functors.  With one slot in
\* events_ the channel can crowd out the wakeup channel until events_ grows, and
\* the eventfd is full after two writes.
SPECIFICATION Spec
CONSTANTS
    Threads = {t1, t2}
    Functors = {f1, f2, f3}
    Channels = {c1}
    WakeupChannel = wake
    InitEventListSize = 1
    MaxWakeups = 2
    EarlyUse = FALSE
INVARIANTS
    NoLostWakeup
    QueueOrder
PROPERTIES
    EveryFunctorRuns
    QuitHonoured
    WakeupHandled
    ExecutorSpec
