\* A count_ that nothing initialised, one below zero, and no clock that is set back:
\* two lines are written on the second day, and the day is not looked at.
SPECIFICATION FileSpec
CONSTANTS
    rollsize_ = 5
    flushInterval_ = 1
    checkEveryN_ = 2
    kRollPerSeconds_ = 2
    BelowZero = 1
    AboveZero = 0
    Lengths = {1}
    MayFail = FALSE
    MaxTime = 3
    MaxSize = 5
    MaxCount = 3
INVARIANT ChecksEveryN
