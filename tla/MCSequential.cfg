\* A buffer of four bytes behind a prefix of two, and ten bytes.  Days of two
\* seconds, files of three bytes, a byte or two per line, with writes that fail and
\* a clock that is set.  A cache of two for three keys and an average limit of 4:
\* ageing sets in after ten accesses and may leave every frequency at INT8_MAX.
SPECIFICATION MCSpec
CONSTANTS
    kCheapPrepend = 2
    kInitialSize = 4
    ExtraSize = 5
    MaxBytes = 10
    rollsize_ = 3
    flushInterval_ = 1
    checkEveryN_ = 2
    kRollPerSeconds_ = 2
    BelowZero = 1
    AboveZero = 1
    Lengths = {1, 2}
    MayFail = TRUE
    MaxTime = 4
    MaxSize = 4
    MaxCount = 3
    Keys = {k1, k2, k3}
    DummyKeys = {k1, k2, k3, other}
    Hash <- MCHash
    capacity_ = 2
    sliceNum_ = 1
    maxAverageNum_ = 4
    INT8_MAX = 3
    MaxTotal = 13
INVARIANTS
    IndicesOK
    ReadableIsFifo
    RollsAfterDay
    WithinCapacity
    MinFreqExact
    TotalCoversFreqs
PROPERTIES
    OversizeIsYoung
    FlushLag
    LeastUsedEvicted
