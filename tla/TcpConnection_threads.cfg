\* The loop and a thread send two messages and a file and shut down; strings die
\* too early.
SPECIFICATION Safety
CONSTANTS
    m1 = m1
    m2 = m2
    Threads = {t1}
    ThreadMsgs = {m1, file}
    Msgs = {m1, m2}
    MsgLen <- MCMsgLen
    File = file
    FileCount = 2
    FileSize = 2
    PeerChunks = 0
    Callbacks = {}
    highWaterMark_ = 2
    SigpipeIgnored = TRUE
    StringsOutlive = FALSE
INVARIANTS
    EpollAgrees
    WritingIffBuffered
    StreamOrder
PROPERTIES
    FinAfterOutput
