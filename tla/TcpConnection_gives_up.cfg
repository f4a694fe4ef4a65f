\* A thread sends a message; the connection may be closed before the loop runs it.
SPECIFICATION Safety
CONSTANTS
    m1 = m1
    m2 = m2
    Threads = {t1}
    ThreadMsgs = {m1}
    Msgs = {m1}
    MsgLen <- MCMsgLen
    File = file
    FileCount = 2
    FileSize = 2
    PeerChunks = 0
    Callbacks = {}
    highWaterMark_ = 2
    SigpipeIgnored = TRUE
    StringsOutlive = FALSE
PROPERTY GivesUpWriting
