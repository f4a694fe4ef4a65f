\* The loop sends two messages; it and a second thread shut down.
SPECIFICATION Spec
CONSTANTS
    m1 = m1
    m2 = m2
    Threads = {t1}
    ThreadMsgs = {}
    Msgs = {m1, m2}
    MsgLen <- MCMsgLen
    File = file
    FileCount = 0
    FileSize = 0
    PeerChunks = 1
    Callbacks = {"writeComplete", "highWater"}
    highWaterMark_ = 2
    SigpipeIgnored = FALSE
    StringsOutlive = TRUE
PROPERTIES
    LifeSpec
    PeerGoneReleases
    ShutdownSendsFin
