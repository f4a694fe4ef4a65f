\* Eight lines in buffers that take two or three: started, stopped and aborted
\* at any time.
SPECIFICATION LoggerSpec
CONSTANTS
    MaxLines = 8
    LineLen <- MCLineLen
    BufferSize = 120
    kSmallBufferSize = 80
    kMaxNumberSize = 32
    Messages <- MCMessages
INVARIANTS
    LogOrder
    SparesReady
    FullBufferNotified
    LineText
PROPERTIES
    EveryLineFlushed
    StopEnds
