\* A line buffer on a client, with a search that returns the index past the
\* line end.
SPECIFICATION AllFairSpec
CONSTANTS
    Chars <- SmallChars
    Chunks <- SmallChunks
    Search <- PastEnd
    NPos <- NoPosition
    Max = 2
    MaxReceived = 4
    MaxLines = 5
    MaxBytes = 1
    MaxIn = 4
    SndBuf = 1
    RecvBuf = 2
INVARIANTS
    Conserved
    ResidueBounded
    CompleteAtLineEnds
    OwnersKeepAlive
    CalledDeadOnlyIfKept
PROPERTIES
    EventuallyComplete
\* The process ends after an exception or an abort.
CHECK_DEADLOCK FALSE
