\* One client with its socket, its peer and its application, under a fair loop
\* and with a peer that reads.
SPECIFICATION FairSpec
CONSTANTS
    MaxBytes = 3
    MaxIn = 2
    SndBuf = 2
    RecvBuf = 1
INVARIANTS
    QueueCoversUnsent
    NoStall
PROPERTIES
    ImplementsByteStream
    EventuallySent
    EventuallyRead
    NoSpin
\* The process ends after an exception or an abort.
CHECK_DEADLOCK FALSE
