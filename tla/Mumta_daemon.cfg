\* From the start of the daemon to its end, with servers created and destroyed
\* in its loop while peers connect and give up.
SPECIFICATION MainFairSpec
CONSTANTS
    Fds = {f1, f2, f3}
    NullFd = NullFd
    Conns = {c1, c2, c3}
    Backlog = 2
    MaxWritten = 1
    MaxServers = 2
    HalfWord = 16
    Compiled <- BuiltWith
    Detected <- Found
INVARIANTS
    CountIsLive
    DescriptorsOwned
    ReadyIsCompatible
    StoppingIsQuiet
PROPERTIES
    EventuallyAccepted
    EventuallyStops
\* main returns.
CHECK_DEADLOCK FALSE
