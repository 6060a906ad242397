\* Two attempts, each with up to three addresses.
SPECIFICATION FairSpec
CONSTANTS
    Fds = {f1, f2, f3}
    NullFd = NullFd
    Addresses = {a1, a2}
    MaxResults = 3
    MaxAttempts = 2
INVARIANTS
    OneOwner
    ClientIsEstablished
    AllTried
PROPERTIES
    ConstructorEnds
\* The last attempt ends without a client.
CHECK_DEADLOCK FALSE
