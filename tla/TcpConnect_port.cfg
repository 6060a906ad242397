\* The port of a connected client.
SPECIFICATION Spec
CONSTANTS
    Fds = {f1, f2}
    NullFd = NullFd
    Addresses = {a1}
    MaxResults = 1
    MaxAttempts = 1
INVARIANTS
    PortRecorded
CHECK_DEADLOCK FALSE
