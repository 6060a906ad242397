\* The peer closes the connection: cb_ev goes on after `delete this'.
SPECIFICATION Spec
CONSTANTS
    MaxBytes = 1
    MaxIn = 1
    SndBuf = 1
    RecvBuf = 1
INVARIANTS
    NoUseAfterDelete
CHECK_DEADLOCK FALSE
