\* Three threads that draw on one display.
SPECIFICATION FairSpec
CONSTANTS
    Main = t1
    Threads = {t1, t2, t3}
    None = None
INVARIANTS
    OneDrawer
    AliveInCall
    DestroyedUnlocked
PROPERTY
    CallsComplete
\* A nested call may block every thread, and the process may abort.
CHECK_DEADLOCK FALSE
