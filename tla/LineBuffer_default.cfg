\* default_eol_search.
SPECIFICATION Spec
CONSTANTS
    Chars <- SmallChars
    Chunks <- SmallChunks
    Search <- Default
    NPos <- NoPosition
    Max = 2
    MaxReceived = 3
    MaxLines = 4
INVARIANTS
    OneLinePerLineEnd
CHECK_DEADLOCK FALSE
