\* Lines of every width, with bytes missing anywhere.
SPECIFICATION Spec
CONSTANTS
    Word = 65536
    WordDigits = 4
    LabelDigits = 2
    Offsets <- AllOffsets
    Dumps <- AllDumps
INVARIANTS
    EveryByteShown
    ColumnsAlign
    CutAtLast
