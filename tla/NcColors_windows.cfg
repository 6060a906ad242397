\* Windows made, coloured, copied, moved and destroyed, with subwindows, in and
\* out of ncurses mode; two colours, each with a pair that an attribute holds.
SPECIFICATION ColorSpec
CONSTANTS
    Wins = {w1, w2}
    Subs = {s1, s2, s3}
    Nc = Nc
    Handles = {h1, h2, h3}
    stdscr = stdscr
    Null = Null
    Colors = {red, green}
    NoColor = NoColor
    ColorPairs = 3
    AttrPairs = 3
SYMMETRY Symmetry
INVARIANTS
    RegisteredOnce
    ManagedOnce
    ParentIsHolder
    PairsAgree
    ShownAsChosen
PROPERTY
    PairsKept
\* The process may exit.
CHECK_DEADLOCK FALSE
