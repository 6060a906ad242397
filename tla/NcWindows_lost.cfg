\* A subwindow across leaving ncurses mode.
SPECIFICATION Spec
CONSTANTS
    Wins = {w1, w2}
    Subs = {s1, s2, s3}
    Nc = Nc
    Handles = {h1, h2, h3}
    stdscr = stdscr
    Null = Null
SYMMETRY Symmetry
INVARIANTS
    NoHandleLost
\* The process may exit.
CHECK_DEADLOCK FALSE
