------------------------------ MODULE NcColors ------------------------------
(***************************************************************************)
(* Colours in the windows of NcWindows: registered_colors_ of             *)
(* nccpp::Ncurses (src/lib/nccpp/Ncurses.cpp), which numbers colours as    *)
(* they are first used, and the functions that draw with them              *)
(* (src/lib/nccpp/Window_attributes.cpp).                                  *)
(*                                                                         *)
(* The attributes belong to the window of curses, not to the object that   *)
(* manages it: they go where the handle goes.  A start_color that fails    *)
(* throws ColorInit and changes nothing.                                   *)
(***************************************************************************)
EXTENDS NcWindows

CONSTANTS
    Colors,      \* combinations of foreground and background
    NoColor,     \* the colour of a window whose colour nobody has set
    ColorPairs,  \* COLOR_PAIRS of the terminal: pairs 1 .. ColorPairs - 1
    AttrPairs    \* 256: the pair numbers that fit into an attr_t

ASSUME PairsAssumption ==
    /\ ColorPairs \in Nat \ {0}
    /\ AttrPairs \in Nat \ {0}
    /\ NoColor \notin Colors

VARIABLES
    colors_initialized,  \* colors_initialized_
    registered_colors,   \* registered_colors_
    \* curses
    pairs,               \* the pairs initialized with init_pair
    attr,                \* the pair number in the attributes of each window
    \* history
    chosen               \* the colour the application gave each window last

tableVars == <<colors_initialized, registered_colors, pairs>>
colorVars == <<tableVars, attr, chosen>>
screenVars == <<vars, colorVars>>
windowVars == <<objectVars, isExit, cursesVars>>

PairNumbers == 1 .. ColorPairs - 1

ColorTypeOK ==
    /\ colors_initialized \in BOOLEAN
    /\ registered_colors \in Seq(Colors)
    /\ pairs \in [PairNumbers -> Colors \cup {NoColor}]
    /\ attr \in [Pointers -> 0 .. AttrPairs - 1]
    /\ chosen \in [Pointers -> Colors \cup {NoColor}]

ColorInit ==
    /\ Init
    /\ colors_initialized = FALSE
    /\ registered_colors = <<>>
    /\ pairs = [n \in PairNumbers |-> NoColor]
    /\ attr = [h \in Pointers |-> 0]
    /\ chosen = [h \in Pointers |-> NoColor]

\* A faulty variant: the loop ends before the colour registered last.
IsRegisteredButLast(c, n) == n \in 1 .. Len(registered_colors) - 1 /\ registered_colors[n] = c

\* The number a colour already has.
IsRegistered(c, n) == n \in DOMAIN registered_colors /\ registered_colors[n] = c

\* A faulty variant: the pair is initialized and the colour not pushed.
ColorToPairNumberLost(c, n) ==
    \/ /\ IsRegistered(c, n)
       /\ UNCHANGED tableVars
    \/ /\ \A m \in DOMAIN registered_colors : ~IsRegistered(c, m)
       /\ n = Len(registered_colors) + 1
       /\ n \in PairNumbers
       /\ colors_initialized' = TRUE
       /\ pairs' = [pairs EXCEPT ![n] = c]
       /\ UNCHANGED registered_colors

\* color_to_pair_number: the number the colour has, or the next one.
ColorToPairNumber(c, n) ==
    \/ /\ IsRegistered(c, n)
       /\ UNCHANGED tableVars
    \/ /\ \A m \in DOMAIN registered_colors : ~IsRegistered(c, m)
       /\ n = Len(registered_colors) + 1
       /\ n \in PairNumbers
       /\ colors_initialized' = TRUE
       /\ pairs' = [pairs EXCEPT ![n] = c]
       /\ registered_colors' = Append(registered_colors, c)

\* The macros COLOR_PAIR and PAIR_NUMBER of ncurses: an attr_t has room for
\* the low bits of a pair number.
AttrOf(n) == n % AttrPairs

\* o has a window to draw in, which it has only in ncurses mode.
MayDraw(o) == Running /\ o \in alive /\ win[o] \in Pointers

\* init_pair returns ERR: there are no more pairs, or curses rejects the
\* colour.  TooMuchColors is thrown before anything is registered.
TooMuchColors(c) ==
    /\ Running
    /\ ~isExit
    /\ \A m \in DOMAIN registered_colors : ~IsRegistered(c, m)
    /\ colors_initialized' = TRUE
    /\ UNCHANGED <<vars, registered_colors, pairs, attr, chosen>>

\* chgat colours what is on the screen by the number of the pair.
Chgat(o, c) ==
    /\ MayDraw(o)
    /\ ~isExit
    /\ \E n \in PairNumbers : ColorToPairNumber(c, n)
    /\ UNCHANGED <<vars, attr, chosen>>

\* A faulty variant: the index in registered_colors_ is taken for the number.
SetColorIndex(o, c) ==
    /\ MayDraw(o)
    /\ ~isExit
    /\ \E n \in PairNumbers :
          /\ ColorToPairNumber(c, n)
          /\ attr' = [attr EXCEPT ![win[o]] = AttrOf(n - 1)]
    /\ chosen' = [chosen EXCEPT ![win[o]] = c]
    /\ UNCHANGED vars

\* attrset(color_to_attr(c))
SetColor(o, c) ==
    /\ MayDraw(o)
    /\ ~isExit
    /\ \E n \in PairNumbers :
          /\ ColorToPairNumber(c, n)
          /\ attr' = [attr EXCEPT ![win[o]] = AttrOf(n)]
    /\ chosen' = [chosen EXCEPT ![win[o]] = c]
    /\ UNCHANGED vars

\* attrset(0)
ResetColor(o) ==
    /\ MayDraw(o)
    /\ attr' = [attr EXCEPT ![win[o]] = 0]
    /\ chosen' = [chosen EXCEPT ![win[o]] = NoColor]
    /\ UNCHANGED <<vars, tableVars>>

\* color_get of a window without a colour: pair_number_to_color(0) reads
\* registered_colors_ at the index -1, outside the vector.
ColorGetOutside(o) ==
    /\ MayDraw(o)
    /\ ~isExit
    /\ attr[win[o]] = 0
    /\ outcome' = "aborted"
    /\ UNCHANGED <<windowVars, colorVars>>

\* color_get of a window with a colour, and attr_to_color of its attribute:
\* pair_number_to_color.
ColorGet(h) == registered_colors[attr[h]]

\* The windows that a step makes start with the pair a, the colour c.
NewWindowsHave(a, c) ==
    /\ attr' = [h \in Pointers |-> IF h \in live' \ live THEN a
                                   ELSE IF h \in live' THEN attr[h] ELSE 0]
    /\ chosen' = [h \in Pointers |-> IF h \in live' \ live THEN c
                                     ELSE IF h \in live' THEN chosen[h] ELSE NoColor]
    /\ UNCHANGED tableVars

\* newwin: no colour.
WithPlainWindow ==
    /\ \/ \E o \in Wins :
             \/ Construct(o) \/ Assign(o) \/ DestroyWindow(o) \/ Destruct(o)
             \/ \E mv \in Wins : MoveConstruct(o, mv) \/ MoveAssign(o, mv)
       \/ \E o \in Holders : \E i \in DOMAIN subwindows[o] : DeleteSubwindow(o, i)
       \/ ExitMode \/ ResumeMode \/ ProcessExit
    /\ NewWindowsHave(0, NoColor)

\* dupwin: an exact duplicate.
WithCopy(o, cp) ==
    /\ CopyConstruct(o, cp) \/ CopyAssign(o, cp)
    /\ \/ win[cp] = Null /\ NewWindowsHave(0, NoColor)
       \/ win[cp] \in Pointers /\ NewWindowsHave(attr[win[cp]], chosen[win[cp]])

\* subwin: the colour of the window around it or none, as the version of curses
\* has it.
WithSubwindow(o) ==
    /\ AddSubwindow(o)
    /\ \/ NewWindowsHave(0, NoColor)
       \/ win[o] \in Pointers /\ NewWindowsHave(attr[win[o]], chosen[win[o]])

ColorNext ==
    \/ WithPlainWindow
    \/ \E o, cp \in Wins : WithCopy(o, cp)
    \/ \E o \in Holders : WithSubwindow(o)
    \/ \E c \in Colors : TooMuchColors(c) \/ \E o \in Objects : Chgat(o, c) \/ SetColor(o, c)
    \/ \E o \in Objects : ResetColor(o) \/ ColorGetOutside(o)

ColorSpec == ColorInit /\ [][ColorNext]_screenVars

----------------------------------------------------------------------------
(* Properties                                                              *)

\* The n-th registered colour is the one curses shows for pair n, every colour
\* has one number, and no pair is initialized that is not registered: the two
\* tables agree after any sequence of uses, init_pair failing included.
PairsAgree ==
    /\ \A n \in PairNumbers :
          pairs[n] = IF n \in DOMAIN registered_colors THEN registered_colors[n] ELSE NoColor
    /\ \A m, n \in DOMAIN registered_colors :
          registered_colors[m] = registered_colors[n] => m = n

\* What is on the screen keeps its colour: a pair in use is never redefined.
PairsKept ==
    [][\A n \in PairNumbers : pairs[n] # NoColor => pairs'[n] = pairs[n]]_screenVars

\* Every window draws in the colour it was given, itself or as a duplicate,
\* through the number of its pair, and color_get returns it, as long as no more
\* colours are registered than an attribute can number: while windows are
\* copied, moved and replaced and their handles saved and restored.
ShownAsChosen ==
    Len(registered_colors) < AttrPairs =>
        \A h \in Pointers : chosen[h] # NoColor =>
            /\ attr[h] \in PairNumbers /\ attr[h] \in DOMAIN registered_colors
            /\ pairs[attr[h]] = chosen[h]
            /\ ColorGet(h) = chosen[h]
=============================================================================
