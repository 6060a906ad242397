----------------------------- MODULE NcWindows -----------------------------
(***************************************************************************)
(* The windows of the ncurses wrapper: nccpp::Ncurses, nccpp::Window and   *)
(* nccpp::Subwindow (src/lib/nccpp/{Ncurses,Window,Subwindow}.cpp), in the *)
(* build with assertions.                                                  *)
(*                                                                         *)
(* An object is named by the place in memory where it lives: one of Wins   *)
(* for a Window of the application, one of Subs for an element of some     *)
(* std::vector<Subwindow>, Nc for the singleton.  The fields of a place    *)
(* where no object lives are Null.                                         *)
(*                                                                         *)
(* The assertions on the state of ncurses mode and on the handle are the   *)
(* contract of each call, so they are guards.  A call whose curses         *)
(* function fails throws WindowInit and changes nothing.  Left out are     *)
(* subwindows of subwindows, and moving or destroying the singleton.       *)
(***************************************************************************)
EXTENDS Naturals, Sequences, FiniteSets

CONSTANTS
    Wins,      \* places for Window objects
    Subs,      \* places for Subwindow objects
    Nc,        \* the singleton ncurses()
    Handles,   \* the WINDOW pointers that newwin, dupwin and subwin return
    stdscr,    \* the WINDOW pointer that initscr returns
    Null       \* nullptr

ASSUME PlacesAssumption ==
    /\ Wins \cap Subs = {}
    /\ Nc \notin Wins \cup Subs
    /\ stdscr \notin Handles
    /\ Null \notin Handles \cup {stdscr} \cup Wins \cup {Nc}

Holders == Wins \cup {Nc}
Objects == Holders \cup Subs
Pointers == Handles \cup {stdscr}

VARIABLES
    outcome,     \* "running", "exited" or "aborted"
    alive,       \* the places where an object lives
    win,         \* win_
    save,        \* win_save_
    subwindows,  \* subwindows_, the places of the elements in order
    registered,  \* how often windows_ of the singleton holds an object
    parent,      \* parent_, of a Subwindow
    isExit,      \* is_exit_
    \* curses
    live,        \* the windows that curses has
    within,      \* the window of which a window is a subwindow, or Null
    \* history
    takenOver    \* the objects whose subwindows were moved from another one

objectVars == <<alive, win, save, subwindows, registered, parent, takenOver>>
cursesVars == <<live, within>>
vars == <<outcome, objectVars, isExit, cursesVars>>

\* The first call of ncurses() has made the singleton, which manages stdscr
\* and is not registered.
Init ==
    /\ outcome = "running"
    /\ alive = {Nc}
    /\ win = [x \in Objects |-> IF x = Nc THEN stdscr ELSE Null]
    /\ save = [x \in Objects |-> Null]
    /\ subwindows = [x \in Holders |-> <<>>]
    /\ registered = [x \in Objects |-> 0]
    /\ parent = [s \in Subs |-> Null]
    /\ takenOver = {}
    /\ isExit = FALSE
    /\ live = {stdscr}
    /\ within = [h \in Handles |-> Null]

Elements(o) == {subwindows[o][i] : i \in DOMAIN subwindows[o]}

\* The window an object manages, in ncurses mode or saved.
Managed(x) == IF win[x] # Null THEN win[x] ELSE save[x]

Nulled(f, S) == [x \in DOMAIN f |-> IF x \in S THEN Null ELSE f[x]]

Register(S) == [x \in Objects |-> registered[x] + (IF x \in S THEN 1 ELSE 0)]
Unregister(S) == [x \in Objects |-> registered[x] - (IF x \in S THEN 1 ELSE 0)]

\* delwin leaves the windows `rest'.
Deleted(rest) ==
    /\ live' = rest
    /\ within' = [h \in Handles |-> IF h \in rest THEN within[h] ELSE Null]

\* newwin, dupwin and subwin return a new window, inside w or on its own;
\* `rest' are the other windows that are left.
NewHandle(h, w, rest) ==
    /\ h \in Handles \ live
    /\ live' = rest \cup {h}
    /\ within' = [x \in Handles |-> IF x = h THEN w
                                   ELSE IF x \in rest THEN within[x] ELSE Null]

\* The windows left after Window::destroy of o: first those of the subwindows
\* go, then its own.  delwin refuses a window that still has a subwindow.
LiveAfterDestroy(o) ==
    LET rest == live \ {Managed(s) : s \in Elements(o)}
    IN  IF \E h \in rest \cap Handles : within[h] = Managed(o)
        THEN rest
        ELSE rest \ {Managed(o)}

----------------------------------------------------------------------------
(* Windows of the application                                              *)

Running == outcome = "running"

\* Window(nlines, ncols, begin_y, begin_x), only in ncurses mode, and
\* Window(WINDOW* ), which takes over a window made with newwin itself.
Construct(o) ==
    /\ Running
    /\ o \in Wins \ alive
    /\ \E h \in Handles :
          /\ NewHandle(h, Null, live)
          /\ win' = [win EXCEPT ![o] = h]
    /\ alive' = alive \cup {o}
    /\ registered' = Register({o})
    /\ UNCHANGED <<outcome, save, subwindows, parent, takenOver, isExit>>

\* The copy constructor duplicates the window, not its subwindows.
CopyConstruct(o, cp) ==
    /\ Running
    /\ o \in Wins \ alive
    /\ cp \in Wins \cap alive
    /\ save[cp] = Null
    /\ \/ /\ win[cp] = Null
          /\ UNCHANGED <<win, cursesVars>>
       \/ /\ win[cp] # Null
          /\ \E h \in Handles :
                /\ NewHandle(h, Null, live)
                /\ win' = [win EXCEPT ![o] = h]
    /\ alive' = alive \cup {o}
    /\ registered' = Register({o})
    /\ UNCHANGED <<outcome, save, subwindows, parent, takenOver, isExit>>

\* o has the subwindows of another object; a vector that is empty has none.
TakesOver(o) == takenOver' = {x \in takenOver \cup {o} : subwindows'[x] # <<>>}

\* A faulty variant: the object that is moved from keeps its handle.
MoveConstructShares(o, mv) ==
    /\ Running
    /\ o \in Wins \ alive
    /\ mv \in Wins \cap alive
    /\ win' = [win EXCEPT ![o] = win[mv]]
    /\ save' = [save EXCEPT ![o] = save[mv], ![mv] = Null]
    /\ subwindows' = [subwindows EXCEPT ![o] = subwindows[mv], ![mv] = <<>>]
    /\ TakesOver(o)
    /\ alive' = alive \cup {o}
    /\ registered' = Register({o})
    /\ UNCHANGED <<outcome, parent, isExit, cursesVars>>

\* The move constructor takes the handles and the vector, whose elements stay
\* where they are and go on referring to the object that is moved from.
MoveConstruct(o, mv) ==
    /\ Running
    /\ o \in Wins \ alive
    /\ mv \in Wins \cap alive
    /\ win' = [win EXCEPT ![o] = win[mv], ![mv] = Null]
    /\ save' = [save EXCEPT ![o] = save[mv], ![mv] = Null]
    /\ subwindows' = [subwindows EXCEPT ![o] = subwindows[mv], ![mv] = <<>>]
    /\ TakesOver(o)
    /\ alive' = alive \cup {o}
    /\ registered' = Register({o})
    /\ UNCHANGED <<outcome, parent, isExit, cursesVars>>

\* A faulty variant: the elements stay in windows_.
ClearSubwindowsRegistered(o) ==
    /\ alive' = alive \ Elements(o)
    /\ parent' = Nulled(parent, Elements(o))
    /\ UNCHANGED registered

\* The elements of the vector of o are destroyed: each takes itself out of
\* windows_.
ClearSubwindows(o) ==
    /\ alive' = alive \ Elements(o)
    /\ registered' = Unregister(Elements(o))
    /\ parent' = Nulled(parent, Elements(o))

\* A faulty variant: the two objects exchange what they have.
MoveAssignSwaps(o, mv) ==
    /\ Running
    /\ {o, mv} \subseteq Wins \cap alive
    /\ o # mv
    /\ win' = [win EXCEPT ![o] = win[mv], ![mv] = win[o]]
    /\ save' = [save EXCEPT ![o] = save[mv], ![mv] = save[o]]
    /\ subwindows' = [subwindows EXCEPT ![o] = subwindows[mv], ![mv] = subwindows[o]]
    /\ TakesOver(o)
    /\ UNCHANGED <<outcome, alive, registered, parent, isExit, cursesVars>>

\* The move assignment destroys what o managed and takes over from mv.
MoveAssign(o, mv) ==
    /\ Running
    /\ {o, mv} \subseteq Wins \cap alive
    /\ o # mv
    /\ ClearSubwindows(o)
    /\ win' = [Nulled(win, Elements(o)) EXCEPT ![o] = win[mv], ![mv] = Null]
    /\ save' = [Nulled(save, Elements(o)) EXCEPT ![o] = save[mv], ![mv] = Null]
    /\ subwindows' = [subwindows EXCEPT ![o] = subwindows[mv], ![mv] = <<>>]
    /\ TakesOver(o)
    /\ Deleted(LiveAfterDestroy(o))
    /\ UNCHANGED <<outcome, isExit>>

\* The copy assignment copies to a temporary and moves that to o.
CopyAssign(o, cp) ==
    /\ Running
    /\ {o, cp} \subseteq Wins \cap alive
    /\ o # cp
    /\ save[cp] = Null
    /\ ClearSubwindows(o)
    /\ \/ /\ win[cp] = Null
          /\ win' = Nulled(win, Elements(o) \cup {o})
          /\ Deleted(LiveAfterDestroy(o))
       \/ /\ win[cp] # Null
          /\ \E h \in Handles :
                /\ NewHandle(h, Null, LiveAfterDestroy(o))
                /\ win' = [Nulled(win, Elements(o)) EXCEPT ![o] = h]
    /\ save' = Nulled(save, Elements(o) \cup {o})
    /\ subwindows' = [subwindows EXCEPT ![o] = <<>>]
    /\ takenOver' = takenOver \ {o}
    /\ UNCHANGED <<outcome, isExit>>

\* assign gives o another window, made by the application.
Assign(o) ==
    /\ Running
    /\ o \in Wins \cap alive
    /\ save[o] = Null
    /\ \/ /\ win[o] # Null
          /\ ClearSubwindows(o)
          /\ subwindows' = [subwindows EXCEPT ![o] = <<>>]
          /\ takenOver' = takenOver \ {o}
       \/ /\ win[o] = Null
          /\ UNCHANGED <<alive, registered, subwindows, parent, takenOver>>
    /\ \E h \in Handles :
          /\ NewHandle(h, Null, LiveAfterDestroy(o))
          /\ win' = [Nulled(win, alive \ alive') EXCEPT ![o] = h]
    /\ save' = Nulled(save, alive \ alive')
    /\ UNCHANGED <<outcome, isExit>>

\* destroy called by the application: o lives on without a window.
DestroyWindow(o) ==
    /\ Running
    /\ o \in Wins \cap alive
    /\ Managed(o) # Null
    /\ ClearSubwindows(o)
    /\ win' = Nulled(win, Elements(o) \cup {o})
    /\ save' = Nulled(save, Elements(o) \cup {o})
    /\ subwindows' = [subwindows EXCEPT ![o] = <<>>]
    /\ takenOver' = takenOver \ {o}
    /\ Deleted(LiveAfterDestroy(o))
    /\ UNCHANGED <<outcome, isExit>>

\* ~Window
Destruct(o) ==
    /\ Running
    /\ o \in Wins \cap alive
    /\ LET gone == Elements(o) \cup {o}
       IN  /\ alive' = alive \ gone
           /\ registered' = Unregister(gone)
           /\ win' = Nulled(win, gone)
           /\ save' = Nulled(save, gone)
           /\ parent' = Nulled(parent, gone)
    /\ subwindows' = [subwindows EXCEPT ![o] = <<>>]
    /\ takenOver' = takenOver \ {o}
    /\ Deleted(LiveAfterDestroy(o))
    /\ UNCHANGED <<outcome, isExit>>

----------------------------------------------------------------------------
(* Subwindows                                                              *)

Distinct(places) ==
    \A i, j \in DOMAIN places : places[i] = places[j] => i = j

\* Where the elements of the vector of o may live once it has one more: where
\* they are, with room behind them, or all in new memory.
Placements(o) ==
    LET n == Len(subwindows[o])
    IN  {places \in [1 .. n + 1 -> Subs] :
            /\ Distinct(places)
            /\ places[n + 1] \notin alive
            /\ \/ \A i \in 1 .. n : places[i] = subwindows[o][i]
               \/ \A i \in 1 .. n : places[i] \notin alive}

\* A field of the objects after the elements of the vector of o have moved to
\* `places'; the last one is new and gets `value'.
Moved(f, o, places, value) ==
    [x \in DOMAIN f |->
        IF \E i \in DOMAIN places : places[i] = x
        THEN LET i == CHOOSE j \in DOMAIN places : places[j] = x
             IN  IF i <= Len(subwindows[o]) THEN f[subwindows[o][i]] ELSE value
        ELSE IF x \in Elements(o) THEN Null ELSE f[x]]

\* add_subwindow: subwin, then emplace_back, which may move the elements; each
\* moved element registers itself at its new place.
AddSubwindow(o) ==
    /\ Running
    /\ o \in Holders \cap alive
    /\ win[o] # Null
    /\ \E h \in Handles, places \in Placements(o) :
          LET range == {places[i] : i \in DOMAIN places}
          IN  /\ NewHandle(h, win[o], live)
              /\ alive' = (alive \ Elements(o)) \cup range
              /\ win' = Moved(win, o, places, h)
              /\ save' = Moved(save, o, places, Null)
              /\ registered' = [x \in Objects |->
                     CASE x \in range \ Elements(o) -> registered[x] + 1
                       [] x \in Elements(o) \ range -> registered[x] - 1
                       [] OTHER -> registered[x]]
              /\ subwindows' = [subwindows EXCEPT ![o] = places]
              /\ parent' = Moved(parent, o, places, o)
    /\ UNCHANGED <<outcome, takenOver, isExit>>

\* delete_subwindow destroys the element and puts an empty one in its place.
DeleteSubwindow(o, i) ==
    /\ Running
    /\ o \in Holders \cap alive
    /\ win[o] # Null
    /\ i \in DOMAIN subwindows[o]
    /\ win[subwindows[o][i]] # Null
    /\ Deleted(live \ {win[subwindows[o][i]]})
    /\ win' = [win EXCEPT ![subwindows[o][i]] = Null]
    /\ parent' = [parent EXCEPT ![subwindows[o][i]] = o]
    /\ UNCHANGED <<outcome, alive, save, subwindows, registered, takenOver, isExit>>

----------------------------------------------------------------------------
(* Leaving and resuming ncurses mode                                       *)

\* How often the loop over windows_ and the call for the singleton itself
\* reach x: through x, or through the object whose vector x is in.
Visits(x) ==
    LET holders == {o \in Holders : x \in Elements(o)}
        through(o) == IF o = Nc THEN 1 ELSE registered[o]
    IN  (IF x = Nc THEN 1 ELSE registered[x])
        + (IF holders = {} THEN 0 ELSE through(CHOOSE o \in holders : TRUE))

\* One visit moves a handle from one field to the other and leaves nullptr
\* behind; the next visit moves that nullptr.
VisitedFrom(f) == [x \in Objects |-> IF Visits(x) = 0 THEN f[x] ELSE Null]
VisitedTo(from, to) ==
    [x \in Objects |-> CASE Visits(x) = 0 -> to[x]
                         [] Visits(x) = 1 -> from[x]
                         [] OTHER -> Null]

ExitMode ==
    /\ Running
    /\ ~isExit
    /\ save' = VisitedTo(win, save)
    /\ win' = VisitedFrom(win)
    /\ isExit' = TRUE
    /\ UNCHANGED <<outcome, alive, subwindows, registered, parent, takenOver,
                   cursesVars>>

ResumeMode ==
    /\ Running
    /\ isExit
    /\ win' = VisitedTo(save, win)
    /\ save' = VisitedFrom(save)
    /\ isExit' = FALSE
    /\ UNCHANGED <<outcome, alive, subwindows, registered, parent, takenOver,
                   cursesVars>>

\* The process exits: ~Ncurses resets win_, the vector windows_ is destroyed,
\* and then ~Window destroys the saved handle and the subwindows of the
\* singleton, each of which looks for itself in windows_.
ProcessExit ==
    /\ Running
    /\ alive \cap Wins = {}
    /\ outcome' = IF subwindows[Nc] = <<>> THEN "exited" ELSE "aborted"
    /\ UNCHANGED <<objectVars, isExit, cursesVars>>

Next ==
    \/ \E o \in Wins :
          \/ Construct(o)
          \/ Assign(o)
          \/ DestroyWindow(o)
          \/ Destruct(o)
          \/ \E other \in Wins :
                \/ CopyConstruct(o, other)
                \/ MoveConstruct(o, other)
                \/ MoveAssign(o, other)
                \/ CopyAssign(o, other)
    \/ \E o \in Holders :
          \/ AddSubwindow(o)
          \/ \E i \in DOMAIN subwindows[o] : DeleteSubwindow(o, i)
    \/ ExitMode
    \/ ResumeMode
    \/ ProcessExit

Spec == Init /\ [][Next]_vars

----------------------------------------------------------------------------
(* Properties                                                              *)

\* windows_ holds a pointer to every object but the singleton, once, and none
\* to a place that an object has left: the loops of exit_ncurses_mode and
\* resume_ncurses_mode reach exactly the objects that exist, and the assertion
\* of unregister_window_ (Ncurses.cpp:37) holds.  Windows move, and a vector
\* moves its elements whenever it grows.
RegisteredOnce ==
    \A x \in Objects : registered[x] = IF x \in alive \ {Nc} THEN 1 ELSE 0

\* No two objects manage the same window, every window that an object manages
\* still exists, and in ncurses mode none is left behind in a win_save_, where
\* no function of the window would find it: nothing is deleted twice or used
\* after its deletion, whatever is copied, moved, assigned and destroyed, in or
\* out of ncurses mode.
ManagedOnce ==
    /\ \A x \in Objects : Managed(x) # Null => x \in alive /\ Managed(x) \in live
    /\ \A x, y \in Objects : Managed(x) = Managed(y) /\ x # y => Managed(x) = Null
    /\ ~isExit => \A x \in Objects : save[x] = Null

\* get_parent of a subwindow returns the object that holds it, through every
\* growth of the vector and every deletion, except after the subwindows were
\* moved to another object: their parent_ stays behind.
ParentIsHolder ==
    \A o \in Holders \ takenOver : \A s \in Elements(o) : parent[s] = o

\* Every window that curses has is managed by an object.  get_subwindow
\* (Window.cpp:205) asserts that a subwindow that was added is valid.
\* Violated: see the run NcWindows_lost.
NoHandleLost == \A h \in live : \E x \in alive : Managed(x) = h
=============================================================================
