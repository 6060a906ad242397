------------------------------ MODULE Display ------------------------------
(***************************************************************************)
(* rmrf::ui::display (src/ui/display.hpp): the owner of the terminal.      *)
(* Threads share it by std::shared_ptr and draw in functions that they     *)
(* hand to display::sync, which runs them under a lock.                    *)
(*                                                                         *)
(* A thread is outside of sync ("out"), blocked in the constructor of the  *)
(* lock_guard ("waiting"), in the function it handed over ("inside"),      *)
(* about to destroy the lock_guard ("unlocking"), or blocked by a nested   *)
(* call ("stuck").  A function that throws leaves sync like one that       *)
(* returns.                                                                *)
(***************************************************************************)
CONSTANTS
    Threads,  \* the threads
    Main,     \* the thread that makes the display
    None      \* no thread

ASSUME ThreadsAssumption == Main \in Threads /\ None \notin Threads

VARIABLES
    pc,       \* see above
    lock,     \* the mutex m: the thread that holds it, or None
    owners,   \* the threads that have a shared_ptr of their own
    life,     \* "alive" from initscr to endwin, then "dead"
    outcome,  \* "running", or "aborted" by the sanitizer of the build
    \* history
    gaveUp    \* the threads whose function has dropped its caller's shared_ptr

vars == <<pc, lock, owners, life, outcome, gaveUp>>

Places == {"out", "waiting", "inside", "unlocking", "stuck"}

TypeOK ==
    /\ pc \in [Threads -> Places]
    /\ lock \in Threads \cup {None}
    /\ owners \subseteq Threads
    /\ life \in {"alive", "dead"}
    /\ outcome \in {"running", "aborted"}
    /\ gaveUp \subseteq Threads

\* main has called make_shared, whose constructor calls initscr.
Init ==
    /\ pc = [t \in Threads |-> "out"]
    /\ lock = None
    /\ owners = {Main}
    /\ life = "alive"
    /\ outcome = "running"
    /\ gaveUp = {}

At(t, place) == outcome = "running" /\ pc[t] = place

Goto(t, place) == pc' = [pc EXCEPT ![t] = place]

\* The threads inside of sync, which hold the shared_ptr that sync has made.
Temporaries == {t \in Threads : pc[t] \in {"inside", "stuck"}}

\* shared_ptrs are left as given; without any the destructor runs: endwin.
Referenced(own, temporaries) ==
    /\ owners' = own
    /\ life' = IF own \cup temporaries = {} THEN "dead" ELSE life

\* A thread, or the function that was given one, copies a shared_ptr for a
\* thread: for another one, or for its own caller to keep.
Share(t, u) ==
    /\ (At(t, "out") /\ t \in owners) \/ At(t, "inside")
    /\ owners' = owners \cup {u}
    /\ gaveUp' = gaveUp \ {u}
    /\ UNCHANGED <<pc, lock, life, outcome>>

\* A thread drops its shared_ptr, as main does when it returns.
Drop(t) ==
    /\ At(t, "out")
    /\ t \in owners
    /\ Referenced(owners \ {t}, Temporaries)
    /\ UNCHANGED <<pc, lock, outcome, gaveUp>>

\* The thread calls sync through its shared_ptr.
Call(t) ==
    /\ At(t, "out")
    /\ t \in owners
    /\ Goto(t, "waiting")
    /\ UNCHANGED <<lock, owners, life, outcome, gaveUp>>

\* Faulty variants: a shared lock, as the type of the mutex suggests / the
\* caller's shared_ptr is moved into the call.
EnterShared(t) ==
    /\ At(t, "waiting")
    /\ lock' = t
    /\ Goto(t, "inside")
    /\ gaveUp' = gaveUp \ {t}
    /\ UNCHANGED <<owners, life, outcome>>
EnterMoving(t) ==
    /\ At(t, "waiting")
    /\ lock = None
    /\ lock' = t
    /\ Goto(t, "inside")
    /\ owners' = owners \ {t}
    /\ gaveUp' = gaveUp \ {t}
    /\ UNCHANGED <<life, outcome>>

\* The mutex is locked, shared_from_this makes a shared_ptr for the function,
\* and the function starts.
Enter(t) ==
    /\ At(t, "waiting")
    /\ lock = None
    /\ lock' = t
    /\ Goto(t, "inside")
    /\ gaveUp' = gaveUp \ {t}
    /\ UNCHANGED <<owners, life, outcome>>

\* A faulty variant: sync passes a raw pointer to the function.
DropInsideLast(t) ==
    /\ At(t, "inside")
    /\ t \in owners
    /\ Referenced(owners \ {t}, {})
    /\ gaveUp' = gaveUp \cup {t}
    /\ UNCHANGED <<pc, lock, outcome>>

\* The function drops the shared_ptr through which sync was called.
DropInside(t) ==
    /\ At(t, "inside")
    /\ t \in owners
    /\ Referenced(owners \ {t}, Temporaries)
    /\ gaveUp' = gaveUp \cup {t}
    /\ UNCHANGED <<pc, lock, outcome>>

\* The function calls sync or clear.  Locking a mutex twice is undefined: it
\* may block for ever.  If it is refused instead, std::system_error is thrown
\* in the function, which changes nothing here.
CallNested(t) ==
    /\ At(t, "inside")
    /\ Goto(t, "stuck")
    /\ UNCHANGED <<lock, owners, life, outcome, gaveUp>>

\* The function returns or throws, and the shared_ptr made for it, which is no
\* local variable of sync, is destroyed before the lock_guard.
Leave(t) ==
    /\ At(t, "inside")
    /\ Goto(t, "unlocking")
    /\ Referenced(owners, Temporaries \ {t})
    /\ UNCHANGED <<lock, outcome, gaveUp>>

\* A faulty variant: the mutex stays locked when the function throws.
UnlockUnlessThrown(t) ==
    /\ At(t, "unlocking")
    /\ lock' \in {lock, None}
    /\ Goto(t, "out")
    /\ UNCHANGED <<owners, life, outcome, gaveUp>>

\* The lock_guard unlocks the mutex, a member of the display.
Unlock(t) ==
    /\ At(t, "unlocking")
    /\ \/ /\ life = "alive"
          /\ lock' = None
          /\ Goto(t, "out")
          /\ UNCHANGED outcome
       \/ /\ life = "dead"
          /\ outcome' = "aborted"
          /\ UNCHANGED <<pc, lock>>
    /\ UNCHANGED <<owners, life, gaveUp>>

Sync(t) == Enter(t) \/ Leave(t) \/ Unlock(t)

Next ==
    \E t \in Threads :
        \/ \E u \in Threads : Share(t, u)
        \/ Drop(t)
        \/ Call(t)
        \/ DropInside(t)
        \/ CallNested(t)
        \/ Sync(t)

Spec == Init /\ [][Next]_vars

\* Threads are scheduled, and functions return.  The mutex prefers nobody.
FairSpec == Spec /\ \A t \in Threads : WF_vars(Sync(t))

----------------------------------------------------------------------------
(* Properties                                                              *)

\* Two threads never draw at the same time: whoever is inside of sync holds the
\* mutex, also while a function drops, copies or passes on shared_ptrs.
OneDrawer ==
    /\ \A t, u \in Threads :
          pc[t] \in {"inside", "stuck"} /\ pc[u] \in {"inside", "stuck"} => t = u
    /\ \A t \in Temporaries : lock = t

\* The terminal stays in curses mode while a function draws and while a thread
\* waits to draw, even if the function drops the last shared_ptr there was.
AliveInCall ==
    \A t \in Threads : pc[t] \in {"waiting", "inside", "stuck"} => life = "alive"

\* The display, and the mutex in it, is destroyed under a lock only by a call
\* whose own function has dropped the shared_ptr of its caller: other threads
\* may drop theirs at any time.
DestroyedUnlocked ==
    life = "dead" /\ lock # None => lock \in gaveUp

\* As long as threads call sync calls come to an end, unless a nested call
\* blocks: the mutex is free again after every call, thrown out of or not.
CallsComplete ==
    (\E t \in Threads : pc[t] = "waiting")
        ~> (\E t \in Threads : pc[t] \in {"unlocking", "stuck"})
=============================================================================
