--------------------------- MODULE Display_proofs ---------------------------
(***************************************************************************)
(* Theorems about Display, for any number of threads.                      *)
(***************************************************************************)
EXTENDS Display, TLAPS

(***************************************************************************)
(* The lock is held from the entry of the function to the unlocking;       *)
(* somebody's shared_ptr is there as long as the display is; a caller that *)
(* waits has one, and so has one inside whose function has not dropped it. *)
(***************************************************************************)
Locked == {t \in Threads : pc[t] \in {"inside", "unlocking", "stuck"}}

IInv ==
    /\ TypeOK
    /\ \A t \in Threads : t \in Locked <=> lock = t
    /\ life = "dead" => owners = {} /\ Temporaries = {}
    /\ \A t \in Threads : pc[t] = "waiting" => t \in owners
    /\ \A t \in Locked : t \in owners \cup gaveUp

LEMMA InitIsGood == Init => IInv
<1> USE ThreadsAssumption
<1> QED
  BY DEF Init, IInv, TypeOK, Locked, Temporaries, Places

LEMMA Step == IInv /\ [Next]_vars => IInv'
<1> SUFFICES ASSUME IInv, [Next]_vars PROVE IInv'
  OBVIOUS
<1> USE ThreadsAssumption DEF IInv, TypeOK, Locked, Temporaries, Places, At
<1>1. ASSUME NEW t \in Threads, NEW u \in Threads, Share(t, u) PROVE IInv'
  BY <1>1 DEF Share
<1>2. ASSUME NEW t \in Threads, Drop(t) PROVE IInv'
  BY <1>2 DEF Drop, Referenced
<1>3. ASSUME NEW t \in Threads, Call(t) PROVE IInv'
  BY <1>3 DEF Call, Goto
<1>4. ASSUME NEW t \in Threads, DropInside(t) PROVE IInv'
  BY <1>4 DEF DropInside, Referenced
<1>5. ASSUME NEW t \in Threads, CallNested(t) PROVE IInv'
  BY <1>5 DEF CallNested, Goto
<1>6. ASSUME NEW t \in Threads, Enter(t) PROVE IInv'
  BY <1>6 DEF Enter, Goto
<1>7. ASSUME NEW t \in Threads, Leave(t) PROVE IInv'
  BY <1>7 DEF Leave, Goto, Referenced
<1>8. ASSUME NEW t \in Threads, Unlock(t) PROVE IInv'
  BY <1>8 DEF Unlock, Goto
<1>9. CASE UNCHANGED vars
  BY <1>9 DEF vars
<1> QED
  BY <1>1, <1>2, <1>3, <1>4, <1>5, <1>6, <1>7, <1>8, <1>9 DEF Next, Sync

(***************************************************************************)
(* However many threads share a display and whatever their functions do    *)
(* with their shared_ptrs, at most one draws at a time.                    *)
(***************************************************************************)
THEOREM DrawsAlone == Spec => [](TypeOK /\ OneDrawer)
<1>1. IInv => TypeOK /\ OneDrawer
  BY DEF IInv, OneDrawer, Locked, Temporaries
<1>2. IInv /\ [Next]_vars => IInv'
  BY Step
<1> QED
  BY <1>1, <1>2, InitIsGood, PTL DEF Spec

(***************************************************************************)
(* No thread draws, or waits to draw, on a display that has left curses    *)
(* mode.                                                                   *)
(***************************************************************************)
THEOREM StaysAlive == Spec => []AliveInCall
<1>1. IInv => AliveInCall
  BY DEF IInv, TypeOK, AliveInCall, Temporaries
<1>2. IInv /\ [Next]_vars => IInv'
  BY Step
<1> QED
  BY <1>1, <1>2, InitIsGood, PTL DEF Spec

(***************************************************************************)
(* Only the function of a call can make the call unlock a destroyed mutex, *)
(* by dropping the last shared_ptr from inside.                            *)
(***************************************************************************)
THEOREM DestructionIsOwn == Spec => []DestroyedUnlocked
<1>1. IInv => DestroyedUnlocked
  BY ThreadsAssumption DEF IInv, TypeOK, DestroyedUnlocked, Locked
<1>2. IInv /\ [Next]_vars => IInv'
  BY Step
<1> QED
  BY <1>1, <1>2, InitIsGood, PTL DEF Spec
=============================================================================
