----------------------------- MODULE MCNcColors -----------------------------
(***************************************************************************)
(* Small instances of NcColors: two windows, so that one can be copied and *)
(* moved to the other, three places for subwindows, so that a vector with  *)
(* one element can grow in new memory, three handles, so that both windows *)
(* and a subwindow have one, and two colours.                              *)
(***************************************************************************)
EXTENDS NcColors, TLC

Symmetry ==
    Permutations(Wins) \cup Permutations(Subs) \cup Permutations(Handles)
    \cup Permutations(Colors)
=============================================================================
