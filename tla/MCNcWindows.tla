---------------------------- MODULE MCNcWindows ----------------------------
(***************************************************************************)
(* Small instances of NcWindows: two windows, three places for subwindows  *)
(* and three handles.                                                      *)
(***************************************************************************)
EXTENDS NcWindows, TLC

Symmetry == Permutations(Wins) \cup Permutations(Subs) \cup Permutations(Handles)
=============================================================================
