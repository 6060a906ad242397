----------------------------- MODULE MCDisplay -----------------------------
(***************************************************************************)
(* Small instances of Display: main and two threads it shares its display  *)
(* with.                                                                   *)
(***************************************************************************)
EXTENDS Display
=============================================================================
