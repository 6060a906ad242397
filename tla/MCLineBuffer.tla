---------------------------- MODULE MCLineBuffer ----------------------------
(***************************************************************************)
(* Small instances of LineBuffer: every chunk of one to three characters   *)
(* over CR, LF and one other character.  `S' only brings in the searches;  *)
(* the configurations choose one as the constant Search.                   *)
(***************************************************************************)
EXTENDS LineBuffer

S == INSTANCE EolSearch

SmallChars == {"CR", "LF", "x"}

SmallChunks == UNION {[1 .. n -> SmallChars] : n \in 1 .. 3}

NoPosition == S!npos

Default(c, i) == S!DefaultEolSearch(c, i)
============================================================================
