---------------------------- MODULE MCLineClient ----------------------------
(***************************************************************************)
(* Small instances of LineClient: a text of four characters over CR, LF    *)
(* and one other, cut by recv into chunks of up to two.                    *)
(***************************************************************************)
EXTENDS LineClient

S == INSTANCE EolSearch

SmallChars == {"CR", "LF", "x"}

SmallChunks == UNION {[1 .. n -> SmallChars] : n \in 1 .. RecvBuf}

NoPosition == S!npos

PastEnd(c, i) == S!PastEolSearch(c, i)
=============================================================================
