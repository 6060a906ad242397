----------------------------- MODULE MCHexdump -----------------------------
(***************************************************************************)
(* Small instances of Hexdump: up to four bytes in a line and three lines, *)
(* with every set of bytes that do not exist, and every buffer.  Labels    *)
(* have two digits at least, and there are shorter numbers and longer      *)
(* ones: from 256 on, and that of offset -1.                               *)
(***************************************************************************)
EXTENDS Hexdump

AllOffsets == -1 .. 7
Holes(S, T) ==
    [o \in Offsets |->
        IF o \in S THEN "byte" ELSE IF o \in T THEN "unknown" ELSE "non_existent"]

AllDumps ==
    [bytes_per_line : 1 .. 4,
     bytes_per_group : 1 .. 3,
     space_per_byte : 0 .. 1,
     space_per_group : {0, 2},
     offset_start : {-1, 0},
     offset_end : {-2, 2, 4},
     voffset_at_zero : {0, 14, 252},
     display_textual : BOOLEAN,
     get_data : {Holes(S, {4}) : S \in SUBSET {0, 1, 2, 3}}
                    \cup {make_getdata_t(n) : n \in 0 .. 6}]
=============================================================================
