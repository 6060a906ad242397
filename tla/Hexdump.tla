------------------------------- MODULE Hexdump -------------------------------
(***************************************************************************)
(* rmrf::utils::hexdump_to_stream of src/utils/hexdump.cpp: the two loops  *)
(* that lay out a dump, one cell in each pass.                             *)
(*                                                                         *)
(* Of the characters of a line only the place matters: those of the cell   *)
(* of a byte are the index of the byte in its line, and all others Blank.  *)
(* Of a label there are the number and the digits that it takes.           *)
(***************************************************************************)
EXTENDS Integers, Sequences, FiniteSets

CONSTANTS
    Word,         \* 2^64, the values of a size_t
    WordDigits,   \* 16, the hexadecimal digits of a size_t
    LabelDigits,  \* 8, the digits that a label has at least
    Offsets,      \* the offsets that get_data is asked for
    Dumps         \* the calls, each a record of arguments

Kinds == {"byte", "unknown", "non_existent"}

\* A dump without bytes in a line never ends, and one without bytes in a group
\* divides by zero.
ASSUME DumpsAssumption ==
    /\ Word \in Nat
    /\ \A d \in Dumps :
          /\ d.bytes_per_line \in Nat \ {0} /\ d.bytes_per_group \in Nat \ {0}
          /\ d.space_per_byte \in Nat /\ d.space_per_group \in Nat
          /\ d.offset_start \in Int /\ d.offset_end \in Int /\ d.voffset_at_zero \in Int
          /\ d.display_textual \in BOOLEAN
          /\ d.get_data \in [Offsets -> Kinds]

\* A line is laid out in a std::string, whose length is a size_t.
ASSUME LengthAssumption ==
    \A d \in Dumps :
        2 * d.bytes_per_line + (d.bytes_per_line - 1) * d.space_per_byte
            + ((d.bytes_per_line - 1) \div d.bytes_per_group) * d.space_per_group < Word

ASSUME LabelAssumption == WordDigits \in Nat /\ LabelDigits \in Nat

\* Offsets are signed (off_t), those of the bytes and those shown, and the loop
\* does not leave their range behind the last line.
ASSUME OffsetsAssumption ==
    \A d \in Dumps :
        /\ d.offset_start .. d.offset_end + d.bytes_per_line - 1 \subseteq Offsets
        /\ \A v \in {0, d.voffset_at_zero} :
              {v + d.offset_start, v + d.offset_end + d.bytes_per_line}
                  \subseteq -(Word \div 2) .. Word \div 2 - 1

VARIABLES
    dump,         \* the arguments
    pc,           \* "line", "cell" or "done"
    offset,       \* the first offset of the line
    offset_line,  \* the same, as it is shown
    idx,          \* the next byte of the line
    hex,          \* display_hex_data
    text,         \* display_textual_data
    last,         \* display_textual_last
    out           \* the lines written

lineVars == <<idx, hex, text, last>>
vars == <<dump, pc, offset, offset_line, lineVars, out>>

Blank == -1
Blanks(n) == [i \in 1 .. n |-> Blank]

\* The hexadecimal digits of a number.
Digits(n) == IF n = 0 THEN 1 ELSE Cardinality({w \in 0 .. WordDigits - 1 : n >= 16 ^ w})

\* Those of a label: setw(8) fills up with zeros and cuts nothing off.
Fits(n) == n < 16 ^ LabelDigits
LabelWidth(n) == IF Fits(n) THEN LabelDigits ELSE Digits(n)

\* A line of the dump; the label is shown as a size_t.
Line(number, cells, characters) ==
    [label |-> number % Word, width |-> LabelWidth(number % Word),
     hex |-> cells, text |-> characters]

\* The first n characters, or as many as there are (std::string::substr).
Prefix(s, n) == IF n < Len(s) THEN SubSeq(s, 1, n) ELSE s

\* The get_data of a buffer.
make_getdata_t(buflen) ==
    [o \in Offsets |-> IF o < 0 \/ o >= buflen THEN "non_existent" ELSE "byte"]

Init ==
    /\ dump \in Dumps
    /\ pc = "line"
    /\ offset = dump.offset_start
    /\ offset_line = dump.voffset_at_zero + dump.offset_start
    /\ idx = 0
    /\ hex = <<>>
    /\ text = <<>>
    /\ last = 0
    /\ out = <<>>

BeginLine ==
    /\ pc = "line"
    /\ offset <= dump.offset_end
    /\ pc' = "cell"
    /\ idx' = 0
    /\ hex' = <<>>
    /\ text' = Blanks(dump.bytes_per_line)
    /\ last' = 0
    /\ UNCHANGED <<dump, offset, offset_line, out>>

Exists == dump.get_data[offset + idx] # "non_existent"

\* The space before a cell: that of a group, and that of a byte.
Gap ==
    (IF idx > 0 /\ idx % dump.bytes_per_group = 0 THEN dump.space_per_group ELSE 0)
    + (IF idx > 0 THEN dump.space_per_byte ELSE 0)

\* A faulty variant: no space before a byte that does not exist.
CellUnspaced ==
    /\ pc = "cell"
    /\ idx < dump.bytes_per_line
    /\ idx' = idx + 1
    /\ IF Exists
       THEN /\ hex' = hex \o Blanks(Gap) \o <<idx, idx>>
            /\ text' = [text EXCEPT ![idx + 1] = idx]
            /\ last' = idx + 1
       ELSE /\ hex' = hex \o Blanks(2)
            /\ UNCHANGED <<text, last>>
    /\ UNCHANGED <<dump, pc, offset, offset_line, out>>

\* A byte, or ??, takes two characters and one of the text; where nothing
\* exists they stay blank.
Cell ==
    /\ pc = "cell"
    /\ idx < dump.bytes_per_line
    /\ idx' = idx + 1
    /\ IF Exists
       THEN /\ hex' = hex \o Blanks(Gap) \o <<idx, idx>>
            /\ text' = [text EXCEPT ![idx + 1] = idx]
            /\ last' = idx + 1
       ELSE /\ hex' = hex \o Blanks(Gap) \o Blanks(2)
            /\ UNCHANGED <<text, last>>
    /\ UNCHANGED <<dump, pc, offset, offset_line, out>>

\* A faulty variant: a group that begins behind the last cell is counted.
CutLengthGroups ==
    (2 * last + (last - 1) * dump.space_per_byte
        + (last \div dump.bytes_per_group) * dump.space_per_group) % Word

\* Where the cells end, in unsigned arithmetic: without any cell, last - 1 is
\* the largest number, and the max with 0 changes nothing.
CutLength ==
    LET before == (last - 1) % Word
    IN  (2 * last + before * dump.space_per_byte
            + (before \div dump.bytes_per_group) * dump.space_per_group) % Word

\* A faulty variant: the shown offset stays that of the first line.
EndLineSameLabel ==
    /\ pc = "cell"
    /\ idx = dump.bytes_per_line
    /\ out' = Append(out,
                     IF dump.display_textual
                     THEN Line(offset_line, hex, Prefix(text, last))
                     ELSE Line(offset_line, Prefix(hex, CutLength), <<>>))
    /\ offset' = offset + dump.bytes_per_line
    /\ pc' = "line"
    /\ UNCHANGED <<dump, offset_line, lineVars>>

\* The line is written: whole before a text, else up to its last cell.
EndLine ==
    /\ pc = "cell"
    /\ idx = dump.bytes_per_line
    /\ out' = Append(out,
                     IF dump.display_textual
                     THEN Line(offset_line, hex, Prefix(text, last))
                     ELSE Line(offset_line, Prefix(hex, CutLength), <<>>))
    /\ offset' = offset + dump.bytes_per_line
    /\ offset_line' = offset_line + dump.bytes_per_line
    /\ pc' = "line"
    /\ UNCHANGED <<dump, lineVars>>

EndDump ==
    /\ pc = "line"
    /\ offset > dump.offset_end
    /\ pc' = "done"
    /\ UNCHANGED <<dump, offset, offset_line, lineVars, out>>

\* The function has returned.
Returned ==
    /\ pc = "done"
    /\ UNCHANGED vars

Next == BeginLine \/ Cell \/ EndLine \/ EndDump \/ Returned

Spec == Init /\ [][Next]_vars

----------------------------------------------------------------------------
(* Properties.                                                             *)

\* The places of the cell of byte i in a line, and the bytes a line shows.
Places(line, i) == {p \in DOMAIN line.hex : line.hex[p] = i}
Shown(line) == {i \in 0 .. dump.bytes_per_line - 1 : Places(line, i) # {}}

\* The columns of a cell in a line: the label and " : " are in front of it.
Columns(line, i) == {line.width + 3 + p : p \in Places(line, i)}

\* The first offset behind the last line, and the place at which a reader looks
\* for an offset in a line, adding up from its label.
Behind == dump.offset_start + Len(out) * dump.bytes_per_line
PlaceOf(o, line) == (o + dump.voffset_at_zero - line.label) % Word

(***************************************************************************)
(* A dump that has ended covers its range with whole lines: it shows each  *)
(* byte that exists from offset_start to the end of the line of            *)
(* offset_end, those of this line behind offset_end too, and no other.     *)
(* Each is shown once, under the offset that a reader adds up from the     *)
(* label of the line and the place in it: partial lines at both ends,      *)
(* holes and negative offsets included.                                    *)
(***************************************************************************)
EveryByteShown ==
    pc = "done" =>
        /\ Behind > dump.offset_end
        /\ out # <<>> => Behind - dump.bytes_per_line <= dump.offset_end
        /\ \A o \in dump.offset_start .. Behind - 1 :
              Cardinality({k \in DOMAIN out : PlaceOf(o, out[k]) \in Shown(out[k])})
                  = IF dump.get_data[o] = "non_existent" THEN 0 ELSE 1
        /\ \A k \in DOMAIN out : \A i \in Shown(out[k]) :
              \E o \in dump.offset_start .. Behind - 1 : PlaceOf(o, out[k]) = i

(***************************************************************************)
(* The same byte of every line is in the same columns, and the text behind *)
(* the bytes starts in the same column, whatever a line has no bytes for,  *)
(* as long as the labels fit their eight digits.  A label that does not,   *)
(* one from 2^32 on or that of a negative offset, moves all that is behind *)
(* it by the digits that it has more.                                      *)
(***************************************************************************)
ColumnsAlign ==
    \A k, l \in DOMAIN out :
        LET wider == out[k].width - out[l].width
        IN  /\ \A i \in Shown(out[k]) \cap Shown(out[l]) :
                  Columns(out[k], i) = {c + wider : c \in Columns(out[l], i)}
            /\ dump.display_textual
                  => out[k].width + Len(out[k].hex) = out[l].width + Len(out[l].hex) + wider
            /\ Fits(out[k].label) /\ Fits(out[l].label) => wider = 0

(***************************************************************************)
(* The length that is computed for a line is that of what the loop laid    *)
(* out: the line ends with its last byte, and no cell is cut in two.       *)
(***************************************************************************)
CutAtLast ==
    \A k \in DOMAIN out :
        /\ \A i \in Shown(out[k]) : Cardinality(Places(out[k], i)) = 2
        /\ Shown(out[k]) # {} /\ ~dump.display_textual
               => out[k].hex[Len(out[k].hex)] # Blank
        /\ out[k].text # <<>> => out[k].text[Len(out[k].text)] # Blank
=============================================================================
