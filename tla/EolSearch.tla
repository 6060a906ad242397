----------------------------- MODULE EolSearch -----------------------------
(***************************************************************************)
(* Searches for the end of a line, the eol_search_t that a                 *)
(* connection_line_buffer is given (src/net/connection_line_buffer.cpp).   *)
(* Characters are "CR", "LF" and any other; indices are 0-based.           *)
(***************************************************************************)
EXTENDS Integers, Sequences, FiniteSetsExt

\* std::string::npos, which is size_type(-1).
npos == -1

EolChars == {"CR", "LF"}

\* The character at index i.
CharAt(data, i) == data[i + 1]

\* Faulty variant: the LF of a CR LF pair is left for the next search.
DefaultEolSearchNoPair(data, start) ==
    LET found == {i \in start .. Len(data) - 1 : CharAt(data, i) \in EolChars}
    IN  IF found = {} THEN npos ELSE Min(found)

\* default_eol_search: the index OF the last character of the line end.
DefaultEolSearch(data, start) ==
    LET found == {i \in start .. Len(data) - 1 : CharAt(data, i) \in EolChars}
        first == Min(found)
        pair  == /\ CharAt(data, first) = "CR"
                 /\ first < Len(data) - 1
                 /\ CharAt(data, first + 1) = "LF"
    IN  IF found = {} THEN npos ELSE IF pair THEN first + 1 ELSE first

\* What a caller of the four-argument constructor has to pass instead: the
\* loop of conn_data_in_cb goes on AT the index it gets, so the search has to
\* return the index PAST the line end.
PastEolSearch(data, start) ==
    LET last == DefaultEolSearch(data, start)
    IN  IF last = npos THEN npos ELSE last + 1
============================================================================
