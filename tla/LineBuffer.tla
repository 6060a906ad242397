----------------------------- MODULE LineBuffer -----------------------------
(***************************************************************************)
(* rmrf::net::connection_line_buffer (src/net/connection_line_buffer.cpp): *)
(* it cuts the data a connection receives, chunk by chunk, into lines and  *)
(* hands them to the application.                                          *)
(*                                                                         *)
(* conn_data_in_cb calls the application once per line, so it is split     *)
(* into the passes of its loop.  The characters decide where a line ends;  *)
(* what the application gets is identified by the positions of the         *)
(* characters in the stream of everything received.                        *)
(***************************************************************************)
EXTENDS Integers, Sequences

CONSTANTS
    Chars,         \* the characters
    Chunks,        \* the chunks that may arrive, sequences of characters
    Search(_, _),  \* the eol_search_t: chunk, start index |-> index or NPos
    NPos,          \* std::string::npos
    Max,           \* max_line_size
    MaxReceived,   \* bound: characters received in a behaviour
    MaxLines       \* bound: complete lines reported in a behaviour

\* A search looks at what is left of the chunk and returns an index in it, or
\* the index past its end.  substr throws for anything beyond.
ASSUME SearchAssumption ==
    /\ Max \in Nat
    /\ MaxReceived \in Nat
    /\ NPos \notin Nat
    /\ \A c \in Chunks : c \in Seq(Chars)
    /\ \A c \in Chunks : \A i \in 0 .. Len(c) :
          Search(c, i) \in (i .. Len(c)) \cup {NPos}

VARIABLES
    pc,         \* "scan" inside the loop of conn_data_in_cb, else "idle"
    chunk,      \* data_in
    strpos,     \* the local variable: where the next line starts in data_in
    data,       \* the unfinished line of earlier chunks
    \* history
    received,   \* every character received
    cuts,       \* the positions at which a chunk ended
    delivered,  \* what found_next_line_cb was given, in order
    ends        \* for each complete line, the position of its last character

vars == <<pc, chunk, strpos, data, received, cuts, delivered, ends>>

\* The positions after `from' up to `to'.
Positions(from, to) == [k \in 1 .. to - from |-> from + k]

\* The position before the first character of the current chunk.
Base == Len(received) - Len(chunk)

TypeOK ==
    /\ pc \in {"idle", "scan"}
    /\ chunk \in Chunks \cup {<<>>}
    /\ strpos \in 0 .. Len(chunk)
    /\ data \in Seq(Nat)
    /\ received \in Seq(Chars)
    /\ Len(received) <= MaxReceived
    /\ cuts \subseteq Nat
    /\ delivered \in Seq(Nat)
    /\ ends \in Seq(Nat)

Init ==
    /\ pc = "idle"
    /\ chunk = <<>>
    /\ strpos = 0
    /\ data = <<>>
    /\ received = <<>>
    /\ cuts = {}
    /\ delivered = <<>>
    /\ ends = <<>>

\* The connection calls conn_data_in_cb with the next chunk.
Receive(c) ==
    /\ pc = "idle"
    /\ Len(received) + Len(c) <= MaxReceived
    /\ pc' = "scan"
    /\ chunk' = c
    /\ strpos' = 0
    /\ received' = received \o c
    /\ cuts' = cuts \cup {Len(received) + Len(c)}
    /\ UNCHANGED <<data, delivered, ends>>

\* A pass that finds a line end: the unfinished line and the chunk up to the
\* line end are a complete line.
LineFound ==
    /\ pc = "scan"
    /\ Len(ends) < MaxLines
    /\ LET nextpos == Search(chunk, strpos)
           line == data \o Positions(Base + strpos, Base + nextpos)
       IN  /\ nextpos # NPos
           /\ delivered' = delivered \o line
           /\ ends' = Append(ends, Len(delivered) + Len(line))
           /\ strpos' = nextpos
    /\ data' = <<>>
    /\ UNCHANGED <<pc, chunk, received, cuts>>

\* What conn_data_in_cb ends with: the unfinished line and the rest of the
\* chunk.
Rest == data \o Positions(Base + strpos, Base + Len(chunk))

NothingFound == pc = "scan" /\ Search(chunk, strpos) = NPos

\* Faulty variant: the rest replaces the unfinished line.
KeepRestOnly ==
    /\ NothingFound
    /\ Len(Rest) <= Max
    /\ data' = Positions(Base + strpos, Base + Len(chunk))
    /\ strpos' = Len(chunk)
    /\ pc' = "idle"
    /\ UNCHANGED <<chunk, received, cuts, delivered, ends>>

\* Faulty variant: the length is compared before the rest is added.
KeepRestUnchecked ==
    /\ NothingFound
    /\ Len(data) <= Max
    /\ data' = Rest
    /\ strpos' = Len(chunk)
    /\ pc' = "idle"
    /\ UNCHANGED <<chunk, received, cuts, delivered, ends>>

\* The last pass: the rest is the beginning of the next line.
KeepRest ==
    /\ NothingFound
    /\ Len(Rest) <= Max
    /\ data' = Rest
    /\ strpos' = Len(chunk)
    /\ pc' = "idle"
    /\ UNCHANGED <<chunk, received, cuts, delivered, ends>>

\* The last pass: the line is too long and handed over incomplete.
FlushRest ==
    /\ NothingFound
    /\ Len(Rest) > Max
    /\ delivered' = delivered \o Rest
    /\ data' = <<>>
    /\ strpos' = Len(chunk)
    /\ pc' = "idle"
    /\ UNCHANGED <<chunk, received, cuts, ends>>

ConnDataInCb == LineFound \/ KeepRest \/ FlushRest

Next ==
    \/ \E c \in Chunks : Receive(c)
    \/ ConnDataInCb

Spec == Init /\ [][Next]_vars

----------------------------------------------------------------------------
(* Properties.                                                             *)

(***************************************************************************)
(* Nothing is lost, duplicated or reordered between recv and the lines the *)
(* application sees: what was delivered, then the unfinished line, then    *)
(* what the loop has still to look at, is everything received.  It is      *)
(* about the carry-over of `data' from one chunk to the next, through line *)
(* ends and overlong lines.                                                *)
(***************************************************************************)
Conserved ==
    /\ \A i \in 1 .. Len(delivered) : delivered[i] = i
    /\ \A i \in 1 .. Len(data) : data[i] = Len(delivered) + i
    /\ Len(delivered) + Len(data) = Base + strpos

(***************************************************************************)
(* Between two chunks the buffer holds no more than max characters of an   *)
(* unfinished line, however long the line is and however it arrives.       *)
(***************************************************************************)
ResidueBounded == pc = "idle" => Len(data) <= Max

\* Where lines end in what was received: at an LF and at a CR, but at a CR
\* that an LF follows only if a chunk ended between the two: the limitation
\* that the comment in conn_data_in_cb names.
LineEnds ==
    {i \in 1 .. Len(received) :
        \/ received[i] = "LF"
        \/ /\ received[i] = "CR"
           /\ \/ i \in cuts
              \/ received[i + 1] # "LF"}

(***************************************************************************)
(* Complete lines end exactly where the received text has line ends, each  *)
(* once and in order, however the text was cut into chunks and however     *)
(* often an overlong line was flushed before its end.                      *)
(***************************************************************************)
CompleteAtLineEnds ==
    /\ \A i, j \in 1 .. Len(ends) : i < j => ends[i] < ends[j]
    /\ {ends[i] : i \in 1 .. Len(ends)} =
          {i \in LineEnds : i <= Base + strpos}

(***************************************************************************)
(* The comment in conn_data_in_cb: "the received message might indeed be a *)
(* complete one ending with '\r'" - that is, one line end completes one    *)
(* message.                                                                *)
(***************************************************************************)
OneLinePerLineEnd ==
    \A i, j \in 1 .. Len(ends) : i # j => ends[i] # ends[j]
============================================================================
