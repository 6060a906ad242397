------------------------------ MODULE IoQueue ------------------------------
(***************************************************************************)
(* The output queue of a connection: rmrf::net::iorecord and               *)
(* rmrf::net::ioqueue (src/net/ioqueue.cpp).                               *)
(*                                                                         *)
(* The bytes of a record are never inspected, only moved, so a byte is     *)
(* identified by its position in the stream of all bytes the application   *)
(* ever handed to the connection.  A record holds the bytes                *)
(* at + 1 .. at + len, of which the first `offset' have been consumed.     *)
(* Copies and moves of a record yield the same record.                     *)
(***************************************************************************)
EXTENDS Naturals, Sequences

\* size() is the difference of two size_t: the offset must not pass the end.
IoRecord == {r \in [at : Nat, len : Nat, offset : Nat] : r.offset <= r.len}

\* iorecord(buf, size): the next `size' bytes of the stream, nothing consumed.
NewRecord(at, size) == [at |-> at, len |-> size, offset |-> 0]

Size(r) == r.len - r.offset

IsEmpty(r) == Size(r) = 0

\* The position before the first byte that ptr() points at.
Ptr(r) == r.at + r.offset

\* The position of the last byte of the record.
End(r) == r.at + r.len

\* Faulty variant: the last byte is kept back.
AdvanceShort(r, amount) ==
    [r EXCEPT !.offset = @ + IF amount > 1 THEN amount - 1 ELSE amount]

Advance(r, amount) ==
    [r EXCEPT !.offset = @ + IF amount < Size(r) THEN amount ELSE Size(r)]

\* Faulty variant: an empty record is queued like any other.
PushBackAny(q, r) == Append(q, r)

PushBack(q, r) == IF IsEmpty(r) THEN q ELSE Append(q, r)

PushFront(q, r) == IF IsEmpty(r) THEN q ELSE <<r>> \o q

\* pop_front(): the record it returns and the queue it leaves.  An empty
\* queue yields iorecord{}, which is empty.
Popped(q) == IF q = <<>> THEN NewRecord(0, 0) ELSE Head(q)

AfterPop(q) == IF q = <<>> THEN q ELSE Tail(q)

\* The records of q are the bytes from + 1 .. to of the stream: none is
\* exhausted, and they follow each other without a gap or an overlap.
Covers(q, from, to) ==
    /\ \A i \in 1 .. Len(q) : Ptr(q[i]) < End(q[i]) /\ End(q[i]) <= to
    /\ \A i \in 1 .. Len(q) - 1 : End(q[i]) = Ptr(q[i + 1])
    /\ q = <<>> => from = to
    /\ q # <<>> => Ptr(q[1]) = from /\ End(q[Len(q)]) = to
============================================================================
