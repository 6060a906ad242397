----------------------------- MODULE ByteStream -----------------------------
(***************************************************************************)
(* What connection_client::write_data promises: "send data to the other    *)
(* endpoint" (src/net/connection_client.hpp).  A connection is a reliable  *)
(* byte stream for as long as it is up: every byte leaves at most once, in *)
(* the order in which it was accepted, and no byte is skipped.  A byte is  *)
(* identified by its position among all accepted bytes.                    *)
(***************************************************************************)
EXTENDS Naturals, Sequences

VARIABLES
    accepted,  \* how many bytes the application has handed over
    out,       \* the bytes that have left, in order
    up         \* FALSE once the connection has failed or was torn down

vars == <<accepted, out, up>>

Init ==
    /\ accepted = 0
    /\ out = <<>>
    /\ up = TRUE

Accept ==
    /\ up
    /\ accepted' \in Nat
    /\ accepted' >= accepted
    /\ UNCHANGED <<out, up>>

\* The next n bytes of the stream leave.
Deliver ==
    /\ up
    /\ \E n \in 1 .. accepted - Len(out) :
          out' = out \o [k \in 1 .. n |-> Len(out) + k]
    /\ UNCHANGED <<accepted, up>>

Fail ==
    /\ up
    /\ up' = FALSE
    /\ UNCHANGED <<accepted, out>>

Next == Accept \/ Deliver \/ Fail

Spec == Init /\ [][Next]_vars
=============================================================================
