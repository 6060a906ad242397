------------------------------ MODULE MCMumta ------------------------------
(***************************************************************************)
(* A small instance of Mumta: three connections on a queue of two, so that *)
(* it fills up, three descriptors, so that they can run out, half words of *)
(* four bits, and libraries of which one at a time is not the one that was *)
(* compiled against.                                                       *)
(***************************************************************************)
EXTENDS Mumta

Version(major, minor) == [major |-> major, minor |-> minor]

BuiltWith ==
    [libev |-> Version(4, 2), libnl |-> Version(3, 1), libssl |-> 1 * HalfWord + 3]

\* Older, newer and incompatible versions, each of one library, and of all.
Other == {Version(3, 1), Version(3, 2), Version(4, 1), Version(4, 3), Version(5, 2)}
OtherNumber == {0 * HalfWord + 4, 1 * HalfWord + 2, 1 * HalfWord + 4, 2 * HalfWord + 3}
Found ==
    {BuiltWith}
    \cup {[BuiltWith EXCEPT !.libev = v] : v \in Other}
    \cup {[BuiltWith EXCEPT !.libnl = v] : v \in Other \cup {Version(3, 0)}}
    \cup {[BuiltWith EXCEPT !.libssl = n] : n \in OtherNumber}
=============================================================================
