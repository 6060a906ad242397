----------------------------- MODULE SocketAddr -----------------------------
(***************************************************************************)
(* rmrf::net::socketaddr (src/net/socketaddress.hpp).  An address is known *)
(* by its family; its length is that of the structure of the family.  What *)
(* a conversion yields is a set: empty if it throws netio_exception.       *)
(***************************************************************************)

\* The families of the structures that have a family_map.
Mapped == {"AF_INET", "AF_INET6", "AF_UNIX", "AF_NETLINK"}

\* The families that the memory of a sockaddr may name.
AnyFamily == Mapped \cup {"AF_OTHER"}

\* The constructors and the assignment from a structure: the family it names
\* must be the one of its type.
FromStructure(type, family) == {family} \cap {type}

\* The assignments from sockaddr* and sockaddr_storage*: the family chooses the
\* type.
FromSockaddr(family) == UNION {FromStructure(type, family) : type \in Mapped}

\* operator T*.
As(type, address) == {address} \cap {type}
=============================================================================
