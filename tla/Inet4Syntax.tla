---------------------------- MODULE Inet4Syntax ----------------------------
(***************************************************************************)
(* The syntax of IPv4 literals that the comments of src/net/address.hpp    *)
(* give, and what the parsers of InetAddr make of a literal.               *)
(***************************************************************************)
EXTENDS InetAddr, SequencesExt

\* The components between the dots of a literal.
Components(str) ==
    FoldLeft(LAMBDA parts, c :
                 IF c = "." THEN Append(parts, <<>>)
                 ELSE Append(Front(parts), Append(Last(parts), c)),
             << <<>> >>, str)

\* The number that digits spell, in a set that is empty when they spell none.
Spelled(c, base) ==
    IF c # <<>> /\ \A i \in DOMAIN c : is_valid_digit(base, c[i])
    THEN {FoldLeft(LAMBDA n, d : n * base + convert_digit(d), 0, c)}
    ELSE {}

\* A component is decimal, octal behind a zero, or hexadecimal behind 0x.
AnyBase(c) ==
    CASE Len(c) > 1 /\ c[1] = "0" /\ c[2] = "x" -> Spelled(SubSeq(c, 3, Len(c)), 16)
      [] Len(c) > 1 /\ c[1] = "0" /\ c[2] # "x" -> Spelled(c, 8)
      [] OTHER -> Spelled(c, 10)

\* The code departs from that behind two zeros, which it reads as decimal.
TwoZeros(c) == Len(c) > 1 /\ c[1] = "0" /\ c[2] = "0"
AsRead(c) == IF TwoZeros(c) THEN Spelled(c, 10) ELSE AnyBase(c)

\* A component in canonical form has no leading zeros and is decimal.
Canonical(c) == IF Len(c) > 1 /\ c[1] = "0" THEN {} ELSE Spelled(c, 10)

\* The place of a component in the address: the first ones are the first
\* octets, the last one is the last octet.
Weight(i, n) ==
    CASE i = n -> 1
      [] i = 1 /\ i < n -> Octet * Octet * Octet
      [] i = 2 /\ i < n -> Octet * Octet
      [] OTHER -> Octet

\* What each component stands for.
AnyBases(parts) == [i \in DOMAIN parts |-> AnyBase(parts[i])]
AsReads(parts) == [i \in DOMAIN parts |-> AsRead(parts[i])]
Canonicals(parts) == [i \in DOMAIN parts |-> Canonical(parts[i])]

\* The address of components that stand for `values', in a set that is empty when
\* they have none: each is an octet, but the last one may go up to a limit of its
\* own.
AddressOf(values, limit) ==
    LET n == Len(values)
        Below(i) == IF i = n THEN limit ELSE Octet
    IN  IF \A i \in 1 .. n : \E x \in values[i] : x < Below(i)
        THEN {FoldLeft(LAMBDA a, i : a + (CHOOSE x \in values[i] : TRUE) * Weight(i, n),
                       0, [i \in DOMAIN values |-> i])}
        ELSE {}

\* By the standard rules (address.hpp:260) the last of n components is all octets
\* that are left.  The code departs from that too: it reads the last component as
\* an octet, and the only one as far as an int goes.
LastBelow(n) ==
    CASE n = 1 -> Word
      [] n = 2 -> Octet * Octet * Octet
      [] n = 3 -> Octet * Octet
      [] OTHER -> Octet
ReadBelow(n) == IF n = 1 THEN Word \div 2 ELSE Octet

\* The documented syntax (address.hpp:246): `a, a.b, a.b.c, a.b.c.d', each
\* component in decimal, octal or hexadecimal.
Documented(parts) ==
    IF Len(parts) > 4 THEN {} ELSE AddressOf(AnyBases(parts), LastBelow(Len(parts)))

\* is_valid_ip4addr accepts a literal if it stands for an address, and inet_addr
\* returns that address.
Yields(str, meant) ==
    IF is_valid_ip4addr(str)
    THEN meant = {inet_addr(str)}
    ELSE meant = {} /\ inet_addr(str) = Word - 1

\* The parsers read what is documented, with two exceptions, of which this says
\* what becomes of them: a last component that is wider than the code reads is
\* rejected, however much of it is documented, and a component behind two zeros is
\* read as decimal.
ReadsIPv4(str) ==
    LET parts == Components(str)
        n == Len(parts)
        twoZeros == \E i \in DOMAIN parts : TwoZeros(parts[i])
        tooWide == \E x \in AnyBase(Last(parts)) : x >= ReadBelow(n)
    IN  /\ ~twoZeros /\ ~tooWide => Yields(str, Documented(parts))
        /\ ~twoZeros /\ tooWide => Yields(str, {})
        /\ twoZeros => Yields(str, IF n > 4 THEN {}
                                   ELSE AddressOf(AsReads(parts), ReadBelow(n)))

\* inet_pton reads four canonical components (address.hpp:190) and accepts
\* nothing whose first three components are not canonical.  The last component
\* is not checked.
ReadsCanonical(str) ==
    LET parts == Components(str)
        meant == AddressOf(Canonicals(parts), Octet)
    IN  /\ Len(parts) = 4 /\ meant # {} => {inet_pton(str)} = meant
        /\ inet_pton(str) # 0
               => /\ Len(parts) = 4
                  /\ AddressOf(Canonicals(Front(parts)), Octet) # {}
=============================================================================
