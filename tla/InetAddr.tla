------------------------------ MODULE InetAddr ------------------------------
(***************************************************************************)
(* The parsers of IPv4 literals in src/net/address.hpp, namespace          *)
(* rmrf::net::details, as operators on sequences of characters.            *)
(*                                                                         *)
(* A literal is the array of the code without its NUL; positions count     *)
(* from 0 as there.  A parser returns the number it reads, or Rejected.    *)
(* Letters are lower case: the parsers do not tell the cases apart.        *)
(***************************************************************************)
EXTENDS Integers, Sequences

CONSTANTS
    Octet,        \* 2^8, the values of a component of an IPv4 address
    OctetDigits,  \* 3, the digits of a canonical component
    Hexlet,       \* 2^16, the values of a component of an IPv6 address
    HexletDigits  \* 4, the digits of one

ASSUME WidthAssumption ==
    /\ Octet \in Nat \ {0, 1}
    /\ OctetDigits \in Nat \ {0}
    /\ Hexlet \in Nat \ {0, 1}
    /\ HexletDigits \in Nat \ {0}
    /\ Hexlet = Octet * Octet

\* An unsigned 32-bit integer takes the values below Word.
Word == Octet * Octet * Octet * Octet

Rejected == -1

Digits == <<"0", "1", "2", "3", "4", "5", "6", "7", "8", "9",
            "a", "b", "c", "d", "e", "f">>

is_valid_digit(base, c) == \E d \in 1 .. base : Digits[d] = c
convert_digit(c) == (CHOOSE d \in 1 .. 16 : Digits[d] = c) - 1

\* str[i] == c, false for every c but the NUL behind the last character
Has(str, i, c) == i < Len(str) /\ str[i + 1] = c
HasDigit(str, i) == i < Len(str) /\ is_valid_digit(10, str[i + 1])

\* rfind_chr: the last c at or before `from'
rfind_chr(str, from, c) ==
    IF \E i \in 0 .. from : Has(str, i, c)
    THEN CHOOSE i \in 0 .. from : Has(str, i, c) /\ \A j \in i + 1 .. from : ~Has(str, j, c)
    ELSE -1

\* The position where a component that starts at idx ends.
ComponentEnd(str, idx, sep) ==
    CHOOSE i \in idx .. Len(str) :
        /\ i = Len(str) \/ Has(str, i, sep)
        /\ \A j \in idx .. i - 1 : ~Has(str, j, sep)

\* The number that the characters from idx to `end' spell.
Numeral(str, base, idx, end) ==
    LET upto[i \in idx .. end] ==
            IF i = idx THEN 0 ELSE upto[i - 1] * base + convert_digit(str[i])
    IN  upto[end]

\* The digits of a canonical component are enough for all values of an octet.
ASSUME DigitsAssumption ==
    Octet - 1 <= Numeral([d \in 1 .. OctetDigits |-> "9"], 10, 0, OctetDigits)

\* parse_address_component; a max_length of 0 is no limit
parse_address_component(str, base, sep, max_value, max_length, idx) ==
    LET end == ComponentEnd(str, idx, sep)
    IN  IF /\ end > idx
           /\ max_length > 0 => end - idx <= max_length
           /\ \A i \in idx .. end - 1 : is_valid_digit(base, str[i + 1])
           /\ Numeral(str, base, idx, end) <= max_value
        THEN Numeral(str, base, idx, end)
        ELSE Rejected

\* The conversion of a long long to the int that parse_inet_component returns.
ToInt(n) == IF n >= Word \div 2 THEN n - Word ELSE n

\* A faulty variant: an octal component is read from its leading zero on, as a
\* decimal number.
parse_inet_component_no_octal(str, max_value, idx) ==
    ToInt(
        IF idx + 1 < Len(str) /\ Has(str, idx, "0") /\ Has(str, idx + 1, "x")
        THEN parse_address_component(str, 16, ".", max_value, 0, idx + 2)
        ELSE parse_address_component(str, 10, ".", max_value, 0, idx))

\* parse_inet_component: hexadecimal after 0x, octal after a zero that is
\* followed by another digit, decimal otherwise
parse_inet_component(str, max_value, idx) ==
    ToInt(
        IF idx + 1 < Len(str) /\ Has(str, idx, "0") /\ Has(str, idx + 1, "x")
        THEN parse_address_component(str, 16, ".", max_value, 0, idx + 2)
        ELSE IF /\ idx + 1 < Len(str)
                /\ Has(str, idx, "0")
                /\ HasDigit(str, idx + 1)
                /\ ~Has(str, idx + 1, "0")
        THEN parse_address_component(str, 8, ".", max_value, 0, idx + 1)
        ELSE parse_address_component(str, 10, ".", max_value, 0, idx))

\* parse_inet_component_canonical: decimal, without leading zeros
parse_inet_component_canonical(str, idx) ==
    IF idx + 1 < Len(str) /\ Has(str, idx, "0") /\ HasDigit(str, idx + 1)
    THEN Rejected
    ELSE parse_address_component(str, 10, ".", Octet - 1, OctetDigits, idx)

parse_inet6_hexlet(str, idx) ==
    parse_address_component(str, 16, ":", Hexlet - 1, HexletDigits, idx)

Address(c1, c2, c3, c4) == ((c1 * Octet + c2) * Octet + c3) * Octet + c4

\* A faulty variant: a fourth dot is not looked for.
inet_addr_canonical_at_any(str, idx) ==
    LET sep3 == rfind_chr(str, Len(str), ".")
        sep2 == rfind_chr(str, sep3 - 1, ".")
        sep1 == rfind_chr(str, sep2 - 1, ".")
    IN  IF sep3 < idx + 1 \/ sep2 < idx + 1 \/ sep1 < idx + 1
        THEN Rejected
        ELSE LET c1 == parse_inet_component_canonical(str, idx)
                 c2 == parse_inet_component_canonical(str, sep1 + 1)
                 c3 == parse_inet_component_canonical(str, sep2 + 1)
                 c4 == parse_inet_component_canonical(str, sep3 + 1)
             IN  IF c1 < 0 \/ c2 < 0 \/ c3 < 0
                 THEN Rejected
                 ELSE IF c4 = Rejected THEN Word - 1 ELSE Address(c1, c2, c3, c4)

\* inet_addr_canonical_at: four components from idx on.  The last component is
\* or-ed in unchecked, so that a rejected one sets every bit.
inet_addr_canonical_at(str, idx) ==
    LET sep3 == rfind_chr(str, Len(str), ".")
        sep2 == rfind_chr(str, sep3 - 1, ".")
        sep1 == rfind_chr(str, sep2 - 1, ".")
    IN  IF \/ sep3 < idx + 1 \/ sep2 < idx + 1 \/ sep1 < idx + 1
           \/ rfind_chr(str, sep1 - 1, ".") >= idx
        THEN Rejected
        ELSE LET c1 == parse_inet_component_canonical(str, idx)
                 c2 == parse_inet_component_canonical(str, sep1 + 1)
                 c3 == parse_inet_component_canonical(str, sep2 + 1)
                 c4 == parse_inet_component_canonical(str, sep3 + 1)
             IN  IF c1 < 0 \/ c2 < 0 \/ c3 < 0
                 THEN Rejected
                 ELSE IF c4 = Rejected THEN Word - 1 ELSE Address(c1, c2, c3, c4)

\* inet_addr_impl: one to four components, of which a single one is the whole
\* address
inet_addr_impl(str) ==
    LET sep3 == rfind_chr(str, Len(str), ".")
        sep2 == rfind_chr(str, sep3 - 1, ".")
        sep1 == rfind_chr(str, sep2 - 1, ".")
        octet(idx) == parse_inet_component(str, Octet - 1, idx)
        joined(c1, c2, c3, c4) ==
            IF c1 < 0 \/ c2 < 0 \/ c3 < 0 \/ c4 < 0
            THEN Rejected
            ELSE Address(c1, c2, c3, c4)
    IN  CASE Has(str, 0, ".") ->
               Rejected
          [] ~Has(str, 0, ".") /\ sep3 <= 0 ->
               joined(0, 0, 0, parse_inet_component(str, Word - 1, 0))
          [] sep3 > 0 /\ sep2 <= 0 ->
               joined(octet(0), 0, 0, octet(sep3 + 1))
          [] sep2 > 0 /\ sep1 <= 0 ->
               joined(octet(0), octet(sep2 + 1), 0, octet(sep3 + 1))
          [] sep1 > 0 ->
               IF rfind_chr(str, sep1 - 1, ".") # -1
               THEN Rejected
               ELSE joined(octet(0), octet(sep1 + 1), octet(sep2 + 1), octet(sep3 + 1))

----------------------------------------------------------------------------
(* The functions for application code.  What they return of a rejected     *)
(* literal is what they started with.                                      *)

\* inet_addr and inet_aton: every bit is set
inet_addr(str) == IF inet_addr_impl(str) = Rejected THEN Word - 1 ELSE inet_addr_impl(str)

\* inet_pton<AF_INET>: no bit is set
inet_pton(str) ==
    IF inet_addr_canonical_at(str, 0) = Rejected THEN 0 ELSE inet_addr_canonical_at(str, 0)

is_valid_ip4addr(str) == inet_addr_impl(str) # Rejected
=============================================================================
