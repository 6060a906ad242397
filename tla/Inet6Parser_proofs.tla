------------------------- MODULE Inet6Parser_proofs -------------------------
(***************************************************************************)
(* Theorems about Inet6Parser, for any literals and any number of hexlets. *)
(***************************************************************************)
EXTENDS Inet6Parser, SequenceTheorems, WellFoundedInduction, TLAPS

\* What the passes rely on: the literal does not change, and both indices
\* count from 0.
IInv ==
    /\ str \in Seq(STRING)
    /\ shortener_pos \in Int
    /\ StaysInside

LEMMA InitIsGood == Init => IInv
<1> SUFFICES ASSUME Init PROVE IInv
  OBVIOUS
<1>1. str \in Seq(STRING)
  BY LiteralsAssumption DEF Init
<1>2. Len(str) \in Nat
  BY <1>1
<1> QED
  BY <1>1, <1>2, HexletsAssumption DEF Init, IInv, StaysInside

\* A colon at a position of the literal is before its end.
LEMMA ColonIsInside ==
  ASSUME NEW pos \in Nat, str \in Seq(STRING), Has(str, pos, ":")
  PROVE  pos + 1 <= Len(str)
BY DEF Has

LEMMA Step == IInv /\ [Next]_vars => IInv'
<1> SUFFICES ASSUME IInv, [Next]_vars PROVE IInv'
  OBVIOUS
<1> USE HexletsAssumption
<1>1. /\ str \in Seq(STRING)
      /\ Len(str) \in Nat
      /\ idx \in Nat /\ idx <= Len(str)
      /\ i \in Nat /\ i <= Hexlets
      /\ shortener_pos \in Int /\ shortener_pos < i
  BY DEF IInv, StaysInside
<1>2. CASE UNCHANGED <<str, shortener_pos, idx, i>>
  BY <1>2 DEF IInv, StaysInside
<1>3. ASSUME Start PROVE UNCHANGED <<str, shortener_pos, idx, i>>
  BY <1>3 DEF Start, Reject, inputVars
<1>4. ASSUME EndOfString PROVE UNCHANGED <<str, shortener_pos, idx, i>>
  BY <1>4 DEF EndOfString, Reject, inputVars
<1>5. ASSUME LoopEnds PROVE UNCHANGED <<str, shortener_pos, idx, i>>
  BY <1>5 DEF LoopEnds, Reject, inputVars
<1>6. ASSUME Returned \/ UNCHANGED vars PROVE UNCHANGED <<str, shortener_pos, idx, i>>
  BY <1>6 DEF Returned, vars, inputVars
<1>7. ASSUME EmbeddedIPv4 PROVE IInv'
  <2>1. i <= Hexlets - 2
    BY <1>1, <1>7 DEF EmbeddedIPv4, AtIPv4
  <2>2. /\ str' = str /\ shortener_pos' = shortener_pos
        /\ i' = i + 2 /\ idx' = Len(str)
    BY <1>7 DEF EmbeddedIPv4, inputVars
  <2> QED
    BY <1>1, <2>1, <2>2 DEF IInv, StaysInside
<1>8. ASSUME ShortenerToken PROVE IInv'
  <2>1. CASE UNCHANGED <<str, shortener_pos, idx, i>>
    BY <1>2, <2>1
  <2>2. CASE /\ str' = str /\ shortener_pos' = i
             /\ idx' = idx + 2 /\ i' = i + 1
    <3>1. idx + 2 <= Len(str)
      <4>1. Has(str, idx + 1, ":")
        BY <1>8 DEF ShortenerToken, AtShortener
      <4> QED
        BY <1>1, <4>1, ColonIsInside
    <3>2. i + 1 <= Hexlets
      BY <1>1, <1>8 DEF ShortenerToken, InLoop
    <3> QED
      BY <1>1, <2>2, <3>1, <3>2 DEF IInv, StaysInside
  <2> QED
    BY <1>8, <2>1, <2>2 DEF ShortenerToken, Reject, inputVars
<1>9. ASSUME HexletToken PROVE IInv'
  <2>1. CASE UNCHANGED <<str, shortener_pos, idx, i>>
    BY <1>2, <2>1
  <2>2. ASSUME NEW next \in 0 .. Len(str),
               str' = str, shortener_pos' = shortener_pos, i' = i + 1,
               idx' = IF next = Len(str) \/ Has(str, next + 1, ":")
                      THEN next
                      ELSE next + 1
        PROVE  IInv'
    <3>1. i + 1 <= Hexlets
      BY <1>1, <1>9 DEF HexletToken, InLoop
    <3>2. idx' \in 0 .. Len(str)
      BY <1>1, <2>2
    <3> QED
      BY <1>1, <2>2, <3>1, <3>2 DEF IInv, StaysInside
  <2> QED
    BY <1>9, <2>1, <2>2 DEF HexletToken, Reject, inputVars
<1> QED
  BY <1>2, <1>3, <1>4, <1>5, <1>6, <1>7, <1>8, <1>9 DEF Next

(***************************************************************************)
(* Whatever the literal, no pass of inet6_aton goes behind its NUL, and no *)
(* pass writes behind the last component of the address.                   *)
(***************************************************************************)
THEOREM LoopStaysInside == Spec => []StaysInside
<1>1. IInv => StaysInside
  BY DEF IInv
<1> QED
  BY <1>1, InitIsGood, Step, PTL DEF Spec

----------------------------------------------------------------------------
(* What the IPv4 parser rejects.                                           *)

\* A set of natural numbers has a least element, one of positions a greatest.
LEMMA Least ==
    ASSUME NEW T, T \subseteq Nat, T # {}
    PROVE  \E x \in T : \A y \in T : x <= y
<1>1. \E R : IsWellFoundedOn(R, Nat) /\ \A x, y \in Nat : y < x => <<y, x>> \in R
  <2> DEFINE R == OpToRel(<, Nat)
  <2>1. IsWellFoundedOn(R, Nat)
    BY NatLessThanWellFounded
  <2>2. \A x, y \in Nat : y < x => <<y, x>> \in R
    BY DEF OpToRel
  <2> HIDE DEF R
  <2>3. QED
    BY <2>1, <2>2
<1>2. PICK R : IsWellFoundedOn(R, Nat) /\ \A x, y \in Nat : y < x => <<y, x>> \in R
  BY <1>1
<1>3. PICK x \in T : \A y \in T : ~(<<y, x>> \in R)
  BY <1>2, WFMin
<1>4. \A y \in T : ~(y < x)
  BY <1>2, <1>3, Zenon
<1>5. QED
  BY <1>4

LEMMA Greatest ==
    ASSUME NEW from \in Int, NEW T, T \subseteq 0 .. from, T # {}
    PROVE  \E x \in T : \A y \in T : y <= x
<1> DEFINE U == {from - y : y \in T}
<1>1. U \subseteq Nat /\ U # {}
  <2>1. ASSUME NEW y \in T PROVE from - y \in Nat
    BY y \in 0 .. from
  <2>2. QED
    BY <2>1
<1>2. PICK u \in U : \A v \in U : u <= v
  <2> HIDE DEF U
  <2>1. QED
    BY <1>1, Least
<1>3. PICK x \in T : u = from - x
  BY <1>2
<1>4. ASSUME NEW y \in T PROVE y <= x
  <2>1. from - x <= from - y
    BY <1>2, <1>3
  <2>2. x \in Int /\ y \in Int
    BY x \in 0 .. from, y \in 0 .. from
  <2>3. QED
    BY <2>1, <2>2
<1>5. QED
  BY <1>4

\* rfind_chr finds the last of the characters it looks for.
LEMMA FindsLast ==
    ASSUME NEW s \in Seq(STRING), NEW from \in Int, NEW c
    PROVE  LET r == rfind_chr(s, from, c)
           IN  \/ r = -1 /\ \A j \in 0 .. from : ~Has(s, j, c)
               \/ r \in 0 .. from /\ Has(s, r, c) /\ \A j \in r + 1 .. from : ~Has(s, j, c)
<1> DEFINE T == {j \in 0 .. from : Has(s, j, c)}
<1>1. CASE T = {}
  BY <1>1 DEF rfind_chr
<1>2. CASE T # {}
  <2>1. PICK x \in T : \A y \in T : y <= x
    BY <1>2, Greatest
  <2>2. \A j \in x + 1 .. from : ~Has(s, j, c)
    BY <2>1
  <2>3. \E j \in 0 .. from : Has(s, j, c) /\ \A k \in j + 1 .. from : ~Has(s, k, c)
    BY <2>1, <2>2
  <2>4. \E j \in 0 .. from : Has(s, j, c)
    BY <2>1
  <2>5. QED
    BY <2>3, <2>4 DEF rfind_chr
<1>3. QED
  BY <1>1, <1>2

\* The characters of a component.
IsComponent(s, b, end) ==
    /\ b \in Nat /\ end \in b .. Len(s)
    /\ end = Len(s) \/ Has(s, end, ".")
    /\ \A j \in b .. end - 1 : ~Has(s, j, ".")

LEMMA ComponentEnds ==
    ASSUME NEW s \in Seq(STRING), NEW b, NEW e, IsComponent(s, b, e)
    PROVE  ComponentEnd(s, b, ".") = e
<1> DEFINE Is(k) == /\ k = Len(s) \/ Has(s, k, ".")
                    /\ \A j \in b .. k - 1 : ~Has(s, j, ".")
<1>1. Len(s) \in Nat /\ b \in Nat /\ e \in b .. Len(s) /\ Is(e)
  BY DEF IsComponent
<1>2. ASSUME NEW k \in b .. Len(s), Is(k) PROVE k = e
  <2>1. ~(k < e)
    BY <1>1, <1>2 DEF Has
  <2>2. ~(e < k)
    BY <1>1, <1>2 DEF Has
  <2>3. QED
    BY <1>1, <2>1, <2>2
<1>3. ComponentEnd(s, b, ".") = CHOOSE k \in b .. Len(s) : Is(k)
  BY DEF ComponentEnd
<1> HIDE DEF Is
<1>4. QED
  BY <1>1, <1>2, <1>3

LEMMA ColonIsNoDigit ==
    ASSUME NEW base \in 1 .. 16
    PROVE  ~is_valid_digit(base, ":") /\ ~is_valid_digit(base, ".")
BY DEF is_valid_digit, Digits

LEMMA RejectedStays == ToInt(Rejected) = -1
<1>1. Octet \in Nat /\ Octet >= 2
  BY WidthAssumption
<1>2. Word \in Nat
  BY <1>1 DEF Word
<1>3. QED
  BY <1>2 DEF ToInt, Rejected

\* A component is rejected for a colon in it, and for being empty.
LEMMA BadComponent ==
    ASSUME NEW s \in Seq(STRING), NEW b, NEW e, IsComponent(s, b, e), NEW m,
           b = e \/ \E p \in b .. e - 1 : Has(s, p, ":")
    PROVE  parse_inet_component(s, m, b) = -1
<1>1. /\ Len(s) \in Nat /\ b \in Nat /\ e \in b .. Len(s)
      /\ e = Len(s) \/ Has(s, e, ".")
      /\ \A j \in b .. e - 1 : ~Has(s, j, ".")
  BY DEF IsComponent
\* Where the digits start does not matter.
<1>2. ASSUME NEW n \in b .. e, NEW base \in {8, 10, 16},
             n = e \/ \E p \in n .. e - 1 : Has(s, p, ":")
      PROVE  ToInt(parse_address_component(s, base, ".", m, 0, n)) = -1
  <2>1. IsComponent(s, n, e)
    BY <1>1 DEF IsComponent
  <2>2. ComponentEnd(s, n, ".") = e
    BY <2>1, ComponentEnds
  <2>3. n = e \/ \E k \in n .. e - 1 : ~is_valid_digit(base, s[k + 1])
    <3>1. ~is_valid_digit(base, ":")
      BY base \in 1 .. 16, ColonIsNoDigit
    <3>2. \A k : Has(s, k, ":") => s[k + 1] = ":"
      BY DEF Has
    <3>3. QED
      BY <1>2, <3>1, <3>2
  <2>4. ~(e > n /\ \A k \in n .. e - 1 : is_valid_digit(base, s[k + 1]))
    BY <1>1, <2>3
  <2>5. parse_address_component(s, base, ".", m, 0, n) = Rejected
    BY <2>2, <2>4 DEF parse_address_component
  <2>6. QED
    BY <2>5, RejectedStays
<1>3. CASE b + 1 < Len(s) /\ Has(s, b, "0") /\ Has(s, b + 1, "x")
  <2>1. e # b /\ e # b + 1
    BY <1>1, <1>3 DEF Has
  <2>2. b + 2 \in b .. e
    BY <1>1, <2>1
  <2>3. \A p \in b .. e - 1 : Has(s, p, ":") => p \in b + 2 .. e - 1
    BY <1>1, <1>3 DEF Has
  <2>4. ToInt(parse_address_component(s, 16, ".", m, 0, b + 2)) = -1
    BY <1>2, <2>1, <2>2, <2>3
  <2>5. QED
    BY <1>3, <2>4 DEF parse_inet_component
<1>4. CASE ~(b + 1 < Len(s) /\ Has(s, b, "0") /\ Has(s, b + 1, "x"))
  <2>1. ASSUME b + 1 < Len(s), Has(s, b, "0")
        PROVE  ToInt(parse_address_component(s, 8, ".", m, 0, b + 1)) = -1
    <3>1. e # b
      BY <1>1, <2>1 DEF Has
    <3>2. b + 1 \in b .. e
      BY <1>1, <3>1
    <3>3. \A p \in b .. e - 1 : Has(s, p, ":") => p \in b + 1 .. e - 1
      BY <1>1, <2>1 DEF Has
    <3>4. QED
      BY <1>2, <3>1, <3>2, <3>3
  <2>2. ToInt(parse_address_component(s, 10, ".", m, 0, b)) = -1
    BY <1>1, <1>2
  <2>3. QED
    BY <1>4, <2>1, <2>2 DEF parse_inet_component
<1>5. QED
  BY <1>3, <1>4

\* With the dots where the parser finds them, every character but those is in
\* one of the components.
LEMMA ColonIsNoIPv4 ==
    ASSUME NEW s \in Seq(STRING), NEW p \in Nat, Has(s, p, ":")
    PROVE  ~is_valid_ip4addr(s)
<1> DEFINE sep3 == rfind_chr(s, Len(s), ".")
           sep2 == rfind_chr(s, sep3 - 1, ".")
           sep1 == rfind_chr(s, sep2 - 1, ".")
           sep0 == rfind_chr(s, sep1 - 1, ".")
           octet(b) == parse_inet_component(s, Octet - 1, b)
           whole == parse_inet_component(s, Word - 1, 0)
           joined(c1, c2, c3, c4) ==
               IF c1 < 0 \/ c2 < 0 \/ c3 < 0 \/ c4 < 0
               THEN Rejected
               ELSE Address(c1, c2, c3, c4)
<1>1. Len(s) \in Nat /\ p < Len(s) /\ \A j : Has(s, j, ".") => j # p /\ j < Len(s)
  BY DEF Has
<1>2. \/ sep3 = -1 /\ \A j \in 0 .. Len(s) : ~Has(s, j, ".")
      \/ sep3 \in 0 .. Len(s) /\ Has(s, sep3, ".") /\ \A j \in sep3 + 1 .. Len(s) : ~Has(s, j, ".")
  BY <1>1, FindsLast
<1> HIDE DEF sep3
<1>3. sep3 \in Int
  BY <1>1, <1>2
<1>4. \/ sep2 = -1 /\ \A j \in 0 .. sep3 - 1 : ~Has(s, j, ".")
      \/ sep2 \in 0 .. sep3 - 1 /\ Has(s, sep2, ".") /\ \A j \in sep2 + 1 .. sep3 - 1 : ~Has(s, j, ".")
  BY <1>3, FindsLast
<1> HIDE DEF sep2
<1>5. sep2 \in Int
  BY <1>3, <1>4
<1>6. \/ sep1 = -1 /\ \A j \in 0 .. sep2 - 1 : ~Has(s, j, ".")
      \/ sep1 \in 0 .. sep2 - 1 /\ Has(s, sep1, ".") /\ \A j \in sep1 + 1 .. sep2 - 1 : ~Has(s, j, ".")
  BY <1>5, FindsLast
<1> HIDE DEF sep1
<1>7. sep1 \in Int
  BY <1>5, <1>6
<1>8. \/ sep0 = -1 /\ \A j \in 0 .. sep1 - 1 : ~Has(s, j, ".")
      \/ sep0 \in 0 .. sep1 - 1 /\ Has(s, sep0, ".") /\ \A j \in sep0 + 1 .. sep1 - 1 : ~Has(s, j, ".")
  BY <1>7, FindsLast
<1> HIDE DEF sep0
<1>9. ASSUME NEW b \in Nat, NEW e, IsComponent(s, b, e), b = e \/ p \in b .. e - 1
      PROVE  octet(b) = -1
  BY <1>9, BadComponent
<1>10. Has(s, 0, ".") => octet(0) = -1
  <2>1. Has(s, 0, ".") => IsComponent(s, 0, 0)
    BY <1>1 DEF IsComponent
  <2>2. QED
    BY <1>9, <2>1
<1>11. sep3 > 0 => IsComponent(s, sep3 + 1, Len(s)) /\ sep3 + 1 \in Nat
  BY <1>1, <1>2 DEF IsComponent
<1>12. sep2 > 0 => sep3 > 0 /\ IsComponent(s, sep2 + 1, sep3) /\ sep2 + 1 \in Nat
  BY <1>1, <1>2, <1>4 DEF IsComponent
<1>13. sep1 > 0 => sep2 > 0 /\ IsComponent(s, sep1 + 1, sep2) /\ sep1 + 1 \in Nat
  BY <1>1, <1>2, <1>4, <1>6 DEF IsComponent
<1>14. ASSUME NEW c1, NEW c2, NEW c3, NEW c4, c1 = -1 \/ c2 = -1 \/ c3 = -1 \/ c4 = -1
       PROVE  joined(c1, c2, c3, c4) = Rejected
  BY <1>14
<1> HIDE DEF octet, joined
<1>15. ASSUME ~Has(s, 0, "."), sep3 <= 0 PROVE joined(0, 0, 0, whole) = Rejected
  <2>1. IsComponent(s, 0, Len(s)) /\ p \in 0 .. Len(s) - 1
    BY <1>1, <1>2, <1>15 DEF IsComponent
  <2>2. whole = -1
    BY <2>1, BadComponent
  <2>3. QED
    BY <1>14, <2>2
<1>16. ASSUME sep3 > 0, sep2 <= 0 PROVE joined(octet(0), 0, 0, octet(sep3 + 1)) = Rejected
  <2>1. CASE Has(s, 0, ".")
    BY <1>10, <1>14, <2>1
  <2>2. CASE ~Has(s, 0, ".")
    <3>1. IsComponent(s, 0, sep3)
      BY <1>1, <1>2, <1>4, <1>16, <2>2 DEF IsComponent
    <3>2. p \in 0 .. sep3 - 1 \/ p \in sep3 + 1 .. Len(s) - 1
      BY <1>1, <1>2, <1>16
    <3>3. octet(0) = -1 \/ octet(sep3 + 1) = -1
      BY <1>9, <1>11, <1>16, <3>1, <3>2
    <3>4. QED
      BY <1>14, <3>3
  <2>3. QED
    BY <2>1, <2>2
<1>17. ASSUME sep2 > 0, sep1 <= 0
       PROVE  joined(octet(0), octet(sep2 + 1), 0, octet(sep3 + 1)) = Rejected
  <2>1. CASE Has(s, 0, ".")
    BY <1>10, <1>14, <2>1
  <2>2. CASE ~Has(s, 0, ".")
    <3>1. IsComponent(s, 0, sep2)
      BY <1>1, <1>2, <1>4, <1>6, <1>17, <2>2 DEF IsComponent
    <3>2. p \in 0 .. sep2 - 1 \/ p \in sep2 + 1 .. sep3 - 1 \/ p \in sep3 + 1 .. Len(s) - 1
      BY <1>1, <1>2, <1>3, <1>4, <1>12, <1>17
    <3>3. octet(0) = -1 \/ octet(sep2 + 1) = -1 \/ octet(sep3 + 1) = -1
      BY <1>9, <1>11, <1>12, <1>17, <3>1, <3>2
    <3>4. QED
      BY <1>14, <3>3
  <2>3. QED
    BY <2>1, <2>2
<1>18. ASSUME sep1 > 0, sep0 = -1
       PROVE  joined(octet(0), octet(sep1 + 1), octet(sep2 + 1), octet(sep3 + 1)) = Rejected
  <2>1. IsComponent(s, 0, sep1)
    BY <1>1, <1>2, <1>4, <1>6, <1>8, <1>13, <1>12, <1>18 DEF IsComponent
  <2>2. \/ p \in 0 .. sep1 - 1 \/ p \in sep1 + 1 .. sep2 - 1
        \/ p \in sep2 + 1 .. sep3 - 1 \/ p \in sep3 + 1 .. Len(s) - 1
    BY <1>1, <1>2, <1>3, <1>4, <1>5, <1>6, <1>12, <1>13, <1>18
  <2>3. \/ octet(0) = -1 \/ octet(sep1 + 1) = -1
        \/ octet(sep2 + 1) = -1 \/ octet(sep3 + 1) = -1
    BY <1>9, <1>11, <1>12, <1>13, <1>18, <2>1, <2>2
  <2>4. QED
    BY <1>14, <2>3
<1>19. inet_addr_impl(s)
         = CASE Has(s, 0, ".") -> Rejected
             [] ~Has(s, 0, ".") /\ sep3 <= 0 -> joined(0, 0, 0, whole)
             [] sep3 > 0 /\ sep2 <= 0 -> joined(octet(0), 0, 0, octet(sep3 + 1))
             [] sep2 > 0 /\ sep1 <= 0 ->
                  joined(octet(0), octet(sep2 + 1), 0, octet(sep3 + 1))
             [] sep1 > 0 ->
                  IF sep0 # -1
                  THEN Rejected
                  ELSE joined(octet(0), octet(sep1 + 1), octet(sep2 + 1), octet(sep3 + 1))
  BY DEF inet_addr_impl, sep0, sep1, sep2, sep3, octet, joined
<1> HIDE DEF whole
<1>20. \/ Has(s, 0, ".")
       \/ ~Has(s, 0, ".") /\ sep3 <= 0
       \/ sep3 > 0 /\ sep2 <= 0
       \/ sep2 > 0 /\ sep1 <= 0
       \/ sep1 > 0
  BY <1>3, <1>5, <1>7
<1>21. inet_addr_impl(s) = Rejected
  BY <1>15, <1>16, <1>17, <1>18, <1>19, <1>20
<1>22. QED
  BY <1>21 DEF is_valid_ip4addr

----------------------------------------------------------------------------
(* What the loop accepts.                                                  *)

HasColon == \E p \in Nat : Has(str, p, ":")

\* Without a colon the first hexlet is all of the literal.
ColonInv ==
    /\ pc \in {"start", "loop", "accepted", "rejected"}
    /\ pc = "start" => shortener_pos = -1 /\ i = 0 /\ idx = 0
    /\ pc = "loop" =>
          \/ HasColon
          \/ shortener_pos = -1 /\ i = 0 /\ idx = 0
          \/ shortener_pos = -1 /\ i = 1 /\ idx = Len(str)
    /\ pc = "accepted" => HasColon

LEMMA ColonStep == IInv /\ ColonInv /\ [Next]_vars => ColonInv'
<1> SUFFICES ASSUME IInv, ColonInv, [Next]_vars PROVE ColonInv'
  OBVIOUS
<1> USE HexletsAssumption
<1>1. /\ Len(str) \in Nat /\ idx \in Nat /\ i \in Nat
  BY DEF IInv, StaysInside
<1>2. str' = str => HasColon' = HasColon
  BY DEF HasColon
<1>3. CASE Start
  BY <1>2, <1>3 DEF Start, Reject, inputVars, ColonInv
<1>4. CASE EndOfString
  BY <1>2, <1>4 DEF EndOfString, InLoop, Reject, inputVars, ColonInv
<1>5. CASE EmbeddedIPv4
  BY <1>1, <1>2, <1>5 DEF EmbeddedIPv4, InLoop, AtIPv4, inputVars, ColonInv
<1>6. CASE ShortenerToken
  <2>1. HasColon
    BY <1>1, <1>6 DEF ShortenerToken, AtShortener, HasColon
  <2>2. QED
    BY <1>2, <1>6, <2>1 DEF ShortenerToken, InLoop, Reject, inputVars, ColonInv
<1>7. CASE HexletToken
  <2>1. pc = "loop" /\ idx < Len(str) /\ str' = str
    BY <1>7 DEF HexletToken, InLoop, inputVars
  <2>2. CASE pc' = "rejected"
    BY <2>2 DEF ColonInv
  <2>3. CASE pc' = pc /\ shortener_pos' = shortener_pos /\ i' = i + 1
              /\ \E next \in 0 .. Len(str) :
                    /\ NextSeparator(next)
                    /\ idx' = IF next = Len(str) \/ Has(str, next + 1, ":")
                              THEN next
                              ELSE next + 1
    <3>1. CASE HasColon
      BY <1>2, <2>1, <2>3, <3>1 DEF ColonInv
    <3>2. CASE ~HasColon
      <4>1. shortener_pos = -1 /\ i = 0
        BY <2>1, <3>2, <1>1 DEF ColonInv
      <4>2. idx' = Len(str)
        BY <2>3, <3>2 DEF NextSeparator, HasColon
      <4>3. QED
        BY <2>1, <2>3, <4>1, <4>2 DEF ColonInv
    <3>3. QED
      BY <3>1, <3>2
  <2>4. QED
    BY <1>7, <2>2, <2>3 DEF HexletToken, Reject
<1>8. CASE LoopEnds
  BY <1>1, <1>2, <1>8 DEF LoopEnds, Reject, inputVars, ColonInv
<1>9. CASE Returned \/ UNCHANGED vars
  BY <1>2, <1>9 DEF Returned, vars, inputVars, ColonInv
<1>10. QED
  BY <1>3, <1>4, <1>5, <1>6, <1>7, <1>8, <1>9 DEF Next

(***************************************************************************)
(* What inet6_aton accepts is_valid_ip4addr rejects, whatever the literal: *)
(* the order in which operator _ipaddr tries the two does not matter.      *)
(***************************************************************************)
THEOREM FamiliesAreDisjoint == Spec => []OneFamily
<1>1. Init => IInv /\ ColonInv
  BY InitIsGood DEF Init, ColonInv
<1>2. IInv /\ ColonInv /\ [Next]_vars => (IInv /\ ColonInv)'
  BY Step, ColonStep
<1>3. IInv /\ ColonInv => OneFamily
  <2> SUFFICES ASSUME IInv, ColonInv, pc = "accepted" PROVE Family = "ip6"
    BY DEF OneFamily
  <2>1. ~is_valid_ip4addr(str)
    BY ColonIsNoIPv4 DEF IInv, ColonInv, HasColon
  <2>2. QED
    BY <2>1 DEF Family
<1>4. QED
  BY <1>1, <1>2, <1>3, PTL DEF Spec

----------------------------------------------------------------------------
(* What the parsers read.  The documented syntax is written with folds,    *)
(* the parsers with recursive functions: both are shown to take their      *)
(* elements one by one.                                                    *)

\* What holds of 0 and of the successor of each number it holds of.
LEMMA UpFromZero ==
    ASSUME NEW S, 0 \in S, \A n \in Nat : n \in S => n + 1 \in S
    PROVE  Nat \subseteq S
<1> SUFFICES ASSUME Nat \ S # {} PROVE FALSE
  OBVIOUS
<1>1. PICK x \in Nat \ S : \A y \in Nat \ S : x <= y
  BY Least, Nat \ S \subseteq Nat
<1>2. x - 1 \in Nat /\ x - 1 \in S
  BY <1>1
<1>3. QED
  BY <1>1, <1>2

\* The greatest of the first n places is n.
LEMMA MaxOfRange == \A n \in Nat : n > 0 => Max(1 .. n) = n
BY DEF Max

\* The greatest of a set of positions is one of them.
LEMMA MaxIsIn ==
    ASSUME NEW n \in Nat, NEW s \in SUBSET (1 .. n), s # {}
    PROVE  /\ Max(s) \in s
           /\ \A x \in s : x <= Max(s)
<1>1. \E x \in s : \A y \in s : y <= x
  BY Greatest, n \in Int, s \subseteq 0 .. n
<1>2. \A x, y \in s : y <= x <=> x >= y
  OBVIOUS
<1>3. \E x \in s : \A y \in s : x >= y
  BY <1>1, <1>2
<1>4. Max(s) \in s /\ \A y \in s : Max(s) >= y
  BY <1>3 DEF Max
<1>5. QED
  BY <1>2, <1>4

\* A fold over n elements as a function of the sets of their places: F takes a
\* place and what is folded so far, which stays in A.
Folds(n, A, F) == \A k \in 1 .. n : \A a \in A : F[k][a] \in A
IsFold(it, n, A, base, F) ==
    /\ it \in [SUBSET (1 .. n) -> A]
    /\ \A s \in SUBSET (1 .. n) :
          it[s] = IF s = {} THEN base ELSE F[Max(s)][it[s \ {Max(s)}]]

\* There is one for every n: a place more adds the sets that hold it.
LEMMA FoldExists ==
    ASSUME NEW n \in Nat, NEW A, NEW base \in A, NEW F, Folds(n, A, F)
    PROVE  \E it : IsFold(it, n, A, base, F)
<1> USE DEF Folds, IsFold
<1> DEFINE Val(it, s) == IF s = {} THEN base ELSE F[Max(s)][it[s \ {Max(s)}]]
           Is(it, m) == /\ it \in [SUBSET (1 .. m) -> A]
                        /\ \A s \in SUBSET (1 .. m) : it[s] = Val(it, s)
           Ex(m) == \E it : Is(it, m)
           S == {m \in Nat : m <= n => Ex(m)}
<1>1. 0 \in S
  <2>1. Is([s \in SUBSET (1 .. 0) |-> base], 0)
    BY 1 .. 0 = {}
  <2>2. QED
    BY <2>1
<1>2. ASSUME NEW m \in Nat, m \in S PROVE m + 1 \in S
  <2> HIDE DEF Ex
  <2> SUFFICES ASSUME m + 1 <= n PROVE Ex(m + 1)
    OBVIOUS
  <2>0. Ex(m)
    BY <1>2
  <2> USE DEF Ex
  <2>1. PICK it : Is(it, m)
    <3> HIDE DEF Is
    <3>1. QED
      BY <2>0
  <2> DEFINE new == [s \in SUBSET (1 .. m + 1) |->
                       IF m + 1 \in s THEN F[m + 1][it[s \ {m + 1}]] ELSE it[s]]
  <2>2. ASSUME NEW s \in SUBSET (1 .. m + 1) PROVE new[s] = Val(new, s) /\ new[s] \in A
    <3>1. CASE m + 1 \in s
      <4>1. Max(s) = m + 1
        <5>1. m + 1 \in Nat /\ s # {}
          BY <3>1
        <5>2. Max(s) \in s /\ m + 1 <= Max(s)
          BY <3>1, <5>1, MaxIsIn
        <5>3. Max(s) \in 1 .. m + 1
          BY <5>2
        <5>4. QED
          BY <5>2, <5>3
      <4>2. s \ {m + 1} \in SUBSET (1 .. m) /\ m + 1 \notin s \ {m + 1}
        OBVIOUS
      <4>3. new[s \ {m + 1}] = it[s \ {m + 1}] /\ it[s \ {m + 1}] \in A
        <5>1. s \ {m + 1} \in SUBSET (1 .. m + 1)
          OBVIOUS
        <5>2. QED
          BY <2>1, <4>2, <5>1
      <4>4. m + 1 \in 1 .. n
        OBVIOUS
      <4>5. QED
        BY <3>1, <4>1, <4>3, <4>4
    <3>2. CASE m + 1 \notin s
      <4>1. s \in SUBSET (1 .. m)
        BY <3>2
      <4>2. new[s] = Val(it, s) /\ new[s] \in A
        BY <2>1, <3>2, <4>1
      <4>3. s # {} => new[s \ {Max(s)}] = it[s \ {Max(s)}]
        BY <3>2
      <4>4. QED
        BY <4>2, <4>3
    <3>3. QED
      BY <3>1, <3>2
  <2> HIDE DEF Val
  <2>3. Is(new, m + 1)
    BY <2>2
  <2> HIDE DEF new, Is
  <2>4. QED
    BY <2>3
<1> HIDE DEF S
<1>3. n \in S
  BY <1>1, <1>2, UpFromZero
<1>4. Ex(n)
  <2> HIDE DEF Ex
  <2>1. QED
    BY <1>3 DEF S
<1>5. QED
  BY <1>4

\* A fold over the first k places ends with the k-th.
LEMMA UpTo ==
    ASSUME NEW k \in Nat, k > 0
    PROVE  /\ 1 .. k # {}
           /\ (1 .. k) \ {Max(1 .. k)} = 1 .. k - 1
           /\ Max(1 .. k) = k
<1>1. Max(1 .. k) = k
  BY MaxOfRange
<1>2. k \in 1 .. k
  OBVIOUS
<1>3. QED
  BY <1>1, <1>2

\* A digit is worth a natural number, and nothing only if it is a zero.
LEMMA DigitIsNat ==
    ASSUME NEW base \in 1 .. 16, NEW c, is_valid_digit(base, c)
    PROVE  convert_digit(c) \in 0 .. base - 1 /\ (c # "0" => convert_digit(c) >= 1)
<1>1. PICK d \in 1 .. base : Digits[d] = c
  BY DEF is_valid_digit
<1>2. \A x, y \in 1 .. 16 : Digits[x] = Digits[y] => x = y
  BY DEF Digits
<1>3. \A x \in 1 .. 16 : Digits[x] = c <=> x = d
  BY <1>1, <1>2
<1>4. (CHOOSE x \in 1 .. 16 : Digits[x] = c) = d
  BY <1>1, <1>3
<1>5. convert_digit(c) = d - 1
  BY <1>4 DEF convert_digit
<1>6. Digits[1] = "0"
  BY DEF Digits
<1>7. QED
  BY <1>1, <1>6, <1>5

\* The number that a component spells, digit by digit.
Value(c, base) == FoldLeft(LAMBDA n, d : n * base + convert_digit(d), 0, c)

\* A component spells that number, if it is made of digits.
LEMMA SpelledIsValue ==
    ASSUME NEW c, NEW base
    PROVE  Spelled(c, base) = IF c # <<>> /\ \A k \in DOMAIN c : is_valid_digit(base, c[k])
                              THEN {Value(c, base)}
                              ELSE {}
BY DEF Spelled, Value

\* From one digit to the next it is multiplied by the base.
LEMMA SpelledByDigit ==
    ASSUME NEW c \in Seq(STRING), NEW base \in 1 .. 16,
           \A k \in DOMAIN c : is_valid_digit(base, c[k])
    PROVE  \E g : /\ g[0] = 0
                  /\ \A k \in 1 .. Len(c) : g[k] = g[k - 1] * base + convert_digit(c[k])
                  /\ Value(c, base) = g[Len(c)]
<1> DEFINE Is(it) == it = [s \in SUBSET (DOMAIN c) |->
                             IF s = {} THEN 0
                             ELSE it[s \ {Max(s)}] * base + convert_digit(c[Max(s)])]
           iter == CHOOSE it : Is(it)
           g == [k \in 0 .. Len(c) |-> iter[1 .. k]]
           F == [k \in 1 .. Len(c) |-> [a \in Nat |-> a * base + convert_digit(c[k])]]
<1>1. Len(c) \in Nat /\ DOMAIN c = 1 .. Len(c)
  OBVIOUS
<1>2. Value(c, base) = iter[DOMAIN c]
  BY DEF Value, FoldLeft, MapThenFoldSet
<1>3. \E it : Is(it)
  <2>1. \A k \in 1 .. Len(c) : \A a \in Nat :
           F[k][a] = a * base + convert_digit(c[k]) /\ F[k][a] \in Nat
    <3> TAKE k \in 1 .. Len(c), a \in Nat
    <3>1. F[k][a] = a * base + convert_digit(c[k])
      OBVIOUS
    <3>2. convert_digit(c[k]) \in Nat
      <4>1. is_valid_digit(base, c[k])
        BY <1>1
      <4>2. convert_digit(c[k]) \in 0 .. base - 1
        BY <4>1, DigitIsNat
      <4>3. QED
        BY <4>2
    <3>3. a * base \in Nat
      OBVIOUS
    <3> HIDE DEF F
    <3>4. QED
      BY <3>1, <3>2, <3>3
  <2> HIDE DEF F
  <2>2. PICK it : IsFold(it, Len(c), Nat, 0, F)
    <3>1. Len(c) \in Nat /\ 0 \in Nat /\ Folds(Len(c), Nat, F)
      BY <1>1, <2>1 DEF Folds
    <3>2. QED
      BY <3>1, FoldExists, Zenon
  <2>3. \A s \in SUBSET (1 .. Len(c)) : s # {} =>
           F[Max(s)][it[s \ {Max(s)}]] = it[s \ {Max(s)}] * base + convert_digit(c[Max(s)])
    <3> TAKE s \in SUBSET (1 .. Len(c))
    <3>1. s # {} => Max(s) \in 1 .. Len(c)
      BY <1>1, MaxIsIn
    <3>2. it[s \ {Max(s)}] \in Nat
      BY <2>2 DEF IsFold
    <3>3. QED
      BY <2>1, <3>1, <3>2
  <2>4. Is(it)
    BY <1>1, <2>2, <2>3 DEF IsFold
  <2>5. QED
    BY <2>4
<1>4. Is(iter)
  <2> HIDE DEF Is
  <2>1. QED
    BY <1>3
<1> HIDE DEF iter
<1>5. iter[{}] = 0
  BY <1>4
<1>6. ASSUME NEW k \in 1 .. Len(c)
      PROVE  iter[1 .. k] = iter[1 .. k - 1] * base + convert_digit(c[k])
  <2>1. 1 .. k \in SUBSET (DOMAIN c)
    BY <1>1
  <2>2. /\ 1 .. k # {}
        /\ (1 .. k) \ {Max(1 .. k)} = 1 .. k - 1
        /\ Max(1 .. k) = k
    BY UpTo
  <2>3. QED
    BY <1>4, <2>1, <2>2
<1> HIDE DEF Is
<1>7. g[0] = 0
  BY <1>1, <1>5, 1 .. 0 = {}
<1>8. \A k \in 1 .. Len(c) : g[k] = g[k - 1] * base + convert_digit(c[k])
  BY <1>1, <1>6
<1>9. g[Len(c)] = iter[DOMAIN c]
  <2>1. g[Len(c)] = iter[1 .. Len(c)]
    BY <1>1
  <2>2. QED
    BY <1>1, <2>1
<1> HIDE DEF g
<1>10. QED
  BY <1>2, <1>7, <1>8, <1>9

\* The number that the parser reads, digit by digit.
Reads(u, s, base, b, e) ==
    /\ u[b] = 0
    /\ \A k \in b + 1 .. e : u[k] = u[k - 1] * base + convert_digit(s[k])
    /\ Numeral(s, base, b, e) = u[e]

\* Every component is read so.
LEMMA NumeralByDigit ==
    ASSUME NEW s, NEW base \in Nat, NEW b \in Nat, NEW e \in Nat, b <= e
    PROVE  \E u : Reads(u, s, base, b, e)
<1> DEFINE Is(u, n) == u = [k \in b .. b + n |->
                               IF k = b THEN 0 ELSE u[k - 1] * base + convert_digit(s[k])]
           S == {n \in Nat : \E u : Is(u, n)}
<1>1. 0 \in S
  <2>1. Is([k \in b .. b + 0 |-> 0], 0)
    OBVIOUS
  <2> HIDE DEF Is
  <2>2. QED
    BY <2>1
<1>2. ASSUME NEW n \in Nat, n \in S PROVE n + 1 \in S
  <2>1. PICK u : Is(u, n)
    BY <1>2
  <2> DEFINE new == [k \in b .. b + (n + 1) |->
                        IF k = b + (n + 1) THEN u[b + n] * base + convert_digit(s[k])
                        ELSE u[k]]
  <2>2. ASSUME NEW k \in b .. b + (n + 1)
        PROVE  new[k] = IF k = b THEN 0 ELSE new[k - 1] * base + convert_digit(s[k])
    <3>1. CASE k = b + (n + 1)
      <4>1. new[k - 1] = u[b + n]
        BY <3>1
      <4>2. QED
        BY <3>1, <4>1
    <3>2. CASE k # b + (n + 1)
      <4>1. k \in b .. b + n
        BY <3>2
      <4>2. u[k] = IF k = b THEN 0 ELSE u[k - 1] * base + convert_digit(s[k])
        BY <2>1, <4>1
      <4>3. k # b => new[k - 1] = u[k - 1]
        BY <4>1
      <4>4. QED
        BY <3>2, <4>2, <4>3
    <3>3. QED
      BY <3>1, <3>2
  <2>3. Is(new, n + 1)
    BY <2>2
  <2> HIDE DEF new, Is
  <2>4. QED
    BY <2>3
<1> DEFINE fix == CHOOSE u : u = [k \in b .. e |->
                                     IF k = b THEN 0 ELSE u[k - 1] * base + convert_digit(s[k])]
<1>3. fix = [k \in b .. e |-> IF k = b THEN 0 ELSE fix[k - 1] * base + convert_digit(s[k])]
  <2>1. e - b \in S
    <3> HIDE DEF S
    <3>1. QED
      BY <1>1, <1>2, UpFromZero
  <2>2. b + (e - b) = e
    OBVIOUS
  <2>3. \E u : u = [k \in b .. e |->
                       IF k = b THEN 0 ELSE u[k - 1] * base + convert_digit(s[k])]
    BY <2>1, <2>2
  <2>4. QED
    BY <2>3
<1>4. Numeral(s, base, b, e) = fix[e]
  BY DEF Numeral
<1> HIDE DEF fix
<1>5. fix[b] = 0
  BY <1>3
<1>6. \A k \in b + 1 .. e : fix[k] = fix[k - 1] * base + convert_digit(s[k])
  BY <1>3
<1>7. QED
  BY <1>4, <1>5, <1>6 DEF Reads

\* The characters of a literal between two positions.
LEMMA CharactersOf ==
    ASSUME NEW s \in Seq(STRING), NEW b \in Nat, NEW e \in Nat, b <= e, e <= Len(s)
    PROVE  LET c == SubSeq(s, b + 1, e)
           IN  /\ c \in Seq(STRING)
               /\ Len(c) = e - b
               /\ \A k \in 1 .. e - b : c[k] = s[b + k]
<1>1. Len(s) \in Nat
  OBVIOUS
<1>2. SubSeq(s, b + 1, e) = [k \in 1 .. e - b |-> s[b + k]]
  BY <1>1
<1>3. \A k \in 1 .. e - b : b + k \in 1 .. Len(s)
  BY <1>1
<1>4. \A k \in 1 .. e - b : s[b + k] \in STRING
  BY <1>3
<1>5. e - b \in Nat
  OBVIOUS
<1> HIDE DEF SubSeq
<1>6. QED
  BY <1>2, <1>4, <1>5

\* The parser reads from the characters of a component the number that they
\* spell.
LEMMA NumeralIsSpelled ==
    ASSUME NEW s \in Seq(STRING), NEW base \in 1 .. 16,
           NEW b \in Nat, NEW e \in Nat, b <= e, e <= Len(s),
           \A k \in b + 1 .. e : is_valid_digit(base, s[k])
    PROVE  /\ Value(SubSeq(s, b + 1, e), base) = Numeral(s, base, b, e)
           /\ Numeral(s, base, b, e) \in Nat
<1> DEFINE c == SubSeq(s, b + 1, e)
<1>1. /\ c \in Seq(STRING)
      /\ Len(c) = e - b
      /\ \A k \in 1 .. e - b : c[k] = s[b + k]
  BY CharactersOf
<1> HIDE DEF c
<1>2. \A k \in 1 .. e - b :
         is_valid_digit(base, s[b + k]) /\ convert_digit(s[b + k]) \in Nat
  <2> TAKE k \in 1 .. e - b
  <2>1. is_valid_digit(base, s[b + k])
    BY b + k \in b + 1 .. e
  <2>2. convert_digit(s[b + k]) \in 0 .. base - 1
    BY <2>1, DigitIsNat
  <2>3. QED
    BY <2>1, <2>2
<1>3. \A k \in DOMAIN c : is_valid_digit(base, c[k])
  BY <1>1, <1>2
<1>4. PICK g :
         /\ g[0] = 0
         /\ \A k \in 1 .. Len(c) : g[k] = g[k - 1] * base + convert_digit(c[k])
         /\ Value(c, base) = g[Len(c)]
  BY <1>1, <1>3, SpelledByDigit
<1>5. PICK u : Reads(u, s, base, b, e)
  BY base \in Nat, NumeralByDigit
<1> DEFINE S == {k \in Nat : k <= e - b => u[b + k] = g[k] /\ g[k] \in Nat}
<1>6. 0 \in S
  <2>1. b + 0 = b /\ u[b] = g[0] /\ g[0] \in Nat
    BY <1>4, <1>5 DEF Reads
  <2>2. QED
    BY <2>1
<1>7. ASSUME NEW k \in Nat, k \in S PROVE k + 1 \in S
  <2> SUFFICES ASSUME k + 1 <= e - b
               PROVE  u[b + (k + 1)] = g[k + 1] /\ g[k + 1] \in Nat
    BY k + 1 \in Nat
  <2>1. u[b + k] = g[k] /\ g[k] \in Nat
    BY <1>7
  <2>2. k + 1 \in 1 .. e - b /\ b + (k + 1) \in b + 1 .. e
    OBVIOUS
  <2>3. c[k + 1] = s[b + (k + 1)] /\ convert_digit(s[b + (k + 1)]) \in Nat
    BY <1>1, <1>2, <2>2
  <2>4. g[k + 1] = g[(k + 1) - 1] * base + convert_digit(c[k + 1])
    BY <1>1, <1>4, <2>2
  <2>5. u[b + (k + 1)] = u[(b + (k + 1)) - 1] * base + convert_digit(s[b + (k + 1)])
    BY <1>5, <2>2 DEF Reads
  <2>6. (k + 1) - 1 = k /\ (b + (k + 1)) - 1 = b + k
    OBVIOUS
  <2>7. u[b + (k + 1)] = g[k + 1]
    BY <2>1, <2>3, <2>4, <2>5, <2>6
  <2>8. g[k] * base \in Nat
    BY <2>1
  <2>9. g[k + 1] \in Nat
    BY <2>3, <2>4, <2>6, <2>8
  <2>10. QED
    BY <2>7, <2>9
<1>8. e - b \in S
  <2>1. e - b \in Nat
    OBVIOUS
  <2> HIDE DEF S
  <2>2. QED
    BY <1>6, <1>7, <2>1, UpFromZero
<1>9. u[e] = g[Len(c)] /\ u[e] \in Nat
  BY <1>1, <1>8, b + (e - b) = e
<1>10. QED
  BY <1>4, <1>5, <1>9 DEF c, Reads

\* A leading zero says nothing.
LEMMA LeadingZero ==
    ASSUME NEW s, NEW base \in 1 .. 16, NEW b \in Nat, NEW e \in Nat, b < e, s[b + 1] = "0"
    PROVE  Numeral(s, base, b, e) = Numeral(s, base, b + 1, e)
<1>1. convert_digit("0") = 0
  <2>1. \A x \in 1 .. 16 : Digits[x] = "0" <=> x = 1
    BY DEF Digits
  <2>2. (CHOOSE x \in 1 .. 16 : Digits[x] = "0") = 1
    BY <2>1
  <2>3. QED
    BY <2>2 DEF convert_digit
<1>2. PICK u : Reads(u, s, base, b, e)
  <2>1. base \in Nat /\ b <= e
    OBVIOUS
  <2>2. QED
    BY <2>1, NumeralByDigit, Zenon
<1>3. PICK v : Reads(v, s, base, b + 1, e)
  <2>1. base \in Nat /\ b + 1 \in Nat /\ b + 1 <= e
    OBVIOUS
  <2>2. QED
    BY <2>1, NumeralByDigit, Zenon
<1>4. u[b + 1] = 0
  <2>1. u[b + 1] = u[(b + 1) - 1] * base + convert_digit(s[b + 1])
    BY <1>2, b + 1 \in b + 1 .. e DEF Reads
  <2>2. (b + 1) - 1 = b
    OBVIOUS
  <2>3. u[b + 1] = 0 * base + 0
    BY <1>1, <1>2, <2>1, <2>2 DEF Reads
  <2>4. QED
    BY <2>3
<1> DEFINE S == {k \in Nat : k <= e - (b + 1) => u[(b + 1) + k] = v[(b + 1) + k]}
<1>5. 0 \in S
  BY <1>3, <1>4, (b + 1) + 0 = b + 1 DEF Reads
<1>6. ASSUME NEW k \in Nat, k \in S PROVE k + 1 \in S
  <2> SUFFICES ASSUME k + 1 <= e - (b + 1)
               PROVE  u[(b + 1) + (k + 1)] = v[(b + 1) + (k + 1)]
    OBVIOUS
  <2> DEFINE j == (b + 1) + (k + 1)
  <2>1. u[(b + 1) + k] = v[(b + 1) + k]
    BY <1>6
  <2>2. j \in b + 1 .. e /\ j \in (b + 1) + 1 .. e /\ j - 1 = (b + 1) + k
    OBVIOUS
  <2> HIDE DEF j
  <2>3. u[j] = u[j - 1] * base + convert_digit(s[j])
    BY <1>2, <2>2 DEF Reads
  <2>4. v[j] = v[j - 1] * base + convert_digit(s[j])
    BY <1>3, <2>2 DEF Reads
  <2>5. u[j] = v[j]
    BY <2>1, <2>2, <2>3, <2>4
  <2>6. QED
    BY <2>5 DEF j
<1>7. e - (b + 1) \in S
  <2>1. e - (b + 1) \in Nat
    OBVIOUS
  <2> HIDE DEF S
  <2>2. QED
    BY <1>5, <1>6, <2>1, UpFromZero
<1>8. u[e] = v[e]
  BY <1>7, (b + 1) + (e - (b + 1)) = e
<1>9. QED
  BY <1>2, <1>3, <1>8 DEF Reads

----------------------------------------------------------------------------
(* A component that the parser reads is one of the documented syntax.      *)

\* The digits that a component is made of are read up to its end, if they are no
\* more than l and their value is no more than m.
ParsesAs(a, t, base, m, l) ==
    /\ a = IF /\ Spelled(t, base) # {}
              /\ l > 0 => Len(t) <= l
              /\ Value(t, base) <= m
           THEN Value(t, base)
           ELSE Rejected
    /\ Spelled(t, base) # {}
          => Spelled(t, base) = {Value(t, base)} /\ Value(t, base) \in Nat

\* parse_address_component reads a component so.
LEMMA ParsesDigits ==
    ASSUME NEW s \in Seq(STRING), NEW b, NEW e, IsComponent(s, b, e),
           NEW base \in 1 .. 16, NEW m \in Int, NEW l \in Nat
    PROVE  ParsesAs(parse_address_component(s, base, ".", m, l, b),
                    SubSeq(s, b + 1, e), base, m, l)
<1> DEFINE t == SubSeq(s, b + 1, e)
           AllDigits == \A k \in b .. e - 1 : is_valid_digit(base, s[k + 1])
<1>1. Len(s) \in Nat /\ b \in Nat /\ e \in Nat /\ b <= e /\ e <= Len(s)
  BY DEF IsComponent
<1>2. t \in Seq(STRING) /\ Len(t) = e - b /\ \A k \in 1 .. e - b : t[k] = s[b + k]
  BY <1>1, CharactersOf
<1> HIDE DEF t
<1>3. t # <<>> <=> e > b
  BY <1>1, <1>2
<1>4. (\A k \in DOMAIN t : is_valid_digit(base, t[k])) <=> AllDigits
  <2>1. DOMAIN t = 1 .. e - b
    BY <1>2
  <2>2. \A k \in 1 .. e - b : k + b - 1 \in b .. e - 1 /\ (k + b - 1) + 1 = b + k
    BY <1>1
  <2>3. \A k \in b .. e - 1 : k - b + 1 \in 1 .. e - b /\ b + (k - b + 1) = k + 1
    BY <1>1
  <2>4. QED
    BY <1>2, <2>1, <2>2, <2>3
<1>5. Spelled(t, base) = IF e > b /\ AllDigits THEN {Value(t, base)} ELSE {}
  BY <1>3, <1>4, SpelledIsValue
<1>6. AllDigits => Value(t, base) = Numeral(s, base, b, e) /\ Value(t, base) \in Nat
  <2>1. AllDigits => \A k \in b + 1 .. e : is_valid_digit(base, s[k])
    <3>1. \A k \in b + 1 .. e : k - 1 \in b .. e - 1 /\ (k - 1) + 1 = k
      BY <1>1
    <3>2. QED
      BY <3>1
  <2>2. ASSUME \A k \in b + 1 .. e : is_valid_digit(base, s[k])
        PROVE  /\ Value(SubSeq(s, b + 1, e), base) = Numeral(s, base, b, e)
               /\ Numeral(s, base, b, e) \in Nat
    BY <1>1, <2>2, NumeralIsSpelled, Zenon
  <2>3. QED
    BY <2>1, <2>2 DEF t
<1>7. ComponentEnd(s, b, ".") = e
  BY ComponentEnds
<1> HIDE DEF AllDigits
<1>8. parse_address_component(s, base, ".", m, l, b) =
         IF /\ e > b /\ (l > 0 => e - b <= l)
            /\ AllDigits
            /\ Numeral(s, base, b, e) <= m
         THEN Numeral(s, base, b, e)
         ELSE Rejected
  BY <1>7 DEF parse_address_component, AllDigits
<1>9. QED
  BY <1>2, <1>5, <1>6, <1>8 DEF t, ParsesAs

\* The widths, as numbers.
LEMMA Widths ==
    /\ Octet \in Nat /\ Octet >= 2
    /\ Word \in Nat
    /\ Word \div 2 \in Nat
    /\ Octet <= Word \div 2
    /\ 2 * (Word \div 2) <= Word
    /\ Word <= 2 * (Word \div 2) + 1
<1>1. Octet \in Nat /\ Octet >= 2
  BY WidthAssumption
<1>2. Octet * Octet \in Nat /\ Octet * Octet >= 2 * Octet
  <2>1. Octet * Octet = (Octet - 2) * Octet + 2 * Octet
    BY <1>1
  <2>2. (Octet - 2) * Octet \in Nat
    BY <1>1
  <2>3. QED
    BY <1>1, <2>1, <2>2
<1> DEFINE q == Octet * Octet
<1>3. q * Octet \in Nat /\ q * Octet >= 2 * q
  <2>1. q \in Nat
    BY <1>2
  <2> HIDE DEF q
  <2>2. q * Octet = q * (Octet - 2) + 2 * q /\ q * (Octet - 2) \in Nat
    BY <1>1, <2>1
  <2>3. QED
    BY <1>1, <2>1, <2>2
<1> DEFINE c == q * Octet
<1>4. c * Octet \in Nat /\ c * Octet >= 2 * c
  <2>1. c \in Nat
    BY <1>3
  <2> HIDE DEF c
  <2>2. c * Octet = c * (Octet - 2) + 2 * c /\ c * (Octet - 2) \in Nat
    BY <1>1, <2>1
  <2>3. QED
    BY <1>1, <2>1, <2>2
<1>5. Word = c * Octet
  BY DEF Word
<1> HIDE DEF q, c
<1>6. q >= 2 * Octet /\ q \in Nat
  BY <1>2 DEF q
<1>7. c \in Nat /\ c >= 2 * q
  BY <1>3 DEF c
<1>8. Word \in Nat /\ Word >= 2 * Octet
  BY <1>1, <1>4, <1>5, <1>6, <1>7
<1>9. QED
  BY <1>1, <1>8

\* A component stands for one number or for none.
OneOrNone(values) == values = {} \/ \E v \in Nat : values = {v}

\* What a component is worth to the code, if it is below a limit.
Meant(c) == CHOOSE n \in AsRead(c) : TRUE
Means(c, limit) == \E n \in AsRead(c) : n < limit

\* A component is read if it spells a number that fits, and has that value: the
\* last one of a literal with dots, or any other one, as an octet, the only one
\* as all of the address.
LEMMA ReadsComponent ==
    ASSUME NEW s \in Seq(STRING), NEW b, NEW e, IsComponent(s, b, e),
           NEW m, NEW limit, \/ m = Octet - 1 /\ limit = Octet
                             \/ m = Word - 1 /\ limit = Word \div 2
    PROVE  LET t == SubSeq(s, b + 1, e)
               r == parse_inet_component(s, m, b)
           IN  /\ r \in Int
               /\ OneOrNone(AsRead(t))
               /\ IF Means(t, limit)
                  THEN /\ r = Meant(t)
                       /\ r \in 0 .. limit - 1
                  ELSE r < 0
<1> DEFINE t == SubSeq(s, b + 1, e)
           r == parse_inet_component(s, m, b)
           Read(x) == ToInt(IF x <= m THEN x ELSE Rejected)
           Good == \/ AsRead(t) = {} /\ r = -1
                   \/ \E v \in Nat : AsRead(t) = {v} /\ r = Read(v)
<1>1. /\ Len(s) \in Nat /\ b \in Nat /\ e \in Nat /\ b <= e /\ e <= Len(s)
      /\ e = Len(s) \/ Has(s, e, ".")
      /\ \A j \in b .. e - 1 : ~Has(s, j, ".")
  BY DEF IsComponent
<1>2. t \in Seq(STRING) /\ Len(t) = e - b /\ \A k \in 1 .. e - b : t[k] = s[b + k]
  BY <1>1, CharactersOf
<1>3. m \in Int
  BY Widths
<1>4. b + 1 + 1 = b + 2 /\ (e - b > 1 <=> b + 1 < e) /\ DOMAIN t = 1 .. e - b
  BY <1>1, <1>2
\* Digits in a base that start at n.
<1>5. ASSUME NEW n \in b .. e, NEW base \in {8, 10, 16}
      PROVE  LET a == parse_address_component(s, base, ".", m, 0, n)
                 d == SubSeq(s, n + 1, e)
             IN  \/ Spelled(d, base) = {} /\ ToInt(a) = -1
                 \/ \E v \in Nat : /\ Spelled(d, base) = {v}
                                   /\ v = Value(d, base)
                                   /\ ToInt(a) = Read(v)
  <2> DEFINE a == parse_address_component(s, base, ".", m, 0, n)
             d == SubSeq(s, n + 1, e)
  <2>1. IsComponent(s, n, e)
    BY <1>1 DEF IsComponent
  <2>2. base \in 1 .. 16 /\ 0 \in Nat
    OBVIOUS
  <2>3. ParsesAs(a, d, base, m, 0)
    BY <1>3, <2>1, <2>2, ParsesDigits
  <2> HIDE DEF a, d
  <2>4. CASE Spelled(d, base) = {}
    <3>1. a = Rejected
      BY <2>3, <2>4 DEF ParsesAs
    <3>2. QED
      BY <2>4, <3>1, RejectedStays DEF a, d
  <2>5. CASE Spelled(d, base) # {}
    <3>1. a = IF Value(d, base) <= m THEN Value(d, base) ELSE Rejected
      BY <2>3, <2>5 DEF ParsesAs
    <3>2. ToInt(a) = Read(Value(d, base))
      BY <3>1
    <3>3. QED
      BY <2>3, <2>5, <3>2 DEF a, d, ParsesAs
  <2>6. QED
    BY <2>4, <2>5
<1> HIDE DEF Read
\* Where the prefix of a component is.
<1>6. \A c \in {"0", "x"} : \A k \in {0, 1} :
         Has(s, b + k, c) => k < e - b \/ \E j \in b .. b + k - 1 : Has(s, j, ".")
  BY <1>1 DEF Has
<1>7. Good
  <2>1. CASE b + 1 < Len(s) /\ Has(s, b, "0") /\ Has(s, b + 1, "x")
    <3>1. e # b /\ e # b + 1
      BY <1>1, <2>1 DEF Has
    <3>2. b + 2 \in b .. e
      BY <1>1, <3>1
    <3>3. Len(t) > 1 /\ t[1] = "0" /\ t[2] = "x"
      BY <1>1, <1>2, <2>1, <3>1, <1>4 DEF Has
    <3>4. SubSeq(t, 3, Len(t)) = SubSeq(s, (b + 2) + 1, e)
      <4>1. SubSeq(t, 3, Len(t)) = [k \in 1 .. Len(t) - 2 |-> t[k + 2]]
        BY <1>2, <3>3
      <4>2. SubSeq(s, (b + 2) + 1, e) = [k \in 1 .. e - (b + 2) |-> s[k + (b + 2)]]
        BY <1>1, <3>2
      <4>3. \A k \in 1 .. e - (b + 2) : t[k + 2] = s[k + (b + 2)]
        <5> TAKE k \in 1 .. e - (b + 2)
        <5>1. k + 2 \in 1 .. e - b /\ b + (k + 2) = k + (b + 2)
          BY <1>1
        <5>2. QED
          BY <1>2, <5>1
      <4>4. Len(t) - 2 = e - (b + 2)
        BY <1>1, <1>2
      <4> HIDE DEF t
      <4>5. SubSeq(t, 3, Len(t)) = [k \in 1 .. e - (b + 2) |-> t[k + 2]]
        BY <4>1, <4>4
      <4>6. QED
        BY <4>2, <4>3, <4>5
    <3>5. AsRead(t) = Spelled(SubSeq(s, (b + 2) + 1, e), 16)
      <4>1. ~TwoZeros(t)
        BY <3>3 DEF TwoZeros
      <4>2. AnyBase(t) = Spelled(SubSeq(t, 3, Len(t)), 16)
        BY <3>3 DEF AnyBase
      <4>3. QED
        BY <3>4, <4>1, <4>2 DEF AsRead
    <3>6. r = ToInt(parse_address_component(s, 16, ".", m, 0, b + 2))
      BY <2>1 DEF parse_inet_component
    <3>7. QED
      BY <1>5, <3>2, <3>5, <3>6
  <2>2. CASE /\ ~(b + 1 < Len(s) /\ Has(s, b, "0") /\ Has(s, b + 1, "x"))
             /\ Has(s, b, "0") /\ b + 1 < e /\ ~Has(s, b + 1, "0")
    <3> DEFINE d == SubSeq(s, (b + 1) + 1, e)
    <3>1. b + 1 \in b .. e /\ b + 1 \in Nat /\ b + 1 < Len(s)
      BY <1>1, <2>2
    <3>2. Len(t) > 1 /\ t[1] = "0" /\ t[2] = s[b + 2] /\ t[2] # "x" /\ t[2] # "0"
      BY <1>1, <1>2, <2>2, <3>1, <1>4 DEF Has
    <3> HIDE DEF t
    <3>3. AsRead(t) = Spelled(t, 8)
      BY <3>2 DEF AsRead, AnyBase, TwoZeros
    <3>4. CASE HasDigit(s, b + 1)
      <4>1. r = ToInt(parse_address_component(s, 8, ".", m, 0, b + 1))
        BY <2>2, <3>1, <3>4 DEF parse_inet_component
      <4>2. d \in Seq(STRING) /\ Len(d) = e - (b + 1)
            /\ \A k \in 1 .. e - (b + 1) : d[k] = s[(b + 1) + k]
        <5>1. b + 1 \in Nat /\ b + 1 <= e /\ e <= Len(s) /\ e \in Nat
          BY <1>1, <3>1
        <5>2. QED
          BY <5>1, CharactersOf
      <4> HIDE DEF d
      <4>3. is_valid_digit(8, "0")
        BY DEF is_valid_digit, Digits
      <4>4. ASSUME \A k \in DOMAIN d : is_valid_digit(8, d[k])
            PROVE  \A k \in DOMAIN t : is_valid_digit(8, t[k])
        <5> TAKE k \in DOMAIN t
        <5>1. CASE k = 1
          BY <3>2, <4>3, <5>1
        <5>2. CASE k # 1
          <6>1. k \in 1 .. e - b
            BY <1>2
          <6>2. k - 1 \in DOMAIN d /\ k - 1 \in 1 .. e - (b + 1) /\ (b + 1) + (k - 1) = b + k
            BY <1>1, <4>2, <5>2, <6>1
          <6>3. t[k] = d[k - 1]
            BY <1>2, <4>2, <6>1, <6>2
          <6>4. QED
            BY <4>4, <6>2, <6>3
        <5>3. QED
          BY <5>1, <5>2
      <4>5. ASSUME \A k \in DOMAIN t : is_valid_digit(8, t[k])
            PROVE  \A k \in DOMAIN d : is_valid_digit(8, d[k])
        <5> TAKE k \in DOMAIN d
        <5>1. k \in 1 .. e - (b + 1)
          BY <4>2
        <5>2. k + 1 \in DOMAIN t /\ k + 1 \in 1 .. e - b /\ b + (k + 1) = (b + 1) + k
          BY <1>1, <1>4, <5>1
        <5>3. d[k] = t[k + 1]
          BY <1>2, <4>2, <5>1, <5>2
        <5>4. QED
          BY <4>5, <5>2, <5>3
      <4>6. t # <<>> /\ d # <<>>
        BY <1>1, <2>2, <3>2, <4>2
      <4>7. ASSUME \A k \in DOMAIN t : is_valid_digit(8, t[k])
            PROVE  Value(t, 8) = Value(d, 8)
        <5>1. \A k \in b + 1 .. e : is_valid_digit(8, s[k])
          <6> TAKE k \in b + 1 .. e
          <6>1. k - b \in DOMAIN t /\ k - b \in 1 .. e - b /\ b + (k - b) = k
            BY <1>1, <1>2
          <6>2. QED
            BY <1>2, <4>7, <6>1
        <5>2. \A k \in (b + 1) + 1 .. e : is_valid_digit(8, s[k])
          BY <1>1, <5>1
        <5>3. 8 \in 1 .. 16 /\ b <= e /\ b + 1 <= e /\ b < e /\ s[b + 1] = "0"
          BY <1>1, <2>2 DEF Has
        <5>4. Value(SubSeq(s, b + 1, e), 8) = Numeral(s, 8, b, e)
          BY <1>1, <5>1, <5>3, NumeralIsSpelled, Zenon
        <5>5. Value(SubSeq(s, (b + 1) + 1, e), 8) = Numeral(s, 8, b + 1, e)
          BY <1>1, <3>1, <5>2, <5>3, NumeralIsSpelled, Zenon
        <5>6. Numeral(s, 8, b, e) = Numeral(s, 8, b + 1, e)
          BY <1>1, <5>3, LeadingZero, Zenon
        <5>7. QED
          BY <5>4, <5>5, <5>6 DEF t, d
      <4>8. Spelled(t, 8) = Spelled(d, 8)
        BY <4>4, <4>5, <4>6, <4>7, SpelledIsValue
      <4>9. QED
        BY <1>5, <3>1, <3>3, <4>1, <4>8 DEF d
    <3>5. CASE ~HasDigit(s, b + 1)
      <4>1. r = ToInt(parse_address_component(s, 10, ".", m, 0, b))
        BY <2>2, <3>5 DEF parse_inet_component
      <4>2. ~is_valid_digit(10, t[2])
        BY <3>1, <3>2, <3>5, <1>4 DEF HasDigit
      <4>3. is_valid_digit(8, t[2]) => is_valid_digit(10, t[2])
        BY DEF is_valid_digit
      <4>4. 2 \in DOMAIN t
        BY <1>2, <3>2
      <4>5. Spelled(t, 8) = {} /\ Spelled(t, 10) = {}
        BY <4>2, <4>3, <4>4, SpelledIsValue
      <4>6. b \in b .. e
        BY <1>1
      <4>7. r = -1
        BY <1>5, <4>1, <4>5, <4>6 DEF t
      <4>8. QED
        BY <3>3, <4>5, <4>7
    <3>6. QED
      BY <3>4, <3>5
  <2>3. CASE /\ ~(b + 1 < Len(s) /\ Has(s, b, "0") /\ Has(s, b + 1, "x"))
             /\ ~(Has(s, b, "0") /\ b + 1 < e /\ ~Has(s, b + 1, "0"))
    <3>1. ~(Has(s, b, "0") /\ HasDigit(s, b + 1) /\ ~Has(s, b + 1, "0"))
      <4> SUFFICES ASSUME Has(s, b, "0"), HasDigit(s, b + 1) PROVE b + 1 < e
        BY <2>3
      <4>1. s[b + 2] # "." /\ b + 1 < Len(s)
        BY <1>1, ColonIsNoDigit, <1>4 DEF HasDigit
      <4>2. e # b /\ e # b + 1
        BY <1>1, <4>1, <1>4 DEF Has
      <4>3. QED
        BY <1>1, <4>2
    <3>2. r = ToInt(parse_address_component(s, 10, ".", m, 0, b))
      BY <2>3, <3>1 DEF parse_inet_component
    <3>3. Len(t) > 1 => t[1] = s[b + 1] /\ t[2] = s[b + 2] /\ b + 1 < e
      <4>1. e - b > 1 => 1 \in 1 .. e - b /\ 2 \in 1 .. e - b
        BY <1>1
      <4>2. QED
        BY <1>2, <1>4, <4>1
    <3> HIDE DEF t
    <3>4. ~(Len(t) > 1 /\ t[1] = "0" /\ t[2] = "x")
      BY <1>1, <2>3, <3>3, <1>4 DEF Has
    <3>5. ~(Len(t) > 1 /\ t[1] = "0" /\ t[2] \notin {"x", "0"})
      BY <1>1, <2>3, <3>3, <1>4 DEF Has
    <3>6. AsRead(t) = Spelled(t, 10)
      <4>1. TwoZeros(t) \/ AnyBase(t) = Spelled(t, 10)
        BY <3>4, <3>5 DEF TwoZeros, AnyBase
      <4>2. QED
        BY <4>1 DEF AsRead
    <3>7. b \in b .. e
      BY <1>1
    <3>8. QED
      BY <1>5, <3>2, <3>6, <3>7 DEF t
  <2>4. QED
    BY <1>1, <2>1, <2>2, <2>3
<1> HIDE DEF t, r
<1>8. CASE AsRead(t) = {} /\ r = -1
  <2>1. ~Means(t, limit)
    BY <1>8 DEF Means
  <2>2. QED
    BY <1>8, <2>1 DEF t, r, OneOrNone
<1>9. ASSUME NEW v \in Nat, AsRead(t) = {v}, r = Read(v)
      PROVE  r \in Int /\ OneOrNone(AsRead(t)) /\ IF Means(t, limit) THEN r = Meant(t) /\ r \in 0 .. limit - 1 ELSE r < 0
  <2>1. Meant(t) = v
    BY <1>9 DEF Meant
  <2>2. Means(t, limit) <=> v < limit
    BY <1>9 DEF Means
  <2>3. OneOrNone(AsRead(t))
    BY <1>9 DEF OneOrNone
  <2>4. CASE m = Octet - 1 /\ limit = Octet
    BY <1>9, <2>1, <2>2, <2>3, <2>4, Widths DEF Read, ToInt, Rejected
  <2>5. CASE m = Word - 1 /\ limit = Word \div 2
    BY <1>9, <2>1, <2>2, <2>3, <2>5, Widths DEF Read, ToInt, Rejected
  <2>6. QED
    BY <2>4, <2>5
<1>10. QED
  BY <1>7, <1>8, <1>9 DEF t, r

\* Without a leading zero, more digits than OctetDigits spell more than an octet.
LEMMA TooManyDigits ==
    ASSUME NEW s \in Seq(STRING), NEW b \in Nat, NEW e \in Nat, e <= Len(s),
           \A k \in b + 1 .. e : is_valid_digit(10, s[k]),
           s[b + 1] # "0", e - b > OctetDigits
    PROVE  Numeral(s, 10, b, e) >= Octet
<1> DEFINE nines == [d \in 1 .. OctetDigits |-> "9"]
<1>1. OctetDigits \in Nat /\ OctetDigits >= 1 /\ Octet \in Nat /\ Len(s) \in Nat
  BY WidthAssumption
<1>2. convert_digit("9") = 9
  <2>1. \A x \in 1 .. 16 : Digits[x] = "9" <=> x = 10
    BY DEF Digits
  <2>2. (CHOOSE x \in 1 .. 16 : Digits[x] = "9") = 10
    BY <2>1
  <2>3. QED
    BY <2>2 DEF convert_digit
<1>3. \A k \in 1 .. OctetDigits : convert_digit(nines[k]) = 9
  BY <1>2
<1>4. Octet - 1 <= Numeral(nines, 10, 0, OctetDigits)
  BY DigitsAssumption
<1> HIDE DEF nines
<1>5. PICK w : Reads(w, nines, 10, 0, OctetDigits)
  BY <1>1, NumeralByDigit, 10 \in Nat, 0 \in Nat, 0 <= OctetDigits
<1>6. PICK u : Reads(u, s, 10, b, e)
  BY <1>1, NumeralByDigit, 10 \in Nat, b <= e
<1>7. /\ w[0] = 0
      /\ \A k \in 1 .. OctetDigits : w[k] = w[k - 1] * 10 + 9
      /\ Octet - 1 <= w[OctetDigits]
  <2>1. \A k \in 1 .. OctetDigits : w[k] = w[k - 1] * 10 + convert_digit(nines[k])
    BY <1>5, 0 + 1 = 1 DEF Reads
  <2>2. QED
    BY <1>3, <1>4, <1>5, <2>1 DEF Reads
<1>8. \A k \in b + 1 .. e : convert_digit(s[k]) \in Nat /\ (s[k] # "0" => convert_digit(s[k]) >= 1)
  <2> TAKE k \in b + 1 .. e
  <2>1. is_valid_digit(10, s[k]) /\ 10 \in 1 .. 16
    OBVIOUS
  <2>2. convert_digit(s[k]) \in 0 .. 10 - 1 /\ (s[k] # "0" => convert_digit(s[k]) >= 1)
    BY <2>1, DigitIsNat
  <2>3. QED
    BY <2>2
\* k + 1 digits spell more than k nines.
<1> DEFINE More(k) == u[b + (k + 1)] \in Nat /\ w[k] \in Nat /\ u[b + (k + 1)] >= w[k] + 1
           S == {k \in Nat : k <= OctetDigits => More(k)}
<1>9. 0 \in S
  <2>1. b + 1 \in b + 1 .. e /\ (b + 1) - 1 = b /\ b + (0 + 1) = b + 1
    BY <1>1
  <2>2. u[b + 1] = 0 * 10 + convert_digit(s[b + 1])
    BY <1>6, <2>1 DEF Reads
  <2>3. convert_digit(s[b + 1]) \in Nat /\ convert_digit(s[b + 1]) >= 1
    BY <1>8, <2>1
  <2>4. u[b + 1] \in Nat /\ u[b + 1] >= 1
    BY <2>2, <2>3
  <2>5. More(0)
    BY <1>7, <2>1, <2>4
  <2> HIDE DEF More
  <2>6. QED
    BY <2>5
<1>10. ASSUME NEW k \in Nat, k \in S PROVE k + 1 \in S
  <2> SUFFICES ASSUME k + 1 <= OctetDigits PROVE More(k + 1)
    <3> HIDE DEF More
    <3>1. QED
      BY k + 1 \in Nat
  <2>1. More(k)
    BY <1>1, <1>10
  <2>2. k + 1 \in 1 .. OctetDigits /\ (k + 1) - 1 = k
    BY <1>1
  <2>3. w[k + 1] = w[k] * 10 + 9
    BY <1>7, <2>2
  <2> DEFINE j == b + ((k + 1) + 1)
  <2>4. j \in b + 1 .. e /\ j - 1 = b + (k + 1)
    BY <1>1
  <2> HIDE DEF j
  <2>5. u[j] = u[b + (k + 1)] * 10 + convert_digit(s[j])
    BY <1>6, <2>4 DEF Reads
  <2>6. convert_digit(s[j]) \in Nat
    BY <1>8, <2>4
  <2>7. u[j] \in Nat /\ w[k + 1] \in Nat /\ u[j] >= w[k + 1] + 1
    <3>1. PICK x \in Nat, y \in Nat, d \in Nat :
             x = u[b + (k + 1)] /\ y = w[k] /\ d = convert_digit(s[j])
      BY <2>1, <2>6
    <3>2. x >= y + 1
      BY <2>1, <3>1
    <3>3. u[j] = x * 10 + d /\ w[k + 1] = y * 10 + 9
      BY <2>3, <2>5, <3>1
    <3>4. QED
      BY <3>2, <3>3
  <2>8. QED
    BY <2>7 DEF j
<1>11. More(OctetDigits)
  <2>1. OctetDigits \in S
    <3> HIDE DEF S
    <3>1. QED
      BY <1>1, <1>9, <1>10, UpFromZero
  <2> HIDE DEF More
  <2>2. QED
    BY <1>1, <2>1
\* The digits behind them make it no less.
<1> DEFINE Big(k) == u[b + k] \in Nat /\ u[b + k] >= Octet
           T == {k \in Nat : (OctetDigits + 1) + k <= e - b => Big((OctetDigits + 1) + k)}
<1>12. 0 \in T
  <2>1. Big(OctetDigits + 1)
    BY <1>1, <1>7, <1>11
  <2> HIDE DEF Big
  <2>2. (OctetDigits + 1) + 0 = OctetDigits + 1
    BY <1>1
  <2>3. QED
    BY <2>1, <2>2
<1>13. ASSUME NEW k \in Nat, k \in T PROVE k + 1 \in T
  <2> DEFINE n == (OctetDigits + 1) + k
             j == b + ((OctetDigits + 1) + (k + 1))
  <2> SUFFICES ASSUME (OctetDigits + 1) + (k + 1) <= e - b
               PROVE  Big((OctetDigits + 1) + (k + 1))
    <3> HIDE DEF Big
    <3>1. QED
      BY k + 1 \in Nat
  <2>1. Big(n)
    <3>1. n <= e - b
      BY <1>1
    <3> HIDE DEF Big
    <3>2. QED
      BY <1>13, <3>1
  <2>2. j \in b + 1 .. e /\ j - 1 = b + n
    BY <1>1
  <2> HIDE DEF j, n
  <2>3. u[j] = u[b + n] * 10 + convert_digit(s[j])
    BY <1>6, <2>2 DEF Reads
  <2>4. convert_digit(s[j]) \in Nat
    BY <1>8, <2>2
  <2>5. u[j] \in Nat /\ u[j] >= Octet
    BY <1>1, <2>1, <2>3, <2>4
  <2>6. QED
    BY <2>5 DEF j
<1>14. Big(e - b)
  <2> DEFINE k == (e - b) - (OctetDigits + 1)
  <2>1. k \in Nat /\ (OctetDigits + 1) + k = e - b
    BY <1>1
  <2> HIDE DEF k
  <2>2. k \in T
    <3> HIDE DEF T
    <3>1. QED
      BY <1>12, <1>13, <2>1, UpFromZero
  <2> HIDE DEF Big
  <2>3. QED
    BY <2>1, <2>2
<1>15. QED
  BY <1>6, <1>14, b + (e - b) = e DEF Reads

\* What a canonical component is worth.
MeantCanonical(c) == CHOOSE n \in Canonical(c) : TRUE
MeansCanonical(c) == \E n \in Canonical(c) : n < Octet

\* A component in canonical form is read, and no other one.
LEMMA ReadsCanonicalComponent ==
    ASSUME NEW s \in Seq(STRING), NEW b, NEW e, IsComponent(s, b, e)
    PROVE  LET t == SubSeq(s, b + 1, e)
               r == parse_inet_component_canonical(s, b)
           IN  IF MeansCanonical(t)
               THEN r = MeantCanonical(t) /\ r \in 0 .. Octet - 1
               ELSE r = Rejected
<1> DEFINE t == SubSeq(s, b + 1, e)
           r == parse_inet_component_canonical(s, b)
           a == parse_address_component(s, 10, ".", Octet - 1, OctetDigits, b)
<1>1. /\ Len(s) \in Nat /\ b \in Nat /\ e \in Nat /\ b <= e /\ e <= Len(s)
      /\ e = Len(s) \/ Has(s, e, ".")
      /\ \A j \in b .. e - 1 : ~Has(s, j, ".")
  BY DEF IsComponent
<1>2. t \in Seq(STRING) /\ Len(t) = e - b /\ \A k \in 1 .. e - b : t[k] = s[b + k]
  BY <1>1, CharactersOf
<1>3. /\ Octet \in Nat /\ Octet >= 2 /\ OctetDigits \in Nat /\ OctetDigits > 0
      /\ Octet - 1 \in Int
  BY WidthAssumption
<1>4. /\ a = IF /\ Spelled(t, 10) # {}
                /\ OctetDigits > 0 => Len(t) <= OctetDigits
                /\ Value(t, 10) <= Octet - 1
             THEN Value(t, 10)
             ELSE Rejected
      /\ Spelled(t, 10) # {}
            => Spelled(t, 10) = {Value(t, 10)} /\ Value(t, 10) \in Nat
  <2>1. 10 \in 1 .. 16
    OBVIOUS
  <2>2. ParsesAs(a, t, 10, Octet - 1, OctetDigits)
    BY <1>3, <2>1, ParsesDigits
  <2>3. QED
    BY <2>2 DEF ParsesAs
<1>5. b + 1 + 1 = b + 2 /\ DOMAIN t = 1 .. e - b
  BY <1>1, <1>2
<1> HIDE DEF a
<1>6. CASE Len(t) > 1 /\ t[1] = "0"
  <2> HIDE DEF t
  <2>1. e - b > 1 /\ b + 1 < e /\ b + 1 < Len(s) /\ s[b + 1] = "0" /\ t[2] = s[b + 2]
    <3>1. e - b > 1
      BY <1>2, <1>6
    <3>2. 1 \in 1 .. e - b /\ 2 \in 1 .. e - b /\ b + 1 < e /\ b + 1 < Len(s)
      BY <1>1, <3>1
    <3>3. QED
      BY <1>2, <1>6, <3>1, <3>2
  <2>2. Canonical(t) = {}
    BY <1>6 DEF Canonical
  <2>3. ~MeansCanonical(t)
    BY <2>2 DEF MeansCanonical
  <2>4. r = Rejected
    <3>1. CASE HasDigit(s, b + 1)
      <4>1. Has(s, b, "0")
        BY <1>1, <2>1 DEF Has
      <4>2. QED
        BY <2>1, <3>1, <4>1 DEF parse_inet_component_canonical
    <3>2. CASE ~HasDigit(s, b + 1)
      <4>1. ~is_valid_digit(10, t[2])
        BY <1>5, <2>1, <3>2 DEF HasDigit
      <4>2. 2 \in DOMAIN t
        BY <1>1, <1>5, <2>1
      <4>3. Spelled(t, 10) = {}
        BY <4>1, <4>2, SpelledIsValue
      <4>4. r = a
        BY <3>2 DEF parse_inet_component_canonical, a
      <4>5. QED
        BY <1>4, <4>3, <4>4
    <3>3. QED
      BY <3>1, <3>2
  <2>5. QED
    BY <2>3, <2>4 DEF t
<1>7. CASE ~(Len(t) > 1 /\ t[1] = "0")
  <2>1. ~(Has(s, b, "0") /\ HasDigit(s, b + 1))
    <3> SUFFICES ASSUME Has(s, b, "0"), HasDigit(s, b + 1) PROVE FALSE
      OBVIOUS
    <3>1. s[b + 2] # "." /\ b + 1 < Len(s) /\ s[b + 1] = "0"
      BY <1>1, <1>5, ColonIsNoDigit DEF HasDigit, Has
    <3>2. e # b /\ e # b + 1
      BY <1>1, <1>5, <3>1 DEF Has
    <3>3. e - b > 1 /\ 1 \in 1 .. e - b
      BY <1>1, <3>2
    <3> HIDE DEF t
    <3>4. QED
      BY <1>2, <1>7, <3>1, <3>3
  <2>2. r = a
    BY <2>1 DEF parse_inet_component_canonical, a
  <2> HIDE DEF r, t
  <2>3. Canonical(t) = Spelled(t, 10)
    BY <1>7 DEF Canonical
  <2>4. CASE Spelled(t, 10) = {}
    BY <1>4, <2>2, <2>3, <2>4 DEF MeansCanonical, r, t
  <2>5. CASE Spelled(t, 10) # {}
    <3> DEFINE v == Value(t, 10)
    <3> HIDE DEF v
    <3>1. Canonical(t) = {v} /\ v \in Nat
      BY <1>4, <2>3, <2>5 DEF v
    <3>2. MeantCanonical(t) = v /\ (MeansCanonical(t) <=> v < Octet)
      BY <3>1 DEF MeantCanonical, MeansCanonical
    <3>3. v < Octet => Len(t) <= OctetDigits
      <4> SUFFICES ASSUME e - b > OctetDigits PROVE v >= Octet
        BY <1>1, <1>2, <1>3, <3>1
      <4>1. t # <<>> /\ \A k \in DOMAIN t : is_valid_digit(10, t[k])
        BY <2>5, SpelledIsValue
      <4>2. \A k \in b + 1 .. e : is_valid_digit(10, s[k])
        <5> TAKE k \in b + 1 .. e
        <5>1. k - b \in 1 .. e - b /\ b + (k - b) = k
          BY <1>1
        <5>2. QED
          BY <1>2, <1>5, <4>1, <5>1
      <4>3. s[b + 1] # "0"
        <5>1. e - b > 1 /\ 1 \in 1 .. e - b
          BY <1>1, <1>3
        <5>2. QED
          BY <1>2, <1>7, <5>1
      <4>4. Numeral(s, 10, b, e) >= Octet
        BY <1>1, <4>2, <4>3, TooManyDigits
      <4>5. Value(SubSeq(s, b + 1, e), 10) = Numeral(s, 10, b, e)
        BY <1>1, <4>2, 10 \in 1 .. 16, NumeralIsSpelled, Zenon
      <4>6. QED
        BY <4>4, <4>5 DEF v, t
    <3>4. r = IF v < Octet THEN v ELSE Rejected
      BY <1>3, <1>4, <2>2, <2>5, <3>1, <3>3 DEF v
    <3>5. IF MeansCanonical(t)
          THEN r = MeantCanonical(t) /\ r \in 0 .. Octet - 1
          ELSE r = Rejected
      <4>1. CASE v < Octet
        BY <1>3, <3>1, <3>2, <3>4, <4>1
      <4>2. CASE ~(v < Octet)
        BY <3>2, <3>4, <4>2
      <4>3. QED
        BY <4>1, <4>2
    <3>6. QED
      BY <3>5 DEF r, t
  <2>6. QED
    BY <2>4, <2>5
<1>8. QED
  BY <1>6, <1>7

----------------------------------------------------------------------------
(* The address that components make.                                       *)

\* A sum of n terms, as the fold over them.
IsSum(it, h, n) ==
    it = [s \in SUBSET (1 .. n) |-> IF s = {} THEN 0 ELSE it[s \ {Max(s)}] + h[Max(s)]]
SumOf(h, n) == (CHOOSE it : IsSum(it, h, n))[1 .. n]

\* One term after the other is added.
LEMMA Sums ==
    ASSUME NEW n \in Nat, NEW h \in [1 .. n -> Nat]
    PROVE  \E g : /\ g[0] = 0
                  /\ \A k \in 1 .. n : g[k] = g[k - 1] + h[k]
                  /\ SumOf(h, n) = g[n]
<1> DEFINE F == [k \in 1 .. n |-> [a \in Nat |-> a + h[k]]]
           iter == CHOOSE it : IsSum(it, h, n)
           g == [k \in 0 .. n |-> iter[1 .. k]]
<1>1. \A k \in 1 .. n : \A a \in Nat : F[k][a] = a + h[k] /\ F[k][a] \in Nat
  OBVIOUS
<1> HIDE DEF F
<1>2. \E it : IsSum(it, h, n)
  <2>1. PICK it : IsFold(it, n, Nat, 0, F)
    <3>1. 0 \in Nat /\ Folds(n, Nat, F)
      BY <1>1 DEF Folds
    <3>2. QED
      BY <3>1, FoldExists, Zenon
  <2>2. ASSUME NEW s \in SUBSET (1 .. n), s # {}
        PROVE  it[s] = it[s \ {Max(s)}] + h[Max(s)]
    <3>1. Max(s) \in 1 .. n
      BY <2>2, MaxIsIn
    <3>2. s \ {Max(s)} \in SUBSET (1 .. n)
      OBVIOUS
    <3>3. it[s \ {Max(s)}] \in Nat /\ it[s] = F[Max(s)][it[s \ {Max(s)}]]
      BY <2>1, <2>2, <3>2 DEF IsFold
    <3>4. QED
      BY <1>1, <3>1, <3>3
  <2>3. IsSum(it, h, n)
    BY <2>1, <2>2 DEF IsFold, IsSum
  <2>4. QED
    BY <2>3
<1>3. IsSum(iter, h, n)
  BY <1>2
<1>4. SumOf(h, n) = iter[1 .. n]
  BY DEF SumOf
<1> HIDE DEF iter
<1>5. \A s \in SUBSET (1 .. n) :
          iter[s] = IF s = {} THEN 0 ELSE iter[s \ {Max(s)}] + h[Max(s)]
  BY <1>3 DEF IsSum
<1>6. iter[{}] = 0
  BY <1>5
<1>7. ASSUME NEW k \in 1 .. n PROVE iter[1 .. k] = iter[1 .. k - 1] + h[k]
  <2>1. 1 .. k \in SUBSET (1 .. n)
    OBVIOUS
  <2>2. /\ 1 .. k # {}
        /\ (1 .. k) \ {Max(1 .. k)} = 1 .. k - 1
        /\ Max(1 .. k) = k
    <3>1. k \in Nat /\ k > 0
      OBVIOUS
    <3>2. QED
      BY <3>1, UpTo, Zenon
  <2>3. QED
    BY <1>5, <2>1, <2>2
<1>8. g[0] = 0
  BY <1>6, 1 .. 0 = {}
<1>9. \A k \in 1 .. n : g[k] = g[k - 1] + h[k]
  BY <1>7
<1>10. g[n] = iter[1 .. n]
  OBVIOUS
<1> HIDE DEF g
<1>11. QED
  BY <1>4, <1>8, <1>9, <1>10

\* An address is no negative number, so it is never Rejected.
LEMMA AddressIsNat ==
    ASSUME NEW c1 \in Nat, NEW c2 \in Nat, NEW c3 \in Nat, NEW c4 \in Nat
    PROVE  Address(c1, c2, c3, c4) \in Nat
<1>1. Octet \in Nat
  BY Widths
<1>2. c1 * Octet \in Nat /\ c1 * Octet + c2 \in Nat
  BY <1>1
<1>3. (c1 * Octet + c2) * Octet \in Nat
  BY <1>1, <1>2
<1>4. ((c1 * Octet + c2) * Octet + c3) * Octet \in Nat
  BY <1>1, <1>3
<1>5. QED
  BY <1>4 DEF Address

\* The octets of an address, weighed.
LEMMA Weighed ==
    \A c1, c2, c3, c4 \in Nat :
        Address(c1, c2, c3, c4)
           = c1 * (Octet * Octet * Octet) + c2 * (Octet * Octet) + c3 * Octet + c4
<1>1. Octet \in Nat
  BY Widths
<1>2. QED
  BY <1>1 DEF Address

\* With components left out.
LEMMA FewWeighed ==
    \A c1, c2, c4 \in Nat :
        /\ Address(c1, c2, 0, c4)
             = c1 * (Octet * Octet * Octet) + c2 * (Octet * Octet) + c4
        /\ Address(c1, 0, 0, c4) = c1 * (Octet * Octet * Octet) + c4
        /\ Address(0, 0, 0, c4) = c4
<1> SUFFICES ASSUME NEW c1 \in Nat, NEW c2 \in Nat, NEW c4 \in Nat
             PROVE  /\ Address(c1, c2, 0, c4)
                         = c1 * (Octet * Octet * Octet) + c2 * (Octet * Octet) + c4
                    /\ Address(c1, 0, 0, c4) = c1 * (Octet * Octet * Octet) + c4
                    /\ Address(0, 0, 0, c4) = c4
  OBVIOUS
<1>1. Octet \in Nat
  BY Widths
<1>2. Address(c1, c2, 0, c4) = c1 * (Octet * Octet * Octet) + c2 * (Octet * Octet) + c4
  BY <1>1 DEF Address
<1>3. Address(c1, 0, 0, c4) = c1 * (Octet * Octet * Octet) + c4
  BY <1>1 DEF Address
<1>4. Address(0, 0, 0, c4) = c4
  BY <1>1 DEF Address
<1>5. QED
  BY <1>2, <1>3, <1>4

\* The address that one to four components make, as inet_addr_impl puts it together.
Joined(n, c) ==
    CASE n = 1 -> Address(0, 0, 0, c[1])
      [] n = 2 -> Address(c[1], 0, 0, c[2])
      [] n = 3 -> Address(c[1], c[2], 0, c[3])
      [] n = 4 -> Address(c[1], c[2], c[3], c[4])

\* It is what the components add up to.
LEMMA SumIsAddress ==
    ASSUME NEW n \in 1 .. 4, NEW c \in [1 .. n -> Nat]
    PROVE  SumOf([k \in 1 .. n |-> c[k] * Weight(k, n)], n) = Joined(n, c)
<1> DEFINE h == [k \in 1 .. n |-> c[k] * Weight(k, n)]
<1>1. Octet \in Nat
  BY Widths
<1>2. /\ Octet * Octet \in Nat /\ Octet * Octet * Octet \in Nat
      /\ \A x \in Nat : x * Octet \in Nat
  BY <1>1
<1>3. \A k \in 1 .. n : Weight(k, n) \in Nat
  BY <1>1, <1>2 DEF Weight
<1>4. \A x, y \in Nat : x * y \in Nat
  OBVIOUS
<1>5. h \in [1 .. n -> Nat]
  BY <1>3, <1>4
<1>6. \A k \in 1 .. n : h[k] = c[k] * Weight(k, n)
  OBVIOUS
<1> HIDE DEF h, Joined
<1>7. PICK g : /\ g[0] = 0
               /\ \A k \in 1 .. n : g[k] = g[k - 1] + h[k]
               /\ SumOf(h, n) = g[n]
  BY <1>5, n \in Nat, Sums
<1>8. CASE n = 1
  <2>1. g[1] = g[1 - 1] + h[1] /\ h[1] = c[1] * 1 /\ c[1] \in Nat
    <3>1. 1 \in 1 .. n /\ Weight(1, n) = 1
      BY <1>8 DEF Weight
    <3>2. QED
      BY <1>6, <1>7, <3>1
  <2>2. g[1] = c[1]
    BY <1>7, <2>1
  <2>3. Address(0, 0, 0, c[1]) = c[1]
    BY <2>1, FewWeighed, Zenon
  <2>4. QED
    BY <1>7, <1>8, <2>2, <2>3 DEF h, Joined
<1>9. CASE n = 2
  <2>1. /\ Weight(1, n) = Octet * Octet * Octet /\ Weight(2, n) = 1
        /\ 1 \in 1 .. n /\ 2 \in 1 .. n
    BY <1>9 DEF Weight
  <2>2. /\ g[1] = g[1 - 1] + h[1] /\ h[1] = c[1] * (Octet * Octet * Octet)
        /\ g[2] = g[2 - 1] + h[2] /\ h[2] = c[2] * 1
        /\ c[1] \in Nat /\ c[2] \in Nat
    BY <1>6, <1>7, <2>1
  <2>3. c[1] * (Octet * Octet * Octet) \in Nat
    BY <1>2, <1>4, <2>2
  <2>4. g[2] = c[1] * (Octet * Octet * Octet) + c[2]
    BY <1>7, <2>2, <2>3
  <2>5. Address(c[1], 0, 0, c[2]) = c[1] * (Octet * Octet * Octet) + c[2]
    <3>1. \A k \in 1 .. n : c[k] \in Nat
      OBVIOUS
    <3>2. c[1] \in Nat /\ c[2] \in Nat
      BY <2>1, <3>1
    <3>3. QED
      BY <3>2, FewWeighed, Zenon
  <2>6. QED
    BY <1>7, <1>9, <2>4, <2>5 DEF h, Joined
<1>10. CASE n = 3
  <2>1. /\ Weight(1, n) = Octet * Octet * Octet /\ Weight(2, n) = Octet * Octet
        /\ Weight(3, n) = 1
        /\ 1 \in 1 .. n /\ 2 \in 1 .. n /\ 3 \in 1 .. n
    BY <1>10 DEF Weight
  <2>2. /\ g[1] = g[1 - 1] + h[1] /\ h[1] = c[1] * (Octet * Octet * Octet)
        /\ g[2] = g[2 - 1] + h[2] /\ h[2] = c[2] * (Octet * Octet)
        /\ g[3] = g[3 - 1] + h[3] /\ h[3] = c[3] * 1
        /\ c[1] \in Nat /\ c[2] \in Nat /\ c[3] \in Nat
    BY <1>6, <1>7, <2>1
  <2>3. c[1] * (Octet * Octet * Octet) \in Nat /\ c[2] * (Octet * Octet) \in Nat
    BY <1>2, <1>4, <2>2
  <2>4. g[3] = c[1] * (Octet * Octet * Octet) + c[2] * (Octet * Octet) + c[3]
    BY <1>7, <2>2, <2>3
  <2>5. Address(c[1], c[2], 0, c[3])
           = c[1] * (Octet * Octet * Octet) + c[2] * (Octet * Octet) + c[3]
    <3>1. \A k \in 1 .. n : c[k] \in Nat
      OBVIOUS
    <3>2. c[1] \in Nat /\ c[2] \in Nat /\ c[3] \in Nat
      BY <2>1, <3>1
    <3>3. QED
      BY <3>2, FewWeighed, Zenon
  <2>6. QED
    BY <1>7, <1>10, <2>4, <2>5 DEF h, Joined
<1>11. CASE n = 4
  <2>1. /\ Weight(1, n) = Octet * Octet * Octet /\ Weight(2, n) = Octet * Octet
        /\ Weight(3, n) = Octet /\ Weight(4, n) = 1
        /\ 1 \in 1 .. n /\ 2 \in 1 .. n /\ 3 \in 1 .. n /\ 4 \in 1 .. n
    BY <1>11 DEF Weight
  <2>2. /\ g[1] = g[1 - 1] + h[1] /\ h[1] = c[1] * (Octet * Octet * Octet)
        /\ g[2] = g[2 - 1] + h[2] /\ h[2] = c[2] * (Octet * Octet)
        /\ g[3] = g[3 - 1] + h[3] /\ h[3] = c[3] * Octet
        /\ g[4] = g[4 - 1] + h[4] /\ h[4] = c[4] * 1
        /\ c[1] \in Nat /\ c[2] \in Nat /\ c[3] \in Nat /\ c[4] \in Nat
    BY <1>6, <1>7, <2>1
  <2>3. /\ c[1] * (Octet * Octet * Octet) \in Nat /\ c[2] * (Octet * Octet) \in Nat
        /\ c[3] * Octet \in Nat
    BY <1>1, <1>2, <1>4, <2>2
  <2>4. g[4] = c[1] * (Octet * Octet * Octet) + c[2] * (Octet * Octet) + c[3] * Octet + c[4]
    <3>1. h[1] \in Nat /\ h[2] \in Nat /\ h[3] \in Nat /\ h[4] \in Nat
      BY <1>5, <2>1
    <3>2. /\ g[1] = g[0] + h[1] /\ g[2] = g[1] + h[2]
          /\ g[3] = g[2] + h[3] /\ g[4] = g[3] + h[4]
      BY <1>7, <2>1
    <3>3. g[4] = h[1] + h[2] + h[3] + h[4]
      BY <1>7, <3>1, <3>2
    <3>4. h[4] = c[4]
      BY <2>2
    <3>5. QED
      BY <2>2, <3>3, <3>4
  <2>5. Address(c[1], c[2], c[3], c[4])
           = c[1] * (Octet * Octet * Octet) + c[2] * (Octet * Octet) + c[3] * Octet + c[4]
    <3>1. \A k \in 1 .. n : c[k] \in Nat
      OBVIOUS
    <3>2. c[1] \in Nat /\ c[2] \in Nat /\ c[3] \in Nat /\ c[4] \in Nat
      BY <2>1, <3>1
    <3> HIDE DEF h, Joined
    <3>3. \A c3, c4 \in Nat :
             Address(c[1], c[2], c3, c4)
               = c[1] * (Octet * Octet * Octet) + c[2] * (Octet * Octet) + c3 * Octet + c4
      BY <3>2, Weighed, Zenon
    <3>4. QED
      BY <3>2, <3>3, Zenon
  <2>6. QED
    BY <1>7, <1>11, <2>4, <2>5 DEF h, Joined
<1>12. n = 1 \/ n = 2 \/ n = 3 \/ n = 4
  OBVIOUS
<1>13. QED
  BY <1>8, <1>9, <1>10, <1>11, <1>12

\* An address is the sum of what its components stand for, each at its place.
LEMMA AddressIsSum ==
    ASSUME NEW values, NEW n \in Nat, Len(values) = n, DOMAIN values = 1 .. n, NEW limit
    PROVE  AddressOf(values, limit) =
              IF \A k \in 1 .. n : \E x \in values[k] :
                    x < (IF k = n THEN limit ELSE Octet)
              THEN {SumOf([k \in 1 .. n |-> (CHOOSE x \in values[k] : TRUE) * Weight(k, n)],
                          n)}
              ELSE {}
<1> DEFINE h == [k \in 1 .. n |-> (CHOOSE x \in values[k] : TRUE) * Weight(k, n)]
           seq == [k \in DOMAIN values |-> k]
           Is(it) == it = [s \in SUBSET (DOMAIN seq) |->
                             IF s = {} THEN 0
                             ELSE it[s \ {Max(s)}]
                                    + (CHOOSE x \in values[seq[Max(s)]] : TRUE)
                                         * Weight(seq[Max(s)], n)]
           iter == CHOOSE it : Is(it)
           fold == iter[DOMAIN seq]
<1>1. DOMAIN seq = 1 .. n
  OBVIOUS
<1>2. AddressOf(values, limit) =
         IF \A k \in 1 .. n : \E x \in values[k] : x < (IF k = n THEN limit ELSE Octet)
         THEN {fold}
         ELSE {}
  BY DEF AddressOf, FoldLeft, MapThenFoldSet
<1>3. ASSUME NEW it PROVE Is(it) <=> IsSum(it, h, n)
  <2>1. ASSUME NEW s \in SUBSET (1 .. n), s # {}
        PROVE  h[Max(s)] = (CHOOSE x \in values[seq[Max(s)]] : TRUE)
                              * Weight(seq[Max(s)], n)
    <3>1. Max(s) \in 1 .. n
      BY <2>1, MaxIsIn
    <3>2. seq[Max(s)] = Max(s)
      BY <3>1
    <3>3. QED
      BY <3>1, <3>2
  <2> HIDE DEF h, seq
  <2>2. QED
    BY <1>1, <2>1 DEF IsSum
<1>4. fold = SumOf(h, n)
  <2>1. iter = CHOOSE it : IsSum(it, h, n)
    <3> HIDE DEF Is, h
    <3>1. QED
      BY <1>3
  <2> HIDE DEF iter, seq, h
  <2>2. QED
    BY <1>1, <2>1 DEF SumOf
<1> HIDE DEF fold
<1>5. QED
  BY <1>2, <1>4

----------------------------------------------------------------------------
(* The components of a literal are what is between its dots.               *)

Chars == Seq(STRING)
Parts == Seq(Chars) \ {<<>>}

\* A character adds a component or belongs to the last one.
WithChar(parts, c) ==
    IF c = "." THEN Append(parts, <<>>)
    ELSE Append(Front(parts), Append(Last(parts), c))

\* What is appended is the last component.
LEMMA FrontAndLast ==
    ASSUME NEW p \in Seq(Chars), NEW x \in Chars
    PROVE  /\ Append(p, x) \in Parts
           /\ Front(Append(p, x)) = p
           /\ Last(Append(p, x)) = x
           /\ Len(Append(p, x)) = Len(p) + 1
<1>1. /\ Append(p, x) \in Seq(Chars) /\ Append(p, x) # <<>>
      /\ Len(Append(p, x)) = Len(p) + 1
      /\ \A k \in 1 .. Len(p) : Append(p, x)[k] = p[k]
      /\ Append(p, x)[Len(p) + 1] = x
  BY AppendProperties
<1>2. Last(Append(p, x)) = x
  BY <1>1 DEF Last
<1>3. Front(Append(p, x)) = p
  <2>1. Front(Append(p, x)) = SubSeq(Append(p, x), 1, Len(p))
    BY <1>1 DEF Front
  <2> DEFINE q == SubSeq(Append(p, x), 1, Len(p))
  <2>2. q \in Seq(Chars) /\ Len(q) = Len(p) /\ \A k \in 1 .. Len(p) : q[k] = Append(p, x)[k]
    BY <1>1
  <2> HIDE DEF q
  <2>3. q = p
    BY <1>1, <2>2, SeqEqual
  <2>4. QED
    BY <2>1, <2>3 DEF q
<1>4. QED
  BY <1>1, <1>2, <1>3 DEF Parts

\* There is always a component to add a character to.
LEMMA WithCharIsParts ==
    ASSUME NEW p \in Parts, NEW c \in STRING
    PROVE  /\ WithChar(p, c) \in Parts
           /\ Len(WithChar(p, c)) = IF c = "." THEN Len(p) + 1 ELSE Len(p)
<1>1. p \in Seq(Chars) /\ Len(p) \in Nat /\ Len(p) > 0
  BY DEF Parts
<1>2. <<>> \in Chars
  BY DEF Chars
<1>3. CASE c = "."
  BY <1>1, <1>2, <1>3, FrontAndLast DEF WithChar
<1>4. CASE c # "."
  <2>1. Front(p) \in Seq(Chars) /\ Len(Front(p)) = Len(p) - 1
    <3>1. \A k \in 1 .. Len(p) - 1 : p[k] \in Chars
      BY <1>1
    <3>2. /\ SubSeq(p, 1, Len(p) - 1) \in Seq(Chars)
          /\ Len(SubSeq(p, 1, Len(p) - 1))
                = IF 1 <= Len(p) - 1 THEN (Len(p) - 1) - 1 + 1 ELSE 0
      BY <1>1, <3>1, 1 \in Int, Len(p) - 1 \in Int, SubSeqProperties
    <3>3. (IF 1 <= Len(p) - 1 THEN (Len(p) - 1) - 1 + 1 ELSE 0) = Len(p) - 1
      <4>1. \A n \in Nat : n > 0 => (IF 1 <= n - 1 THEN (n - 1) - 1 + 1 ELSE 0) = n - 1
        OBVIOUS
      <4>2. QED
        BY <1>1, <4>1, Zenon
    <3>4. Front(p) = SubSeq(p, 1, Len(p) - 1)
      BY DEF Front
    <3>5. QED
      BY <3>2, <3>3, <3>4, Zenon
  <2>2. Last(p) \in Chars
    BY <1>1 DEF Last
  <2>3. Append(Last(p), c) \in Chars
    <3>1. \A x \in Seq(STRING) : Append(x, c) \in Seq(STRING)
      BY AppendProperties
    <3>2. QED
      BY <2>2, <3>1 DEF Chars
  <2>4. /\ Append(Front(p), Append(Last(p), c)) \in Parts
        /\ Len(Append(Front(p), Append(Last(p), c))) = Len(Front(p)) + 1
    BY <2>1, <2>3, FrontAndLast
  <2>5. QED
    BY <1>1, <1>4, <2>1, <2>4 DEF WithChar
<1>5. QED
  BY <1>3, <1>4

\* The components of a literal, character by character.
SplitBy(g, s) ==
    /\ g[0] = << <<>> >>
    /\ \A k \in 1 .. Len(s) : g[k] = WithChar(g[k - 1], s[k])
    /\ Components(s) = g[Len(s)]

\* Every literal is split so.
LEMMA ComponentsByChar ==
    ASSUME NEW s \in Chars
    PROVE  \E g : SplitBy(g, s)
<1> DEFINE n == Len(s)
           F == [k \in 1 .. n |-> [a \in Parts |-> WithChar(a, s[k])]]
           Is(it) == it = [d \in SUBSET (DOMAIN s) |->
                             IF d = {} THEN << <<>> >>
                             ELSE IF s[Max(d)] = "." THEN Append(it[d \ {Max(d)}], <<>>)
                                  ELSE Append(Front(it[d \ {Max(d)}]),
                                              Append(Last(it[d \ {Max(d)}]), s[Max(d)]))]
           iter == CHOOSE it : Is(it)
           g == [k \in 0 .. n |-> iter[1 .. k]]
<1>1. n \in Nat /\ DOMAIN s = 1 .. n /\ \A k \in 1 .. n : s[k] \in STRING
  BY DEF Chars
<1>2. Components(s) = iter[DOMAIN s]
  BY DEF Components, FoldLeft, MapThenFoldSet
<1> HIDE DEF n
<1>3. \A k \in 1 .. n : \A a \in Parts : F[k][a] = WithChar(a, s[k]) /\ F[k][a] \in Parts
  BY <1>1, WithCharIsParts
<1> HIDE DEF F
<1>4. \E it : Is(it)
  <2>1. << <<>> >> \in Parts
    BY DEF Parts, Chars
  <2>2. PICK it : IsFold(it, n, Parts, << <<>> >>, F)
    <3>1. Folds(n, Parts, F)
      BY <1>3 DEF Folds
    <3>2. QED
      BY <1>1, <2>1, <3>1, FoldExists, Zenon
  <2>3. ASSUME NEW d \in SUBSET (1 .. n), d # {}
        PROVE  it[d] = WithChar(it[d \ {Max(d)}], s[Max(d)])
    <3>1. Max(d) \in 1 .. n
      BY <1>1, <2>3, MaxIsIn
    <3>2. d \ {Max(d)} \in SUBSET (1 .. n)
      OBVIOUS
    <3>3. it[d \ {Max(d)}] \in Parts /\ it[d] = F[Max(d)][it[d \ {Max(d)}]]
      BY <2>2, <2>3, <3>2 DEF IsFold
    <3>4. QED
      BY <1>3, <3>1, <3>3
  <2>4. it[{}] = << <<>> >> /\ it = [d \in SUBSET (1 .. n) |-> it[d]]
    BY <2>2 DEF IsFold
  <2>5. Is(it)
    BY <1>1, <2>3, <2>4 DEF WithChar
  <2>6. QED
    BY <2>5
<1>5. Is(iter)
  <2> HIDE DEF Is
  <2>1. QED
    BY <1>4
<1> HIDE DEF iter
<1>6. /\ iter[{}] = << <<>> >>
      /\ \A d \in SUBSET (1 .. n) : d # {} => iter[d] = WithChar(iter[d \ {Max(d)}], s[Max(d)])
  BY <1>1, <1>5 DEF WithChar
<1>7. ASSUME NEW k \in 1 .. n PROVE iter[1 .. k] = WithChar(iter[1 .. k - 1], s[k])
  <2>1. 1 .. k \in SUBSET (1 .. n)
    BY <1>1
  <2>2. /\ 1 .. k # {}
        /\ (1 .. k) \ {Max(1 .. k)} = 1 .. k - 1
        /\ Max(1 .. k) = k
    <3>1. k \in Nat /\ k > 0
      OBVIOUS
    <3>2. QED
      BY <3>1, UpTo, Zenon
  <2>3. QED
    BY <1>6, <2>1, <2>2
<1> HIDE DEF Is
<1>8. g[0] = << <<>> >>
  BY <1>1, <1>6, 1 .. 0 = {}
<1>9. \A k \in 1 .. n : g[k] = WithChar(g[k - 1], s[k])
  BY <1>1, <1>7
<1>10. g[n] = iter[DOMAIN s]
  BY <1>1
<1> HIDE DEF g
<1>11. QED
  BY <1>2, <1>8, <1>9, <1>10 DEF SplitBy, n

\* The characters from one dot to the next are a component.
LEMMA PartIsAdded ==
    ASSUME NEW s \in Chars, NEW g, SplitBy(g, s), NEW b, NEW e, IsComponent(s, b, e),
           NEW p \in Seq(Chars), g[b] = Append(p, <<>>)
    PROVE  /\ SubSeq(s, b + 1, e) \in Chars
           /\ Append(p, SubSeq(s, b + 1, e)) \in Seq(Chars)
           /\ g[e] = Append(p, SubSeq(s, b + 1, e))
           /\ e < Len(s) => g[e + 1] = Append(g[e], <<>>)
<1> DEFINE t(k) == SubSeq(s, b + 1, b + k)
           Is(k) == g[b + k] = Append(p, t(k))
           S == {k \in Nat : k <= e - b => Is(k)}
<1>1. /\ Len(s) \in Nat /\ b \in Nat /\ e \in Nat /\ b <= e /\ e <= Len(s)
      /\ e = Len(s) \/ Has(s, e, ".")
      /\ \A j \in b .. e - 1 : ~Has(s, j, ".")
      /\ s \in Seq(STRING)
  BY DEF IsComponent, Chars
<1>2. \A k \in 0 .. e - b : t(k) \in Chars
  <2> TAKE k \in 0 .. e - b
  <2>1. b + k \in Nat /\ b <= b + k /\ b + k <= Len(s)
    BY <1>1
  <2>2. QED
    BY <1>1, <2>1, CharactersOf DEF Chars
<1>3. t(0) = <<>>
  BY <1>1, SubSeqEmpty
<1>4. ASSUME NEW k \in Nat, k + 1 <= e - b
      PROVE  t(k + 1) = Append(t(k), s[b + (k + 1)])
  <2> DEFINE n == b + (k + 1)
  <2>1. b + 1 \in 1 .. Len(s) /\ n \in b + 1 .. Len(s) /\ n - 1 = b + k /\ k \in 0 .. e - b
    <3>1. k + 1 <= e - b
      BY <1>4
    <3>2. k \in 0 .. e - b /\ n <= e /\ n \in Int /\ n - 1 = b + k /\ b + 1 <= n /\ b + 1 >= 1
      BY <1>1, <3>1
    <3> HIDE DEF n
    <3>3. QED
      BY <1>1, <3>2
  <2> HIDE DEF n
  <2>2. SubSeq(s, b + 1, n) = SubSeq(s, b + 1, n - 1) \o <<s[n]>>
    BY <1>1, <2>1, SubSeqRecursiveSecond
  <2>3. SubSeq(s, b + 1, n - 1) \in Seq(STRING) /\ s[n] \in STRING
    <3>1. n \in 1 .. Len(s)
      BY <1>1, <2>1
    <3>2. s[n] \in STRING
      BY <1>1, <3>1
    <3>3. QED
      BY <1>2, <2>1, <3>2 DEF Chars
  <2>4. Append(SubSeq(s, b + 1, n - 1), s[n]) = SubSeq(s, b + 1, n - 1) \o <<s[n]>>
    BY <2>3, AppendIsConcat
  <2>5. SubSeq(s, b + 1, n) = Append(SubSeq(s, b + 1, n - 1), s[n])
    BY <2>2, <2>4
  <2>6. QED
    BY <2>1, <2>5 DEF n
<1> HIDE DEF t
<1>5. 0 \in S
  <2>1. b + 0 = b
    BY <1>1
  <2>2. Is(0)
    BY <1>3, <2>1
  <2> HIDE DEF Is
  <2>3. QED
    BY <2>2
<1>6. ASSUME NEW k \in Nat, k \in S PROVE k + 1 \in S
  <2> SUFFICES ASSUME k + 1 <= e - b PROVE Is(k + 1)
    <3> HIDE DEF Is
    <3>1. QED
      BY k + 1 \in Nat
  <2>1. Is(k)
    <3> HIDE DEF Is
    <3>1. QED
      BY <1>1, <1>6
  <2> DEFINE j == b + (k + 1)
  <2>2. j \in 1 .. Len(s) /\ j - 1 = b + k /\ k \in 0 .. e - b /\ k + 1 \in 0 .. e - b
    BY <1>1
  <2>3. s[j] # "."
    <3>1. b + k \in b .. e - 1 /\ (b + k) + 1 = j /\ b + k < Len(s)
      BY <1>1
    <3> HIDE DEF j
    <3>2. QED
      BY <1>1, <3>1 DEF Has
  <2> HIDE DEF j
  <2>4. g[j] = WithChar(g[j - 1], s[j])
    BY <2>2 DEF SplitBy
  <2>5. WithChar(g[j - 1], s[j]) = Append(Front(g[j - 1]), Append(Last(g[j - 1]), s[j]))
    BY <2>3 DEF WithChar
  <2>6. Front(g[j - 1]) = p /\ Last(g[j - 1]) = t(k)
    BY <1>2, <2>1, <2>2, FrontAndLast
  <2>7. Append(t(k), s[j]) = t(k + 1)
    BY <1>4 DEF j
  <2>8. g[j] = Append(p, t(k + 1))
    BY <2>4, <2>5, <2>6, <2>7
  <2>9. QED
    BY <2>8 DEF j
<1>7. Is(e - b)
  <2>1. e - b \in Nat
    BY <1>1
  <2>2. e - b \in S
    <3> HIDE DEF S
    <3>1. QED
      BY <1>5, <1>6, <2>1, UpFromZero
  <2> HIDE DEF Is
  <2>3. QED
    BY <2>1, <2>2
<1>8. b + (e - b) = e /\ e - b \in 0 .. e - b
  BY <1>1
<1>9. g[e] = Append(p, SubSeq(s, b + 1, e)) /\ SubSeq(s, b + 1, e) \in Chars
  BY <1>2, <1>7, <1>8 DEF t
<1>10. Append(p, SubSeq(s, b + 1, e)) \in Seq(Chars)
  BY <1>9, AppendProperties
<1>11. ASSUME e < Len(s) PROVE g[e + 1] = Append(g[e], <<>>)
  <2>1. e + 1 \in 1 .. Len(s) /\ (e + 1) - 1 = e /\ s[e + 1] = "."
    BY <1>1, <1>11 DEF Has
  <2>2. g[e + 1] = WithChar(g[e], s[e + 1])
    BY <2>1 DEF SplitBy
  <2>3. QED
    BY <2>1, <2>2 DEF WithChar
<1>12. QED
  BY <1>9, <1>10, <1>11

\* Components are never taken away.
LEMMA PartsGrow ==
    ASSUME NEW s \in Chars, NEW g, SplitBy(g, s)
    PROVE  /\ \A k \in 0 .. Len(s) : g[k] \in Parts /\ Len(g[k]) \in Nat /\ Len(g[k]) >= 1
           /\ \A k \in 0 .. Len(s) : \A j \in 0 .. k : Len(g[j]) <= Len(g[k])
           /\ \A j \in 0 .. Len(s) - 1 : Has(s, j, ".") => Len(g[j + 1]) = Len(g[j]) + 1
<1> DEFINE Good(k) == /\ g[k] \in Parts
                      /\ \A j \in 0 .. k : Len(g[j]) \in Nat /\ Len(g[j]) <= Len(g[k])
           S == {k \in Nat : k <= Len(s) => Good(k)}
<1>1. Len(s) \in Nat /\ \A k \in 1 .. Len(s) : s[k] \in STRING
  BY DEF Chars
<1>2. \A x \in Parts : Len(x) \in Nat /\ Len(x) >= 1
  BY DEF Parts
<1>3. 0 \in S
  <2>1. g[0] = << <<>> >>
    BY DEF SplitBy
  <2>2. << <<>> >> \in Parts
    BY DEF Parts, Chars
  <2>3. \A j \in 0 .. 0 : j = 0
    OBVIOUS
  <2>4. Good(0)
    <3>1. g[0] \in Parts /\ Len(g[0]) \in Nat
      BY <1>2, <2>1, <2>2
    <3>2. \A j \in 0 .. 0 : Len(g[j]) \in Nat /\ Len(g[j]) <= Len(g[0])
      BY <2>3, <3>1
    <3>3. QED
      BY <3>1, <3>2
  <2> HIDE DEF Good
  <2>5. QED
    BY <2>4
<1>4. ASSUME NEW k \in Nat, k + 1 <= Len(s), g[k] \in Parts
      PROVE  /\ g[k + 1] \in Parts
             /\ Len(g[k + 1]) = IF s[k + 1] = "." THEN Len(g[k]) + 1 ELSE Len(g[k])
  <2>1. k + 1 \in 1 .. Len(s) /\ (k + 1) - 1 = k
    BY <1>1, <1>4
  <2>2. g[k + 1] = WithChar(g[k], s[k + 1]) /\ s[k + 1] \in STRING
    BY <1>1, <2>1 DEF SplitBy
  <2>3. QED
    <3>1. /\ WithChar(g[k], s[k + 1]) \in Parts
          /\ Len(WithChar(g[k], s[k + 1]))
               = IF s[k + 1] = "." THEN Len(g[k]) + 1 ELSE Len(g[k])
      BY <1>4, <2>2, WithCharIsParts, Zenon
    <3>2. QED
      BY <2>2, <3>1
<1>5. ASSUME NEW k \in Nat, k \in S PROVE k + 1 \in S
  <2> SUFFICES ASSUME k + 1 <= Len(s) PROVE Good(k + 1)
    <3> HIDE DEF Good
    <3>1. QED
      BY k + 1 \in Nat
  <2>1. Good(k)
    <3> HIDE DEF Good
    <3>1. QED
      BY <1>1, <1>5
  <2>2. /\ g[k + 1] \in Parts
        /\ Len(g[k + 1]) = IF s[k + 1] = "." THEN Len(g[k]) + 1 ELSE Len(g[k])
    BY <1>4, <2>1
  <2>3. Len(g[k]) \in Nat /\ Len(g[k + 1]) \in Nat /\ Len(g[k]) <= Len(g[k + 1])
    BY <1>2, <2>1, <2>2
  <2>4. ASSUME NEW j \in 0 .. k + 1 PROVE Len(g[j]) \in Nat /\ Len(g[j]) <= Len(g[k + 1])
    <3>1. CASE j = k + 1
      BY <2>3, <3>1
    <3>2. CASE j # k + 1
      <4>1. j \in 0 .. k
        BY <3>2
      <4>2. Len(g[j]) \in Nat /\ Len(g[j]) <= Len(g[k])
        BY <2>1, <4>1
      <4>3. QED
        BY <2>1, <2>3, <4>1, <4>2
    <3>3. QED
      BY <3>1, <3>2
  <2>5. QED
    BY <2>2, <2>4
<1>6. \A k \in 0 .. Len(s) : Good(k)
  <2> TAKE k \in 0 .. Len(s)
  <2>1. k \in Nat /\ k <= Len(s)
    BY <1>1
  <2>2. k \in S
    <3> HIDE DEF S
    <3>1. QED
      BY <1>3, <1>5, <2>1, UpFromZero
  <2> HIDE DEF Good
  <2>3. QED
    BY <2>1, <2>2
<1>7. ASSUME NEW j \in 0 .. Len(s) - 1, Has(s, j, ".") PROVE Len(g[j + 1]) = Len(g[j]) + 1
  <2>1. j \in Nat /\ j + 1 <= Len(s) /\ g[j] \in Parts /\ s[j + 1] = "."
    BY <1>1, <1>6, <1>7 DEF Has
  <2>2. QED
    BY <1>4, <2>1
<1>8. QED
  BY <1>2, <1>6, <1>7

\* Four dots are too many.
LEMMA FiveParts ==
    ASSUME NEW s \in Chars, NEW d0 \in Nat, NEW d1 \in Nat, NEW d2 \in Nat, NEW d3 \in Nat,
           d0 < d1, d1 < d2, d2 < d3,
           Has(s, d0, "."), Has(s, d1, "."), Has(s, d2, "."), Has(s, d3, ".")
    PROVE  Len(Components(s)) \in Nat /\ Len(Components(s)) > 4
<1>1. PICK g : SplitBy(g, s)
  BY ComponentsByChar
<1>2. Len(s) \in Nat
  BY DEF Chars
<1>3. d3 < Len(s)
  BY DEF Has
<1>4. /\ \A k \in 0 .. Len(s) : Len(g[k]) \in Nat /\ Len(g[k]) >= 1
      /\ \A k \in 0 .. Len(s) : \A j \in 0 .. k : Len(g[j]) <= Len(g[k])
      /\ \A j \in 0 .. Len(s) - 1 : Has(s, j, ".") => Len(g[j + 1]) = Len(g[j]) + 1
  BY <1>1, PartsGrow
<1>5. /\ d0 \in 0 .. Len(s) - 1 /\ d1 \in 0 .. Len(s) - 1
      /\ d2 \in 0 .. Len(s) - 1 /\ d3 \in 0 .. Len(s) - 1
      /\ d0 \in 0 .. Len(s) /\ d1 \in 0 .. Len(s) /\ d2 \in 0 .. Len(s) /\ d3 \in 0 .. Len(s)
      /\ d0 + 1 \in 0 .. d1 /\ d1 + 1 \in 0 .. d2 /\ d2 + 1 \in 0 .. d3
      /\ d3 + 1 \in 0 .. Len(s) /\ Len(s) \in 0 .. Len(s)
      /\ d0 + 1 \in 0 .. Len(s) /\ d1 + 1 \in 0 .. Len(s) /\ d2 + 1 \in 0 .. Len(s)
  BY <1>2, <1>3
<1> DEFINE l == [k \in 0 .. Len(s) |-> Len(g[k])]
<1>6. /\ l \in [0 .. Len(s) -> Nat]
      /\ \A k \in 0 .. Len(s) : l[k] >= 1
      /\ \A k \in 0 .. Len(s) : \A j \in 0 .. k : l[j] <= l[k]
      /\ \A j \in 0 .. Len(s) - 1 : Has(s, j, ".") => l[j + 1] = l[j] + 1
      /\ l[Len(s)] = Len(g[Len(s)])
  <2>1. \A k \in 0 .. Len(s) : l[k] = Len(g[k])
    OBVIOUS
  <2>2. l \in [0 .. Len(s) -> Nat]
    BY <1>4
  <2>3. \A k \in 0 .. Len(s) : \A j \in 0 .. k : j \in 0 .. Len(s)
    BY <1>2
  <2>4. \A j \in 0 .. Len(s) - 1 : j \in 0 .. Len(s) /\ j + 1 \in 0 .. Len(s)
    BY <1>2
  <2>5. Len(s) \in 0 .. Len(s)
    BY <1>2
  <2> HIDE DEF l
  <2>6. QED
    BY <1>4, <2>1, <2>2, <2>3, <2>4, <2>5
<1> HIDE DEF l
<1>7. l[d0] >= 1 /\ l[d0 + 1] = l[d0] + 1 /\ l[d0 + 1] <= l[d1]
  BY <1>5, <1>6
<1>8. l[d1 + 1] = l[d1] + 1 /\ l[d1 + 1] <= l[d2]
  BY <1>5, <1>6
<1>9. l[d2 + 1] = l[d2] + 1 /\ l[d2 + 1] <= l[d3]
  BY <1>5, <1>6
<1>10. l[d3 + 1] = l[d3] + 1 /\ l[d3 + 1] <= l[Len(s)]
  BY <1>5, <1>6
<1>11. /\ l[d0] \in Nat /\ l[d1] \in Nat /\ l[d2] \in Nat /\ l[d3] \in Nat
       /\ l[Len(s)] \in Nat
  BY <1>5, <1>6
<1>12. l[Len(s)] >= 5
  <2>1. l[d1] >= 2
    BY <1>7, <1>11
  <2>2. l[d2] >= 3
    BY <1>8, <1>11, <2>1
  <2>3. l[d3] >= 4
    BY <1>9, <1>11, <2>2
  <2>4. QED
    BY <1>10, <1>11, <2>3
<1>13. QED
  <2>1. Components(s) = g[Len(s)]
    BY <1>1 DEF SplitBy
  <2>2. QED
    BY <1>6, <1>11, <1>12, <2>1

\* The components of a literal with n - 1 dots, where d says where they are: d[k]
\* is the end of the k-th component.
Ends(s, n, d) ==
    /\ n \in 1 .. 4
    /\ d \in [0 .. n -> Int]
    /\ d[0] = -1
    /\ d[n] = Len(s)
    /\ \A k \in 1 .. n - 1 : d[k] < Len(s)
    /\ \A k \in 1 .. n : IsComponent(s, d[k - 1] + 1, d[k])
Part(s, d, k) == SubSeq(s, (d[k - 1] + 1) + 1, d[k])

\* The components of a literal are its parts between the dots.
LEMMA SplitsAtDots ==
    ASSUME NEW s \in Chars, NEW n, NEW d, Ends(s, n, d)
    PROVE  LET parts == Components(s)
           IN  /\ parts \in Seq(Chars)
               /\ Len(parts) = n
               /\ \A k \in 1 .. n : parts[k] = Part(s, d, k)
<1>1. PICK g : SplitBy(g, s)
  BY ComponentsByChar
<1> DEFINE Good(k) == /\ g[d[k]] \in Seq(Chars)
                      /\ Len(g[d[k]]) = k
                      /\ \A j \in 1 .. k : g[d[k]][j] = Part(s, d, j)
           S == {k \in Nat : k + 1 <= n => Good(k + 1)}
<1>2. /\ n \in 1 .. 4 /\ d \in [0 .. n -> Int] /\ d[0] = -1 /\ d[n] = Len(s)
      /\ \A k \in 1 .. n - 1 : d[k] < Len(s)
      /\ \A k \in 1 .. n : IsComponent(s, d[k - 1] + 1, d[k])
  BY DEF Ends
<1>3. ASSUME NEW k \in 1 .. n, NEW p \in Seq(Chars), Len(p) = k - 1,
             \A j \in 1 .. k - 1 : p[j] = Part(s, d, j),
             g[d[k - 1] + 1] = Append(p, <<>>)
      PROVE  Good(k)
  <2>1. /\ Part(s, d, k) \in Chars
        /\ g[d[k]] = Append(p, Part(s, d, k))
    <3> DEFINE b == d[k - 1] + 1
    <3>1. IsComponent(s, b, d[k]) /\ g[b] = Append(p, <<>>)
      BY <1>2, <1>3
    <3> HIDE DEF b
    <3>2. /\ SubSeq(s, b + 1, d[k]) \in Chars
          /\ g[d[k]] = Append(p, SubSeq(s, b + 1, d[k]))
      BY <1>1, <3>1, PartIsAdded
    <3>3. QED
      BY <3>2 DEF b, Part
  <2> HIDE DEF Part
  <2>2. /\ Append(p, Part(s, d, k)) \in Seq(Chars)
        /\ Len(Append(p, Part(s, d, k))) = Len(p) + 1
        /\ \A j \in 1 .. Len(p) : Append(p, Part(s, d, k))[j] = p[j]
        /\ Append(p, Part(s, d, k))[Len(p) + 1] = Part(s, d, k)
    BY <2>1, AppendProperties
  <2>3. Len(p) + 1 = k /\ \A j \in 1 .. k : j \in 1 .. k - 1 \/ j = k
    BY <1>3
  <2>4. QED
    BY <1>3, <2>1, <2>2, <2>3
<1>4. 0 \in S
  <2>1. g[d[1 - 1] + 1] = Append(<<>>, <<>>)
    BY <1>1, <1>2 DEF SplitBy
  <2>2. <<>> \in Seq(Chars) /\ Len(<<>>) = 1 - 1
    OBVIOUS
  <2>3. 1 \in 1 .. n /\ \A j \in 1 .. 1 - 1 : <<>>[j] = Part(s, d, j)
    BY <1>2
  <2> HIDE DEF Good
  <2>4. Good(1)
    BY <1>3, <2>1, <2>2, <2>3
  <2>5. QED
    BY <2>4, 0 + 1 = 1
<1>5. ASSUME NEW k \in Nat, k \in S PROVE k + 1 \in S
  <2> SUFFICES ASSUME (k + 1) + 1 <= n PROVE Good((k + 1) + 1)
    <3> HIDE DEF Good
    <3>1. QED
      BY k + 1 \in Nat
  <2> DEFINE m == k + 1
  <2>1. m \in 1 .. n - 1 /\ m \in 1 .. n /\ m + 1 \in 1 .. n /\ (m + 1) - 1 = m
    BY <1>2
  <2>2. Good(m)
    <3>1. k + 1 <= n
      BY <1>2
    <3> HIDE DEF Good
    <3>2. QED
      BY <1>5, <3>1
  <2> HIDE DEF m
  <2>3. g[d[m] + 1] = Append(g[d[m]], <<>>)
    <3>1. IsComponent(s, d[m - 1] + 1, d[m]) /\ d[m] < Len(s)
      BY <1>2, <2>1
    <3>2. d[m] \in Nat /\ Has(s, d[m], ".")
      BY <3>1 DEF IsComponent
    <3>3. d[m] + 1 \in 1 .. Len(s) /\ (d[m] + 1) - 1 = d[m] /\ s[d[m] + 1] = "."
      BY <3>1, <3>2, Len(s) \in Nat DEF Has, Chars
    <3>4. g[d[m] + 1] = WithChar(g[d[m]], s[d[m] + 1])
      BY <1>1, <3>3 DEF SplitBy
    <3>5. QED
      BY <3>3, <3>4 DEF WithChar
  <2>4. Good(m + 1)
    <3>1. /\ g[d[m]] \in Seq(Chars) /\ Len(g[d[m]]) = (m + 1) - 1
          /\ \A j \in 1 .. (m + 1) - 1 : g[d[m]][j] = Part(s, d, j)
          /\ g[d[(m + 1) - 1] + 1] = Append(g[d[m]], <<>>)
      BY <2>1, <2>2, <2>3
    <3> HIDE DEF Good
    <3>2. QED
      BY <1>3, <2>1, <3>1
  <2> HIDE DEF Good
  <2>5. QED
    BY <2>4 DEF m
<1>6. Good(n)
  <2>1. n - 1 \in Nat /\ (n - 1) + 1 = n
    BY <1>2
  <2>2. n - 1 \in S
    <3> HIDE DEF S
    <3>1. QED
      BY <1>4, <1>5, <2>1, UpFromZero
  <2> HIDE DEF Good
  <2>3. QED
    BY <2>1, <2>2
<1>7. QED
  BY <1>1, <1>2, <1>6 DEF SplitBy

\* What the components are worth, the way inet_addr_impl reads them.
MaxOf(n) == IF n = 1 THEN Word - 1 ELSE Octet - 1
ReadAt(s, n, d) == [k \in 1 .. n |-> parse_inet_component(s, MaxOf(n), d[k - 1] + 1)]
MeantBy(s, n) == AddressOf(AsReads(Components(s)), ReadBelow(n))

\* The components of a literal, each with what it stands for.
LEMMA ValuesOf ==
    ASSUME NEW parts \in Seq(Chars), NEW n, Len(parts) = n
    PROVE  /\ n \in Nat
           /\ Len(AsReads(parts)) = n /\ DOMAIN AsReads(parts) = 1 .. n
           /\ Len(AnyBases(parts)) = n /\ DOMAIN AnyBases(parts) = 1 .. n
           /\ Len(Canonicals(parts)) = n /\ DOMAIN Canonicals(parts) = 1 .. n
           /\ \A k \in 1 .. n : /\ AsReads(parts)[k] = AsRead(parts[k])
                               /\ AnyBases(parts)[k] = AnyBase(parts[k])
                               /\ Canonicals(parts)[k] = Canonical(parts[k])
BY DEF AsReads, AnyBases, Canonicals

\* What the parser reads between the dots is what the components are worth to it.
LEMMA ReadsBetweenDots ==
    ASSUME NEW s \in Chars, NEW n, NEW d, Ends(s, n, d)
    PROVE  /\ ReadAt(s, n, d) \in [1 .. n -> Int]
           /\ MeantBy(s, n) = IF \A k \in 1 .. n : ReadAt(s, n, d)[k] >= 0
                              THEN {Joined(n, ReadAt(s, n, d))}
                              ELSE {}
           /\ \A k \in 1 .. n : OneOrNone(AsRead(Components(s)[k]))
<1> DEFINE m == MaxOf(n)
           limit == ReadBelow(n)
           c == ReadAt(s, n, d)
<1>1. \/ m = Octet - 1 /\ limit = Octet
      \/ m = Word - 1 /\ limit = Word \div 2
  BY DEF ReadBelow, MaxOf
<1>2. n # 1 => limit = Octet
  BY DEF ReadBelow
<1>3. c = [k \in 1 .. n |-> parse_inet_component(s, m, d[k - 1] + 1)]
  BY DEF ReadAt
<1> HIDE DEF m, limit, c
<1> DEFINE parts == Components(s)
           All == \A k \in 1 .. n : Means(parts[k], limit)
           h == [k \in 1 .. n |-> Meant(parts[k]) * Weight(k, n)]
<1>4. /\ n \in 1 .. 4 /\ \A k \in 1 .. n : IsComponent(s, d[k - 1] + 1, d[k])
      /\ s \in Seq(STRING)
  BY DEF Ends, Chars
<1>5. parts \in Seq(Chars) /\ Len(parts) = n /\ \A k \in 1 .. n : parts[k] = Part(s, d, k)
  BY SplitsAtDots
<1> HIDE DEF parts
<1>6. ASSUME NEW k \in 1 .. n
      PROVE  /\ c[k] \in Int
             /\ OneOrNone(AsRead(parts[k]))
             /\ Means(parts[k], limit) => c[k] = Meant(parts[k]) /\ c[k] >= 0
             /\ ~Means(parts[k], limit) => c[k] < 0
  <2> DEFINE b == d[k - 1] + 1
  <2>1. IsComponent(s, b, d[k])
    BY <1>4
  <2>2. c[k] = parse_inet_component(s, m, b) /\ parts[k] = SubSeq(s, b + 1, d[k])
    BY <1>5, <1>3 DEF Part
  <2> HIDE DEF b
  <2>3. /\ parse_inet_component(s, m, b) \in Int
        /\ OneOrNone(AsRead(SubSeq(s, b + 1, d[k])))
        /\ IF Means(SubSeq(s, b + 1, d[k]), limit)
           THEN /\ parse_inet_component(s, m, b) = Meant(SubSeq(s, b + 1, d[k]))
                /\ parse_inet_component(s, m, b) \in 0 .. limit - 1
           ELSE parse_inet_component(s, m, b) < 0
    BY <1>4, <1>1, <2>1, ReadsComponent
  <2>4. QED
    BY <2>2, <2>3
<1>7. c \in [1 .. n -> Int] /\ (All <=> \A k \in 1 .. n : c[k] >= 0)
  BY <1>6, <1>3
<1>8. AddressOf(AsReads(parts), limit) = IF All THEN {SumOf(h, n)} ELSE {}
  <2> DEFINE w == AsReads(parts)
             g == [k \in 1 .. n |-> (CHOOSE x \in w[k] : TRUE) * Weight(k, n)]
  <2>1. /\ n \in Nat /\ Len(w) = n /\ DOMAIN w = 1 .. n
        /\ \A k \in 1 .. n : w[k] = AsRead(parts[k])
    BY <1>5, ValuesOf
  <2> HIDE DEF w
  <2>2. AddressOf(w, limit) =
           IF \A k \in 1 .. n : \E x \in w[k] : x < (IF k = n THEN limit ELSE Octet)
           THEN {SumOf(g, n)}
           ELSE {}
    BY <2>1, AddressIsSum
  <2>3. \A k \in 1 .. n : (IF k = n THEN limit ELSE Octet) = limit
    BY <1>4, <1>2
  <2>4. (\A k \in 1 .. n : \E x \in w[k] : x < (IF k = n THEN limit ELSE Octet)) <=> All
    BY <2>1, <2>3 DEF Means
  <2>5. g = h
    <3>1. ASSUME NEW k \in 1 .. n
          PROVE  (CHOOSE x \in w[k] : TRUE) * Weight(k, n) = Meant(parts[k]) * Weight(k, n)
      <4>1. w[k] = AsRead(parts[k])
        BY <2>1
      <4>2. QED
        BY <4>1, Zenon DEF Meant
    <3>2. QED
      BY <3>1, Zenon
  <2> HIDE DEF g, h, All
  <2>6. QED
    BY <2>2, <2>4, <2>5 DEF w
<1>9. ASSUME All PROVE SumOf(h, n) = Joined(n, c)
  <2>1. c \in [1 .. n -> Nat]
    BY <1>7, <1>9
  <2>2. h = [k \in 1 .. n |-> c[k] * Weight(k, n)]
    BY <1>6, <1>9
  <2> HIDE DEF h
  <2>3. QED
    BY <1>4, <2>1, <2>2, SumIsAddress
<1> HIDE DEF All
<1>10. QED
  BY <1>6, <1>7, <1>8, <1>9 DEF parts, MeantBy, c, limit

\* And what the parser of the canonical form reads.
PartAt(s, n, d) == [k \in 1 .. n |-> parse_inet_component_canonical(s, d[k - 1] + 1)]
CanonicalBy(s) == AddressOf(Canonicals(Components(s)), Octet)

\* The address of components in canonical form.
LEMMA AddressOfCanonical ==
    ASSUME NEW parts \in Seq(Chars), NEW n, Len(parts) = n
    PROVE  AddressOf(Canonicals(parts), Octet) =
              IF \A k \in 1 .. n : MeansCanonical(parts[k])
              THEN {SumOf([k \in 1 .. n |-> MeantCanonical(parts[k]) * Weight(k, n)], n)}
              ELSE {}
<1> DEFINE w == Canonicals(parts)
           g == [k \in 1 .. n |-> (CHOOSE x \in w[k] : TRUE) * Weight(k, n)]
           h == [k \in 1 .. n |-> MeantCanonical(parts[k]) * Weight(k, n)]
<1>1. /\ n \in Nat /\ Len(w) = n /\ DOMAIN w = 1 .. n
      /\ \A k \in 1 .. n : w[k] = Canonical(parts[k])
  BY ValuesOf
<1> HIDE DEF w
<1>2. AddressOf(w, Octet) =
         IF \A k \in 1 .. n : \E x \in w[k] : x < (IF k = n THEN Octet ELSE Octet)
         THEN {SumOf(g, n)}
         ELSE {}
  BY <1>1, AddressIsSum
<1>3. (\A k \in 1 .. n : \E x \in w[k] : x < (IF k = n THEN Octet ELSE Octet))
         <=> \A k \in 1 .. n : MeansCanonical(parts[k])
  BY <1>1 DEF MeansCanonical
<1>4. g = h
  <2>1. ASSUME NEW k \in 1 .. n
        PROVE  (CHOOSE x \in w[k] : TRUE) * Weight(k, n)
                  = MeantCanonical(parts[k]) * Weight(k, n)
    <3>1. w[k] = Canonical(parts[k])
      BY <1>1
    <3>2. QED
      BY <3>1, Zenon DEF MeantCanonical
  <2>2. QED
    BY <2>1, Zenon
<1> HIDE DEF g, h
<1>5. QED
  BY <1>2, <1>3, <1>4 DEF w, h

\* It reads the canonical components, and rejects each of the others.
LEMMA ReadsCanonicalParts ==
    ASSUME NEW s \in Chars, NEW n, NEW d, Ends(s, n, d)
    PROVE  /\ \A k \in 1 .. n : IF MeansCanonical(Components(s)[k])
                                THEN PartAt(s, n, d)[k] \in 0 .. Octet - 1
                                ELSE PartAt(s, n, d)[k] = Rejected
           /\ CanonicalBy(s) =
                 IF \A k \in 1 .. n : PartAt(s, n, d)[k] # Rejected
                 THEN {Joined(n, PartAt(s, n, d))}
                 ELSE {}
<1> DEFINE c == PartAt(s, n, d)
<1>1. c = [k \in 1 .. n |-> parse_inet_component_canonical(s, d[k - 1] + 1)]
  BY DEF PartAt
<1> HIDE DEF c
<1> DEFINE parts == Components(s)
           All == \A k \in 1 .. n : MeansCanonical(parts[k])
           h == [k \in 1 .. n |-> MeantCanonical(parts[k]) * Weight(k, n)]
<1>2. /\ n \in 1 .. 4 /\ \A k \in 1 .. n : IsComponent(s, d[k - 1] + 1, d[k])
      /\ s \in Seq(STRING)
  BY DEF Ends, Chars
<1>3. parts \in Seq(Chars) /\ Len(parts) = n /\ \A k \in 1 .. n : parts[k] = Part(s, d, k)
  BY SplitsAtDots
<1> HIDE DEF parts
<1>4. ASSUME NEW k \in 1 .. n
      PROVE  IF MeansCanonical(parts[k])
             THEN c[k] = MeantCanonical(parts[k]) /\ c[k] \in 0 .. Octet - 1
             ELSE c[k] = Rejected
  <2> DEFINE b == d[k - 1] + 1
  <2>1. IsComponent(s, b, d[k])
    BY <1>2
  <2>2. c[k] = parse_inet_component_canonical(s, b) /\ parts[k] = SubSeq(s, b + 1, d[k])
    BY <1>3, <1>1 DEF Part
  <2> HIDE DEF b
  <2>3. IF MeansCanonical(SubSeq(s, b + 1, d[k]))
        THEN /\ parse_inet_component_canonical(s, b) = MeantCanonical(SubSeq(s, b + 1, d[k]))
             /\ parse_inet_component_canonical(s, b) \in 0 .. Octet - 1
        ELSE parse_inet_component_canonical(s, b) = Rejected
    BY <1>2, <2>1, ReadsCanonicalComponent
  <2>4. QED
    BY <2>2, <2>3
<1>5. \A x \in 0 .. Octet - 1 : x # Rejected /\ x \in Nat
  BY Widths DEF Rejected
<1>6. All <=> \A k \in 1 .. n : c[k] # Rejected
  BY <1>4, <1>5
<1>7. AddressOf(Canonicals(parts), Octet) = IF All THEN {SumOf(h, n)} ELSE {}
  BY <1>3, AddressOfCanonical
<1>8. ASSUME All PROVE SumOf(h, n) = Joined(n, c)
  <2>1. c \in [1 .. n -> Nat]
    BY <1>4, <1>5, <1>8, <1>1
  <2>2. h = [k \in 1 .. n |-> c[k] * Weight(k, n)]
    BY <1>4, <1>8
  <2> HIDE DEF h
  <2>3. QED
    BY <1>2, <2>1, <2>2, SumIsAddress
<1> HIDE DEF All
<1>9. QED
  BY <1>4, <1>6, <1>7, <1>8 DEF parts, c, CanonicalBy

\* The dots that the parsers look for, from the last one on.
Sep3(s) == rfind_chr(s, Len(s), ".")
Sep2(s) == rfind_chr(s, Sep3(s) - 1, ".")
Sep1(s) == rfind_chr(s, Sep2(s) - 1, ".")
Sep0(s) == rfind_chr(s, Sep1(s) - 1, ".")

\* sep is the last dot before `end', or there is none.
IsLastDot(s, sep, end) ==
    \/ sep = -1 /\ \A j \in 0 .. end - 1 : ~Has(s, j, ".")
    \/ /\ sep \in 0 .. end - 1 /\ Has(s, sep, ".")
       /\ \A j \in sep + 1 .. end - 1 : ~Has(s, j, ".")

\* Each search starts before the dot that the last one found.
LEMMA FindsDots ==
    ASSUME NEW s \in Chars
    PROVE  /\ IsLastDot(s, Sep3(s), Len(s))
           /\ IsLastDot(s, Sep2(s), Sep3(s))
           /\ IsLastDot(s, Sep1(s), Sep2(s))
           /\ IsLastDot(s, Sep0(s), Sep1(s))
<1>1. s \in Seq(STRING) /\ Len(s) \in Nat
  BY DEF Chars
<1>2. ~Has(s, Len(s), ".")
  BY DEF Has
<1>3. \/ Sep3(s) = -1 /\ \A j \in 0 .. Len(s) : ~Has(s, j, ".")
      \/ /\ Sep3(s) \in 0 .. Len(s) /\ Has(s, Sep3(s), ".")
         /\ \A j \in Sep3(s) + 1 .. Len(s) : ~Has(s, j, ".")
  BY <1>1, FindsLast DEF Sep3
<1>4. IsLastDot(s, Sep3(s), Len(s)) /\ Sep3(s) \in Int
  <2>1. Sep3(s) # Len(s)
    BY <1>1, <1>2, <1>3
  <2>2. QED
    BY <1>1, <1>3, <2>1 DEF IsLastDot
<1>5. IsLastDot(s, Sep2(s), Sep3(s)) /\ Sep2(s) \in Int
  BY <1>1, <1>4, FindsLast DEF Sep2, IsLastDot
<1>6. IsLastDot(s, Sep1(s), Sep2(s)) /\ Sep1(s) \in Int
  BY <1>1, <1>5, FindsLast DEF Sep1, IsLastDot
<1>7. IsLastDot(s, Sep0(s), Sep1(s))
  BY <1>1, <1>6, FindsLast DEF Sep0, IsLastDot
<1>8. QED
  BY <1>4, <1>5, <1>6, <1>7

\* Between the dots are the components.
End1(s) == [k \in 0 .. 1 |-> IF k = 0 THEN -1 ELSE Len(s)]
End2(s) == [k \in 0 .. 2 |-> IF k = 0 THEN -1 ELSE IF k = 1 THEN Sep3(s) ELSE Len(s)]
End3(s) == [k \in 0 .. 3 |-> IF k = 0 THEN -1 ELSE IF k = 1 THEN Sep2(s)
                             ELSE IF k = 2 THEN Sep3(s) ELSE Len(s)]
End4(s) == [k \in 0 .. 4 |-> IF k = 0 THEN -1 ELSE IF k = 1 THEN Sep1(s)
                             ELSE IF k = 2 THEN Sep2(s)
                             ELSE IF k = 3 THEN Sep3(s) ELSE Len(s)]

\* There are up to three dots, which are where the components end, or too many.
LEMMA DotsAreEnds ==
    ASSUME NEW s \in Chars
    PROVE  \/ Sep3(s) = -1 /\ Ends(s, 1, End1(s))
           \/ Sep3(s) >= 0 /\ Sep2(s) = -1 /\ Ends(s, 2, End2(s))
           \/ Sep3(s) > 0 /\ Sep2(s) >= 0 /\ Sep1(s) = -1 /\ Ends(s, 3, End3(s))
           \/ /\ Sep3(s) > 0 /\ Sep2(s) > 0 /\ Sep1(s) >= 0 /\ Sep0(s) = -1
              /\ Ends(s, 4, End4(s))
           \/ /\ Sep3(s) > 0 /\ Sep2(s) > 0 /\ Sep1(s) > 0 /\ Sep0(s) >= 0
              /\ Len(Components(s)) \in Nat /\ Len(Components(s)) > 4
<1>1. Len(s) \in Nat
  BY DEF Chars
<1>2. /\ IsLastDot(s, Sep3(s), Len(s))
      /\ IsLastDot(s, Sep2(s), Sep3(s))
      /\ IsLastDot(s, Sep1(s), Sep2(s))
      /\ IsLastDot(s, Sep0(s), Sep1(s))
  BY FindsDots
<1>3. CASE Sep3(s) = -1
  <2>1. IsComponent(s, 0, Len(s))
    BY <1>1, <1>2, <1>3 DEF IsLastDot, IsComponent
  <2>2. Ends(s, 1, End1(s))
    <3>1. /\ End1(s) \in [0 .. 1 -> Int] /\ End1(s)[0] = -1 /\ End1(s)[1] = Len(s)
      BY <1>1 DEF End1
    <3>2. \A k \in 1 .. 1 : k = 1 /\ k - 1 = 0
      OBVIOUS
    <3>3. QED
      BY <2>1, <3>1, <3>2 DEF Ends
  <2>3. QED
    BY <1>3, <2>2
<1>4. CASE Sep3(s) >= 0 /\ Sep2(s) = -1
  <2>1. /\ IsComponent(s, 0, Sep3(s)) /\ IsComponent(s, Sep3(s) + 1, Len(s))
        /\ Sep3(s) \in Int /\ Sep3(s) < Len(s)
    BY <1>1, <1>2, <1>4 DEF IsLastDot, IsComponent
  <2>2. Ends(s, 2, End2(s))
    <3>1. /\ End2(s) \in [0 .. 2 -> Int] /\ End2(s)[0] = -1 /\ End2(s)[1] = Sep3(s)
          /\ End2(s)[2] = Len(s)
      BY <1>1, <2>1 DEF End2
    <3>2. \A k \in 1 .. 2 : (k = 1 /\ k - 1 = 0) \/ (k = 2 /\ k - 1 = 1)
      OBVIOUS
    <3>3. QED
      BY <2>1, <3>1, <3>2 DEF Ends
  <2>3. QED
    BY <1>4, <2>2
<1>5. CASE Sep3(s) >= 0 /\ Sep2(s) >= 0 /\ Sep1(s) = -1
  <2>1. /\ IsComponent(s, 0, Sep2(s)) /\ IsComponent(s, Sep2(s) + 1, Sep3(s))
        /\ IsComponent(s, Sep3(s) + 1, Len(s))
        /\ Sep3(s) \in Int /\ Sep3(s) < Len(s) /\ Sep2(s) \in Int /\ Sep2(s) < Len(s)
        /\ Sep3(s) > 0
    BY <1>1, <1>2, <1>5 DEF IsLastDot, IsComponent
  <2>2. Ends(s, 3, End3(s))
    <3>1. /\ End3(s) \in [0 .. 3 -> Int] /\ End3(s)[0] = -1 /\ End3(s)[1] = Sep2(s)
          /\ End3(s)[2] = Sep3(s) /\ End3(s)[3] = Len(s)
      BY <1>1, <2>1 DEF End3
    <3>2. \A k \in 1 .. 3 :
                (k = 1 /\ k - 1 = 0) \/ (k = 2 /\ k - 1 = 1) \/ (k = 3 /\ k - 1 = 2)
      OBVIOUS
    <3>3. QED
      BY <2>1, <3>1, <3>2 DEF Ends
  <2>3. QED
    BY <1>5, <2>1, <2>2
<1>6. CASE Sep3(s) >= 0 /\ Sep2(s) >= 0 /\ Sep1(s) >= 0 /\ Sep0(s) = -1
  <2>1. /\ Sep3(s) \in Nat /\ Sep2(s) \in Nat /\ Sep1(s) \in Nat
        /\ Sep1(s) < Sep2(s) /\ Sep2(s) < Sep3(s) /\ Sep3(s) < Len(s)
        /\ Has(s, Sep1(s), ".") /\ Has(s, Sep2(s), ".") /\ Has(s, Sep3(s), ".")
    BY <1>1, <1>2, <1>6 DEF IsLastDot
  <2>2. IsComponent(s, 0, Sep1(s))
    BY <1>1, <1>2, <1>6, <2>1 DEF IsLastDot, IsComponent
  <2>3. IsComponent(s, Sep1(s) + 1, Sep2(s))
    BY <1>1, <1>2, <1>6, <2>1 DEF IsLastDot, IsComponent
  <2>4. IsComponent(s, Sep2(s) + 1, Sep3(s))
    BY <1>1, <1>2, <1>6, <2>1 DEF IsLastDot, IsComponent
  <2>5. IsComponent(s, Sep3(s) + 1, Len(s))
    BY <1>1, <1>2, <1>6, <2>1 DEF IsLastDot, IsComponent
  <2>6. Ends(s, 4, End4(s))
    <3>1. /\ End4(s) \in [0 .. 4 -> Int] /\ End4(s)[0] = -1 /\ End4(s)[1] = Sep1(s)
          /\ End4(s)[2] = Sep2(s) /\ End4(s)[3] = Sep3(s) /\ End4(s)[4] = Len(s)
      BY <1>1, <2>1 DEF End4
    <3>2. \A k \in 1 .. 4 :
                \/ (k = 1 /\ k - 1 = 0) \/ (k = 2 /\ k - 1 = 1)
                \/ (k = 3 /\ k - 1 = 2) \/ (k = 4 /\ k - 1 = 3)
      OBVIOUS
    <3>3. QED
      BY <1>1, <2>1, <2>2, <2>3, <2>4, <2>5, <3>1, <3>2 DEF Ends
  <2>7. QED
    BY <1>6, <2>1, <2>6
<1>7. CASE Sep3(s) >= 0 /\ Sep2(s) >= 0 /\ Sep1(s) >= 0 /\ Sep0(s) >= 0
  <2>1. /\ Sep0(s) \in Nat /\ Sep1(s) \in Nat /\ Sep2(s) \in Nat /\ Sep3(s) \in Nat
        /\ Sep0(s) < Sep1(s) /\ Sep1(s) < Sep2(s) /\ Sep2(s) < Sep3(s)
        /\ Has(s, Sep0(s), ".") /\ Has(s, Sep1(s), ".")
        /\ Has(s, Sep2(s), ".") /\ Has(s, Sep3(s), ".")
    BY <1>1, <1>2, <1>7 DEF IsLastDot
  <2>2. QED
    BY <1>7, <2>1, FiveParts
<1>8. \/ Sep3(s) = -1
      \/ Sep3(s) >= 0 /\ Sep2(s) = -1
      \/ Sep3(s) >= 0 /\ Sep2(s) >= 0 /\ Sep1(s) = -1
      \/ Sep3(s) >= 0 /\ Sep2(s) >= 0 /\ Sep1(s) >= 0 /\ Sep0(s) = -1
      \/ Sep3(s) >= 0 /\ Sep2(s) >= 0 /\ Sep1(s) >= 0 /\ Sep0(s) >= 0
  BY <1>1, <1>2 DEF IsLastDot
<1>9. QED
  BY <1>3, <1>4, <1>5, <1>6, <1>7, <1>8

----------------------------------------------------------------------------
(* inet_addr reads what is between the dots that it finds.                 *)

\* What the parser makes of each number of dots.
OctetAt(s, b) == parse_inet_component(s, Octet - 1, b)
WholeOf(s) == parse_inet_component(s, Word - 1, 0)
AddressOrNot(c1, c2, c3, c4) ==
    IF c1 < 0 \/ c2 < 0 \/ c3 < 0 \/ c4 < 0 THEN Rejected ELSE Address(c1, c2, c3, c4)

\* A component that starts with a dot is empty.
LEMMA DotFirst ==
    ASSUME NEW s \in Chars, Has(s, 0, "."), NEW m
    PROVE  parse_inet_component(s, m, 0) = -1
<1>1. Len(s) \in Nat /\ s \in Seq(STRING)
  BY DEF Chars
<1>2. IsComponent(s, 0, 0)
  BY <1>1 DEF IsComponent
<1>3. 0 = 0 \/ \E p \in 0 .. 0 - 1 : Has(s, p, ":")
  OBVIOUS
<1>4. QED
  BY <1>1, <1>2, <1>3, BadComponent, Zenon

\* A dot in front is rejected, whichever case inet_addr_impl takes.
LEMMA ReadsDots ==
    ASSUME NEW s \in Chars
    PROVE  /\ Has(s, 0, ".") => inet_addr_impl(s) = Rejected
           /\ ~Has(s, 0, ".") /\ Sep3(s) <= 0 =>
                inet_addr_impl(s) = AddressOrNot(0, 0, 0, WholeOf(s))
           /\ ~Has(s, 0, ".") /\ Sep3(s) > 0 /\ Sep2(s) <= 0 =>
                inet_addr_impl(s)
                  = AddressOrNot(OctetAt(s, 0), 0, 0, OctetAt(s, Sep3(s) + 1))
           /\ ~Has(s, 0, ".") /\ Sep2(s) > 0 /\ Sep1(s) <= 0 =>
                inet_addr_impl(s)
                  = AddressOrNot(OctetAt(s, 0), OctetAt(s, Sep2(s) + 1), 0,
                                 OctetAt(s, Sep3(s) + 1))
           /\ ~Has(s, 0, ".") /\ Sep1(s) > 0 /\ Sep0(s) = -1 =>
                inet_addr_impl(s)
                  = AddressOrNot(OctetAt(s, 0), OctetAt(s, Sep1(s) + 1),
                                 OctetAt(s, Sep2(s) + 1), OctetAt(s, Sep3(s) + 1))
           /\ Sep1(s) > 0 /\ Sep0(s) # -1 => inet_addr_impl(s) = Rejected
<1> DEFINE impl == inet_addr_impl(s)
           dot == Has(s, 0, ".")
           a1 == AddressOrNot(0, 0, 0, WholeOf(s))
           a2 == AddressOrNot(OctetAt(s, 0), 0, 0, OctetAt(s, Sep3(s) + 1))
           a3 == AddressOrNot(OctetAt(s, 0), OctetAt(s, Sep2(s) + 1), 0,
                              OctetAt(s, Sep3(s) + 1))
           a4 == AddressOrNot(OctetAt(s, 0), OctetAt(s, Sep1(s) + 1),
                              OctetAt(s, Sep2(s) + 1), OctetAt(s, Sep3(s) + 1))
<1>1. impl = CASE dot -> Rejected
               [] ~dot /\ Sep3(s) <= 0 -> a1
               [] Sep3(s) > 0 /\ Sep2(s) <= 0 -> a2
               [] Sep2(s) > 0 /\ Sep1(s) <= 0 -> a3
               [] Sep1(s) > 0 -> IF Sep0(s) # -1 THEN Rejected ELSE a4
  BY DEF inet_addr_impl, Sep0, Sep1, Sep2, Sep3, OctetAt, WholeOf, AddressOrNot
<1>2. /\ Sep3(s) \in Int /\ Sep2(s) \in Int /\ Sep1(s) \in Int
      /\ Sep1(s) > 0 => Sep2(s) > 0
      /\ Sep2(s) > 0 => Sep3(s) > 0
  <2>1. Len(s) \in Nat
    BY DEF Chars
  <2>2. Sep3(s) \in Int
    BY <2>1, FindsDots DEF IsLastDot
  <2>3. Sep2(s) \in Int /\ (Sep2(s) > 0 => Sep3(s) > 0)
    BY <2>2, FindsDots DEF IsLastDot
  <2>4. Sep1(s) \in Int /\ (Sep1(s) > 0 => Sep2(s) > 0)
    BY <2>3, FindsDots DEF IsLastDot
  <2>5. QED
    BY <2>2, <2>3, <2>4
<1>3. ASSUME dot PROVE a2 = Rejected /\ a3 = Rejected /\ a4 = Rejected
  <2>1. OctetAt(s, 0) = -1
    BY <1>3, DotFirst DEF OctetAt
  <2>2. QED
    BY <2>1 DEF AddressOrNot
<1> HIDE DEF impl, dot, a1, a2, a3, a4
<1>4. dot => impl = Rejected
  BY <1>1, <1>3
<1>5. ~dot /\ Sep3(s) <= 0 => impl = a1
  BY <1>1, <1>2
<1>6. ~dot /\ Sep3(s) > 0 /\ Sep2(s) <= 0 => impl = a2
  BY <1>1, <1>2
<1>7. ~dot /\ Sep2(s) > 0 /\ Sep1(s) <= 0 => impl = a3
  BY <1>1, <1>2
<1>8. ~dot /\ Sep1(s) > 0 /\ Sep0(s) = -1 => impl = a4
  BY <1>1, <1>2
<1>9. Sep1(s) > 0 /\ Sep0(s) # -1 => impl = Rejected
  BY <1>1, <1>2, <1>4
<1>10. QED
  BY <1>4, <1>5, <1>6, <1>7, <1>8, <1>9 DEF impl, dot, a1, a2, a3, a4

\* What a literal is worth to the code.
CodedBy(s) ==
    LET n == Len(Components(s))
    IN  IF n > 4 THEN {} ELSE AddressOf(AsReads(Components(s)), ReadBelow(n))
AsCoded(s) == Yields(s, CodedBy(s))

\* It reads a literal if it reads the components between the dots.
LEMMA ComponentsAreEnough ==
    ASSUME NEW s \in Chars, NEW n, NEW d, Ends(s, n, d),
           inet_addr_impl(s) = IF \A k \in 1 .. n : ReadAt(s, n, d)[k] >= 0
                               THEN Joined(n, ReadAt(s, n, d))
                               ELSE Rejected
    PROVE  AsCoded(s)
<1> DEFINE c == ReadAt(s, n, d)
<1>1. n \in 1 .. 4 /\ Len(Components(s)) = n
  BY SplitsAtDots DEF Ends
<1>2. /\ c \in [1 .. n -> Int]
      /\ MeantBy(s, n) = IF \A k \in 1 .. n : c[k] >= 0 THEN {Joined(n, c)} ELSE {}
  BY ReadsBetweenDots, Zenon
<1> DEFINE meant == CodedBy(s)
<1>3. meant = IF \A k \in 1 .. n : c[k] >= 0 THEN {Joined(n, c)} ELSE {}
  <2>1. meant = MeantBy(s, n)
    BY <1>1 DEF CodedBy, MeantBy
  <2>2. QED
    BY <1>2, <2>1
<1>4. AsCoded(s) <=> IF is_valid_ip4addr(s)
                     THEN meant = {inet_addr(s)}
                     ELSE meant = {} /\ inet_addr(s) = Word - 1
  BY DEF AsCoded, Yields
<1> HIDE DEF meant, c
<1>5. ASSUME \A k \in 1 .. n : c[k] >= 0 PROVE Joined(n, c) \in Nat
  <2>1. \A k \in 1 .. n : c[k] \in Nat
    BY <1>2, <1>5
  <2>2. CASE n = 1
    <3>1. Joined(n, c) = Address(0, 0, 0, c[1]) /\ c[1] \in Nat /\ 0 \in Nat
      BY <2>1, <2>2 DEF Joined
    <3>2. QED
      BY <3>1, AddressIsNat
  <2>3. CASE n = 2
    <3>1. Joined(n, c) = Address(c[1], 0, 0, c[2])
      BY <2>3 DEF Joined
    <3>2. c[1] \in Nat /\ c[2] \in Nat /\ 0 \in Nat
      BY <2>1, <2>3
    <3>3. Address(c[1], 0, 0, c[2]) \in Nat
      BY <3>2, AddressIsNat, Zenon
    <3>4. QED
      BY <3>1, <3>3
  <2>4. CASE n = 3
    <3>1. Joined(n, c) = Address(c[1], c[2], 0, c[3])
      BY <2>4 DEF Joined
    <3>2. c[1] \in Nat /\ c[2] \in Nat /\ c[3] \in Nat /\ 0 \in Nat
      BY <2>1, <2>4
    <3>3. Address(c[1], c[2], 0, c[3]) \in Nat
      BY <3>2, AddressIsNat, Zenon
    <3>4. QED
      BY <3>1, <3>3
  <2>5. CASE n = 4
    <3>1. Joined(n, c) = Address(c[1], c[2], c[3], c[4])
      BY <2>5 DEF Joined
    <3>2. c[1] \in Nat /\ c[2] \in Nat /\ c[3] \in Nat /\ c[4] \in Nat /\ 0 \in Nat
      BY <2>1, <2>5
    <3>3. Address(c[1], c[2], c[3], c[4]) \in Nat
      BY <3>2, AddressIsNat, Zenon
    <3>4. QED
      BY <3>1, <3>3
  <2>6. QED
    BY <1>1, <2>2, <2>3, <2>4, <2>5
<1>6. inet_addr_impl(s) = IF \A k \in 1 .. n : c[k] >= 0 THEN Joined(n, c) ELSE Rejected
  BY DEF c
<1>7. CASE \A k \in 1 .. n : c[k] >= 0
  <2>1. inet_addr_impl(s) = Joined(n, c) /\ inet_addr_impl(s) # Rejected
    BY <1>5, <1>6, <1>7 DEF Rejected
  <2>2. QED
    BY <1>3, <1>4, <1>7, <2>1 DEF is_valid_ip4addr, inet_addr
<1>8. CASE ~\A k \in 1 .. n : c[k] >= 0
  <2>1. inet_addr_impl(s) = Rejected
    BY <1>6, <1>8
  <2>2. QED
    BY <1>3, <1>4, <1>8, <2>1 DEF is_valid_ip4addr, inet_addr
<1>9. QED
  BY <1>7, <1>8

\* A literal without dots is all of the address.
LEMMA ReadsFewDots ==
    ASSUME NEW s \in Chars, Sep3(s) = -1, Ends(s, 1, End1(s))
    PROVE  AsCoded(s)
<1>1. ~Has(s, 0, ".")
  <2>1. \A j \in 0 .. Len(s) - 1 : ~Has(s, j, ".")
    BY FindsDots DEF IsLastDot
  <2>2. Len(s) \in Nat
    BY DEF Chars
  <2>3. QED
    BY <2>1, <2>2 DEF Has
<1>2. inet_addr_impl(s) = AddressOrNot(0, 0, 0, WholeOf(s))
  BY <1>1, ReadsDots
<1> DEFINE c == ReadAt(s, 1, End1(s))
<1>3. c[1] = WholeOf(s)
  <2>1. 1 \in 1 .. 1 /\ 1 - 1 = 0 /\ End1(s)[0] + 1 = 0
    BY DEF End1
  <2>2. QED
    BY <2>1 DEF ReadAt, MaxOf, WholeOf
<1>4. c[1] \in Int
  <2>1. c \in [1 .. 1 -> Int]
    BY ReadsBetweenDots, Zenon
  <2>2. QED
    BY <2>1
<1> HIDE DEF c
<1>5. \A k \in 1 .. 1 : k = 1
  OBVIOUS
<1>6. (\A k \in 1 .. 1 : c[k] >= 0) <=> ~(c[1] < 0)
  BY <1>4, <1>5
<1>7. inet_addr_impl(s) = IF \A k \in 1 .. 1 : c[k] >= 0 THEN Joined(1, c) ELSE Rejected
  <2>1. Joined(1, c) = Address(0, 0, 0, c[1])
    BY DEF Joined
  <2>2. AddressOrNot(0, 0, 0, c[1]) = IF c[1] < 0 THEN Rejected ELSE Address(0, 0, 0, c[1])
    BY DEF AddressOrNot
  <2>3. QED
    BY <1>2, <1>3, <1>6, <2>1, <2>2
<1>8. QED
  BY <1>7, ComponentsAreEnough DEF c

\* Two components, of which the first is empty if a dot is in front.
LEMMA ReadsTwoComponents ==
    ASSUME NEW s \in Chars, Sep3(s) >= 0, Sep2(s) = -1, Ends(s, 2, End2(s))
    PROVE  AsCoded(s)
<1> DEFINE c == ReadAt(s, 2, End2(s))
<1>1. c[1] = OctetAt(s, 0) /\ c[2] = OctetAt(s, Sep3(s) + 1)
  <2>1. /\ 1 \in 1 .. 2 /\ 1 - 1 = 0 /\ End2(s)[0] + 1 = 0
        /\ 2 \in 1 .. 2 /\ 2 - 1 = 1 /\ End2(s)[1] = Sep3(s)
    BY DEF End2
  <2>2. QED
    BY <2>1 DEF ReadAt, MaxOf, OctetAt
<1> HIDE DEF c
<1>2. (\A k \in 1 .. 2 : c[k] >= 0) <=> c[1] >= 0 /\ c[2] >= 0
  <2>1. \A k : k \in 1 .. 2 <=> k = 1 \/ k = 2
    OBVIOUS
  <2>2. QED
    BY <2>1
<1>3. c \in [1 .. 2 -> Int]
  BY ReadsBetweenDots, Zenon DEF c
<1>4. c[1] \in Int /\ c[2] \in Int
  BY <1>3
<1>5. inet_addr_impl(s) = IF \A k \in 1 .. 2 : c[k] >= 0 THEN Joined(2, c) ELSE Rejected
  <2>1. CASE Has(s, 0, ".")
    <3>1. c[1] = -1
      BY <1>1, <2>1, DotFirst DEF OctetAt
    <3>2. inet_addr_impl(s) = Rejected
      BY <2>1, ReadsDots
    <3>3. QED
      BY <1>2, <3>1, <3>2
  <2>2. CASE ~Has(s, 0, ".")
    <3>1. Sep3(s) > 0
      BY <2>2, FindsDots DEF IsLastDot
    <3>2. inet_addr_impl(s) = AddressOrNot(c[1], 0, 0, c[2])
      BY <1>1, <2>2, <3>1, ReadsDots
    <3>3. QED
      BY <1>2, <1>4, <3>2 DEF AddressOrNot, Joined
  <2>3. QED
    BY <2>1, <2>2
<1>6. QED
  BY <1>5, ComponentsAreEnough DEF c

\* Three components.
LEMMA ReadsThreeComponents ==
    ASSUME NEW s \in Chars, Sep3(s) > 0, Sep2(s) >= 0, Sep1(s) = -1, Ends(s, 3, End3(s))
    PROVE  AsCoded(s)
<1> DEFINE c == ReadAt(s, 3, End3(s))
<1>1. /\ c[1] = OctetAt(s, 0) /\ c[2] = OctetAt(s, Sep2(s) + 1)
      /\ c[3] = OctetAt(s, Sep3(s) + 1)
  <2>1. /\ 1 \in 1 .. 3 /\ 1 - 1 = 0 /\ End3(s)[0] + 1 = 0
        /\ 2 \in 1 .. 3 /\ 2 - 1 = 1 /\ End3(s)[1] = Sep2(s)
        /\ 3 \in 1 .. 3 /\ 3 - 1 = 2 /\ End3(s)[2] = Sep3(s)
    BY DEF End3
  <2>2. QED
    BY <2>1 DEF ReadAt, MaxOf, OctetAt
<1> HIDE DEF c
<1>2. (\A k \in 1 .. 3 : c[k] >= 0) <=> c[1] >= 0 /\ c[2] >= 0 /\ c[3] >= 0
  <2>1. \A k : k \in 1 .. 3 <=> k = 1 \/ k = 2 \/ k = 3
    OBVIOUS
  <2>2. QED
    BY <2>1
<1>3. c \in [1 .. 3 -> Int]
  BY ReadsBetweenDots, Zenon DEF c
<1>4. c[1] \in Int /\ c[2] \in Int /\ c[3] \in Int
  BY <1>3
<1>5. inet_addr_impl(s) = IF \A k \in 1 .. 3 : c[k] >= 0 THEN Joined(3, c) ELSE Rejected
  <2>1. CASE Has(s, 0, ".")
    <3>1. c[1] = -1
      BY <1>1, <2>1, DotFirst DEF OctetAt
    <3>2. inet_addr_impl(s) = Rejected
      BY <2>1, ReadsDots
    <3>3. QED
      BY <1>2, <3>1, <3>2
  <2>2. CASE ~Has(s, 0, ".")
    <3>1. Sep2(s) > 0
      BY <2>2, FindsDots DEF IsLastDot
    <3>2. inet_addr_impl(s) = AddressOrNot(c[1], c[2], 0, c[3])
      BY <1>1, <2>2, <3>1, ReadsDots
    <3>3. QED
      BY <1>2, <1>4, <3>2 DEF AddressOrNot, Joined
  <2>3. QED
    BY <2>1, <2>2
<1>6. QED
  BY <1>5, ComponentsAreEnough DEF c

\* Four components.
LEMMA ReadsFourComponents ==
    ASSUME NEW s \in Chars, Sep3(s) > 0, Sep2(s) > 0, Sep1(s) >= 0, Sep0(s) = -1,
           Ends(s, 4, End4(s))
    PROVE  AsCoded(s)
<1> DEFINE c == ReadAt(s, 4, End4(s))
<1>1. /\ c[1] = OctetAt(s, 0) /\ c[2] = OctetAt(s, Sep1(s) + 1)
      /\ c[3] = OctetAt(s, Sep2(s) + 1) /\ c[4] = OctetAt(s, Sep3(s) + 1)
  <2>1. /\ 1 \in 1 .. 4 /\ 1 - 1 = 0 /\ End4(s)[0] + 1 = 0
        /\ 2 \in 1 .. 4 /\ 2 - 1 = 1 /\ End4(s)[1] = Sep1(s)
        /\ 3 \in 1 .. 4 /\ 3 - 1 = 2 /\ End4(s)[2] = Sep2(s)
        /\ 4 \in 1 .. 4 /\ 4 - 1 = 3 /\ End4(s)[3] = Sep3(s)
    BY DEF End4
  <2>2. QED
    BY <2>1 DEF ReadAt, MaxOf, OctetAt
<1> HIDE DEF c
<1>2. (\A k \in 1 .. 4 : c[k] >= 0) <=> c[1] >= 0 /\ c[2] >= 0 /\ c[3] >= 0 /\ c[4] >= 0
  <2>1. \A k : k \in 1 .. 4 <=> k = 1 \/ k = 2 \/ k = 3 \/ k = 4
    OBVIOUS
  <2>2. QED
    BY <2>1
<1>3. c \in [1 .. 4 -> Int]
  BY ReadsBetweenDots, Zenon DEF c
<1>4. c[1] \in Int /\ c[2] \in Int /\ c[3] \in Int /\ c[4] \in Int
  BY <1>3
<1>5. inet_addr_impl(s) = IF \A k \in 1 .. 4 : c[k] >= 0 THEN Joined(4, c) ELSE Rejected
  <2>1. CASE Has(s, 0, ".")
    <3>1. c[1] = -1
      BY <1>1, <2>1, DotFirst DEF OctetAt
    <3>2. inet_addr_impl(s) = Rejected
      BY <2>1, ReadsDots
    <3>3. QED
      BY <1>2, <3>1, <3>2
  <2>2. CASE ~Has(s, 0, ".")
    <3>1. Sep1(s) > 0
      BY <2>2, FindsDots DEF IsLastDot
    <3>2. inet_addr_impl(s) = AddressOrNot(c[1], c[2], c[3], c[4])
      BY <1>1, <2>2, <3>1, ReadsDots
    <3>3. QED
      BY <1>2, <1>4, <3>2 DEF AddressOrNot, Joined
  <2>3. QED
    BY <2>1, <2>2
<1>6. QED
  BY <1>5, ComponentsAreEnough DEF c

\* Whatever the number of dots.
LEMMA ReadsEveryNumberOfDots ==
    ASSUME NEW s \in Chars
    PROVE  AsCoded(s)
<1>1. CASE Sep3(s) = -1 /\ Ends(s, 1, End1(s))
  BY <1>1, ReadsFewDots
<1>2. CASE Sep3(s) >= 0 /\ Sep2(s) = -1 /\ Ends(s, 2, End2(s))
  BY <1>2, ReadsTwoComponents
<1>3. CASE Sep3(s) > 0 /\ Sep2(s) >= 0 /\ Sep1(s) = -1 /\ Ends(s, 3, End3(s))
  BY <1>3, ReadsThreeComponents
<1>4. CASE /\ Sep3(s) > 0 /\ Sep2(s) > 0 /\ Sep1(s) >= 0 /\ Sep0(s) = -1
           /\ Ends(s, 4, End4(s))
  BY <1>4, ReadsFourComponents
<1>5. CASE /\ Sep3(s) > 0 /\ Sep2(s) > 0 /\ Sep1(s) > 0 /\ Sep0(s) >= 0
           /\ Len(Components(s)) \in Nat /\ Len(Components(s)) > 4
  <2>1. inet_addr_impl(s) = Rejected
    BY <1>5, ReadsDots
  <2>2. QED
    BY <1>5, <2>1 DEF AsCoded, CodedBy, Yields, is_valid_ip4addr, inet_addr
<1>6. QED
  BY <1>1, <1>2, <1>3, <1>4, <1>5, DotsAreEnds

\* No limit of the code is above the documented one.
LEMMA LimitsOfLast ==
    ASSUME NEW n \in 1 .. 4
    PROVE  ReadBelow(n) \in Nat /\ LastBelow(n) \in Nat /\ ReadBelow(n) <= LastBelow(n)
<1>1. Octet \in Nat /\ Octet >= 2 /\ Word \in Nat /\ Word \div 2 \in Nat
      /\ 2 * (Word \div 2) <= Word
  BY Widths
<1> DEFINE q == Octet * Octet
<1>2. q \in Nat /\ Octet <= q
  <2>1. q = (Octet - 1) * Octet + Octet /\ (Octet - 1) * Octet \in Nat
    BY <1>1
  <2>2. QED
    BY <1>1, <2>1
<1> DEFINE c == q * Octet
<1>3. c \in Nat /\ q <= c
  <2> HIDE DEF q
  <2>1. c = q * (Octet - 1) + q /\ q * (Octet - 1) \in Nat
    BY <1>1, <1>2
  <2>2. QED
    BY <1>1, <1>2, <2>1
<1>4. /\ n = 1 => ReadBelow(n) = Word \div 2 /\ LastBelow(n) = Word
      /\ n = 2 => ReadBelow(n) = Octet /\ LastBelow(n) = c
      /\ n = 3 => ReadBelow(n) = Octet /\ LastBelow(n) = q
      /\ n = 4 => ReadBelow(n) = Octet /\ LastBelow(n) = Octet
  BY DEF ReadBelow, LastBelow
<1> HIDE DEF q, c
<1>5. QED
  BY <1>1, <1>2, <1>3, <1>4

\* What is documented of components that the code reads as they are documented:
\* with a last one that is not too wide the same, else more than it reads.
LEMMA DocumentedOfRead ==
    ASSUME NEW parts \in Seq(Chars), NEW n \in 1 .. 4, Len(parts) = n,
           \A k \in 1 .. n : OneOrNone(AsRead(parts[k])) /\ ~TwoZeros(parts[k])
    PROVE  LET read == AddressOf(AsReads(parts), ReadBelow(n))
           IN  IF \E x \in AnyBase(parts[n]) : x >= ReadBelow(n)
               THEN read = {}
               ELSE read = Documented(parts)
<1> DEFINE w == AnyBases(parts)
           R == ReadBelow(n)
           D == LastBelow(n)
           sum == SumOf([k \in 1 .. n |-> (CHOOSE x \in w[k] : TRUE) * Weight(k, n)], n)
           Fits(l) == \A k \in 1 .. n : \E x \in w[k] : x < (IF k = n THEN l ELSE Octet)
<1>1. AsReads(parts) = w
  <2>1. \A k \in 1 .. n : AsRead(parts[k]) = AnyBase(parts[k])
    BY DEF AsRead
  <2>2. DOMAIN parts = 1 .. n
    OBVIOUS
  <2>3. QED
    BY <2>1, <2>2 DEF AsReads, AnyBases
<1>2. /\ n \in Nat /\ Len(w) = n /\ DOMAIN w = 1 .. n
      /\ \A k \in 1 .. n : w[k] = AnyBase(parts[k]) /\ OneOrNone(w[k])
  <2>1. /\ n \in Nat /\ Len(w) = n /\ DOMAIN w = 1 .. n
        /\ \A k \in 1 .. n : w[k] = AnyBase(parts[k]) /\ AsReads(parts)[k] = AsRead(parts[k])
    BY ValuesOf
  <2>2. QED
    BY <1>1, <2>1
<1>3. R \in Nat /\ D \in Nat /\ R <= D
  BY LimitsOfLast
<1>4. Documented(parts) = AddressOf(w, D)
  BY DEF Documented
<1>5. n \in 1 .. n
  BY <1>2
<1> HIDE DEF w, R, D
<1>6. /\ AddressOf(w, R) = IF Fits(R) THEN {sum} ELSE {}
      /\ AddressOf(w, D) = IF Fits(D) THEN {sum} ELSE {}
  <2>1. ASSUME NEW l PROVE AddressOf(w, l) = IF Fits(l) THEN {sum} ELSE {}
    BY <1>2, AddressIsSum
  <2> HIDE DEF Fits, sum
  <2>2. QED
    BY <2>1
<1>7. CASE \E x \in w[n] : x >= R
  <2>1. ~\E x \in w[n] : x < R
    <3>1. OneOrNone(w[n])
      BY <1>2, <1>5
    <3>2. QED
      BY <1>3, <1>7, <3>1 DEF OneOrNone
  <2>2. ~Fits(R)
    BY <1>5, <2>1
  <2> HIDE DEF Fits, sum
  <2>3. QED
    BY <1>1, <1>2, <1>5, <1>6, <1>7, <2>2 DEF R
<1>8. CASE ~\E x \in w[n] : x >= R
  <2>1. (\E x \in w[n] : x < R) <=> (\E x \in w[n] : x < D)
    <3>1. OneOrNone(w[n])
      BY <1>2, <1>5
    <3>2. CASE w[n] = {}
      BY <3>2
    <3>3. ASSUME NEW v \in Nat, w[n] = {v} PROVE v < R /\ v < D
      BY <1>3, <1>8, <3>3
    <3>4. QED
      BY <3>1, <3>2, <3>3 DEF OneOrNone
  <2>2. ASSUME NEW k \in 1 .. n
        PROVE  (\E x \in w[k] : x < (IF k = n THEN R ELSE Octet))
                  <=> (\E x \in w[k] : x < (IF k = n THEN D ELSE Octet))
    <3>1. CASE k = n
      BY <2>1, <3>1
    <3>2. CASE k # n
      BY <3>2
    <3>3. QED
      BY <3>1, <3>2
  <2>3. Fits(R) <=> Fits(D)
    BY <2>2
  <2> HIDE DEF Fits, sum
  <2>4. QED
    BY <1>1, <1>2, <1>4, <1>5, <1>6, <1>8, <2>3 DEF R
<1>9. QED
  BY <1>7, <1>8

\* Outside the exceptions that is what is documented.
LEMMA AsDocumented ==
    ASSUME NEW s \in Chars, NEW n, NEW d, Ends(s, n, d), AsCoded(s)
    PROVE  ReadsIPv4(s)
<1> DEFINE parts == Components(s)
           twoZeros == \E k \in DOMAIN parts : TwoZeros(parts[k])
           tooWide == \E x \in AnyBase(parts[n]) : x >= ReadBelow(n)
           read == AddressOf(AsReads(parts), ReadBelow(n))
<1>1. n \in 1 .. 4 /\ parts \in Seq(Chars) /\ Len(parts) = n /\ DOMAIN parts = 1 .. n
  <2>1. n \in 1 .. 4
    BY DEF Ends
  <2>2. parts \in Seq(Chars) /\ Len(parts) = n
    BY SplitsAtDots
  <2> HIDE DEF parts
  <2>3. QED
    BY <2>1, <2>2
<1>2. \A k \in 1 .. n : OneOrNone(AsRead(parts[k]))
  BY ReadsBetweenDots, Zenon
<1>3. Yields(s, read)
  BY <1>1 DEF AsCoded, CodedBy
<1>4. Last(parts) = parts[n]
  BY <1>1 DEF Last
<1> HIDE DEF parts
<1>5. ~twoZeros => IF tooWide THEN read = {} ELSE read = Documented(parts)
  BY <1>1, <1>2, DocumentedOfRead
<1>6. ReadsIPv4(s) <=>
         /\ ~twoZeros /\ ~tooWide => Yields(s, Documented(parts))
         /\ ~twoZeros /\ tooWide => Yields(s, {})
         /\ twoZeros => Yields(s, IF n > 4 THEN {} ELSE read)
  BY <1>1, <1>4 DEF ReadsIPv4, parts
<1> HIDE DEF twoZeros, tooWide, read
<1>7. ~(n > 4)
  BY <1>1
<1>8. CASE twoZeros
  BY <1>3, <1>6, <1>7, <1>8
<1>9. CASE ~twoZeros /\ tooWide
  <2>1. read = {}
    BY <1>5, <1>9
  <2>2. QED
    BY <1>3, <1>6, <1>9, <2>1
<1>10. CASE ~twoZeros /\ ~tooWide
  <2>1. read = Documented(parts)
    BY <1>5, <1>10
  <2>2. QED
    BY <1>3, <1>6, <1>10, <2>1
<1>11. QED
  BY <1>8, <1>9, <1>10

(***************************************************************************)
(* is_valid_ip4addr accepts the documented syntax of IPv4 addresses, in    *)
(* every base and with one to four components, and nothing else, and       *)
(* inet_addr returns the address; but it rejects a last component that is  *)
(* not an octet, or as the only one does not fit an int, and reads a       *)
(* component behind two zeros as decimal.                                  *)
(***************************************************************************)
THEOREM ReadsEveryIPv4 == Spec => []ParsesIPv4
<1>1. ASSUME NEW s \in Chars PROVE ReadsIPv4(s)
  <2>1. AsCoded(s)
    BY ReadsEveryNumberOfDots
  <2>2. CASE \E n, d : Ends(s, n, d)
    BY <2>1, <2>2, AsDocumented
  <2>3. CASE Len(Components(s)) \in Nat /\ Len(Components(s)) > 4
    <3>1. Yields(s, {}) /\ Documented(Components(s)) = {}
      BY <2>1, <2>3 DEF AsCoded, CodedBy, Documented
    <3>2. QED
      BY <2>3, <3>1 DEF ReadsIPv4
  <2>4. QED
    BY <2>2, <2>3, DotsAreEnds
<1>2. IInv => ParsesIPv4
  BY <1>1 DEF IInv, ParsesIPv4, Chars
<1> QED
  BY <1>2, InitIsGood, Step, PTL DEF Spec

----------------------------------------------------------------------------
(* inet_pton reads canonical components.                                   *)

\* What the parser of the canonical form makes of the dots.
CanonicalAt(s, b) == parse_inet_component_canonical(s, b)
CanonicalOrNot(c1, c2, c3, c4) ==
    IF c1 < 0 \/ c2 < 0 \/ c3 < 0
    THEN Rejected
    ELSE IF c4 = Rejected THEN Word - 1 ELSE Address(c1, c2, c3, c4)

\* It takes three dots and no fourth one.
LEMMA NeedsThreeDots ==
    ASSUME NEW s
    PROVE  inet_addr_canonical_at(s, 0) =
              IF \/ Sep3(s) < 0 + 1 \/ Sep2(s) < 0 + 1 \/ Sep1(s) < 0 + 1
                 \/ Sep0(s) >= 0
              THEN Rejected
              ELSE CanonicalOrNot(CanonicalAt(s, 0), CanonicalAt(s, Sep1(s) + 1),
                                  CanonicalAt(s, Sep2(s) + 1), CanonicalAt(s, Sep3(s) + 1))
BY DEF inet_addr_canonical_at, Sep0, Sep1, Sep2, Sep3, CanonicalAt, CanonicalOrNot

\* A literal without three dots is not read.
LEMMA OtherDots ==
    ASSUME NEW s, inet_addr_canonical_at(s, 0) = Rejected, Len(Components(s)) # 4
    PROVE  ReadsCanonical(s)
BY DEF ReadsCanonical, inet_pton

\* Nor is an empty component.
LEMMA NothingIsNotCanonical ==
    ASSUME NEW s \in Chars, Has(s, 0, ".")
    PROVE  CanonicalAt(s, 0) = Rejected
<1>1. Len(s) \in Nat /\ s \in Seq(STRING)
  BY DEF Chars
<1>2. IsComponent(s, 0, 0)
  BY <1>1 DEF IsComponent
<1>3. ComponentEnd(s, 0, ".") = 0
  BY <1>1, <1>2, ComponentEnds
<1>4. \A base, m, l : parse_address_component(s, base, ".", m, l, 0) = Rejected
  BY <1>3 DEF parse_address_component
<1>5. QED
  BY <1>4 DEF CanonicalAt, parse_inet_component_canonical

\* The first three components have to be canonical.
LEMMA FrontIsCanonical ==
    ASSUME NEW parts \in Seq(Chars), Len(parts) = 4,
           MeansCanonical(parts[1]), MeansCanonical(parts[2]), MeansCanonical(parts[3])
    PROVE  AddressOf(Canonicals(Front(parts)), Octet) # {}
<1>1. Front(parts) = SubSeq(parts, 1, 3)
  BY DEF Front
<1> DEFINE q == SubSeq(parts, 1, 3)
<1>2. q \in Seq(Chars) /\ Len(q) = 3 /\ \A k \in 1 .. 3 : q[k] = parts[k]
  OBVIOUS
<1> HIDE DEF q
<1>3. \A k \in 1 .. 3 : MeansCanonical(q[k])
  <2>1. \A k \in 1 .. 3 : k = 1 \/ k = 2 \/ k = 3
    OBVIOUS
  <2>2. QED
    BY <1>2, <2>1
<1>4. AddressOf(Canonicals(q), Octet) # {}
  BY <1>2, <1>3, AddressOfCanonical
<1>5. QED
  BY <1>1, <1>4 DEF q

\* With three dots, the components decide.
LEMMA ReadsFourCanonical ==
    ASSUME NEW s \in Chars, Sep3(s) > 0, Sep2(s) > 0, Sep1(s) >= 0, Sep0(s) = -1,
           Ends(s, 4, End4(s))
    PROVE  ReadsCanonical(s)
<1> DEFINE c == PartAt(s, 4, End4(s))
           parts == Components(s)
           meant == CanonicalBy(s)
           impl == inet_addr_canonical_at(s, 0)
<1>1. /\ c[1] = CanonicalAt(s, 0) /\ c[2] = CanonicalAt(s, Sep1(s) + 1)
      /\ c[3] = CanonicalAt(s, Sep2(s) + 1) /\ c[4] = CanonicalAt(s, Sep3(s) + 1)
  <2>1. /\ 1 \in 1 .. 4 /\ 1 - 1 = 0 /\ End4(s)[0] + 1 = 0
        /\ 2 \in 1 .. 4 /\ 2 - 1 = 1 /\ End4(s)[1] = Sep1(s)
        /\ 3 \in 1 .. 4 /\ 3 - 1 = 2 /\ End4(s)[2] = Sep2(s)
        /\ 4 \in 1 .. 4 /\ 4 - 1 = 3 /\ End4(s)[3] = Sep3(s)
    BY DEF End4
  <2>2. QED
    BY <2>1 DEF PartAt, CanonicalAt
<1>2. parts \in Seq(Chars) /\ Len(parts) = 4
  BY SplitsAtDots
<1>3. /\ \A k \in 1 .. 4 : IF MeansCanonical(parts[k])
                           THEN c[k] \in 0 .. Octet - 1
                           ELSE c[k] = Rejected
      /\ meant = IF \A k \in 1 .. 4 : c[k] # Rejected THEN {Joined(4, c)} ELSE {}
  <2>1. \A k \in 1 .. 4 : IF MeansCanonical(Components(s)[k])
                          THEN PartAt(s, 4, End4(s))[k] \in 0 .. Octet - 1
                          ELSE PartAt(s, 4, End4(s))[k] = Rejected
    BY ReadsCanonicalParts
  <2>2. CanonicalBy(s) =
           IF \A k \in 1 .. 4 : PartAt(s, 4, End4(s))[k] # Rejected
           THEN {Joined(4, PartAt(s, 4, End4(s)))}
           ELSE {}
    BY ReadsCanonicalParts
  <2>3. QED
    BY <2>1, <2>2
<1>4. impl = IF Sep1(s) < 1 THEN Rejected ELSE CanonicalOrNot(c[1], c[2], c[3], c[4])
  <2>1. /\ ~(Sep3(s) < 0 + 1) /\ ~(Sep2(s) < 0 + 1) /\ ~(Sep0(s) >= 0)
        /\ Sep1(s) < 0 + 1 <=> Sep1(s) < 1
    <3>1. Sep3(s) \in Int /\ Sep2(s) \in Int /\ Sep1(s) \in Int
      <4>1. Len(s) \in Nat
        BY DEF Chars
      <4>2. QED
        BY <4>1, FindsDots DEF IsLastDot
    <3>2. QED
      BY <3>1
  <2>2. QED
    BY <1>1, <2>1, NeedsThreeDots
<1>5. ReadsCanonical(s) <=>
         /\ meant # {} => {inet_pton(s)} = meant
         /\ inet_pton(s) # 0 => AddressOf(Canonicals(Front(parts)), Octet) # {}
  BY <1>2 DEF ReadsCanonical, CanonicalBy
<1>6. inet_pton(s) = IF impl = Rejected THEN 0 ELSE impl
  BY DEF inet_pton
<1> HIDE DEF c, parts, meant, impl
<1>7. Octet \in Nat /\ Octet >= 2
  BY Widths
<1>8. \A k \in 1 .. 4 : /\ MeansCanonical(parts[k]) <=> c[k] # Rejected
                        /\ c[k] # Rejected => c[k] \in Nat
  BY <1>3, <1>7 DEF Rejected
<1>9. /\ 1 \in 1 .. 4 /\ 2 \in 1 .. 4 /\ 3 \in 1 .. 4 /\ 4 \in 1 .. 4
      /\ \A k \in 1 .. 4 : k = 1 \/ k = 2 \/ k = 3 \/ k = 4
  OBVIOUS
<1>10. impl # Rejected =>
          MeansCanonical(parts[1]) /\ MeansCanonical(parts[2]) /\ MeansCanonical(parts[3])
  BY <1>4, <1>8, <1>9 DEF CanonicalOrNot, Rejected
<1>11. inet_pton(s) # 0 => AddressOf(Canonicals(Front(parts)), Octet) # {}
  BY <1>2, <1>6, <1>10, FrontIsCanonical
<1>12. ASSUME meant # {} PROVE {inet_pton(s)} = meant
  <2>1. (\A k \in 1 .. 4 : c[k] # Rejected) /\ meant = {Joined(4, c)}
    BY <1>3, <1>12
  <2>2. c[1] \in Nat /\ c[2] \in Nat /\ c[3] \in Nat /\ c[4] \in Nat /\ c[4] # Rejected
    BY <1>8, <1>9, <2>1
  <2>3. ~(Sep1(s) < 1)
    <3>1. Sep1(s) # 0
      <4>1. c[1] # Rejected
        BY <1>9, <2>1
      <4>2. ~Has(s, 0, ".")
        BY <1>1, <4>1, NothingIsNotCanonical
      <4>3. QED
        BY <4>2, FindsDots DEF IsLastDot
    <3>2. Sep1(s) \in Int /\ Sep1(s) >= 0
      BY FindsDots DEF IsLastDot
    <3>3. QED
      BY <3>1, <3>2
  <2>4. impl = CanonicalOrNot(c[1], c[2], c[3], c[4])
    BY <1>4, <2>3
  <2>5. impl = Address(c[1], c[2], c[3], c[4])
    BY <2>2, <2>4 DEF CanonicalOrNot
  <2>6. Address(c[1], c[2], c[3], c[4]) \in Nat
    BY <2>2, AddressIsNat, Zenon
  <2>7. Joined(4, c) = Address(c[1], c[2], c[3], c[4])
    BY DEF Joined
  <2>8. impl # Rejected
    BY <2>5, <2>6 DEF Rejected
  <2>9. QED
    BY <1>6, <2>1, <2>5, <2>7, <2>8
<1>13. QED
  BY <1>5, <1>11, <1>12

\* Whatever the number of dots.
LEMMA ReadsEveryCanonical ==
    ASSUME NEW s \in Chars
    PROVE  ReadsCanonical(s)
<1>1. CASE Sep3(s) = -1 /\ Ends(s, 1, End1(s))
  <2>1. Len(Components(s)) = 1
    BY <1>1, SplitsAtDots
  <2>2. inet_addr_canonical_at(s, 0) = Rejected
    BY <1>1, NeedsThreeDots
  <2>3. QED
    BY <2>1, <2>2, OtherDots
<1>2. CASE Sep3(s) >= 0 /\ Sep2(s) = -1 /\ Ends(s, 2, End2(s))
  <2>1. Len(Components(s)) = 2
    BY <1>2, SplitsAtDots
  <2>2. inet_addr_canonical_at(s, 0) = Rejected
    BY <1>2, NeedsThreeDots
  <2>3. QED
    BY <2>1, <2>2, OtherDots
<1>3. CASE Sep3(s) > 0 /\ Sep2(s) >= 0 /\ Sep1(s) = -1 /\ Ends(s, 3, End3(s))
  <2>1. Len(Components(s)) = 3
    BY <1>3, SplitsAtDots
  <2>2. inet_addr_canonical_at(s, 0) = Rejected
    BY <1>3, NeedsThreeDots
  <2>3. QED
    BY <2>1, <2>2, OtherDots
<1>4. CASE /\ Sep3(s) > 0 /\ Sep2(s) > 0 /\ Sep1(s) >= 0 /\ Sep0(s) = -1
           /\ Ends(s, 4, End4(s))
  BY <1>4, ReadsFourCanonical
<1>5. CASE /\ Sep3(s) > 0 /\ Sep2(s) > 0 /\ Sep1(s) > 0 /\ Sep0(s) >= 0
           /\ Len(Components(s)) \in Nat /\ Len(Components(s)) > 4
  <2>1. inet_addr_canonical_at(s, 0) = Rejected
    BY <1>5, NeedsThreeDots
  <2>2. QED
    BY <1>5, <2>1, OtherDots
<1>6. QED
  BY <1>1, <1>2, <1>3, <1>4, <1>5, DotsAreEnds

(***************************************************************************)
(* inet_pton returns the address of four canonical components, and returns *)
(* nothing else than 0 unless the first three of four are canonical.       *)
(***************************************************************************)
THEOREM ReadsEveryCanonicalIPv4 == Spec => []ParsesCanonical
<1>1. IInv => ParsesCanonical
  BY ReadsEveryCanonical DEF IInv, ParsesCanonical, Chars
<1> QED
  BY <1>1, InitIsGood, Step, PTL DEF Spec
=============================================================================
