---------------------------- MODULE Inet6Parser ----------------------------
(***************************************************************************)
(* inet6_aton of src/net/address.hpp: the loop that parses an IPv6         *)
(* literal, one component in each pass.                                    *)
(*                                                                         *)
(* A literal is described by its tokens, from which both the characters    *)
(* that the loop reads and the address it stands for are derived.          *)
(***************************************************************************)
EXTENDS Inet4Syntax

CONSTANTS
    Hexlets,   \* 8, the components of an address
    Literals   \* the literals to parse, each a sequence of tokens

\* A token is the characters of a hexlet, of an embedded IPv4 address, or of a
\* separator.
Colon == <<":">>
Shortener == <<":", ":">>
Separators == {Colon, Shortener}
IsIPv4(token) == \E i \in DOMAIN token : token[i] = "."
IsHexlet(token) == token \notin Separators /\ ~IsIPv4(token)

\* An embedded IPv4 address, of two components, is not all of the address.
ASSUME HexletsAssumption == Hexlets \in Nat /\ Hexlets > 2

\* A literal is a sequence of characters.
ASSUME LiteralsAssumption == \A l \in Literals : FlattenSeq(l) \in Seq(STRING)

VARIABLES
    literal,        \* the tokens
    str,            \* the characters
    pc,             \* "start", "loop", "accepted" or "rejected"
    comps,          \* the components
    shortener_pos,  \* the component where the shortener was, or -1
    idx,            \* the next character
    i               \* the next component

inputVars == <<literal, str>>
vars == <<inputVars, pc, comps, shortener_pos, idx, i>>

Positions == 0 .. Hexlets - 1

Init ==
    /\ literal \in Literals
    /\ str = FlattenSeq(literal)
    /\ pc = "start"
    /\ comps = [p \in Positions |-> 0]
    /\ shortener_pos = -1
    /\ idx = 0
    /\ i = 0

\* A faulty variant: what is moved is not zeroed behind.
rshift_array_keeps(a, from, shift) ==
    [p \in DOMAIN a |-> IF p >= from + shift THEN a[p - shift] ELSE a[p]]

\* rshift_array: from the last position down, each component is moved up by
\* `shift' and its old place is zeroed.
rshift_array(a, from, shift) ==
    FoldLeft(LAMBDA b, pos :
                 IF pos >= from + shift
                 THEN [b EXCEPT ![pos] = b[pos - shift], ![pos - shift] = 0]
                 ELSE b,
             a, [k \in 1 .. Hexlets |-> Hexlets - k])

Reject ==
    /\ pc' = "rejected"
    /\ UNCHANGED <<comps, shortener_pos, idx, i>>

\* The checks before the loop.  The one of the end looks at the NUL behind the
\* last character, so it never rejects.
Start ==
    /\ pc = "start"
    /\ IF Len(str) < 2 \/ (Has(str, 0, ":") /\ ~Has(str, 1, ":"))
       THEN Reject
       ELSE /\ pc' = "loop"
            /\ UNCHANGED <<comps, shortener_pos, idx, i>>
    /\ UNCHANGED inputVars

InLoop == pc = "loop" /\ i < Hexlets

\* A faulty variant: the missing components are zeros without a shortener too.
EndOfStringShort ==
    /\ InLoop
    /\ idx = Len(str)
    /\ pc' = "accepted"
    /\ UNCHANGED <<comps, shortener_pos, idx, i>>
    /\ UNCHANGED inputVars

\* The characters end before the components: without a shortener there are too
\* few, with one those behind it belong to the end of the address.
EndOfString ==
    /\ InLoop
    /\ idx = Len(str)
    /\ IF shortener_pos = -1
       THEN Reject
       ELSE /\ pc' = "accepted"
            /\ comps' = rshift_array(comps, shortener_pos, Hexlets - i)
            /\ UNCHANGED <<shortener_pos, idx, i>>
    /\ UNCHANGED inputVars

\* Is there an IPv4 address, where there may be one?
AtIPv4 ==
    /\ i = Hexlets - 2 \/ (i < Hexlets - 2 /\ shortener_pos # -1)
    /\ inet_addr_canonical_at(str, idx) # Rejected

EmbeddedIPv4 ==
    /\ InLoop
    /\ idx < Len(str)
    /\ AtIPv4
    /\ LET v4 == inet_addr_canonical_at(str, idx)
           with == [comps EXCEPT ![i] = v4 \div Hexlet, ![i + 1] = v4 % Hexlet]
       IN  comps' = IF shortener_pos = -1
                    THEN with
                    ELSE rshift_array(with, shortener_pos, Hexlets - (i + 2))
    /\ i' = i + 2
    /\ idx' = Len(str)
    /\ pc' = "accepted"
    /\ UNCHANGED shortener_pos
    /\ UNCHANGED inputVars

AtShortener == Has(str, idx, ":") /\ Has(str, idx + 1, ":")

ShortenerToken ==
    /\ InLoop
    /\ idx < Len(str)
    /\ ~AtIPv4
    /\ AtShortener
    /\ IF shortener_pos # -1 \/ Has(str, idx + 2, ":")
       THEN Reject
       ELSE /\ shortener_pos' = i
            /\ idx' = idx + 2
            /\ i' = i + 1
            /\ UNCHANGED <<pc, comps>>
    /\ UNCHANGED inputVars

\* find_chr: the first colon from idx on, or the end of the string
NextSeparator(next) ==
    /\ next \in idx .. Len(str)
    /\ next = Len(str) \/ Has(str, next, ":")
    /\ \A j \in idx .. next - 1 : ~Has(str, j, ":")

\* A faulty variant: the separator is skipped where there is none.
HexletTokenBeyond ==
    /\ InLoop
    /\ idx < Len(str)
    /\ ~AtIPv4
    /\ ~AtShortener
    /\ LET hexlet == parse_inet6_hexlet(str, idx)
       IN  IF hexlet = Rejected
           THEN Reject
           ELSE /\ comps' = [comps EXCEPT ![i] = hexlet]
                /\ \E next \in 0 .. Len(str) :
                      /\ NextSeparator(next)
                      /\ idx' = IF Has(str, next + 1, ":") THEN next ELSE next + 1
                /\ i' = i + 1
                /\ UNCHANGED <<pc, shortener_pos>>
    /\ UNCHANGED inputVars

\* The separator behind the hexlet is skipped, a shortener is not.
HexletToken ==
    /\ InLoop
    /\ idx < Len(str)
    /\ ~AtIPv4
    /\ ~AtShortener
    /\ LET hexlet == parse_inet6_hexlet(str, idx)
       IN  IF hexlet = Rejected
           THEN Reject
           ELSE /\ comps' = [comps EXCEPT ![i] = hexlet]
                /\ \E next \in 0 .. Len(str) :
                      /\ NextSeparator(next)
                      /\ idx' = IF next = Len(str) \/ Has(str, next + 1, ":")
                                THEN next
                                ELSE next + 1
                /\ i' = i + 1
                /\ UNCHANGED <<pc, shortener_pos>>
    /\ UNCHANGED inputVars

\* All components are there: so must be the end of the string.
LoopEnds ==
    /\ pc = "loop"
    /\ i = Hexlets
    /\ IF idx # Len(str)
       THEN Reject
       ELSE /\ pc' = "accepted"
            /\ UNCHANGED <<comps, shortener_pos, idx, i>>
    /\ UNCHANGED inputVars

\* The literal operator _ipaddr tries the families in turn.
Family ==
    CASE is_valid_ip4addr(str) -> "ip4"
      [] ~is_valid_ip4addr(str) /\ pc = "accepted" -> "ip6"
      [] OTHER -> "none"

\* The parser has returned.
Returned ==
    /\ pc \in {"accepted", "rejected"}
    /\ UNCHANGED vars

Next ==
    \/ Start
    \/ EndOfString
    \/ EmbeddedIPv4
    \/ ShortenerToken
    \/ HexletToken
    \/ LoopEnds
    \/ Returned

Spec == Init /\ [][Next]_vars

----------------------------------------------------------------------------
(* The documented syntax (address.hpp:336)                                 *)

\* The components that tokens stand for.
Numbers(tokens) ==
    FoldLeft(LAMBDA s, t :
                CASE t \in Separators -> s
                  [] IsIPv4(t) -> LET v4 == inet_addr_canonical_at(t, 0)
                                  IN  s \o <<v4 \div Hexlet, v4 % Hexlet>>
                  [] IsHexlet(t) -> Append(s, parse_inet6_hexlet(t, 0)),
             <<>>, tokens)

\* The places of shorteners among the tokens.
Shorteners == {t \in DOMAIN literal : literal[t] = Shortener}

\* Words and separators take turns; a single colon is neither first nor last;
\* an IPv4 address is last.
WellFormed ==
    /\ \A t \in 1 .. Len(literal) - 1 :
          literal[t] \in Separators <=> literal[t + 1] \notin Separators
    /\ literal # <<>>
    /\ literal[1] # Colon
    /\ literal[Len(literal)] # Colon
    /\ \A t \in DOMAIN literal :
          IsIPv4(literal[t]) =>
              t = Len(literal) /\ inet_addr_canonical_at(literal[t], 0) # Rejected
    /\ \A t \in DOMAIN literal : IsHexlet(literal[t]) => Len(literal[t]) \in 1 .. HexletDigits

\* x:x:x:x:x:x:x:x, or contiguous zero components compacted, once.
Valid ==
    /\ WellFormed
    /\ \/ Shorteners = {} /\ Len(Numbers(literal)) = Hexlets
       \/ /\ \E t \in Shorteners : Shorteners = {t}
          /\ Len(Numbers(literal)) < Hexlets

\* The components of a valid literal: zeros stand where the shortener is.
Expanded ==
    LET t == IF Shorteners = {} THEN Len(literal) ELSE CHOOSE s \in Shorteners : TRUE
        front == Numbers(SubSeq(literal, 1, t))
        back == Numbers(SubSeq(literal, t + 1, Len(literal)))
    IN  [p \in Positions |->
            IF p < Len(front) THEN front[p + 1]
            ELSE IF p >= Hexlets - Len(back) THEN back[p - (Hexlets - Len(back)) + 1]
            ELSE 0]

----------------------------------------------------------------------------
(* Properties                                                              *)

\* The loop accepts exactly the literals of the documented syntax, and reads
\* the address they stand for: the shortener may be at any place, and stand
\* for any number of components.
ParsesIPv6 ==
    /\ pc = "accepted" => Valid /\ comps = Expanded
    /\ pc = "rejected" => ~Valid

\* No pass goes behind the NUL or writes behind the last component, whatever the
\* literal: idx moves past separators, and an embedded IPv4 address takes two
\* components.
StaysInside ==
    /\ idx \in 0 .. Len(str)
    /\ i \in 0 .. Hexlets
    /\ shortener_pos < i

\* The IPv4 parsers read the documented syntax, in every base and with one to four
\* components, and reject the rest.  They depart from it in two places only: a last
\* component that is more than they read, 2^31 alone or more than an octet behind
\* others, is rejected however much of it is documented, and a component behind two
\* zeros is read as decimal.
ParsesIPv4 == pc = "start" => ReadsIPv4(str)

\* So does the parser of the canonical form, which reads the IPv4 address that an
\* IPv6 literal ends with.
ParsesCanonical == pc = "start" => ReadsCanonical(str)

\* No literal belongs to both families, so the order in which _ipaddr tries them
\* does not matter: whatever the loop accepts, as few as two characters, the
\* IPv4 parser with its short forms rejects.
OneFamily == pc = "accepted" => Family = "ip6"
=============================================================================
