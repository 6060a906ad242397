--------------------------- MODULE MCInetLiterals ---------------------------
(***************************************************************************)
(* Small instances of Inet6Parser: octets of four bits, written with at    *)
(* most two digits, and hexlets of eight.                                  *)
(***************************************************************************)
EXTENDS Inet6Parser

Dot == <<".">>

Zero == <<"0">>
Twelve == <<"1", "2">>
Fifteen == <<"1", "5">>
Sixteen == <<"1", "6">>
Octal12 == <<"0", "1", "2">>
Octal17 == <<"0", "1", "7">>
Octal20 == <<"0", "2", "0">>
Octal8 == <<"0", "8">>
Zeros == <<"0", "0">>
Zeros12 == <<"0", "0", "1", "2">>
HexF == <<"0", "x", "f">>
Hex10 == <<"0", "x", "1", "0">>
HexNothing == <<"0", "x">>
Letter == <<"x">>
MaxInt == <<"3", "2", "7", "6", "7">>
BeyondInt == <<"3", "2", "7", "6", "8">>

\* Numbers with dots between them, every one of `parts', up to n of them.
Dotted(parts, n) ==
    {[t \in 1 .. 2 * Len(p) - 1 |-> IF t % 2 = 1 THEN p[(t + 1) \div 2] ELSE Dot] :
        p \in UNION {[1 .. k -> parts] : k \in 1 .. n}}
Inet4 ==
    Dotted({<<>>, Zero, Twelve, Fifteen, Sixteen, Octal12, Octal17, Octal20, Octal8,
            Zeros, Zeros12, HexF, Hex10, HexNothing, Letter, MaxInt, BeyondInt}, 3)
    \cup Dotted({<<>>, Zero, Fifteen, Sixteen, Octal17}, 5)

One == <<"1">>
FF == <<"f", "f">>
TooLong == <<"0", "0", "1">>
IPv4 == <<"1", ".", "2", ".", "1", "5", ".", "3">>
ShortIPv4 == <<"1", ".", "2", ".", "3">>

\* Tokens in any order.  Two single colons would be a shortener, and two words
\* another word.
Tokens == {One, FF, TooLong, Colon, Shortener, IPv4, ShortIPv4}
Jumbled ==
    {l \in BoundedSeq(Tokens, 4) :
        \A t \in 1 .. Len(l) - 1 : 
            /\ ~(l[t] = Colon /\ l[t + 1] = Colon)
            /\ l[t] \in Separators \/ l[t + 1] \in Separators}

\* Words with separators between them, up to one word more than fit.  The
\* hexlets are all different.
Interleaved(words, seps) ==
    [t \in 1 .. 2 * Len(words) - 1 |->
        IF t % 2 = 1 THEN words[(t + 1) \div 2] ELSE seps[t \div 2]]
Hexlet123(n) == [t \in 1 .. n |-> <<Digits[t + 1]>>]
Spaced ==
    {lead \o Interleaved(words, seps) \o trail :
        lead \in {<<>>, <<Colon>>, <<Shortener>>},
        trail \in {<<>>, <<Colon>>, <<Shortener>>},
        words \in {Hexlet123(n) : n \in 1 .. Hexlets + 1}
                    \cup {Hexlet123(n) \o <<IPv4>> : n \in 0 .. Hexlets},
        seps \in {s \in [1 .. Hexlets -> Separators] :
                     Cardinality({t \in 1 .. Hexlets : s[t] = Shortener}) <= 2}}

\* Without the literals that the parser is known to misread: those with a single
\* colon at the end, with an IPv4 address before the end, and with a shortener
\* that stands for the one component that an IPv4 address leaves.
Leaves(l, n) ==
    Hexlets - n = Len(SelectSeq(l, IsHexlet)) + 2 * Len(SelectSeq(l, IsIPv4))
Regular ==
    {l \in Jumbled \cup Spaced :
        /\ l # <<>> => l[Len(l)] # Colon
        /\ \A t \in DOMAIN l : IsIPv4(l[t]) => t = Len(l)
        /\ (\E t \in DOMAIN l : IsIPv4(l[t])) => ~Leaves(l, 1)}

AllLiterals == Inet4 \cup Regular
=============================================================================
