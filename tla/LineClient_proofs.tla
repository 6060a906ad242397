------------------------- MODULE LineClient_proofs -------------------------
(***************************************************************************)
(* Proofs about LineBuffer and LineClient, for every search that stays     *)
(* inside its chunk, every set of chunks and every maximal line length.    *)
(***************************************************************************)
EXTENDS LineClient, SequenceTheorems, WellFoundedInduction, TLAPS

\* Conserved says where the unread rest of a chunk starts; it is inductive
\* once an idle buffer is known to have no rest.
IdleAtEnd ==
    /\ pc = "idle" => strpos = Len(chunk)
    /\ pc = "scan" => chunk \in Chunks

IInv == TypeOK /\ Conserved /\ ResidueBounded /\ IdleAtEnd /\ Base \in Nat

\* A piece of the stream, and what it is appended to.
LEMMA PositionsProperties ==
    ASSUME NEW from \in Nat, NEW to \in Nat, from <= to
    PROVE  /\ Positions(from, to) \in Seq(Nat)
           /\ Len(Positions(from, to)) = to - from
           /\ \A i \in 1 .. to - from : Positions(from, to)[i] = from + i
BY DEF Positions

\* Two adjacent pieces of the stream make one.
LEMMA Adjacent ==
    ASSUME NEW s \in Seq(Nat), NEW t \in Seq(Nat), NEW from \in Nat,
           \A i \in 1 .. Len(s) : s[i] = from + i,
           \A i \in 1 .. Len(t) : t[i] = from + Len(s) + i
    PROVE  /\ s \o t \in Seq(Nat)
           /\ Len(s \o t) = Len(s) + Len(t)
           /\ \A i \in 1 .. Len(s \o t) : (s \o t)[i] = from + i
<1>1. /\ s \o t \in Seq(Nat)
      /\ Len(s \o t) = Len(s) + Len(t)
      /\ \A i \in 1 .. Len(s) + Len(t) :
            (s \o t)[i] = IF i <= Len(s) THEN s[i] ELSE t[i - Len(s)]
  BY ConcatProperties
<1>2. Len(s) \in Nat /\ Len(t) \in Nat
  OBVIOUS
<1>3. ASSUME NEW i \in 1 .. Len(s) + Len(t) PROVE (s \o t)[i] = from + i
  <2>1. CASE i <= Len(s)
    <3>1. i \in 1 .. Len(s)
      BY <1>2, <2>1
    <3>2. QED
      BY <1>1, <2>1, <3>1
  <2>2. CASE i > Len(s)
    <3>1. i - Len(s) \in 1 .. Len(t)
      BY <1>2, <2>2
    <3>2. t[i - Len(s)] = from + i
      BY <1>2, <3>1
    <3>3. QED
      BY <1>1, <1>2, <2>2, <3>2
  <2>3. QED
    BY <1>2, <2>1, <2>2
<1>4. QED
  BY <1>1, <1>3

\* The unfinished line and the next piece of the chunk, as the application
\* gets them or as they are kept.
LEMMA LineProperties ==
    ASSUME IInv, NEW next \in strpos .. Len(chunk), Len(chunk) \in Nat
    PROVE  LET line == data \o Positions(Base + strpos, Base + next)
               all  == delivered \o line
           IN  /\ line \in Seq(Nat)
               /\ Len(line) = Len(data) + next - strpos
               /\ \A i \in 1 .. Len(line) : line[i] = Len(delivered) + i
               /\ all \in Seq(Nat)
               /\ Len(all) = Base + next
               /\ \A i \in 1 .. Len(all) : all[i] = i
<1> DEFINE piece == Positions(Base + strpos, Base + next)
           line  == data \o piece
           all   == delivered \o line
<1>1. /\ strpos \in Nat /\ next \in Nat /\ Base \in Nat /\ strpos <= next
      /\ data \in Seq(Nat) /\ delivered \in Seq(Nat)
      /\ Len(data) \in Nat /\ Len(delivered) \in Nat
  BY DEF IInv, TypeOK
<1>2. /\ \A i \in 1 .. Len(delivered) : delivered[i] = i
      /\ \A i \in 1 .. Len(data) : data[i] = Len(delivered) + i
      /\ Len(delivered) + Len(data) = Base + strpos
  BY DEF IInv, Conserved
<1>3. /\ piece \in Seq(Nat)
      /\ Len(piece) = next - strpos
      /\ \A i \in 1 .. Len(piece) : piece[i] = Len(delivered) + Len(data) + i
  <2> DEFINE from == Base + strpos
             to   == Base + next
  <2>1. /\ from \in Nat /\ to \in Nat /\ from <= to
        /\ to - from = next - strpos
        /\ from = Len(delivered) + Len(data)
    BY <1>1, <1>2
  <2> HIDE DEF from, to
  <2>2. /\ Positions(from, to) \in Seq(Nat)
        /\ Len(Positions(from, to)) = to - from
        /\ \A i \in 1 .. to - from : Positions(from, to)[i] = from + i
    BY <2>1, PositionsProperties
  <2>3. QED
    BY <1>1, <2>1, <2>2 DEF from, to
<1> HIDE DEF piece
<1>4. /\ line \in Seq(Nat)
      /\ Len(line) = Len(data) + next - strpos
      /\ \A i \in 1 .. Len(line) : line[i] = Len(delivered) + i
  <2>1. /\ line \in Seq(Nat)
        /\ Len(line) = Len(data) + Len(piece)
        /\ \A i \in 1 .. Len(line) : line[i] = Len(delivered) + i
    BY <1>1, <1>2, <1>3, Adjacent
  <2>2. QED
    BY <1>1, <1>3, <2>1
<1> HIDE DEF line
<1>5. /\ all \in Seq(Nat)
      /\ Len(all) = Base + next
      /\ \A i \in 1 .. Len(all) : all[i] = i
  <2> PICK zero \in Nat : zero = 0
    OBVIOUS
  <2>1. /\ \A i \in 1 .. Len(delivered) : delivered[i] = zero + i
        /\ \A i \in 1 .. Len(line) : line[i] = zero + Len(delivered) + i
    BY <1>1, <1>2, <1>4
  <2>2. /\ all \in Seq(Nat)
        /\ Len(all) = Len(delivered) + Len(line)
        /\ \A i \in 1 .. Len(all) : all[i] = zero + i
    BY <1>1, <1>4, <2>1, Adjacent
  <2>3. Len(all) = Base + next
    <3>1. /\ Len(all) = Len(delivered) + Len(line)
          /\ Len(line) = Len(data) + next - strpos
          /\ Len(delivered) + Len(data) = Base + strpos
      BY <1>2, <1>4, <2>2
    <3>2. \A d, e, b, p, n \in Nat : d + e = b + p => d + (e + n - p) = b + n
      OBVIOUS
    <3>3. QED
      BY <1>1, <3>1, <3>2
  <2>4. \A i \in 1 .. Len(all) : zero + i = i
    BY <1>1, <2>3
  <2>5. QED
    BY <2>2, <2>3, <2>4
<1>6. QED
  BY <1>4, <1>5 DEF line, piece

LEMMA BufferInit == Init => IInv
<1> USE SearchAssumption DEF SearchAssumption
<1> SUFFICES ASSUME Init PROVE IInv
  OBVIOUS
<1>1. <<>> \in Seq(Nat) /\ <<>> \in Seq(Chars) /\ Len(<<>>) = 0
  BY EmptySeq
<1>2. TypeOK
  BY <1>1 DEF Init, TypeOK
<1>3. Base = 0 /\ Conserved /\ ResidueBounded /\ IdleAtEnd
  BY DEF Init, Base, Conserved, ResidueBounded, IdleAtEnd
<1>4. QED
  BY <1>2, <1>3 DEF IInv

LEMMA BufferStep == IInv /\ [Next]_vars => IInv'
<1> USE SearchAssumption DEF SearchAssumption
<1> SUFFICES ASSUME IInv, [Next]_vars PROVE IInv'
  OBVIOUS
<1>1. /\ Len(chunk) \in Nat /\ Len(received) \in Nat /\ strpos \in 0 .. Len(chunk)
      /\ chunk \in Seq(Chars) /\ received \in Seq(Chars)
      /\ data \in Seq(Nat) /\ delivered \in Seq(Nat) /\ ends \in Seq(Nat)
      /\ Len(<<>>) = 0
  <2>1. chunk \in Seq(Chars)
    BY <<>> \in Seq(Chars) DEF IInv, TypeOK
  <2>2. QED
    BY <2>1 DEF IInv, TypeOK
<1>2. ASSUME NEW c \in Chunks, Receive(c) PROVE IInv'
  <2>1. /\ received' \in Seq(Chars)
        /\ Len(received') = Len(received) + Len(c)
        /\ Len(c) \in Nat
    <3>1. c \in Seq(Chars)
      OBVIOUS
    <3>2. QED
      BY <1>1, <1>2, <3>1, ConcatProperties DEF Receive
  <2>2. TypeOK'
    <3>1. cuts' \subseteq Nat
      <4>1. cuts \subseteq Nat /\ cuts' = cuts \cup {Len(received')}
        BY <1>2, <2>1 DEF IInv, TypeOK, Receive
      <4>2. Len(received') \in Nat
        BY <1>1, <2>1
      <4>3. QED
        BY <4>1, <4>2
    <3>2. strpos' \in 0 .. Len(chunk') /\ chunk' \in Chunks /\ pc' = "scan"
      BY <1>2, <2>1 DEF Receive
    <3>3. Len(received') <= MaxReceived
      BY <1>2, <2>1 DEF Receive
    <3>4. UNCHANGED <<data, delivered, ends>>
      BY <1>2 DEF Receive
    <3>5. QED
      BY <1>1, <2>1, <3>1, <3>2, <3>3, <3>4 DEF TypeOK
  <2>3. Base' = Len(received) /\ Base' \in Nat /\ strpos' = 0
    BY <1>1, <1>2, <2>1 DEF Base, Receive
  <2>4. Conserved'
    <3>1. Base + strpos = Len(received)
      <4>1. strpos = Len(chunk)
        BY <1>2 DEF IInv, IdleAtEnd, Receive
      <4>2. QED
        BY <1>1, <4>1 DEF Base
    <3>2. QED
      BY <1>1, <1>2, <2>3, <3>1 DEF IInv, Conserved, Receive
  <2>5. IdleAtEnd' /\ ResidueBounded'
    BY <1>2 DEF IdleAtEnd, ResidueBounded, Receive
  <2>6. QED
    BY <2>2, <2>3, <2>4, <2>5 DEF IInv
<1>3. CASE LineFound
  <2> DEFINE next == Search(chunk, strpos)
             line == data \o Positions(Base + strpos, Base + next)
  <2>1. next \in strpos .. Len(chunk)
    <3>1. chunk \in Chunks
      BY <1>3 DEF LineFound, IInv, TypeOK, IdleAtEnd
    <3>2. QED
      BY <1>1, <1>3, <3>1 DEF LineFound
  <2>2. /\ delivered' = delivered \o line /\ data' = <<>> /\ strpos' = next
        /\ UNCHANGED <<pc, chunk, received, cuts>> /\ pc = "scan"
        /\ ends' = Append(ends, Len(delivered) + Len(line))
    BY <1>3 DEF LineFound
  <2>3. /\ delivered' \in Seq(Nat) /\ Len(delivered') = Base + next
        /\ \A i \in 1 .. Len(delivered') : delivered'[i] = i
        /\ line \in Seq(Nat)
    BY <1>1, <2>1, <2>2, LineProperties
  <2> HIDE DEF line, next
  <2>4. TypeOK'
    <3>1. ends' \in Seq(Nat)
      BY <1>1, <2>2, <2>3
    <3>2. strpos' \in 0 .. Len(chunk')
      BY <1>1, <2>1, <2>2
    <3>3. QED
      BY <2>2, <2>3, <3>1, <3>2, <<>> \in Seq(Nat) DEF IInv, TypeOK
  <2>5. Base' = Base
    BY <2>2 DEF Base
  <2>6. Conserved'
    BY <1>1, <2>1, <2>2, <2>3, <2>5 DEF Conserved, IInv
  <2>7. QED
    BY <2>2, <2>4, <2>5, <2>6 DEF IInv, IdleAtEnd, ResidueBounded
<1>4. CASE KeepRest \/ FlushRest
  <2>1. Len(chunk) \in strpos .. Len(chunk)
    BY <1>1
  <2>2. /\ Rest \in Seq(Nat) /\ Len(Rest) = Len(data) + Len(chunk) - strpos
        /\ \A i \in 1 .. Len(Rest) : Rest[i] = Len(delivered) + i
        /\ delivered \o Rest \in Seq(Nat)
        /\ Len(delivered \o Rest) = Base + Len(chunk)
        /\ \A i \in 1 .. Len(delivered \o Rest) : (delivered \o Rest)[i] = i
    BY <1>1, <2>1, LineProperties DEF Rest
  <2>3. /\ UNCHANGED <<chunk, received, cuts, ends>>
        /\ pc' = "idle" /\ strpos' = Len(chunk) /\ Base' = Base
    BY <1>4 DEF KeepRest, FlushRest, Base
  <2>4. CASE KeepRest
    <3>1. data' = Rest /\ delivered' = delivered
      BY <2>4 DEF KeepRest
    <3>2. TypeOK'
      BY <1>1, <2>2, <2>3, <3>1 DEF IInv, TypeOK
    <3>3. Conserved'
      BY <1>1, <2>2, <2>3, <3>1 DEF IInv, TypeOK, Conserved
    <3>4. ResidueBounded'
      BY <2>2, <2>4, <3>1 DEF KeepRest, ResidueBounded
    <3>5. QED
      BY <2>3, <3>2, <3>3, <3>4 DEF IInv, IdleAtEnd
  <2>5. CASE FlushRest
    <3>1. data' = <<>> /\ delivered' = delivered \o Rest
      BY <2>5 DEF FlushRest
    <3>2. TypeOK'
      BY <1>1, <2>2, <2>3, <3>1, <<>> \in Seq(Nat) DEF IInv, TypeOK
    <3>3. Conserved'
      BY <1>1, <2>2, <2>3, <3>1 DEF IInv, TypeOK, Conserved
    <3>4. ResidueBounded'
      BY <3>1, <1>1 DEF ResidueBounded
    <3>5. QED
      BY <2>3, <3>2, <3>3, <3>4 DEF IInv, IdleAtEnd
  <2>6. QED
    BY <1>4, <2>4, <2>5
<1>5. CASE UNCHANGED vars
  BY <1>5 DEF vars, IInv, TypeOK, Conserved, ResidueBounded, IdleAtEnd, Base
<1>6. QED
  BY <1>2, <1>3, <1>4, <1>5 DEF Next, ConnDataInCb

(***************************************************************************)
(* Nothing that is received gets lost, doubled or reordered on its way to  *)
(* the application, whatever the search, the chunks and the maximal        *)
(* length, and the unfinished line stays within that length.               *)
(***************************************************************************)
THEOREM NothingLost == Spec => [](TypeOK /\ Conserved /\ ResidueBounded)
<1>1. IInv => TypeOK /\ Conserved /\ ResidueBounded
  BY DEF IInv
<1> QED
  BY <1>1, BufferInit, BufferStep, PTL DEF Spec

----------------------------------------------------------------------------
(* The buffer on its client.                                               *)

\* Every step of the composition is a step of the buffer or leaves it alone.
LEMMA BufferOrStutter == AllNext => [Next]_vars
<1>1. CASE RecvData
  BY <1>1 DEF RecvData, Next
<1>2. CASE Pass
  BY <1>2 DEF Pass, Next, ConnDataInCb
<1>3. CASE MakeBuffer \/ DestroyBuffer \/ DropClient \/ ClientStep
  BY <1>3 DEF MakeBuffer, DestroyBuffer, DropClient, ClientStep
<1>4. CASE (\E n \in 1 .. MaxBytes : Write(n)) \/ RecvIntoDead \/ PassOnDead \/ Return
  BY <1>4 DEF Write, RecvIntoDead, PassOnDead, Return
<1>5. QED
  BY <1>1, <1>2, <1>3, <1>4 DEF AllNext

(***************************************************************************)
(* The same holds when the client delivers the chunks, whatever recv cuts, *)
(* the application writes, drops or destroys, and the peer does.           *)
(***************************************************************************)
THEOREM NothingLostOnClient == AllSpec => [](TypeOK /\ Conserved /\ ResidueBounded)
<1>1. AllInit => IInv
  BY BufferInit DEF AllInit
<1>2. IInv /\ [AllNext]_allVars => IInv'
  <2>1. UNCHANGED allVars => UNCHANGED vars
    BY DEF allVars
  <2>2. QED
    BY <2>1, BufferOrStutter, BufferStep
<1>3. IInv => TypeOK /\ Conserved /\ ResidueBounded
  BY DEF IInv
<1>4. QED
  BY <1>1, <1>2, <1>3, PTL DEF AllSpec

----------------------------------------------------------------------------
(* Where the lines end.                                                    *)

S == INSTANCE EolSearch

\* The search of a caller that passes its own: it returns the index past the
\* line end, as the loop of conn_data_in_cb needs it.
SearchesPastEnd ==
    /\ NPos = S!npos
    /\ \A c \in Chunks : \A i \in 0 .. Len(c) : Search(c, i) = S!PastEolSearch(c, i)

\* The line ends of a chunk, seen by itself.
EndsOf(c) ==
    {k \in 1 .. Len(c) : c[k] = "LF" \/ (c[k] = "CR" /\ (k = Len(c) \/ c[k + 1] # "LF"))}

LEMMA Least ==
    ASSUME NEW T, T \subseteq Nat, T # {}
    PROVE  \E x \in T : \A y \in T : x <= y
<1>1. \E R : IsWellFoundedOn(R, Nat) /\ \A x, y \in Nat : y < x => <<y, x>> \in R
  <2> DEFINE R == OpToRel(<, Nat)
  <2>1. IsWellFoundedOn(R, Nat)
    BY NatLessThanWellFounded
  <2>2. \A x, y \in Nat : y < x => <<y, x>> \in R
    BY DEF OpToRel
  <2> HIDE DEF R
  <2>3. QED
    BY <2>1, <2>2
<1>2. PICK R : IsWellFoundedOn(R, Nat) /\ \A x, y \in Nat : y < x => <<y, x>> \in R
  BY <1>1
<1>3. PICK x \in T : \A y \in T : ~(<<y, x>> \in R)
  BY <1>2, WFMin
<1>4. \A y \in T : ~(y < x)
  BY <1>2, <1>3, Zenon
<1>5. QED
  BY <1>4

\* The search stops behind the first line end from where it starts.
LEMMA StopsAtFirst ==
    ASSUME SearchesPastEnd, NEW c \in Chunks, NEW s \in 0 .. Len(c)
    PROVE  LET n == Search(c, s)
           IN  /\ n = NPos => \A k \in s + 1 .. Len(c) : k \notin EndsOf(c)
               /\ n # NPos => /\ n \in s + 1 .. Len(c) /\ n \in EndsOf(c)
                              /\ \A k \in s + 1 .. n - 1 : k \notin EndsOf(c)
<1> DEFINE found == {i \in s .. Len(c) - 1 : S!CharAt(c, i) \in S!EolChars}
           first == S!Min(found)
           pair  == /\ S!CharAt(c, first) = "CR"
                    /\ first < Len(c) - 1
                    /\ S!CharAt(c, first + 1) = "LF"
           last  == S!DefaultEolSearch(c, s)
           n     == Search(c, s)
<1>1. c \in Seq(Chars) /\ Len(c) \in Nat /\ s \in Nat /\ s <= Len(c)
  BY SearchAssumption
<1>2. n = IF last = S!npos THEN S!npos ELSE last + 1
  BY DEF SearchesPastEnd, S!PastEolSearch
<1>3. last = IF found = {} THEN S!npos ELSE IF pair THEN first + 1 ELSE first
  BY DEF S!DefaultEolSearch
<1>4. NPos = -1 /\ S!npos = -1
  BY DEF SearchesPastEnd, S!npos
<1>5. /\ \A i \in found : i \in Nat /\ s <= i /\ i < Len(c)
                          /\ (c[i + 1] = "CR" \/ c[i + 1] = "LF")
      /\ \A i \in s .. Len(c) - 1 : i \notin found => c[i + 1] # "CR" /\ c[i + 1] # "LF"
  BY <1>1 DEF S!CharAt, S!EolChars
<1>6. found # {} => first \in found /\ \A i \in found : first <= i
  <2>1. found # {} => \E x \in found : \A y \in found : x <= y
    BY <1>5, Least
  <2>2. QED
    BY <2>1 DEF S!Min
<1>7. pair <=> c[first + 1] = "CR" /\ first < Len(c) - 1 /\ c[(first + 1) + 1] = "LF"
  BY DEF S!CharAt
<1> HIDE DEF found, first, pair, last, n
<1>8. CASE found = {}
  <2>1. n = NPos
    BY <1>2, <1>3, <1>4, <1>8
  <2>2. ASSUME NEW k \in s + 1 .. Len(c) PROVE k \notin EndsOf(c)
    <3>1. k - 1 \in s .. Len(c) - 1 /\ (k - 1) + 1 = k
      BY <1>1
    <3>2. c[k] # "CR" /\ c[k] # "LF"
      BY <1>5, <1>8, <3>1
    <3>3. QED
      BY <3>2 DEF EndsOf
  <2>3. QED
    BY <2>1, <2>2 DEF n
<1>9. CASE found # {}
  <2>1. /\ first \in Nat /\ s <= first /\ first < Len(c)
        /\ (c[first + 1] = "CR" \/ c[first + 1] = "LF")
        /\ \A i \in found : first <= i
    BY <1>5, <1>6, <1>9
  <2>2. n = (IF pair THEN first + 2 ELSE first + 1) /\ n # NPos
    BY <1>2, <1>3, <1>4, <1>9, <2>1
  <2>3. ASSUME NEW k \in s + 1 .. first PROVE k \notin EndsOf(c)
    <3>1. k - 1 \in s .. Len(c) - 1 /\ (k - 1) + 1 = k /\ ~(first <= k - 1)
      BY <1>1, <2>1
    <3>2. c[k] # "CR" /\ c[k] # "LF"
      BY <1>5, <2>1, <3>1
    <3>3. QED
      BY <3>2 DEF EndsOf
  <2>4. CASE pair
    <3>1. /\ c[first + 1] = "CR" /\ c[first + 2] = "LF" /\ first + 2 <= Len(c)
          /\ (first + 1) + 1 = first + 2 /\ first + 1 # Len(c)
      BY <1>1, <1>7, <2>1, <2>4
    <3>2. first + 2 \in EndsOf(c) /\ first + 1 \notin EndsOf(c)
      BY <1>1, <2>1, <3>1 DEF EndsOf
    <3>3. \A k \in s + 1 .. (first + 2) - 1 : k \in s + 1 .. first \/ k = first + 1
      BY <1>1, <2>1
    <3>4. n = first + 2 /\ n \in s + 1 .. Len(c)
      BY <1>1, <2>1, <2>2, <2>4, <3>1
    <3>5. QED
      BY <2>2, <2>3, <3>2, <3>3, <3>4 DEF n
  <2>5. CASE ~pair
    <3>1. first + 1 \in EndsOf(c)
      <4>1. first + 1 \in 1 .. Len(c) /\ (~(first < Len(c) - 1) => first + 1 = Len(c))
        BY <1>1, <2>1
      <4>2. QED
        BY <1>7, <2>1, <2>5, <4>1 DEF EndsOf
    <3>2. n = first + 1 /\ n \in s + 1 .. Len(c) /\ (first + 1) - 1 = first
      BY <1>1, <2>1, <2>2, <2>5
    <3>3. QED
      BY <2>2, <2>3, <3>1, <3>2 DEF n
  <2>6. QED
    BY <2>4, <2>5
<1>10. QED
  BY <1>8, <1>9

\* What is left of the chunk is the end of what was received, and of the
\* places where a chunk ended only that end lies in it.
EndsInv ==
    /\ CompleteAtLineEnds
    /\ Len(received) \in cuts \cup {0}
    /\ \A x \in cuts : x <= Base \/ x = Len(received)
    /\ \A k \in 1 .. Len(chunk) : received[Base + k] = chunk[k]

LEMMA ChunkTypes ==
    ASSUME IInv
    PROVE  /\ Len(received) \in Nat /\ Len(chunk) \in Nat /\ Base \in Nat
           /\ Len(received) = Base + Len(chunk) /\ strpos \in 0 .. Len(chunk)
           /\ received \in Seq(Chars) /\ ends \in Seq(Nat) /\ cuts \subseteq Nat
           /\ delivered \in Seq(Nat) /\ data \in Seq(Nat)
<1>1. chunk \in Seq(Chars)
  BY SearchAssumption, <<>> \in Seq(Chars) DEF IInv, TypeOK
<1>2. /\ received \in Seq(Chars) /\ strpos \in 0 .. Len(chunk) /\ Base \in Nat
      /\ ends \in Seq(Nat) /\ cuts \subseteq Nat /\ delivered \in Seq(Nat) /\ data \in Seq(Nat)
  BY DEF IInv, TypeOK
<1>3. Len(received) \in Nat /\ Len(chunk) \in Nat
  BY <1>1, <1>2
<1>4. QED
  BY <1>2, <1>3 DEF Base

LEMMA ChunkEnds ==
    ASSUME IInv, EndsInv, NEW k \in 1 .. Len(chunk)
    PROVE  Base + k \in LineEnds <=> k \in EndsOf(chunk)
<1>1. /\ Len(received) \in Nat /\ Len(chunk) \in Nat /\ Base \in Nat
      /\ Len(received) = Base + Len(chunk)
  BY ChunkTypes
<1>2. Base + k \in 1 .. Len(received) /\ received[Base + k] = chunk[k]
  BY <1>1 DEF EndsInv
<1>3. Base + k \in cuts <=> k = Len(chunk)
  BY <1>1 DEF EndsInv
<1>4. k # Len(chunk) => received[(Base + k) + 1] = chunk[k + 1]
  <2>1. ASSUME k # Len(chunk)
        PROVE  k + 1 \in 1 .. Len(chunk) /\ Base + (k + 1) = (Base + k) + 1
    BY <1>1, <2>1
  <2>2. QED
    BY <2>1 DEF EndsInv
<1>5. QED
  BY <1>2, <1>3, <1>4 DEF LineEnds, EndsOf

LEMMA EndsInit == Init => EndsInv
<1>1. Init => /\ Len(received) = 0 /\ Len(chunk) = 0 /\ Base = 0 /\ strpos = 0
              /\ Len(ends) = 0 /\ cuts = {}
  BY DEF Init, Base
<1>2. QED
  BY <1>1 DEF EndsInv, CompleteAtLineEnds, LineEnds

LEMMA ReceiveEnds ==
    ASSUME IInv, EndsInv, NEW c \in Chunks, Receive(c)
    PROVE  EndsInv'
<1>1. /\ Len(received) \in Nat /\ Base \in Nat /\ Len(chunk) \in Nat
      /\ Len(received) = Base + Len(chunk) /\ received \in Seq(Chars) /\ cuts \subseteq Nat
  BY ChunkTypes
<1>2. c \in Seq(Chars) /\ Len(c) \in Nat
  BY SearchAssumption
<1>3. /\ received' \in Seq(Chars) /\ Len(received') = Len(received) + Len(c)
      /\ \A i \in 1 .. Len(received) : received'[i] = received[i]
      /\ \A k \in 1 .. Len(c) : received'[Len(received) + k] = c[k]
  <2>1. received' = received \o c
    BY DEF Receive
  <2>2. /\ received \o c \in Seq(Chars)
        /\ Len(received \o c) = Len(received) + Len(c)
        /\ \A i \in 1 .. Len(received) + Len(c) : (received \o c)[i]
               = IF i <= Len(received) THEN received[i] ELSE c[i - Len(received)]
    BY <1>1, <1>2, ConcatProperties
  <2>3. /\ received' \in Seq(Chars) /\ Len(received') = Len(received) + Len(c)
        /\ \A i \in 1 .. Len(received) + Len(c) : received'[i]
               = IF i <= Len(received) THEN received[i] ELSE c[i - Len(received)]
    BY <2>1, <2>2, Zenon
  <2>4. ASSUME NEW k \in 1 .. Len(c) PROVE received'[Len(received) + k] = c[k]
    <3>1. /\ Len(received) + k \in 1 .. Len(received) + Len(c)
          /\ ~(Len(received) + k <= Len(received)) /\ (Len(received) + k) - Len(received) = k
      BY <1>1, <1>2
    <3>2. QED
      BY <2>3, <3>1
  <2>5. ASSUME NEW i \in 1 .. Len(received) PROVE received'[i] = received[i]
    BY <1>1, <1>2, <2>3
  <2>6. QED
    BY <2>3, <2>4, <2>5
<1>4. /\ chunk' = c /\ strpos' = 0 /\ ends' = ends
      /\ cuts' = cuts \cup {Len(received')}
      /\ Base + strpos = Len(received)
  BY <1>1, <1>3 DEF Receive, IInv, IdleAtEnd
<1>5. Base' = Len(received)
  BY <1>1, <1>2, <1>3, <1>4 DEF Base
<1>6. ASSUME NEW i \in 1 .. Len(received) PROVE i \in LineEnds' <=> i \in LineEnds
  <2>1. i \in cuts' <=> i \in cuts
    BY <1>1, <1>2, <1>3, <1>4 DEF EndsInv
  <2>2. i # Len(received) => received'[i + 1] = received[i + 1]
    BY <1>1, <1>3
  <2>3. i = Len(received) => i \in cuts
    BY <1>1 DEF EndsInv
  <2>4. i \in 1 .. Len(received')
    BY <1>1, <1>2, <1>3
  <2>5. received'[i] = received[i]
    BY <1>3
  <2>6. QED
    BY <2>1, <2>2, <2>3, <2>4, <2>5 DEF LineEnds
<1>7. {i \in LineEnds' : i <= Base' + strpos'} = {i \in LineEnds : i <= Base + strpos}
  <2>1. Base' + strpos' = Len(received)
    BY <1>1, <1>4, <1>5
  <2>2. \A i \in LineEnds : i \in 1 .. Len(received)
    BY DEF LineEnds
  <2>3. \A i \in LineEnds' : i <= Len(received) => i \in 1 .. Len(received)
    BY <1>1, <1>2, <1>3 DEF LineEnds
  <2>4. QED
    BY <1>4, <1>6, <2>1, <2>2, <2>3
<1>8. CompleteAtLineEnds'
  BY <1>4, <1>7 DEF EndsInv, CompleteAtLineEnds
<1>9. ASSUME NEW x \in cuts' PROVE x <= Base' \/ x = Len(received')
  <2>1. ASSUME x \in cuts PROVE x <= Len(received)
    BY <1>1, <2>1 DEF EndsInv
  <2>2. QED
    BY <1>4, <1>5, <2>1
<1>10. QED
  BY <1>3, <1>4, <1>5, <1>8, <1>9 DEF EndsInv

\* A pass that stops at a line end, and one that finds none.
LEMMA PassEnds ==
    ASSUME SearchesPastEnd, IInv, EndsInv, LineFound \/ KeepRest \/ FlushRest
    PROVE  EndsInv'
<1>1. /\ Len(received) \in Nat /\ Len(chunk) \in Nat /\ Base \in Nat
      /\ Len(received) = Base + Len(chunk) /\ strpos \in 0 .. Len(chunk)
      /\ ends \in Seq(Nat) /\ strpos \in Nat /\ Len(ends) \in Nat
  BY ChunkTypes
<1>2. UNCHANGED <<chunk, received, cuts>> /\ pc = "scan"
  BY DEF LineFound, KeepRest, FlushRest, NothingFound
<1>3. chunk \in Chunks
  BY <1>2 DEF IInv, IdleAtEnd
<1>4. Base' = Base /\ LineEnds' = LineEnds
  BY <1>2 DEF Base, LineEnds
<1> DEFINE n == Search(chunk, strpos)
<1>5. /\ n = NPos => \A k \in strpos + 1 .. Len(chunk) : k \notin EndsOf(chunk)
      /\ n # NPos => /\ n \in strpos + 1 .. Len(chunk) /\ n \in EndsOf(chunk)
                     /\ \A k \in strpos + 1 .. n - 1 : k \notin EndsOf(chunk)
  BY <1>1, <1>3, StopsAtFirst
<1>6. ASSUME NEW i \in LineEnds, i > Base + strpos
      PROVE  i - Base \in strpos + 1 .. Len(chunk) /\ i - Base \in EndsOf(chunk)
  <2>1. i \in 1 .. Len(received)
    BY DEF LineEnds
  <2>2. /\ i - Base \in strpos + 1 .. Len(chunk) /\ i - Base \in 1 .. Len(chunk)
        /\ Base + (i - Base) = i
    BY <1>1, <1>6, <2>1
  <2>3. QED
    BY <2>2, ChunkEnds
<1>7. CompleteAtLineEnds
  BY DEF EndsInv
<1>8. CASE LineFound
  <2> DEFINE line == data \o Positions(Base + strpos, Base + n)
  <2>1. n # NPos /\ strpos' = n /\ ends' = Append(ends, Len(delivered) + Len(line))
    BY <1>8 DEF LineFound
  <2>2. n \in strpos .. Len(chunk) /\ n \in strpos + 1 .. Len(chunk) /\ n \in 1 .. Len(chunk)
    BY <1>1, <1>5, <2>1
  <2>3. Len(delivered) + Len(line) = Base + n
    <3>1. /\ delivered \in Seq(Nat) /\ line \in Seq(Nat)
          /\ Len(line) = Len(data) + n - strpos
      BY <1>1, <2>2, LineProperties, ChunkTypes
    <3>2. Len(delivered) + Len(data) = Base + strpos
      BY DEF IInv, Conserved
    <3>3. Len(delivered) \in Nat /\ Len(data) \in Nat
      BY ChunkTypes
    <3>4. \A d, e, b, s, m \in Nat : d + e = b + s => d + (e + m - s) = b + m
      OBVIOUS
    <3>5. n \in Nat
      BY <1>1, <2>2
    <3> HIDE DEF n, line
    <3>6. Len(delivered) + (Len(data) + n - strpos) = Base + n
      BY <1>1, <3>2, <3>3, <3>4, <3>5
    <3>7. QED
      BY <3>1, <3>6
  <2> HIDE DEF n, line
  <2>4. /\ Base + n \in Nat /\ Base + strpos < Base + n
    BY <1>1, <2>2
  <2>5. /\ Len(ends') = Len(ends) + 1 /\ ends'[Len(ends) + 1] = Base + n
        /\ \A i \in 1 .. Len(ends) : ends'[i] = ends[i]
    BY <1>1, <2>1, <2>3, <2>4, AppendProperties
  <2>6. \A i \in 1 .. Len(ends) : ends[i] <= Base + strpos /\ ends[i] \in Nat
    BY <1>1, <1>7 DEF CompleteAtLineEnds
  <2>7. ASSUME NEW i \in 1 .. Len(ends'), NEW j \in 1 .. Len(ends'), i < j
        PROVE  ends'[i] < ends'[j]
    <3>1. i \in 1 .. Len(ends)
      BY <1>1, <2>5, <2>7
    <3>2. CASE j \in 1 .. Len(ends)
      BY <1>7, <2>5, <2>7, <3>1, <3>2 DEF CompleteAtLineEnds
    <3>3. CASE j = Len(ends) + 1
      BY <1>1, <2>4, <2>5, <2>6, <3>1, <3>3
    <3>4. QED
      BY <1>1, <2>5, <3>2, <3>3
  <2>8. {ends'[i] : i \in 1 .. Len(ends')} = {ends[i] : i \in 1 .. Len(ends)} \cup {Base + n}
    BY <1>1, <2>5
  <2>9. Base + n \in LineEnds
    BY <1>5, <2>1, <2>2, ChunkEnds
  <2>10. ASSUME NEW i \in LineEnds PROVE i <= Base + n <=> i <= Base + strpos \/ i = Base + n
    <3>1. i \in Nat
      BY DEF LineEnds
    <3>2. ASSUME i > Base + strpos, i < Base + n PROVE FALSE
      <4>1. i - Base \in EndsOf(chunk) /\ i - Base \in strpos + 1 .. n - 1
        BY <1>1, <1>6, <2>2, <3>1, <3>2
      <4>2. QED
        BY <1>5, <2>1, <4>1
    <3>3. QED
      BY <1>1, <2>2, <2>4, <3>1, <3>2
  <2>11. {i \in LineEnds : i <= Base + n} = {i \in LineEnds : i <= Base + strpos} \cup {Base + n}
    BY <2>9, <2>10
  <2>12. CompleteAtLineEnds'
    BY <1>4, <1>7, <2>1, <2>7, <2>8, <2>11 DEF CompleteAtLineEnds
  <2>13. QED
    BY <1>2, <1>4, <2>12 DEF EndsInv
<1>9. CASE KeepRest \/ FlushRest
  <2>1. n = NPos /\ strpos' = Len(chunk) /\ ends' = ends
    BY <1>9 DEF KeepRest, FlushRest, NothingFound
  <2>2. \A i \in LineEnds : i <= Base + strpos /\ i <= Base + Len(chunk)
    <3>1. ASSUME NEW i \in LineEnds PROVE i \in Nat /\ i <= Base + Len(chunk)
      BY <1>1 DEF LineEnds
    <3>2. ASSUME NEW i \in LineEnds, i > Base + strpos PROVE FALSE
      BY <1>5, <1>6, <2>1, <3>2
    <3>3. QED
      BY <1>1, <3>1, <3>2
  <2>3. CompleteAtLineEnds'
    BY <1>4, <1>7, <2>1, <2>2, <1>2 DEF CompleteAtLineEnds
  <2>4. QED
    BY <1>2, <1>4, <2>3 DEF EndsInv
<1>10. QED
  BY <1>8, <1>9

LEMMA EndsStep ==
    ASSUME SearchesPastEnd, IInv, EndsInv, [Next]_vars
    PROVE  EndsInv'
<1>1. CASE UNCHANGED vars
  BY <1>1 DEF vars, EndsInv, CompleteAtLineEnds, LineEnds, Base
<1>2. CASE Next
  BY <1>2, ReceiveEnds, PassEnds DEF Next, ConnDataInCb
<1>3. QED
  BY <1>1, <1>2

(***************************************************************************)
(* With a search that stops behind the line end, conn_data_in_cb reports   *)
(* complete lines exactly where the received text has line ends, each once *)
(* and in order, however recv cuts the text into chunks and however often  *)
(* an overlong line is flushed before its end.                             *)
(***************************************************************************)
THEOREM LinesAtLineEnds ==
    ASSUME SearchesPastEnd
    PROVE  AllSpec => []CompleteAtLineEnds
<1>1. AllInit => IInv /\ EndsInv
  BY BufferInit, EndsInit DEF AllInit
<1>2. IInv /\ EndsInv /\ [AllNext]_allVars => (IInv /\ EndsInv)'
  <2>1. UNCHANGED allVars => UNCHANGED vars
    BY DEF allVars
  <2>2. [AllNext]_allVars => [Next]_vars
    BY <2>1, BufferOrStutter
  <2>3. QED
    BY <2>2, BufferStep, EndsStep
<1>3. IInv /\ EndsInv => CompleteAtLineEnds
  BY DEF EndsInv
<1>4. QED
  BY <1>1, <1>2, <1>3, PTL DEF AllSpec

----------------------------------------------------------------------------
(* Who owns the client.                                                    *)

\* Ownership is inductive with what the loop needs of it: cb_ev is entered
\* only for a live client, and somebody holds that one.
OwnInv ==
    /\ OwnersKeepAlive
    /\ CalledDeadOnlyIfKept
    /\ life \in {"alive", "dead"}
    /\ life = "alive" => buffer = "alive" \/ appHolds
    /\ active => life = "alive"
    /\ cpc \in {"read", "write", "rearm"} => life = "alive"

LEMMA OwnStep == OwnInv /\ [AllNext]_allVars => OwnInv'
<1> SUFFICES ASSUME OwnInv, [AllNext]_allVars PROVE OwnInv'
  OBVIOUS
<1> USE DEF OwnInv, OwnersKeepAlive, CalledDeadOnlyIfKept
<1>1. CASE MakeBuffer
  BY <1>1 DEF MakeBuffer, AppMayCall, C!AppMayCall, C!Running,
              C!SetIncommingDataCallback, C!cbVars
<1>2. CASE DestroyBuffer \/ DropClient
  BY <1>2 DEF DestroyBuffer, DropClient, AppMayCall, C!AppMayCall, C!Running,
              ReleasedBy, C!Destroy, cbVars, objVars
<1>3. CASE \E n \in 1 .. MaxBytes : Write(n)
  BY <1>3 DEF Write, AppMayCall, C!AppMayCall, C!Running, C!WriteData,
              ownerVars, C!cbVars
<1>4. CASE RecvData \/ RecvIntoDead
  BY <1>4 DEF RecvData, RecvIntoDead, C!RecvData, C!At, C!Running, ownerVars,
              objVars, C!objVars
<1>5. CASE Pass
  BY <1>5 DEF Pass, clientVars, objVars, cbVars, ownerVars
<1>6. CASE PassOnDead
  BY <1>6 DEF PassOnDead, C!At, C!Running, ownerVars, objVars
<1>7. CASE Return
  BY <1>7 DEF Return, C!CallbackReturns, C!At, C!Running, C!ToWritePart,
              ownerVars, C!objVars
<1>8. CASE ClientStep
  <2> UNCHANGED ownerVars
    BY <1>8 DEF ClientStep
  <2> USE DEF ownerVars
  <2>1. CASE C!PeerSends(1) \/ C!PeerFinishes \/ C!PeerResets \/ C!PeerDrains
    BY <2>1 DEF C!PeerSends, C!PeerFinishes, C!PeerResets, C!PeerDrains,
                C!objVars, C!cbVars
  <2>2. CASE C!Loop
    BY <2>2 DEF C!Loop, C!PollReady, C!PollSpurious, C!PollError, C!Dispatch,
                C!Running, C!objVars, C!cbVars
  <2>3. CASE C!RecvNoCallback \/ C!RecvEof \/ C!RecvFails \/ C!TouchFreed
    BY <2>3 DEF C!RecvNoCallback, C!RecvEof, C!RecvFails, C!TouchFreed,
                C!Throw, C!Destroy, C!At, C!Running, C!objVars
  <2>4. CASE C!PushWriteQueue
    BY <2>4 DEF C!PushWriteQueue, C!PushNothing, C!PushBytes, C!PushAgain,
                C!PushFails, C!Throw, C!At, C!Running
  <2>5. CASE C!Rearm
    BY <2>5 DEF C!Rearm, C!At, C!Running
  <2>6. QED
    BY <1>8, <2>1, <2>2, <2>3, <2>4, <2>5 DEF ClientStep
<1>9. CASE UNCHANGED allVars
  BY <1>9 DEF allVars, clientVars, objVars, cbVars, ownerVars
<1>10. QED
  BY <1>1, <1>2, <1>3, <1>4, <1>5, <1>6, <1>7, <1>8, <1>9 DEF AllNext

(***************************************************************************)
(* The two shared_ptrs keep the client alive for as long as anybody uses   *)
(* it.                                                                     *)
(***************************************************************************)
THEOREM OwnershipHolds == AllSpec => []OwnersKeepAlive
<1>1. AllInit => OwnInv
  BY DEF AllInit, C!Init, OwnInv, OwnersKeepAlive, CalledDeadOnlyIfKept
<1>2. OwnInv => OwnersKeepAlive
  BY DEF OwnInv
<1>3. QED
  BY <1>1, <1>2, OwnStep, PTL DEF AllSpec

(***************************************************************************)
(* The raw `this' in the callback outlives the buffer only in the two ways *)
(* that CalledDeadOnlyIfKept names: without a client kept by the           *)
(* application or a destruction inside the callback itself, no event       *)
(* reaches a buffer that is gone.                                          *)
(***************************************************************************)
THEOREM CallbackOutlivesOnlyKept == AllSpec => []CalledDeadOnlyIfKept
<1>1. AllInit => OwnInv
  BY DEF AllInit, C!Init, OwnInv, OwnersKeepAlive, CalledDeadOnlyIfKept
<1>2. OwnInv => CalledDeadOnlyIfKept
  BY DEF OwnInv
<1>3. QED
  BY <1>1, <1>2, OwnStep, PTL DEF AllSpec

----------------------------------------------------------------------------
(* The client below the buffer.                                            *)

\* The client's theorems, of its variables here.
P == INSTANCE TcpClient_proofs WITH pc <- cpc

\* An event that finds the buffer destroyed ends the process.
Aborts ==
    /\ C!Running
    /\ outcome' = "aborted"
    /\ UNCHANGED <<objVars, cpc, revents, sockVars, histVars>>

\* What the application does to a client, with a buffer or without.
LEMMA AppSteps ==
    /\ C!SetIncommingDataCallback => P!Next
    /\ \A n \in 1 .. MaxBytes : C!WriteData(n) => P!Next
    /\ C!AppMayCall /\ C!Destroy /\ UNCHANGED <<cbVars, sockVars, histVars>> => P!Next
<1> USE DEF C!AppMayCall, P!AppMayCall, C!Running, P!Running,
            C!cbVars, P!cbVars, cbVars, C!sockVars, P!sockVars, sockVars,
            C!histVars, P!histVars, histVars
<1>1. C!SetIncommingDataCallback => P!SetIncommingDataCallback
  BY DEF C!SetIncommingDataCallback, P!SetIncommingDataCallback
<1>2. \A n : C!WriteData(n) => P!WriteData(n)
  BY DEF C!WriteData, P!WriteData, C!PushBack, P!PushBack, C!NewRecord, P!NewRecord,
         C!IsEmpty, P!IsEmpty, C!Size, P!Size, C!READ, P!READ, C!WRITE, P!WRITE
<1>3. C!AppMayCall /\ C!Destroy /\ UNCHANGED <<cbVars, sockVars, histVars>>
          => P!AppDestroys
  BY DEF C!Destroy, P!Destroy, P!AppDestroys
<1>4. \A n \in 1 .. MaxBytes : n \in 0 .. MaxBytes
  BY ClientBoundsAssumption
<1>5. QED
  BY <1>1, <1>2, <1>3, <1>4 DEF P!Next, P!App

\* What the peer and the loop do.
LEMMA OutsideSteps ==
    ASSUME P!TypeOK
    PROVE  /\ C!PeerSends(1) => P!Next
           /\ C!PeerFinishes \/ C!PeerResets \/ C!PeerDrains => P!Next
           /\ C!Loop => P!Next
<1> USE DEF C!Connected, P!Connected, C!Running, P!Running,
            C!objVars, P!objVars, C!cbVars, P!cbVars, C!histVars, P!histVars
<1>1. C!PeerSends(1) => P!Environment
  <2>1. C!PeerSends(1) => P!PeerSends(1)
    BY DEF C!PeerSends, P!PeerSends
  <2>2. P!PeerSends(1) => 1 \in 1 .. MaxIn
    BY ClientBoundsAssumption DEF P!PeerSends, P!TypeOK
  <2>3. QED
    BY <2>1, <2>2 DEF P!Environment
<1>2. C!PeerFinishes => P!PeerFinishes
  BY DEF C!PeerFinishes, P!PeerFinishes
<1>3. C!PeerResets => P!PeerResets
  BY DEF C!PeerResets, P!PeerResets
<1>4. C!PeerDrains => P!PeerDrains
  BY DEF C!PeerDrains, P!PeerDrains
<1>5. C!Loop => P!Loop
  <2>1. \A events : C!Dispatch(events) => P!Dispatch(events)
    BY DEF C!Dispatch, P!Dispatch, C!sockVars, P!sockVars, C!READ, P!READ
  <2>2. C!Ready = P!Ready
    BY DEF C!Ready, P!Ready, C!Readable, P!Readable, C!Writable, P!Writable,
           C!READ, P!READ, C!WRITE, P!WRITE
  <2>3. C!PollReady => P!PollReady
    BY <2>1, <2>2 DEF C!PollReady, P!PollReady
  <2>4. C!PollSpurious => P!PollSpurious
    BY <2>1, <2>2 DEF C!PollSpurious, P!PollSpurious
  <2>5. C!PollError => P!PollError
    BY DEF C!PollError, P!PollError, C!sockVars, P!sockVars
  <2>6. QED
    BY <2>3, <2>4, <2>5 DEF C!Loop, P!Loop
<1>6. QED
  BY <1>1, <1>2, <1>3, <1>4, <1>5 DEF P!Next, P!Environment

\* What cb_ev does.
LEMMA CbEvSteps ==
    /\ C!RecvData \/ C!RecvNoCallback \/ C!RecvEof \/ C!RecvFails => P!Next
    /\ C!CallbackReturns \/ C!PushWriteQueue \/ C!Rearm \/ C!TouchFreed => P!Next
<1> USE DEF C!At, P!At, C!Throw, P!Throw, C!Running, P!Running, C!objVars, P!objVars,
            C!sockVars, P!sockVars, C!histVars, P!histVars, C!READ, P!READ,
            C!WRITE, P!WRITE
<1>1. C!RecvData => P!RecvData
  BY DEF C!RecvData, P!RecvData
<1>2. C!RecvNoCallback => P!RecvNoCallback
  BY DEF C!RecvNoCallback, P!RecvNoCallback
<1>3. C!RecvEof => P!RecvEof
  BY DEF C!RecvEof, P!RecvEof, C!Destroy, P!Destroy
<1>4. C!RecvFails => P!RecvFails
  BY DEF C!RecvFails, P!RecvFails
<1>5. C!CallbackReturns => P!CallbackReturns
  BY DEF C!CallbackReturns, P!CallbackReturns, C!ToWritePart, P!ToWritePart
<1>6. C!PushWriteQueue => P!PushWriteQueue
  <2> USE DEF C!Popped, P!Popped, C!AfterPop, P!AfterPop, C!PushFront, P!PushFront,
              C!Advance, P!Advance, C!Size, P!Size, C!Ptr, P!Ptr,
              C!NewRecord, P!NewRecord, C!IsEmpty, P!IsEmpty
  <2>1. C!PushNothing => P!PushNothing
    BY DEF C!PushNothing, P!PushNothing
  <2>2. C!PushBytes => P!PushBytes
    BY DEF C!PushBytes, P!PushBytes
  <2>3. C!PushAgain => P!PushAgain
    BY DEF C!PushAgain, P!PushAgain
  <2>4. C!PushFails => P!PushFails
    BY DEF C!PushFails, P!PushFails
  <2>5. QED
    BY <2>1, <2>2, <2>3, <2>4 DEF C!PushWriteQueue, P!PushWriteQueue
<1>7. C!Rearm => P!Rearm
  BY DEF C!Rearm, P!Rearm
<1>8. C!TouchFreed => P!TouchFreed
  BY DEF C!TouchFreed, P!TouchFreed
<1>9. QED
  BY <1>1, <1>2, <1>3, <1>4, <1>5, <1>6, <1>7, <1>8 DEF P!Next, P!CbEv, P!Recv

\* With a buffer on it a client does what it does alone, or is aborted.
LEMMA ClientOrAbort ==
    ASSUME P!TypeOK, [AllNext]_allVars
    PROVE  [P!Next]_(P!vars) \/ Aborts
<1> DEFINE Same == UNCHANGED clientVars
<1>1. Same => UNCHANGED P!vars
  BY DEF clientVars, P!vars, objVars, P!objVars, cbVars, P!cbVars,
         sockVars, P!sockVars, histVars, P!histVars
<1>2. CASE MakeBuffer
  BY <1>2, AppSteps DEF MakeBuffer
<1>3. ASSUME NEW held, C!AppMayCall, ReleasedBy(held),
             UNCHANGED <<cbVars, sockVars, histVars>>
      PROVE  P!Next \/ Same
  <2>1. CASE UNCHANGED objVars
    BY <1>3, <2>1 DEF clientVars
  <2>2. CASE C!Destroy
    BY <1>3, <2>2, AppSteps
  <2>3. QED
    BY <1>3, <2>1, <2>2 DEF ReleasedBy
<1>4. CASE DestroyBuffer \/ DropClient
  <2>1. \E held : /\ C!AppMayCall /\ ReleasedBy(held)
                  /\ UNCHANGED <<cbVars, sockVars, histVars>>
    BY <1>4 DEF DestroyBuffer, DropClient, AppMayCall
  <2>2. QED
    BY <1>1, <1>3, <2>1
<1>5. CASE \E n \in 1 .. MaxBytes : Write(n)
  BY <1>5, AppSteps DEF Write
<1>6. CASE RecvData
  BY <1>6, CbEvSteps DEF RecvData
<1>7. CASE RecvIntoDead \/ PassOnDead
  BY <1>7 DEF RecvIntoDead, PassOnDead, Aborts, C!At
<1>8. CASE Pass
  BY <1>1, <1>8 DEF Pass
<1>9. CASE Return
  BY <1>9, CbEvSteps DEF Return
<1>10. CASE ClientStep
  BY <1>10, CbEvSteps, OutsideSteps DEF ClientStep
<1>11. CASE UNCHANGED allVars
  BY <1>1, <1>11 DEF allVars
<1>12. QED
  BY <1>2, <1>4, <1>5, <1>6, <1>7, <1>8, <1>9, <1>10, <1>11 DEF AllNext

\* An aborted client is a client that has failed, with all it had.
LEMMA AbortStep ==
    ASSUME P!TypeOK, P!IInv, P!NoStall, Aborts
    PROVE  /\ P!TypeOK' /\ P!IInv' /\ P!NoStall'
           /\ [P!Stream!Next]_(P!Stream!vars)
<1> USE DEF Aborts, C!Running, objVars, sockVars, histVars, P!Up, P!Running
<1>1. P!TypeOK'
  BY DEF P!TypeOK
<1>2. P!IInv'
  BY DEF P!IInv, P!QueueCoversUnsent, P!WireInOrder, P!DeadIsEmpty
<1>3. P!NoStall'
  BY DEF P!NoStall
<1>4. [P!Stream!Next]_(P!Stream!vars)
  BY DEF P!Stream!Next, P!Stream!Fail, P!Stream!vars
<1>5. QED
  BY <1>1, <1>2, <1>3, <1>4

ClientInv == P!TypeOK /\ P!IInv /\ P!NoStall

LEMMA ClientInit == AllInit => ClientInv /\ P!Stream!Init
<1>1. C!Init => P!Init
  BY DEF C!Init, P!Init, C!READ, P!READ
<1>2. P!Init => P!NoStall
  BY DEF P!Init, P!NoStall
<1>3. QED
  BY <1>1, <1>2, ClientBoundsAssumption, P!InitTypes, P!InitIInv DEF AllInit, ClientInv

LEMMA ClientInvStep ==
    ClientInv /\ [AllNext]_allVars => ClientInv' /\ [P!Stream!Next]_(P!Stream!vars)
<1> SUFFICES ASSUME ClientInv, [AllNext]_allVars
             PROVE  ClientInv' /\ [P!Stream!Next]_(P!Stream!vars)
  OBVIOUS
<1>1. CASE Aborts
  BY <1>1, AbortStep DEF ClientInv
<1>2. CASE [P!Next]_(P!vars)
  BY <1>2, ClientBoundsAssumption, P!TypeStep, P!Step, P!NoStallStep DEF ClientInv
<1>3. QED
  BY <1>1, <1>2, ClientOrAbort DEF ClientInv

(***************************************************************************)
(* With a line buffer on it, an application that answers from inside       *)
(* found_next_line_cb and two owners that may let go at any time, the      *)
(* client is still the byte stream that connection_client announces.       *)
(***************************************************************************)
THEOREM StreamBelowBuffer == AllSpec => C!ImplementsByteStream
<1>1. P!Stream!Init => C!Stream!Init
  BY DEF P!Stream!Init, C!Stream!Init, P!Up, C!Up, P!Running, C!Running
<1>2. [P!Stream!Next]_(P!Stream!vars) => [C!Stream!Next]_(C!Stream!vars)
  BY DEF P!Stream!Next, C!Stream!Next, P!Stream!Accept, C!Stream!Accept,
         P!Stream!Deliver, C!Stream!Deliver, P!Stream!Fail, C!Stream!Fail,
         P!Stream!vars, C!Stream!vars, P!Up, C!Up, P!Running, C!Running
<1>3. QED
  BY <1>1, <1>2, ClientInit, ClientInvStep, PTL
     DEF AllSpec, C!ImplementsByteStream, C!Stream!Spec

(***************************************************************************)
(* Its queue holds what the kernel has not taken, and WRITE is armed for   *)
(* it when the loop polls.                                                 *)
(***************************************************************************)
THEOREM QueueBelowBuffer == AllSpec => [](C!QueueCoversUnsent /\ C!NoStall)
<1>1. ClientInv => C!QueueCoversUnsent
  BY DEF ClientInv, P!IInv, P!QueueCoversUnsent, C!QueueCoversUnsent, P!Covers, C!Covers,
         P!Ptr, C!Ptr, P!End, C!End, P!Up, C!Up, P!Running, C!Running
<1>2. ClientInv => C!NoStall
  BY DEF ClientInv, P!NoStall, C!NoStall, P!Up, C!Up, P!Running, C!Running,
         P!READ, C!READ, P!WRITE, C!WRITE
<1>3. QED
  BY <1>1, <1>2, ClientInit, ClientInvStep, PTL DEF AllSpec
=============================================================================
