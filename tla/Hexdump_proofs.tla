--------------------------- MODULE Hexdump_proofs ---------------------------
(***************************************************************************)
(* Proofs about Hexdump, for dumps of any range, width, grouping and       *)
(* spacing, with bytes missing anywhere.                                   *)
(***************************************************************************)
EXTENDS Hexdump, FiniteSetTheorems, SequenceTheorems, TLAPS

\* The column in front of cell i, and the one behind n cells.
Column(d, i) ==
    2 * i + i * d.space_per_byte + (i \div d.bytes_per_group) * d.space_per_group
Width(d, n) == IF n = 0 THEN 0 ELSE Column(d, n - 1) + 2

Has(d, o) == d.get_data[o] # "non_existent"
Cells(d) == 0 .. d.bytes_per_line - 1

\* The characters s are those of the first n cells of the line at o, cut
\* anywhere between them.
LaidOut(d, s, o, n) ==
    /\ s \in Seq(Int)
    /\ \A i \in Cells(d) : \A p \in DOMAIN s :
          s[p] = i <=> i < n /\ Has(d, o + i) /\ p \in {Column(d, i) + 1, Column(d, i) + 2}

\* The cell behind which nothing exists is the last of the first n.
LastOf(d, l, o, n) ==
    /\ l \in 0 .. n
    /\ l > 0 => Has(d, o + l - 1)
    /\ \A i \in l .. n - 1 : ~Has(d, o + i)

\* While a line is being laid out.
LineInv ==
    pc = "cell" =>
        /\ idx \in 0 .. dump.bytes_per_line
        /\ LaidOut(dump, hex, offset, idx)
        /\ Len(hex) = Width(dump, idx)
        /\ LastOf(dump, last, offset, idx)
        /\ text \in Seq(Int) /\ Len(text) = dump.bytes_per_line
        /\ last > 0 => text[last] # Blank

\* A line that is written at an offset shows every cell that exists, whole.
Written(d, line, o) ==
    /\ line.label = (o + d.voffset_at_zero) % Word
    /\ line.width = LabelWidth(line.label)
    /\ line.text \in Seq(Int)
    /\ LaidOut(d, line.hex, o, d.bytes_per_line)
    /\ \A i \in Cells(d) : Has(d, o + i) => Column(d, i) + 2 <= Len(line.hex)
    /\ d.display_textual => Len(line.hex) = Width(d, d.bytes_per_line)
    /\ (\E i \in Cells(d) : Has(d, o + i)) /\ ~d.display_textual
           => line.hex[Len(line.hex)] # Blank
    /\ line.text # <<>> => line.text[Len(line.text)] # Blank

\* The lines follow each other without a gap, and the last begins in the range.
LineAt(d, k) == d.offset_start + (k - 1) * d.bytes_per_line
Lines == [label : Int, width : Int, hex : Seq(Int), text : Seq(Int)]

OutInv ==
    /\ out \in Seq(Lines)
    /\ \A k \in DOMAIN out : Written(dump, out[k], LineAt(dump, k))
    /\ offset = LineAt(dump, Len(out) + 1)
    /\ out # <<>> => offset - dump.bytes_per_line <= dump.offset_end

DumpInv ==
    /\ dump \in Dumps
    /\ pc \in {"line", "cell", "done"}
    /\ offset \in Int /\ offset_line = offset + dump.voffset_at_zero
    /\ pc = "cell" => offset <= dump.offset_end
    /\ pc = "done" => offset > dump.offset_end
    /\ LineInv
    /\ OutInv

----------------------------------------------------------------------------
(* The columns.                                                            *)

LEMMA DumpTypes ==
    ASSUME NEW d \in Dumps
    PROVE  /\ d.bytes_per_line \in Nat \ {0} /\ d.bytes_per_group \in Nat \ {0}
           /\ d.space_per_byte \in Nat /\ d.space_per_group \in Nat
           /\ d.offset_start \in Int /\ d.offset_end \in Int /\ d.voffset_at_zero \in Int
           /\ d.display_textual \in BOOLEAN
           /\ Word \in Nat
BY DumpsAssumption

LEMMA ProductGrows ==
    ASSUME NEW a \in Nat, NEW b \in Nat, NEW c \in Nat, a <= b
    PROVE  a * c \in Nat /\ b * c \in Nat /\ a * c <= b * c
<1>1. b * c = a * c + (b - a) * c
  OBVIOUS
<1>2. a * c \in Nat /\ (b - a) * c \in Nat
  OBVIOUS
<1>3. QED
  BY <1>1, <1>2

\* A group begins at the multiples of its size.
LEMMA GroupBegins ==
    ASSUME NEW g \in Nat \ {0}, NEW i \in Nat
    PROVE  /\ i \div g \in Nat
           /\ (i + 1) \div g = (i \div g) + (IF (i + 1) % g = 0 THEN 1 ELSE 0)
<1> DEFINE q == i \div g
           r == i % g
<1>1. q \in Nat /\ r \in 0 .. g - 1 /\ i = q * g + r
  OBVIOUS
<1>2. q * g \in Nat /\ (q + 1) * g = q * g + g
  BY <1>1
<1> HIDE DEF q, r
<1>3. CASE r + 1 < g
  <2>1. i + 1 = q * g + (r + 1) /\ r + 1 \in 1 .. g - 1
    BY <1>1, <1>2, <1>3
  <2>2. (i + 1) \div g = q /\ (i + 1) % g = r + 1
    BY <1>1, <2>1
  <2>3. QED
    BY <1>1, <2>1, <2>2 DEF q
<1>4. CASE r + 1 = g
  <2>1. i + 1 = (q + 1) * g
    BY <1>1, <1>2, <1>4
  <2>2. (i + 1) \div g = q + 1 /\ (i + 1) % g = 0
    BY <1>1, <2>1
  <2>3. QED
    BY <1>1, <2>2 DEF q
<1>5. QED
  BY <1>1, <1>3, <1>4

\* The space in front of cell i, as Gap has it for the next cell.
Before(d, i) ==
    (IF i > 0 /\ i % d.bytes_per_group = 0 THEN d.space_per_group ELSE 0)
    + (IF i > 0 THEN d.space_per_byte ELSE 0)

LEMMA ColumnStep ==
    ASSUME NEW d \in Dumps, NEW i \in Nat
    PROVE  /\ Column(d, i) \in Nat /\ Before(d, i) \in Nat /\ Width(d, i) \in Nat
           /\ Width(d, i) + Before(d, i) = Column(d, i)
           /\ Width(d, i + 1) = Column(d, i) + 2
           /\ Column(d, i + 1) = Column(d, i) + 2 + Before(d, i + 1)
           /\ i <= Column(d, i)
<1> USE DumpTypes
<1> DEFINE b == d.space_per_byte
           g == d.bytes_per_group
           s == d.space_per_group
<1>0. b \in Nat /\ g \in Nat \ {0} /\ s \in Nat
  OBVIOUS
<1> HIDE DEF b, g, s
<1>1. ASSUME NEW n \in Nat
      PROVE  /\ n \div g \in Nat /\ n * b \in Nat /\ (n \div g) * s \in Nat
             /\ Column(d, n) = 2 * n + n * b + (n \div g) * s /\ Column(d, n) \in Nat
             /\ Before(d, n) = (IF n > 0 /\ n % g = 0 THEN s ELSE 0) + (IF n > 0 THEN b ELSE 0)
             /\ Before(d, n) \in Nat
  <2>1. n \div g \in Nat
    BY <1>0, GroupBegins
  <2>2. n * b \in Nat /\ (n \div g) * s \in Nat
    BY <1>0, <2>1
  <2>3. Column(d, n) = 2 * n + n * b + (n \div g) * s
    BY DEF Column, b, g, s
  <2>4. Before(d, n) = (IF n > 0 /\ n % g = 0 THEN s ELSE 0) + (IF n > 0 THEN b ELSE 0)
    BY DEF Before, b, g, s
  <2>5. QED
    BY <1>0, <2>1, <2>2, <2>3, <2>4
<1>2. ASSUME NEW n \in Nat
      PROVE  Column(d, n + 1) = Column(d, n) + 2 + Before(d, n + 1)
  <2>1. (n + 1) * b = n * b + b
    BY <1>0
  <2>2. ((n + 1) \div g) * s = (n \div g) * s + (IF (n + 1) % g = 0 THEN s ELSE 0)
    <3>1. (n + 1) \div g = (n \div g) + (IF (n + 1) % g = 0 THEN 1 ELSE 0)
      BY <1>0, GroupBegins
    <3> DEFINE q == n \div g
               r == (n + 1) \div g
    <3>2. q \in Nat
      BY <1>1
    <3> HIDE DEF q
    <3>3. (q + 1) * s = q * s + s /\ (q + 0) * s = q * s + 0
      BY <1>0, <3>2
    <3>4. CASE (n + 1) % g = 0
      <4>1. r = q + 1
        BY <3>1, <3>4 DEF q
      <4> HIDE DEF r
      <4>2. r * s = q * s + s
        BY <3>3, <4>1
      <4>3. QED
        BY <3>4, <4>2 DEF q, r
    <3>5. CASE (n + 1) % g # 0
      <4>1. r = q + 0
        BY <3>1, <3>5 DEF q
      <4> HIDE DEF r
      <4>2. r * s = q * s + 0
        BY <3>3, <4>1
      <4>3. QED
        BY <3>5, <4>2 DEF q, r
    <3>6. QED
      BY <3>4, <3>5
  <2>3. n + 1 \in Nat /\ n + 1 > 0
    OBVIOUS
  <2>4. Before(d, n + 1) = (IF (n + 1) % g = 0 THEN s ELSE 0) + b
    BY <1>1, <2>3
  <2>5. /\ Column(d, n) = 2 * n + n * b + (n \div g) * s
        /\ Column(d, n + 1) = 2 * (n + 1) + (n + 1) * b + ((n + 1) \div g) * s
    BY <1>1, <2>3
  <2>6. /\ n * b \in Nat /\ (n \div g) * s \in Nat
        /\ (IF (n + 1) % g = 0 THEN s ELSE 0) \in Nat
    BY <1>0, <1>1
  <2>7. QED
    BY <1>0, <2>1, <2>2, <2>4, <2>5, <2>6
<1>3. Width(d, i + 1) = Column(d, i) + 2
  BY DEF Width
<1>4. i <= Column(d, i)
  <2>1. /\ i * b \in Nat /\ (i \div g) * s \in Nat
        /\ Column(d, i) = 2 * i + i * b + (i \div g) * s
    BY <1>1
  <2>2. QED
    BY <2>1
<1>5. Width(d, i) \in Nat /\ Width(d, i) + Before(d, i) = Column(d, i)
  <2>1. CASE i = 0
    <3>1. Column(d, 0) = 0 /\ Before(d, 0) = 0
      <4>1. 0 \div g = 0
        BY <1>0
      <4>2. 0 * b = 0 /\ 0 * s = 0
        BY <1>0
      <4>3. QED
        BY <1>1, <4>1, <4>2
    <3>2. QED
      BY <2>1, <3>1 DEF Width
  <2>2. CASE i # 0
    <3>1. i - 1 \in Nat /\ (i - 1) + 1 = i
      BY <2>2
    <3>2. Column(d, i) = Column(d, i - 1) + 2 + Before(d, i)
      BY <1>2, <3>1
    <3>3. Width(d, i) = Column(d, i - 1) + 2
      BY <2>2 DEF Width
    <3>4. Column(d, i - 1) \in Nat /\ Before(d, i) \in Nat
      BY <1>1, <3>1
    <3>5. QED
      BY <3>2, <3>3, <3>4
  <2>3. QED
    BY <2>1, <2>2
<1>6. QED
  BY <1>1, <1>2, <1>3, <1>4, <1>5

\* Cells do not overlap, and come in order.
LEMMA ColumnsAscend ==
    ASSUME NEW d \in Dumps, NEW i \in Nat, NEW j \in Nat, i < j
    PROVE  Column(d, i) + 2 <= Column(d, j)
<1> USE DumpTypes
<1>1. i * d.space_per_byte <= j * d.space_per_byte
      /\ i * d.space_per_byte \in Nat /\ j * d.space_per_byte \in Nat
  BY ProductGrows
<1>2. i \div d.bytes_per_group \in Nat /\ j \div d.bytes_per_group \in Nat
      /\ i \div d.bytes_per_group <= j \div d.bytes_per_group
  OBVIOUS
<1>3. /\ (i \div d.bytes_per_group) * d.space_per_group
             <= (j \div d.bytes_per_group) * d.space_per_group
      /\ (i \div d.bytes_per_group) * d.space_per_group \in Nat
      /\ (j \div d.bytes_per_group) * d.space_per_group \in Nat
  BY <1>2, ProductGrows
<1>4. QED
  BY <1>1, <1>3 DEF Column

LEMMA CellsEnd ==
    ASSUME NEW d \in Dumps, NEW i \in Nat, NEW n \in Nat, i < n
    PROVE  Column(d, i) + 2 <= Width(d, n)
<1>1. n - 1 \in Nat /\ n # 0
  OBVIOUS
<1>2. Column(d, n - 1) \in Nat /\ Column(d, i) \in Nat
  BY <1>1, ColumnStep
<1>3. Width(d, n) = Column(d, n - 1) + 2
  BY <1>1 DEF Width
<1>4. CASE i = n - 1
  BY <1>2, <1>3, <1>4
<1>5. CASE i < n - 1
  <2>1. Column(d, i) + 2 <= Column(d, n - 1)
    BY <1>1, <1>5, ColumnsAscend
  <2>2. QED
    BY <1>2, <1>3, <2>1
<1>6. QED
  BY <1>1, <1>4, <1>5

\* A line fits into a string: its width is computed without overflow.
LEMMA LineFits ==
    ASSUME NEW d \in Dumps, NEW n \in 1 .. d.bytes_per_line
    PROVE  Width(d, n) < Word /\ n < Word
<1> USE DumpTypes
<1>1. d.bytes_per_line \in Nat /\ n \in Nat /\ n <= d.bytes_per_line
  OBVIOUS
<1> DEFINE b == d.bytes_per_line
<1>2. b - 1 \in Nat /\ b # 0 /\ (b - 1) + 1 = b
  BY <1>1
<1>3. Width(d, b) = Column(d, b - 1) + 2 /\ Column(d, b - 1) \in Nat
  BY <1>2, ColumnStep
<1>4. Column(d, b - 1) + 2 < Word
  <2>1. /\ (b - 1) * d.space_per_byte \in Nat
        /\ ((b - 1) \div d.bytes_per_group) * d.space_per_group \in Nat
    BY <1>2
  <2>2. 2 * b + (b - 1) * d.space_per_byte
            + ((b - 1) \div d.bytes_per_group) * d.space_per_group < Word
    BY LengthAssumption
  <2>3. QED
    BY <1>2, <2>1, <2>2 DEF Column
<1>5. n - 1 \in Nat /\ n # 0 /\ (n - 1) + 1 = n /\ n - 1 < b
  BY <1>1
<1>6. Width(d, n) = Column(d, n - 1) + 2 /\ Column(d, n - 1) \in Nat /\ n - 1 <= Column(d, n - 1)
  BY <1>5, ColumnStep
<1>7. Column(d, n - 1) + 2 <= Width(d, b)
  BY <1>1, <1>5, CellsEnd
<1>8. QED
  BY <1>1, <1>3, <1>4, <1>6, <1>7

----------------------------------------------------------------------------
(* The characters of a line.                                               *)

LEMMA BlanksAre ==
    ASSUME NEW n \in Nat
    PROVE  /\ Blanks(n) \in Seq(Int) /\ Len(Blanks(n)) = n
           /\ \A i \in 1 .. n : Blanks(n)[i] = Blank
BY DEF Blanks, Blank

Concatenation(u, a, b) ==
    /\ u \in Seq(Int) /\ Len(u) = Len(a) + Len(b)
    /\ \A p \in 1 .. Len(a) : u[p] = a[p]
    /\ \A p \in 1 .. Len(b) : u[Len(a) + p] = b[p]

LEMMA Concatenated ==
    ASSUME NEW a \in Seq(Int), NEW b \in Seq(Int)
    PROVE  Concatenation(a \o b, a, b)
<1>1. /\ a \o b \in Seq(Int) /\ Len(a \o b) = Len(a) + Len(b)
      /\ Len(a) \in Nat /\ Len(b) \in Nat
  OBVIOUS
<1>2. ASSUME NEW p \in 1 .. Len(a) PROVE (a \o b)[p] = a[p]
  BY <1>1, ConcatProperties
<1>3. ASSUME NEW p \in 1 .. Len(b) PROVE (a \o b)[Len(a) + p] = b[p]
  <2>1. /\ Len(a) + p \in 1 .. Len(a) + Len(b) /\ ~(Len(a) + p <= Len(a))
        /\ (Len(a) + p) - Len(a) = p
    BY <1>1
  <2>2. (a \o b)[Len(a) + p] = b[(Len(a) + p) - Len(a)]
    BY <2>1, ConcatProperties
  <2>3. QED
    BY <2>1, <2>2
<1>4. QED
  BY <1>1, <1>2, <1>3 DEF Concatenation

\* A line with a gap and the two characters of a cell behind it.
CellBehind(t, s, g, c) ==
    /\ t \in Seq(Int) /\ Len(t) = Len(s) + g + 2
    /\ \A p \in 1 .. Len(s) : t[p] = s[p]
    /\ \A p \in 1 .. g : t[Len(s) + p] = Blank
    /\ t[Len(s) + g + 1] = c[1] /\ t[Len(s) + g + 2] = c[2]

LEMMA CellAppended ==
    ASSUME NEW s \in Seq(Int), NEW g \in Nat, NEW c \in Seq(Int), Len(c) = 2
    PROVE  CellBehind(s \o Blanks(g) \o c, s, g, c)
<1> DEFINE b == Blanks(g)
           u == s \o b
           t == u \o c
<1>1. b \in Seq(Int) /\ Len(b) = g /\ \A i \in 1 .. g : b[i] = Blank
  BY BlanksAre
<1> HIDE DEF b
<1>2. Concatenation(u, s, b)
  BY <1>1, Concatenated
<1>3. u \in Seq(Int)
  BY <1>2 DEF Concatenation
<1> HIDE DEF u
<1>4. Concatenation(t, u, c)
  BY <1>3, Concatenated
<1> HIDE DEF t
<1>5. /\ Len(u) = Len(s) + g
      /\ \A p \in 1 .. Len(s) : u[p] = s[p]
      /\ \A p \in 1 .. g : u[Len(s) + p] = b[p]
  BY <1>1, <1>2 DEF Concatenation
<1>6. /\ t \in Seq(Int) /\ Len(t) = Len(u) + 2
      /\ \A p \in 1 .. Len(u) : t[p] = u[p]
      /\ \A p \in 1 .. 2 : t[Len(u) + p] = c[p]
  BY <1>4 DEF Concatenation
<1>7. Len(s) \in Nat
  OBVIOUS
<1>8. ASSUME NEW p \in 1 .. Len(s) PROVE t[p] = s[p]
  BY <1>5, <1>6, <1>7
<1>9. ASSUME NEW p \in 1 .. g PROVE t[Len(s) + p] = Blank
  <2>1. Len(s) + p \in 1 .. Len(u)
    BY <1>5, <1>7
  <2>2. t[Len(s) + p] = u[Len(s) + p] /\ u[Len(s) + p] = b[p] /\ b[p] = Blank
    BY <1>1, <1>5, <1>6, <2>1
  <2>3. QED
    BY <2>2
<1>10. t[Len(s) + g + 1] = c[1] /\ t[Len(s) + g + 2] = c[2]
  BY <1>5, <1>6, <1>7
<1>11. CellBehind(t, s, g, c)
  BY <1>5, <1>6, <1>8, <1>9, <1>10 DEF CellBehind
<1>12. QED
  BY <1>11 DEF t, u, b

\* A cell keeps what is laid out and comes to stand in its column.
LEMMA CellLaidOut ==
    ASSUME NEW d \in Dumps, NEW o \in Int, NEW n \in Cells(d), NEW s,
           LaidOut(d, s, o, n), Len(s) = Width(d, n),
           NEW c \in Seq(Int), Len(c) = 2,
           \A k \in 1 .. 2 : c[k] = IF Has(d, o + n) THEN n ELSE Blank
    PROVE  /\ LaidOut(d, s \o Blanks(Before(d, n)) \o c, o, n + 1)
           /\ Len(s \o Blanks(Before(d, n)) \o c) = Width(d, n + 1)
<1> DEFINE g == Before(d, n)
           t == s \o Blanks(g) \o c
           w == Width(d, n)
           C(i) == Column(d, i)
<1> USE DumpTypes
<1>1. n \in Nat /\ \A i \in Cells(d) : i \in Nat
  BY DEF Cells
<1>2. g \in Nat /\ w \in Nat /\ C(n) \in Nat /\ w + g = C(n) /\ Width(d, n + 1) = C(n) + 2
  BY <1>1, ColumnStep
<1>3. s \in Seq(Int) /\ Len(s) = w
  BY DEF LaidOut
<1>4. CellBehind(t, s, g, c)
  BY <1>2, <1>3, CellAppended, Zenon
<1> HIDE DEF t, g, w
<1>5. /\ t \in Seq(Int) /\ Len(t) = w + g + 2
      /\ \A p \in 1 .. w : t[p] = s[p]
      /\ \A p \in 1 .. g : t[w + p] = Blank
      /\ t[w + g + 1] = c[1] /\ t[w + g + 2] = c[2]
  BY <1>3, <1>4 DEF CellBehind
<1>6. ASSUME NEW i \in Cells(d), i < n PROVE C(i) \in Nat /\ C(i) + 2 <= w
  BY <1>1, <1>6, ColumnStep, CellsEnd DEF w
<1>7. ASSUME NEW i \in Cells(d) PROVE C(i) \in Nat
  BY <1>1, ColumnStep
<1> HIDE DEF C
<1>8. ASSUME NEW i \in Cells(d), NEW p \in 1 .. C(n) + 2
      PROVE  t[p] = i <=> i < n + 1 /\ Has(d, o + i) /\ p \in {C(i) + 1, C(i) + 2}
  <2>1. CASE p <= w
    <3>1. t[p] = s[p] /\ p \in DOMAIN s
      BY <1>2, <1>3, <1>5, <2>1
    <3>2. s[p] = i <=> i < n /\ Has(d, o + i) /\ p \in {C(i) + 1, C(i) + 2}
      BY <3>1 DEF LaidOut, C
    <3>3. i = n => p \notin {C(i) + 1, C(i) + 2}
      BY <1>2, <2>1
    <3>4. i < n + 1 <=> i < n \/ i = n
      BY <1>1
    <3>5. QED
      BY <3>1, <3>2, <3>3, <3>4
  <2>2. CASE p > w /\ p <= w + g
    <3>1. Blank # i
      BY <1>1 DEF Blank
    <3>2. p - w \in 1 .. g /\ w + (p - w) = p
      BY <1>2, <2>2
    <3>3. t[p] = Blank
      BY <1>5, <3>2
    <3>4. i < n => p \notin {C(i) + 1, C(i) + 2}
      BY <1>2, <1>6, <2>2
    <3>5. i = n => p \notin {C(i) + 1, C(i) + 2}
      BY <1>2, <2>2
    <3>6. i < n + 1 => p \notin {C(i) + 1, C(i) + 2}
      BY <1>1, <3>4, <3>5
    <3>7. QED
      BY <3>1, <3>3, <3>6
  <2>3. CASE p > w + g
    <3>1. p \in {C(n) + 1, C(n) + 2}
      BY <1>2, <2>3
    <3>2. t[p] = IF Has(d, o + n) THEN n ELSE Blank
      <4>1. /\ c[1] = (IF Has(d, o + n) THEN n ELSE Blank)
            /\ c[2] = (IF Has(d, o + n) THEN n ELSE Blank)
        OBVIOUS
      <4>2. p = w + g + 1 \/ p = w + g + 2
        BY <1>2, <3>1
      <4>3. QED
        BY <1>5, <4>1, <4>2
    <3>3. i < n => p \notin {C(i) + 1, C(i) + 2}
      BY <1>2, <1>6, <2>3
    <3>4. Blank # i
      BY <1>1 DEF Blank
    <3>5. (i < n + 1 <=> i < n \/ i = n) /\ ~(n < n)
      BY <1>1
    <3>6. CASE i = n
      BY <3>1, <3>2, <3>4, <3>5, <3>6
    <3>7. CASE i # n
      BY <3>2, <3>3, <3>4, <3>5, <3>7
    <3>8. QED
      BY <3>6, <3>7
  <2>4. p \in Nat /\ (p <= w \/ (p > w /\ p <= w + g) \/ p > w + g)
    BY <1>2
  <2>5. QED
    BY <2>1, <2>2, <2>3, <2>4
<1>9. LaidOut(d, t, o, n + 1)
  <2>1. DOMAIN t = 1 .. C(n) + 2
    BY <1>2, <1>5
  <2>2. QED
    BY <1>5, <1>8, <2>1 DEF LaidOut, C
<1>10. LaidOut(d, t, o, n + 1) /\ Len(t) = Width(d, n + 1)
  BY <1>2, <1>5, <1>9
<1>11. QED
  BY <1>10 DEF t, g

\* What is cut off behind a line moves nothing.
LEMMA PrefixIs ==
    ASSUME NEW s \in Seq(Int), NEW m \in Nat
    PROVE  /\ Prefix(s, m) \in Seq(Int)
           /\ Len(Prefix(s, m)) = IF m < Len(s) THEN m ELSE Len(s)
           /\ \A p \in 1 .. Len(Prefix(s, m)) : Prefix(s, m)[p] = s[p]
<1>1. CASE m < Len(s)
  <2>1. Prefix(s, m) = SubSeq(s, 1, m)
    BY <1>1 DEF Prefix
  <2>2. QED
    BY <1>1, <2>1
<1>2. CASE ~(m < Len(s))
  BY <1>2 DEF Prefix
<1>3. QED
  BY <1>1, <1>2

LEMMA PrefixLaidOut ==
    ASSUME NEW d \in Dumps, NEW o, NEW n, NEW s, LaidOut(d, s, o, n), NEW m \in Nat
    PROVE  LaidOut(d, Prefix(s, m), o, n)
<1>1. s \in Seq(Int)
  BY DEF LaidOut
<1>2. PICK u : u = Prefix(s, m)
  OBVIOUS
<1>3. /\ u \in Seq(Int) /\ Len(u) = IF m < Len(s) THEN m ELSE Len(s)
      /\ \A p \in 1 .. Len(u) : u[p] = s[p]
  BY <1>1, <1>2, PrefixIs
<1>4. ASSUME NEW p \in DOMAIN u PROVE p \in DOMAIN s /\ u[p] = s[p]
  <2>1. p \in 1 .. Len(u) /\ DOMAIN s = 1 .. Len(s) /\ Len(s) \in Nat
    BY <1>1, <1>3
  <2>2. QED
    BY <1>3, <2>1
<1>5. LaidOut(d, u, o, n)
  BY <1>3, <1>4 DEF LaidOut
<1>6. QED
  BY <1>2, <1>5

----------------------------------------------------------------------------
(* The steps.                                                              *)

LEMMA InitDump ==
    ASSUME Init
    PROVE  DumpInv
<1> USE DEF Init
<1>1. dump \in Dumps /\ pc = "line" /\ out = <<>>
  OBVIOUS
<1>2. /\ offset \in Int /\ offset_line = offset + dump.voffset_at_zero
      /\ offset = LineAt(dump, 1)
  BY DumpTypes DEF LineAt
<1>3. OutInv
  BY <1>1, <1>2 DEF OutInv
<1>4. QED
  BY <1>1, <1>2, <1>3 DEF DumpInv, LineInv

LEMMA BeginLineDump ==
    ASSUME DumpInv, BeginLine
    PROVE  DumpInv'
<1> USE DEF BeginLine
<1>1. dump \in Dumps
  BY DEF DumpInv
<1>2. dump.bytes_per_line \in Nat
  BY <1>1, DumpTypes
<1>3. LaidOut(dump, <<>>, offset, 0) /\ Len(<<>>) = Width(dump, 0)
  BY DEF LaidOut, Cells, Width
<1>4. LastOf(dump, 0, offset, 0)
  BY DEF LastOf
<1>5. LineInv'
  BY <1>2, <1>3, <1>4, BlanksAre DEF LineInv
<1>6. OutInv'
  BY DEF DumpInv, OutInv
<1>7. QED
  BY <1>5, <1>6 DEF DumpInv

LEMMA CellDump ==
    ASSUME DumpInv, Cell
    PROVE  DumpInv'
<1> DEFINE c == IF Exists THEN <<idx, idx>> ELSE Blanks(2)
<1>1. dump \in Dumps /\ offset \in Int /\ pc = "cell"
  BY DEF DumpInv, Cell
<1>2. /\ idx \in 0 .. dump.bytes_per_line
      /\ LaidOut(dump, hex, offset, idx)
      /\ Len(hex) = Width(dump, idx)
      /\ LastOf(dump, last, offset, idx)
      /\ text \in Seq(Int) /\ Len(text) = dump.bytes_per_line
      /\ last > 0 => text[last] # Blank
  BY <1>1 DEF DumpInv, LineInv
<1>3. dump.bytes_per_line \in Nat
  BY <1>1, DumpTypes
<1>4. idx \in Cells(dump) /\ idx \in Nat /\ idx + 1 \in 1 .. dump.bytes_per_line
  <2>1. idx < dump.bytes_per_line
    BY DEF Cell
  <2>2. QED
    BY <1>2, <1>3, <2>1 DEF Cells
<1>5. Exists <=> Has(dump, offset + idx)
  BY DEF Exists, Has
<1>6. Gap = Before(dump, idx)
  BY DEF Gap, Before
<1>7. hex' = hex \o Blanks(Gap) \o c
  BY DEF Cell
<1>8. c \in Seq(Int) /\ Len(c) = 2
      /\ \A k \in 1 .. 2 : c[k] = IF Has(dump, offset + idx) THEN idx ELSE Blank
  <2>1. CASE Exists
    BY <1>4, <1>5, <2>1
  <2>2. CASE ~Exists
    <3>1. c = Blanks(2)
      BY <2>2
    <3>2. QED
      BY <1>5, <2>2, <3>1, BlanksAre
  <2>3. QED
    BY <2>1, <2>2
<1> HIDE DEF c
<1>9. LaidOut(dump, hex', offset, idx + 1) /\ Len(hex') = Width(dump, idx + 1)
  <2>1. /\ LaidOut(dump, hex \o Blanks(Before(dump, idx)) \o c, offset, idx + 1)
        /\ Len(hex \o Blanks(Before(dump, idx)) \o c) = Width(dump, idx + 1)
    BY <1>1, <1>2, <1>4, <1>8, CellLaidOut
  <2>2. QED
    BY <1>6, <1>7, <2>1, Zenon
<1>10. /\ LastOf(dump, last', offset, idx + 1)
       /\ text' \in Seq(Int) /\ Len(text') = dump.bytes_per_line
       /\ last' > 0 => text'[last'] # Blank
  <2>1. CASE Exists
    <3>1. last' = idx + 1 /\ text' = [text EXCEPT ![idx + 1] = idx]
      BY <2>1 DEF Cell
    <3>2. text' \in Seq(Int) /\ Len(text') = dump.bytes_per_line
      BY <1>2, <1>4, <3>1
    <3>3. text'[last'] # Blank
      BY <1>2, <1>4, <3>1 DEF Blank
    <3>4. LastOf(dump, last', offset, idx + 1)
      <4>1. offset + (idx + 1) - 1 = offset + idx /\ idx + 1 .. (idx + 1) - 1 = {}
        BY <1>1, <1>4
      <4>2. QED
        BY <1>4, <1>5, <2>1, <3>1, <4>1 DEF LastOf
    <3>5. QED
      BY <3>2, <3>3, <3>4
  <2>2. CASE ~Exists
    <3>1. last' = last /\ text' = text
      BY <2>2 DEF Cell
    <3>2. \A i \in last .. (idx + 1) - 1 : i \in last .. idx - 1 \/ i = idx
      BY <1>2, <1>4 DEF LastOf
    <3>3. LastOf(dump, last', offset, idx + 1)
      <4>1. \A i \in last .. (idx + 1) - 1 : ~Has(dump, offset + i)
        BY <1>2, <1>5, <2>2, <3>2 DEF LastOf
      <4>2. last \in 0 .. idx + 1 /\ (last > 0 => Has(dump, offset + last - 1))
        BY <1>2, <1>4 DEF LastOf
      <4>3. QED
        BY <3>1, <4>1, <4>2 DEF LastOf
    <3>4. QED
      BY <1>2, <3>1, <3>3
  <2>3. QED
    BY <2>1, <2>2
<1>11. LineInv'
  BY <1>4, <1>9, <1>10 DEF Cell, LineInv
<1>12. OutInv'
  BY DEF Cell, DumpInv, OutInv
<1>13. QED
  BY <1>1, <1>11, <1>12 DEF Cell, DumpInv

\* Of a line without cells any length will do.
LEMMA CutLengthIs ==
    ASSUME dump \in Dumps, last \in 0 .. dump.bytes_per_line
    PROVE  /\ CutLength \in Nat
           /\ last > 0 => CutLength = Width(dump, last)
<1> USE DumpTypes
<1> DEFINE before == (last - 1) % Word
           len == 2 * last + before * dump.space_per_byte
                    + (before \div dump.bytes_per_group) * dump.space_per_group
<1>1. last \in Nat /\ Word \in Nat /\ 0 < Word
  <2>1. 1 \in 1 .. dump.bytes_per_line
    OBVIOUS
  <2>2. Width(dump, 1) < Word /\ 1 < Word
    BY <2>1, LineFits
  <2>3. QED
    BY <2>2
<1>2. CutLength = len % Word
  BY DEF CutLength
<1>3. before \in Nat
  BY <1>1
<1>4. len \in Nat
  <2>1. before * dump.space_per_byte \in Nat
    BY <1>3
  <2>2. before \div dump.bytes_per_group \in Nat
    BY <1>3
  <2>3. (before \div dump.bytes_per_group) * dump.space_per_group \in Nat
    BY <2>2
  <2>4. QED
    BY <1>1, <2>1, <2>3
<1>5. ASSUME last > 0 PROVE len = Width(dump, last) /\ Width(dump, last) < Word
  <2>1. last \in 1 .. dump.bytes_per_line
    BY <1>5
  <2>2. Width(dump, last) < Word /\ last < Word
    BY <2>1, LineFits
  <2>3. before = last - 1
    BY <1>1, <1>5, <2>2
  <2>4. last - 1 \in Nat /\ last # 0
    BY <1>1, <1>5
  <2>5. /\ (last - 1) * dump.space_per_byte \in Nat
        /\ ((last - 1) \div dump.bytes_per_group) * dump.space_per_group \in Nat
    BY <2>4
  <2>6. Width(dump, last)
            = 2 * (last - 1) + (last - 1) * dump.space_per_byte
                + ((last - 1) \div dump.bytes_per_group) * dump.space_per_group + 2
    BY <2>4 DEF Width, Column
  <2>7. len = 2 * last + (last - 1) * dump.space_per_byte
                + ((last - 1) \div dump.bytes_per_group) * dump.space_per_group
    BY <2>3
  <2>8. QED
    BY <1>1, <2>2, <2>5, <2>6, <2>7
<1> HIDE DEF len, before
<1>6. len % Word \in Nat /\ (len < Word => len % Word = len)
  BY <1>1, <1>4
<1>7. QED
  BY <1>2, <1>5, <1>6

\* The width of a label, and the line that EndLine writes.
LEMMA LabelWidths ==
    ASSUME NEW n
    PROVE  LabelWidth(n) \in Nat
<1> DEFINE W == 0 .. WordDigits - 1
           S == {w \in W : n >= 16 ^ w}
<1>1. IsFiniteSet(W)
  BY LabelAssumption, FS_Interval
<1>2. S \subseteq W
  OBVIOUS
<1> HIDE DEF W, S
<1>3. Cardinality(S) \in Nat
  BY <1>1, <1>2, FS_Subset, FS_CardinalityType
<1>4. Digits(n) \in Nat
  BY <1>3 DEF Digits, S, W
<1>5. QED
  BY <1>4, LabelAssumption DEF LabelWidth

WrittenLine ==
    IF dump.display_textual
    THEN Line(offset_line, hex, Prefix(text, last))
    ELSE Line(offset_line, Prefix(hex, CutLength), <<>>)

LEMMA LineIs ==
    ASSUME NEW d \in Dumps, NEW n \in Int, NEW h \in Seq(Int), NEW s \in Seq(Int)
    PROVE  /\ Line(n, h, s) \in Lines
           /\ Line(n, h, s).label = n % Word
           /\ Line(n, h, s).width = LabelWidth(n % Word)
           /\ Line(n, h, s).hex = h /\ Line(n, h, s).text = s
<1>1. Word \in Nat /\ 0 < Word
  <2>1. 1 \in 1 .. d.bytes_per_line
    BY DumpTypes
  <2>2. QED
    BY <2>1, LineFits, DumpTypes
<1>2. n % Word \in Int /\ LabelWidth(n % Word) \in Int
  BY <1>1, LabelWidths
<1>3. QED
  BY <1>2 DEF Line, Lines

LEMMA LineWritten ==
    ASSUME DumpInv, EndLine
    PROVE  /\ WrittenLine \in Lines
           /\ Written(dump, WrittenLine, offset)
<1> DEFINE b == dump.bytes_per_line
<1>1. /\ dump \in Dumps /\ pc = "cell" /\ idx = b
      /\ offset \in Int /\ offset_line = offset + dump.voffset_at_zero
  BY DEF DumpInv, EndLine
<1>2. /\ dump.voffset_at_zero \in Int /\ dump.display_textual \in BOOLEAN
      /\ b \in Nat /\ b # 0
  BY <1>1, DumpTypes
<1>3. /\ LaidOut(dump, hex, offset, b)
      /\ Len(hex) = Width(dump, b)
      /\ LastOf(dump, last, offset, b)
      /\ text \in Seq(Int) /\ Len(text) = b
      /\ last > 0 => text[last] # Blank
  BY <1>1 DEF DumpInv, LineInv
<1>4. last \in 0 .. b /\ last \in Nat
  BY <1>2, <1>3 DEF LastOf
<1>5. \A i \in Cells(dump) : Has(dump, offset + i) => i < last
  <2>1. ASSUME NEW i \in Cells(dump), ~(i < last) PROVE ~Has(dump, offset + i)
    <3>1. i \in last .. b - 1
      BY <1>2, <1>4, <2>1 DEF Cells
    <3>2. QED
      BY <1>3, <3>1 DEF LastOf
  <2>2. QED
    BY <2>1
<1>6. /\ offset_line \in Int /\ offset_line = offset + dump.voffset_at_zero
      /\ hex \in Seq(Int)
  <2>1. hex \in Seq(Int)
    BY <1>3 DEF LaidOut
  <2>2. QED
    BY <1>1, <1>2, <2>1
<1>7. \A i \in Cells(dump) : i \in Nat /\ i < b
  BY <1>2 DEF Cells
<1>8. CASE dump.display_textual
  <2> DEFINE t == Prefix(text, last)
  <2>1. WrittenLine = Line(offset_line, hex, t)
    BY <1>8 DEF WrittenLine
  <2>2. t \in Seq(Int) /\ Len(t) = last /\ \A p \in 1 .. Len(t) : t[p] = text[p]
    BY <1>3, <1>4, PrefixIs
  <2> HIDE DEF t
  <2>3. t # <<>> => t[Len(t)] # Blank
    <3>1. ASSUME t # <<>> PROVE last > 0
      BY <1>4, <2>2, <3>1
    <3>2. QED
      BY <1>3, <1>4, <2>2, <3>1
  <2>4. \A i \in Cells(dump) : Column(dump, i) + 2 <= Len(hex)
    BY <1>1, <1>2, <1>3, <1>7, CellsEnd
  <2>5. /\ WrittenLine \in Lines /\ WrittenLine.hex = hex /\ WrittenLine.text = t
        /\ WrittenLine.label = (offset + dump.voffset_at_zero) % Word
        /\ WrittenLine.width = LabelWidth(WrittenLine.label)
    BY <1>1, <1>6, <2>1, <2>2, LineIs
  <2>6. Written(dump, WrittenLine, offset)
    BY <1>3, <1>6, <1>8, <2>2, <2>3, <2>4, <2>5 DEF Written
  <2>7. QED
    BY <2>5, <2>6
<1>9. CASE ~dump.display_textual
  <2> DEFINE h == Prefix(hex, CutLength)
  <2>1. WrittenLine = Line(offset_line, h, <<>>)
    BY <1>9 DEF WrittenLine
  <2>2. CutLength \in Nat /\ (last > 0 => CutLength = Width(dump, last))
    BY <1>1, <1>4, CutLengthIs
  <2>3. LaidOut(dump, h, offset, b)
    BY <1>1, <1>3, <2>2, PrefixLaidOut
  <2>4. h \in Seq(Int) /\ Len(h) = IF CutLength < Len(hex) THEN CutLength ELSE Len(hex)
    BY <1>6, <2>2, PrefixIs
  <2> HIDE DEF h
  <2>5. ASSUME last > 0
        PROVE  /\ last - 1 \in Cells(dump) /\ Has(dump, offset + (last - 1))
               /\ Len(h) = Column(dump, last - 1) + 2
    <3>1. /\ last - 1 \in Cells(dump) /\ last - 1 \in Nat /\ last # 0
          /\ last - 1 < b /\ offset + last - 1 = offset + (last - 1)
      BY <1>1, <1>2, <1>4, <2>5 DEF Cells
    <3>2. Has(dump, offset + (last - 1))
      BY <1>3, <2>5, <3>1 DEF LastOf
    <3>3. Width(dump, last) = Column(dump, last - 1) + 2 /\ Column(dump, last - 1) \in Nat
      BY <1>1, <3>1, ColumnStep DEF Width
    <3>4. Width(dump, last) <= Len(hex)
      BY <1>1, <1>2, <1>3, <3>1, <3>3, CellsEnd
    <3>5. Len(hex) \in Nat
      BY <1>6
    <3>6. QED
      BY <2>2, <2>4, <2>5, <3>1, <3>2, <3>3, <3>4, <3>5
  <2>6. ASSUME NEW i \in Cells(dump), Has(dump, offset + i)
        PROVE  /\ Column(dump, i) + 2 <= Len(h)
               /\ h[Len(h)] # Blank
    <3>1. i < last /\ i \in Nat /\ last > 0
      BY <1>4, <1>5, <1>7, <2>6
    <3>2. Column(dump, i) + 2 <= Width(dump, last)
      BY <1>1, <1>4, <3>1, CellsEnd
    <3>3. Width(dump, last) = Len(h)
      BY <1>4, <2>5, <3>1 DEF Width
    <3>4. Len(h) \in DOMAIN h
      <4>1. last - 1 \in Nat
        BY <1>4, <3>1
      <4>2. Column(dump, last - 1) \in Nat
        BY <1>1, <4>1, ColumnStep
      <4>3. Len(h) \in Nat /\ Len(h) > 0
        BY <2>5, <3>1, <4>2
      <4>4. QED
        BY <2>4, <4>3
    <3>5. h[Len(h)] = last - 1
      <4>1. last - 1 < b
        BY <1>2, <1>4
      <4>2. QED
        BY <2>3, <2>5, <3>1, <3>4, <4>1 DEF LaidOut
    <3>6. QED
      BY <1>4, <3>1, <3>2, <3>3, <3>5 DEF Blank
  <2>7. /\ WrittenLine \in Lines /\ WrittenLine.hex = h /\ WrittenLine.text = <<>>
        /\ WrittenLine.label = (offset + dump.voffset_at_zero) % Word
        /\ WrittenLine.width = LabelWidth(WrittenLine.label)
    <3>1. <<>> \in Seq(Int)
      OBVIOUS
    <3>2. PICK e : e = <<>>
      OBVIOUS
    <3>3. e \in Seq(Int) /\ WrittenLine = Line(offset_line, h, e)
      BY <2>1, <3>1, <3>2, Zenon
    <3>4. /\ WrittenLine \in Lines /\ WrittenLine.hex = h /\ WrittenLine.text = e
          /\ WrittenLine.label = offset_line % Word
          /\ WrittenLine.width = LabelWidth(offset_line % Word)
      <4>1. dump \in Dumps /\ offset_line \in Int /\ h \in Seq(Int)
        BY <1>1, <1>6, <2>4
      <4>2. QED
        BY <3>3, <4>1, LineIs
    <3>5. QED
      BY <1>6, <3>2, <3>4, Zenon
  <2>8. Written(dump, WrittenLine, offset)
    BY <1>6, <1>9, <2>3, <2>6, <2>7 DEF Written
  <2>9. QED
    BY <2>7, <2>8
<1>10. QED
  BY <1>2, <1>8, <1>9

LEMMA EndLineDump ==
    ASSUME DumpInv, EndLine
    PROVE  DumpInv'
<1> DEFINE b == dump.bytes_per_line
           n == Len(out)
<1>1. /\ dump \in Dumps /\ dump' = dump /\ pc = "cell" /\ pc' = "line"
      /\ offset \in Int /\ offset_line = offset + dump.voffset_at_zero
      /\ offset' = offset + b /\ offset_line' = offset_line + b
      /\ out' = Append(out, WrittenLine)
      /\ offset <= dump.offset_end
  BY DEF DumpInv, EndLine, WrittenLine
<1>2. dump.voffset_at_zero \in Int /\ b \in Nat \ {0} /\ dump.offset_start \in Int
  BY <1>1, DumpTypes
<1>3. WrittenLine \in Lines /\ Written(dump, WrittenLine, offset)
  BY LineWritten
<1>4. /\ out \in Seq(Lines) /\ offset = LineAt(dump, n + 1)
      /\ \A k \in DOMAIN out : Written(dump, out[k], LineAt(dump, k))
  BY DEF DumpInv, OutInv
<1>5. /\ out' \in Seq(Lines) /\ n \in Nat /\ DOMAIN out = 1 .. n /\ DOMAIN out' = 1 .. n + 1
      /\ Len(out') = n + 1
      /\ \A k \in 1 .. n : out'[k] = out[k]
      /\ out'[n + 1] = WrittenLine
  BY <1>1, <1>3, <1>4
<1> HIDE DEF n, b
<1>6. ASSUME NEW k \in DOMAIN out' PROVE Written(dump, out'[k], LineAt(dump, k))
  <2>1. CASE k \in 1 .. n
    BY <1>4, <1>5, <2>1
  <2>2. CASE k = n + 1
    BY <1>3, <1>4, <1>5, <2>2
  <2>3. QED
    BY <1>5, <2>1, <2>2
<1>7. offset' = LineAt(dump, (n + 1) + 1)
  <2>1. (n + 1) - 1 = n /\ ((n + 1) + 1) - 1 = n + 1 /\ (n + 1) * b = n * b + b
    BY <1>2, <1>5
  <2>2. n * b \in Nat
    BY <1>2, <1>5
  <2>3. offset = dump.offset_start + n * b
    BY <1>4, <2>1 DEF LineAt, b
  <2>4. LineAt(dump, (n + 1) + 1) = dump.offset_start + (n + 1) * b
    BY <2>1 DEF LineAt, b
  <2>5. QED
    BY <1>1, <1>2, <2>1, <2>2, <2>3, <2>4
<1>8. offset' - b <= dump.offset_end
  BY <1>1, <1>2
<1>9. OutInv'
  BY <1>1, <1>5, <1>6, <1>7, <1>8 DEF OutInv, b
<1>10. offset' \in Int /\ offset_line' = offset' + dump.voffset_at_zero
  BY <1>1, <1>2
<1>11. QED
  BY <1>1, <1>9, <1>10 DEF DumpInv, LineInv

LEMMA EndDumpDump ==
    ASSUME DumpInv, EndDump
    PROVE  DumpInv'
<1>1. OutInv'
  BY DEF DumpInv, OutInv, EndDump
<1>2. QED
  BY <1>1 DEF DumpInv, LineInv, EndDump

LEMMA StandsStill ==
    ASSUME DumpInv, UNCHANGED vars
    PROVE  DumpInv'
<1>1. OutInv' /\ LineInv'
  BY DEF DumpInv, OutInv, LineInv, vars, lineVars
<1>2. QED
  BY <1>1 DEF DumpInv, vars

\* The lines that are written and the one being laid out, at every step.
LEMMA DumpHolds == Spec => []DumpInv
<1>1. Init => DumpInv
  BY InitDump
<1>2. DumpInv /\ [Next]_vars => DumpInv'
  BY BeginLineDump, CellDump, EndLineDump, EndDumpDump, StandsStill DEF Next, Returned
<1>3. QED
  BY <1>1, <1>2, PTL DEF Spec

----------------------------------------------------------------------------
(* What a reader of the dump sees.                                         *)

LEMMA PairCounts ==
    ASSUME NEW c \in Nat
    PROVE  Cardinality({c + 1, c + 2}) = 2
<1>1. {c + 1, c + 2} = c + 1 .. c + 2
  OBVIOUS
<1>2. /\ c + 1 \in Int /\ c + 2 \in Int /\ ~(c + 1 > c + 2)
      /\ (c + 2) - (c + 1) + 1 = 2
  OBVIOUS
<1>3. Cardinality(c + 1 .. c + 2) = (c + 2) - (c + 1) + 1
  BY <1>2, FS_Interval, Zenon
<1>4. QED
  BY <1>1, <1>2, <1>3

\* Of a line every byte that exists is in its column, and nothing else.
LEMMA LineShows ==
    ASSUME dump \in Dumps, NEW line, NEW o, Written(dump, line, o), NEW i \in Cells(dump)
    PROVE  /\ Has(dump, o + i) => Places(line, i) = {Column(dump, i) + 1, Column(dump, i) + 2}
           /\ ~Has(dump, o + i) => Places(line, i) = {}
           /\ i \in Shown(line) <=> Has(dump, o + i)
<1> DEFINE C == Column(dump, i)
           h == line.hex
<1>1. i \in Nat /\ i < dump.bytes_per_line
  BY DumpTypes DEF Cells
<1>2. /\ h \in Seq(Int)
      /\ \A p \in DOMAIN h : h[p] = i <=> Has(dump, o + i) /\ p \in {C + 1, C + 2}
      /\ Has(dump, o + i) => C + 2 <= Len(h)
  BY <1>1 DEF Written, LaidOut
<1>3. C \in Nat
  BY <1>1, ColumnStep
<1> HIDE DEF C
<1>4. ASSUME Has(dump, o + i) PROVE Places(line, i) = {C + 1, C + 2}
  <2>1. C + 1 \in DOMAIN h /\ C + 2 \in DOMAIN h
    BY <1>2, <1>3, <1>4
  <2>2. QED
    BY <1>2, <1>4, <2>1 DEF Places
<1>5. ASSUME ~Has(dump, o + i) PROVE Places(line, i) = {}
  BY <1>2, <1>5 DEF Places
<1>6. i \in Shown(line) <=> Has(dump, o + i)
  BY <1>4, <1>5 DEF Shown, Cells
<1>7. QED
  BY <1>4, <1>5, <1>6 DEF C

(***************************************************************************)
(* The length that hexdump_to_stream computes for a line is that of what   *)
(* its loop laid out, in spite of the unsigned arithmetic: no cell is cut  *)
(* in two and nothing follows the last.                                    *)
(***************************************************************************)
THEOREM CutsAtLast == Spec => []CutAtLast
<1>1. DumpInv => CutAtLast
  <2> SUFFICES ASSUME DumpInv, NEW k \in DOMAIN out
               PROVE  /\ \A i \in Shown(out[k]) : Cardinality(Places(out[k], i)) = 2
                      /\ Shown(out[k]) # {} /\ ~dump.display_textual
                             => out[k].hex[Len(out[k].hex)] # Blank
                      /\ out[k].text # <<>> => out[k].text[Len(out[k].text)] # Blank
    BY DEF CutAtLast
  <2>1. dump \in Dumps /\ Written(dump, out[k], LineAt(dump, k))
    BY DEF DumpInv, OutInv
  <2>2. \A i \in Shown(out[k]) : i \in Cells(dump) /\ i \in Nat
    BY <2>1, DumpTypes DEF Shown, Cells
  <2>3. ASSUME NEW i \in Shown(out[k]) PROVE Cardinality(Places(out[k], i)) = 2
    <3>1. Places(out[k], i) = {Column(dump, i) + 1, Column(dump, i) + 2}
      BY <2>1, <2>2, LineShows
    <3>2. Column(dump, i) \in Nat
      BY <2>1, <2>2, ColumnStep
    <3>3. QED
      BY <3>1, <3>2, PairCounts
  <2>4. Shown(out[k]) # {} => \E i \in Cells(dump) :
            Has(dump, LineAt(dump, k) + i)
    BY <2>1, <2>2, LineShows
  <2>5. QED
    BY <2>1, <2>3, <2>4 DEF Written
<1>2. QED
  BY <1>1, DumpHolds, PTL

(***************************************************************************)
(* hexdump_to_stream puts the same byte of every line in the same columns, *)
(* and the text behind them in one column, whatever a line has no bytes    *)
(* for, if the labels fit their eight digits; a label with more digits     *)
(* moves its line by just these.                                           *)
(***************************************************************************)
THEOREM BytesAlign == Spec => []ColumnsAlign
<1>1. DumpInv => ColumnsAlign
  <2> SUFFICES ASSUME DumpInv, NEW k \in DOMAIN out, NEW l \in DOMAIN out
               PROVE  LET wider == out[k].width - out[l].width
                      IN  /\ \A i \in Shown(out[k]) \cap Shown(out[l]) :
                                Columns(out[k], i) = {c + wider : c \in Columns(out[l], i)}
                          /\ dump.display_textual
                                => out[k].width + Len(out[k].hex)
                                      = out[l].width + Len(out[l].hex) + wider
                          /\ Fits(out[k].label) /\ Fits(out[l].label) => wider = 0
    BY DEF ColumnsAlign
  <2> DEFINE x == out[k].width
             y == out[l].width
  <2>1. /\ dump \in Dumps
        /\ Written(dump, out[k], LineAt(dump, k)) /\ Written(dump, out[l], LineAt(dump, l))
    BY DEF DumpInv, OutInv
  <2>2. /\ x \in Nat /\ x = LabelWidth(out[k].label)
        /\ y \in Nat /\ y = LabelWidth(out[l].label)
    BY <2>1, LabelWidths DEF Written
  <2>3. ASSUME NEW i \in Shown(out[k]) \cap Shown(out[l])
        PROVE  Columns(out[k], i) = {c + (x - y) : c \in Columns(out[l], i)}
    <3> DEFINE P == Places(out[k], i)
    <3>1. i \in Cells(dump) /\ i \in Nat
      BY <2>1, DumpTypes DEF Shown, Cells
    <3>2. P = Places(out[l], i) /\ P \subseteq Nat
      <4>1. Column(dump, i) \in Nat
        BY <2>1, <3>1, ColumnStep
      <4>2. /\ P = {Column(dump, i) + 1, Column(dump, i) + 2}
            /\ Places(out[l], i) = {Column(dump, i) + 1, Column(dump, i) + 2}
        BY <2>1, <3>1, LineShows
      <4>3. QED
        BY <4>1, <4>2
    <3> HIDE DEF P, x, y
    <3>3. /\ Columns(out[k], i) = {x + 3 + p : p \in P}
          /\ Columns(out[l], i) = {y + 3 + p : p \in P}
      BY <3>2 DEF Columns, P, x, y
    <3>4. \A p \in P : (y + 3 + p) + (x - y) = x + 3 + p
      BY <2>2, <3>2
    <3>5. QED
      BY <3>3, <3>4
  <2>4. ASSUME dump.display_textual
        PROVE  x + Len(out[k].hex) = y + Len(out[l].hex) + (x - y)
    <3>1. /\ Len(out[k].hex) = Len(out[l].hex)
          /\ out[k].hex \in Seq(Int)
      BY <2>1, <2>4 DEF Written, LaidOut
    <3>2. QED
      BY <2>2, <3>1
  <2>5. ASSUME Fits(out[k].label), Fits(out[l].label)
        PROVE  x - y = 0
    <3>1. x = LabelDigits /\ y = LabelDigits
      BY <2>2, <2>5 DEF LabelWidth
    <3>2. QED
      BY <3>1, LabelAssumption
  <2>6. QED
    BY <2>3, <2>4, <2>5
<1>2. QED
  BY <1>1, DumpHolds, PTL

\* What a number is beyond the multiples of a word.
LEMMA WordsVanish ==
    ASSUME NEW w \in Nat \ {0}, NEW a \in Int, NEW q \in Int
    PROVE  (a + q * w) % w = a % w
<1> DEFINE p == a \div w
           r == a % w
<1>1. p \in Int /\ r \in 0 .. w - 1 /\ a = p * w + r
  OBVIOUS
<1>2. (p + q) * w = p * w + q * w /\ p * w \in Int /\ q * w \in Int
  BY <1>1
<1> HIDE DEF p, r
<1>3. a + q * w = (p + q) * w + r /\ p + q \in Int
  BY <1>1, <1>2
<1>4. ((p + q) * w + r) % w = r
  BY <1>1, <1>3
<1>5. QED
  BY <1>3, <1>4 DEF r

\* The place of an offset in the line that begins at another one.
LEMMA PlaceFromOffsets ==
    ASSUME NEW w \in Nat \ {0}, NEW x \in Int, NEW o \in Int, NEW v \in Int
    PROVE  (x + v - ((o + v) % w)) % w = (x - o) % w
<1> DEFINE q == (o + v) \div w
           r == (o + v) % w
<1>1. q \in Int /\ r \in Int /\ o + v = q * w + r /\ q * w \in Int
  OBVIOUS
<1> HIDE DEF q, r
<1>2. x + v - r = (x - o) + q * w
  BY <1>1
<1>3. ((x - o) + q * w) % w = (x - o) % w
  <2>1. x - o \in Int
    OBVIOUS
  <2>2. QED
    BY <1>1, <2>1, WordsVanish, Zenon
<1>4. QED
  BY <1>2, <1>3 DEF r

\* Each line has room before the end of the last.
LEMMA LinesAscend ==
    ASSUME NEW d \in Dumps, NEW n \in Nat, NEW k \in 1 .. n
    PROVE  /\ LineAt(d, k) \in Int /\ d.offset_start <= LineAt(d, k)
           /\ LineAt(d, k) + d.bytes_per_line <= d.offset_start + n * d.bytes_per_line
<1> DEFINE s == d.offset_start
           b == d.bytes_per_line
           m == k - 1
<1>1. s \in Int /\ b \in Nat \ {0} /\ m \in Nat /\ m + 1 <= n
  BY DumpTypes
<1>2. LineAt(d, k) = s + m * b
  BY DEF LineAt
<1> HIDE DEF s, b, m
<1>3. (m + 1) * b = m * b + b /\ m * b \in Nat
  BY <1>1
<1>4. (m + 1) * b <= n * b /\ n * b \in Nat
  BY <1>1, ProductGrows
<1>5. LineAt(d, k) \in Int /\ s <= LineAt(d, k) /\ LineAt(d, k) + b <= s + n * b
  BY <1>1, <1>2, <1>3, <1>4
<1>6. QED
  BY <1>5 DEF s, b

\* An offset is in one line: that of its distance from the first one.
LEMMA LineOf ==
    ASSUME NEW d \in Dumps, NEW n \in Nat,
           NEW e, e = d.offset_start + n * d.bytes_per_line,
           NEW x \in d.offset_start .. e - 1
    PROVE  \E k \in 1 .. n :
              /\ x - LineAt(d, k) \in Cells(d)
              /\ \A j \in 1 .. n : x - LineAt(d, j) \in Cells(d) => j = k
<1> DEFINE s == d.offset_start
           b == d.bytes_per_line
           q == (x - s) \div b
           r == (x - s) % b
<1>1. s \in Int /\ b \in Nat \ {0} /\ x \in Int /\ s <= x
  BY DumpTypes
<1>2. n * b \in Nat /\ x < s + n * b
  <2>1. n * b \in Nat
    BY <1>1
  <2>2. QED
    BY <1>1, <2>1
<1> HIDE DEF s, b
<1>3. x - s = q * b + r /\ q \in Nat /\ r \in 0 .. b - 1
  <2>1. x - s \in Nat
    BY <1>1
  <2>2. QED
    BY <1>1, <2>1
<1> HIDE DEF q, r
<1>4. \A k \in 1 .. n : /\ k - 1 \in Nat /\ (k - 1) * b \in Nat
                         /\ LineAt(d, k) = s + (k - 1) * b
  BY <1>1 DEF LineAt, s, b
<1>5. q < n
  <2>1. ASSUME n <= q PROVE FALSE
    <3>1. n * b <= q * b /\ q * b \in Nat
      BY <1>1, <1>3, <2>1, ProductGrows
    <3>2. QED
      BY <1>1, <1>2, <1>3, <3>1
  <2>2. QED
    BY <1>3, <2>1
<1>6. q + 1 \in 1 .. n /\ x - LineAt(d, q + 1) = r
  <2>1. q + 1 \in 1 .. n /\ (q + 1) - 1 = q /\ q * b \in Nat
    BY <1>1, <1>3, <1>5
  <2>2. LineAt(d, q + 1) = s + q * b
    BY <1>4, <2>1
  <2>3. QED
    BY <1>1, <1>3, <2>1, <2>2
<1>7. ASSUME NEW j \in 1 .. n, x - LineAt(d, j) \in Cells(d)
      PROVE  j = q + 1
  <2> DEFINE m == j - 1
  <2>1. m \in Nat /\ m * b \in Nat /\ LineAt(d, j) = s + m * b
    BY <1>4
  <2> HIDE DEF m
  <2>2. q * b \in Nat /\ s + m * b <= x /\ x < s + m * b + b
    <3>1. x - LineAt(d, j) \in 0 .. b - 1
      BY <1>7 DEF Cells, b
    <3>2. q * b \in Nat
      BY <1>1, <1>3
    <3>3. QED
      BY <1>1, <2>1, <3>1, <3>2
  <2>3. /\ (q + 1) * b = q * b + b /\ (m + 1) * b = m * b + b
    BY <1>1, <1>3, <2>1
  <2>4. ~(m < q)
    <3>1. ASSUME m < q PROVE FALSE
      <4>1. (m + 1) * b <= q * b
        BY <1>1, <1>3, <2>1, <3>1, ProductGrows
      <4>2. QED
        BY <1>1, <1>3, <2>1, <2>2, <2>3, <4>1
    <3>2. QED
      BY <3>1
  <2>5. ~(q < m)
    <3>1. ASSUME q < m PROVE FALSE
      <4>1. (q + 1) * b <= m * b
        BY <1>1, <1>3, <2>1, <3>1, ProductGrows
      <4>2. QED
        BY <1>1, <1>3, <2>1, <2>2, <2>3, <4>1
    <3>2. QED
      BY <3>1
  <2>6. QED
    BY <1>3, <2>1, <2>4, <2>5 DEF m
<1>8. r \in Cells(d)
  BY <1>3 DEF Cells, b
<1>9. QED
  BY <1>6, <1>7, <1>8

\* The offsets of a dump are less than a word apart, and so a reader finds each
\* in the line of its own cell only.
LEMMA PlacesAre ==
    ASSUME DumpInv, NEW k \in DOMAIN out, NEW x \in dump.offset_start .. Behind - 1
    PROVE  /\ PlaceOf(x, out[k]) \in Cells(dump) <=> x - LineAt(dump, k) \in Cells(dump)
           /\ x - LineAt(dump, k) \in Cells(dump)
                 => PlaceOf(x, out[k]) = x - LineAt(dump, k)
<1> DEFINE b == dump.bytes_per_line
           o == LineAt(dump, k)
           n == Len(out)
<1>1. /\ dump \in Dumps /\ Written(dump, out[k], o) /\ k \in 1 .. n /\ n \in Nat
      /\ offset = LineAt(dump, n + 1) /\ offset \in Int
      /\ offset - b <= dump.offset_end
  BY DEF DumpInv, OutInv
<1>2. /\ b \in Nat \ {0} /\ dump.offset_start \in Int /\ dump.voffset_at_zero \in Int
      /\ dump.offset_end \in Int
  BY <1>1, DumpTypes
<1>3. Word \in Nat \ {0} /\ b < Word
  <2>1. b \in 1 .. b
    BY <1>2
  <2>2. b < Word
    BY <1>1, <2>1, LineFits
  <2>3. QED
    BY <1>2, <2>2, DumpTypes, <1>1
<1> HIDE DEF n
<1>4. Behind = offset
  <2>1. (n + 1) - 1 = n
    BY <1>1
  <2>2. QED
    BY <1>1, <2>1 DEF Behind, LineAt, n
<1>5. o \in Int /\ dump.offset_start <= o /\ o + b <= offset
  <2>1. (n + 1) - 1 = n
    BY <1>1
  <2>2. offset = dump.offset_start + n * b
    BY <1>1, <2>1 DEF LineAt
  <2>3. QED
    BY <1>1, <2>2, LinesAscend
<1>6. offset \in Int /\ x \in Int /\ dump.offset_start <= x /\ x < offset
  BY <1>1, <1>2, <1>4
<1>7. offset - dump.offset_start < Word
  <2>1. /\ 0 + dump.offset_start \in -(Word \div 2) .. Word \div 2 - 1
        /\ 0 + dump.offset_end + b \in -(Word \div 2) .. Word \div 2 - 1
    BY <1>1, OffsetsAssumption
  <2>2. Word \div 2 \in Nat /\ 2 * (Word \div 2) <= Word
    BY <1>3
  <2> HIDE DEF b
  <2>3. QED
    BY <1>1, <1>2, <1>3, <2>1, <2>2
<1>8. PlaceOf(x, out[k]) = (x - o) % Word
  <2>1. out[k].label = (o + dump.voffset_at_zero) % Word
    BY <1>1 DEF Written
  <2>2. (x + dump.voffset_at_zero - ((o + dump.voffset_at_zero) % Word)) % Word
            = (x - o) % Word
    BY <1>2, <1>3, <1>5, <1>6, PlaceFromOffsets
  <2>3. QED
    BY <2>1, <2>2 DEF PlaceOf
<1> HIDE DEF o, b
<1>9. CASE o <= x
  <2>1. x - o \in 0 .. Word - 1
    BY <1>2, <1>3, <1>5, <1>6, <1>7, <1>9
  <2>2. (x - o) % Word = x - o
    BY <1>3, <2>1
  <2>3. QED
    BY <1>8, <2>2 DEF o
<1>10. CASE x < o
  <2>1. x - o + Word \in b .. Word - 1 /\ x - o < 0
    BY <1>2, <1>3, <1>5, <1>6, <1>7, <1>10
  <2>2. (x - o) % Word = x - o + Word
    <3>1. ((x - o) + 1 * Word) % Word = (x - o) % Word
      <4>1. x - o \in Int /\ 1 \in Int
        BY <1>5, <1>6
      <4>2. QED
        BY <1>3, <4>1, WordsVanish, Zenon
    <3>2. (x - o) + 1 * Word = x - o + Word /\ (x - o + Word) % Word = x - o + Word
      BY <1>2, <1>3, <1>5, <1>6, <2>1
    <3>3. QED
      BY <3>1, <3>2
  <2>3. x - o \notin Cells(dump) /\ x - o + Word \notin Cells(dump)
    BY <1>2, <1>3, <2>1 DEF Cells, b
  <2>4. QED
    BY <1>8, <2>2, <2>3 DEF o
<1>11. QED
  BY <1>5, <1>6, <1>9, <1>10

(***************************************************************************)
(* A dump that hexdump_to_stream has ended covers its range with whole     *)
(* lines and shows each byte that exists in them in one line, the one      *)
(* whose label and place add up to the offset of the byte; it shows        *)
(* nothing before offset_start and behind the line of offset_end.          *)
(***************************************************************************)
THEOREM BytesAreShown == Spec => []EveryByteShown
<1>1. DumpInv => EveryByteShown
  <2> SUFFICES ASSUME DumpInv, pc = "done" PROVE EveryByteShown
    BY DEF EveryByteShown
  <2> DEFINE n == Len(out)
             b == dump.bytes_per_line
             R == dump.offset_start .. Behind - 1
             cells(o) == {k \in DOMAIN out : PlaceOf(o, out[k]) \in Shown(out[k])}
  <2>1. /\ dump \in Dumps /\ offset \in Int /\ offset > dump.offset_end
        /\ n \in Nat /\ DOMAIN out = 1 .. n
        /\ \A k \in DOMAIN out : Written(dump, out[k], LineAt(dump, k))
        /\ offset = LineAt(dump, n + 1)
        /\ out # <<>> => offset - b <= dump.offset_end
    BY DEF DumpInv, OutInv
  <2>2. b \in Nat \ {0} /\ dump.offset_start \in Int
    BY <2>1, DumpTypes
  <2>3. Behind = offset /\ Behind = dump.offset_start + n * b
    <3>1. (n + 1) - 1 = n
      BY <2>1
    <3>2. QED
      BY <2>1, <3>1 DEF Behind, LineAt
  <2>4. ASSUME NEW o \in R, NEW k \in DOMAIN out
        PROVE  k \in cells(o) <=> o - LineAt(dump, k) \in Cells(dump) /\ Has(dump, o)
    <3> DEFINE i == o - LineAt(dump, k)
               p == PlaceOf(o, out[k])
    <3>1. (p \in Cells(dump) <=> i \in Cells(dump)) /\ (i \in Cells(dump) => p = i)
      BY PlacesAre
    <3>2. p \in Shown(out[k]) => p \in Cells(dump)
      BY DEF Shown, Cells
    <3>3. ASSUME i \in Cells(dump) PROVE i \in Shown(out[k]) <=> Has(dump, o)
      <4>1. LineAt(dump, k) + i = o
        <5>1. k - 1 \in Int /\ (k - 1) * b \in Int
          BY <2>1, <2>2
        <5>2. LineAt(dump, k) \in Int /\ o \in Int
          BY <2>1, <2>2, <5>1 DEF LineAt
        <5>3. QED
          BY <5>2
      <4>2. i \in Shown(out[k]) <=> Has(dump, LineAt(dump, k) + i)
        BY <2>1, <3>3, LineShows
      <4>3. QED
        BY <4>1, <4>2
    <3> HIDE DEF i, p
    <3>4. QED
      BY <3>1, <3>2, <3>3 DEF i, p
  <2>5. ASSUME NEW o \in R
        PROVE  Cardinality(cells(o)) = IF dump.get_data[o] = "non_existent" THEN 0 ELSE 1
    <3>1. CASE ~Has(dump, o)
      <4>1. cells(o) = {}
        BY <2>4, <3>1
      <4>2. QED
        BY <3>1, <4>1, FS_EmptySet DEF Has
    <3>2. CASE Has(dump, o)
      <4>1. PICK k \in 1 .. n :
               /\ o - LineAt(dump, k) \in Cells(dump)
               /\ \A j \in 1 .. n : o - LineAt(dump, j) \in Cells(dump) => j = k
        BY <2>1, <2>3, LineOf
      <4>2. cells(o) = {k}
        BY <2>1, <2>4, <3>2, <4>1
      <4>3. QED
        BY <3>2, <4>2, FS_Singleton DEF Has
    <3>3. QED
      BY <3>1, <3>2
  <2>6. ASSUME NEW k \in DOMAIN out, NEW i \in Shown(out[k])
        PROVE  \E o \in R : PlaceOf(o, out[k]) = i
    <3> DEFINE o == LineAt(dump, k) + i
    <3>1. i \in Cells(dump) /\ i \in 0 .. b - 1
      BY DEF Shown, Cells
    <3>2. o \in R /\ o - LineAt(dump, k) = i
      <4>1. /\ LineAt(dump, k) \in Int /\ dump.offset_start <= LineAt(dump, k)
            /\ LineAt(dump, k) + b <= Behind
        BY <2>1, <2>3, LinesAscend
      <4>2. Behind \in Int
        BY <2>1, <2>3
      <4> HIDE DEF b, n
      <4>3. QED
        BY <2>2, <3>1, <4>1, <4>2
    <3>3. PlaceOf(o, out[k]) = i
      <4> HIDE DEF o
      <4>1. PlaceOf(o, out[k]) = o - LineAt(dump, k)
        BY <3>1, <3>2, PlacesAre
      <4>2. QED
        BY <3>2, <4>1
    <3>4. QED
      BY <3>2, <3>3
  <2>7. Behind > dump.offset_end /\ (out # <<>> => Behind - b <= dump.offset_end)
    BY <2>1, <2>3
  <2>8. QED
    BY <2>5, <2>6, <2>7 DEF EveryByteShown
<1>2. QED
  BY <1>1, DumpHolds, PTL
=============================================================================
