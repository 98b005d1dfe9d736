---------------------------- MODULE BufferProofs ----------------------------
(***************************************************************************)
(* Proof that a Buffer is a queue of bytes, for every capacity, byte and   *)
(* width of an integer on the wire.                                        *)
(*                                                                         *)
(* The first part is about the wire: a value that fits its cells is read   *)
(* back as it was written.  The second is the inductive invariant of the   *)
(* queue, byte by byte.                                                    *)
(***************************************************************************)
EXTENDS Buffer, SequenceTheorems, WellFoundedInduction, TLAPS

(***************************************************************************)
(* Integers on the wire.                                                   *)
(***************************************************************************)

\* Induction over the natural numbers, for the elements of a set.
LEMMA SetInduction ==
    ASSUME NEW T, 0 \in T, \A n \in Nat : n \in T => n + 1 \in T
    PROVE  Nat \subseteq T
<1> SUFFICES ASSUME Nat \ T # {} PROVE FALSE
  OBVIOUS
<1>1. PICK x \in Nat \ T : \A y \in Nat \ T : ~(<<y, x>> \in OpToRel(<, Nat))
  BY NatLessThanWellFounded, WFMin, Zenon
<1>2. x \in Nat /\ x # 0 /\ x - 1 \in Nat
  OBVIOUS
<1>3. <<x - 1, x>> \in OpToRel(<, Nat)
  BY <1>2 DEF OpToRel
<1>4. x - 1 \in T
  BY <1>1, <1>2, <1>3, Zenon
<1> QED
  BY <1>2, <1>4

\* What is left of a value after i cells, as Encode computes it.
Left(value, size) ==
    CHOOSE left : left = [i \in 0 .. size |-> IF i = 0 THEN value ELSE left[i - 1] \div Base]

\* The value of the last i cells, as Decode computes it.
LastCells(cells) ==
    CHOOSE last : last = [i \in 0 .. Len(cells) |->
                             IF i = 0 THEN 0 ELSE cells[Len(cells) + 1 - i] + Base * last[i - 1]]

\* The recursion of Encode has a solution.
LEMMA LeftEquation ==
    ASSUME NEW value, NEW size \in Nat
    PROVE  /\ DOMAIN Left(value, size) = 0 .. size
           /\ Left(value, size)[0] = value
           /\ \A i \in 1 .. size : Left(value, size)[i] = Left(value, size)[i - 1] \div Base
<1> DEFINE Next1(f, i) == IF i = 0 THEN value ELSE f[i - 1] \div Base
           Solves(f, n) == f = [i \in 0 .. n |-> Next1(f, i)]
           T == {n \in Nat : \E f : Solves(f, n)}
<1>1. 0 \in T
  <2>1. Solves([i \in 0 .. 0 |-> value], 0)
    OBVIOUS
  <2> QED
    BY <2>1, Zenon
<1>2. ASSUME NEW n \in Nat, n \in T PROVE n + 1 \in T
  <2>1. PICK f : Solves(f, n)
    BY <1>2
  <2> DEFINE g == [i \in 0 .. n + 1 |-> IF i = n + 1 THEN f[n] \div Base ELSE f[i]]
  <2>2. ASSUME NEW i \in 0 .. n + 1 PROVE g[i] = Next1(g, i)
    <3>1. CASE i = n + 1
      BY <3>1
    <3>2. CASE i # n + 1
      <4>1. i \in 0 .. n /\ f[i] = Next1(f, i) /\ (i # 0 => i - 1 \in 0 .. n /\ i - 1 # n + 1)
        BY <2>1, <3>2
      <4> QED
        BY <3>2, <4>1
    <3> QED
      BY <3>1, <3>2
  <2>3. Solves(g, n + 1)
    <3>1. g = [i \in 0 .. n + 1 |-> g[i]]
      OBVIOUS
    <3> HIDE DEF g, Next1
    <3> QED
      BY <2>2, <3>1
  <2> HIDE DEF Solves, g
  <2> QED
    BY <2>3
<1>3. size \in T
  <2> HIDE DEF T
  <2> QED
    BY <1>1, <1>2, SetInduction
<1>4. Solves(Left(value, size), size)
  BY <1>3, Zenon DEF Left
<1> HIDE DEF Next1
<1>5. /\ DOMAIN Left(value, size) = 0 .. size
      /\ \A i \in 0 .. size : Left(value, size)[i] = Next1(Left(value, size), i)
  BY <1>4
<1>6. \A i \in 1 .. size : i \in 0 .. size /\ i # 0
  OBVIOUS
<1>7. 0 \in 0 .. size
  OBVIOUS
<1> QED
  BY <1>5, <1>6, <1>7 DEF Next1

\* The recursion of Decode has a solution.
LEMMA LastEquation ==
    ASSUME NEW cells, Len(cells) \in Nat
    PROVE  /\ DOMAIN LastCells(cells) = 0 .. Len(cells)
           /\ LastCells(cells)[0] = 0
           /\ \A i \in 1 .. Len(cells) :
                 LastCells(cells)[i] = cells[Len(cells) + 1 - i] + Base * LastCells(cells)[i - 1]
<1> DEFINE size == Len(cells)
           Next1(f, i) == IF i = 0 THEN 0 ELSE cells[size + 1 - i] + Base * f[i - 1]
           Solves(f, n) == f = [i \in 0 .. n |-> Next1(f, i)]
           T == {n \in Nat : \E f : Solves(f, n)}
<1>1. 0 \in T
  <2>1. Solves([i \in 0 .. 0 |-> 0], 0)
    OBVIOUS
  <2> QED
    BY <2>1, Zenon
<1>2. ASSUME NEW n \in Nat, n \in T PROVE n + 1 \in T
  <2>1. PICK f : Solves(f, n)
    BY <1>2
  <2> DEFINE x == cells[size + 1 - (n + 1)] + Base * f[n]
             g == [i \in 0 .. n + 1 |-> IF i = n + 1 THEN x ELSE f[i]]
  <2>2. ASSUME NEW i \in 0 .. n + 1 PROVE g[i] = Next1(g, i)
    <3>1. CASE i = n + 1
      <4>1. i # 0 /\ i - 1 = n /\ g[i - 1] = f[n] /\ g[i] = x
        BY <3>1
      <4> HIDE DEF g
      <4> QED
        BY <3>1, <4>1
    <3>2. CASE i # n + 1
      <4>1. i \in 0 .. n /\ f[i] = Next1(f, i) /\ (i # 0 => i - 1 \in 0 .. n /\ i - 1 # n + 1)
        BY <2>1, <3>2
      <4>2. g[i] = f[i] /\ (i # 0 => g[i - 1] = f[i - 1])
        BY <3>2, <4>1
      <4> HIDE DEF g
      <4> QED
        BY <4>1, <4>2
    <3> QED
      BY <3>1, <3>2
  <2>3. Solves(g, n + 1)
    <3>1. g = [i \in 0 .. n + 1 |-> g[i]]
      OBVIOUS
    <3> HIDE DEF g, Next1
    <3> QED
      BY <2>2, <3>1
  <2> HIDE DEF Solves, g
  <2> QED
    BY <2>3
<1>3. size \in T
  <2> HIDE DEF T
  <2> QED
    BY <1>1, <1>2, SetInduction
<1>4. Solves(LastCells(cells), size)
  BY <1>3, Zenon DEF LastCells
<1> HIDE DEF Next1
<1>5. /\ DOMAIN LastCells(cells) = 0 .. size
      /\ \A i \in 0 .. size : LastCells(cells)[i] = Next1(LastCells(cells), i)
  BY <1>4
<1>6. \A i \in 1 .. size : i \in 0 .. size /\ i # 0
  OBVIOUS
<1>7. 0 \in 0 .. size
  OBVIOUS
<1> QED
  BY <1>5, <1>6, <1>7 DEF Next1

\* Division by Base, with what it may be multiplied with.
LEMMA BaseDivision ==
    ASSUME BufferAssumption, NEW x \in Nat
    PROVE  /\ x \div Base \in Nat /\ x % Base \in Cell
           /\ x = (x % Base) + Base * (x \div Base)
           /\ \A y \in Nat : x <= (Base - 1) + Base * y => x \div Base <= y
<1>1. Base \in Nat /\ Base > 0
  BY DEF BufferAssumption
<1> DEFINE q == x \div Base
           r == x % Base
<1>2. q \in Int /\ r \in 0 .. Base - 1 /\ x = Base * q + r
  BY <1>1
<1> HIDE DEF q, r
<1>3. q \in Nat
  <2> SUFFICES ASSUME q < 0 PROVE FALSE
    BY <1>2
  <2>1. Base * q <= Base * (-1)
    BY <1>1, <1>2
  <2> QED
    BY <1>1, <1>2, <2>1
<1>4. ASSUME NEW y \in Nat, x <= (Base - 1) + Base * y, q > y PROVE FALSE
  <2>1. q >= y + 1
    BY <1>2, <1>4
  <2>2. Base * q >= Base * (y + 1)
    BY <1>1, <1>2, <2>1
  <2>3. Base * (y + 1) = Base * y + Base
    BY <1>1
  <2>4. Base * q \in Int /\ Base * y \in Int
    BY <1>1, <1>2
  <2> QED
    BY <1>1, <1>2, <1>4, <2>2, <2>3, <2>4
<1>5. \A y \in Nat : x <= (Base - 1) + Base * y => q <= y
  BY <1>3, <1>4
<1>6. x = r + Base * q
  BY <1>1, <1>2, <1>3
<1> QED
  BY <1>2, <1>3, <1>5, <1>6 DEF q, r, Cell

\* What Encode leaves of a value is a number.
LEMMA LeftType ==
    ASSUME BufferAssumption, NEW value \in Nat, NEW size \in Nat
    PROVE  \A i \in 0 .. size : Left(value, size)[i] \in Nat
<1> DEFINE T == {i \in Nat : i <= size => Left(value, size)[i] \in Nat}
<1>1. 0 \in T
  BY LeftEquation
<1>2. ASSUME NEW i \in Nat, i \in T PROVE i + 1 \in T
  <2> SUFFICES ASSUME i + 1 <= size PROVE Left(value, size)[i + 1] \in Nat
    OBVIOUS
  <2>1. i + 1 \in 1 .. size /\ (i + 1) - 1 = i /\ i <= size
    OBVIOUS
  <2>2. Left(value, size)[i + 1] = Left(value, size)[i] \div Base
    BY <2>1, LeftEquation
  <2>3. Left(value, size)[i] \in Nat
    BY <1>2, <2>1
  <2> QED
    BY <2>2, <2>3, BaseDivision
<1>3. Nat \subseteq T
  <2> HIDE DEF T
  <2> QED
    BY <1>1, <1>2, SetInduction
<1> QED
  BY <1>3

\* What Decode computes from cells is a number.
LEMMA LastType ==
    ASSUME BufferAssumption, NEW cells \in Seq(Cell)
    PROVE  \A i \in 0 .. Len(cells) : LastCells(cells)[i] \in Nat
<1> DEFINE size == Len(cells)
           T == {i \in Nat : i <= size => LastCells(cells)[i] \in Nat}
<1>0. size \in Nat /\ Base \in Nat
  BY LenProperties DEF BufferAssumption
<1>1. 0 \in T
  BY <1>0, LastEquation
<1>2. ASSUME NEW i \in Nat, i \in T PROVE i + 1 \in T
  <2> SUFFICES ASSUME i + 1 <= size PROVE LastCells(cells)[i + 1] \in Nat
    OBVIOUS
  <2>1. i + 1 \in 1 .. size /\ (i + 1) - 1 = i /\ i <= size /\ size + 1 - (i + 1) \in 1 .. size
    BY <1>0
  <2>2. LastCells(cells)[i + 1] = cells[size + 1 - (i + 1)] + Base * LastCells(cells)[i]
    BY <1>0, <2>1, LastEquation
  <2>3. LastCells(cells)[i] \in Nat
    BY <1>2, <2>1
  <2>4. cells[size + 1 - (i + 1)] \in Nat
    <3>1. cells[size + 1 - (i + 1)] \in Cell
      BY <2>1, ElementOfSeq
    <3> QED
      BY <1>0, <3>1 DEF Cell
  <2> QED
    BY <1>0, <2>2, <2>3, <2>4
<1>3. Nat \subseteq T
  <2> HIDE DEF T
  <2> QED
    BY <1>1, <1>2, SetInduction
<1> QED
  BY <1>0, <1>3

\* Encode writes that many cells.
LEMMA EncodeCells ==
    ASSUME BufferAssumption, NEW value \in Nat, NEW size \in Nat
    PROVE  /\ Encode(value, size) = [i \in 1 .. size |-> Left(value, size)[i - 1] % Base]
           /\ Encode(value, size) \in Seq(Cell) /\ Len(Encode(value, size)) = size
<1>1. Encode(value, size) = [i \in 1 .. size |-> Left(value, size)[i - 1] % Base]
  BY DEF Encode, Left
<1>2. \A i \in 1 .. size : Left(value, size)[i - 1] % Base \in Cell
  <2> SUFFICES ASSUME NEW i \in 1 .. size PROVE Left(value, size)[i - 1] % Base \in Cell
    OBVIOUS
  <2>1. i - 1 \in 0 .. size
    OBVIOUS
  <2>2. Left(value, size)[i - 1] \in Nat
    BY <2>1, LeftType
  <2> QED
    BY <2>2, BaseDivision
<1>3. [i \in 1 .. size |-> Left(value, size)[i - 1] % Base] \in [1 .. size -> Cell]
  BY <1>2
<1> QED
  BY <1>1, <1>3

\* Decode gives a number.
LEMMA DecodeType ==
    ASSUME BufferAssumption, NEW cells \in Seq(Cell)
    PROVE  Decode(cells) = LastCells(cells)[Len(cells)] /\ Decode(cells) \in Nat
<1>1. Decode(cells) = LastCells(cells)[Len(cells)]
  BY DEF Decode, LastCells
<1>2. Len(cells) \in Nat
  BY LenProperties
<1> QED
  BY <1>1, <1>2, LastType

\* Nothing is left of a value that is no more than the cells can hold.
LEMMA ValueFits ==
    ASSUME BufferAssumption, NEW size \in Nat,
           NEW value \in Nat, value <= Decode([i \in 1 .. size |-> Base - 1])
    PROVE  Left(value, size)[size] = 0
<1> DEFINE full == [i \in 1 .. size |-> Base - 1]
           left == Left(value, size)
           last == LastCells(full)
           T == {i \in Nat : i <= size => left[i] <= last[size - i]}
<1>1. full \in Seq(Cell) /\ Len(full) = size
  <2>1. Base - 1 \in Cell
    BY DEF BufferAssumption, Cell
  <2> QED
    BY <2>1
<1>2. \A i \in 0 .. size : left[i] \in Nat /\ last[i] \in Nat
  BY <1>1, LeftType, LastType, Zenon
<1>3. last[0] = 0 /\ \A i \in 1 .. size : last[i] = (Base - 1) + Base * last[i - 1]
  <2>1. /\ last[0] = 0
        /\ \A i \in 1 .. size : last[i] = full[size + 1 - i] + Base * last[i - 1]
    BY <1>1, LastEquation
  <2>2. \A i \in 1 .. size : full[size + 1 - i] = Base - 1
    OBVIOUS
  <2> QED
    BY <2>1, <2>2
<1>4. left[0] = value /\ \A i \in 1 .. size : left[i] = left[i - 1] \div Base
  BY LeftEquation
<1>5. value <= last[size]
  BY <1>1, DecodeType
<1> HIDE DEF full, left, last
<1>6. 0 \in T
  BY <1>4, <1>5
<1>7. ASSUME NEW i \in Nat, i \in T PROVE i + 1 \in T
  <2> SUFFICES ASSUME i + 1 <= size PROVE left[i + 1] <= last[size - (i + 1)]
    OBVIOUS
  <2> DEFINE j == size - i
  <2>1. /\ i \in 0 .. size /\ i + 1 \in 1 .. size /\ (i + 1) - 1 = i /\ i <= size
        /\ j \in 1 .. size /\ j - 1 = size - (i + 1) /\ j - 1 \in 0 .. size
    OBVIOUS
  <2>2. left[i] <= last[j]
    BY <1>7, <2>1
  <2> HIDE DEF j
  <2>3. left[i] <= (Base - 1) + Base * last[j - 1]
    BY <1>3, <2>1, <2>2
  <2>4. left[i] \in Nat /\ last[j - 1] \in Nat
    BY <1>2, <2>1
  <2>5. left[i] \div Base <= last[j - 1]
    BY <2>3, <2>4, BaseDivision, Zenon
  <2>6. left[i + 1] = left[i] \div Base
    BY <1>4, <2>1
  <2> QED
    BY <2>1, <2>5, <2>6
<1>8. Nat \subseteq T
  <2> HIDE DEF T
  <2> QED
    BY <1>6, <1>7, SetInduction
<1>9. left[size] <= last[size - size]
  BY <1>8
<1>10. size - size = 0 /\ size \in 0 .. size /\ left[size] \in Nat
  BY <1>2
<1> QED
  BY <1>3, <1>9, <1>10 DEF left

\* copy_uint32_from_buf and copy_uint64_from_buf read back what append_uint32_to_buf and
\* append_uint64_to_buf wrote: a value that fits, for every width and base.
THEOREM IntegerRoundTrip ==
    ASSUME BufferAssumption, NEW size \in Nat,
           NEW value \in Nat, value <= Decode([i \in 1 .. size |-> Base - 1])
    PROVE  Decode(Encode(value, size)) = value
<1> DEFINE cells == Encode(value, size)
           left == Left(value, size)
           last == LastCells(cells)
           T == {i \in Nat : i <= size => last[i] = left[size - i]}
<1>1. /\ cells = [i \in 1 .. size |-> left[i - 1] % Base]
      /\ cells \in Seq(Cell) /\ Len(cells) = size
  BY EncodeCells
<1>2. left[size] = 0
  BY ValueFits, Zenon
<1>3. left[0] = value /\ \A i \in 1 .. size : left[i] = left[i - 1] \div Base
  BY LeftEquation
<1>4. last[0] = 0 /\ \A i \in 1 .. size : last[i] = cells[size + 1 - i] + Base * last[i - 1]
  BY <1>1, LastEquation, Zenon
<1>5. \A i \in 0 .. size : left[i] \in Nat
  BY LeftType
<1> HIDE DEF left, last, cells
<1>6. 0 \in T
  BY <1>2, <1>4
<1>7. ASSUME NEW i \in Nat, i \in T PROVE i + 1 \in T
  <2> SUFFICES ASSUME i + 1 <= size PROVE last[i + 1] = left[size - (i + 1)]
    OBVIOUS
  <2> DEFINE j == size - i
  <2>1. /\ i + 1 \in 1 .. size /\ (i + 1) - 1 = i /\ i <= size
        /\ j \in 1 .. size /\ size - (i + 1) = j - 1 /\ size + 1 - (i + 1) = j
        /\ j - 1 \in 0 .. size
    OBVIOUS
  <2>2. last[i] = left[j]
    BY <1>7, <2>1
  <2> HIDE DEF j
  <2>3. left[j] = left[j - 1] \div Base
    BY <1>3, <2>1
  <2>4. cells[j] = left[j - 1] % Base
    BY <1>1, <2>1
  <2>5. last[i + 1] = cells[j] + Base * last[i]
    BY <1>4, <2>1
  <2>6. left[j - 1] \in Nat
    BY <1>5, <2>1
  <2>7. left[j - 1] = (left[j - 1] % Base) + Base * (left[j - 1] \div Base)
    BY <2>6, BaseDivision, Zenon
  <2> QED
    BY <2>1, <2>2, <2>3, <2>4, <2>5, <2>7
<1>8. Nat \subseteq T
  <2> HIDE DEF T
  <2> QED
    BY <1>6, <1>7, SetInduction
<1>9. last[size] = left[size - size] /\ size - size = 0
  BY <1>8
<1>10. Decode(cells) = last[size]
  BY <1>1, DecodeType DEF last
<1> QED
  BY <1>3, <1>9, <1>10 DEF cells

(***************************************************************************)
(* A size and data on the wire.                                            *)
(***************************************************************************)

\* A concatenation comes apart again.
LEMMA SplitConcat ==
    ASSUME NEW S, NEW s \in Seq(S), NEW t \in Seq(S)
    PROVE  /\ SubSeq(s \o t, 1, Len(s)) = s
           /\ SubSeq(s \o t, Len(s) + 1, Len(s \o t)) = t
<1> DEFINE u == s \o t
           m == Len(s)
           n == Len(t)
<1>1. m \in Nat /\ n \in Nat
  BY LenProperties
<1>2. /\ u \in Seq(S) /\ Len(u) = m + n
      /\ \A i \in 1 .. m + n : u[i] = IF i <= m THEN s[i] ELSE t[i - m]
  BY ConcatProperties
<1> HIDE DEF u, m, n
<1>3. \A i \in 1 .. m + n : u[i] \in S
  BY <1>1, <1>2, ElementOfSeq
<1>4. SubSeq(u, 1, m) = s
  <2> DEFINE v == SubSeq(u, 1, m)
  <2>1. /\ v \in Seq(S) /\ Len(v) = IF 1 <= m THEN m - 1 + 1 ELSE 0
        /\ \A i \in 1 .. m - 1 + 1 : v[i] = u[1 + i - 1]
    <3>1. \A i \in 1 .. m : u[i] \in S
      BY <1>1, <1>3
    <3> QED
      BY <1>1, <3>1, SubSeqProperties
  <2> HIDE DEF v
  <2>2. Len(v) = m /\ \A i \in 1 .. m : v[i] = s[i]
    BY <1>1, <1>2, <2>1
  <2>3. v = s
    BY <2>1, <2>2, SeqEqual DEF m
  <2> QED
    BY <2>3 DEF v
<1>5. SubSeq(u, m + 1, m + n) = t
  <2> DEFINE v == SubSeq(u, m + 1, m + n)
  <2>1. /\ v \in Seq(S) /\ Len(v) = IF m + 1 <= m + n THEN (m + n) - (m + 1) + 1 ELSE 0
        /\ \A i \in 1 .. (m + n) - (m + 1) + 1 : v[i] = u[(m + 1) + i - 1]
    <3>1. \A i \in m + 1 .. m + n : u[i] \in S
      BY <1>1, <1>3
    <3> QED
      BY <1>1, <3>1, SubSeqProperties
  <2> HIDE DEF v
  <2>2. Len(v) = n
    BY <1>1, <2>1
  <2>3. ASSUME NEW i \in 1 .. n PROVE v[i] = t[i]
    <3>1. /\ i \in 1 .. (m + n) - (m + 1) + 1 /\ (m + 1) + i - 1 = m + i
          /\ m + i \in 1 .. m + n /\ ~(m + i <= m) /\ (m + i) - m = i
      BY <1>1
    <3>2. v[i] = u[m + i]
      BY <2>1, <3>1
    <3>3. u[m + i] = t[i]
      BY <1>2, <3>1
    <3> QED
      BY <3>2, <3>3
  <2>4. v = t
    BY <2>1, <2>2, <2>3, SeqEqual DEF n
  <2> QED
    BY <2>4 DEF v
<1> QED
  BY <1>2, <1>4, <1>5 DEF u, m, n

\* What Serialize leaves in a destination with that room.
Wire(data, room) == append_size_and_data_to_buf(NewWriter(room), data).cells

\* The destination gets what fits of the size and the data.
LEMMA WireCells ==
    ASSUME BufferAssumption, NEW data \in Seq(Bytes), NEW room \in Nat
    PROVE  LET header == Encode(Len(data), Size32)
           IN  /\ header \in Seq(Cell) /\ Len(header) = Size32 /\ data \in Seq(Cell)
               /\ room >= Size32 + Len(data) => Wire(data, room) = header \o data
               /\ room >= Size32 /\ room < Size32 + Len(data) => Wire(data, room) = header
               /\ room < Size32 => /\ Wire(data, room) \in Seq(Cell)
                                   /\ Len(Wire(data, room)) < Size32
<1> DEFINE header == Encode(Len(data), Size32)
           first == append_uint32_to_buf(NewWriter(room), Len(data))
<1>0. Len(data) \in Nat /\ Size32 \in Nat \ {0}
  BY LenProperties DEF BufferAssumption
<1>1. header \in Seq(Cell) /\ Len(header) = Size32
  BY <1>0, EncodeCells
<1>2. data \in Seq(Cell)
  BY SeqMonotonic DEF BufferAssumption
<1>3. Wire(data, room) = append_to_buf(first, data).cells
  BY DEF Wire, append_size_and_data_to_buf
<1>4. first = append_to_buf([cells |-> <<>>, room |-> room], header)
  BY DEF append_uint32_to_buf, NewWriter
<1> HIDE DEF header, first
<1>5. <<>> \o header = header /\ <<>> \o data = data
  BY <1>1, <1>2, ConcatEmptySeq
<1>6. CASE room >= Size32
  <2>1. first = [cells |-> header, room |-> room - Size32]
    BY <1>1, <1>4, <1>5, <1>6 DEF append_to_buf
  <2>2. first.cells = header /\ first.room = room - Size32
    BY <2>1
  <2>3. CASE room >= Size32 + Len(data)
    BY <1>0, <1>1, <1>2, <1>3, <1>6, <2>2, <2>3 DEF append_to_buf, header
  <2>4. CASE room < Size32 + Len(data)
    BY <1>0, <1>1, <1>2, <1>3, <1>6, <2>2, <2>4 DEF append_to_buf, header
  <2> QED
    BY <1>0, <2>3, <2>4
<1>7. CASE room < Size32
  <2>1. first = [cells |-> <<>>, room |-> room]
    BY <1>0, <1>1, <1>4, <1>7 DEF append_to_buf
  <2>2. first.cells = <<>> /\ first.room = room
    BY <2>1
  <2>3. Wire(data, room) = IF Len(data) <= room THEN data ELSE <<>>
    BY <1>3, <1>5, <2>2 DEF append_to_buf
  <2>4. <<>> \in Seq(Cell) /\ Len(<<>>) = 0
    BY EmptySeq
  <2>5. Wire(data, room) \in Seq(Cell) /\ Len(Wire(data, room)) < Size32
    BY <1>0, <1>2, <1>7, <2>3, <2>4
  <2> QED
    BY <1>0, <1>1, <1>2, <1>7, <2>5 DEF header
<1> QED
  BY <1>0, <1>6, <1>7

\* Copying cells that are there.
LEMMA CopyCells ==
    ASSUME NEW r, NEW size, size <= Len(r), NEW first, NEW rest,
           SubSeq(r, 1, size) = first, SubSeq(r, size + 1, Len(r)) = rest
    PROVE  copy_from_buf(r, size) = Got(first, rest)
BY Zenon DEF copy_from_buf

\* Copying all the cells there are.
LEMMA CopyAllCells ==
    ASSUME NEW C, NEW r \in Seq(C)
    PROVE  copy_from_buf(r, Len(r)) = Got(r, <<>>)
<1> DEFINE nil == <<>>
           rest == SubSeq(r, Len(r) + 1, Len(r))
<1>1. Len(r) \in Nat /\ Len(r) <= Len(r)
  BY LenProperties
<1>2. SubSeq(r, 1, Len(r)) = r
  OBVIOUS
<1>3. rest = nil
  BY <1>1
<1>4. copy_from_buf(r, Len(r)) = Got(r, rest)
  <2>1. copy_from_buf(r, Len(r)) = Got(SubSeq(r, 1, Len(r)), rest)
    BY <1>1, Zenon DEF copy_from_buf
  <2> HIDE DEF rest
  <2> QED
    BY <1>2, <2>1, Zenon
<1> HIDE DEF nil, rest
<1>5. copy_from_buf(r, Len(r)) = Got(r, nil)
  BY <1>3, <1>4
<1> QED
  BY <1>5 DEF nil

\* Copying an integer from cells that are there.
LEMMA CopyInteger ==
    ASSUME NEW r, NEW size, NEW first, NEW rest, copy_from_buf(r, size) = Got(first, rest)
    PROVE  copy_word(r, size) = Got(Decode(first), rest)
<1> DEFINE c == Got(first, rest)
<1>1. c.ok = TRUE /\ c.val = first /\ c.rest = rest
  BY DEF Got
<1>2. copy_word(r, size) = IF c.ok THEN Got(Decode(c.val), c.rest) ELSE c
  BY Zenon DEF copy_word
<1> HIDE DEF c
<1> QED
  BY <1>1, <1>2

\* A size that fits and data come back from the wire; what was cut short is refused.
LEMMA ReadsBack ==
    ASSUME BufferAssumption, NEW data \in Seq(Bytes), Len(data) <= UINT32_MAX, NEW room \in Nat
    PROVE  LET got == copy_size_and_data_from_buf(Wire(data, room))
           IN  /\ got.ok \in BOOLEAN
               /\ got.ok => got.val = data
               /\ room >= Size32 + Len(data) => got = Got(data, <<>>)
<1> DEFINE header == Encode(Len(data), Size32)
           wire1 == Wire(data, room)
           got == copy_size_and_data_from_buf(wire1)
           size == copy_uint32_from_buf(wire1)
<1>0. Len(data) \in Nat /\ Size32 \in Nat \ {0}
  BY LenProperties DEF BufferAssumption
<1>1. /\ header \in Seq(Cell) /\ Len(header) = Size32 /\ data \in Seq(Cell)
      /\ room >= Size32 + Len(data) => wire1 = header \o data
      /\ room >= Size32 /\ room < Size32 + Len(data) => wire1 = header
      /\ room < Size32 => wire1 \in Seq(Cell) /\ Len(wire1) < Size32
  BY WireCells
<1>2. Decode(header) = Len(data)
  BY <1>0, IntegerRoundTrip, Zenon DEF UINT32_MAX
<1>3. got = IF ~size.ok THEN size
            ELSE IF size.val = 0 THEN Got(<<>>, size.rest) ELSE copy_from_buf(size.rest, size.val)
  BY DEF copy_size_and_data_from_buf
<1> HIDE DEF header, wire1, got, size
<1>4. CASE room >= Size32 + Len(data)
  <2>1. wire1 = header \o data
    BY <1>1, <1>4
  <2>2. /\ SubSeq(wire1, 1, Size32) = header
        /\ SubSeq(wire1, Size32 + 1, Len(wire1)) = data
    BY <1>1, <2>1, SplitConcat, Zenon
  <2>3. Len(wire1) = Size32 + Len(data)
    BY <1>1, <2>1, ConcatProperties
  <2>4. size = Got(Len(data), data)
    <3>1. copy_from_buf(wire1, Size32) = Got(header, data)
      <4>1. Size32 <= Len(wire1)
        BY <1>0, <2>3
      <4>2. copy_from_buf(wire1, Size32)
            = Got(SubSeq(wire1, 1, Size32), SubSeq(wire1, Size32 + 1, Len(wire1)))
        BY <4>1, Zenon DEF copy_from_buf
      <4> QED
        BY <2>2, <4>2, Zenon
    <3> QED
      BY <1>2, <3>1, CopyInteger DEF size, copy_uint32_from_buf
  <2>5. size.ok = TRUE /\ size.val = Len(data) /\ size.rest = data
    BY <2>4 DEF Got
  <2>6. got = Got(data, <<>>)
    <3>1. CASE Len(data) = 0
      <4>1. data = <<>>
        BY <3>1, EmptySeq
      <4> QED
        BY <1>3, <2>5, <3>1, <4>1
    <3>2. CASE Len(data) # 0
      <4>1. copy_from_buf(data, Len(data)) = Got(data, <<>>)
        BY CopyAllCells
      <4> QED
        BY <1>3, <2>5, <3>2, <4>1
    <3> QED
      BY <3>1, <3>2
  <2> QED
    BY <2>6 DEF Got, got, wire1
<1>5. CASE room >= Size32 /\ room < Size32 + Len(data)
  <2>1. wire1 = header /\ Len(data) # 0
    BY <1>0, <1>1, <1>5
  <2>4. size = Got(Len(data), <<>>)
    <3>1. copy_from_buf(wire1, Size32) = Got(header, <<>>)
      <4>1. Len(header) = Size32
        BY <1>0, <1>1
      <4>2. copy_from_buf(header, Len(header)) = Got(header, <<>>)
        BY <1>1, CopyAllCells
      <4> QED
        BY <2>1, <4>1, <4>2
    <3> QED
      BY <1>2, <3>1, CopyInteger DEF size, copy_uint32_from_buf
  <2>5. size.ok = TRUE /\ size.val = Len(data) /\ size.rest = <<>>
    BY <2>4 DEF Got
  <2>6. ~(Len(data) <= Len(<<>>))
    BY <1>0, <2>1, EmptySeq
  <2>7. got = Short(<<>>)
    BY <1>3, <2>1, <2>5, <2>6 DEF copy_from_buf
  <2> QED
    BY <1>0, <1>5, <2>7 DEF Short, got, wire1
<1>6. CASE room < Size32
  <2>1. Len(wire1) \in Nat /\ Len(wire1) < Size32
    BY <1>1, <1>6, LenProperties
  <2>2. copy_from_buf(wire1, Size32) = Short(wire1)
    BY <1>0, <2>1 DEF copy_from_buf
  <2>3. size = Short(wire1)
    BY <2>2 DEF size, copy_uint32_from_buf, copy_word, Short
  <2>4. got.ok = FALSE
    BY <1>3, <2>3 DEF Short
  <2>5. ~(room >= Size32 + Len(data))
    BY <1>0, <1>6
  <2> QED
    BY <2>4, <2>5, Zenon DEF got, wire1
<1> QED
  BY <1>0, <1>4, <1>5, <1>6
\* The largest size that can be sent is a natural number.
LEMMA UintMax ==
    ASSUME BufferAssumption
    PROVE  UINT32_MAX \in Nat
<1> DEFINE full == [i \in 1 .. Size32 |-> Base - 1]
<1>1. full \in Seq(Cell)
  BY IsASeq DEF Cell, BufferAssumption
<1> QED
  BY <1>1, DecodeType DEF UINT32_MAX, BufferAssumption

-----------------------------------------------------------------------------
(* The queue.  q is what was written to the buffer b and not yet read: the  *)
(* cells of b after the read position r, up to the write position w.        *)

Holds(b, r, w, q) ==
    /\ b \in Seq(Bytes \cup {NONE}) /\ Len(b) <= MaxSize + 1
    /\ r \in Nat /\ w \in Nat /\ r <= w /\ w <= Len(b)
    /\ q \in Seq(Bytes) /\ Len(q) = w - r
    /\ \A i \in 1 .. w - r : q[i] = b[r + i]

\* What was sent is what the wire carries, as far as there was room for it.
Carries(w, s) ==
    \/ s = NONE
    \/ \E data \in Seq(Bytes), room \in Nat :
          Len(data) <= MaxSize + 1 /\ s = [data |-> data, room |-> room] /\ w = Wire(data, room)

CallNames == {"constructor", "Clear", "reserve", "Reinitialize", "write", "read",
              "advance_write", "Serialize", "Deserialize"}

\* The inductive invariant.
BufferInv ==
    /\ Holds(buffer, read_position, write_position, queue)
    /\ Carries(wire, sent)
    /\ call.op \in CallNames /\ call.ok \in BOOLEAN

\* The bytes callers pass are byte sequences.
LEMMA DataIsBytes ==
    ASSUME BufferAssumption, NEW data \in Data
    PROVE  data \in Seq(Bytes) /\ Len(data) \in Nat /\ Len(data) <= MaxSize
BY DEF Data, BufferAssumption

\* What peek_read and available_read delimit is the queue.
LEMMA HoldsReadable ==
    ASSUME BufferAssumption, NEW b, NEW r, NEW w, NEW q, Holds(b, r, w, q)
    PROVE  SubSeq(b, r + 1, w) = q
<1> DEFINE v == SubSeq(b, r + 1, w)
<1>1. /\ r \in Nat /\ w \in Nat /\ r <= w /\ w <= Len(b) /\ Len(b) \in Nat
      /\ b \in Seq(Bytes \cup {NONE}) /\ q \in Seq(Bytes) /\ Len(q) = w - r
  BY LenProperties DEF Holds
<1>2. /\ v \in Seq(Bytes \cup {NONE}) /\ Len(v) = w - r
      /\ \A i \in 1 .. w - r : v[i] = b[(r + 1) + i - 1]
  <2>1. \A i \in r + 1 .. w : i \in 1 .. Len(b)
    BY <1>1
  <2>2. w - (r + 1) + 1 = w - r /\ (IF r + 1 <= w + 1 THEN w - (r + 1) + 1 ELSE 0) = w - r
    BY <1>1
  <2> QED
    BY <1>1, <2>1, <2>2, SubSeqProperties
<1> HIDE DEF v
<1>3. \A i \in 1 .. Len(q) : v[i] = q[i]
  <2> TAKE i \in 1 .. Len(q)
  <2>1. i \in 1 .. w - r /\ (r + 1) + i - 1 = r + i
    BY <1>1
  <2>2. q[i] = b[r + i]
    BY <2>1 DEF Holds
  <2> QED
    BY <1>2, <2>1, <2>2
<1>4. q \in Seq(Bytes \cup {NONE})
  BY <1>1, SeqMonotonic
<1>5. v = q
  BY <1>1, <1>2, <1>3, <1>4, SeqEqual
<1> QED
  BY <1>5 DEF v

\* A buffer after Clear, or after an allocation: nothing to read.
LEMMA HoldsNothing ==
    ASSUME BufferAssumption, NEW size \in 0 .. MaxSize
    PROVE  /\ Holds([i \in 1 .. size |-> NONE], 0, 0, <<>>)
           /\ Holds(<<>>, 0, 0, <<>>)
<1> DEFINE b == [i \in 1 .. size |-> NONE]
<1>1. MaxSize \in Nat /\ size \in Nat /\ size <= MaxSize
  BY DEF BufferAssumption
<1>2. b \in Seq(Bytes \cup {NONE}) /\ Len(b) = size
  BY <1>1, IsASeq
<1> HIDE DEF b
<1>3. <<>> \in Seq(Bytes) /\ <<>> \in Seq(Bytes \cup {NONE}) /\ Len(<<>>) = 0
  BY EmptySeq
<1>4. Holds(b, 0, 0, <<>>)
  BY <1>1, <1>2, <1>3 DEF Holds
<1>5. Holds(<<>>, 0, 0, <<>>)
  BY <1>1, <1>3 DEF Holds
<1> QED
  BY <1>4, <1>5 DEF b

\* A buffer allocated for some data and filled with it.
LEMMA HoldsData ==
    ASSUME BufferAssumption, NEW data \in Seq(Bytes), Len(data) <= MaxSize + 1
    PROVE  Holds(data, 0, Len(data), data)
<1>1. Len(data) \in Nat /\ Len(data) - 0 = Len(data)
  BY LenProperties
<1>2. data \in Seq(Bytes \cup {NONE})
  BY SeqMonotonic
<1>3. \A i \in 1 .. Len(data) - 0 : data[i] = data[0 + i]
  BY <1>1
<1> QED
  BY <1>1, <1>2, <1>3 DEF Holds
\* reserve moves what is still to be read to the front of a larger allocation.
LEMMA HoldsGrown ==
    ASSUME BufferAssumption, NEW b, NEW r, NEW w, NEW q, Holds(b, r, w, q),
           NEW extra \in Nat, w - r + extra <= MaxSize + 1
    PROVE  Holds(q \o [i \in 1 .. extra |-> NONE], 0, w - r, q)
<1> DEFINE t == [i \in 1 .. extra |-> NONE]
           u == q \o t
           n == w - r
<1>1. n \in Nat /\ q \in Seq(Bytes) /\ Len(q) = n /\ q \in Seq(Bytes \cup {NONE})
  BY SeqMonotonic DEF Holds
<1>2. t \in Seq(Bytes \cup {NONE}) /\ Len(t) = extra
  BY IsASeq
<1> HIDE DEF t
<1>3. /\ u \in Seq(Bytes \cup {NONE}) /\ Len(u) = n + extra
      /\ \A i \in 1 .. n + extra : u[i] = IF i <= n THEN q[i] ELSE t[i - n]
  <2>1. /\ u \in Seq(Bytes \cup {NONE}) /\ Len(u) = Len(q) + Len(t)
        /\ \A i \in 1 .. Len(q) + Len(t) : u[i] = IF i <= Len(q) THEN q[i] ELSE t[i - Len(q)]
    BY <1>1, <1>2, ConcatProperties, Zenon
  <2> HIDE DEF u, n
  <2> QED
    BY <1>1, <1>2, <2>1
<1>4. n + extra <= MaxSize + 1 /\ n <= n + extra /\ n - 0 = n
  BY <1>1
<1> HIDE DEF u, n
<1>5. \A i \in 1 .. n - 0 : q[i] = u[0 + i]
  <2> TAKE i \in 1 .. n - 0
  <2>1. i \in 1 .. n + extra /\ i <= n /\ 0 + i = i
    BY <1>1, <1>4
  <2> QED
    BY <1>3, <2>1
<1>6. Holds(u, 0, n, q)
  BY <1>1, <1>3, <1>4, <1>5 DEF Holds
<1> QED
  BY <1>6 DEF u, n, t

\* Bytes copied in behind the write position leave the queue alone, and join it when
\* the write position moves past them.
LEMMA HoldsWritten ==
    ASSUME BufferAssumption, NEW b, NEW r, NEW w, NEW q, Holds(b, r, w, q),
           NEW data \in Seq(Bytes), Len(data) <= Len(b) - w, NEW new,
           new = [i \in 1 .. Len(b) |->
                     IF i \in w + 1 .. w + Len(data) THEN data[i - w] ELSE b[i]]
    PROVE  Holds(new, r, w, q) /\ Holds(new, r, w + Len(data), q \o data)
<1> DEFINE m == Len(data)
           l == Len(b)
           n == w - r
           u == q \o data
<1>1. /\ r \in Nat /\ w \in Nat /\ r <= w /\ w <= l /\ l <= MaxSize + 1
      /\ b \in Seq(Bytes \cup {NONE}) /\ q \in Seq(Bytes) /\ Len(q) = n
      /\ l \in Nat /\ m \in Nat /\ w + m <= l /\ n \in Nat
  BY LenProperties DEF Holds
<1>2. /\ \A i \in 1 .. m : data[i] \in Bytes
      /\ \A i \in 1 .. l : b[i] \in Bytes \cup {NONE}
  BY <1>1, ElementOfSeq
<1>3. \A i \in 1 .. l :
         (IF i \in w + 1 .. w + m THEN data[i - w] ELSE b[i]) \in Bytes \cup {NONE}
  <2> TAKE i \in 1 .. l
  <2>1. i \in w + 1 .. w + m => i - w \in 1 .. m
    BY <1>1
  <2> QED
    BY <1>2, <2>1
<1>4. /\ new \in Seq(Bytes \cup {NONE}) /\ Len(new) = l
      /\ \A i \in 1 .. l : new[i] = IF i \in w + 1 .. w + m THEN data[i - w] ELSE b[i]
  <2> DEFINE f(i) == IF i \in w + 1 .. w + m THEN data[i - w] ELSE b[i]
  <2>1. new = [i \in 1 .. l |-> f(i)] /\ \A i \in 1 .. l : f(i) \in Bytes \cup {NONE}
    BY <1>3
  <2> HIDE DEF f
  <2>2. new \in Seq(Bytes \cup {NONE}) /\ Len(new) = l /\ \A i \in 1 .. l : new[i] = f(i)
    BY <1>1, <2>1, IsASeq, SMTT(20)
  <2> QED
    BY <2>2 DEF f
<1>5. /\ u \in Seq(Bytes) /\ Len(u) = n + m
      /\ \A i \in 1 .. n + m : u[i] = IF i <= n THEN q[i] ELSE data[i - n]
  <2>1. /\ u \in Seq(Bytes) /\ Len(u) = Len(q) + m
        /\ \A i \in 1 .. Len(q) + m : u[i] = IF i <= Len(q) THEN q[i] ELSE data[i - Len(q)]
    BY <1>1, ConcatProperties, Zenon
  <2> HIDE DEF u, n, m
  <2> QED
    BY <1>1, <2>1
<1>6. (w + m) - r = n + m /\ r <= w + m
  BY <1>1
<1>7. \A i \in 1 .. n : q[i] = b[r + i]
  BY DEF Holds
<1> HIDE DEF m, l, n, u
<1>8. \A i \in 1 .. n : q[i] = new[r + i]
  <2> TAKE i \in 1 .. n
  <2>1. r + i \in 1 .. l /\ r + i \notin w + 1 .. w + m
    BY <1>1 DEF n
  <2> QED
    BY <1>4, <1>7, <2>1, Zenon
<1>9. \A i \in 1 .. n + m : u[i] = new[r + i]
  <2> TAKE i \in 1 .. n + m
  <2>1. CASE i <= n
    <3>1. i \in 1 .. n
      BY <1>1, <2>1
    <3> QED
      BY <1>5, <1>8, <2>1, <3>1, Zenon
  <2>2. CASE ~(i <= n)
    <3>1. r + i \in 1 .. l /\ r + i \in w + 1 .. w + m /\ (r + i) - w = i - n
      BY <1>1, <2>2 DEF n
    <3> QED
      BY <1>4, <1>5, <2>2, <3>1, Zenon
  <2> QED
    BY <2>1, <2>2
<1>10. Holds(new, r, w, q)
  BY <1>1, <1>4, <1>8 DEF Holds, n
<1>11. Holds(new, r, w + m, u)
  BY <1>1, <1>4, <1>5, <1>6, <1>9 DEF Holds
<1> QED
  BY <1>10, <1>11 DEF m, u

\* Reading takes the bytes from the front of the queue.
LEMMA HoldsRead ==
    ASSUME BufferAssumption, NEW b, NEW r, NEW w, NEW q, Holds(b, r, w, q),
           NEW length \in Nat, length <= w - r
    PROVE  Holds(b, r + length, w, SubSeq(q, length + 1, Len(q)))
<1> DEFINE n == w - r
           v == SubSeq(q, length + 1, n)
<1>1. /\ r \in Nat /\ w \in Nat /\ r <= w /\ w <= Len(b) /\ Len(b) <= MaxSize + 1
      /\ b \in Seq(Bytes \cup {NONE}) /\ q \in Seq(Bytes) /\ Len(q) = n /\ n \in Nat
  BY LenProperties DEF Holds
<1>2. /\ r + length \in Nat /\ r + length <= w /\ w - (r + length) = n - length
      /\ n - length \in Nat
  BY <1>1
<1>3. /\ v \in Seq(Bytes) /\ Len(v) = n - length
      /\ \A i \in 1 .. n - length : v[i] = q[(length + 1) + i - 1]
  <2>1. \A i \in length + 1 .. n : i \in 1 .. Len(q)
    BY <1>1
  <2>2. /\ n - (length + 1) + 1 = n - length
        /\ (IF length + 1 <= n + 1 THEN n - (length + 1) + 1 ELSE 0) = n - length
    BY <1>1
  <2> QED
    BY <1>1, <2>1, <2>2, SubSeqProperties
<1>4. \A i \in 1 .. n : q[i] = b[r + i]
  BY DEF Holds
<1> HIDE DEF v, n
<1>5. \A i \in 1 .. n - length : v[i] = b[(r + length) + i]
  <2> TAKE i \in 1 .. n - length
  <2>1. length + i \in 1 .. n /\ (length + 1) + i - 1 = length + i
        /\ r + (length + i) = (r + length) + i
    BY <1>1
  <2> QED
    BY <1>3, <1>4, <2>1
<1>6. Holds(b, r + length, w, v)
  BY <1>1, <1>2, <1>3, <1>5 DEF Holds
<1> QED
  BY <1>1, <1>6 DEF v
-----------------------------------------------------------------------------
(* The calls.                                                               *)

\* The parts of the invariant after a call.
LEMMA AfterCall ==
    ASSUME NEW op \in CallNames, NEW ok \in BOOLEAN, Returns(op, ok)
    PROVE  call'.op \in CallNames /\ call'.ok \in BOOLEAN
<1>1. call' = [op |-> op, ok |-> ok, arg |-> 0]
  BY DEF Returns
<1>2. call'.op = op /\ call'.ok = ok
  BY <1>1
<1> QED
  BY <1>2

\* A call that does not serialize leaves nothing on the wire.
LEMMA NothingCarried ==
    ASSUME OffWire
    PROVE  Carries(wire, sent)'
BY DEF OffWire, Carries

\* A refused or failed call keeps the queue.
LEMMA KeptQueue ==
    ASSUME BufferInv, Same
    PROVE  Holds(buffer, read_position, write_position, queue)'
<1>1. /\ buffer' = buffer /\ read_position' = read_position
      /\ write_position' = write_position /\ queue' = queue
  BY DEF Same
<1> QED
  BY <1>1 DEF BufferInv

\* Clear empties the buffer.
LEMMA ClearedQueue ==
    ASSUME BufferAssumption, Clear
    PROVE  Holds(buffer, read_position, write_position, queue)'
<1>1. Holds(<<>>, 0, 0, <<>>)
  <2>1. 0 \in 0 .. MaxSize
    BY DEF BufferAssumption
  <2> QED
    BY <2>1, HoldsNothing, Zenon
<1>2. buffer' = <<>> /\ read_position' = 0 /\ write_position' = 0 /\ queue' = <<>>
  BY DEF Clear
<1> QED
  BY <1>1, <1>2

\* Clear called from outside.
LEMMA CallClearInv ==
    ASSUME BufferAssumption, BufferInv, CallClear
    PROVE  BufferInv'
<1>1. Clear /\ OffWire /\ Returns("Clear", TRUE)
  BY Zenon DEF CallClear
<1>2. "Clear" \in CallNames
  BY DEF CallNames
<1> QED
  BY <1>1, <1>2, AfterCall, NothingCarried, ClearedQueue, Zenon DEF BufferInv

\* reserve, refused, unnecessary, failed or done.
LEMMA ReserveInv ==
    ASSUME BufferAssumption, BufferInv, NEW size \in 0 .. MaxSize, NEW allocated \in BOOLEAN,
           buffer_size + size <= MaxSize + 1, reserve(size, allocated)
    PROVE  BufferInv'
<1> DEFINE n == write_position - read_position
           extra == buffer_size + size - available_write - available_read
<1>0. Holds(buffer, read_position, write_position, queue)
  BY DEF BufferInv
<1>1. OffWire
  BY DEF reserve
<1>2. call'.op \in CallNames /\ call'.ok \in BOOLEAN
  <2> DEFINE ok == available_write >= size \/ (valid_buffer_state /\ allocated)
  <2>1. ok \in BOOLEAN
    OBVIOUS
  <2>2. call' = [op |-> "reserve", ok |-> ok, arg |-> size]
    BY Zenon DEF reserve
  <2> HIDE DEF ok
  <2>3. call'.op = "reserve" /\ call'.ok = ok
    BY <2>2
  <2> QED
    BY <2>1, <2>3 DEF CallNames
<1>3. Holds(buffer, read_position, write_position, queue)'
  <2>1. CASE available_write >= size \/ ~valid_buffer_state \/ ~allocated
    <3>1. Same
      BY <2>1, Zenon DEF reserve
    <3> QED
      BY <3>1, KeptQueue
  <2>2. CASE ~(available_write >= size \/ ~valid_buffer_state \/ ~allocated)
    <3>1. /\ buffer' = readable \o [i \in 1 .. extra |-> NONE]
          /\ write_position' = n /\ read_position' = 0 /\ queue' = queue
      BY <2>2, Zenon DEF reserve
    <3>2. readable = queue
      BY <1>0, HoldsReadable DEF readable
    <3>3. extra \in Nat /\ n + extra <= MaxSize + 1
      <4>1. /\ read_position \in Nat /\ write_position \in Nat /\ buffer_size \in Nat
            /\ read_position <= write_position /\ write_position <= buffer_size
        BY <1>0, LenProperties DEF Holds, buffer_size
      <4>2. ~(buffer_size - write_position >= size)
        BY <2>2 DEF available_write
      <4>3. size \in Nat /\ MaxSize \in Nat
        BY DEF BufferAssumption
      <4>4. extra = size + read_position
        BY <4>1, <4>3 DEF available_write, available_read
      <4> HIDE DEF extra
      <4> QED
        BY <4>1, <4>2, <4>3, <4>4
    <3> HIDE DEF extra
    <3>4. Holds(queue \o [i \in 1 .. extra |-> NONE], 0, n, queue)
      BY <1>0, <3>3, HoldsGrown
    <3> QED
      BY <3>1, <3>2, <3>4
  <2> QED
    BY <2>1, <2>2
<1> QED
  BY <1>1, <1>2, <1>3, NothingCarried DEF BufferInv

\* Reinitialize with a size, whether its allocation succeeds or fails.
LEMMA ReinitializeSizeInv ==
    ASSUME BufferAssumption, BufferInv, NEW size \in 0 .. MaxSize, NEW allocated \in BOOLEAN,
           ReinitializeSize(size, allocated)
    PROVE  BufferInv'
<1>1. OffWire /\ Returns("Reinitialize", allocated) /\ "Reinitialize" \in CallNames
  BY DEF ReinitializeSize, CallNames
<1>2. Holds(buffer, read_position, write_position, queue)'
  <2>1. CASE allocated
    <3>1. /\ buffer' = [i \in 1 .. size |-> NONE]
          /\ read_position' = 0 /\ write_position' = 0 /\ queue' = <<>>
      BY <2>1 DEF ReinitializeSize
    <3>2. Holds([i \in 1 .. size |-> NONE], 0, 0, <<>>)
      BY HoldsNothing
    <3> QED
      BY <3>1, <3>2
  <2>2. CASE ~allocated
    BY <2>2, ClearedQueue DEF ReinitializeSize
  <2> QED
    BY <2>1, <2>2
<1> QED
  BY <1>1, <1>2, AfterCall, NothingCarried DEF BufferInv

\* Reinitialize with data, whether its allocation succeeds or fails.
LEMMA ReinitializeDataInv ==
    ASSUME BufferAssumption, BufferInv, NEW data \in Data, NEW allocated \in BOOLEAN,
           ReinitializeData(data, allocated)
    PROVE  BufferInv'
<1>1. OffWire /\ Returns("Reinitialize", allocated) /\ "Reinitialize" \in CallNames
  BY DEF ReinitializeData, CallNames
<1>2. Holds(buffer, read_position, write_position, queue)'
  <2>1. CASE allocated
    <3>1. /\ buffer' = data /\ read_position' = 0 /\ write_position' = Len(data)
          /\ queue' = data
      BY <2>1 DEF ReinitializeData
    <3>2. data \in Seq(Bytes) /\ Len(data) <= MaxSize + 1
      BY DataIsBytes DEF BufferAssumption
    <3>3. Holds(data, 0, Len(data), data)
      BY <3>2, HoldsData
    <3> QED
      BY <3>1, <3>3
  <2>2. CASE ~allocated
    BY <2>2, ClearedQueue DEF ReinitializeData
  <2> QED
    BY <2>1, <2>2
<1> QED
  BY <1>1, <1>2, AfterCall, NothingCarried DEF BufferInv
\* write, refused when it does not fit.
LEMMA WriteInv ==
    ASSUME BufferAssumption, BufferInv, NEW data \in Data, write(data)
    PROVE  BufferInv'
<1>0. Holds(buffer, read_position, write_position, queue)
  BY DEF BufferInv
<1>1. OffWire /\ "write" \in CallNames
  BY DEF write, CallNames
<1>2. CASE available_write < Len(data)
  <2>1. Same /\ Returns("write", FALSE)
    BY <1>2, Zenon DEF write
  <2> QED
    BY <1>1, <2>1, AfterCall, NothingCarried, KeptQueue, Zenon DEF BufferInv
<1>3. CASE ~(available_write < Len(data))
  <2>1. /\ buffer' = CopiedIn(write_position, data)
        /\ write_position' = write_position + Len(data) /\ queue' = queue \o data
        /\ read_position' = read_position /\ Returns("write", TRUE)
    BY <1>3, Zenon DEF write
  <2>2. data \in Seq(Bytes) /\ Len(data) <= Len(buffer) - write_position
    <3>1. Len(buffer) \in Nat /\ write_position \in Nat
      BY <1>0, LenProperties DEF Holds
    <3> QED
      BY <1>3, <3>1, DataIsBytes DEF available_write, buffer_size
  <2>3. buffer' = [i \in 1 .. Len(buffer) |->
                      IF i \in write_position + 1 .. write_position + Len(data)
                      THEN data[i - write_position] ELSE buffer[i]]
    BY <2>1 DEF CopiedIn, buffer_size
  <2>4. Holds(buffer', read_position, write_position + Len(data), queue \o data)
    BY <1>0, <2>2, <2>3, HoldsWritten
  <2>5. Holds(buffer, read_position, write_position, queue)'
    BY <2>1, <2>4
  <2> QED
    BY <1>1, <2>1, <2>5, AfterCall, NothingCarried, Zenon DEF BufferInv
<1> QED
  BY <1>2, <1>3

\* read, refused when there is less to read.
LEMMA ReadInv ==
    ASSUME BufferAssumption, BufferInv, NEW length \in 0 .. MaxSize, read(length)
    PROVE  BufferInv'
<1>0. Holds(buffer, read_position, write_position, queue)
  BY DEF BufferInv
<1>1. OffWire /\ "read" \in CallNames
  BY DEF read, CallNames
<1>2. CASE available_read < length
  <2>1. Same /\ Returns("read", FALSE)
    BY <1>2, Zenon DEF read
  <2> QED
    BY <1>1, <2>1, AfterCall, NothingCarried, KeptQueue, Zenon DEF BufferInv
<1>3. CASE ~(available_read < length)
  <2>1. /\ buffer' = buffer /\ write_position' = write_position
        /\ queue' = SubSeq(queue, length + 1, Len(queue))
        /\ read_position' = read_position + length /\ Returns("read", TRUE)
    BY <1>3, Zenon DEF read
  <2>2. length \in Nat /\ length <= write_position - read_position
    <3>1. read_position \in Nat /\ write_position \in Nat
      BY <1>0 DEF Holds
    <3> QED
      BY <1>3, <3>1 DEF available_read, BufferAssumption
  <2>3. Holds(buffer, read_position + length, write_position,
              SubSeq(queue, length + 1, Len(queue)))
    BY <1>0, <2>2, HoldsRead
  <2>4. Holds(buffer, read_position, write_position, queue)'
    BY <2>1, <2>3, Zenon
  <2> QED
    BY <1>1, <2>1, <2>4, AfterCall, NothingCarried, Zenon DEF BufferInv
<1> QED
  BY <1>2, <1>3

\* advance_write, refused when the distance is wrong.
LEMMA AdvanceWriteInv ==
    ASSUME BufferAssumption, BufferInv, NEW data \in Data, NEW distance \in Int,
           advance_write(data, distance)
    PROVE  BufferInv'
<1> DEFINE refused == distance < 0 \/ write_position + distance > buffer_size
<1>0. Holds(buffer, read_position, write_position, queue)
  BY DEF BufferInv
<1>1. /\ OffWire /\ "advance_write" \in CallNames /\ read_position' = read_position
      /\ Len(data) <= available_write /\ distance \in {Len(data), -1, available_write + 1}
      /\ buffer' = CopiedIn(write_position, data)
  BY DEF advance_write, CallNames
<1>2. data \in Seq(Bytes) /\ Len(data) \in Nat /\ Len(data) <= Len(buffer) - write_position
  BY <1>1, DataIsBytes DEF available_write, buffer_size
<1>3. buffer' = [i \in 1 .. Len(buffer) |->
                    IF i \in write_position + 1 .. write_position + Len(data)
                    THEN data[i - write_position] ELSE buffer[i]]
  BY <1>1 DEF CopiedIn, buffer_size
<1>4. /\ Holds(buffer', read_position, write_position, queue)
      /\ Holds(buffer', read_position, write_position + Len(data), queue \o data)
  BY <1>0, <1>2, <1>3, HoldsWritten, Zenon
<1>5. CASE refused
  <2>1. write_position' = write_position /\ queue' = queue /\ Returns("advance_write", FALSE)
    BY <1>5, Zenon DEF advance_write
  <2>2. Holds(buffer, read_position, write_position, queue)'
    BY <1>1, <1>4, <2>1
  <2> QED
    BY <1>1, <2>1, <2>2, AfterCall, NothingCarried, Zenon DEF BufferInv
<1>6. CASE ~refused
  <2>1. /\ write_position' = write_position + distance /\ queue' = queue \o data
        /\ Returns("advance_write", TRUE)
    BY <1>6, Zenon DEF advance_write
  <2>2. distance = Len(data)
    <3>1. buffer_size \in Nat /\ write_position \in Nat
      BY <1>0, LenProperties DEF Holds, buffer_size
    <3> QED
      BY <1>1, <1>6, <3>1 DEF available_write
  <2>3. Holds(buffer, read_position, write_position, queue)'
    BY <1>1, <1>4, <2>1, <2>2
  <2> QED
    BY <1>1, <2>1, <2>3, AfterCall, NothingCarried, Zenon DEF BufferInv
<1> QED
  BY <1>5, <1>6

\* Serialize puts the queue on the wire.
LEMMA SerializeInv ==
    ASSUME BufferAssumption, BufferInv, NEW room \in Nat, Serialize(room)
    PROVE  BufferInv'
<1>0. Holds(buffer, read_position, write_position, queue)
  BY DEF BufferInv
<1>1. Same /\ Returns("Serialize", TRUE) /\ "Serialize" \in CallNames
  BY Zenon DEF Serialize, CallNames
<1>2. readable = queue
  BY <1>0, HoldsReadable DEF readable
<1>3. wire' = Wire(queue, room) /\ sent' = [data |-> queue, room |-> room]
  BY <1>2 DEF Serialize, Wire
<1>4. queue \in Seq(Bytes) /\ Len(queue) <= MaxSize + 1
  BY <1>0, LenProperties DEF Holds, BufferAssumption
<1>5. Carries(wire, sent)'
  BY <1>3, <1>4, Zenon DEF Carries
<1> QED
  BY <1>1, <1>5, AfterCall, KeptQueue, Zenon DEF BufferInv

\* Deserialize fills the buffer with what was sent, or empties it.
LEMMA DeserializeInv ==
    ASSUME BufferAssumption, BufferInv, sent # NONE, NEW allocated \in BOOLEAN,
           Deserialize(allocated)
    PROVE  BufferInv'
<1> DEFINE got == copy_size_and_data_from_buf(wire)
           filled == got.ok /\ (allocated \/ got.val = <<>>)
<1>1. PICK data \in Seq(Bytes), room \in Nat :
         Len(data) <= MaxSize + 1 /\ wire = Wire(data, room)
  BY Zenon DEF BufferInv, Carries
<1>2. Len(data) <= UINT32_MAX
  <2>1. MaxSize \in Nat /\ MaxSize + 1 <= UINT32_MAX /\ UINT32_MAX \in Nat /\ Len(data) \in Nat
    BY UintMax, LenProperties DEF BufferAssumption
  <2> QED
    BY <1>1, <2>1
<1>3. got.ok => got.val = data
  BY <1>1, <1>2, ReadsBack
<1>4. OffWire /\ "Deserialize" \in CallNames
  BY DEF Deserialize, CallNames
<1>5. CASE filled
  <2>1. /\ buffer' = got.val /\ read_position' = 0 /\ write_position' = Len(got.val)
        /\ queue' = got.val /\ Returns("Deserialize", TRUE)
    BY <1>5, Zenon DEF Deserialize
  <2>2. got.val = data
    BY <1>3, <1>5
  <2>3. Holds(data, 0, Len(data), data)
    BY <1>1, HoldsData
  <2> HIDE DEF got
  <2>4. Holds(buffer, read_position, write_position, queue)'
    BY <2>1, <2>2, <2>3
  <2> QED
    BY <1>4, <2>1, <2>4, AfterCall, NothingCarried, Zenon DEF BufferInv
<1>6. CASE ~filled
  <2>1. Clear /\ Returns("Deserialize", FALSE)
    BY <1>6, Zenon DEF Deserialize
  <2> QED
    BY <1>4, <2>1, AfterCall, NothingCarried, ClearedQueue, Zenon DEF BufferInv
<1> QED
  BY <1>5, <1>6

\* A buffer step keeps the invariant.
LEMMA BufferStep ==
    ASSUME BufferAssumption, BufferInv, [Next]_vars
    PROVE  BufferInv'
<1>1. CASE CallClear
  BY <1>1, CallClearInv
<1>2. CASE \E size \in 0 .. MaxSize, allocated \in BOOLEAN :
              \/ buffer_size + size <= MaxSize + 1 /\ reserve(size, allocated)
              \/ ReinitializeSize(size, allocated)
  BY <1>2, ReserveInv, ReinitializeSizeInv
<1>3. CASE \E data \in Data, allocated \in BOOLEAN : ReinitializeData(data, allocated)
  BY <1>3, ReinitializeDataInv
<1>4. CASE \E data \in Data : write(data)
  BY <1>4, WriteInv
<1>5. CASE \E length \in 0 .. MaxSize : read(length)
  BY <1>5, ReadInv
<1>6. CASE \E data \in Data, distance \in -1 .. MaxSize + 2 : advance_write(data, distance)
  BY <1>6, AdvanceWriteInv
<1>7. CASE \E room \in 0 .. Size32 + MaxSize + 1 : Serialize(room)
  BY <1>7, SerializeInv
<1>8. CASE \E allocated \in BOOLEAN : sent # NONE /\ Deserialize(allocated)
  BY <1>8, DeserializeInv
<1>9. CASE UNCHANGED vars
  <2>1. /\ buffer' = buffer /\ read_position' = read_position
        /\ write_position' = write_position /\ queue' = queue
        /\ wire' = wire /\ sent' = sent /\ call' = call
    BY <1>9 DEF vars
  <2> QED
    BY <2>1 DEF BufferInv
<1> QED
  BY <1>1, <1>2, <1>3, <1>4, <1>5, <1>6, <1>7, <1>8, <1>9, Zenon DEF Next

\* Init holds nothing.
LEMMA BufferStart ==
    ASSUME BufferAssumption, Init
    PROVE  BufferInv
<1>1. Holds(<<>>, 0, 0, <<>>)
  <2>1. 0 \in 0 .. MaxSize
    BY DEF BufferAssumption
  <2> QED
    BY <2>1, HoldsNothing, Zenon
<1>2. /\ buffer = <<>> /\ read_position = 0 /\ write_position = 0 /\ queue = <<>>
      /\ sent = NONE /\ call = [op |-> "constructor", ok |-> TRUE, arg |-> 0]
  BY DEF Init
<1>3. call.op \in CallNames /\ call.ok \in BOOLEAN
  BY <1>2 DEF CallNames
<1>4. Carries(wire, sent)
  BY <1>2 DEF Carries
<1> QED
  BY <1>1, <1>2, <1>3, <1>4 DEF BufferInv

\* The invariant says what a Buffer promises.
LEMMA InvIsQueue ==
    ASSUME BufferAssumption, BufferInv
    PROVE  BufferIsQueue
<1>0. Holds(buffer, read_position, write_position, queue)
  BY DEF BufferInv
<1>1. BufferTypeOK
  <2>1. /\ buffer \in Seq(Bytes \cup {NONE}) /\ read_position \in Nat /\ write_position \in Nat
        /\ read_position <= write_position /\ write_position <= Len(buffer)
        /\ Len(buffer) \in Nat
    BY <1>0, LenProperties DEF Holds
  <2>2. valid_buffer_state /\ read_position >= 0
    BY <2>1 DEF valid_buffer_state, buffer_size
  <2> QED
    BY <2>1, <2>2 DEF BufferTypeOK, BufferInv, CallNames
<1>2. ReadableIsQueue
  BY <1>0, HoldsReadable DEF ReadableIsQueue, readable
<1>3. SerializedReadsBack
  <2> SUFFICES ASSUME sent # NONE, sent.room >= Size32 + Len(sent.data)
               PROVE  copy_size_and_data_from_buf(wire) = Got(sent.data, <<>>)
    BY DEF SerializedReadsBack
  <2>1. PICK data \in Seq(Bytes), room \in Nat :
           Len(data) <= MaxSize + 1 /\ sent = [data |-> data, room |-> room]
           /\ wire = Wire(data, room)
    BY Zenon DEF BufferInv, Carries
  <2>2. sent.data = data /\ sent.room = room
    BY <2>1
  <2>3. Len(data) <= UINT32_MAX
    <3>1. MaxSize \in Nat /\ MaxSize + 1 <= UINT32_MAX /\ UINT32_MAX \in Nat /\ Len(data) \in Nat
      BY UintMax, LenProperties DEF BufferAssumption
    <3> QED
      BY <2>1, <3>1
  <2>4. room >= Size32 + Len(data)
    BY <2>2
  <2>5. copy_size_and_data_from_buf(Wire(data, room)) = Got(data, <<>>)
    BY <2>3, <2>4, ReadsBack
  <2> QED
    BY <2>1, <2>2, <2>5, Zenon
<1> QED
  BY <1>1, <1>2, <1>3 DEF BufferIsQueue

\* keymaster::Buffer is a queue of bytes, whatever its size and whatever is written to it:
\* through every growth, compaction, refused call and failed allocation what can be read
\* is what was written and not yet read, in order, the positions lie in the allocation,
\* and what Serialize wrote where there was room Deserialize reads back.
THEOREM BufferQueue ==
    ASSUME BufferAssumption
    PROVE  Spec => []BufferIsQueue
<1>1. Init => BufferInv
  BY BufferStart
<1>2. BufferInv /\ [Next]_vars => BufferInv'
  BY BufferStep
<1>3. BufferInv => BufferIsQueue
  BY InvIsQueue
<1> QED
  BY <1>1, <1>2, <1>3, PTL DEF Spec
=============================================================================
