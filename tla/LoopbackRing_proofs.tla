------------------------ MODULE LoopbackRing_proofs ------------------------
(***************************************************************************)
(* Proofs about the loopback ring, for every capacity, width of size_t,    *)
(* buffer and cycle sizes.                                                 *)
(*                                                                         *)
(* The invariant: each thread's copy of the other's position is never      *)
(* ahead of it, so what it computes from it is on the safe side; and the   *)
(* cells from the first byte not yet played to the last one copied hold    *)
(* exactly the bytes kept there.                                           *)
(***************************************************************************)
EXTENDS LoopbackRing, SequenceTheorems, TLAPS

LocalsOk ==
  /\ writer.i <= writer.len /\ (writer.pc = "idle" => writer.len = 0)
  /\ reader.i <= reader.len /\ (reader.pc = "idle" => reader.len = 0)

Positions ==
  /\ writer.seen <= read_pos
  /\ write_pos + writer.len <= writer.seen + Capacity
  /\ read_pos + reader.len <= reader.seen
  /\ reader.seen <= write_pos

Lengths ==
  /\ Len(kept) = write_pos + writer.i
  /\ Len(played) = read_pos + reader.i

\* What was played is what was kept, and the rest of it is still in its cell.
Contents ==
  /\ \A n \in 1..Len(played) : played[n] = kept[n]
  /\ \A n \in (Len(played) + 1)..Len(kept) : data[Cell(n - 1)] = kept[n]

\* What the writer copies continues what it published before.
Numbers ==
  /\ \A k \in 1..writer.i : kept[write_pos + k] = writer.first + k - 1
  /\ write_pos > 0 =>
       kept[write_pos] <= IF writer.pc = "copy" THEN writer.first - 1 ELSE captured
  /\ writer.pc = "copy" => writer.first > 0 /\ writer.first + writer.len - 1 <= captured

IInv ==
  /\ TypeOK /\ LocalsOk /\ Positions /\ Lengths /\ BytesAccounted
  /\ Contents /\ Numbers

----------------------------------------------------------------------------
(* Arithmetic                                                              *)

LEMMA SmallMod ==
  ASSUME NEW a \in Nat, NEW w \in Nat, a < w
  PROVE  a % w = a
  BY SMT

LEMMA DivMod ==
  ASSUME NEW a \in Nat, NEW d \in Nat \ {0}
  PROVE  a % d \in 0..(d - 1) /\ \E q \in Nat : a = d * q + (a % d)
<1>1. a % d \in 0..(d - 1)
  BY SMT
<1>2. a = d * (a \div d) + (a % d)
  BY SMT
<1>3. a \div d \in Nat
  BY SMT
<1> QED BY <1>1, <1>2, <1>3

LEMMA Multiples ==
  ASSUME NEW d \in Nat \ {0}, NEW p \in Nat, NEW q \in Nat, p < q
  PROVE  d * q >= d * p + d
<1>1. PICK k \in Nat : q = p + 1 + k
  <2>1. q - p - 1 \in Nat
    OBVIOUS
  <2> QED BY <2>1
<1>2. d * q = d * p + d + d * k
  BY <1>1, SMT
<1>3. d * k >= 0
  BY SMT
<1>4. d * p \in Nat /\ d * k \in Nat
  BY SMT
<1> QED BY <1>2, <1>3, <1>4

\* Numbers less than d apart have different remainders.
LEMMA RemaindersDiffer ==
  ASSUME NEW d \in Nat \ {0}, NEW a \in Nat, NEW b \in Nat, a < b, b < a + d
  PROVE  a % d # b % d
<1>1. PICK p \in Nat : a = d * p + (a % d)
  BY DivMod
<1>2. PICK q \in Nat : b = d * q + (b % d)
  BY DivMod
<1>3. d * p \in Nat /\ d * q \in Nat /\ a % d \in Nat /\ b % d \in Nat
  BY DivMod, SMT
<1> SUFFICES ASSUME a % d = b % d PROVE FALSE
  OBVIOUS
<1>4. d * p < d * q /\ d * q < d * p + d
  BY <1>1, <1>2, <1>3
<1>5. CASE p < q
  BY <1>5, <1>4, <1>3, Multiples
<1>6. CASE q < p
  BY <1>6, <1>4, <1>3, Multiples
<1>7. CASE p = q
  BY <1>7, <1>4, <1>3
<1> QED BY <1>5, <1>6, <1>7

\* A position that wrapped is in the same cell: the ring divides the range.
LEMMA WrappedRemainder ==
  ASSUME NEW d \in Nat \ {0}, NEW w \in Nat \ {0}, w % d = 0, NEW a \in Nat
  PROVE  (a % w) % d = a % d
<1>1. PICK m \in Nat : w = d * m
  <2>1. PICK m \in Nat : w = d * m + (w % d)
    BY DivMod
  <2>2. d * m \in Nat
    BY SMT
  <2> QED BY <2>1, <2>2
<1>2. PICK k \in Nat : a = w * k + (a % w)
  BY DivMod
<1>3. a % w \in Nat
  BY DivMod
<1>4. PICK q \in Nat : a % w = d * q + ((a % w) % d)
  BY DivMod, <1>3
<1>5. PICK r \in Nat : r = (a % w) % d /\ r < d
  BY DivMod, <1>3
<1>6. m * k \in Nat /\ m * k + q \in Nat /\ d * (m * k + q) \in Nat
  BY SMT
<1>7. a = d * (m * k + q) + r
  <2>1. w * k = d * (m * k)
    BY <1>1, SMT
  <2>2. d * (m * k) + d * q = d * (m * k + q)
    BY <1>6, SMT
  <2>3. d * (m * k) \in Nat /\ d * q \in Nat
    BY <1>6, SMT
  <2>4. a = w * k + (d * q + r)
    BY <1>2, <1>4, <1>5
  <2>5. a = d * (m * k) + (d * q + r)
    BY <2>1, <2>4
  <2> QED BY <2>2, <2>3, <2>5
<1>8. PICK p \in Nat : a = d * p + (a % d)
  BY DivMod
<1>9. a % d \in Nat /\ a % d < d /\ d * p \in Nat
  BY DivMod, SMT
<1>10. p = m * k + q
  BY <1>6, <1>7, <1>8, <1>9, <1>5, Multiples
<1> QED BY <1>5, <1>6, <1>7, <1>8, <1>9, <1>10

----------------------------------------------------------------------------
(* Sequences of bytes                                                      *)

LEMMA ByteOf ==
  ASSUME NEW s \in Seq(Nat), NEW i \in 1..Len(s)
  PROVE  s[i] \in Nat
BY ONLY s \in Seq(Nat), i \in 1..Len(s), ElementOfSeq

\* A piece of a sequence whose elements in that range are numbers.
LEMMA SubSeqOfNat ==
  ASSUME NEW s, NEW m \in Int, NEW e \in Int, \A i \in m..e : s[i] \in Nat
  PROVE  /\ SubSeq(s, m, e) \in Seq(Nat)
         /\ Len(SubSeq(s, m, e)) = IF m <= e THEN e - m + 1 ELSE 0
         /\ \A k \in 1..(e - m + 1) : SubSeq(s, m, e)[k] = s[m + k - 1]
BY ONLY \A i \in m..e : s[i] \in Nat, m \in Int, e \in Int, SubSeqProperties

LEMMA SameBytes ==
  ASSUME NEW s \in Seq(Nat), NEW t \in Seq(Nat), Len(s) = Len(t),
         \A i \in 1..Len(s) : s[i] = t[i]
  PROVE  s = t
BY ONLY s \in Seq(Nat), t \in Seq(Nat), Len(s) = Len(t),
        \A i \in 1..Len(s) : s[i] = t[i], SeqEqual

LEMMA JoinBytes ==
  ASSUME NEW s \in Seq(Nat), NEW m \in 1..(Len(s) + 1), NEW k \in (m - 1)..Len(s),
         NEW e \in k..Len(s)
  PROVE  SubSeq(s, m, k) \o SubSeq(s, k + 1, e) = SubSeq(s, m, e)
BY ONLY s \in Seq(Nat), m \in 1..(Len(s) + 1), k \in (m - 1)..Len(s),
        e \in k..Len(s), ConcatAdjacentSubSeq

----------------------------------------------------------------------------
(* Whole frames                                                            *)

LEMMA ModOfMultiple ==
  ASSUME NEW d \in Nat \ {0}, NEW k \in Int
  PROVE  (d * k) % d = 0
<1>1. PICK q \in Int : d * k = d * q + ((d * k) % d)
  <2>1. d * k = d * ((d * k) \div d) + ((d * k) % d) /\ (d * k) \div d \in Int
    BY SMT
  <2> QED BY <2>1
<1>2. PICK r \in 0..(d - 1) : r = (d * k) % d
  BY SMT
<1>3. d * (k - q) = r /\ k - q \in Int
  <2>1. d * (k - q) = d * k - d * q
    BY SMT
  <2>2. d * k \in Int /\ d * q \in Int
    BY SMT
  <2> QED BY <1>1, <1>2, <2>1, <2>2
<1>4. k - q >= 1 => d * (k - q) >= d
  BY <1>3, SMT
<1>5. k - q <= -1 => d * (k - q) <= -d
  BY <1>3, SMT
<1>6. k - q = 0
  BY <1>2, <1>3, <1>4, <1>5
<1>7. d * (k - q) = 0
  BY <1>6, SMT
<1> QED BY <1>2, <1>3, <1>7

Whole(n) == n % Frame = 0

LEMMA WholeIsMultiple ==
  ASSUME NEW n \in Int, Whole(n)
  PROVE  \E k \in Int : n = Frame * k
<1>1. Frame \in Nat \ {0}
  BY RingAssumption DEF RingAssumption
<1>2. n = Frame * (n \div Frame) + (n % Frame) /\ n \div Frame \in Int
  BY <1>1, SMT
<1>3. n = Frame * (n \div Frame)
  BY <1>1, <1>2 DEF Whole
<1> QED BY <1>2, <1>3

LEMMA WholeSums ==
  ASSUME NEW m \in Int, NEW n \in Int, Whole(m), Whole(n)
  PROVE  Whole(m + n) /\ Whole(m - n)
<1>1. Frame \in Nat \ {0}
  BY RingAssumption DEF RingAssumption
<1>2. PICK j \in Int : m = Frame * j
  BY WholeIsMultiple
<1>3. PICK k \in Int : n = Frame * k
  BY WholeIsMultiple
<1>4. m + n = Frame * (j + k) /\ m - n = Frame * (j - k)
  BY <1>1, <1>2, <1>3, SMT
<1>5. j + k \in Int /\ j - k \in Int
  OBVIOUS
<1> QED BY <1>1, <1>4, <1>5, ModOfMultiple DEF Whole

----------------------------------------------------------------------------

LEMMA CapacityFacts ==
  Capacity \in Nat \ {0} /\ Wrap \in Nat \ {0} /\ Capacity < Wrap /\ MaxBytes \in Nat
  BY RingAssumption DEF RingAssumption

LEMMA CellType == ASSUME NEW a \in Nat PROVE Cell(a) \in Cells
<1>1. a % Wrap \in Nat
  BY CapacityFacts, DivMod
<1> QED BY <1>1, CapacityFacts, DivMod DEF Cell, Cells

\* Bytes less than a ring apart are in different cells.
LEMMA CellsDiffer ==
  ASSUME NEW a \in Nat, NEW b \in Nat, a < b, b < a + Capacity, b < MaxBytes
  PROVE  Cell(a) # Cell(b)
<1>1. CASE MaxBytes < Wrap
  <2>1. a % Wrap = a /\ b % Wrap = b
    BY <1>1, CapacityFacts, SmallMod
  <2> QED BY <2>1, CapacityFacts, RemaindersDiffer DEF Cell
<1>2. CASE Wrap % Capacity = 0
  <2>1. Cell(a) = a % Capacity /\ Cell(b) = b % Capacity
    BY <1>2, CapacityFacts, WrappedRemainder DEF Cell
  <2> QED BY <2>1, CapacityFacts, RemaindersDiffer
<1> QED BY <1>1, <1>2, WrapAssumption DEF WrapAssumption

----------------------------------------------------------------------------
(* The invariant                                                           *)

LEMMA InitIInv == Init => IInv
<1> SUFFICES ASSUME Init PROVE IInv
  OBVIOUS
<1> USE CapacityFacts
<1>1. TypeOK
  <2>1. kept \in Seq(Nat) /\ played \in Seq(Nat)
    BY EmptySeq DEF Init
  <2>2. Idle \in Locals
    BY DEF Idle, Locals
  <2> QED BY <2>1, <2>2 DEF Init, TypeOK
<1>2. LocalsOk /\ Positions
  BY DEF Init, Idle, LocalsOk, Positions
<1>3. Len(kept) = 0 /\ Len(played) = 0
  BY DEF Init
<1> QED
  BY <1>1, <1>2, <1>3 DEF Init, Idle, IInv, Lengths, BytesAccounted, Contents, Numbers

LEMMA Counts ==
  ASSUME TypeOK
  PROVE  /\ write_pos \in Nat /\ read_pos \in Nat /\ dropped \in Nat /\ captured \in Nat
         /\ writer.seen \in Nat /\ writer.first \in Nat
         /\ writer.len \in Nat /\ writer.i \in Nat
         /\ reader.seen \in Nat /\ reader.len \in Nat /\ reader.i \in Nat
         /\ Len(kept) \in Nat /\ Len(played) \in Nat
<1>1. writer \in Locals /\ reader \in Locals
  BY DEF TypeOK
<1>2. Len(kept) \in Nat /\ Len(played) \in Nat
  BY LenProperties DEF TypeOK
<1> QED BY <1>1, <1>2, CapacityFacts DEF TypeOK, Locals

LEMMA LoadIInv ==
  ASSUME IInv, NEW n \in Chunks, WriteLoad(n)
  PROVE  IInv'
<1> USE CapacityFacts DEF IInv
<1> DEFINE Copied(seen) == IF n > FreeSpace(seen) THEN FreeSpace(seen) ELSE n
<1>0. PICK seen \in {writer.seen, read_pos} :
        /\ writer' = [pc |-> "copy", seen |-> seen, first |-> captured + 1,
                      len |-> Copied(seen), i |-> 0]
        /\ dropped' = dropped + (n - Copied(seen))
  BY DEF WriteLoad, Dropped
<1>1. PICK len : len = Copied(seen)
  OBVIOUS
<1>2. n \in Nat
  BY RingAssumption DEF RingAssumption
<1>3. writer.pc = "idle" /\ writer.len = 0 /\ writer.i = 0 /\ writer.seen \in Nat
  BY DEF WriteLoad, LocalsOk, TypeOK, Locals
<1>4. seen \in Nat /\ seen <= read_pos /\ read_pos <= write_pos
      /\ write_pos - seen \in 0..Capacity
  BY <1>3 DEF Positions, TypeOK, Locals
<1>5. FreeSpace(seen) = Capacity - (write_pos - seen)
  <2>1. (write_pos - seen) % Wrap = write_pos - seen
    BY <1>4, SmallMod
  <2> QED BY <2>1 DEF FreeSpace
<1>6. len \in Nat /\ len <= n /\ len <= Capacity - (write_pos - seen)
  BY <1>1, <1>2, <1>4, <1>5
<1> HIDE DEF Copied
<1>7. captured' = captured + n /\ captured' \in 0..MaxBytes /\ captured \in Nat
  BY <1>2 DEF WriteLoad, TypeOK
<1>8. UNCHANGED <<data, write_pos, read_pos, reader, kept, played, cut>>
  BY DEF WriteLoad
<1>9. /\ writer'.pc = "copy" /\ writer'.seen = seen /\ writer'.len = len
      /\ writer'.first = captured + 1 /\ writer'.i = 0
      /\ dropped' = dropped + (n - len)
  BY <1>0, <1>1
<1>10. TypeOK'
  <2>1. writer' \in Locals
    BY <1>0, <1>1, <1>4, <1>6, <1>7 DEF Locals
  <2>2. dropped' \in Nat
    BY <1>9, <1>2, <1>6 DEF TypeOK
  <2> QED BY <2>1, <2>2, <1>7, <1>8 DEF TypeOK, Cells
<1>11. LocalsOk' /\ Positions'
  BY <1>4, <1>6, <1>8, <1>9 DEF LocalsOk, Positions, TypeOK
<1>12. Lengths' /\ Contents'
  <2>1. Lengths'
    BY <1>3, <1>8, <1>9 DEF Lengths
  <2>2. Contents'
    BY <1>8 DEF Contents, Cell
  <2> QED BY <2>1, <2>2
<1>13. BytesAccounted'
  <2>1. captured = Len(kept) + (0 - 0) + dropped
    BY <1>3 DEF BytesAccounted
  <2>2. BytesAccounted' <=> captured + n = Len(kept) + (len - 0) + (dropped + (n - len))
    BY <1>7, <1>8, <1>9 DEF BytesAccounted
  <2>3. Len(kept) \in Nat /\ dropped \in Nat
    BY Counts
  <2> QED BY <1>2, <1>6, <1>7, <2>1, <2>2, <2>3
<1>14. Numbers'
  BY <1>2, <1>3, <1>6, <1>7, <1>8, <1>9 DEF Numbers, TypeOK
<1> QED BY <1>10, <1>11, <1>12, <1>13, <1>14

\* No byte is copied past the count of captured ones.
LEMMA CopiesBounded ==
  ASSUME IInv
  PROVE  /\ write_pos + writer.len <= MaxBytes
         /\ Len(kept) \in Nat /\ Len(played) \in Nat
<1>1. TypeOK /\ captured \in 0..MaxBytes
  BY DEF IInv, TypeOK
<1>2. Len(kept) = write_pos + writer.i /\ BytesAccounted
  BY DEF IInv, Lengths
<1> QED BY <1>1, <1>2, Counts, CapacityFacts, SMTT(30) DEF BytesAccounted

\* The cell the writer fills holds none of the bytes still to be played.
LEMMA WriterAvoids ==
  ASSUME IInv, writer.i < writer.len, NEW a \in Nat,
         read_pos <= a, a < write_pos + writer.i
  PROVE  Cell(a) # Cell(write_pos + writer.i)
<1>1. write_pos + writer.i \in Nat /\ read_pos \in Nat /\ writer.seen \in Nat
      /\ write_pos \in Nat /\ writer.i \in Nat /\ writer.len \in Nat
  BY DEF IInv, TypeOK, Locals
<1>2. write_pos + writer.i < a + Capacity
  BY <1>1, CapacityFacts DEF IInv, Positions
<1>3. write_pos + writer.i < MaxBytes
  BY <1>1, CopiesBounded, CapacityFacts
<1> QED BY <1>1, <1>2, <1>3, CellsDiffer

LEMMA WriteByteIInv ==
  ASSUME IInv, WriteByte
  PROVE  IInv'
<1> USE CapacityFacts
<1> DEFINE b == write_pos + writer.i
<1> DEFINE byte == writer.first + writer.i
<1>0. /\ TypeOK /\ LocalsOk /\ Positions /\ Lengths /\ BytesAccounted
      /\ Contents /\ Numbers
  BY DEF IInv
<1>a. /\ write_pos \in Nat /\ read_pos \in Nat /\ dropped \in Nat
      /\ writer.first \in Nat /\ writer.len \in Nat /\ writer.i \in Nat
      /\ reader.i \in Nat /\ reader.len \in Nat /\ reader.seen \in Nat
      /\ Len(played) \in Nat
  BY <1>0, Counts
<1>1. writer.i < writer.len /\ b \in Nat /\ byte \in Nat
  BY <1>a, SMTT(30) DEF WriteByte
<1>2. data' = [data EXCEPT ![Cell(b)] = byte] /\ Cell(b) \in Cells
  BY <1>1, CellType DEF WriteByte
<1>3. kept' = Append(kept, byte) /\ kept \in Seq(Nat) /\ Len(kept) = b
  BY <1>0 DEF WriteByte, TypeOK, Lengths
<1>4. /\ kept' \in Seq(Nat) /\ Len(kept') = b + 1
      /\ \A n \in 1..b : kept'[n] = kept[n]
      /\ kept'[b + 1] = byte
  BY <1>1, <1>3
<1>5. writer' = [writer EXCEPT !.i = @ + 1] /\ writer \in Locals
  BY <1>0 DEF WriteByte, TypeOK
<1>6. /\ writer'.pc = writer.pc /\ writer'.seen = writer.seen /\ writer'.len = writer.len
      /\ writer'.first = writer.first /\ writer'.i = writer.i + 1
  BY <1>5 DEF Locals
<1>7. UNCHANGED <<write_pos, read_pos, dropped, reader, captured, played, cut>>
  BY DEF WriteByte
<1>8. TypeOK'
  <2>1. writer' \in Locals
    BY <1>5 DEF Locals
  <2>2. data' \in [Cells -> Nat]
    BY <1>0, <1>1, <1>2 DEF TypeOK
  <2> QED BY <1>0, <2>1, <2>2, <1>4, <1>7 DEF TypeOK, Cells
<1>9. LocalsOk' /\ Positions'
  <2>1. LocalsOk'
    BY <1>0, <1>a, <1>1, <1>6, <1>7 DEF LocalsOk
  <2>2. Positions'
    BY <1>0, <1>6, <1>7 DEF Positions
  <2> QED BY <2>1, <2>2
<1>10. Lengths' /\ BytesAccounted'
  <2>1. write_pos \in Nat /\ writer.i \in Nat /\ writer.len \in Nat /\ dropped \in Nat
    BY <1>a
  <2>2. Len(kept') = write_pos + (writer.i + 1)
    BY <1>4, <1>a
  <2>3. captured = write_pos + writer.i + (writer.len - writer.i) + dropped
    BY <1>0, <1>3 DEF BytesAccounted
  <2>4. Lengths'
    BY <1>0, <2>2, <1>6, <1>7 DEF Lengths
  <2>5. captured = Len(kept') + (writer.len - (writer.i + 1)) + dropped
    BY <2>1, <2>2, <2>3, SMTT(30)
  <2>6. BytesAccounted'
    BY <2>5, <1>6, <1>7 DEF BytesAccounted
  <2> QED BY <2>4, <2>6
<1>11. Contents'
  <2>1. Len(played) \in Nat /\ read_pos <= Len(played) /\ Len(played) <= b
    <3>1. Len(played) = read_pos + reader.i /\ reader.i <= reader.len
          /\ read_pos + reader.len <= reader.seen /\ reader.seen <= write_pos
      BY <1>0 DEF Lengths, Positions, LocalsOk
    <3> QED BY <3>1, <1>a
  <2>2. \A n \in 1..Len(played) : played[n] = kept'[n]
    BY <1>0, <1>4, <2>1, <1>1 DEF Contents
  <2>3. ASSUME NEW n \in (Len(played) + 1)..(b + 1)
        PROVE  data'[Cell(n - 1)] = kept'[n]
    <3>1. CASE n = b + 1
      <4>1. n - 1 = b
        BY <3>1, <1>1
      <4> QED BY <1>0, <4>1, <3>1, <1>2, <1>4 DEF TypeOK
    <3>2. CASE n # b + 1
      <4>1. n \in (Len(played) + 1)..Len(kept) /\ n - 1 \in Nat /\ n \in 1..b
            /\ read_pos <= n - 1 /\ n - 1 < b
        <5>1. Len(kept) = b /\ n \in Int /\ n < b + 1 /\ Len(played) < n
          BY <3>2, <1>1, <1>3, <2>1
        <5>2. read_pos \in Nat
          BY <1>a
        <5> QED BY <5>1, <5>2, <1>1, <2>1
      <4>2. Cell(n - 1) # Cell(b)
        BY <4>1, <1>1, WriterAvoids
      <4>3. data'[Cell(n - 1)] = data[Cell(n - 1)]
        BY <1>0, <4>1, <4>2, <1>2, CellType DEF TypeOK
      <4> QED BY <1>0, <4>1, <4>3, <1>4 DEF Contents
    <3> QED BY <3>1, <3>2
  <2>4. \A n \in (Len(played') + 1)..Len(kept') : data'[Cell(n - 1)] = kept'[n]
    BY <2>3, <1>4, <1>7
  <2> QED BY <2>2, <2>4, <1>7 DEF Contents, Cell
<1>12. Numbers'
  <2>2. ASSUME NEW k \in 1..(writer.i + 1)
        PROVE  kept'[write_pos + k] = writer.first + k - 1
    <3>1. CASE k = writer.i + 1
      <4>1. write_pos + k = b + 1 /\ byte = writer.first + k - 1
        BY <3>1, <1>a, SMTT(30)
      <4> QED BY <4>1, <1>4
    <3>2. CASE k # writer.i + 1
      <4>1. k \in 1..writer.i /\ write_pos + k \in 1..b
        BY <3>2, <1>a
      <4> QED BY <1>0, <4>1, <1>4 DEF Numbers
    <3> QED BY <3>1, <3>2
  <2>3. write_pos > 0 => kept'[write_pos] = kept[write_pos]
    BY <1>4, <1>a
  <2> QED BY <1>0, <1>6, <1>7, <2>2, <2>3 DEF Numbers
<1> QED BY <1>8, <1>9, <1>10, <1>11, <1>12 DEF IInv

LEMMA WriteStoreIInv ==
  ASSUME IInv, WriteStore
  PROVE  IInv'
<1>0. /\ TypeOK /\ LocalsOk /\ Positions /\ Lengths /\ BytesAccounted
      /\ Contents /\ Numbers
  BY DEF IInv
<1>1. /\ write_pos \in Nat /\ read_pos \in Nat /\ dropped \in Nat /\ captured \in Nat
      /\ writer.first \in Nat /\ writer.len \in Nat /\ writer.i \in Nat
      /\ writer.seen \in Nat /\ reader.seen \in Nat
  BY <1>0, Counts
<1>2. /\ writer.pc = "copy" /\ writer.i = writer.len
      /\ write_pos' = write_pos + writer.len
      /\ writer' = [Idle EXCEPT !.seen = writer.seen]
      /\ UNCHANGED <<data, read_pos, dropped, reader, captured, kept, played, cut>>
  BY DEF WriteStore
<1>3. /\ writer'.pc = "idle" /\ writer'.seen = writer.seen /\ writer'.len = 0
      /\ writer'.i = 0
  BY <1>2 DEF Idle
<1>4. TypeOK'
  <2>1. writer' \in Locals
    BY <1>1, <1>2 DEF Idle, Locals
  <2> QED BY <1>0, <1>1, <1>2, <2>1 DEF TypeOK, Cells
<1>5. LocalsOk'
  BY <1>0, <1>2, <1>3 DEF LocalsOk
<1>6. Positions'
  BY <1>0, <1>1, <1>2, <1>3 DEF Positions
<1>7. Lengths'
  BY <1>0, <1>1, <1>2, <1>3 DEF Lengths
<1>8. BytesAccounted'
  <2>1. captured = Len(kept) + 0 + dropped
    BY <1>0, <1>1, <1>2 DEF BytesAccounted
  <2> QED BY <2>1, <1>2, <1>3 DEF BytesAccounted
<1>9. Contents'
  BY <1>0, <1>2 DEF Contents, Cell
<1>10. Numbers'
  <2>1. CASE writer.len = 0
    <3>1. write_pos' = write_pos /\ \A k \in 1..0 : FALSE
      BY <1>1, <1>2, <2>1
    <3>2. ASSUME write_pos > 0 PROVE kept[write_pos] <= captured
      <4>1. kept[write_pos] \in Nat
        BY <1>0, <1>1, <1>2, <2>1, <3>2, ElementOfSeq DEF TypeOK, Lengths
      <4>2. kept[write_pos] <= writer.first - 1 /\ writer.first - 1 <= captured
        BY <1>0, <1>1, <1>2, <2>1, <3>2 DEF Numbers
      <4> QED BY <4>1, <4>2, <1>1
    <3> QED BY <1>2, <1>3, <3>1, <3>2 DEF Numbers
  <2>2. CASE writer.len > 0
    <3>1. kept[write_pos + writer.len] = writer.first + writer.len - 1
      BY <1>0, <1>1, <1>2, <2>2 DEF Numbers
    <3> QED BY <1>0, <1>1, <1>2, <1>3, <3>1 DEF Numbers
  <2> QED BY <1>1, <2>1, <2>2
<1> QED BY <1>4, <1>5, <1>6, <1>7, <1>8, <1>9, <1>10 DEF IInv

LEMMA ReadLoadIInv ==
  ASSUME IInv, NEW n \in Cycles, ReadLoad(n)
  PROVE  IInv'
<1>0. /\ TypeOK /\ LocalsOk /\ Positions /\ Lengths /\ BytesAccounted
      /\ Contents /\ Numbers
  BY DEF IInv
<1>1. /\ write_pos \in Nat /\ read_pos \in Nat /\ writer.seen \in Nat
      /\ reader.seen \in Nat /\ reader.len \in Nat /\ reader.i \in Nat
      /\ writer.len \in Nat
  BY <1>0, Counts
<1>2. n \in Nat
  BY RingAssumption DEF RingAssumption
<1> DEFINE Copied(seen) == IF n > Available(seen) THEN Available(seen) ELSE n
<1>3. PICK seen \in {reader.seen, write_pos} :
        reader' = [pc |-> "copy", seen |-> seen, first |-> 0,
                   len |-> Copied(seen), i |-> 0]
  BY DEF ReadLoad
<1>4. PICK len : len = Copied(seen)
  OBVIOUS
<1>5. /\ reader.pc = "idle"
      /\ UNCHANGED <<data, write_pos, read_pos, dropped, writer, captured, kept, played, cut>>
  BY DEF ReadLoad
<1>6. reader.len = 0 /\ reader.i = 0
  BY <1>0, <1>1, <1>5 DEF LocalsOk
<1>7. seen \in Nat /\ seen - read_pos \in Nat /\ seen <= write_pos
      /\ seen - read_pos <= Capacity
  BY <1>0, <1>1, <1>6, CapacityFacts DEF Positions
<1>8. Available(seen) = seen - read_pos
  BY <1>7, SmallMod, CapacityFacts DEF Available
<1>9. len \in Nat /\ read_pos + len <= seen
  BY <1>1, <1>2, <1>4, <1>7, <1>8
<1> HIDE DEF Copied
<1>10. /\ reader'.pc = "copy" /\ reader'.seen = seen /\ reader'.len = len
       /\ reader'.i = 0 /\ reader' \in Locals
  BY <1>3, <1>4, <1>7, <1>9 DEF Locals
<1>11. TypeOK'
  BY <1>0, <1>5, <1>10 DEF TypeOK, Cells
<1>12. LocalsOk'
  BY <1>0, <1>5, <1>9, <1>10 DEF LocalsOk
<1>13. Positions'
  BY <1>0, <1>5, <1>7, <1>9, <1>10 DEF Positions
<1>14. Lengths' /\ BytesAccounted'
  BY <1>0, <1>5, <1>6, <1>10 DEF Lengths, BytesAccounted
<1>15. Contents' /\ Numbers'
  BY <1>0, <1>5 DEF Contents, Numbers, Cell
<1> QED BY <1>11, <1>12, <1>13, <1>14, <1>15 DEF IInv

\* The byte the reader copies next is the oldest one kept and not yet played.
LEMMA NextByte ==
  ASSUME IInv, ReadByte
  PROVE  /\ Len(played) \in Nat /\ Len(played) + 1 <= write_pos
         /\ write_pos <= Len(kept)
         /\ played' = Append(played, kept[Len(played) + 1])
         /\ kept[Len(played) + 1] \in Nat
<1>0. TypeOK /\ LocalsOk /\ Positions /\ Lengths /\ Contents
  BY DEF IInv
<1>1. /\ write_pos \in Nat /\ read_pos \in Nat /\ writer.i \in Nat
      /\ reader.i \in Nat /\ reader.len \in Nat /\ reader.seen \in Nat
      /\ Len(played) \in Nat /\ Len(kept) \in Nat
  BY <1>0, Counts
<1>2. /\ reader.i < reader.len
      /\ played' = Append(played, data[Cell(read_pos + reader.i)])
  BY DEF ReadByte
<1>3. Len(played) = read_pos + reader.i /\ Len(kept) = write_pos + writer.i
  BY <1>0 DEF Lengths
<1>4. Len(played) + 1 <= write_pos /\ write_pos <= Len(kept)
  <2>1. read_pos + reader.len <= reader.seen /\ reader.seen <= write_pos
    BY <1>0 DEF Positions
  <2> QED BY ONLY <1>1, <1>2, <1>3, <2>1, SMTT(30)
<1>5. data[Cell((Len(played) + 1) - 1)] = kept[Len(played) + 1]
  BY <1>0, <1>1, <1>4 DEF Contents
<1>6. data[Cell(read_pos + reader.i)] = kept[Len(played) + 1]
  <2>1. (Len(played) + 1) - 1 = read_pos + reader.i
    BY <1>1, <1>3
  <2> QED BY <1>5, <2>1
<1>7. kept[Len(played) + 1] \in Nat
  <2>1. kept \in Seq(Nat) /\ Len(played) + 1 \in 1..Len(kept)
    BY <1>0, <1>1, <1>4 DEF TypeOK
  <2> QED BY ONLY <2>1, ByteOf
<1> QED BY <1>1, <1>2, <1>4, <1>6, <1>7

LEMMA ReadByteIInv ==
  ASSUME IInv, ReadByte
  PROVE  IInv'
<1>0. /\ TypeOK /\ LocalsOk /\ Positions /\ Lengths /\ BytesAccounted
      /\ Contents /\ Numbers
  BY DEF IInv
<1>1. /\ reader.i \in Nat /\ reader.len \in Nat /\ read_pos \in Nat
      /\ Len(kept) \in Nat
  BY <1>0, Counts
<1>2. /\ reader.i < reader.len
      /\ reader' = [reader EXCEPT !.i = @ + 1] /\ reader \in Locals
      /\ UNCHANGED <<data, write_pos, read_pos, dropped, writer, captured, kept, cut>>
  BY <1>0 DEF ReadByte, TypeOK
<1>3. /\ reader'.pc = reader.pc /\ reader'.seen = reader.seen
      /\ reader'.len = reader.len /\ reader'.i = reader.i + 1 /\ reader' \in Locals
  BY <1>2 DEF Locals
<1> DEFINE l == Len(played)
<1>4. /\ l \in Nat /\ l + 1 <= Len(kept)
      /\ played' = Append(played, kept[l + 1]) /\ kept[l + 1] \in Nat
      /\ played \in Seq(Nat)
  <2>1. write_pos \in Nat
    BY <1>0, Counts
  <2> QED BY <1>0, <1>1, <2>1, NextByte DEF TypeOK
<1>5. /\ played' \in Seq(Nat) /\ Len(played') = l + 1
      /\ \A n \in 1..l : played'[n] = played[n]
      /\ played'[l + 1] = kept[l + 1]
  BY <1>4
<1>6. TypeOK'
  BY <1>0, <1>2, <1>3, <1>5 DEF TypeOK, Cells
<1>7. LocalsOk'
  BY <1>0, <1>1, <1>2, <1>3 DEF LocalsOk
<1>8. Positions'
  BY <1>0, <1>2, <1>3 DEF Positions
<1>9. Lengths' /\ BytesAccounted'
  <2>1. l + 1 = read_pos + (reader.i + 1)
    BY <1>0, <1>1 DEF Lengths
  <2>2. Lengths'
    BY <1>0, <1>2, <1>3, <1>5, <2>1 DEF Lengths
  <2>3. BytesAccounted'
    BY <1>0, <1>2 DEF BytesAccounted
  <2> QED BY <2>2, <2>3
<1>10. Contents'
  <2>1. \A n \in 1..(l + 1) : played'[n] = kept[n]
    <3> SUFFICES ASSUME NEW n \in 1..(l + 1) PROVE played'[n] = kept[n]
      OBVIOUS
    <3>1. n \in 1..l \/ n = l + 1
      BY <1>4
    <3> QED BY <1>0, <1>5, <3>1 DEF Contents
  <2>2. \A n \in ((l + 1) + 1)..Len(kept) : data[Cell(n - 1)] = kept[n]
    <3>1. \A n \in ((l + 1) + 1)..Len(kept) : n \in (l + 1)..Len(kept)
      BY <1>1, <1>4
    <3> QED BY <1>0, <3>1 DEF Contents
  <2> QED BY <1>2, <1>5, <2>1, <2>2 DEF Contents, Cell
<1>11. Numbers'
  BY <1>0, <1>2 DEF Numbers
<1> QED BY <1>6, <1>7, <1>8, <1>9, <1>10, <1>11 DEF IInv

LEMMA ReadStoreIInv ==
  ASSUME IInv, ReadStore
  PROVE  IInv'
<1>0. /\ TypeOK /\ LocalsOk /\ Positions /\ Lengths /\ BytesAccounted
      /\ Contents /\ Numbers
  BY DEF IInv
<1>1. /\ write_pos \in Nat /\ read_pos \in Nat /\ writer.seen \in Nat
      /\ reader.len \in Nat /\ reader.i \in Nat /\ reader.seen \in Nat
  BY <1>0, Counts
<1>2. /\ reader.i = reader.len
      /\ read_pos' = read_pos + reader.len
      /\ reader' = [Idle EXCEPT !.seen = reader.seen]
      /\ UNCHANGED <<data, write_pos, dropped, writer, captured, kept, played>>
  BY DEF ReadStore
<1>3. /\ reader'.pc = "idle" /\ reader'.seen = reader.seen /\ reader'.len = 0
      /\ reader'.i = 0
  BY <1>2 DEF Idle
<1>4. TypeOK'
  <2>1. reader' \in Locals
    BY <1>1, <1>2 DEF Idle, Locals
  <2>2. cut' \in Nat
    <3>1. reader.len % Frame \in Nat
      BY <1>1, DivMod, RingAssumption DEF RingAssumption
    <3> QED BY <1>0, <3>1 DEF ReadStore, TypeOK
  <2> QED BY <1>0, <1>1, <1>2, <2>1, <2>2 DEF TypeOK, Cells
<1>5. LocalsOk' /\ Positions'
  <2>1. LocalsOk'
    BY <1>0, <1>2, <1>3 DEF LocalsOk
  <2>2. Positions'
    BY <1>0, <1>1, <1>2, <1>3 DEF Positions
  <2> QED BY <2>1, <2>2
<1>6. Lengths' /\ BytesAccounted'
  BY <1>0, <1>1, <1>2, <1>3 DEF Lengths, BytesAccounted
<1>7. Contents' /\ Numbers'
  BY <1>0, <1>2 DEF Contents, Numbers, Cell
<1> QED BY <1>4, <1>5, <1>6, <1>7 DEF IInv

LEMMA StutterIInv ==
  ASSUME IInv, UNCHANGED vars
  PROVE  IInv'
<1>1. TypeOK' /\ LocalsOk' /\ Positions'
  BY DEF vars, IInv, TypeOK, LocalsOk, Positions, Cells
<1>2. Lengths' /\ BytesAccounted' /\ Contents' /\ Numbers'
  BY DEF vars, IInv, Lengths, BytesAccounted, Contents, Numbers, Cell
<1> QED BY <1>1, <1>2 DEF IInv

\* IInv holds in every state.
THEOREM InvariantHolds == Spec => []IInv
<1>1. IInv /\ [Next]_vars => IInv'
  BY LoadIInv, WriteByteIInv, WriteStoreIInv, ReadLoadIInv, ReadByteIInv,
     ReadStoreIInv, StutterIInv DEF Next
<1> QED BY InitIInv, <1>1, PTL DEF Spec

----------------------------------------------------------------------------
(* What follows from it                                                    *)

\* Types.
THEOREM TypeCorrect == Spec => []TypeOK
<1>1. IInv => TypeOK
  BY DEF IInv
<1> QED BY <1>1, InvariantHolds, PTL

\* The two callbacks never copy to and from the same cell, whatever the ring's
\* size, the callbacks' sizes and interleaving, and how late a position is seen.
THEOREM NoCellShared == Spec => []CellsNotShared
<1>1. ASSUME IInv PROVE CellsNotShared
  <2> SUFFICES ASSUME writer.i < writer.len, reader.i < reader.len
               PROVE  Cell(write_pos + writer.i) # Cell(read_pos + reader.i)
    BY DEF CellsNotShared
  <2>1. /\ write_pos \in Nat /\ read_pos \in Nat /\ writer.i \in Nat
        /\ reader.len \in Nat /\ reader.i \in Nat /\ reader.seen \in Nat
    BY <1>1, Counts DEF IInv
  <2>2. read_pos + reader.i \in Nat /\ read_pos <= read_pos + reader.i
        /\ read_pos + reader.i < write_pos + writer.i
    BY <1>1, <2>1 DEF IInv, Positions
  <2> QED BY <1>1, <2>2, WriterAvoids
<1> QED BY <1>1, InvariantHolds, PTL

\* Captured bytes are kept, about to be, or counted as dropped.
THEOREM NoByteUnaccounted == Spec => []BytesAccounted
<1>1. IInv => BytesAccounted
  BY DEF IInv
<1> QED BY <1>1, InvariantHolds, PTL

----------------------------------------------------------------------------
(* Channels stay in place                                                  *)

\* What holds until a cycle takes part of a frame: whatever a thread has loaded,
\* counted or stored is a whole number of frames, except for what the cycle that
\* runs takes; and the copies in the ring are as far from their numbers as the
\* frames dropped before them.
FramesInv ==
  /\ Whole(captured) /\ Whole(write_pos) /\ Whole(read_pos)
  /\ Whole(writer.seen) /\ Whole(writer.len)
  /\ Whole(reader.seen)
  /\ writer.pc = "copy" => Whole(writer.first - 1)
  /\ \A n \in 1..Len(kept) : Whole(kept[n] - n)

LEMMA WholeZero == Whole(0)
<1>1. Frame \in Nat \ {0}
  BY RingAssumption DEF RingAssumption
<1>2. 0 % Frame = 0
  BY <1>1, SMT
<1> QED BY <1>2 DEF Whole

LEMMA WholeSizes ==
  Whole(Capacity) /\ \A n \in Chunks : Whole(n) /\ n \in Nat
BY RingAssumption DEF RingAssumption, Whole

\* An overrun shortens a buffer by whole frames.
LEMMA LoadFrames ==
  ASSUME IInv, FramesInv, NEW n \in Chunks, WriteLoad(n)
  PROVE  FramesInv'
<1>1. /\ write_pos \in Nat /\ read_pos \in Nat /\ writer.seen \in Nat
      /\ captured \in Nat /\ n \in Nat
  BY Counts, WholeSizes DEF IInv
<1>2. PICK seen \in {writer.seen, read_pos} :
        writer' = [pc |-> "copy", seen |-> seen, first |-> captured + 1,
                   len |-> IF n > FreeSpace(seen) THEN FreeSpace(seen) ELSE n, i |-> 0]
  BY DEF WriteLoad
<1>3. writer.len = 0
  BY DEF WriteLoad, IInv, LocalsOk
<1>4. seen \in Nat /\ write_pos - seen \in 0..Capacity
  <2>1. /\ writer.seen <= read_pos /\ write_pos + writer.len <= writer.seen + Capacity
        /\ read_pos <= write_pos
    <3>1. /\ reader.len \in Nat /\ reader.seen \in Nat
          /\ read_pos + reader.len <= reader.seen /\ reader.seen <= write_pos
          /\ writer.seen <= read_pos /\ write_pos + writer.len <= writer.seen + Capacity
      BY Counts DEF IInv, Positions
    <3> QED BY ONLY <1>1, <3>1, SMTT(30)
  <2>2. Capacity \in Nat
    BY CapacityFacts
  <2>3. seen = writer.seen \/ seen = read_pos
    BY <1>2
  <2> QED BY ONLY <1>1, <1>3, <2>1, <2>2, <2>3, SMTT(30)
<1>5. FreeSpace(seen) = Capacity - (write_pos - seen)
  <2>1. (write_pos - seen) % Wrap = write_pos - seen
    BY <1>4, CapacityFacts, SmallMod
  <2> QED BY <2>1 DEF FreeSpace
<1>6. Whole(seen) /\ Whole(n)
  BY <1>2, WholeSizes DEF FramesInv
<1>7. Whole(FreeSpace(seen))
  <2>1. Whole(write_pos - seen) /\ write_pos - seen \in Int
    BY <1>1, <1>4, <1>6, WholeSums DEF FramesInv
  <2> QED BY <1>5, <2>1, CapacityFacts, WholeSizes, WholeSums
<1>8. /\ writer'.seen = seen /\ Whole(writer'.len) /\ writer'.first = captured + 1
  BY <1>2, <1>6, <1>7
<1>9. Whole(captured') /\ Whole(captured)
  BY <1>1, <1>6, WholeSums DEF WriteLoad, FramesInv
<1>10. UNCHANGED <<write_pos, read_pos, reader, kept>>
  BY DEF WriteLoad
<1>11. Whole(writer'.first - 1)
  BY <1>1, <1>8, <1>9
<1> HIDE DEF Whole
<1> QED BY <1>6, <1>8, <1>9, <1>10, <1>11 DEF FramesInv

LEMMA WriteByteFrames ==
  ASSUME IInv, FramesInv, WriteByte
  PROVE  FramesInv'
<1>1. /\ write_pos \in Nat /\ writer.first \in Nat /\ writer.len \in Nat
      /\ writer.i \in Nat /\ Len(kept) \in Nat
  BY Counts DEF IInv
<1>2. /\ writer.i < writer.len /\ kept' = Append(kept, writer.first + writer.i)
      /\ writer' = [writer EXCEPT !.i = @ + 1]
      /\ UNCHANGED <<write_pos, read_pos, reader, captured>>
  BY DEF WriteByte
<1>3. writer.pc = "copy"
  <2>1. writer \in Locals /\ (writer.pc = "idle" => writer.len = 0)
    BY DEF IInv, TypeOK, LocalsOk
  <2> QED BY <1>1, <1>2, <2>1 DEF Locals
<1>4. /\ writer'.pc = writer.pc /\ writer'.seen = writer.seen /\ writer'.len = writer.len
      /\ writer'.first = writer.first
  <2>1. writer \in Locals
    BY DEF IInv, TypeOK
  <2> QED BY <1>2, <2>1 DEF Locals
<1>5. Len(kept) = write_pos + writer.i /\ kept \in Seq(Nat)
  BY DEF IInv, Lengths, TypeOK
<1>6. writer.first + writer.i \in Nat
  BY <1>1
<1>7. /\ Len(kept') = Len(kept) + 1
      /\ \A n \in 1..Len(kept) : kept'[n] = kept[n]
      /\ kept'[Len(kept) + 1] = writer.first + writer.i
  BY <1>2, <1>5, <1>6, AppendProperties
<1>8. Whole(kept'[Len(kept) + 1] - (Len(kept) + 1))
  <2>1. kept'[Len(kept) + 1] - (Len(kept) + 1) = (writer.first - 1) - write_pos
    <3> DEFINE l == Len(kept)
    <3>1. l = write_pos + writer.i /\ kept'[l + 1] = writer.first + writer.i
      BY <1>5, <1>7
    <3> HIDE DEF l
    <3>2. kept'[l + 1] - (l + 1) = (writer.first + writer.i) - (write_pos + writer.i + 1)
      BY <3>1
    <3>3. (writer.first + writer.i) - (write_pos + writer.i + 1) = (writer.first - 1) - write_pos
      BY ONLY <1>1, SMTT(30)
    <3> QED BY <3>2, <3>3 DEF l
  <2>2. writer.first - 1 \in Int /\ Whole(writer.first - 1) /\ Whole(write_pos)
    BY <1>1, <1>3 DEF FramesInv
  <2>3. write_pos \in Int
    BY <1>1
  <2>4. Whole((writer.first - 1) - write_pos)
    BY ONLY <2>2, <2>3, WholeSums
  <2> QED BY <2>1, <2>4
<1>9. ASSUME NEW n \in 1..Len(kept') PROVE Whole(kept'[n] - n)
  <2>1. n \in 1..Len(kept) \/ n = Len(kept) + 1
    BY <1>1, <1>7
  <2> QED BY <1>7, <1>8, <2>1 DEF FramesInv
<1> QED BY <1>2, <1>3, <1>4, <1>9 DEF FramesInv

LEMMA StoreFrames ==
  ASSUME IInv, FramesInv, WriteStore \/ ReadStore, ReadStore => Whole(reader.len)
  PROVE  FramesInv'
<1>1. /\ write_pos \in Nat /\ writer.len \in Nat
      /\ read_pos \in Nat /\ reader.len \in Nat
  BY Counts DEF IInv
<1>2. CASE WriteStore
  <2>1. /\ write_pos' = write_pos + writer.len
        /\ writer'.pc = "idle" /\ writer'.seen = writer.seen /\ writer'.len = 0
        /\ UNCHANGED <<read_pos, reader, captured, kept>>
    BY <1>2 DEF WriteStore, Idle
  <2>2. Whole(write_pos + writer.len)
    <3>1. write_pos \in Int /\ writer.len \in Int /\ Whole(write_pos) /\ Whole(writer.len)
      BY <1>1 DEF FramesInv
    <3> QED BY ONLY <3>1, WholeSums
  <2> QED BY <2>1, <2>2, WholeZero DEF FramesInv
<1>3. CASE ReadStore
  <2>1. /\ read_pos' = read_pos + reader.len
        /\ reader'.seen = reader.seen
        /\ UNCHANGED <<write_pos, writer, captured, kept>>
    BY <1>3 DEF ReadStore, Idle
  <2>2. Whole(read_pos + reader.len)
    <3>1. read_pos \in Int /\ reader.len \in Int /\ Whole(read_pos) /\ Whole(reader.len)
      BY <1>1, <1>3 DEF FramesInv
    <3> QED BY ONLY <3>1, WholeSums
  <2> QED BY <2>1, <2>2 DEF FramesInv
<1> QED BY <1>2, <1>3

LEMMA ReadLoadFrames ==
  ASSUME IInv, FramesInv, NEW n \in Cycles, ReadLoad(n)
  PROVE  FramesInv'
<1>1. PICK seen \in {reader.seen, write_pos} :
        reader' = [pc |-> "copy", seen |-> seen, first |-> 0,
                   len |-> IF n > Available(seen) THEN Available(seen) ELSE n, i |-> 0]
  BY DEF ReadLoad
<1>2. UNCHANGED <<write_pos, read_pos, writer, captured, kept>>
  BY DEF ReadLoad
<1>3. reader'.seen = seen /\ Whole(seen)
  BY <1>1 DEF FramesInv
<1> QED BY <1>2, <1>3 DEF FramesInv

\* A cycle starts at the first byte of a frame, so its i-th byte is the n-th
\* played with n - i whole.
LEMMA CycleInPlace ==
  ASSUME IInv, FramesInv, NEW i \in 1..reader.i
  PROVE  Whole(played[Len(played) - reader.i + i] - i)
<1>1. /\ write_pos \in Nat /\ read_pos \in Nat /\ writer.i \in Nat
      /\ reader.i \in Nat /\ reader.len \in Nat /\ reader.seen \in Nat
      /\ Len(kept) \in Nat /\ Len(played) \in Nat
  BY Counts DEF IInv
<1>2. Len(played) = read_pos + reader.i /\ Len(played) <= Len(kept)
  BY <1>1, SMTT(30) DEF IInv, LocalsOk, Lengths, Positions
<1>3. PICK n \in Nat : n = read_pos + i
  BY <1>1
<1>4. n \in 1..Len(played) /\ Len(played) - reader.i + i = n
  BY <1>1, <1>2, <1>3
<1>5. n \in 1..Len(kept) /\ played[n] = kept[n]
  BY <1>1, <1>2, <1>4 DEF IInv, Contents
<1>6. kept[n] - n \in Int /\ kept[n] \in Nat
  BY <1>5 DEF IInv, TypeOK
<1>7. Whole(kept[n] - n) /\ Whole(read_pos)
  BY <1>5 DEF FramesInv
<1>8. read_pos \in Int
  BY <1>1
<1>9. Whole((kept[n] - n) + read_pos)
  BY ONLY <1>6, <1>7, <1>8, WholeSums
<1>10. (kept[n] - n) + read_pos = kept[n] - i
  BY <1>1, <1>3, <1>6
<1> QED BY <1>4, <1>5, <1>9, <1>10

\* Whatever is dropped and whatever the ring lacks, a byte is played with the
\* channel and the place in its sample that it was captured with, until a cycle
\* takes part of a frame.
THEOREM ChannelsKeepPlace == Spec => []ChannelsStayInPlace
<1> DEFINE FramesOk == cut = 0 => FramesInv
<1>1. Init => FramesOk
  BY WholeZero DEF Init, Idle, FramesInv
<1>2. ASSUME IInv, FramesOk, [Next]_vars PROVE FramesOk'
  <2> SUFFICES ASSUME cut' = 0 PROVE FramesInv'
    OBVIOUS
  <2>1. cut = 0 /\ (ReadStore => Whole(reader.len))
    <3>1. cut \in Nat /\ reader.len \in Nat
      BY <1>2, Counts DEF IInv, TypeOK
    <3>2. CASE ReadStore
      <4>1. cut' = cut + (reader.len % Frame)
        BY <3>2 DEF ReadStore
      <4>2. reader.len % Frame \in Nat
        BY <3>1, CapacityFacts, DivMod, RingAssumption DEF RingAssumption
      <4>3. cut' = 0
        OBVIOUS
      <4>4. cut = 0 /\ reader.len % Frame = 0
        BY ONLY <3>1, <4>1, <4>2, <4>3, SMT
      <4> QED BY <4>4 DEF Whole
    <3>3. CASE ~ ReadStore
      <4>1. UNCHANGED cut
        BY <1>2, <3>3 DEF Next, WriteLoad, WriteByte, WriteStore, ReadLoad, ReadByte, vars
      <4> QED BY <3>3, <4>1
    <3> QED BY <3>2, <3>3
  <2>2. FramesInv
    BY <1>2, <2>1
  <2>3. CASE ReadByte
    <3>1. /\ UNCHANGED <<write_pos, read_pos, writer, captured, kept>>
          /\ reader' = [reader EXCEPT !.i = @ + 1] /\ reader \in Locals
      BY <2>3, <1>2 DEF ReadByte, IInv, TypeOK
    <3>2. reader'.seen = reader.seen
      BY <3>1 DEF Locals
    <3> QED BY <2>2, <3>1, <3>2 DEF FramesInv
  <2>4. CASE UNCHANGED vars
    BY <2>2, <2>4 DEF vars, FramesInv
  <2> QED
    BY <1>2, <2>1, <2>2, <2>3, <2>4, LoadFrames, WriteByteFrames, StoreFrames,
       ReadLoadFrames DEF Next
<1>3. ASSUME IInv, FramesOk PROVE ChannelsStayInPlace
  BY <1>3, CycleInPlace DEF ChannelsStayInPlace, Whole
<1> QED BY <1>1, <1>2, <1>3, InvariantHolds, PTL DEF Spec

----------------------------------------------------------------------------
(* The ring implements the bounded queue                                   *)

\* The queue, as the refinement maps it.
Queue == SubSeq(kept, Len(played) + 1, write_pos)

LastPut == IF write_pos = 0 THEN 0 ELSE kept[write_pos]

LastTaken == IF played = <<>> THEN 0 ELSE played[Len(played)]

LEMMA InitRefines == Init => Fifo!Init
<1> SUFFICES ASSUME Init PROVE Fifo!Init
  OBVIOUS
<1>1. SubSeq(kept, Len(played) + 1, write_pos) = <<>>
  <2>1. Len(played) + 1 = 1 /\ write_pos = 0
    BY DEF Init
  <2> QED BY <2>1, SubSeqEmpty
<1> QED BY <1>1 DEF Init, Fifo!Init

\* What the mapped variables depend on: they are the same before and after a
\* step that adds to `kept' at most, and leaves `played' and `write_pos' alone.
LEMMA SameQueue ==
  ASSUME IInv, UNCHANGED <<write_pos, played>>,
         \A n \in 1..Len(kept) : kept'[n] = kept[n],
         kept' \in Seq(Nat), Len(kept') >= Len(kept)
  PROVE  UNCHANGED <<Queue, LastPut, LastTaken>>
<1>1. /\ write_pos \in Nat /\ Len(kept) \in Nat /\ Len(played) \in Nat
      /\ writer.i \in Nat /\ Len(kept') \in Nat
  BY Counts, LenProperties DEF IInv
<1>2. write_pos <= Len(kept) /\ kept \in Seq(Nat)
  BY <1>1 DEF IInv, Lengths, TypeOK
<1> DEFINE a == Len(played) + 1
<1>3. \A i \in a..write_pos : i \in 1..Len(kept) /\ i \in 1..Len(kept')
  BY <1>1, <1>2, SMTT(30)
<1>4. /\ \A i \in a..write_pos : kept[i] \in Nat
      /\ \A i \in a..write_pos : kept'[i] \in Nat
  <2>1. kept' \in Seq(Nat)
    OBVIOUS
  <2> QED BY ONLY <1>2, <1>3, <2>1, ByteOf
<1>a. a \in Int /\ write_pos \in Int
  BY <1>1
<1> HIDE DEF a
<1>5. /\ SubSeq(kept, a, write_pos) \in Seq(Nat)
      /\ Len(SubSeq(kept, a, write_pos)) = IF a <= write_pos THEN write_pos - a + 1 ELSE 0
      /\ \A i \in 1..(write_pos - a + 1) : SubSeq(kept, a, write_pos)[i] = kept[a + i - 1]
  BY ONLY <1>a, <1>4, SubSeqOfNat
<1>6. /\ SubSeq(kept', a, write_pos) \in Seq(Nat)
      /\ Len(SubSeq(kept', a, write_pos)) = IF a <= write_pos THEN write_pos - a + 1 ELSE 0
      /\ \A i \in 1..(write_pos - a + 1) : SubSeq(kept', a, write_pos)[i] = kept'[a + i - 1]
  BY ONLY <1>a, <1>4, SubSeqOfNat
<1>7. SubSeq(kept', a, write_pos) = SubSeq(kept, a, write_pos)
  <2>1. ASSUME NEW i \in 1..Len(SubSeq(kept, a, write_pos))
        PROVE  SubSeq(kept', a, write_pos)[i] = SubSeq(kept, a, write_pos)[i]
    <3>1. i \in 1..(write_pos - a + 1) /\ a + i - 1 \in 1..Len(kept)
      BY <1>1, <1>2, <1>5, SMTT(30) DEF a
    <3>2. kept'[a + i - 1] = kept[a + i - 1]
      BY <3>1
    <3> QED BY ONLY <1>5, <1>6, <3>1, <3>2
  <2> QED BY ONLY <1>5, <1>6, <2>1, SameBytes
<1>8. write_pos # 0 => kept'[write_pos] = kept[write_pos]
  BY <1>1, <1>2
<1> QED BY <1>7, <1>8 DEF Queue, LastPut, LastTaken, a

LEMMA StoreRefines ==
  ASSUME IInv, WriteStore
  PROVE  Fifo!Next \/ UNCHANGED <<Queue, LastPut, LastTaken>>
<1>0. TypeOK /\ Lengths /\ Positions /\ Numbers
  BY DEF IInv
<1>1. /\ write_pos \in Nat /\ read_pos \in Nat /\ captured \in Nat
      /\ writer.first \in Nat /\ writer.len \in Nat /\ writer.i \in Nat
      /\ writer.seen \in Nat /\ reader.i \in Nat /\ reader.len \in Nat /\ reader.seen \in Nat
      /\ Len(kept) \in Nat /\ Len(played) \in Nat
  BY <1>0, Counts
<1>2. /\ writer.pc = "copy" /\ writer.i = writer.len
      /\ write_pos' = write_pos + writer.len
      /\ UNCHANGED <<kept, played>>
  BY DEF WriteStore
<1> DEFINE n == writer.len
<1> DEFINE a == Len(played) + 1
<1> DEFINE chunk == [k \in 1..n |-> writer.first + k - 1]
<1>3. CASE n = 0
  <2>1. write_pos' = write_pos
    BY <1>1, <1>2, <1>3
  <2> QED BY <1>2, <2>1 DEF Queue, LastPut, LastTaken
<1>4. CASE n # 0
  <2>1. /\ Len(kept) = write_pos + n /\ kept \in Seq(Nat)
        /\ Len(played) <= write_pos /\ read_pos <= Len(played)
    <3>1. /\ Len(kept) = write_pos + writer.i /\ Len(played) = read_pos + reader.i
          /\ reader.i <= reader.len
          /\ read_pos + reader.len <= reader.seen /\ reader.seen <= write_pos
      BY <1>0 DEF Lengths, Positions, IInv, LocalsOk
    <3>2. kept \in Seq(Nat)
      BY <1>0 DEF TypeOK
    <3> QED BY <1>1, <1>2, <3>1, <3>2
  <2>2. SubSeq(kept, write_pos + 1, write_pos + n) = chunk
    <3>1. \A i \in (write_pos + 1)..(write_pos + n) : kept[i] \in Nat
      <4>1. \A i \in (write_pos + 1)..(write_pos + n) : i \in 1..Len(kept)
        BY <1>1, <2>1
      <4> QED BY ONLY <4>1, <2>1, ByteOf
    <3>2. /\ SubSeq(kept, write_pos + 1, write_pos + n) \in Seq(Nat)
          /\ Len(SubSeq(kept, write_pos + 1, write_pos + n)) = n
          /\ \A k \in 1..n : SubSeq(kept, write_pos + 1, write_pos + n)[k] = kept[write_pos + k]
      <4> DEFINE m == write_pos + 1
      <4> DEFINE e == write_pos + n
      <4>1. /\ m \in Int /\ e \in Int /\ m <= e /\ e - m + 1 = n
            /\ \A k \in 1..n : m + k - 1 = write_pos + k
        BY <1>1, <1>4, SMTT(30)
      <4>2. \A i \in m..e : kept[i] \in Nat
        BY <3>1
      <4> HIDE DEF m, e
      <4>3. /\ SubSeq(kept, m, e) \in Seq(Nat)
            /\ Len(SubSeq(kept, m, e)) = IF m <= e THEN e - m + 1 ELSE 0
            /\ \A k \in 1..(e - m + 1) : SubSeq(kept, m, e)[k] = kept[m + k - 1]
        BY ONLY <4>1, <4>2, SubSeqOfNat
      <4> QED BY <4>1, <4>3 DEF m, e
    <3>3. chunk \in Seq(Nat) /\ Len(chunk) = n
      <4>1. \A k \in 1..n : writer.first + k - 1 \in Nat
        BY <1>1
      <4>2. n \in Nat
        BY <1>1
      <4> QED BY ONLY <4>1, <4>2
    <3>4. \A k \in 1..n : kept[write_pos + k] = chunk[k]
      BY <1>0, <1>2 DEF Numbers
    <3> HIDE DEF chunk
    <3> QED BY <3>2, <3>3, <3>4, SameBytes
  <2>3. SubSeq(kept, a, write_pos + n) = SubSeq(kept, a, write_pos) \o chunk
    <3>1. a \in 1..(Len(kept) + 1) /\ write_pos \in (a - 1)..Len(kept)
          /\ write_pos + n \in write_pos..Len(kept)
      BY <1>1, <2>1, SMTT(30)
    <3> HIDE DEF chunk, a
    <3> QED BY ONLY <2>1, <2>2, <3>1, JoinBytes
  <2>4. Queue' = Queue \o chunk
    BY <1>2, <2>3 DEF Queue
  <2>5. LastPut' = writer.first + n - 1
    <3>1. kept[write_pos + n] = writer.first + n - 1
      <4>1. n \in 1..writer.i
        BY <1>1, <1>2, <1>4
      <4> QED BY <1>0, <4>1 DEF Numbers
    <3>2. write_pos + n # 0
      BY <1>1, <1>4
    <3> QED BY <1>2, <3>1, <3>2 DEF LastPut
  <2>6. writer.first > LastPut
    <3>1. CASE write_pos = 0
      BY <1>0, <1>1, <1>2, <3>1 DEF LastPut, Numbers
    <3>2. CASE write_pos # 0
      <4>1. kept[write_pos] <= writer.first - 1
        BY <1>0, <1>1, <1>2, <3>2 DEF Numbers
      <4>2. kept[write_pos] \in Nat
        <5>1. write_pos \in 1..Len(kept)
          BY <1>1, <2>1, <3>2
        <5> QED BY ONLY <5>1, <2>1, ByteOf
      <4> QED BY <1>1, <3>2, <4>1, <4>2 DEF LastPut
    <3> QED BY <3>1, <3>2
  <2>7. Len(Queue) + n <= Capacity /\ n \in 1..Capacity
    <3>1. \A i \in a..write_pos : kept[i] \in Nat
      <4>1. \A i \in a..write_pos : i \in 1..Len(kept)
        BY <1>1, <2>1
      <4> QED BY ONLY <4>1, <2>1, ByteOf
    <3>2. Len(Queue) = IF a <= write_pos THEN write_pos - a + 1 ELSE 0
      <4>1. a \in Int /\ write_pos \in Int
        BY <1>1
      <4> HIDE DEF a
      <4>2. Len(SubSeq(kept, a, write_pos)) = IF a <= write_pos THEN write_pos - a + 1 ELSE 0
        BY ONLY <3>1, <4>1, SubSeqOfNat
      <4> QED BY <4>2 DEF Queue, a
    <3>3. writer.seen <= read_pos /\ write_pos + n <= writer.seen + Capacity
      BY <1>0 DEF Positions
    <3>4. Len(Queue) = write_pos - Len(played)
      BY <1>1, <2>1, <3>2
    <3>5. n \in Nat /\ write_pos - Len(played) + n <= Capacity /\ n <= Capacity
      BY <1>1, <2>1, <3>3, CapacityFacts, SMTT(30)
    <3> QED BY <1>4, <3>4, <3>5, CapacityFacts
  <2>8. LastTaken' = LastTaken
    BY <1>2 DEF LastTaken
  <2>9. writer.first = LastPut' - n + 1
    BY <1>1, <2>5, SMTT(30)
  <2>10. Fifo!Put(LastPut' - n + 1, n)
    <3>1. writer.first + n - 1 = LastPut'
      BY <2>5
    <3> HIDE DEF n
    <3> QED BY <2>4, <2>6, <2>7, <2>8, <2>9, <3>1 DEF Fifo!Put, Queue, LastPut, LastTaken
  <2> QED BY <2>7, <2>10 DEF Fifo!Next, LastPut
<1> QED BY <1>3, <1>4

LEMMA ReadRefines ==
  ASSUME IInv, ReadByte
  PROVE  Fifo!Next
<1> DEFINE l == Len(played)
<1>1. /\ l \in Nat /\ l + 1 <= write_pos /\ write_pos <= Len(kept)
      /\ played' = Append(played, kept[l + 1]) /\ kept[l + 1] \in Nat
  BY NextByte
<1>2. /\ UNCHANGED <<write_pos, kept>>
      /\ kept \in Seq(Nat) /\ played \in Seq(Nat) /\ write_pos \in Nat /\ Len(kept) \in Nat
  BY Counts DEF IInv, TypeOK, ReadByte
<1>3. /\ played' # <<>> /\ Len(played') = l + 1 /\ played'[l + 1] = kept[l + 1]
  BY <1>1, <1>2
<1>4. /\ Head(Queue) = kept[l + 1]
      /\ Tail(Queue) = SubSeq(kept, (l + 1) + 1, write_pos)
  <2>1. l + 1 \in 1..Len(kept) /\ write_pos \in (l + 1)..Len(kept)
    BY <1>1, <1>2
  <2> QED BY <1>2, <2>1, HeadTailOfSubSeq DEF Queue
<1>5. Queue # <<>>
  <2>1. \A i \in (l + 1)..write_pos : kept[i] \in Nat
    <3>1. \A i \in (l + 1)..write_pos : i \in 1..Len(kept)
      BY <1>1, <1>2
    <3> QED BY ONLY <3>1, <1>2, ByteOf
  <2>2. Len(Queue) = write_pos - (l + 1) + 1
    <3>1. l + 1 \in Int /\ write_pos \in Int /\ l + 1 <= write_pos
      BY <1>1, <1>2
    <3>2. Len(SubSeq(kept, l + 1, write_pos)) = write_pos - (l + 1) + 1
      BY ONLY <2>1, <3>1, SubSeqOfNat
    <3> QED BY <3>2 DEF Queue
  <2> QED BY <1>1, <1>2, <2>2
<1>6. /\ Queue' = Tail(Queue) /\ LastTaken' = Head(Queue) /\ LastPut' = LastPut
  BY <1>2, <1>3, <1>4 DEF Queue, LastTaken, LastPut
<1> QED BY <1>5, <1>6 DEF Fifo!Next, Fifo!Take, Queue, LastTaken, LastPut

\* The ring's steps are the queue's, or change nothing it can see.
THEOREM RingRefinesFifo == Spec => RingIsAFifo
<1>1. ASSUME IInv, [Next]_vars
      PROVE  [Fifo!Next]_(Fifo!vars)
  <2>1. CASE WriteByte
    <3>1. kept \in Seq(Nat) /\ writer.first + writer.i \in Nat
          /\ kept' = Append(kept, writer.first + writer.i)
          /\ UNCHANGED <<write_pos, played>>
      <4>1. writer.first \in Nat /\ writer.i \in Nat /\ kept \in Seq(Nat)
        BY <1>1, Counts DEF IInv, TypeOK
      <4> QED BY <2>1, <4>1 DEF WriteByte
    <3>2. /\ kept' \in Seq(Nat) /\ Len(kept') >= Len(kept)
          /\ \A n \in 1..Len(kept) : kept'[n] = kept[n]
      BY <3>1
    <3>3. UNCHANGED <<Queue, LastPut, LastTaken>>
      BY <1>1, <3>1, <3>2, SameQueue
    <3> QED BY <3>3 DEF Fifo!vars, Queue, LastPut, LastTaken
  <2>2. CASE WriteStore
    BY <1>1, <2>2, StoreRefines DEF Fifo!vars, Queue, LastPut, LastTaken
  <2>3. CASE ReadByte
    BY <1>1, <2>3, ReadRefines
  <2>4. CASE UNCHANGED <<kept, played, write_pos>>
    BY <2>4 DEF Fifo!vars
  <2> QED
    BY <1>1, <2>1, <2>2, <2>3, <2>4 DEF Next, WriteLoad, ReadLoad, ReadStore, vars
<1> QED BY <1>1, InitRefines, InvariantHolds, PTL DEF Spec, RingIsAFifo, Fifo!Spec
============================================================================
