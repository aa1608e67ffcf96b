--------------------------- MODULE CoreSync_proofs ---------------------------
(***************************************************************************)
(* Proofs about round-trips to the server and video format enumeration,    *)
(* for all nodes, whatever they offer, any room for it and any number of   *)
(* round-trips.                                                            *)
(*                                                                         *)
(* First the pure part: what pwf_video_parse_framerates() returns, for     *)
(* every list of rates, by induction over the list.  Then the invariant of *)
(* the protocol: what is still on its way, in the order it will arrive,    *)
(* makes up for what the client does not have yet.                         *)
(***************************************************************************)
EXTENDS CoreSync, SequenceTheorems, FiniteSetTheorems, WellFoundedInduction, TLAPS

----------------------------------------------------------------------------
(* Induction over the natural numbers, for a set of them                   *)

LEMMA NatMin ==
  ASSUME NEW T \in SUBSET Nat, T # {}
  PROVE  \E x \in T : \A y \in T : x <= y
<1> DEFINE R == OpToRel(<, Nat)
<1>1. IsWellFoundedOn(R, Nat)
  BY NatLessThanWellFounded
<1> HIDE DEF R
<1>2. PICK x \in T : \A y \in T : ~ (<<y, x>> \in R)
  BY <1>1, WFMin
<1>3. \A y \in T : ~ (y < x)
  BY <1>2 DEF R, OpToRel
<1> QED BY <1>3

LEMMA SetInduction ==
  ASSUME NEW S, 0 \in S, \A n \in Nat : n \in S => n + 1 \in S
  PROVE  \A n \in Nat : n \in S
<1> SUFFICES ASSUME Nat \ S # {} PROVE FALSE
  OBVIOUS
<1>1. PICK x \in Nat \ S : \A y \in Nat \ S : x <= y
  BY NatMin
<1>2. x # 0 /\ x - 1 \in Nat
  BY <1>1
<1>3. x - 1 \in S
  BY <1>1, <1>2
<1>4. x = (x - 1) + 1
  BY <1>1
<1> QED BY <1>1, <1>2, <1>3, <1>4

LEMMA MaxIs ==
  ASSUME NEW n \in Nat, NEW t \in SUBSET (1..n), NEW m \in t, \A x \in t : x <= m
  PROVE  Max(t) = m
<1>1. \A k \in t : (\A y \in t : k >= y) => k = m
  OBVIOUS
<1> QED BY <1>1 DEF Max

LEMMA MaxOf ==
  ASSUME NEW n \in Nat, NEW t \in SUBSET (1..n), t # {}
  PROVE  Max(t) \in t /\ \A x \in t : x <= Max(t)
<1> DEFINE T == {n - x : x \in t}
<1>1. T \in SUBSET Nat /\ T # {}
  <2>1. PICK x \in t : TRUE
    OBVIOUS
  <2>2. n - x \in T
    BY <2>1
  <2> QED BY <2>2
<1>2. PICK k \in T : \A y \in T : k <= y
  BY <1>1, NatMin
<1>3. PICK m \in t : k = n - m
  BY <1>2
<1>4. \A x \in t : n - x \in T
  OBVIOUS
<1> HIDE DEF T
<1>5. \A x \in t : x <= m
  BY <1>2, <1>3, <1>4
<1> QED BY <1>3, <1>5, MaxIs

IsFold(h, s, m) ==
  h = [t \in SUBSET (1..m) |->
         IF t = {} THEN <<>> ELSE AddRate(h[t \ {Max(t)}], s[Max(t)])]

LEMMA FoldExists ==
  ASSUME NEW s
  PROVE  \A m \in Nat : \E h : IsFold(h, s, m)
<1> DEFINE S == {m \in Nat : \E h : IsFold(h, s, m)}
<1>1. 0 \in S
  <2> DEFINE h == [t \in SUBSET (1..0) |-> <<>>]
  <2>1. IsFold(h, s, 0)
    <3>1. SUBSET (1..0) = {{}}
      OBVIOUS
    <3> QED BY <3>1 DEF IsFold
  <2> QED BY <2>1
<1>2. ASSUME NEW m \in Nat, m \in S PROVE m + 1 \in S
  <2>1. PICK h : IsFold(h, s, m)
    BY <1>2
  <2> DEFINE g == [t \in SUBSET (1..(m + 1)) |->
                     IF m + 1 \in t THEN AddRate(h[t \ {m + 1}], s[m + 1]) ELSE h[t]]
  <2> DEFINE e(t) == IF t = {} THEN <<>> ELSE AddRate(g[t \ {Max(t)}], s[Max(t)])
  <2>2. ASSUME NEW t \in SUBSET (1..(m + 1)) PROVE g[t] = e(t)
    <3>1. CASE m + 1 \in t
      <4>1. Max(t) = m + 1
        BY <3>1, MaxIs
      <4>2. t \ {m + 1} \in SUBSET (1..(m + 1)) /\ m + 1 \notin t \ {m + 1}
        OBVIOUS
      <4>3. g[t \ {m + 1}] = h[t \ {m + 1}]
        BY <4>2
      <4>4. g[t] = AddRate(h[t \ {m + 1}], s[m + 1])
        BY <3>1
      <4> HIDE DEF g
      <4> QED BY <3>1, <4>1, <4>3, <4>4
    <3>2. CASE m + 1 \notin t
      <4>1. t \in SUBSET (1..m)
        BY <3>2
      <4>2. g[t] = h[t]
        BY <3>2
      <4>3. h[t] = IF t = {} THEN <<>> ELSE AddRate(h[t \ {Max(t)}], s[Max(t)])
        BY <2>1, <4>1 DEF IsFold
      <4>4. m + 1 \notin t \ {Max(t)} /\ t \ {Max(t)} \in SUBSET (1..(m + 1))
        BY <3>2
      <4>5. g[t \ {Max(t)}] = h[t \ {Max(t)}]
        BY <4>4
      <4> HIDE DEF g
      <4> QED BY <4>2, <4>3, <4>5
    <3> QED BY <3>1, <3>2
  <2>3. g = [t \in SUBSET (1..(m + 1)) |-> e(t)]
    <3> HIDE DEF e
    <3> QED BY <2>2
  <2>4. IsFold(g, s, m + 1)
    <3> HIDE DEF g
    <3> QED BY <2>3 DEF IsFold
  <2> QED BY <2>4
<1> HIDE DEF S
<1>3. \A m \in Nat : m \in S
  BY <1>1, <1>2, SetInduction
<1> QED BY <1>3 DEF S

LEMMA FoldIs ==
  ASSUME NEW X, NEW s \in Seq(X)
  PROVE  \E h : IsFold(h, s, Len(s)) /\ FoldLeft(AddRate, <<>>, s) = h[1..Len(s)]
<1>1. DOMAIN s = 1..Len(s) /\ Len(s) \in Nat
  OBVIOUS
<1> DEFINE h == CHOOSE h : h = [t \in SUBSET (DOMAIN s) |->
         IF t = {} THEN <<>> ELSE AddRate(h[t \ {Max(t)}], s[Max(t)])]
<1>2. FoldLeft(AddRate, <<>>, s) = h[DOMAIN s]
  BY DEF FoldLeft, MapThenFoldSet
<1>3. PICK g : IsFold(g, s, Len(s))
  BY <1>1, FoldExists
<1>4. IsFold(h, s, Len(s))
  BY <1>1, <1>3 DEF IsFold
<1> QED BY <1>1, <1>2, <1>4

LEMMA JoinThree ==
  ASSUME NEW a \in Seq(Nat), NEW b \in Seq(Nat), NEW c \in Seq(Nat)
  PROVE  (a \o b) \o c = a \o (b \o c)
BY ONLY a \in Seq(Nat), b \in Seq(Nat), c \in Seq(Nat), ConcatAssociative, SMTT(30)

LEMMA InsertAtIs ==
  ASSUME NEW s \in Seq(Nat), NEW i \in 1..(Len(s) + 1), NEW e \in Nat
  PROVE  /\ InsertAt(s, i, e) \in Seq(Nat)
         /\ Len(InsertAt(s, i, e)) = Len(s) + 1
         /\ \A k \in 1..(Len(s) + 1) :
              InsertAt(s, i, e)[k] = IF k < i THEN s[k] ELSE IF k = i THEN e ELSE s[k - 1]
<1> DEFINE a == SubSeq(s, 1, i - 1)  b == SubSeq(s, i, Len(s))
           n == Len(s)
<1>0. n \in Nat /\ i \in 1..(n + 1) /\ Len(s) = n
  BY LenProperties
<1>1. /\ a \in Seq(Nat) /\ Len(a) = i - 1
      /\ \A k \in 1..(i - 1) : a[k] = s[k]
  BY SubSeqProperties
<1>2. /\ b \in Seq(Nat) /\ Len(b) = n + 1 - i
      /\ \A k \in 1..(n + 1 - i) : b[k] = s[i + k - 1]
  BY SubSeqProperties
<1>3. InsertAt(s, i, e) = a \o (<<e>> \o b)
  <2>1. InsertAt(s, i, e) = (a \o <<e>>) \o b
    BY DEF InsertAt
  <2> DEFINE u == <<e>>
  <2>2. u \in Seq(Nat)
    OBVIOUS
  <2> HIDE DEF a, b, u
  <2>3. (a \o u) \o b = a \o (u \o b)
    BY ONLY <1>1, <1>2, <2>2, JoinThree, ZenonT(40)
  <2> QED BY <2>1, <2>3, Zenon DEF u
<1> HIDE DEF a, b, n
<1>4. /\ <<e>> \o b \in Seq(Nat) /\ Len(<<e>> \o b) = n + 2 - i
      /\ (<<e>> \o b)[1] = e
      /\ \A k \in 2..(n + 2 - i) : (<<e>> \o b)[k] = b[k - 1]
  <2>1. <<e>> \in Seq(Nat) /\ Len(<<e>>) = 1 /\ <<e>>[1] = e
    OBVIOUS
  <2> DEFINE u == <<e>>
  <2> HIDE DEF u
  <2>2. /\ u \o b \in Seq(Nat) /\ Len(u \o b) = Len(u) + Len(b)
        /\ \A k \in 1..(Len(u) + Len(b)) :
             (u \o b)[k] = IF k <= Len(u) THEN u[k] ELSE b[k - Len(u)]
    BY ONLY <2>1, <1>2, ConcatProperties DEF u
  <2>3. Len(u) = 1 /\ u[1] = e
    BY <2>1 DEF u
  <2>4. /\ u \o b \in Seq(Nat) /\ Len(u \o b) = n + 2 - i
        /\ (u \o b)[1] = e
        /\ \A k \in 2..(n + 2 - i) : (u \o b)[k] = b[k - 1]
    <3>1. Len(u) + Len(b) = n + 2 - i /\ 1 \in 1..(Len(u) + Len(b)) /\ 1 <= Len(u)
      BY ONLY <2>3, <1>0, <1>2
    <3>2. ASSUME NEW k \in 2..(n + 2 - i) PROVE (u \o b)[k] = b[k - 1]
      <4>1. k \in 1..(Len(u) + Len(b)) /\ ~ (k <= Len(u)) /\ k - Len(u) = k - 1
        BY ONLY <2>3, <3>1, k \in 2..(n + 2 - i), <1>0
      <4> QED BY ONLY <4>1, <2>2
    <3> QED BY ONLY <2>2, <2>3, <3>1, <3>2
  <2> QED BY <2>4 DEF u
<1> DEFINE c == <<e>> \o b
<1> HIDE DEF c
<1>5. /\ a \o c \in Seq(Nat) /\ Len(a \o c) = Len(a) + Len(c)
      /\ \A k \in 1..(Len(a) + Len(c)) :
           (a \o c)[k] = IF k <= Len(a) THEN a[k] ELSE c[k - Len(a)]
  BY ONLY <1>1, <1>4, ConcatProperties DEF c
<1>6. /\ Len(c) = n + 2 - i /\ c[1] = e
      /\ \A k \in 2..(n + 2 - i) : c[k] = b[k - 1]
  BY <1>4 DEF c
<1>7. ASSUME NEW k \in 1..(n + 1)
      PROVE  (a \o c)[k] = IF k < i THEN s[k] ELSE IF k = i THEN e ELSE s[k - 1]
  <2>1. CASE k < i
    BY ONLY k \in 1..(n + 1), <2>1, <1>0, <1>1, <1>5, <1>6
  <2>2. CASE k = i
    <3>1. (a \o c)[k] = c[k - Len(a)] /\ k - Len(a) = 1
      BY ONLY k \in 1..(n + 1), <2>2, <1>0, <1>1, <1>5, <1>6, SMTT(30)
    <3> QED BY <3>1, <1>6, <2>2
  <2>3. CASE k > i
    <3> DEFINE j == k - i
    <3>1. /\ k - Len(a) = j + 1 /\ j + 1 \in 2..(n + 2 - i) /\ j \in 1..(n + 1 - i)
          /\ (j + 1) - 1 = j /\ i + j - 1 = k - 1 /\ ~ (k <= Len(a))
          /\ k \in 1..(Len(a) + Len(c))
      BY ONLY k \in 1..(n + 1), <2>3, <1>0, <1>1, <1>6
    <3> HIDE DEF j
    <3>2. (a \o c)[k] = c[j + 1]
      BY ONLY <3>1, <1>5
    <3>3. c[j + 1] = b[j]
      BY ONLY <3>1, <1>6
    <3>4. b[j] = s[k - 1]
      BY ONLY <3>1, <1>2
    <3> QED BY ONLY <2>3, <3>2, <3>3, <3>4, k \in 1..(n + 1), <1>0
  <2>4. k < i \/ k = i \/ k > i
    BY ONLY <1>0, k \in 1..(n + 1)
  <2> QED BY ONLY <2>1, <2>2, <2>3, <2>4, Zenon
<1>8. InsertAt(s, i, e) = a \o c
  BY <1>3 DEF c
<1>9. Len(a) + Len(c) = n + 1
  BY ONLY <1>0, <1>1, <1>6
<1> QED BY ONLY <1>0, <1>5, <1>7, <1>8, <1>9

\* What pwf_video_insert_framerate() does to the first n entries f of the list,
\* when it puts the rate at pos: the first len entries are then g.
Inserts(n, f, rate, pos, len, g) ==
  /\ n \in Nat /\ rate \in Nat /\ pos \in 1..(n + 1) /\ len \in Nat
  /\ \A i \in 1..n : f[i] \in Nat
  /\ \A i, j \in 1..n : i < j => f[i] > f[j]
  /\ \A j \in 1..(pos - 1) : f[j] > rate
  /\ pos > n \/ f[pos] < rate
  /\ len = n + 1 \/ (len = n /\ pos <= n)
  /\ \A k \in 1..len : g[k] = IF k < pos THEN f[k] ELSE IF k = pos THEN rate ELSE f[k - 1]

LEMMA Inserted ==
  ASSUME NEW n, NEW f, NEW rate, NEW pos, NEW len, NEW g, Inserts(n, f, rate, pos, len, g)
  PROVE  /\ \A k \in 1..len : g[k] \in Nat /\ (g[k] = rate \/ \E i \in 1..n : g[k] = f[i])
         /\ g[pos] = rate /\ pos \in 1..len
         /\ \A i, j \in 1..len : i < j => g[i] > g[j]
         /\ \A i \in 1..n : (\E k \in 1..len : g[k] = f[i])
                            \/ (len = n /\ \A k \in 1..len : f[i] < g[k])
<1> USE DEF Inserts
<1>1. pos \in 1..len /\ g[pos] = rate
  OBVIOUS
<1>2. \A j \in pos..n : f[j] < rate
  OBVIOUS
<1>3. ASSUME NEW k \in 1..len
      PROVE  g[k] \in Nat /\ (g[k] = rate \/ \E i \in 1..n : g[k] = f[i])
  <2>1. CASE k < pos
    BY <2>1
  <2>2. CASE k > pos
    <3>1. k - 1 \in 1..n /\ g[k] = f[k - 1]
      BY <2>2
    <3> QED BY <3>1
  <2> QED BY <2>1, <2>2, <1>1
<1>4. ASSUME NEW i \in 1..len, NEW j \in 1..len, i < j PROVE g[i] > g[j]
  <2>1. CASE j < pos
    BY <1>4, <2>1
  <2>2. CASE j = pos
    BY <1>4, <2>2
  <2>3. CASE j > pos
    <3>1. j - 1 \in pos..n /\ g[j] = f[j - 1] /\ f[j - 1] < rate
      BY <1>2, <2>3
    <3>2. CASE i < pos
      <4>1. g[i] = f[i] /\ f[i] > rate /\ f[i] \in Nat /\ f[j - 1] \in Nat
        BY <3>1, <3>2
      <4> QED BY <3>1, <4>1
    <3>3. CASE i = pos
      BY <3>1, <3>3, <1>1
    <3>4. CASE i > pos
      <4>1. i - 1 \in 1..n /\ g[i] = f[i - 1] /\ i - 1 < j - 1
        BY <3>4, <1>4
      <4> QED BY <3>1, <4>1
    <3> QED BY <3>2, <3>3, <3>4
  <2> QED BY <2>1, <2>2, <2>3
<1>5. ASSUME NEW i \in 1..n
      PROVE  (\E k \in 1..len : g[k] = f[i]) \/ (len = n /\ \A k \in 1..len : f[i] < g[k])
  <2>1. CASE i < pos
    BY <2>1, <1>1
  <2>2. CASE i >= pos /\ i + 1 <= len
    <3>1. i + 1 \in 1..len /\ g[i + 1] = f[(i + 1) - 1] /\ (i + 1) - 1 = i
      BY <2>2
    <3> QED BY <3>1
  <2>3. CASE i >= pos /\ i + 1 > len
    <3>1. len = n /\ i = n /\ f[n] < rate
      BY <2>3, <1>2
    <3>2. ASSUME NEW k \in 1..len PROVE f[i] < g[k]
      <4>1. CASE k < pos
        <5>1. g[k] = f[k] /\ f[k] > rate /\ f[k] \in Nat /\ f[n] \in Nat
          BY <3>1, <4>1
        <5> QED BY <3>1, <5>1
      <4>2. CASE k = pos
        BY <3>1, <4>2
      <4>3. CASE k > pos
        <5>1. k - 1 \in 1..n /\ g[k] = f[k - 1] /\ k - 1 < n
          BY <3>1, <4>3
        <5> QED BY <3>1, <5>1
      <4> QED BY <4>1, <4>2, <4>3
    <3> QED BY <3>1, <3>2
  <2> QED BY <2>1, <2>2, <2>3
<1> QED BY <1>1, <1>3, <1>4, <1>5

\* FastestOf, entry by entry.
LEMMA FastestOfIs ==
  ASSUME NEW fps \in Seq(Nat), NEW rates
  PROVE  FastestOf(fps, rates) <=>
           /\ Len(fps) <= MaxRates
           /\ \A i \in 1..Len(fps) : fps[i] \in rates
           /\ \A i, j \in 1..Len(fps) : i < j => fps[i] > fps[j]
           /\ \A r \in rates :
                \/ \E i \in 1..Len(fps) : fps[i] = r
                \/ Len(fps) = MaxRates /\ \A i \in 1..Len(fps) : r < fps[i]
<1>1. DOMAIN fps = 1..Len(fps)
  BY LenProperties
<1>2. \A r : r \in ToSet(fps) <=> \E i \in 1..Len(fps) : fps[i] = r
  BY <1>1, Zenon DEF ToSet
<1> DEFINE n == Len(fps)
<1>3. DOMAIN fps = 1..n /\ Len(fps) = n
  BY <1>1
<1> HIDE DEF n
<1>4. \A r : r \in ToSet(fps) <=> \E i \in 1..n : fps[i] = r
  BY <1>2, <1>3
<1>5. FastestOf(fps, rates) <=>
           /\ n <= MaxRates
           /\ ToSet(fps) \subseteq rates
           /\ \A i, j \in 1..n : i < j => fps[i] > fps[j]
           /\ \A r \in rates \ ToSet(fps) :
                 n = MaxRates /\ \A i \in 1..n : r < fps[i]
  BY <1>3, Zenon DEF FastestOf
<1>6. ToSet(fps) \subseteq rates <=> \A i \in 1..n : fps[i] \in rates
  BY <1>4, Zenon
<1>7. (\A r \in rates \ ToSet(fps) : n = MaxRates /\ \A i \in 1..n : r < fps[i])
      <=> \A r \in rates :
                \/ \E i \in 1..n : fps[i] = r
                \/ n = MaxRates /\ \A i \in 1..n : r < fps[i]
  BY <1>4, Zenon
<1> QED BY ONLY <1>3, <1>5, <1>6, <1>7, Zenon

\* Inserting a rate into the fastest of some leaves the fastest of those and it.
LEMMA InsertFramerateIs ==
  ASSUME NEW fps \in Seq(Nat), NEW rate \in Nat, NEW rates \in SUBSET Nat, FastestOf(fps, rates)
  PROVE  /\ InsertFramerate(fps, rate) \in Seq(Nat)
         /\ FastestOf(InsertFramerate(fps, rate), rates \cup {rate})
<1> DEFINE n == Len(fps)
           First(i) == /\ i > Len(fps) \/ fps[i] <= rate
                       /\ \A j \in 1..i - 1 : fps[j] > rate
           pos == CHOOSE i \in 1..Len(fps) + 1 : First(i)
<1>0. /\ n \in Nat /\ Len(fps) = n /\ DOMAIN fps = 1..n
      /\ \A i \in 1..n : fps[i] \in Nat
      /\ MaxRates \in Nat \ {0}
  BY RatesAssumption, LenProperties
<1>1. pos \in 1..(n + 1) /\ (pos > n \/ fps[pos] <= rate) /\ \A j \in 1..(pos - 1) : fps[j] > rate
  <2> DEFINE T == {i \in 1..(n + 1) : i > n \/ fps[i] <= rate}
  <2>1. T \in SUBSET Nat /\ T # {}
    <3>1. n + 1 \in T
      BY <1>0
    <3> QED BY <1>0, <3>1
  <2>2. PICK x \in T : \A y \in T : x <= y
    <3> HIDE DEF T
    <3> QED BY <2>1, NatMin
  <2>3. ASSUME NEW j \in 1..(x - 1) PROVE fps[j] > rate
    <3>1. j \notin T
      BY <1>0, <2>2
    <3> QED BY <3>1, <1>0, <2>2
  <2>4. x \in 1..Len(fps) + 1 /\ First(x)
    BY <2>2, <2>3
  <2>5. pos \in 1..Len(fps) + 1 /\ First(pos)
    <3> HIDE DEF First
    <3> QED BY <2>4
  <2> QED BY <2>5
<1> DEFINE full == InsertAt(fps, pos, rate)
           len == IF Len(fps) < MaxRates THEN Len(fps) + 1 ELSE MaxRates
           new == SubSeq(full, 1, len)
<1>2. InsertFramerate(fps, rate) =
        IF rate \in ToSet(fps) \/ pos > MaxRates THEN fps ELSE new
  BY DEF InsertFramerate
<1> HIDE DEF pos
<1>3. /\ full \in Seq(Nat) /\ Len(full) = n + 1
      /\ \A k \in 1..(n + 1) :
           full[k] = IF k < pos THEN fps[k] ELSE IF k = pos THEN rate ELSE fps[k - 1]
  <2> HIDE DEF full, new, len, First
  <2>1. pos \in 1..(Len(fps) + 1)
    BY <1>1, <1>0
  <2> QED BY ONLY <2>1, rate \in Nat, fps \in Seq(Nat), InsertAtIs, ZenonT(40) DEF full, n
<1>4. /\ n <= MaxRates
      /\ \A i \in 1..n : fps[i] \in rates
      /\ \A i, j \in 1..n : i < j => fps[i] > fps[j]
      /\ \A r \in rates :
           \/ \E i \in 1..n : fps[i] = r
           \/ n = MaxRates /\ \A i \in 1..n : r < fps[i]
  BY FastestOfIs, Zenon
<1> HIDE DEF n
<1>5. CASE rate \in ToSet(fps)
  BY <1>2, <1>5 DEF FastestOf
<1>6. CASE rate \notin ToSet(fps) /\ pos > MaxRates
  <2>1. n = MaxRates /\ \A i \in 1..n : rate < fps[i]
    BY ONLY <1>0, <1>1, <1>4, <1>6, rate \in Nat
  <2>2. \A r \in rates \cup {rate} :
           \/ \E i \in 1..n : fps[i] = r
           \/ n = MaxRates /\ \A i \in 1..n : r < fps[i]
    BY <1>4, <2>1
  <2>3. FastestOf(fps, rates \cup {rate})
    BY <1>0, <1>4, <2>2, FastestOfIs
  <2> QED BY <1>2, <1>6, <2>3
<1>7. CASE rate \notin ToSet(fps) /\ ~ (pos > MaxRates)
  <2>0. /\ len \in 1..(n + 1) /\ len <= MaxRates
        /\ len = n + 1 \/ (len = n /\ n = MaxRates /\ pos <= n)
    BY ONLY <1>0, <1>1, <1>4, <1>7
  <2> HIDE DEF full, len
  <2>1. /\ new \in Seq(Nat) /\ Len(new) = len
        /\ \A k \in 1..len : new[k] = full[k]
    <3>1. /\ len \in Int /\ 1 <= len /\ len - 1 + 1 = len
          /\ \A i \in 1..len : full[i] \in Nat /\ 1 + i - 1 = i
      <4>1. \A i \in 1..Len(full) : full[i] \in Nat
        BY ONLY <1>3, ElementOfSeq
      <4> QED BY ONLY <4>1, <1>0, <1>3, <2>0
    <3>2. /\ new \in Seq(Nat) /\ Len(new) = len - 1 + 1
          /\ \A k \in 1..(len - 1 + 1) : new[k] = full[1 + k - 1]
      BY ONLY <3>1, SubSeqProperties
    <3> QED BY ONLY <3>1, <3>2
  <2> HIDE DEF new
  <2>2. \A k \in 1..len :
          new[k] = IF k < pos THEN fps[k] ELSE IF k = pos THEN rate ELSE fps[k - 1]
    BY ONLY <1>0, <2>0, <2>1, <1>3
  <2>3. pos > n \/ fps[pos] < rate
    <3>1. \A j \in 1..n : fps[j] # rate
      BY <1>0, <1>7 DEF ToSet
    <3> QED BY ONLY <1>0, <1>1, <3>1, rate \in Nat
  <2>4. /\ \A k \in 1..len : new[k] \in Nat /\ (new[k] = rate \/ \E i \in 1..n : new[k] = fps[i])
        /\ new[pos] = rate /\ pos \in 1..len
        /\ \A i, j \in 1..len : i < j => new[i] > new[j]
        /\ \A i \in 1..n : (\E k \in 1..len : new[k] = fps[i])
                            \/ (len = n /\ \A k \in 1..len : fps[i] < new[k])
    <3>1. len \in Nat /\ (len = n + 1 \/ (len = n /\ pos <= n))
      BY ONLY <1>0, <2>0
    <3>2. Inserts(n, fps, rate, pos, len, new)
      BY ONLY <3>1, <1>0, <1>1, <1>4, <2>2, <2>3, rate \in Nat DEF Inserts
    <3> QED BY ONLY <3>2, Inserted
  <2>5. \A i \in 1..len : new[i] \in rates \cup {rate}
    BY ONLY <1>4, <2>4
  <2>6. ASSUME NEW r \in rates \cup {rate}
        PROVE  \/ \E i \in 1..len : new[i] = r
               \/ len = MaxRates /\ \A i \in 1..len : r < new[i]
    <3>1. CASE r = rate
      BY ONLY <2>4, <3>1
    <3>2. CASE \E i \in 1..n : fps[i] = r
      <4>1. PICK i \in 1..n : fps[i] = r
        BY <3>2
      <4>2. CASE \E k \in 1..len : new[k] = fps[i]
        BY ONLY <4>1, <4>2
      <4>3. CASE len = n /\ \A k \in 1..len : fps[i] < new[k]
        <5>1. len = MaxRates
          BY ONLY <4>3, <2>0, <1>0
        <5> QED BY ONLY <4>1, <4>3, <5>1
      <4> QED BY ONLY <4>1, <4>2, <4>3, <2>4
    <3>3. CASE n = MaxRates /\ \A i \in 1..n : r < fps[i]
      <4>1. len = n /\ pos <= n /\ pos \in 1..n
        BY ONLY <3>3, <2>0, <1>0, <1>1
      <4>2. r < rate
        <5>1. r \in Nat /\ r < fps[pos] /\ fps[pos] < rate /\ fps[pos] \in Nat
          BY ONLY <4>1, <3>3, <2>3, <1>0, rate \in Nat, rates \in SUBSET Nat,
                  r \in rates \cup {rate}
        <5> QED BY ONLY <5>1, rate \in Nat
      <4>3. \A i \in 1..len : r < new[i]
        BY ONLY <4>2, <3>3, <2>4
      <4> QED BY <4>1, <4>3, <3>3
    <3> QED BY <3>1, <3>2, <3>3, <1>4
  <2>7. FastestOf(new, rates \cup {rate})
    <3> DEFINE all == rates \cup {rate}
    <3> HIDE DEF all
    <3>1. /\ Len(new) <= MaxRates
          /\ \A i \in 1..Len(new) : new[i] \in all
          /\ \A i, j \in 1..Len(new) : i < j => new[i] > new[j]
          /\ \A r \in all :
                \/ \E i \in 1..Len(new) : new[i] = r
                \/ Len(new) = MaxRates /\ \A i \in 1..Len(new) : r < new[i]
      BY ONLY <2>0, <2>1, <2>4, <2>5, <2>6 DEF all
    <3>2. FastestOf(new, all)
      BY ONLY <3>1, <2>1, FastestOfIs, Zenon
    <3> QED BY <3>2 DEF all
  <2> QED BY <1>2, <1>7, <2>1, <2>7
<1> QED BY <1>5, <1>6, <1>7

LEMMA FpsIsNat ==
  ASSUME NEW frac \in Nat \X Nat
  PROVE  Fps(frac) \in Nat
<1>1. frac[1] \in Nat /\ frac[2] \in Nat
  OBVIOUS
<1> DEFINE p == frac[1]  q == frac[2]
<1>2. p \in Nat /\ q \in Nat /\ Fps(frac) = IF q = 0 THEN 0 ELSE p \div q
  BY <1>1 DEF Fps
<1> HIDE DEF p, q
<1>3. q # 0 => p \div q \in Nat
  BY <1>2, SMT
<1> QED BY <1>2, <1>3

\* A piece of a list of fractions.
LEMMA SubSeqOfRates ==
  ASSUME NEW s \in Seq(Nat \X Nat), NEW m \in Nat, NEW e \in Nat, 1 <= m, e <= Len(s)
  PROVE  SubSeq(s, m, e) \in Seq(Nat \X Nat)
<1>1. \A i \in m..e : s[i] \in Nat \X Nat
  <2>1. ASSUME NEW i \in m..e PROVE s[i] \in Nat \X Nat
    <3>1. i \in 1..Len(s)
      BY LenProperties
    <3> QED BY ONLY <3>1, s \in Seq(Nat \X Nat), ElementOfSeq
  <2> QED BY <2>1
<1>2. m \in Int /\ e \in Int
  OBVIOUS
<1> QED BY ONLY <1>1, <1>2, SubSeqProperties

LEMMA NameableIsSeq ==
  ASSUME NEW prop, prop.vals \in Seq(Nat \X Nat)
  PROVE  Nameable(prop) \in Seq(Nat \X Nat)
<1> DEFINE v == prop.vals
<1>0. v \in Seq(Nat \X Nat) /\ Len(v) \in Nat
  BY LenProperties
<1> HIDE DEF v
<1>1. CASE prop.choice = "None" /\ prop.vals # <<>>
  <2>1. v[1] \in Nat \X Nat
    <3>1. v # <<>>
      BY <1>1 DEF v
    <3>2. 1 \in 1..Len(v)
      BY <3>1, <1>0
    <3> QED BY ONLY <3>2, <1>0, ElementOfSeq
  <2>2. <<v[1]>> \in Seq(Nat \X Nat)
    BY ONLY <2>1
  <2>3. Nameable(prop) = <<v[1]>>
    <3>1. prop.choice # "Enum" /\ ~ Ranged(prop)
      BY <1>1 DEF Ranged
    <3> QED BY <1>1, <3>1, Zenon DEF Nameable, v
  <2> QED BY <2>2, <2>3, Zenon
<1>2. CASE ~ (prop.choice = "None" /\ prop.vals # <<>>) /\ prop.choice = "Enum"
  <2>1. SubSeq(v, 2, Len(v)) \in Seq(Nat \X Nat)
    BY <1>0, SubSeqOfRates
  <2>2. Nameable(prop) = SubSeq(v, 2, Len(v))
    <3>1. ~ Ranged(prop)
      BY <1>2 DEF Ranged
    <3> QED BY <1>2, <3>1, Zenon DEF Nameable, v
  <2> QED BY <2>1, <2>2
<1>3. CASE ~ (prop.choice = "None" /\ prop.vals # <<>>) /\ prop.choice # "Enum" /\ Ranged(prop)
  <2>1. SubSeq(v, 2, 3) \in Seq(Nat \X Nat)
    BY <1>0, <1>3, SubSeqOfRates DEF Ranged, v
  <2>2. Nameable(prop) = SubSeq(v, 2, 3)
    BY <1>3 DEF Nameable, Ranged, v
  <2> QED BY <2>1, <2>2
<1>4. CASE ~ (prop.choice = "None" /\ prop.vals # <<>>) /\ prop.choice # "Enum" /\ ~ Ranged(prop)
  <2>1. Nameable(prop) = <<>>
    BY <1>4 DEF Nameable
  <2> QED BY <2>1
<1> QED BY <1>1, <1>2, <1>3, <1>4

\* pwf_video_parse_framerates(), for every list of rates a source may offer.
THEOREM ParsesFastest ==
  ASSUME NEW prop, prop.vals \in Seq(Nat \X Nat)
  PROVE  IsFastest(ParseFramerates(prop), prop)
<1> DEFINE s == Nameable(prop)
           some(m) == {Fps(s[k]) : k \in 1..m} \ {0}
<1>1. s \in Seq(Nat \X Nat) /\ Len(s) \in Nat /\ DOMAIN s = 1..Len(s)
  BY NameableIsSeq, LenProperties
<1> HIDE DEF s
<1>2. PICK h : IsFold(h, s, Len(s)) /\ FoldLeft(AddRate, <<>>, s) = h[1..Len(s)]
  BY <1>1, FoldIs
<1> DEFINE S == {m \in Nat : m <= Len(s) =>
                    h[1..m] \in Seq(Nat) /\ FastestOf(h[1..m], some(m))}
<1>3. 0 \in S
  <2>1. h[1..0] = <<>>
    BY <1>1, <1>2 DEF IsFold
  <2>2. <<>> \in Seq(Nat) /\ Len(<<>>) = 0
    BY EmptySeq
  <2>3. FastestOf(<<>>, {})
    <3> DEFINE none == <<>>
    <3>1. none \in Seq(Nat) /\ Len(none) = 0
      BY <2>2
    <3> HIDE DEF none
    <3>2. FastestOf(none, {})
      <4>1. /\ Len(none) <= MaxRates
            /\ \A i \in 1..Len(none) : none[i] \in {}
            /\ \A i, j \in 1..Len(none) : i < j => none[i] > none[j]
            /\ \A r \in {} :
                 \/ \E i \in 1..Len(none) : none[i] = r
                 \/ Len(none) = MaxRates /\ \A i \in 1..Len(none) : r < none[i]
        BY ONLY <3>1, RatesAssumption
      <4> QED BY ONLY <3>1, <4>1, FastestOfIs, Zenon
    <3> QED BY <3>2, Zenon DEF none
  <2>4. some(0) = {}
    OBVIOUS
  <2> HIDE DEF some
  <2> QED BY <2>1, <2>2, <2>3, <2>4
<1>4. ASSUME NEW m \in Nat, m \in S PROVE m + 1 \in S
  <2> SUFFICES ASSUME m + 1 <= Len(s)
               PROVE  h[1..(m + 1)] \in Seq(Nat) /\ FastestOf(h[1..(m + 1)], some(m + 1))
    OBVIOUS
  <2> DEFINE f == h[1..m]  rate == Fps(s[m + 1])  rs == some(m)
  <2>1. f \in Seq(Nat) /\ FastestOf(f, rs)
    BY <1>1, <1>4
  <2>2. rate \in Nat
    <3>1. m + 1 \in 1..Len(s)
      BY <1>1
    <3>2. s[m + 1] \in Nat \X Nat
      BY ONLY <3>1, <1>1, ElementOfSeq
    <3> QED BY <3>2, FpsIsNat
  <2>3. rs \in SUBSET Nat
    <3>1. ASSUME NEW k \in 1..m PROVE Fps(s[k]) \in Nat
      <4>1. k \in 1..Len(s)
        BY <1>1
      <4>2. s[k] \in Nat \X Nat
        BY ONLY <4>1, <1>1, ElementOfSeq
      <4> QED BY <4>2, FpsIsNat
    <3> QED BY <3>1
  <2>4. h[1..(m + 1)] = AddRate(f, s[m + 1])
    <3> DEFINE t == 1..(m + 1)
    <3>1. t \in SUBSET (1..Len(s)) /\ t # {} /\ m + 1 \in t
      <4> DEFINE n == Len(s)
      <4>1. n \in Nat /\ m \in Nat /\ m + 1 <= n
        BY <1>1
      <4> HIDE DEF n
      <4>2. t \in SUBSET (1..n) /\ t # {} /\ m + 1 \in t
        BY ONLY <4>1
      <4> QED BY <4>2 DEF n
    <3>2. Max(t) = m + 1 /\ t \ {m + 1} = 1..m
      <4>1. m + 1 \in Nat /\ t \in SUBSET (1..(m + 1)) /\ \A x \in t : x <= m + 1
        BY ONLY m \in Nat
      <4>2. t \ {m + 1} = 1..m
        BY ONLY m \in Nat
      <4> HIDE DEF t
      <4>3. Max(t) = m + 1
        BY ONLY <3>1, <4>1, MaxIs
      <4> QED BY <4>2, <4>3
    <3>3. h[t] = IF t = {} THEN <<>> ELSE AddRate(h[t \ {Max(t)}], s[Max(t)])
      BY <3>1, <1>2 DEF IsFold
    <3> QED BY <3>1, <3>2, <3>3
  <2>5. some(m + 1) = IF rate > 0 THEN rs \cup {rate} ELSE rs
    <3>1. 1..(m + 1) = (1..m) \cup {m + 1}
      OBVIOUS
    <3>2. some(m + 1) = ({Fps(s[k]) : k \in 1..m} \cup {rate}) \ {0}
      BY ONLY <3>1
    <3> QED BY <3>2, <2>2
  <2> HIDE DEF some, rs, f, rate
  <2>6. CASE rate > 0
    <3>1. h[1..(m + 1)] = InsertFramerate(f, rate)
      BY <2>4, <2>6 DEF AddRate, rate
    <3>2. InsertFramerate(f, rate) \in Seq(Nat) /\ FastestOf(InsertFramerate(f, rate), rs \cup {rate})
      BY ONLY <2>1, <2>2, <2>3, InsertFramerateIs
    <3> QED BY <2>5, <2>6, <3>1, <3>2
  <2>7. CASE ~ (rate > 0)
    <3>1. h[1..(m + 1)] = f
      BY <2>4, <2>7 DEF AddRate, rate
    <3> QED BY <2>1, <2>5, <2>7, <3>1
  <2> QED BY <2>6, <2>7
<1>5. \A m \in Nat : m \in S
  <2> HIDE DEF S
  <2> QED BY <1>3, <1>4, SetInduction
<1>6. FastestOf(h[1..Len(s)], some(Len(s)))
  <2>1. Len(s) \in Nat /\ Len(s) <= Len(s)
    BY <1>1
  <2> HIDE DEF some
  <2> QED BY <1>5, <2>1
<1>7. Rates(prop) = some(Len(s))
  BY <1>1 DEF Rates, s
<1> HIDE DEF some
<1> QED BY <1>2, <1>6, <1>7 DEF IsFastest, ParseFramerates, s

----------------------------------------------------------------------------
(* The invariant                                                           *)

Ops     == {"none", "connect", "bind", "sync", "enum"}
Objects == UNION {{o[k] : k \in DOMAIN o} : o \in Offers}
Infos   == {Info(obj) : obj \in Objects}

Request == [kind : {"registry"}]
      \cup [kind : {"sync"}, seq : Nat]
      \cup [kind : {"enum"}, seq : Nat, node : Nodes]

Reply   == [kind : {"done"}, seq : Nat]
      \cup [kind : {"error"}]
      \cup [kind : {"node", "node_removed"}, node : Nodes]
      \cup [kind : {"param"}, seq : Nat, object : Objects]

TypeOK ==
  /\ listening \in BOOLEAN /\ sync_done \in BOOLEAN
  /\ registry \in BOOLEAN /\ announces \in BOOLEAN
  /\ pending_seq \in Nat /\ found \in Nat /\ errors \in Nat
  /\ connect_result \in {"OK", "FAILED"}
  /\ nodes \subseteq Nodes /\ owed \subseteq Nodes
  /\ call \in [pc : {"idle", "waiting", "closed"}, op : Ops,
               node : Nodes \cup {NULL}, result : {"none", "OK", "FAILED", "TIMEOUT"}]
  /\ ctx \in [found : Nat, out : Seq(Infos)]
  /\ graph \in [Nodes -> {"absent", "live", "gone"}]
  /\ offered \in Offers \cup {<<>>}
  /\ requests \in Seq(Request) /\ replies \in Seq(Reply)

\* A round-trip behind which the server announces every node it has
Refreshes == call.op \in {"sync", "enum"}

\* The call has had its answer.
Answered ==
  \/ call.pc = "waiting" /\ sync_done /\ connect_result = "OK"
  \/ call.pc = "idle" /\ call.result = "OK"

Asks(i, p)   == requests[i].kind = "enum" /\ requests[i].seq = p
Syncs(i, p)  == requests[i].kind = "sync" /\ requests[i].seq = p
Done(k, p)   == replies[k].kind = "done" /\ replies[k].seq = p
Param(k, p)  == replies[k].kind = "param" /\ replies[k].seq = p
Names(k, n)  == replies[k].kind = "node" /\ replies[k].node = n

\* Only what was asked is answered.
SeqsAreOld ==
  /\ \A i \in 1..Len(requests) :
       requests[i].kind \in {"sync", "enum"} => requests[i].seq <= pending_seq
  /\ \A k \in 1..Len(replies) :
       replies[k].kind \in {"done", "param"} => replies[k].seq <= pending_seq

\* The registry is bound once, before anything is asked through it.
RegistryFirst ==
  /\ Refreshes => registry
  /\ registry => announces \/ \E j \in 1..Len(requests) : requests[j].kind = "registry"
  /\ Refreshes =>
       \A i \in 1..Len(requests) : Syncs(i, pending_seq) =>
         announces \/ \E j \in 1..i - 1 : requests[j].kind = "registry"

\* What the server has told, and what of it is still on its way
GraphTold ==
  /\ owed \subseteq Live
  /\ \A k \in 1..Len(replies) :
       replies[k].kind = "node_removed" => graph[replies[k].node] = "gone"
  /\ announces =>
       \A n \in Live : n \in nodes \/ \E k \in 1..Len(replies) : Names(k, n)

\* Every node that is owed comes before the answer.
OwedFirst ==
  Refreshes =>
    /\ \A k \in 1..Len(replies) : Done(k, pending_seq) =>
         \A n \in owed : n \in nodes \/ \E j \in 1..k - 1 : Names(j, n)
    /\ Answered => owed \subseteq nodes

SyncInv == SeqsAreOld /\ RegistryFirst /\ GraphTold /\ OwedFirst

\* The query under way, or that succeeded
Querying == call.op = "enum" /\ (call.pc = "waiting" \/ Answered)

\* What the first c objects give
Collected(c) ==
  \E pick \in [1..ctx.found -> 1..c] :
    /\ \A i, j \in 1..ctx.found : i < j => pick[i] < pick[j]
    /\ {pick[i] : i \in 1..ctx.found} = {k \in 1..c : Parses(offered[k])}
    /\ Len(ctx.out) = Room(ctx.found)
    /\ \A i \in 1..Len(ctx.out) : Tells(ctx.out[i], offered[pick[i]])

\* The first c objects are collected, the others are in replies from b + 1 on.
Arriving(c, b) ==
  LET left == Len(offered) - c
  IN  /\ c \in 0..Len(offered) /\ b \in Nat /\ b + left <= Len(replies)
      /\ \A k \in 1..Len(replies) : Param(k, pending_seq) <=> k \in b + 1..b + left
      /\ \A k \in 1..left : replies[b + k].object = offered[c + k]
      /\ Collected(c)

\* A query is answered in order: the question, its formats, its end.
InOrder ==
  /\ \A i, j \in 1..Len(requests) :
       Asks(i, pending_seq) /\ (Asks(j, pending_seq) \/ Syncs(j, pending_seq)) => i <= j
  /\ Querying => \A i \in 1..Len(requests) : Asks(i, pending_seq) =>
       /\ offered = <<>> /\ ~ Answered
       /\ \A k \in 1..Len(replies) : ~ Done(k, pending_seq)
  /\ Querying => \A k, j \in 1..Len(replies) :
       Param(k, pending_seq) /\ Done(j, pending_seq) => k < j
  /\ Querying /\ Answered => \A k \in 1..Len(replies) : ~ Param(k, pending_seq)

QueryInv ==
  /\ InOrder
  /\ Querying => \E c, b \in Nat : Arriving(c, b)
  /\ Querying /\ call.pc = "idle" => found = ctx.found
  /\ call.pc = "idle" /\ call.result # "OK" => found = 0

IInv == TypeOK /\ SyncInv /\ QueryInv

----------------------------------------------------------------------------
(* Queues                                                                  *)

LEMMA InTail ==
  ASSUME NEW X, NEW s \in Seq(X), s # <<>>
  PROVE  /\ Len(s) \in Nat \ {0} /\ Head(s) = s[1] /\ s[1] \in X
         /\ Tail(s) \in Seq(X) /\ Len(Tail(s)) = Len(s) - 1
         /\ \A k \in 1..(Len(s) - 1) : Tail(s)[k] = s[k + 1]
<1>1. Len(s) \in Nat \ {0} /\ 1 \in 1..Len(s)
  BY EmptySeq, LenProperties
<1>2. s[1] \in X
  BY ONLY <1>1, s \in Seq(X), ElementOfSeq
<1> QED BY <1>1, <1>2, HeadTailProperties

LEMMA AtEnd ==
  ASSUME NEW X, NEW s \in Seq(X), NEW t \in Seq(X)
  PROVE  /\ s \o t \in Seq(X) /\ Len(s \o t) = Len(s) + Len(t)
         /\ Len(s) \in Nat /\ Len(t) \in Nat
         /\ \A k \in 1..Len(s) : (s \o t)[k] = s[k]
         /\ \A k \in 1..Len(t) : (s \o t)[Len(s) + k] = t[k]
<1>1. /\ s \o t \in Seq(X) /\ Len(s \o t) = Len(s) + Len(t)
      /\ Len(s) \in Nat /\ Len(t) \in Nat
      /\ \A i \in 1..(Len(s) + Len(t)) :
            (s \o t)[i] = IF i <= Len(s) THEN s[i] ELSE t[i - Len(s)]
  BY ConcatProperties, LenProperties
<1>2. ASSUME NEW k \in 1..Len(s) PROVE (s \o t)[k] = s[k]
  BY ONLY k \in 1..Len(s), <1>1
<1>3. ASSUME NEW k \in 1..Len(t) PROVE (s \o t)[Len(s) + k] = t[k]
  <2>1. Len(s) + k \in 1..(Len(s) + Len(t)) /\ ~ (Len(s) + k <= Len(s)) /\ (Len(s) + k) - Len(s) = k
    BY ONLY k \in 1..Len(t), <1>1
  <2> QED BY ONLY <2>1, <1>1
<1> QED BY <1>1, <1>2, <1>3

LEMMA LastPut ==
  ASSUME NEW X, NEW s \in Seq(X), NEW x \in X
  PROVE  /\ Append(s, x) \in Seq(X) /\ Len(Append(s, x)) = Len(s) + 1 /\ Len(s) \in Nat
         /\ \A k \in 1..Len(s) : Append(s, x)[k] = s[k]
         /\ Append(s, x)[Len(s) + 1] = x
BY AppendProperties, LenProperties

\* The requests of a call, and then its sync
LEMMA SentThenSync ==
  ASSUME NEW X, NEW s \in Seq(X), NEW t \in Seq(X), NEW x \in X
  PROVE  /\ s \o t \o <<x>> \in Seq(X) /\ Len(s \o t \o <<x>>) = Len(s) + Len(t) + 1
         /\ Len(s) \in Nat /\ Len(t) \in Nat
         /\ \A k \in 1..Len(s) : (s \o t \o <<x>>)[k] = s[k]
         /\ \A k \in 1..Len(t) : (s \o t \o <<x>>)[Len(s) + k] = t[k]
         /\ (s \o t \o <<x>>)[Len(s) + Len(t) + 1] = x
<1> DEFINE u == <<x>>  v == s \o t
<1>1. u \in Seq(X) /\ Len(u) = 1 /\ u[1] = x
  OBVIOUS
<1>2. /\ v \in Seq(X) /\ Len(v) = Len(s) + Len(t)
      /\ Len(s) \in Nat /\ Len(t) \in Nat
      /\ \A k \in 1..Len(s) : v[k] = s[k]
      /\ \A k \in 1..Len(t) : v[Len(s) + k] = t[k]
  BY AtEnd
<1> HIDE DEF u, v
<1>3. /\ v \o u \in Seq(X) /\ Len(v \o u) = Len(v) + Len(u)
      /\ \A k \in 1..Len(v) : (v \o u)[k] = v[k]
      /\ \A k \in 1..Len(u) : (v \o u)[Len(v) + k] = u[k]
  <2>1. u \in Seq(X) /\ v \in Seq(X)
    BY <1>1, <1>2
  <2> QED BY ONLY <2>1, AtEnd
<1>4. \A k \in 1..Len(s) : k \in 1..Len(v)
  BY ONLY <1>2
<1>5. \A k \in 1..Len(t) : Len(s) + k \in 1..Len(v)
  BY ONLY <1>2
<1>6. 1 \in 1..Len(u) /\ (v \o u)[Len(v) + 1] = x
  BY ONLY <1>1, <1>3
<1>7. v \o u = s \o t \o <<x>>
  BY DEF u, v
<1> QED BY ONLY <1>1, <1>2, <1>3, <1>4, <1>5, <1>6, <1>7

----------------------------------------------------------------------------
(* A call sends its requests.                                              *)

Sends(op, node, sent) ==
  \/ op = "connect" /\ node = NULL /\ sent = <<>> /\ UNCHANGED registry
  \/ op = "bind" /\ node = NULL /\ sent = <<[kind |-> "registry"]>> /\ registry' = TRUE
  \/ op = "sync" /\ node = NULL /\ sent = <<>> /\ registry /\ UNCHANGED registry
  \/ /\ op = "enum" /\ node \in Nodes
     /\ sent = <<[kind |-> "enum", seq |-> NextSeq, node |-> node]>>
     /\ registry /\ UNCHANGED registry

\* What the queue holds then
LEMMA SendsQueue ==
  ASSUME TypeOK, NEW op, NEW node, NEW sent, Sends(op, node, sent), Sync(op, node, sent)
  PROVE  /\ requests' \in Seq(Request) /\ Len(requests) \in Nat
         /\ \A k \in 1..Len(requests) : requests'[k] = requests[k]
         /\ CASE op \in {"connect", "sync"} ->
                    /\ Len(requests') = Len(requests) + 1
                    /\ requests'[Len(requests) + 1] = [kind |-> "sync", seq |-> NextSeq]
              [] OTHER ->
                    /\ Len(requests') = Len(requests) + 2
                    /\ requests'[Len(requests) + 1] =
                          IF op = "bind" THEN [kind |-> "registry"]
                          ELSE [kind |-> "enum", seq |-> NextSeq, node |-> node]
                    /\ requests'[Len(requests) + 2] = [kind |-> "sync", seq |-> NextSeq]
<1> DEFINE x == [kind |-> "sync", seq |-> NextSeq]
<1>1. x \in Request /\ requests \in Seq(Request)
  BY DEF TypeOK, Request, NextSeq
<1>2. sent \in Seq(Request)
  <2>1. <<>> \in Seq(Request)
    BY EmptySeq
  <2>2. <<[kind |-> "registry"]>> \in Seq(Request)
    <3> DEFINE y == [kind |-> "registry"]
    <3>1. y \in Request
      BY DEF Request
    <3> HIDE DEF y
    <3>2. <<y>> \in Seq(Request)
      BY ONLY <3>1
    <3> QED BY <3>2 DEF y
  <2>3. node \in Nodes => <<[kind |-> "enum", seq |-> NextSeq, node |-> node]>> \in Seq(Request)
    <3> SUFFICES ASSUME node \in Nodes
                 PROVE  <<[kind |-> "enum", seq |-> NextSeq, node |-> node]>> \in Seq(Request)
      OBVIOUS
    <3> DEFINE y == [kind |-> "enum", seq |-> NextSeq, node |-> node]
    <3>1. y \in Request
      BY DEF TypeOK, Request, NextSeq
    <3> HIDE DEF y
    <3>2. <<y>> \in Seq(Request)
      BY ONLY <3>1
    <3> QED BY <3>2 DEF y
  <2> QED BY <2>1, <2>2, <2>3 DEF Sends
<1>3. requests' = requests \o sent \o <<x>>
  BY DEF Sync
<1> HIDE DEF x
<1>4. /\ requests' \in Seq(Request) /\ Len(requests') = Len(requests) + Len(sent) + 1
      /\ Len(requests) \in Nat /\ Len(sent) \in Nat
      /\ \A k \in 1..Len(requests) : requests'[k] = requests[k]
      /\ \A k \in 1..Len(sent) : requests'[Len(requests) + k] = sent[k]
      /\ requests'[Len(requests) + Len(sent) + 1] = x
  BY ONLY <1>1, <1>2, <1>3, SentThenSync
<1>5. CASE op \in {"connect", "sync"}
  <2>1. Len(sent) = 0
    BY <1>5 DEF Sends
  <2>2. Len(requests) + Len(sent) + 1 = Len(requests) + 1
    BY ONLY <2>1, <1>4
  <2> QED BY <1>4, <1>5, <2>2 DEF x
<1>6. CASE op \notin {"connect", "sync"}
  <2>1. /\ Len(sent) = 1 /\ op \in {"bind", "enum"}
        /\ sent[1] = IF op = "bind" THEN [kind |-> "registry"]
                      ELSE [kind |-> "enum", seq |-> NextSeq, node |-> node]
    BY <1>6 DEF Sends
  <2>2. Len(requests) + Len(sent) + 1 = Len(requests) + 2 /\ 1 \in 1..Len(sent)
    BY ONLY <2>1, <1>4
  <2>3. requests'[Len(requests) + 1] = sent[1]
    BY ONLY <2>2, <1>4
  <2> QED BY <1>4, <1>6, <2>1, <2>2, <2>3 DEF x
<1> QED BY <1>5, <1>6

LEMMA SendsStep ==
  ASSUME IInv, NEW op, NEW node, NEW sent, Sends(op, node, sent), Sync(op, node, sent)
  PROVE  IInv'
<1> DEFINE L == Len(requests)
           r == requests'
           p == pending_seq
           new == [kind |-> "sync", seq |-> p + 1]
           mid == IF op = "bind" THEN [kind |-> "registry"]
                  ELSE [kind |-> "enum", seq |-> p + 1, node |-> node]
<1>0. /\ TypeOK /\ SeqsAreOld /\ RegistryFirst /\ GraphTold /\ OwedFirst /\ QueryInv
      /\ op \in {"connect", "bind", "sync", "enum"}
  BY DEF IInv, SyncInv, Sends
<1>1. /\ pending_seq' = p + 1 /\ p \in Nat /\ ~ sync_done' /\ owed' = Live
      /\ offered' = <<>> /\ ctx' = NoFormats /\ found' = 0
      /\ call' = [pc |-> "waiting", op |-> op, node |-> node, result |-> "none"]
      /\ UNCHANGED <<nodes, replies, graph, announces, errors>>
  BY <1>0 DEF Sync, NextSeq, TypeOK
<1>2. /\ r \in Seq(Request) /\ L \in Nat
      /\ \A k \in 1..L : r[k] = requests[k]
      /\ op \in {"connect", "sync"} => Len(r) = L + 1 /\ r[L + 1] = new
      /\ op \in {"bind", "enum"} => Len(r) = L + 2 /\ r[L + 1] = mid /\ r[L + 2] = new
  BY <1>0, SendsQueue DEF NextSeq
<1> HIDE DEF L, r
<1>3. /\ \A i \in 1..L : r[i].kind \in {"sync", "enum"} => r[i].seq <= p
      /\ \A k \in 1..Len(replies) : replies[k].kind \in {"done", "param"} => replies[k].seq <= p
  BY <1>0, <1>2 DEF SeqsAreOld, L
<1>4. Len(r) \in Nat /\ \A i \in 1..Len(r) : i \in 1..L \/ r[i] = new \/ (i = L + 1 /\ op \in {"bind", "enum"} /\ r[i] = mid)
  BY ONLY <1>0, <1>2
<1>5. \A i \in 1..Len(r) : r[i].kind = "sync" /\ r[i].seq = p + 1 => i = Len(r)
  <2>1. ASSUME NEW i \in 1..Len(r), r[i].kind = "sync" /\ r[i].seq = p + 1 PROVE i = Len(r)
    <3>1. i \notin 1..L
      BY <2>1, <1>1, <1>3, <1>4
    <3>2. ~ (i = L + 1 /\ op \in {"bind", "enum"})
      BY <1>2, <2>1
    <3> QED BY <1>0, <1>2, <1>4, <3>1, <3>2
  <2> QED BY <2>1
<1>6. \A i \in 1..Len(r) : r[i].kind = "enum" /\ r[i].seq = p + 1 => i = L + 1 /\ op = "enum"
  <2>1. ASSUME NEW i \in 1..Len(r), r[i].kind = "enum" /\ r[i].seq = p + 1 PROVE i = L + 1 /\ op = "enum"
    <3>1. i \notin 1..L
      BY <2>1, <1>1, <1>3, <1>4
    <3>2. r[i] # new
      BY <2>1
    <3> QED BY <1>2, <1>4, <3>1, <3>2, <2>1
  <2> QED BY <2>1
<1>7. /\ \A k \in 1..Len(replies) : ~ (replies[k].kind = "done" /\ replies[k].seq = p + 1)
      /\ \A k \in 1..Len(replies) : ~ (replies[k].kind = "param" /\ replies[k].seq = p + 1)
  BY <1>1, <1>3
<1>8. TypeOK'
  <2>1. ctx' \in [found : Nat, out : Seq(Infos)]
    BY <1>1, EmptySeq DEF NoFormats
  <2>2. listening' \in BOOLEAN /\ sync_done' \in BOOLEAN /\ connect_result' \in {"OK", "FAILED"}
    BY DEF Sync
  <2>3. registry' \in BOOLEAN
    BY <1>0 DEF Sends, TypeOK
  <2>4. call' \in [pc : {"idle", "waiting", "closed"}, op : Ops,
               node : Nodes \cup {NULL}, result : {"none", "OK", "FAILED", "TIMEOUT"}]
    BY <1>1 DEF Sends, Ops
  <2>5. owed' \subseteq Nodes
    BY <1>1 DEF Live
  <2>6. requests' \in Seq(Request)
    BY <1>2 DEF r
  <2> QED BY <1>0, <1>1, <2>1, <2>2, <2>3, <2>4, <2>5, <2>6 DEF TypeOK
<1>9. SeqsAreOld'
  <2>1. ASSUME NEW i \in 1..Len(r), r[i].kind \in {"sync", "enum"} PROVE r[i].seq <= p + 1
    <3>1. CASE i \in 1..L
      <4>1. r[i].seq <= p /\ r[i].seq \in Nat
        <5>1. r[i] \in Request
          BY ONLY <1>2, i \in 1..Len(r), ElementOfSeq
        <5> QED BY <5>1, <1>3, <2>1, <3>1 DEF Request
      <4> QED BY <4>1, <1>1
    <3>2. CASE r[i] = new \/ r[i] = mid
      BY <3>2, <1>1, <2>1
    <3> QED BY <1>4, <3>1, <3>2
  <2>2. ASSUME NEW k \in 1..Len(replies), replies[k].kind \in {"done", "param"}
        PROVE  replies[k].seq <= p + 1
    <3>1. replies[k] \in Reply
      BY ONLY <1>0, k \in 1..Len(replies), ElementOfSeq DEF TypeOK
    <3>2. replies[k].seq <= p /\ replies[k].seq \in Nat
      BY <3>1, <1>3, <2>2 DEF Reply
    <3> QED BY <3>2, <1>1
  <2> QED BY <1>1, <2>1, <2>2 DEF SeqsAreOld, r
<1>10. RegistryFirst'
  <2>1. Refreshes' => registry /\ registry'
    BY <1>1 DEF Refreshes, Sends
  <2>2. registry => announces \/ \E j \in 1..L : r[j].kind = "registry"
    BY <1>0, <1>2 DEF RegistryFirst, L
  <2>3. registry' => announces \/ \E j \in 1..Len(r) : r[j].kind = "registry"
    <3>1. CASE op = "bind"
      <4>1. L + 1 \in 1..Len(r) /\ r[L + 1].kind = "registry"
        BY <1>2, <3>1
      <4> QED BY <4>1
    <3>2. CASE op # "bind"
      <4>1. registry' => registry
        BY <3>2 DEF Sends
      <4>2. \A j \in 1..L : j \in 1..Len(r)
        BY ONLY <1>0, <1>2
      <4> QED BY <2>2, <4>1, <4>2
    <3> QED BY <3>1, <3>2
  <2>4. ASSUME Refreshes', NEW i \in 1..Len(r), r[i].kind = "sync" /\ r[i].seq = p + 1
        PROVE  announces \/ \E j \in 1..(i - 1) : r[j].kind = "registry"
    <3>1. \A j \in 1..L : j \in 1..(i - 1)
      BY <1>2, <1>0, <1>5, <2>4
    <3> QED BY <2>1, <2>2, <2>4, <3>1
  <2> QED BY <1>1, <2>1, <2>3, <2>4 DEF RegistryFirst, Syncs, r
<1>11. GraphTold'
  BY <1>0, <1>1 DEF GraphTold, Live, Names
<1>12. ~ Answered'
  BY <1>1 DEF Answered
<1>13. OwedFirst'
  BY <1>1, <1>7, <1>12 DEF OwedFirst, Done
<1>14. Arriving(0, 0)'
  <2>1. Len(offered') = 0 /\ Len(ctx'.out) = 0 /\ ctx'.found = 0
    BY <1>1, EmptySeq DEF NoFormats
  <2>2. Collected(0)'
    <3> DEFINE pick == [i \in 1..0 |-> i]
    <3>1. pick \in [1..0 -> 1..0]
      OBVIOUS
    <3>2. Room(0) = 0
      BY CoreAssumption DEF Room
    <3>3. 1..0 = {} /\ 1..ctx'.found = {} /\ 1..Len(ctx'.out) = {}
      BY ONLY <2>1
    <3>4. pick \in [1..ctx'.found -> 1..0]
      BY ONLY <3>1, <2>1
    <3>5. Len(ctx'.out) = Room(ctx'.found)
      BY <2>1, <3>2
    <3> HIDE DEF pick
    <3> QED BY <3>3, <3>4, <3>5 DEF Collected
  <2>3. Len(replies) \in Nat
    BY <1>0, LenProperties DEF TypeOK
  <2> QED BY <1>1, <1>7, <2>1, <2>2, <2>3 DEF Arriving, Param
<1>15. InOrder'
  <2>1. \A i, j \in 1..Len(r) :
          (r[i].kind = "enum" /\ r[i].seq = p + 1)
          /\ ((r[j].kind = "enum" /\ r[j].seq = p + 1) \/ (r[j].kind = "sync" /\ r[j].seq = p + 1))
          => i <= j
    BY <1>0, <1>2, <1>4, <1>5, <1>6
  <2> QED BY <1>1, <1>7, <1>12, <2>1 DEF InOrder, Asks, Syncs, Done, Param, r
<1>16. QueryInv'
  <2>1. call'.pc = "waiting"
    BY <1>1
  <2> QED BY <1>14, <1>15, <2>1 DEF QueryInv
<1> QED BY <1>8, <1>9, <1>10, <1>11, <1>13, <1>16 DEF IInv, SyncInv

LEMMA BindAgainStep ==
  ASSUME IInv, BindAgain
  PROVE  IInv'
<1>1. /\ call' = [pc |-> "idle", op |-> "bind", node |-> NULL, result |-> "OK"]
      /\ UNCHANGED <<listening, pending_seq, connect_result, sync_done, registry, nodes,
                     ctx, found, requests, replies, graph, announces, errors, owed, offered>>
  BY DEF BindAgain, connVars, queryVars, serverVars
<1>2. TypeOK'
  BY <1>1 DEF IInv, TypeOK, Ops
<1>3. ~ Refreshes' /\ ~ Querying' /\ call'.result = "OK"
  BY <1>1 DEF Refreshes, Querying
<1>4. SyncInv'
  BY <1>1, <1>3 DEF IInv, SyncInv, SeqsAreOld, RegistryFirst, GraphTold, OwedFirst, Live, Names
<1>5. QueryInv'
  BY <1>1, <1>3 DEF IInv, QueryInv, InOrder, Asks, Syncs
<1> QED BY <1>2, <1>4, <1>5 DEF IInv

LEMMA ReturnStep ==
  ASSUME IInv, Wake \/ Timeout
  PROVE  IInv'
<1>0. call.pc = "waiting" /\ TypeOK /\ SyncInv /\ QueryInv
  BY DEF IInv, Wake, Timeout
<1>1. PICK result \in {"OK", "FAILED", "TIMEOUT"} :
        /\ Return(result)
        /\ result = "OK" => sync_done /\ connect_result = "OK"
  BY <1>0 DEF Wake, Timeout, TypeOK
<1>2. /\ listening' = FALSE /\ found' = IF result = "OK" THEN ctx.found ELSE 0
      /\ UNCHANGED <<pending_seq, connect_result, sync_done, registry, nodes,
                     ctx, requests, replies, graph, announces, errors, owed, offered>>
  BY <1>1 DEF Return, serverVars
<1>3. /\ call'.op = call.op /\ call'.result = result /\ call'.pc \in {"idle", "closed"}
      /\ call'.pc = "closed" => result # "OK"
  BY <1>0, <1>1 DEF Return, Returns, TypeOK
<1>4. TypeOK'
  <2>1. call' \in [pc : {"idle", "waiting", "closed"}, op : Ops,
               node : Nodes \cup {NULL}, result : {"none", "OK", "FAILED", "TIMEOUT"}]
    BY <1>0, <1>1 DEF Return, Returns, TypeOK
  <2>2. found' \in Nat
    BY <1>0, <1>2 DEF TypeOK
  <2> QED BY <1>0, <1>2, <2>1, <2>2 DEF TypeOK
<1>5. /\ Answered' => Answered /\ result = "OK"
      /\ Refreshes' <=> Refreshes
      /\ Querying' => Querying /\ call'.op = "enum" /\ Answered'
  BY <1>0, <1>1, <1>2, <1>3 DEF Answered, Refreshes, Querying
<1>6. SyncInv'
  <2>1. SeqsAreOld' /\ GraphTold'
    BY <1>0, <1>2 DEF SyncInv, SeqsAreOld, GraphTold, Live, Names
  <2>2. RegistryFirst'
    BY <1>0, <1>2, <1>5 DEF SyncInv, RegistryFirst, Syncs
  <2>3. OwedFirst'
    BY <1>0, <1>2, <1>5 DEF SyncInv, OwedFirst, Done, Names
  <2> QED BY <2>1, <2>2, <2>3 DEF SyncInv
<1>7. QueryInv'
  <2>1. InOrder'
    BY <1>0, <1>2, <1>5 DEF QueryInv, InOrder, Asks, Syncs, Done, Param
  <2>2. Querying' => \E c, b \in Nat : Arriving(c, b)'
    <3>1. \A c, b \in Nat : Arriving(c, b) => Arriving(c, b)'
      BY <1>2, ZenonT(40) DEF Arriving, Collected, Param
    <3> QED BY <1>0, <1>5, <3>1 DEF QueryInv
  <2> QED BY <2>1, <2>2, <1>2, <1>3, <1>5 DEF QueryInv
<1> QED BY <1>4, <1>6, <1>7 DEF IInv

----------------------------------------------------------------------------
(* The next message                                                        *)

\* An object tells what the query writes of it.
LEMMA InfoTells ==
  ASSUME NEW objects \in Offers, NEW k \in 1..Len(objects)
  PROVE  Tells(Info(objects[k]), objects[k])
<1> DEFINE obj == objects[k]
<1>1. obj.rates.vals \in Seq(Nat \X Nat)
  BY OffersAssumption
<1>2. IsFastest(ParseFramerates(obj.rates), obj.rates)
  BY ONLY <1>1, ParsesFastest
<1> HIDE DEF obj
<1>3. Tells(Info(obj), obj)
  BY <1>2 DEF Tells, Info
<1> QED BY <1>3 DEF obj

\* What the query makes of one more object
Collect(c) ==
  ctx' = IF Parses(offered[c + 1])
           THEN [found |-> ctx.found + 1,
                 out   |-> IF ctx.found < OutLen
                             THEN Append(ctx.out, Info(offered[c + 1])) ELSE ctx.out]
           ELSE ctx

LEMMA CollectOne ==
  ASSUME NEW c \in Nat, c + 1 <= Len(offered), offered \in Offers, offered' = offered,
         ctx \in [found : Nat, out : Seq(Infos)], Collected(c), Collect(c)
  PROVE  Collected(c + 1)'
<1> DEFINE f == ctx.found
<1>0. PICK pick \in [1..f -> 1..c] :
        /\ \A i, j \in 1..f : i < j => pick[i] < pick[j]
        /\ {pick[i] : i \in 1..f} = {k \in 1..c : Parses(offered[k])}
        /\ Len(ctx.out) = Room(f)
        /\ \A i \in 1..Len(ctx.out) : Tells(ctx.out[i], offered[pick[i]])
  BY DEF Collected
<1>1. f \in Nat /\ ctx.out \in Seq(Infos) /\ OutLen \in Nat /\ Len(ctx.out) \in Nat
  BY CoreAssumption, LenProperties
<1>2. CASE ~ Parses(offered[c + 1])
  <2>1. ctx' = ctx
    BY <1>2 DEF Collect
  <2>2. {k \in 1..(c + 1) : Parses(offered[k])} = {k \in 1..c : Parses(offered[k])}
    BY <1>2
  <2>3. pick \in [1..f -> 1..(c + 1)]
    OBVIOUS
  <2>4. Collected(c + 1)
    BY <1>0, <2>2, <2>3 DEF Collected
  <2> QED BY <2>1, <2>4 DEF Collected
<1>3. CASE Parses(offered[c + 1])
  <2> DEFINE info == Info(offered[c + 1])
             g == f + 1
             out == IF f < OutLen THEN Append(ctx.out, info) ELSE ctx.out
             next == [i \in 1..g |-> IF i <= f THEN pick[i] ELSE c + 1]
  <2>1. ctx' = [found |-> g, out |-> out]
    BY <1>3 DEF Collect
  <2>2. /\ \A i \in 1..f : i \in 1..g /\ next[i] = pick[i] /\ pick[i] \in 1..c
        /\ g \in 1..g /\ next[g] = c + 1
        /\ \A i \in 1..g : i \in 1..f \/ i = g
    BY <1>1
  <2>3. next \in [1..g -> 1..(c + 1)]
    BY <1>1
  <2> HIDE DEF next
  <2>4. \A i, j \in 1..g : i < j => next[i] < next[j]
    <3>1. ASSUME NEW i \in 1..g, NEW j \in 1..g, i < j PROVE next[i] < next[j]
      <4>1. i \in 1..f
        BY ONLY <3>1, <1>1, i \in 1..g, j \in 1..g
      <4>2. CASE j \in 1..f
        BY ONLY <4>1, <4>2, <2>2, <3>1, <1>0
      <4>3. CASE j = g
        BY ONLY <4>1, <4>3, <2>2, c \in Nat
      <4> QED BY <4>2, <4>3, <2>2
    <3> QED BY <3>1
  <2>5. {next[i] : i \in 1..g} = {k \in 1..(c + 1) : Parses(offered[k])}
    <3>1. ASSUME NEW i \in 1..g PROVE next[i] \in {k \in 1..(c + 1) : Parses(offered[k])}
      <4>1. CASE i \in 1..f
        <5>1. pick[i] \in {k \in 1..c : Parses(offered[k])}
          BY <1>0, <4>1
        <5> QED BY <5>1, <4>1, <2>2
      <4>2. CASE i = g
        BY <1>3, <4>2, <2>2
      <4> QED BY <4>1, <4>2, <2>2
    <3>2. ASSUME NEW k \in 1..(c + 1), Parses(offered[k]) PROVE \E i \in 1..g : next[i] = k
      <4>1. CASE k \in 1..c
        <5>1. k \in {pick[i] : i \in 1..f}
          BY <1>0, <3>2, <4>1
        <5> QED BY <5>1, <2>2
      <4>2. CASE k = c + 1
        BY <2>2, <4>2
      <4> QED BY <4>1, <4>2
    <3> QED BY <3>1, <3>2
  <2>6. /\ Len(out) = Room(g)
        /\ \A i \in 1..Len(out) : Tells(out[i], offered[next[i]])
    <3>1. CASE f < OutLen
      <4>1. Room(f) = f /\ Room(g) = g /\ Len(ctx.out) = f
        BY <1>0, <1>1, <3>1 DEF Room
      <4>2. info \in Infos
        BY DEF Infos, Objects
      <4> HIDE DEF info
      <4>3. /\ Len(out) = g /\ \A i \in 1..f : out[i] = ctx.out[i]
            /\ out[g] = info
        <5>1. /\ Len(Append(ctx.out, info)) = Len(ctx.out) + 1
              /\ \A k \in 1..Len(ctx.out) : Append(ctx.out, info)[k] = ctx.out[k]
              /\ Append(ctx.out, info)[Len(ctx.out) + 1] = info
          BY ONLY <1>1, <4>2, LastPut
        <5> QED BY <5>1, <4>1, <3>1
      <4>4. Tells(info, offered[c + 1])
        BY InfoTells DEF info
      <4>5. ASSUME NEW i \in 1..g PROVE Tells(out[i], offered[next[i]])
        <5>1. CASE i \in 1..f
          BY <5>1, <4>1, <4>3, <2>2, <1>0
        <5>2. CASE i = g
          BY <5>2, <4>3, <4>4, <2>2
        <5> QED BY <5>1, <5>2, <2>2
      <4> QED BY <4>1, <4>3, <4>5
    <3>2. CASE ~ (f < OutLen)
      <4>1. Room(f) = OutLen /\ Room(g) = OutLen /\ out = ctx.out
        BY <1>1, <3>2 DEF Room
      <4>2. \A i \in 1..Len(out) : i \in 1..f
        BY <4>1, <1>0, <1>1, <3>2
      <4> QED BY <4>1, <4>2, <2>2, <1>0
    <3> QED BY <3>1, <3>2
  <2> HIDE DEF out
  <2> QED BY <2>1, <2>3, <2>4, <2>5, <2>6 DEF Collected
<1> QED BY <1>2, <1>3

\* What the loop thread does with the message h at the head of replies
LEMMA ReceiveFacts ==
  ASSUME TypeOK, LoopStep
  PROVE  LET h == replies[1] IN
         /\ Len(replies) \in Nat \ {0} /\ h \in Reply
         /\ replies' \in Seq(Reply) /\ Len(replies') = Len(replies) - 1
         /\ \A k \in 1..(Len(replies) - 1) : replies'[k] = replies[k + 1]
         /\ UNCHANGED <<registry, call, found, requests, graph, announces, errors,
                        owed, offered, listening, pending_seq>>
         /\ nodes' = IF h.kind = "node" THEN nodes \cup {h.node}
                     ELSE IF h.kind = "node_removed" THEN nodes \ {h.node} ELSE nodes
         /\ ctx' = IF h.kind = "param" /\ Collects(h) /\ Parses(h.object)
                     THEN [found |-> ctx.found + 1,
                           out   |-> IF ctx.found < OutLen
                                       THEN Append(ctx.out, Info(h.object)) ELSE ctx.out]
                     ELSE ctx
         /\ sync_done' \in BOOLEAN /\ connect_result' \in {"OK", "FAILED"}
         /\ sync_done' /\ connect_result' = "OK" =>
              \/ sync_done /\ connect_result = "OK"
              \/ h.kind = "done" /\ h.seq = pending_seq
<1>1. replies # <<>> /\ Head(replies).kind \in {"done", "error", "node", "node_removed", "param"}
  BY DEF LoopStep, OnDone, OnError, OnGlobal, OnGlobalRemove, OnParam, Receive
<1>2. /\ Len(replies) \in Nat \ {0} /\ Head(replies) = replies[1] /\ replies[1] \in Reply
      /\ Tail(replies) \in Seq(Reply) /\ Len(Tail(replies)) = Len(replies) - 1
      /\ \A k \in 1..(Len(replies) - 1) : Tail(replies)[k] = replies[k + 1]
  <2>1. replies \in Seq(Reply)
    BY DEF TypeOK
  <2> QED BY ONLY <1>1, <2>1, InTail
<1>3. /\ replies' = Tail(replies)
      /\ UNCHANGED <<registry, call, found, requests, graph, announces, errors,
                        owed, offered, listening, pending_seq>>
  BY DEF LoopStep, OnDone, OnError, OnGlobal, OnGlobalRemove, OnParam, Receive, connVars
<1>4. CASE OnDone
  BY <1>2, <1>3, <1>4 DEF OnDone, Receive, TypeOK
<1>5. CASE OnError
  BY <1>2, <1>3, <1>5, ZenonT(40) DEF OnError, Receive, TypeOK
<1>6. CASE OnGlobal
  BY <1>2, <1>3, <1>6 DEF OnGlobal, Receive, TypeOK, connVars
<1>7. CASE OnGlobalRemove
  BY <1>2, <1>3, <1>7 DEF OnGlobalRemove, Receive, TypeOK, connVars
<1>8. CASE OnParam
  BY <1>2, <1>3, <1>8 DEF OnParam, Receive, TypeOK, connVars
<1> QED BY <1>4, <1>5, <1>6, <1>7, <1>8 DEF LoopStep

LEMMA ReceiveStep ==
  ASSUME IInv, LoopStep
  PROVE  IInv'
<1> DEFINE h == replies[1]
           m == Len(replies)
           q == replies'
           p == pending_seq
<1>0. TypeOK /\ SeqsAreOld /\ RegistryFirst /\ GraphTold /\ OwedFirst /\ QueryInv /\ InOrder
  BY DEF IInv, SyncInv, QueryInv
<1>1. /\ m \in Nat \ {0} /\ h \in Reply
      /\ q \in Seq(Reply) /\ Len(q) = m - 1 /\ Len(replies) = m
      /\ \A k \in 1..(m - 1) : q[k] = replies[k + 1]
  BY <1>0, ReceiveFacts
<1>2. UNCHANGED <<registry, call, found, requests, graph, announces, errors,
                        owed, offered, listening, pending_seq>>
  BY <1>0, ReceiveFacts
<1>3. nodes' = IF h.kind = "node" THEN nodes \cup {h.node}
                     ELSE IF h.kind = "node_removed" THEN nodes \ {h.node} ELSE nodes
  BY <1>0, ReceiveFacts
<1>4. ctx' = IF h.kind = "param" /\ Collects(h) /\ Parses(h.object)
                     THEN [found |-> ctx.found + 1,
                           out   |-> IF ctx.found < OutLen
                                       THEN Append(ctx.out, Info(h.object)) ELSE ctx.out]
                     ELSE ctx
  BY <1>0, ReceiveFacts
<1>5. /\ sync_done' \in BOOLEAN /\ connect_result' \in {"OK", "FAILED"}
      /\ Answered' => Answered \/ (h.kind = "done" /\ h.seq = p)
  BY <1>0, <1>2, ReceiveFacts DEF Answered
<1> HIDE DEF h, m, q
\* A message that is left was one place further back.
<1>6. \A k \in 1..(m - 1) : k + 1 \in 1..m /\ k + 1 # 1 /\ q[k] = replies[k + 1]
  BY ONLY <1>1
<1>7. \A k \in 1..m : k = 1 \/ (k - 1 \in 1..(m - 1) /\ q[k - 1] = replies[k])
  <2>1. ASSUME NEW k \in 1..m, k # 1 PROVE k - 1 \in 1..(m - 1) /\ q[k - 1] = replies[k]
    <3>1. k - 1 \in 1..(m - 1) /\ (k - 1) + 1 = k
      BY ONLY <2>1, <1>1, k \in 1..m
    <3> QED BY ONLY <3>1, <1>1
  <2> QED BY <2>1
<1>8. h = replies[1] /\ 1 \in 1..m
  BY <1>1 DEF h
<1>9. TypeOK'
  <2>1. nodes' \subseteq Nodes
    BY <1>0, <1>1, <1>3 DEF TypeOK, Reply
  <2>2. ctx' \in [found : Nat, out : Seq(Infos)]
    <3>1. ctx \in [found : Nat, out : Seq(Infos)]
      BY <1>0 DEF TypeOK
    <3>2. CASE h.kind = "param" /\ Collects(h) /\ Parses(h.object)
      <4>1. Info(h.object) \in Infos
        BY <1>1, <3>2 DEF Reply, Infos
      <4>2. Append(ctx.out, Info(h.object)) \in Seq(Infos)
        BY <3>1, <4>1
      <4> QED BY <1>4, <3>1, <3>2, <4>2
    <3>3. CASE ~ (h.kind = "param" /\ Collects(h) /\ Parses(h.object))
      BY <1>4, <3>1, <3>3
    <3> QED BY <3>2, <3>3
  <2> QED BY <1>0, <1>1, <1>2, <1>5, <2>1, <2>2 DEF TypeOK, q
<1>10. SeqsAreOld'
  BY <1>0, <1>1, <1>2, <1>6 DEF SeqsAreOld, q
<1>11. RegistryFirst'
  BY <1>0, <1>2 DEF RegistryFirst, Refreshes, Syncs
<1>12. \A n \in Live : (n \in nodes \/ Names(1, n)) => n \in nodes'
  <2>1. h.kind = "node_removed" => graph[h.node] = "gone"
    BY <1>0, <1>8, <1>1 DEF GraphTold, m
  <2>2. h.kind = "node_removed" => h.node \notin Live
    BY <2>1 DEF Live
  <2> QED BY <1>3, <1>8, <2>2 DEF Names
<1>13. GraphTold'
  <2>1. Live' = Live
    BY <1>2 DEF Live
  <2>2. \A k \in 1..Len(q) : q[k].kind = "node_removed" => graph[q[k].node] = "gone"
    BY <1>0, <1>1, <1>6 DEF GraphTold
  <2>3. ASSUME announces, NEW n \in Live
        PROVE  n \in nodes' \/ \E k \in 1..Len(q) : q[k].kind = "node" /\ q[k].node = n
    <3>1. CASE n \in nodes
      BY <1>12, <3>1
    <3>2. CASE \E k \in 1..m : Names(k, n)
      <4>1. PICK k \in 1..m : Names(k, n)
        BY <3>2
      <4>2. CASE k = 1
        BY <1>12, <4>1, <4>2
      <4>3. CASE k # 1
        <5>1. k - 1 \in 1..Len(q) /\ q[k - 1].kind = "node" /\ q[k - 1].node = n
          BY <1>1, <1>7, <4>1, <4>3 DEF Names
        <5> QED BY <5>1
      <4> QED BY <4>2, <4>3
    <3> QED BY <1>0, <2>3, <3>1, <3>2 DEF GraphTold, m
  <2> QED BY <1>0, <1>2, <2>1, <2>2, <2>3 DEF GraphTold, Names, q
<1>14. OwedFirst'
  <2> SUFFICES ASSUME Refreshes
               PROVE  /\ \A k \in 1..Len(q) : q[k].kind = "done" /\ q[k].seq = p =>
                           \A n \in owed : n \in nodes' \/
                             \E j \in 1..(k - 1) : q[j].kind = "node" /\ q[j].node = n
                      /\ Answered' => owed \subseteq nodes'
    BY <1>2 DEF OwedFirst, Refreshes, Done, Names, q
  <2>0. /\ \A k \in 1..m : Done(k, p) =>
              \A n \in owed : n \in nodes \/ \E j \in 1..k - 1 : Names(j, n)
        /\ Answered => owed \subseteq nodes
        /\ owed \subseteq Live
    BY <1>0 DEF OwedFirst, GraphTold, m
  <2>1. ASSUME NEW k \in 1..Len(q), q[k].kind = "done" /\ q[k].seq = p, NEW n \in owed
        PROVE  n \in nodes' \/ \E j \in 1..(k - 1) : q[j].kind = "node" /\ q[j].node = n
    <3>1. k + 1 \in 1..m /\ Done(k + 1, p) /\ (k + 1) - 1 = k
      BY <1>1, <1>6, <2>1 DEF Done
    <3>2. n \in nodes \/ \E j \in 1..k : Names(j, n)
      BY <2>0, <3>1
    <3>3. CASE n \in nodes
      BY <1>12, <2>0, <3>3
    <3>4. CASE \E j \in 1..k : Names(j, n)
      <4>1. PICK j \in 1..k : Names(j, n)
        BY <3>4
      <4>2. CASE j = 1
        BY <1>12, <2>0, <4>1, <4>2
      <4>3. CASE j # 1
        <5>1. j \in 1..m /\ j - 1 \in 1..(k - 1)
          BY <1>1, <4>3
        <5>2. q[j - 1].kind = "node" /\ q[j - 1].node = n
          BY <1>7, <4>1, <4>3, <5>1 DEF Names
        <5> QED BY <5>1, <5>2
      <4> QED BY <4>2, <4>3
    <3> QED BY <3>2, <3>3, <3>4
  <2>2. ASSUME Answered' PROVE owed \subseteq nodes'
    <3>1. CASE Answered
      BY <1>12, <2>0, <3>1
    <3>2. CASE h.kind = "done" /\ h.seq = p
      <4>1. Done(1, p)
        BY <1>8, <3>2 DEF Done
      <4>2. \A n \in owed : n \in nodes \/ \E j \in 1..1 - 1 : Names(j, n)
        BY <1>8, <2>0, <4>1
      <4> QED BY <1>12, <2>0, <4>2
    <3> QED BY <1>5, <2>2, <3>1, <3>2
  <2> QED BY <2>1, <2>2
<1>15. Querying' <=> Querying
  BY <1>2 DEF Querying, Answered
<1>16. InOrder'
  <2>1. ASSUME Querying, NEW i \in 1..Len(requests), Asks(i, p)
        PROVE  /\ offered = <<>> /\ ~ Answered'
               /\ \A k \in 1..Len(q) : ~ (q[k].kind = "done" /\ q[k].seq = p)
    <3>1. offered = <<>> /\ ~ Answered /\ \A k \in 1..m : ~ Done(k, p)
      BY <1>0, <2>1 DEF InOrder, m
    <3>2. ~ (h.kind = "done" /\ h.seq = p)
      BY <1>8, <3>1 DEF Done
    <3> QED BY <1>1, <1>5, <1>6, <3>1, <3>2 DEF Done
  <2>2. ASSUME Querying, NEW k \in 1..Len(q), NEW j \in 1..Len(q),
               q[k].kind = "param" /\ q[k].seq = p, q[j].kind = "done" /\ q[j].seq = p
        PROVE  k < j
    <3>1. k + 1 \in 1..m /\ j + 1 \in 1..m /\ Param(k + 1, p) /\ Done(j + 1, p)
      BY <1>1, <1>6, <2>2 DEF Param, Done
    <3>2. k + 1 < j + 1
      BY <1>0, <2>2, <3>1 DEF InOrder, m
    <3> QED BY <3>2, <1>1
  <2>3. ASSUME Querying, Answered', NEW k \in 1..Len(q)
        PROVE  ~ (q[k].kind = "param" /\ q[k].seq = p)
    <3>1. k + 1 \in 1..m /\ q[k] = replies[k + 1]
      BY <1>1, <1>6
    <3>2. CASE Answered
      BY <1>0, <2>3, <3>1, <3>2 DEF InOrder, Param, m
    <3>3. CASE h.kind = "done" /\ h.seq = p
      <4>1. Done(1, p) /\ 1 \in 1..m
        BY <1>8, <3>3 DEF Done
      <4>2. Param(k + 1, p) => k + 1 < 1
        BY <1>0, <2>3, <3>1, <4>1 DEF InOrder, m
      <4>3. ~ (k + 1 < 1)
        BY <1>1
      <4> QED BY <3>1, <4>2, <4>3 DEF Param
    <3> QED BY <1>5, <2>3, <3>2, <3>3
  <2>4. \A i, j \in 1..Len(requests') :
          (Asks(i, p) /\ (Asks(j, p) \/ Syncs(j, p)))' => i <= j
    BY <1>0, <1>2 DEF InOrder, Asks, Syncs
  <2> QED BY <1>2, <1>15, <2>1, <2>2, <2>3, <2>4 DEF InOrder, Asks, Syncs, Param, Done, q
<1>17. Querying => \E c, b \in Nat : Arriving(c, b)'
  <2> SUFFICES ASSUME Querying PROVE \E c, b \in Nat : Arriving(c, b)'
    OBVIOUS
  <2>1. PICK c \in Nat, b \in Nat : Arriving(c, b)
    BY <1>0 DEF QueryInv
  <2> DEFINE left == Len(offered) - c
  <2>2. /\ Len(offered) \in Nat /\ c \in 0..Len(offered) /\ b \in Nat /\ left \in Nat /\ b + left <= m
        /\ \A k \in 1..m : Param(k, p) <=> k \in b + 1..b + left
        /\ \A k \in 1..left : replies[b + k].object = offered[c + k]
        /\ Collected(c)
    <3>1. Len(offered) \in Nat
      BY <1>0, OffersAssumption, EmptySeq DEF TypeOK
    <3> QED BY <2>1, <3>1 DEF Arriving, m
  <2> HIDE DEF left
  <2>3. CASE Param(1, p)
    <3>1. b = 0 /\ left >= 1
      BY <1>8, <2>2, <2>3
    <3>2. h.kind = "param" /\ h.seq = p /\ h.object = offered[c + 1]
      <4>1. 1 \in 1..left /\ b + 1 = 1
        BY <2>2, <3>1
      <4> QED BY <4>1, <1>8, <2>2, <2>3 DEF Param
    <3>3. ~ Answered
      BY <1>0, <1>8, <2>3 DEF InOrder, m
    <3>4. Collects(h)
      BY <3>2, <3>3 DEF Querying, Collects
    <3>5. c + 1 <= Len(offered) /\ offered \in Offers
      <4>1. c + 1 <= Len(offered)
        BY <2>2, <3>1 DEF left
      <4>2. offered # <<>>
        BY <4>1, <2>2, EmptySeq
      <4> QED BY <1>0, <4>1, <4>2 DEF TypeOK
    <3>6. Collected(c + 1)'
      <4>1. Collect(c)
        BY <1>4, <3>2, <3>4 DEF Collect
      <4>2. offered' = offered /\ ctx \in [found : Nat, out : Seq(Infos)]
        BY <1>0, <1>2 DEF TypeOK
      <4> QED BY <2>2, <3>5, <4>1, <4>2, CollectOne
    <3>7. Arriving(c + 1, 0)'
      <4>1. /\ c + 1 \in 0..Len(offered) /\ 0 \in Nat
            /\ Len(offered) - (c + 1) = left - 1 /\ 0 + (left - 1) <= Len(q)
        BY <1>1, <2>2, <3>1, <3>5 DEF left
      <4>2. ASSUME NEW k \in 1..Len(q)
            PROVE (q[k].kind = "param" /\ q[k].seq = p) <=> k \in 0 + 1..0 + (left - 1)
        <5>1. k + 1 \in 1..m /\ q[k] = replies[k + 1]
          BY <1>1, <1>6
        <5>2. (q[k].kind = "param" /\ q[k].seq = p) <=> k + 1 \in b + 1..b + left
          BY <5>1, <2>2 DEF Param
        <5> QED BY <5>2, <3>1, <2>2, <1>1
      <4>3. ASSUME NEW k \in 1..(left - 1) PROVE q[0 + k].object = offered[(c + 1) + k]
        <5>1. k + 1 \in 1..left /\ k \in 1..(m - 1) /\ b + (k + 1) = k + 1
              /\ c + (k + 1) = (c + 1) + k /\ 0 + k = k
          BY ONLY <1>1, <2>2, <3>1, k \in 1..(left - 1), c \in Nat
        <5>2. replies[b + (k + 1)].object = offered[c + (k + 1)]
          BY ONLY <5>1, <2>2
        <5>3. q[k] = replies[k + 1]
          BY ONLY <5>1, <1>6
        <5> QED BY ONLY <5>1, <5>2, <5>3
      <4> QED BY <1>2, <3>6, <4>1, <4>2, <4>3 DEF Arriving, Param, q
    <3>8. c + 1 \in Nat /\ 0 \in Nat
      OBVIOUS
    <3> QED BY <3>7, <3>8
  <2>4. CASE ~ Param(1, p)
    <3> DEFINE d == IF b = 0 THEN 0 ELSE b - 1
    <3>1. ctx' = ctx
      BY <1>4, <1>8, <2>4 DEF Collects, Param
    <3>2. b = 0 => left = 0
      BY <1>8, <2>2, <2>4
    <3>3. d \in Nat
      BY <2>2
    <3>4. Arriving(c, d)'
      <4>1. d + left <= Len(q)
        BY <1>1, <2>2, <3>2
      <4>2. ASSUME NEW k \in 1..Len(q)
            PROVE (q[k].kind = "param" /\ q[k].seq = p) <=> k \in d + 1..d + left
        <5>1. k + 1 \in 1..m /\ q[k] = replies[k + 1]
          BY <1>1, <1>6
        <5>2. (q[k].kind = "param" /\ q[k].seq = p) <=> k + 1 \in b + 1..b + left
          BY <5>1, <2>2 DEF Param
        <5> QED BY <5>2, <3>2, <2>2, <1>1, SMTT(30)
      <4>3. ASSUME NEW k \in 1..left PROVE q[d + k].object = offered[c + k]
        <5>1. d = b - 1 /\ d + k \in 1..(m - 1) /\ (d + k) + 1 = b + k
          BY <1>1, <2>2, <3>2
        <5>2. q[d + k] = replies[b + k]
          BY ONLY <5>1, <1>6
        <5> QED BY <5>2, <2>2
      <4>4. Collected(c)'
        BY <1>2, <2>2, <3>1 DEF Collected
      <4> HIDE DEF d
      <4> QED BY <1>2, <2>2, <3>3, <4>1, <4>2, <4>3, <4>4 DEF Arriving, Param, q, left
    <3> QED BY <3>3, <3>4
  <2> QED BY <2>3, <2>4
<1>18. QueryInv'
  <2>1. call.pc = "idle" => ctx' = ctx
    BY <1>4 DEF Collects
  <2> QED BY <1>0, <1>2, <1>15, <1>16, <1>17, <2>1 DEF QueryInv
<1> QED BY <1>9, <1>10, <1>11, <1>13, <1>14, <1>18 DEF IInv, SyncInv

----------------------------------------------------------------------------
(* The server                                                              *)

\* A finite set listed in some order: everything in it is on the list.
LEMMA SetToSeqIs ==
  ASSUME NEW S, IsFiniteSet(S)
  PROVE  /\ SetToSeq(S) \in Seq(S)
         /\ \A x \in S : \E k \in 1..Len(SetToSeq(S)) : SetToSeq(S)[k] = x
<1> DEFINE c == Cardinality(S)
           f == SetToSeq(S)
<1>1. c \in Nat /\ ExistsBijection(1..c, S)
  BY FS_CardinalityType
<1>2. \E g \in [1..c -> S] : IsInjective(g)
  BY <1>1 DEF ExistsBijection, Bijection, Injection
<1>3. f \in [1..c -> S] /\ IsInjective(f)
  <2> HIDE DEF c
  <2>1. SetToSeq(S) = CHOOSE g \in [1..c -> S] : IsInjective(g)
    BY DEF SetToSeq, c
  <2> QED BY <1>2, <2>1
<1> HIDE DEF f
<1>4. f \in Injection(1..c, S)
  BY <1>3 DEF Injection
<1>5. Cardinality(1..c) = c
  BY <1>1, FS_Interval
<1>6. f \in Surjection(1..c, S)
  BY <1>4, <1>5, FS_Injection
<1>7. f \in Seq(S) /\ Len(f) = c
  <2> HIDE DEF c
  <2> QED BY <1>1, <1>3
<1> QED BY <1>6, <1>7 DEF f, Surjection

\* What the server announces of the nodes it has
LEMMA AllAnnounced ==
  LET more == SetToSeq({NodeMsg("node", n) : n \in Live})
  IN  /\ more \in Seq(Reply)
      /\ \A k \in 1..Len(more) : more[k].kind = "node"
      /\ \A n \in Live : \E k \in 1..Len(more) : more[k].kind = "node" /\ more[k].node = n
<1> DEFINE S == {NodeMsg("node", n) : n \in Live}
           more == SetToSeq(S)
<1>1. IsFiniteSet(S)
  <2>1. IsFiniteSet(Live)
    BY CoreAssumption, FS_Subset DEF Live
  <2> DEFINE g == [n \in Live |-> NodeMsg("node", n)]
  <2>2. g \in Surjection(Live, S)
    BY DEF Surjection
  <2> HIDE DEF g, S
  <2> QED BY <2>1, <2>2, FS_Surjection
<1>2. more \in Seq(S) /\ \A x \in S : \E k \in 1..Len(more) : more[k] = x
  BY <1>1, SetToSeqIs
<1>3. \A x \in S : x \in Reply /\ x.kind = "node"
  BY DEF NodeMsg, Reply, Live
<1> HIDE DEF more
<1>4. \A k \in 1..Len(more) : more[k] \in S
  BY <1>2, ElementOfSeq
<1>5. more \in Seq(Reply)
  <2>1. S \subseteq Reply
    BY <1>3
  <2> HIDE DEF S
  <2> QED BY <1>2, <2>1
<1>6. \A n \in Live : NodeMsg("node", n) \in S /\ NodeMsg("node", n).node = n
  BY DEF NodeMsg
<1>7. ASSUME NEW n \in Live
      PROVE  \E k \in 1..Len(more) : more[k].kind = "node" /\ more[k].node = n
  <2> HIDE DEF S
  <2>1. PICK k \in 1..Len(more) : more[k] = NodeMsg("node", n)
    BY <1>2, <1>6
  <2> QED BY <2>1, <1>3, <1>6
<1>8. \A k \in 1..Len(more) : more[k].kind = "node"
  <2> HIDE DEF S
  <2> QED BY <1>3, <1>4
<1> QED BY <1>5, <1>7, <1>8 DEF more

\* A step of the server leaves the clients alone and sends no answer, and no
\* format, that the call under way waits for.
Quiet ==
  /\ UNCHANGED <<connVars, registry, nodes, call, queryVars, offered>>
  /\ owed' \subseteq owed
  /\ \E d \in {0, 1} :
       /\ Len(requests') + d = Len(requests) /\ Len(requests') \in Nat
       /\ \A i \in 1..Len(requests') : requests'[i] = requests[i + d]
  /\ Len(replies) \in Nat /\ Len(replies') \in Nat /\ Len(replies) <= Len(replies')
  /\ \A k \in 1..Len(replies) : replies'[k] = replies[k]
  /\ \A k \in 1..Len(replies') : k > Len(replies) =>
       ~ (replies'[k].kind \in {"done", "param"} /\ replies'[k].seq = pending_seq)

LEMMA QuietStep ==
  ASSUME IInv, Quiet
  PROVE  OwedFirst' /\ QueryInv'
<1> DEFINE p == pending_seq
           r == requests'
           q == replies'
<1>0. OwedFirst /\ QueryInv /\ InOrder
  BY DEF IInv, SyncInv, QueryInv
<1>1. UNCHANGED <<listening, pending_seq, connect_result, sync_done, registry, nodes, call,
                 ctx, found, offered>>
  BY DEF Quiet, connVars, queryVars
<1>2. PICK d \in {0, 1} :
       /\ Len(r) + d = Len(requests) /\ Len(r) \in Nat
       /\ \A i \in 1..Len(r) : r[i] = requests[i + d]
  BY DEF Quiet
<1>3. /\ Len(replies) \in Nat /\ Len(q) \in Nat /\ Len(replies) <= Len(q)
      /\ \A k \in 1..Len(replies) : q[k] = replies[k]
      /\ \A k \in 1..Len(q) : k > Len(replies) =>
           ~ (q[k].kind \in {"done", "param"} /\ q[k].seq = p)
  BY DEF Quiet
<1> HIDE DEF r, q
<1>4. \A k \in 1..Len(q) :
        \/ k \in 1..Len(replies) /\ q[k] = replies[k]
        \/ k \notin 1..Len(replies) /\ ~ (q[k].kind \in {"done", "param"} /\ q[k].seq = p)
  BY <1>3
<1>5. \A i \in 1..Len(r) : i + d \in 1..Len(requests) /\ r[i] = requests[i + d]
  BY <1>2
<1>6. /\ Answered' <=> Answered
      /\ Refreshes' <=> Refreshes
      /\ Querying' <=> Querying
  BY <1>1 DEF Answered, Refreshes, Querying
<1>7. OwedFirst'
  <2>1. ASSUME Refreshes, NEW k \in 1..Len(q), q[k].kind = "done" /\ q[k].seq = p, NEW n \in owed
        PROVE  n \in nodes \/ \E j \in 1..(k - 1) : q[j].kind = "node" /\ q[j].node = n
    <3>1. k \in 1..Len(replies) /\ Done(k, p)
      BY <1>4, <2>1 DEF Done
    <3>2. n \in nodes \/ \E j \in 1..(k - 1) : Names(j, n)
      BY <1>0, <2>1, <3>1 DEF OwedFirst
    <3>3. \A j \in 1..(k - 1) : Names(j, n) => q[j].kind = "node" /\ q[j].node = n
      BY <1>3, <3>1 DEF Names
    <3> QED BY <3>2, <3>3
  <2>2. owed' \subseteq owed
    BY DEF Quiet
  <2>3. Refreshes /\ Answered => owed' \subseteq nodes
    BY <1>0, <2>2 DEF OwedFirst
  <2> QED BY <1>1, <1>6, <2>1, <2>2, <2>3 DEF OwedFirst, Done, Names, q
<1>8. InOrder'
  <2>1. \A i, j \in 1..Len(r) :
          (r[i].kind = "enum" /\ r[i].seq = p)
          /\ ((r[j].kind = "enum" /\ r[j].seq = p) \/ (r[j].kind = "sync" /\ r[j].seq = p))
          => i <= j
    <3>1. ASSUME NEW i \in 1..Len(r), NEW j \in 1..Len(r),
                 r[i].kind = "enum" /\ r[i].seq = p,
                 (r[j].kind = "enum" /\ r[j].seq = p) \/ (r[j].kind = "sync" /\ r[j].seq = p)
          PROVE  i <= j
      <4>1. i + d <= j + d
        BY <1>0, <1>5, <3>1 DEF InOrder, Asks, Syncs
      <4> QED BY <4>1
    <3> QED BY <3>1
  <2>2. ASSUME Querying, NEW i \in 1..Len(r), r[i].kind = "enum" /\ r[i].seq = p
        PROVE  /\ offered = <<>> /\ ~ Answered
               /\ \A k \in 1..Len(q) : ~ (q[k].kind = "done" /\ q[k].seq = p)
    <3>1. offered = <<>> /\ ~ Answered /\ \A k \in 1..Len(replies) : ~ Done(k, p)
      <4>1. i + d \in 1..Len(requests) /\ Asks(i + d, p)
        BY <1>5, <2>2 DEF Asks
      <4> QED BY <1>0, <2>2, <4>1 DEF InOrder
    <3> QED BY <1>4, <3>1 DEF Done
  <2>3. ASSUME Querying, NEW k \in 1..Len(q), NEW j \in 1..Len(q),
               q[k].kind = "param" /\ q[k].seq = p, q[j].kind = "done" /\ q[j].seq = p
        PROVE  k < j
    <3>1. k \in 1..Len(replies) /\ j \in 1..Len(replies) /\ Param(k, p) /\ Done(j, p)
      BY <1>4, <2>3 DEF Param, Done
    <3> QED BY <1>0, <2>3, <3>1 DEF InOrder
  <2>4. ASSUME Querying, Answered, NEW k \in 1..Len(q)
        PROVE  ~ (q[k].kind = "param" /\ q[k].seq = p)
    BY <1>0, <1>4, <2>4 DEF InOrder, Param
  <2> QED BY <1>1, <1>6, <2>1, <2>2, <2>3, <2>4 DEF InOrder, Asks, Syncs, Param, Done, q, r
<1>9. ASSUME NEW c \in Nat, NEW b \in Nat, Arriving(c, b), Len(offered) \in Nat
      PROVE  Arriving(c, b)'
  <2> DEFINE left == Len(offered) - c
  <2>1. /\ c \in 0..Len(offered) /\ b + left <= Len(replies) /\ left \in Nat
        /\ \A k \in 1..Len(replies) : Param(k, p) <=> k \in b + 1..b + left
        /\ \A k \in 1..left : replies[b + k].object = offered[c + k]
        /\ Collected(c)
    BY <1>9 DEF Arriving
  <2> HIDE DEF left
  <2>2. \A k \in 1..Len(q) : (q[k].kind = "param" /\ q[k].seq = p) <=> k \in b + 1..b + left
    BY <1>3, <1>4, <2>1 DEF Param
  <2>3. \A k \in 1..left : q[b + k].object = offered[c + k]
    <3>1. \A k \in 1..left : b + k \in 1..Len(replies)
      BY <1>3, <2>1
    <3> QED BY <1>3, <2>1, <3>1
  <2>4. b + left <= Len(q)
    BY <1>3, <2>1
  <2>5. Collected(c)'
    BY <1>1, <2>1 DEF Collected
  <2> QED BY <1>1, <2>1, <2>2, <2>3, <2>4, <2>5 DEF Arriving, Param, q, left
<1>10. Len(offered) \in Nat
  BY OffersAssumption, EmptySeq DEF IInv, TypeOK
<1>11. Querying => \E c, b \in Nat : Arriving(c, b)'
  BY <1>0, <1>9, <1>10 DEF QueryInv
<1> QED BY <1>0, <1>1, <1>6, <1>7, <1>8, <1>11 DEF QueryInv

LEMMA NodeChangesStep ==
  ASSUME IInv, NEW n \in Nodes, NodeChanges(n)
  PROVE  IInv'
<1> DEFINE q == replies'
           m == Len(replies)
           kind == IF graph[n] = "absent" THEN "node" ELSE "node_removed"
<1>0. TypeOK /\ SeqsAreOld /\ RegistryFirst /\ GraphTold
  BY DEF IInv, SyncInv
<1>1. /\ UNCHANGED <<listening, pending_seq, connect_result, sync_done, registry, nodes, call,
                     ctx, found, requests, announces, errors, offered>>
      /\ connVars' = connVars /\ queryVars' = queryVars
  BY DEF NodeChanges, connVars, queryVars
<1>2. /\ \/ graph[n] = "absent" /\ graph' = [graph EXCEPT ![n] = "live"] /\ owed' = owed
         \/ graph[n] = "live" /\ graph' = [graph EXCEPT ![n] = "gone"] /\ owed' = owed \ {n}
      /\ q = IF announces THEN Append(replies, NodeMsg(kind, n)) ELSE replies
  BY DEF NodeChanges
<1>3. NodeMsg(kind, n) \in Reply /\ replies \in Seq(Reply)
  BY <1>0 DEF NodeMsg, Reply, TypeOK
<1>4. /\ m \in Nat /\ q \in Seq(Reply) /\ Len(q) = IF announces THEN m + 1 ELSE m
      /\ \A k \in 1..m : q[k] = replies[k]
      /\ announces => q[m + 1] = NodeMsg(kind, n)
  <2>1. CASE announces
    <3> HIDE DEF kind
    <3>1. q = Append(replies, NodeMsg(kind, n))
      BY <1>2, <2>1
    <3> QED BY ONLY <1>3, <2>1, <3>1, LastPut
  <2>2. CASE ~ announces
    BY <1>2, <1>3, <2>2, LenProperties
  <2> QED BY <2>1, <2>2
<1>5. NodeMsg(kind, n).kind = kind /\ NodeMsg(kind, n).node = n
  BY DEF NodeMsg
<1> HIDE DEF q, m
<1>6. \A k \in 1..Len(q) : (k \in 1..m /\ q[k] = replies[k])
                          \/ (k = m + 1 /\ announces /\ q[k].kind = kind /\ q[k].node = n)
  BY <1>4, <1>5
<1>7. TypeOK'
  <2>1. graph' \in [Nodes -> {"absent", "live", "gone"}] /\ owed' \subseteq Nodes
    BY <1>0, <1>2 DEF TypeOK
  <2> QED BY <1>0, <1>1, <1>4, <2>1 DEF TypeOK, q
<1>8. SeqsAreOld'
  BY <1>0, <1>1, <1>6 DEF SeqsAreOld, q, m
<1>9. RegistryFirst'
  BY <1>0, <1>1 DEF RegistryFirst, Refreshes, Syncs
<1>10. GraphTold'
  <2>0. graph \in [Nodes -> {"absent", "live", "gone"}]
    BY <1>0 DEF TypeOK
  <2>1. owed' \subseteq Live'
    BY <1>0, <1>2, <2>0 DEF GraphTold, Live
  <2>2. ASSUME NEW k \in 1..Len(q), q[k].kind = "node_removed" PROVE graph'[q[k].node] = "gone"
    <3>1. CASE k \in 1..m /\ q[k] = replies[k]
      <4>1. graph[q[k].node] = "gone"
        BY <1>0, <2>2, <3>1 DEF GraphTold, m
      <4>2. q[k].node \in Nodes
        <5>1. q[k] \in Reply
          BY ONLY <1>4, k \in 1..Len(q), ElementOfSeq
        <5> QED BY <5>1, <2>2 DEF Reply
      <4> QED BY <4>1, <4>2, <1>2, <2>0
    <3>2. CASE q[k].kind = kind /\ q[k].node = n
      BY <1>2, <2>0, <2>2, <3>2
    <3> QED BY <1>6, <3>1, <3>2
  <2>3. ASSUME announces, NEW x \in Live'
        PROVE  x \in nodes \/ \E k \in 1..Len(q) : q[k].kind = "node" /\ q[k].node = x
    <3>1. CASE x \in Live
      <4>1. x \in nodes \/ \E k \in 1..m : Names(k, x)
        BY <1>0, <2>3, <3>1 DEF GraphTold, m
      <4>2. \A k \in 1..m : k \in 1..Len(q) /\ q[k] = replies[k]
        BY <1>4
      <4> QED BY <4>1, <4>2 DEF Names
    <3>2. CASE x \notin Live
      <4>1. x = n /\ kind = "node"
        BY <1>2, <2>0, <2>3, <3>2 DEF Live
      <4>2. m + 1 \in 1..Len(q) /\ q[m + 1].kind = "node" /\ q[m + 1].node = n
        BY <1>4, <1>5, <2>3, <4>1, SMTT(30)
      <4> QED BY <4>1, <4>2
    <3> QED BY <3>1, <3>2
  <2> QED BY <1>1, <2>1, <2>2, <2>3 DEF GraphTold, Names, q
<1>11. Quiet
  <2>1. owed' \subseteq owed
    BY <1>2
  <2>2. /\ Len(requests') + 0 = Len(requests) /\ Len(requests') \in Nat
        /\ \A i \in 1..Len(requests') : requests'[i] = requests[i + 0]
    BY <1>0, <1>1, LenProperties DEF TypeOK
  <2>3. /\ Len(q) \in Nat /\ m <= Len(q)
        /\ \A k \in 1..Len(q) : k > m => q[k].kind \notin {"done", "param"}
    BY <1>4, <1>6
  <2> QED BY <1>1, <1>4, <2>1, <2>2, <2>3 DEF Quiet, q, m
<1> QED BY <1>7, <1>8, <1>9, <1>10, <1>11, QuietStep DEF IInv, SyncInv

LEMMA ReportErrorStep ==
  ASSUME IInv, ReportError
  PROVE  IInv'
<1> DEFINE q == replies'
           m == Len(replies)
<1>0. TypeOK /\ SeqsAreOld /\ RegistryFirst /\ GraphTold
  BY DEF IInv, SyncInv
<1>1. /\ UNCHANGED <<listening, pending_seq, connect_result, sync_done, registry, nodes, call,
                     ctx, found, requests, announces, graph, owed, offered>>
      /\ connVars' = connVars /\ queryVars' = queryVars
      /\ q = Append(replies, Error) /\ errors' \in Nat
  BY <1>0 DEF ReportError, connVars, queryVars, TypeOK
<1>2. Error \in Reply /\ replies \in Seq(Reply) /\ Error.kind = "error"
  BY <1>0 DEF Error, Reply, TypeOK
<1>3. /\ m \in Nat /\ q \in Seq(Reply) /\ Len(q) = m + 1
      /\ \A k \in 1..m : q[k] = replies[k]
      /\ q[m + 1] = Error
  BY ONLY <1>1, <1>2, LastPut
<1> HIDE DEF q, m
<1>4. \A k \in 1..Len(q) : (k \in 1..m /\ q[k] = replies[k]) \/ (k = m + 1 /\ q[k].kind = "error")
  BY <1>2, <1>3
<1>5. TypeOK'
  BY <1>0, <1>1, <1>3 DEF TypeOK, q
<1>6. SeqsAreOld'
  BY <1>0, <1>1, <1>4 DEF SeqsAreOld, q, m
<1>7. RegistryFirst'
  BY <1>0, <1>1 DEF RegistryFirst, Refreshes, Syncs
<1>8. GraphTold'
  <2>1. Live' = Live
    BY <1>1 DEF Live
  <2>2. \A k \in 1..Len(q) : q[k].kind = "node_removed" => graph[q[k].node] = "gone"
    BY <1>0, <1>4 DEF GraphTold, m
  <2>3. ASSUME announces, NEW x \in Live
        PROVE  x \in nodes \/ \E k \in 1..Len(q) : q[k].kind = "node" /\ q[k].node = x
    <3>1. x \in nodes \/ \E k \in 1..m : Names(k, x)
      BY <1>0, <2>3 DEF GraphTold, m
    <3>2. \A k \in 1..m : k \in 1..Len(q) /\ q[k] = replies[k]
      BY <1>3, SMTT(30)
    <3> QED BY <3>1, <3>2 DEF Names
  <2> QED BY <1>0, <1>1, <2>1, <2>2, <2>3 DEF GraphTold, Names, q
<1>9. Quiet
  <2>1. /\ Len(requests') + 0 = Len(requests) /\ Len(requests') \in Nat
        /\ \A i \in 1..Len(requests') : requests'[i] = requests[i + 0]
    BY <1>0, <1>1, LenProperties DEF TypeOK
  <2>2. /\ Len(q) \in Nat /\ m <= Len(q)
        /\ \A k \in 1..Len(q) : k > m => q[k].kind \notin {"done", "param"}
    BY <1>3, <1>4
  <2> QED BY <1>1, <1>3, <2>1, <2>2 DEF Quiet, q, m
<1> QED BY <1>5, <1>6, <1>7, <1>8, <1>9, QuietStep DEF IInv, SyncInv

\* The server takes the request r and answers it with more.
LEMMA AnswerFacts ==
  ASSUME TypeOK, Answer
  PROVE  LET r == requests[1] IN
         /\ Len(requests) \in Nat \ {0} /\ r \in Request
         /\ requests' \in Seq(Request) /\ Len(requests') = Len(requests) - 1
         /\ \A i \in 1..(Len(requests) - 1) : requests'[i] = requests[i + 1]
         /\ UNCHANGED <<listening, pending_seq, connect_result, sync_done, registry, nodes, call,
                        ctx, found, graph, errors, owed>>
         /\ connVars' = connVars /\ queryVars' = queryVars
         /\ announces' = (announces \/ r.kind = "registry") /\ announces' \in BOOLEAN
         /\ offered' \in Offers \cup {<<>>}
         /\ offered' = offered \/ (r.kind = "enum" /\ r.seq = pending_seq)
         /\ \E more \in Seq(Reply) :
              /\ replies' = replies \o more
              /\ \/ /\ r.kind = "registry"
                    /\ \A k \in 1..Len(more) : more[k].kind = "node"
                    /\ \A n \in Live : \E k \in 1..Len(more) : more[k].kind = "node" /\ more[k].node = n
                 \/ /\ r.kind = "sync" /\ Len(more) = 1
                    /\ more[1].kind = "done" /\ more[1].seq = r.seq
                 \/ /\ r.kind = "enum" /\ offered' = offered
                    /\ \A k \in 1..Len(more) : more[k].kind = "error"
                 \/ /\ r.kind = "enum"
                    /\ r.seq = pending_seq => Len(more) = Len(offered')
                    /\ \A k \in 1..Len(more) :
                         /\ more[k].kind = "param" /\ more[k].seq = r.seq
                         /\ r.seq = pending_seq => more[k].object = offered'[k]
<1> DEFINE r == requests[1]
<1>1. requests # <<>> /\ requests \in Seq(Request) /\ replies \in Seq(Reply)
  BY DEF Answer, TypeOK
<1>2. /\ Len(requests) \in Nat \ {0} /\ Head(requests) = r /\ r \in Request
      /\ Tail(requests) \in Seq(Request) /\ Len(Tail(requests)) = Len(requests) - 1
      /\ \A k \in 1..(Len(requests) - 1) : Tail(requests)[k] = requests[k + 1]
  BY ONLY <1>1, InTail
<1>3. requests' = Tail(requests)
  BY DEF Answer
<1>4. /\ UNCHANGED <<listening, pending_seq, connect_result, sync_done, registry, nodes, call,
                        ctx, found, graph, errors, owed>>
      /\ connVars' = connVars /\ queryVars' = queryVars
  BY DEF Answer, connVars, queryVars
<1> HIDE DEF r
<1>5. announces \in BOOLEAN /\ offered \in Offers \cup {<<>>}
  BY DEF TypeOK
<1>6. CASE r.kind = "registry"
  <2> DEFINE more == SetToSeq({NodeMsg("node", n) : n \in Live})
  <2>1. announces' = TRUE /\ offered' = offered /\ replies' = replies \o more
    BY <1>2, <1>6 DEF Answer
  <2>2. /\ more \in Seq(Reply)
        /\ \A k \in 1..Len(more) : more[k].kind = "node"
        /\ \A n \in Live : \E k \in 1..Len(more) : more[k].kind = "node" /\ more[k].node = n
    BY AllAnnounced
  <2> HIDE DEF more
  <2> QED BY <1>2, <1>3, <1>4, <1>5, <1>6, <2>1, <2>2 DEF r
<1>7. CASE r.kind = "sync"
  <2> DEFINE x == [kind |-> "done", seq |-> r.seq]
  <2>1. announces' = announces /\ offered' = offered /\ replies' = Append(replies, x)
    BY <1>2, <1>7 DEF Answer
  <2>2. x \in Reply /\ x.kind = "done" /\ x.seq = r.seq
    BY <1>2, <1>7 DEF Request, Reply
  <2> HIDE DEF x
  <2>3. /\ <<x>> \in Seq(Reply) /\ Len(<<x>>) = 1 /\ <<x>>[1] = x
        /\ Append(replies, x) = replies \o <<x>>
    BY ONLY <1>1, <2>2, AppendIsConcat
  <2> DEFINE more == <<x>>
  <2> HIDE DEF more
  <2>4. /\ more \in Seq(Reply) /\ Len(more) = 1 /\ more[1].kind = "done" /\ more[1].seq = r.seq
        /\ replies' = replies \o more
    BY <2>1, <2>2, <2>3 DEF more
  <2> QED BY <1>2, <1>3, <1>4, <1>5, <1>7, <2>1, <2>4 DEF r
<1>8. CASE r.kind = "enum" /\ r.node \notin Live
  <2>1. announces' = announces /\ offered' = offered /\ replies' = Append(replies, Error)
    BY <1>2, <1>8 DEF Answer
  <2>2. Error \in Reply /\ Error.kind = "error"
    BY DEF Reply, Error
  <2> DEFINE more == <<Error>>
  <2>3. /\ <<Error>> \in Seq(Reply) /\ Len(<<Error>>) = 1 /\ <<Error>>[1] = Error
        /\ Append(replies, Error) = replies \o <<Error>>
    BY ONLY <1>1, <2>2, AppendIsConcat
  <2> HIDE DEF more
  <2>4. /\ more \in Seq(Reply) /\ \A k \in 1..Len(more) : more[k].kind = "error"
        /\ replies' = replies \o more
    BY <2>1, <2>2, <2>3 DEF more
  <2> QED BY <1>2, <1>3, <1>4, <1>5, <1>8, <2>1, <2>4 DEF r
<1>9. CASE r.kind = "enum" /\ r.node \in Live
  <2>1. PICK objects \in Offers :
          /\ replies' = replies \o [k \in DOMAIN objects |->
                [kind |-> "param", seq |-> r.seq, object |-> objects[k]]]
          /\ offered' = IF r.seq = pending_seq THEN objects ELSE offered
          /\ announces' = announces
    BY <1>2, <1>9 DEF Answer
  <2> DEFINE more == [k \in DOMAIN objects |->
                       [kind |-> "param", seq |-> r.seq, object |-> objects[k]]]
             n == Len(objects)
  <2>2. n \in Nat /\ DOMAIN objects = 1..n
    BY OffersAssumption
  <2>3. \A k \in 1..n : objects[k] \in Objects /\ r.seq \in Nat
    BY <1>2, <1>9, <2>2 DEF Objects, Request
  <2> HIDE DEF n
  <2>4. \A k \in 1..n : /\ more[k] \in Reply /\ more[k].kind = "param" /\ more[k].seq = r.seq
                        /\ more[k].object = objects[k]
    BY <2>2, <2>3 DEF Reply
  <2>5. more \in Seq(Reply) /\ Len(more) = n
    <3>1. DOMAIN more = 1..n /\ more = [k \in DOMAIN more |-> more[k]]
      BY <2>2
    <3> HIDE DEF more
    <3>2. more \in [1..n -> Reply]
      BY <2>4, <3>1
    <3> QED BY ONLY <2>2, <3>2
  <2>6. replies' = replies \o more
    BY <2>1
  <2> HIDE DEF more
  <2>7. Len(objects) = n
    BY DEF n
  <2>8. /\ r.seq = pending_seq => Len(more) = Len(offered')
        /\ \A k \in 1..Len(more) :
              /\ more[k].kind = "param" /\ more[k].seq = r.seq
              /\ r.seq = pending_seq => more[k].object = offered'[k]
    BY <2>1, <2>4, <2>5, <2>7
  <2>9. /\ offered' \in Offers \cup {<<>>}
        /\ offered' = offered \/ (r.kind = "enum" /\ r.seq = pending_seq)
        /\ announces' = (announces \/ r.kind = "registry") /\ announces' \in BOOLEAN
    BY <1>5, <1>9, <2>1
  <2> QED BY <1>2, <1>3, <1>4, <1>9, <2>5, <2>6, <2>8, <2>9 DEF r
<1> QED
  <2>1. r.kind \in {"registry", "sync", "enum"}
    BY <1>2 DEF Request
  <2> QED BY <2>1, <1>6, <1>7, <1>8, <1>9

LEMMA AnswerStep ==
  ASSUME IInv, Answer
  PROVE  IInv'
<1> DEFINE r == requests[1]
           l == Len(requests)
           t == requests'
           q == replies'
           m == Len(replies)
           p == pending_seq
<1>0. TypeOK /\ SeqsAreOld /\ RegistryFirst /\ GraphTold /\ OwedFirst /\ QueryInv /\ InOrder
  BY DEF IInv, SyncInv, QueryInv
<1>1. /\ l \in Nat \ {0} /\ r \in Request /\ t \in Seq(Request) /\ Len(t) = l - 1
      /\ \A i \in 1..(l - 1) : t[i] = requests[i + 1]
  BY <1>0, AnswerFacts
<1>2. /\ UNCHANGED <<listening, pending_seq, connect_result, sync_done, registry, nodes, call,
                     ctx, found, graph, errors, owed>>
      /\ connVars' = connVars /\ queryVars' = queryVars
      /\ announces' = (announces \/ r.kind = "registry") /\ announces' \in BOOLEAN
      /\ offered' \in Offers \cup {<<>>}
      /\ offered' = offered \/ (r.kind = "enum" /\ r.seq = p)
  BY <1>0, AnswerFacts
<1>3. PICK more \in Seq(Reply) :
        /\ q = replies \o more
        /\ \/ /\ r.kind = "registry"
              /\ \A k \in 1..Len(more) : more[k].kind = "node"
              /\ \A n \in Live : \E k \in 1..Len(more) : more[k].kind = "node" /\ more[k].node = n
           \/ /\ r.kind = "sync" /\ Len(more) = 1
              /\ more[1].kind = "done" /\ more[1].seq = r.seq
           \/ /\ r.kind = "enum" /\ offered' = offered
              /\ \A k \in 1..Len(more) : more[k].kind = "error"
           \/ /\ r.kind = "enum"
              /\ r.seq = p => Len(more) = Len(offered')
              /\ \A k \in 1..Len(more) :
                   /\ more[k].kind = "param" /\ more[k].seq = r.seq
                   /\ r.seq = p => more[k].object = offered'[k]
  BY <1>0, AnswerFacts
<1>4. /\ q \in Seq(Reply) /\ Len(q) = m + Len(more) /\ m \in Nat /\ Len(more) \in Nat
      /\ \A k \in 1..m : q[k] = replies[k]
      /\ \A k \in 1..Len(more) : q[m + k] = more[k]
  <2>1. replies \in Seq(Reply) /\ more \in Seq(Reply) /\ q = replies \o more
    BY <1>0, <1>3 DEF TypeOK
  <2> QED BY ONLY <2>1, AtEnd DEF m
<1>r. r = requests[1] /\ 1 \in 1..l
  BY <1>1
<1> HIDE DEF r, l, t, q, m
<1>m. \A k \in 1..Len(more) :
        \/ more[k].kind \in {"node", "error"}
        \/ r.kind = "sync" /\ more[k].kind = "done" /\ more[k].seq = r.seq
        \/ r.kind = "enum" /\ more[k].kind = "param" /\ more[k].seq = r.seq
  <2>1. Len(more) = 1 => \A k \in 1..Len(more) : k = 1
    BY <1>4
  <2> QED BY <1>3, <2>1
<1>5. \A i \in 1..Len(t) : i + 1 \in 1..l /\ t[i] = requests[i + 1]
  BY ONLY <1>1
<1>6. \A i \in 1..l : i = 1 \/ (i - 1 \in 1..Len(t) /\ t[i - 1] = requests[i])
  <2>1. ASSUME NEW i \in 1..l, i # 1 PROVE i - 1 \in 1..Len(t) /\ t[i - 1] = requests[i]
    <3>1. i - 1 \in 1..Len(t) /\ i - 1 \in 1..(l - 1) /\ (i - 1) + 1 = i
      BY ONLY <2>1, <1>1, i \in 1..l
    <3> QED BY ONLY <3>1, <1>1
  <2> QED BY <2>1
<1>7. \A k \in 1..Len(q) : \/ k \in 1..m /\ q[k] = replies[k]
                           \/ k > m /\ k - m \in 1..Len(more) /\ q[k] = more[k - m]
  <2>1. ASSUME NEW k \in 1..Len(q), k \notin 1..m
        PROVE  k > m /\ k - m \in 1..Len(more) /\ q[k] = more[k - m]
    <3>1. k > m /\ k - m \in 1..Len(more) /\ m + (k - m) = k
      BY ONLY <2>1, <1>4, k \in 1..Len(q)
    <3> QED BY ONLY <3>1, <1>4
  <2> QED BY <2>1, <1>4
<1>8. \A k \in 1..m : k \in 1..Len(q)
  BY <1>4
<1>9. TypeOK'
  BY <1>0, <1>1, <1>2, <1>4 DEF TypeOK, q, t
<1>10. SeqsAreOld'
  <2>1. \A i \in 1..Len(t) : t[i].kind \in {"sync", "enum"} => t[i].seq <= p
    BY <1>0, <1>5 DEF SeqsAreOld, l
  <2>2. r.kind \in {"sync", "enum"} => r.seq <= p
    BY <1>0, <1>r DEF SeqsAreOld, l
  <2>3. \A k \in 1..Len(more) : more[k].kind \in {"done", "param"} => more[k].seq <= p
    BY <1>m, <2>2
  <2>4. ASSUME NEW k \in 1..Len(q), q[k].kind \in {"done", "param"} PROVE q[k].seq <= p
    <3>1. CASE k \in 1..m /\ q[k] = replies[k]
      BY <1>0, <2>4, <3>1 DEF SeqsAreOld, m
    <3>2. CASE k - m \in 1..Len(more) /\ q[k] = more[k - m]
      BY <2>3, <2>4, <3>2
    <3> QED BY <1>7, <3>1, <3>2
  <2> QED BY <1>2, <2>1, <2>4 DEF SeqsAreOld, t, q
<1>11. RegistryFirst'
  <2>1. Refreshes' <=> Refreshes
    BY <1>2 DEF Refreshes
  <2>2. CASE r.kind = "registry"
    BY <1>0, <1>2, <2>1, <2>2 DEF RegistryFirst
  <2>3. CASE r.kind # "registry"
    <3>1. announces' = announces /\ registry' = registry
      BY <1>2, <2>3, <1>0 DEF TypeOK
    <3>2. registry => announces \/ \E j \in 1..Len(t) : t[j].kind = "registry"
      <4>1. \A j \in 1..l : requests[j].kind = "registry" =>
              j - 1 \in 1..Len(t) /\ t[j - 1].kind = "registry"
        BY <1>6, <1>r, <2>3
      <4> QED BY <1>0, <4>1 DEF RegistryFirst, l
    <3>3. ASSUME Refreshes, NEW i \in 1..Len(t), t[i].kind = "sync" /\ t[i].seq = p
          PROVE  announces \/ \E j \in 1..(i - 1) : t[j].kind = "registry"
      <4>1. i + 1 \in 1..l /\ Syncs(i + 1, p) /\ (i + 1) - 1 = i
        BY <1>5, <3>3 DEF Syncs
      <4>2. announces \/ \E j \in 1..i : requests[j].kind = "registry"
        BY <1>0, <3>3, <4>1 DEF RegistryFirst, l
      <4>3. ASSUME NEW j \in 1..i, requests[j].kind = "registry"
            PROVE  j - 1 \in 1..(i - 1) /\ t[j - 1].kind = "registry"
        <5>1. j \in 1..l /\ j # 1
          BY <4>1, <4>3, <1>1, <1>r, <2>3
        <5> QED BY <5>1, <1>6, <4>3
      <4> QED BY <4>2, <4>3
    <3> QED BY <1>0, <1>2, <2>1, <3>1, <3>2, <3>3 DEF RegistryFirst, Syncs, t
  <2> QED BY <2>2, <2>3
<1>12. GraphTold'
  <2>1. Live' = Live
    BY <1>2 DEF Live
  <2>2. \A k \in 1..Len(more) : more[k].kind # "node_removed"
    BY <1>3
  <2>3. \A k \in 1..Len(q) : q[k].kind = "node_removed" => graph[q[k].node] = "gone"
    BY <1>0, <1>7, <2>2 DEF GraphTold, m
  <2>4. ASSUME announces', NEW x \in Live
        PROVE  x \in nodes \/ \E k \in 1..Len(q) : q[k].kind = "node" /\ q[k].node = x
    <3>1. CASE announces
      <4>1. x \in nodes \/ \E k \in 1..m : Names(k, x)
        BY <1>0, <3>1 DEF GraphTold, m
      <4> QED BY <4>1, <1>4, <1>8 DEF Names
    <3>2. CASE r.kind = "registry"
      <4>1. PICK k \in 1..Len(more) : more[k].kind = "node" /\ more[k].node = x
        BY <1>3, <3>2
      <4>2. m + k \in 1..Len(q) /\ q[m + k] = more[k]
        BY ONLY <1>4, k \in 1..Len(more)
      <4> QED BY <4>1, <4>2
    <3> QED BY <1>2, <2>4, <3>1, <3>2
  <2> QED BY <1>0, <1>2, <2>1, <2>3, <2>4 DEF GraphTold, Names, q
<1>13. /\ Answered' <=> Answered
       /\ Refreshes' <=> Refreshes
       /\ Querying' <=> Querying
  BY <1>2 DEF Answered, Refreshes, Querying
<1>14. CASE ~ (r.kind \in {"sync", "enum"} /\ r.seq = p)
  <2>1. Quiet
    <3>1. /\ Len(t) + 1 = l /\ Len(t) \in Nat
          /\ \A i \in 1..Len(t) : t[i] = requests[i + 1]
      BY <1>1, <1>5
    <3>2. \A k \in 1..Len(more) : ~ (more[k].kind \in {"done", "param"} /\ more[k].seq = p)
      BY <1>m, <1>14
    <3>3. ASSUME NEW k \in 1..Len(q), k > m
          PROVE  ~ (q[k].kind \in {"done", "param"} /\ q[k].seq = p)
      <4>1. k - m \in 1..Len(more) /\ q[k] = more[k - m]
        BY <1>4, <1>7, <3>3
      <4> QED BY <3>2, <4>1
    <3>4. offered' = offered /\ owed' = owed /\ registry' = registry /\ nodes' = nodes /\ call' = call
      BY <1>2, <1>14
    <3>5. m \in Nat /\ Len(q) \in Nat /\ m <= Len(q) /\ \A k \in 1..m : q[k] = replies[k]
      BY <1>4
    <3> QED BY <1>2, <3>1, <3>3, <3>4, <3>5 DEF Quiet, t, q, l, m
  <2> QED BY <1>9, <1>10, <1>11, <1>12, <2>1, QuietStep DEF IInv, SyncInv
\* The answer to this call's sync: every question of it has been answered.
<1>15. CASE r.kind \in {"sync", "enum"} /\ r.seq = p
  <2>1. \A i \in 1..Len(t) : ~ (t[i].kind = "enum" /\ t[i].seq = p)
    <3>1. ASSUME NEW i \in 1..Len(t), t[i].kind = "enum" /\ t[i].seq = p PROVE FALSE
      <4>1. i + 1 \in 1..l /\ Asks(i + 1, p)
        BY <1>5, <3>1 DEF Asks
      <4>2. Asks(1, p) \/ Syncs(1, p)
        BY <1>15, <1>r DEF Asks, Syncs
      <4>3. i + 1 <= 1
        BY <1>0, <1>r, <4>1, <4>2 DEF InOrder, l
      <4> QED BY <4>3
    <3> QED BY <3>1
  <2>2. Refreshes => \A k \in 1..m : q[k].kind = "done" /\ q[k].seq = p =>
          \A n \in owed : n \in nodes \/ \E j \in 1..(k - 1) : q[j].kind = "node" /\ q[j].node = n
    <3>1. ASSUME Refreshes, NEW k \in 1..m, q[k].kind = "done" /\ q[k].seq = p, NEW n \in owed
          PROVE  n \in nodes \/ \E j \in 1..(k - 1) : q[j].kind = "node" /\ q[j].node = n
      <4>1. n \in nodes \/ \E j \in 1..(k - 1) : Names(j, n)
        BY <1>0, <1>4, <3>1 DEF OwedFirst, Done, m
      <4>2. \A j \in 1..(k - 1) : j \in 1..m
        BY <1>4
      <4> QED BY <1>4, <4>1, <4>2 DEF Names
    <3> QED BY <3>1
  <2>3. OwedFirst'
    <3>1. ASSUME Refreshes, NEW k \in 1..Len(q), k \notin 1..m, q[k].kind = "done" /\ q[k].seq = p,
                 NEW n \in owed
          PROVE  n \in nodes \/ \E j \in 1..(k - 1) : q[j].kind = "node" /\ q[j].node = n
      <4>1. k > m /\ k - m \in 1..Len(more) /\ q[k] = more[k - m]
        BY <1>7, <3>1
      <4>2. Syncs(1, p)
        <5>1. r.kind # "enum"
          BY <1>3, <3>1, <4>1
        <5> QED BY <5>1, <1>15, <1>r DEF Syncs
      <4>3. announces \/ \E j \in 1..1 - 1 : requests[j].kind = "registry"
        BY <1>0, <1>r, <3>1, <4>2 DEF RegistryFirst, l
      <4>4. announces
        BY <4>3
      <4>5. n \in nodes \/ \E j \in 1..m : Names(j, n)
        BY <1>0, <3>1, <4>4 DEF GraphTold, m
      <4>6. \A j \in 1..m : j \in 1..(k - 1)
        BY <1>4, <4>1
      <4> QED BY <1>4, <4>5, <4>6 DEF Names
    <3>2. Refreshes /\ Answered => owed \subseteq nodes
      BY <1>0 DEF OwedFirst
    <3>3. Refreshes => \A k \in 1..Len(q) : q[k].kind = "done" /\ q[k].seq = p =>
            \A n \in owed : n \in nodes \/ \E j \in 1..(k - 1) : q[j].kind = "node" /\ q[j].node = n
      BY <2>2, <3>1
    <3> QED BY <1>2, <1>13, <3>2, <3>3 DEF OwedFirst, Done, Names, q
  \* Of the queue, what this call waits for
  <2>4. Querying => /\ \A k, j \in 1..m : Param(k, p) /\ Done(j, p) => k < j
                    /\ Answered => \A k \in 1..m : ~ Param(k, p)
                    /\ r.kind = "enum" => /\ offered = <<>> /\ ~ Answered
                                          /\ \A k \in 1..m : ~ Done(k, p)
    <3>1. r.kind = "enum" => Asks(1, p)
      BY <1>15, <1>r DEF Asks
    <3> QED BY <1>0, <1>r, <3>1 DEF InOrder, l, m
  <2>5. PICK c \in Nat, b \in Nat : Querying => Arriving(c, b)
    <3>1. CASE Querying
      BY <1>0, <3>1 DEF QueryInv
    <3>2. CASE ~ Querying
      <4>1. 0 \in Nat
        OBVIOUS
      <4> QED BY <3>2, <4>1
    <3> QED BY <3>1, <3>2
  <2>6. Len(offered) \in Nat /\ Len(offered') \in Nat
    BY <1>0, <1>2, OffersAssumption, EmptySeq DEF TypeOK
  <2>7. Querying =>
          /\ c \in 0..Len(offered) /\ b + (Len(offered) - c) <= m
          /\ \A k \in 1..m : Param(k, p) <=> k \in b + 1..b + (Len(offered) - c)
          /\ \A k \in 1..(Len(offered) - c) : replies[b + k].object = offered[c + k]
          /\ Collected(c)
    BY <2>5 DEF Arriving, m
  <2>8. InOrder'
    <3>1. ASSUME Querying, NEW k \in 1..Len(q), NEW j \in 1..Len(q),
                 q[k].kind = "param" /\ q[k].seq = p, q[j].kind = "done" /\ q[j].seq = p
          PROVE  k < j
      <4>1. CASE k \in 1..m /\ j \in 1..m
        BY <1>4, <2>4, <3>1, <4>1 DEF Param, Done
      <4>2. CASE k \in 1..m /\ j \notin 1..m
        <5>1. j > m
          BY <1>7, <4>2
        <5> QED BY <4>2, <5>1, <1>4
      <4>3. CASE k \notin 1..m
        <5>1. k - m \in 1..Len(more) /\ q[k] = more[k - m]
          BY <1>7, <4>3
        <5>2. r.kind = "enum"
          BY <1>m, <3>1, <5>1
        <5>3. j \notin 1..m
          BY <1>4, <2>4, <3>1, <5>2 DEF Done
        <5>4. j - m \in 1..Len(more) /\ q[j] = more[j - m]
          BY <1>7, <5>3
        <5> QED BY <1>m, <3>1, <5>2, <5>4
      <4> QED BY <4>1, <4>2, <4>3
    <3>2. ASSUME Querying, Answered, NEW k \in 1..Len(q)
          PROVE  ~ (q[k].kind = "param" /\ q[k].seq = p)
      <4>1. CASE k \in 1..m
        BY <1>4, <2>4, <3>2, <4>1 DEF Param
      <4>2. CASE k \notin 1..m
        <5>1. k - m \in 1..Len(more) /\ q[k] = more[k - m]
          BY <1>7, <4>2
        <5> QED BY <1>m, <2>4, <3>2, <5>1
      <4> QED BY <4>1, <4>2
    <3> QED BY <1>2, <1>13, <2>1, <3>1, <3>2 DEF InOrder, Asks, Syncs, Param, Done, q, t
  <2>9. ASSUME Querying PROVE \E cc, bb \in Nat : Arriving(cc, bb)'
    <3>1. CASE offered' = offered /\ \A k \in 1..Len(more) : more[k].kind # "param"
      <4>1. ASSUME NEW k \in 1..Len(q)
            PROVE  (q[k].kind = "param" /\ q[k].seq = p) <=> k \in b + 1..b + (Len(offered) - c)
        <5>1. CASE k \in 1..m
          BY <1>4, <2>7, <2>9, <5>1 DEF Param
        <5>2. CASE k \notin 1..m
          <6>1. k > m /\ k - m \in 1..Len(more) /\ q[k] = more[k - m]
            BY <1>7, <5>2
          <6>2. ~ (k \in b + 1..b + (Len(offered) - c))
            BY <6>1, <2>6, <2>7, <2>9, <1>4
          <6> QED BY <3>1, <6>1, <6>2
        <5> QED BY <5>1, <5>2
      <4>2. ASSUME NEW k \in 1..(Len(offered) - c) PROVE q[b + k].object = offered[c + k]
        <5>1. b + k \in 1..m
          BY <2>6, <2>7, <2>9, <1>4
        <5> QED BY <5>1, <1>4, <2>7, <2>9
      <4>3. Collected(c)'
        BY <1>2, <2>7, <2>9, <3>1 DEF Collected
      <4>4. b + (Len(offered) - c) <= Len(q)
        BY <1>4, <2>6, <2>7, <2>9
      <4>5. Arriving(c, b)'
        BY <1>2, <2>7, <2>9, <3>1, <4>1, <4>2, <4>3, <4>4 DEF Arriving, Param, q
      <4> QED BY <4>5
    <3>2. CASE /\ r.kind = "enum" /\ Len(more) = Len(offered')
               /\ \A k \in 1..Len(more) :
                    more[k].kind = "param" /\ more[k].seq = p /\ more[k].object = offered'[k]
      <4>1. offered = <<>> /\ Len(offered) = 0 /\ c = 0
        BY <2>4, <2>6, <2>7, <2>9, <3>2, EmptySeq
      <4>2. \A k \in 1..m : ~ Param(k, p)
        BY <2>7, <2>9, <4>1
      <4>3. Collected(0)'
        <5>1. PICK pick \in [1..ctx.found -> 1..0] :
                /\ \A i, j \in 1..ctx.found : i < j => pick[i] < pick[j]
                /\ {pick[i] : i \in 1..ctx.found} = {k \in 1..0 : Parses(offered[k])}
                /\ Len(ctx.out) = Room(ctx.found)
                /\ \A i \in 1..Len(ctx.out) : Tells(ctx.out[i], offered[pick[i]])
          BY <2>7, <2>9, <4>1 DEF Collected
        <5>2. 1..0 = {}
          OBVIOUS
        <5>3. 1..ctx.found = {}
          BY <5>1, <5>2
        <5>4. ctx.found \in Nat /\ ctx.found = 0
          BY <1>0, <5>3, SMTT(30) DEF TypeOK
        <5>5. Room(0) = 0 /\ 1..Len(ctx.out) = {}
          BY <5>1, <5>4, CoreAssumption DEF Room
        <5> QED BY <1>2, <5>1, <5>2, <5>3, <5>5 DEF Collected
      <4>4. ASSUME NEW k \in 1..Len(q)
            PROVE  (q[k].kind = "param" /\ q[k].seq = p) <=> k \in m + 1..m + (Len(offered') - 0)
        <5>1. CASE k \in 1..m
          <6>1. ~ (k \in m + 1..m + (Len(offered') - 0))
            BY <5>1, <1>4
          <6> QED BY <1>4, <4>2, <5>1, <6>1 DEF Param
        <5>2. CASE k \notin 1..m
          <6>1. k > m /\ k - m \in 1..Len(more) /\ q[k] = more[k - m]
            BY <1>7, <5>2
          <6>2. k \in m + 1..m + (Len(offered') - 0)
            BY <6>1, <1>4, <2>6, <3>2
          <6> QED BY <3>2, <6>1, <6>2
        <5> QED BY <5>1, <5>2
      <4>5. ASSUME NEW k \in 1..(Len(offered') - 0) PROVE q[m + k].object = offered'[0 + k]
        <5>1. k \in 1..Len(more) /\ 0 + k = k
          BY <2>6, <3>2
        <5> QED BY <5>1, <1>4, <3>2
      <4>6. m + (Len(offered') - 0) <= Len(q) /\ m \in Nat /\ 0 \in 0..Len(offered')
        BY <1>4, <2>6, <3>2
      <4>7. PICK d \in Nat : d = m
        BY <4>6
      <4>8. Arriving(0, d)'
        <5>1. d + (Len(offered') - 0) <= Len(q) /\ d \in Nat /\ 0 \in 0..Len(offered')
          BY <4>6, <4>7
        <5>2. \A k \in 1..Len(q) :
                (q[k].kind = "param" /\ q[k].seq = p) <=> k \in d + 1..d + (Len(offered') - 0)
          BY <4>4, <4>7
        <5>3. \A k \in 1..(Len(offered') - 0) : q[d + k].object = offered'[0 + k]
          BY <4>5, <4>7
        <5> QED BY <1>2, <4>3, <5>1, <5>2, <5>3 DEF Arriving, Param, q
      <4>9. 0 \in Nat
        OBVIOUS
      <4> QED BY <4>8, <4>9
    <3>3. r.kind = "sync" => offered' = offered
      BY <1>2
    <3> QED BY <1>3, <1>m, <1>15, <3>1, <3>2, <3>3
  <2>10. QueryInv'
    <3>1. QueryInv
      BY <1>0
    <3> QED BY <1>2, <1>13, <2>8, <2>9, <3>1 DEF QueryInv
  <2> QED BY <1>9, <1>10, <1>11, <1>12, <2>3, <2>10 DEF IInv, SyncInv
<1> QED BY <1>14, <1>15

----------------------------------------------------------------------------
(* The theorems                                                            *)

LEMMA InitInv ==
  ASSUME Init
  PROVE  IInv
<1>1. /\ listening = FALSE /\ pending_seq = 0 /\ connect_result = "OK" /\ sync_done = FALSE
      /\ registry = FALSE /\ nodes = {} /\ ctx = NoFormats /\ found = 0
      /\ call = [pc |-> "idle", op |-> "none", node |-> NULL, result |-> "none"]
      /\ graph \in [Nodes -> {"absent", "live"}] /\ announces = FALSE /\ errors = 0
      /\ owed = {} /\ offered = <<>> /\ requests = <<>> /\ replies = <<>>
  BY DEF Init
<1>2. requests \in Seq(Request) /\ replies \in Seq(Reply) /\ <<>> \in Seq(Infos)
      /\ Len(requests) = 0 /\ Len(replies) = 0
  BY <1>1, EmptySeq
<1>3. 1..Len(requests) = {} /\ 1..Len(replies) = {}
  BY <1>2
<1>4. TypeOK
  BY <1>1, <1>2 DEF TypeOK, Ops, NoFormats
<1>5. ~ Refreshes /\ ~ Querying
  BY <1>1 DEF Refreshes, Querying
<1>6. SyncInv
  BY <1>1, <1>3, <1>5 DEF SyncInv, SeqsAreOld, RegistryFirst, GraphTold, OwedFirst
<1>7. QueryInv
  BY <1>1, <1>3, <1>5 DEF QueryInv, InOrder
<1> QED BY <1>4, <1>6, <1>7 DEF IInv

LEMMA CallStep ==
  ASSUME IInv, Connect \/ Bind \/ RegistrySync \/ \E n \in Nodes : EnumFormats(n)
  PROVE  IInv'
<1>1. PICK op, node, sent : Sends(op, node, sent) /\ Sync(op, node, sent)
  <2>1. CASE Connect
    BY <2>1 DEF Connect, Sends
  <2>2. CASE Bind
    BY <2>2 DEF Bind, Sends
  <2>3. CASE RegistrySync
    BY <2>3 DEF RegistrySync, Sends
  <2>4. CASE \E n \in Nodes : EnumFormats(n)
    BY <2>4 DEF EnumFormats, Sends
  <2> QED BY <2>1, <2>2, <2>3, <2>4
<1> QED BY <1>1, SendsStep

LEMMA StutterStep ==
  ASSUME IInv, UNCHANGED vars
  PROVE  IInv'
<1>1. UNCHANGED <<listening, pending_seq, connect_result, sync_done, registry, nodes, call, ctx,
                  found, requests, replies, graph, announces, errors, owed, offered>>
  BY DEF vars, connVars, queryVars, serverVars
<1>2. TypeOK'
  BY <1>1 DEF IInv, TypeOK
<1>3. SyncInv'
  BY <1>1 DEF IInv, SyncInv, SeqsAreOld, RegistryFirst, GraphTold, OwedFirst,
              Refreshes, Answered, Syncs, Done, Names, Live
<1>4. QueryInv'
  <2>1. InOrder'
    BY <1>1 DEF IInv, QueryInv, InOrder, Querying, Answered, Asks, Syncs, Done, Param
  <2>2. \A c, b \in Nat : Arriving(c, b) => Arriving(c, b)'
    BY <1>1, ZenonT(40) DEF Arriving, Collected, Param
  <2> QED BY <1>1, <2>1, <2>2 DEF IInv, QueryInv, Querying, Answered
<1> QED BY <1>2, <1>3, <1>4 DEF IInv

\* IInv holds in every state: what is on its way makes up for what is missing.
THEOREM InvariantHolds == Spec => []IInv
<1>1. Init => IInv
  BY InitInv
<1>2. ASSUME IInv, [Next]_vars PROVE IInv'
  <2>1. CASE Connect \/ Bind \/ RegistrySync \/ \E n \in Nodes : EnumFormats(n)
    BY <1>2, <2>1, CallStep
  <2>2. CASE BindAgain
    BY <1>2, <2>2, BindAgainStep
  <2>3. CASE Wake \/ Timeout
    BY <1>2, <2>3, ReturnStep
  <2>4. CASE LoopStep
    BY <1>2, <2>4, ReceiveStep
  <2>5. CASE Answer
    BY <1>2, <2>5, AnswerStep
  <2>6. CASE \E n \in Nodes : NodeChanges(n)
    BY <1>2, <2>6, NodeChangesStep
  <2>7. CASE ReportError
    BY <1>2, <2>7, ReportErrorStep
  <2>8. CASE UNCHANGED vars
    BY <1>2, <2>8, StutterStep
  <2> QED BY <1>2, <2>1, <2>2, <2>3, <2>4, <2>5, <2>6, <2>7, <2>8 DEF Next
<1> QED BY <1>1, <1>2, PTL DEF Spec

\* Every variable keeps its type, and only what was asked for is in a queue.
THEOREM TypeCorrect == Spec => []TypeOK
<1>1. IInv => TypeOK
  BY DEF IInv
<1> QED BY <1>1, InvariantHolds, PTL

\* After a round-trip that succeeds the cache has every node that the server had
\* at the request and still has, whatever timed out, failed or went before it.
THEOREM SyncDelivered == Spec => []SyncDelivers
<1>1. IInv => SyncDelivers
  BY DEF IInv, SyncInv, OwedFirst, SyncDelivers, Returned, Refreshes, Answered
<1> QED BY <1>1, InvariantHolds, PTL

\* A query that succeeds has counted every format its node offered, in order,
\* and wrote what there was room for; one that fails has counted none.
THEOREM EnumCompletes == Spec => []EnumIsComplete
<1>1. ASSUME IInv PROVE EnumIsComplete
  <2>1. ASSUME Returned({"enum"})
        PROVE  \E pick \in [1..found -> DOMAIN offered] :
                 /\ \A i, j \in 1..found : i < j => pick[i] < pick[j]
                 /\ {pick[i] : i \in 1..found} = {k \in DOMAIN offered : Parses(offered[k])}
                 /\ DOMAIN ctx.out = 1..Room(found)
                 /\ \A i \in DOMAIN ctx.out : Tells(ctx.out[i], offered[pick[i]])
    <3>1. Querying /\ Answered /\ call.pc = "idle"
      BY <2>1 DEF Returned, Querying, Answered
    <3>2. found = ctx.found
      BY <1>1, <3>1 DEF IInv, QueryInv
    <3>3. PICK c \in Nat, b \in Nat : Arriving(c, b)
      BY <1>1, <3>1 DEF IInv, QueryInv
    <3>4. Len(offered) \in Nat /\ DOMAIN offered = 1..Len(offered) /\ Len(replies) \in Nat
      BY <1>1, OffersAssumption, EmptySeq, LenProperties DEF IInv, TypeOK
    <3>5. \A k \in 1..Len(replies) : ~ Param(k, pending_seq)
      BY <1>1, <3>1 DEF IInv, QueryInv, InOrder
    <3>6. c = Len(offered)
      <4> DEFINE left == Len(offered) - c
      <4>1. /\ c \in 0..Len(offered) /\ b + left <= Len(replies)
            /\ \A k \in 1..Len(replies) : Param(k, pending_seq) <=> k \in b + 1..b + left
        BY <3>3 DEF Arriving
      <4>2. left >= 1 => b + 1 \in 1..Len(replies) /\ b + 1 \in b + 1..b + left
        BY <3>4, <4>1
      <4>3. ~ (left >= 1)
        BY <3>5, <4>1, <4>2
      <4> DEFINE n == Len(offered)
      <4>4. n \in Nat /\ c \in 0..n /\ ~ (n - c >= 1)
        BY <3>4, <4>1, <4>3
      <4> HIDE DEF n
      <4>5. c = n
        BY ONLY <4>4
      <4> QED BY <4>5 DEF n
    <3>7. PICK pick \in [1..found -> DOMAIN offered] :
            /\ \A i, j \in 1..found : i < j => pick[i] < pick[j]
            /\ {pick[i] : i \in 1..found} = {k \in DOMAIN offered : Parses(offered[k])}
            /\ Len(ctx.out) = Room(found)
            /\ \A i \in 1..Len(ctx.out) : Tells(ctx.out[i], offered[pick[i]])
      BY <3>2, <3>3, <3>4, <3>6 DEF Arriving, Collected
    <3>8. DOMAIN ctx.out = 1..Len(ctx.out)
      <4>1. ctx.out \in Seq(Infos)
        BY <1>1 DEF IInv, TypeOK
      <4> QED BY <4>1, LenProperties
    <3> QED BY <3>7, <3>8
  <2>2. call.pc = "idle" /\ call.result # "OK" => found = 0
    BY <1>1 DEF IInv, QueryInv
  <2> QED BY <2>1, <2>2, Zenon DEF EnumIsComplete
<1> QED BY <1>1, InvariantHolds, PTL

=============================================================================
