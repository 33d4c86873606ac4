---------------------------- MODULE MetricProofs ----------------------------
(***************************************************************************)
(* Proofs about the metric. Of GaussBlur, for lines of any length, any     *)
(* radius and any integer coefficients: the scans of the reference and of  *)
(* the port compute the response of one filter and nothing around the line *)
(* gets into it. Of Dispatch: every element is found by one invocation. Of *)
(* Ssimulacra2, for images of any dimensions: the loop of the CPU engine   *)
(* makes the scales of the reference, and score.rs adds up what Score()    *)
(* does.                                                                   *)
(***************************************************************************)
EXTENDS GaussBlur, Ssimulacra2, TLAPS, FiniteSetTheorems, SequenceTheorems

-----------------------------------------------------------------------------
(* Counting.                                                               *)

(* A set of numbers that is not empty has a least one.                     *)
LEMMA LeastNumber ==
    ASSUME NEW T \in SUBSET Nat, T # {}
    PROVE  \E m \in T : \A n \in T : m <= n
<1> DEFINE Below == {0 .. n : n \in T}
           R == StrictSubsetOrdering(Nat)
<1>1. IsWellFoundedOn(R, FiniteSubsetsOf(Nat))
  BY FS_StrictSubsetOrderingWellFounded
<1>2. Below \subseteq FiniteSubsetsOf(Nat)
  <2>1. \A n \in T : IsFiniteSet(0 .. n) /\ 0 .. n \in SUBSET Nat
    BY FS_Interval
  <2> QED
    BY <2>1 DEF FiniteSubsetsOf
<1>3. Below # {}
  OBVIOUS
<1> HIDE DEF R, Below
<1>4. PICK x \in Below : \A y \in Below : ~(<<y, x>> \in R)
  BY <1>1, <1>2, <1>3, WFMin
<1> USE DEF R, Below
<1>5. PICK m \in T : x = 0 .. m
  BY <1>4
<1>6. ASSUME NEW n \in T, n < m PROVE FALSE
  <2>1. 0 .. n \subseteq 0 .. m /\ m \in 0 .. m /\ m \notin 0 .. n
    BY <1>6
  <2>2. <<0 .. n, 0 .. m>> \in R
    BY <2>1 DEF StrictSubsetOrdering
  <2> QED
    BY <1>4, <1>5, <2>2
<1> QED
  BY <1>6

(* What holds of 0, and of n + 1 if it holds of n, holds up to any number. *)
LEMMA StepByStep ==
    ASSUME NEW N \in Nat, NEW S, 0 \in S, \A n \in 0 .. N - 1 : n \in S => n + 1 \in S
    PROVE  \A n \in 0 .. N : n \in S
<1> SUFFICES ASSUME {n \in 0 .. N : n \notin S} # {} PROVE FALSE
  OBVIOUS
<1>1. PICK m \in {n \in 0 .. N : n \notin S} : \A n \in {k \in 0 .. N : k \notin S} : m <= n
  <2> DEFINE T == {n \in 0 .. N : n \notin S}
  <2>1. T \in SUBSET Nat /\ T # {}
    OBVIOUS
  <2> HIDE DEF T
  <2>2. \E m \in T : \A n \in T : m <= n
    BY <2>1, LeastNumber
  <2> QED
    BY <2>2 DEF T
<1>2. m # 0 /\ m - 1 \in 0 .. N - 1 /\ m - 1 \in 0 .. N /\ (m - 1) + 1 = m
  OBVIOUS
<1>3. m - 1 \in S
  BY <1>1, <1>2
<1> QED
  BY <1>2, <1>3

(* n blocks of m, one after the other.                                     *)
InBlocks(B, m, n) == [i \in 1 .. m * n |-> B[(i - 1) \div m + 1][((i - 1) % m) + 1]]

AreBlocks(B, m, N) == \E T : B \in [1 .. N -> [1 .. m -> T]]

LEMMA BlockIndices ==
    ASSUME NEW m \in {2, 4, 6}, NEW n \in Nat
    PROVE  /\ \A i \in 1 .. m * n : (i - 1) \div m + 1 \in 1 .. n /\ ((i - 1) % m) + 1 \in 1 .. m
           /\ \A i \in m * n + 1 .. m * (n + 1) :
                /\ (i - 1) \div m + 1 = n + 1 /\ ((i - 1) % m) + 1 = i - m * n
                /\ i - m * n \in 1 .. m
           /\ m * n \in Nat /\ m * (n + 1) = m * n + m
<1>1. CASE m = 2
  BY <1>1
<1>2. CASE m = 4
  BY <1>2
<1>3. CASE m = 6
  BY <1>3
<1> QED
  BY <1>1, <1>2, <1>3

LEMMA NextBlock ==
    ASSUME NEW m \in {2, 4, 6}, NEW n \in Nat, NEW N \in Nat, n < N,
           NEW B, AreBlocks(B, m, N)
    PROVE  InBlocks(B, m, n) \o B[n + 1] = InBlocks(B, m, n + 1)
<1> PICK T : B \in [1 .. N -> [1 .. m -> T]]
  BY DEF AreBlocks
<1> DEFINE p == InBlocks(B, m, n)
           q == B[n + 1]
           r == InBlocks(B, m, n + 1)
<1>0. m * n \in Nat /\ m * (n + 1) = m * n + m /\ m \in Nat /\ m * (n + 1) \in Nat
  BY BlockIndices
<1>1. p \in [1 .. m * n -> T]
  <2>1. \A i \in 1 .. m * n : B[(i - 1) \div m + 1][((i - 1) % m) + 1] \in T
    BY BlockIndices
  <2> QED
    BY <2>1 DEF InBlocks
<1>2. q \in [1 .. m -> T]
  OBVIOUS
<1>3. r \in [1 .. m * (n + 1) -> T]
  <2>1. \A i \in 1 .. m * (n + 1) : B[(i - 1) \div m + 1][((i - 1) % m) + 1] \in T
    <3>1. \A i \in 1 .. m * (n + 1) : (i - 1) \div m + 1 \in 1 .. n + 1 /\ ((i - 1) % m) + 1 \in 1 .. m
      BY BlockIndices
    <3> QED
      BY <3>1
  <2> QED
    BY <2>1 DEF InBlocks
<1>4. \A i \in 1 .. m * n : r[i] = p[i]
  BY <1>0 DEF InBlocks
<1>5. \A i \in m * n + 1 .. m * (n + 1) : r[i] = q[i - m * n]
  <2> SUFFICES ASSUME NEW i \in m * n + 1 .. m * (n + 1) PROVE r[i] = q[i - m * n]
    OBVIOUS
  <2>1. i \in 1 .. m * (n + 1)
    BY <1>0
  <2>2. r[i] = B[(i - 1) \div m + 1][((i - 1) % m) + 1]
    BY <2>1 DEF InBlocks
  <2> QED
    BY <2>2, BlockIndices
<1> HIDE DEF p, q, r
<1>6. p \in Seq(T) /\ Len(p) = m * n /\ q \in Seq(T) /\ Len(q) = m /\ r \in Seq(T) /\ Len(r) = m * n + m
  BY <1>0, <1>1, <1>2, <1>3
<1>7. /\ p \o q \in Seq(T) /\ Len(p \o q) = m * n + m
      /\ \A i \in 1 .. m * n + m :
            (p \o q)[i] = IF i <= m * n THEN p[i] ELSE q[i - m * n]
  BY <1>6, ConcatProperties
<1>8. \A i \in 1 .. m * n + m : (p \o q)[i] = r[i]
  <2> SUFFICES ASSUME NEW i \in 1 .. m * n + m PROVE (p \o q)[i] = r[i]
    OBVIOUS
  <2>1. i \in 1 .. m * n \/ (i \in m * n + 1 .. m * (n + 1) /\ ~(i <= m * n))
    BY <1>0
  <2> QED
    BY <2>1, <1>0, <1>4, <1>5, <1>7
<1>9. p \o q = r
  BY <1>6, <1>7, <1>8, SeqEqual
<1> QED
  BY <1>9 DEF p, q, r

(* A loop that appends a block each time leaves them so ...                *)
Unrolled(B, N, g) == [n \in 0 .. N |-> IF n = 0 THEN <<>> ELSE g[n - 1] \o B[n]]

LEMMA BlocksExist ==
    ASSUME NEW m \in {2, 4, 6}, NEW N \in Nat, NEW B, AreBlocks(B, m, N)
    PROVE  \E g : g = Unrolled(B, N, g)
<1> DEFINE given == [n \in 0 .. N |-> InBlocks(B, m, n)]
<1>1. InBlocks(B, m, 0) = <<>>
  <2>1. m * 0 = 0
    BY BlockIndices
  <2> QED
    BY <2>1 DEF InBlocks
<1>2. ASSUME NEW n \in 0 .. N
      PROVE  given[n] = IF n = 0 THEN <<>> ELSE given[n - 1] \o B[n]
  <2>1. CASE n = 0
    BY <1>1, <2>1
  <2>2. CASE n # 0
    <3>1. n - 1 \in Nat /\ n - 1 < N /\ (n - 1) + 1 = n /\ n - 1 \in 0 .. N
      BY <2>2
    <3>2. \A k \in Nat : k < N => InBlocks(B, m, k) \o B[k + 1] = InBlocks(B, m, k + 1)
      BY NextBlock
    <3>3. InBlocks(B, m, n - 1) \o B[n] = InBlocks(B, m, n)
      BY <3>1, <3>2
    <3>4. given[n] = InBlocks(B, m, n) /\ given[n - 1] = InBlocks(B, m, n - 1)
      BY <3>1
    <3> HIDE DEF given
    <3> QED
      BY <2>2, <3>3, <3>4
  <2> QED
    BY <2>1, <2>2
<1>3. given = [n \in 0 .. N |-> given[n]]
  OBVIOUS
<1> HIDE DEF given
<1>4. given = Unrolled(B, N, given)
  BY <1>2, <1>3, Zenon DEF Unrolled
<1> QED
  BY <1>4

(* ... and nothing else.                                                   *)
LEMMA Blocks ==
    ASSUME NEW m \in {2, 4, 6}, NEW N \in Nat, NEW B, AreBlocks(B, m, N),
           NEW f, f = Unrolled(B, N, f)
    PROVE  f[N] = InBlocks(B, m, N)
<1>1. \A n \in 0 .. N : f[n] = IF n = 0 THEN <<>> ELSE f[n - 1] \o B[n]
  BY Zenon DEF Unrolled
<1> DEFINE S == {n \in 0 .. N : f[n] = InBlocks(B, m, n)}
<1>4. 0 \in S
  <2>1. m * 0 = 0 /\ 0 \in 0 .. N
    BY BlockIndices
  <2>2. InBlocks(B, m, 0) = <<>>
    BY <2>1 DEF InBlocks
  <2>3. f[0] = <<>>
    BY <2>1, <1>1, Zenon
  <2> QED
    BY <2>1, <2>2, <2>3
<1>5. ASSUME NEW n \in 0 .. N - 1, n \in S PROVE n + 1 \in S
  <2>1. n \in Nat /\ n < N /\ n + 1 \in 0 .. N /\ n + 1 # 0 /\ (n + 1) - 1 = n
    OBVIOUS
  <2>2. InBlocks(B, m, n) \o B[n + 1] = InBlocks(B, m, n + 1)
    BY <2>1, NextBlock
  <2>3. f[n + 1] = f[n] \o B[n + 1]
    BY <2>1, <1>1
  <2>4. f[n] = InBlocks(B, m, n)
    BY <1>5
  <2>5. f[n + 1] = InBlocks(B, m, n + 1)
    BY <2>2, <2>3, <2>4
  <2> QED
    BY <2>1, <2>5
<1> HIDE DEF S
<1>6. N \in S
  <2>1. N \in 0 .. N
    OBVIOUS
  <2> QED
    BY <1>4, <1>5, <2>1, StepByStep
<1> QED
  BY <1>6 DEF S

(* A sequence grows by its next value.                                     *)
LEMMA Appended ==
    ASSUME NEW f, NEW n \in Nat
    PROVE  Append([i \in 1 .. n |-> f[i]], f[n + 1]) = [i \in 1 .. n + 1 |-> f[i]]
<1> DEFINE T == {f[i] : i \in 1 .. n + 1}
           s == [i \in 1 .. n |-> f[i]]
           x == f[n + 1]
           t == [i \in 1 .. n + 1 |-> f[i]]
<1>1. s \in [1 .. n -> T] /\ x \in T /\ t \in [1 .. n + 1 -> T]
  OBVIOUS
<1>2. \A i \in 1 .. n : s[i] = t[i]
  OBVIOUS
<1>3. t[n + 1] = x
  OBVIOUS
<1> HIDE DEF T, s, x, t
<1>4. s \in Seq(T) /\ Len(s) = n /\ t \in Seq(T) /\ Len(t) = n + 1
  BY <1>1
<1>5. /\ Append(s, x) \in Seq(T) /\ Len(Append(s, x)) = n + 1
      /\ \A i \in 1 .. n : Append(s, x)[i] = s[i]
      /\ Append(s, x)[n + 1] = x
  BY <1>1, <1>4, AppendProperties
<1>6. \A i \in 1 .. n + 1 : Append(s, x)[i] = t[i]
  <2>1. \A i \in 1 .. n + 1 : i \in 1 .. n \/ i = n + 1
    OBVIOUS
  <2> QED
    BY <2>1, <1>2, <1>3, <1>5
<1>7. Append(s, x) = t
  BY <1>4, <1>5, <1>6, SeqEqual
<1> QED
  BY <1>7 DEF s, x, t

-----------------------------------------------------------------------------
VARIABLE scan           \* the state of a scan

FiltersOf == [N : Nat \ {0}, n2 : Int, d1 : Int]

(* Nothing is known of the memory around a line.                           *)
IsLine(line, length) == \A i \in 0 .. length - 1 : line[i] \in Int

(* A step of four outputs is four steps of the recurrence, whatever the    *)
(* coefficients: the expansion of CreateRecursiveGaussian is right.        *)
LEMMA Expansion ==
    ASSUME NEW g \in FiltersOf, NEW p \in Int, NEW pp \in Int,
           NEW i0 \in Int, NEW i1 \in Int, NEW i2 \in Int, NEW i3 \in Int,
           NEW o0, NEW o1, NEW o2, NEW o3,
           o0 = Recurrence(g, i0, p, pp), o1 = Recurrence(g, i1, o0, p),
           o2 = Recurrence(g, i2, o1, o0), o3 = Recurrence(g, i3, o2, o1)
    PROVE  /\ o0 = i0 * mul_in(g, 0) + mul_prev2(g, 0) * pp + mul_prev(g, 0) * p
           /\ o1 = i0 * mul_in(g, 1) + mul_in(g, 0) * i1
                   + mul_prev2(g, 1) * pp + mul_prev(g, 1) * p
           /\ o2 = i0 * mul_in(g, 2) + mul_in(g, 1) * i1 + mul_in(g, 0) * i2
                   + mul_prev2(g, 2) * pp + mul_prev(g, 2) * p
           /\ o3 = i0 * mul_in(g, 3) + mul_in(g, 2) * i1 + mul_in(g, 1) * i2
                   + mul_in(g, 0) * i3 + mul_prev2(g, 3) * pp + mul_prev(g, 3) * p
<1> DEFINE n == g.n2
           d == g.d1
<1>0. n \in Int /\ d \in Int
  BY DEF FiltersOf
<1>1. /\ o0 = n * i0 - d * p - pp
      /\ o1 = n * i1 - d * o0 - p
      /\ o2 = n * i2 - d * o1 - o0
      /\ o3 = n * i3 - d * o2 - o1
  BY DEF Recurrence
<1>2. /\ mul_in(g, 0) = n
      /\ mul_in(g, 1) = -d * n
      /\ mul_in(g, 2) = d * d * n - n
      /\ mul_in(g, 3) = -d * d * d * n + 2 * d * n
  BY DEF mul_in
<1>3. /\ mul_prev(g, 0) = -d
      /\ mul_prev(g, 1) = d * d - 1
      /\ mul_prev(g, 2) = -d * d * d + 2 * d
      /\ mul_prev(g, 3) = d * d * d * d - 3 * d * d + 1
  BY DEF mul_prev
<1>4. /\ mul_prev2(g, 0) = -1
      /\ mul_prev2(g, 1) = d
      /\ mul_prev2(g, 2) = -d * d + 1
      /\ mul_prev2(g, 3) = d * d * d - 2 * d
  BY DEF mul_prev2
<1> HIDE DEF n, d
<1>5. o0 \in Int /\ o1 \in Int /\ o2 \in Int /\ o3 \in Int
  BY <1>0, <1>1
<1>6. o0 = i0 * n + (-1) * pp + (-d) * p
  BY <1>0, <1>1
<1>7. o1 = i0 * (-d * n) + n * i1 + d * pp + (d * d - 1) * p
  <2>1. o1 = n * i1 - d * (n * i0 - d * p - pp) - p
    BY <1>1
  <2> QED
    BY <2>1, <1>0
<1>8. o2 = i0 * (d * d * n - n) + (-d * n) * i1 + n * i2 + (-d * d + 1) * pp
           + (-d * d * d + 2 * d) * p
  <2>1. o2 = n * i2 - d * (n * i1 - d * (n * i0 - d * p - pp) - p) - (n * i0 - d * p - pp)
    BY <1>1
  <2> QED
    BY <2>1, <1>0
<1>9. o3 = i0 * (-d * d * d * n + 2 * d * n) + (d * d * n - n) * i1 + (-d * n) * i2
           + n * i3 + (d * d * d - 2 * d) * pp + (d * d * d * d - 3 * d * d + 1) * p
  <2>1. o3 = n * i3 - d * (n * i2 - d * (n * i1 - d * (n * i0 - d * p - pp) - p)
                                  - (n * i0 - d * p - pp))
             - (n * i1 - d * (n * i0 - d * p - pp) - p)
    BY <1>1
  <2> QED
    BY <2>1, <1>0
<1> QED
  BY <1>2, <1>3, <1>4, <1>6, <1>7, <1>8, <1>9

-----------------------------------------------------------------------------
(* What a step of a scan is to add up, and when y is the filter's response *)
(* to a line: for n beyond the line y is arbitrary.                        *)
Sum(g, line, length, n) ==
    Pixel(line, length, n - g.N - 1) + Pixel(line, length, n + g.N - 1)

Responses(g, line, length) == {y \in [Int -> Int] : IsResponse(g, line, length, y)}

LEMMA Responds ==
    ASSUME NEW g \in FiltersOf, NEW length \in Nat \ {0}, NEW line, IsLine(line, length),
           NEW y \in Responses(g, line, length), NEW n \in 1 - g.N .. length - 1
    PROVE  y[n] = Recurrence(g, Sum(g, line, length, n), y[n - 1], y[n - 2])
  BY DEF Responses, IsResponse, Sum

(* Before the line there are only zeros; where the code checks one border, *)
(* or none, the other is far enough.                                       *)
LEMMA PixelsSummed ==
    ASSUME NEW g \in FiltersOf, NEW length \in Nat \ {0}, NEW line, IsLine(line, length),
           NEW n \in 1 - g.N .. length - 1
    PROVE  /\ Sum(g, line, length, n) \in Int
           /\ LeftVal(g, line, n) + RightVal(g, line, length, n) = Sum(g, line, length, n)
           /\ n < g.N + 1 => RightVal(g, line, length, n) = Sum(g, line, length, n)
           /\ n >= g.N + 1 => line[n - g.N - 1] + RightVal(g, line, length, n)
                              = Sum(g, line, length, n)
           /\ n >= g.N + 1 /\ n + g.N - 1 < length
                => Unchecked(g, line, n) = Sum(g, line, length, n)
<1>1. g.N \in Nat \ {0}
  BY DEF FiltersOf
<1> QED
  BY <1>1 DEF IsLine, LeftVal, RightVal, Unchecked, Sum, Pixel

(* What a scan has done when it comes to pixel s.n.                        *)
Done(length, y, s) ==
    /\ s.out \in [0 .. length - 1 -> Int]
    /\ \A i \in 0 .. length - 1 : i < s.n => s.out[i] = y[i]

RowInv(g, length, y, s) ==
    /\ s \in [n : 1 - g.N .. length, prev : Int, prev2 : Int,
              out : [0 .. length - 1 -> Int], lane : [0 .. length - 1 -> Int]]
    /\ s.prev = y[s.n - 1] /\ s.prev2 = y[s.n - 2]
    /\ Done(length, y, s)

LEMMA RowStarts ==
    ASSUME NEW g \in FiltersOf, NEW length \in Nat \ {0}, NEW line, IsLine(line, length),
           NEW y \in Responses(g, line, length)
    PROVE  RowInv(g, length, y, ScanStart(g, length))
<1>1. g.N \in Nat \ {0}
  BY DEF FiltersOf
<1>2. y[-g.N] = 0 /\ y[-g.N - 1] = 0
  BY <1>1 DEF Responses, IsResponse
<1> QED
  BY <1>1, <1>2 DEF RowInv, ScanStart, Done

LEMMA SingleStepKeeps ==
    ASSUME NEW g \in FiltersOf, NEW length \in Nat \ {0}, NEW line, IsLine(line, length),
           NEW y \in Responses(g, line, length), NEW s, RowInv(g, length, y, s),
           s.n < length
    PROVE  RowInv(g, length, y, SingleStep(g, line, length, s))
<1> DEFINE sum == LeftVal(g, line, s.n) + RightVal(g, line, length, s.n)
           o == sum * mul_in(g, 0) + mul_prev2(g, 0) * s.prev2 + mul_prev(g, 0) * s.prev
           t == SingleStep(g, line, length, s)
<1>1. g.N \in Nat \ {0} /\ g.n2 \in Int /\ g.d1 \in Int /\ s.n \in 1 - g.N .. length - 1
  BY DEF FiltersOf, RowInv
<1>2. s.prev \in Int /\ s.prev2 \in Int /\ y \in [Int -> Int]
  BY DEF RowInv, Responses
<1>3. sum = Sum(g, line, length, s.n) /\ sum \in Int
  BY <1>1, PixelsSummed
<1>4. o = y[s.n] /\ o \in Int
  <2>1. y[s.n] = Recurrence(g, sum, s.prev, s.prev2)
    <3>1. y[s.n] = Recurrence(g, Sum(g, line, length, s.n), y[s.n - 1], y[s.n - 2])
      BY <1>1, Responds
    <3>2. s.prev = y[s.n - 1] /\ s.prev2 = y[s.n - 2]
      BY DEF RowInv
    <3> HIDE DEF sum
    <3> QED
      BY <3>1, <3>2, <1>3
  <2>2. o = Recurrence(g, sum, s.prev, s.prev2)
    <3> HIDE DEF sum
    <3> QED
      BY <1>1, <1>2, <1>3 DEF Recurrence, mul_in, mul_prev, mul_prev2
  <2> QED
    BY <2>1, <2>2, <1>1, <1>2
<1>5. t = [s EXCEPT !.n = @ + 1, !.prev = o, !.prev2 = s.prev,
                    !.out = IF s.n >= 0 THEN [@ EXCEPT ![s.n] = o] ELSE @]
  BY DEF SingleStep
<1> HIDE DEF o, t
<1>6. s \in [n : 1 - g.N .. length, prev : Int, prev2 : Int,
            out : [0 .. length - 1 -> Int], lane : [0 .. length - 1 -> Int]]
  BY DEF RowInv
<1>7. /\ t.n = s.n + 1 /\ t.prev = o /\ t.prev2 = s.prev
      /\ t.out = IF s.n >= 0 THEN [s.out EXCEPT ![s.n] = o] ELSE s.out
  BY <1>5, <1>6
<1>8. t \in [n : 1 - g.N .. length, prev : Int, prev2 : Int,
            out : [0 .. length - 1 -> Int], lane : [0 .. length - 1 -> Int]]
  <2>1. s.n + 1 \in 1 - g.N .. length
    BY <1>1
  <2>2. s.out \in [0 .. length - 1 -> Int]
    BY <1>6
  <2>3. (IF s.n >= 0 THEN [s.out EXCEPT ![s.n] = o] ELSE s.out) \in [0 .. length - 1 -> Int]
    BY <1>1, <1>4, <2>2
  <2> QED
    BY <1>2, <1>4, <1>5, <1>6, <2>1, <2>3
<1>9. Done(length, y, t)
  <2>1. Done(length, y, s)
    BY DEF RowInv
  <2>2. t.out \in [0 .. length - 1 -> Int]
    BY <1>8
  <2>3. ASSUME NEW i \in 0 .. length - 1, i < t.n PROVE t.out[i] = y[i]
    <3>0. s.n \in Int /\ i \in Int /\ i >= 0 /\ i < s.n + 1
      BY <1>1, <1>7, <2>3
    <3>1. CASE i < s.n
      <4>1. s.out[i] = y[i]
        BY <2>1, <3>1 DEF Done
      <4>2. s.out \in [0 .. length - 1 -> Int]
        BY <1>6
      <4>3. i # s.n
        BY <3>0, <3>1
      <4>4. [s.out EXCEPT ![s.n] = o][i] = s.out[i]
        BY <4>2, <4>3
      <4>5. t.out[i] = s.out[i]
        BY <1>7, <4>4
      <4> QED
        BY <4>1, <4>5
    <3>2. CASE i = s.n
      <4>1. s.out \in [0 .. length - 1 -> Int]
        BY <1>6
      <4> QED
        BY <1>4, <1>7, <3>0, <3>2, <4>1
    <3> QED
      BY <3>0, <3>1, <3>2
  <2> QED
    BY <2>2, <2>3 DEF Done
<1>10. t.prev = y[t.n - 1] /\ t.prev2 = y[t.n - 2]
  <2>1. s.prev = y[s.n - 1]
    BY DEF RowInv
  <2>2. (s.n + 1) - 1 = s.n /\ (s.n + 1) - 2 = s.n - 1
    BY <1>1
  <2> QED
    BY <1>4, <1>7, <2>1, <2>2
<1>11. RowInv(g, length, y, t)
  BY <1>8, <1>9, <1>10 DEF RowInv
<1> QED
  BY <1>11 DEF t

(* y[n] .. y[n + 3] and what an unrolled step puts there.                  *)
LEMMA UnrolledStepKeeps ==
    ASSUME NEW g \in FiltersOf, NEW length \in Nat \ {0}, NEW line, IsLine(line, length),
           NEW y \in Responses(g, line, length), NEW s, RowInv(g, length, y, s),
           s.n >= BorderEnd(g, length), s.n < UnrolledEnd(g, length)
    PROVE  RowInv(g, length, y, UnrolledStep(g, line, s))
<1> DEFINE in(j) == Unchecked(g, line, s.n + j)
           shifted(l, j) == IF l < j THEN 0 ELSE mul_in(g, l - j)
           o(l) == in(0) * shifted(l, 0) + shifted(l, 1) * in(1) + shifted(l, 2) * in(2)
                   + shifted(l, 3) * in(3) + mul_prev2(g, l) * s.prev2
                   + mul_prev(g, l) * s.prev
           t == UnrolledStep(g, line, s)
<1>1. /\ g.N \in Nat \ {0} /\ g.n2 \in Int /\ g.d1 \in Int
      /\ s.n \in 1 - g.N .. length /\ s.n \in Int
  BY DEF FiltersOf, RowInv
<1>2a. s.prev \in Int /\ s.prev2 \in Int
  BY DEF RowInv
<1>2b. s.prev = y[s.n - 1] /\ s.prev2 = y[s.n - 2]
  BY DEF RowInv
<1>2c. s \in [n : 1 - g.N .. length, prev : Int, prev2 : Int,
             out : [0 .. length - 1 -> Int], lane : [0 .. length - 1 -> Int]]
  BY DEF RowInv
<1>2d. s.out \in [0 .. length - 1 -> Int] /\ s.lane \in [0 .. length - 1 -> Int]
  BY <1>2c
<1>2. y \in [Int -> Int] /\ Done(length, y, s)
  BY DEF Responses, RowInv
<1>3. s.n >= g.N + 1 /\ s.n + g.N + 2 < length
  BY <1>1 DEF BorderEnd, UnrolledEnd, AtMost, RoundUpTo, div_ceil, Lanes
<1>4. ASSUME NEW j \in 0 .. 3
      PROVE  /\ in(j) = Sum(g, line, length, s.n + j) /\ in(j) \in Int
             /\ y[s.n + j] = Recurrence(g, in(j), y[(s.n + j) - 1], y[(s.n + j) - 2])
  <2>1. s.n + j \in 1 - g.N .. length - 1 /\ s.n + j >= g.N + 1
        /\ s.n + j + g.N - 1 < length
    BY <1>1, <1>3
  <2>2. in(j) = Sum(g, line, length, s.n + j) /\ in(j) \in Int
    BY <2>1, PixelsSummed
  <2>3. y[s.n + j] = Recurrence(g, Sum(g, line, length, s.n + j),
                                y[(s.n + j) - 1], y[(s.n + j) - 2])
    BY <2>1, Responds
  <2> HIDE DEF in
  <2> QED
    BY <2>2, <2>3
<1>5. /\ in(0) \in Int /\ in(1) \in Int /\ in(2) \in Int /\ in(3) \in Int
      /\ y[s.n] = Recurrence(g, in(0), s.prev, s.prev2)
      /\ y[s.n + 1] = Recurrence(g, in(1), y[s.n], s.prev)
      /\ y[s.n + 2] = Recurrence(g, in(2), y[s.n + 1], y[s.n])
      /\ y[s.n + 3] = Recurrence(g, in(3), y[s.n + 2], y[s.n + 1])
  <2>1. /\ s.n + 0 = s.n
        /\ (s.n + 1) - 1 = s.n /\ (s.n + 1) - 2 = s.n - 1
        /\ (s.n + 2) - 1 = s.n + 1 /\ (s.n + 2) - 2 = s.n
        /\ (s.n + 3) - 1 = s.n + 2 /\ (s.n + 3) - 2 = s.n + 1
    BY <1>1
  <2>2. 0 \in 0 .. 3 /\ 1 \in 0 .. 3 /\ 2 \in 0 .. 3 /\ 3 \in 0 .. 3
    OBVIOUS
  <2> HIDE DEF in
  <2>3. in(0) \in Int /\ y[s.n] = Recurrence(g, in(0), s.prev, s.prev2)
    <3>1. /\ in(0) \in Int
          /\ y[s.n + 0] = Recurrence(g, in(0), y[(s.n + 0) - 1], y[(s.n + 0) - 2])
      BY <1>4, <2>2
    <3> QED
      BY <1>2b, <2>1, <3>1
  <2>4. in(1) \in Int /\ y[s.n + 1] = Recurrence(g, in(1), y[s.n], s.prev)
    BY <1>2b, <1>4, <2>1, <2>2
  <2>5. in(2) \in Int /\ y[s.n + 2] = Recurrence(g, in(2), y[s.n + 1], y[s.n])
    BY <1>1, <1>4, <2>1, <2>2
  <2>6. in(3) \in Int /\ y[s.n + 3] = Recurrence(g, in(3), y[s.n + 2], y[s.n + 1])
    BY <1>1, <1>4, <2>1, <2>2
  <2> QED
    BY <2>3, <2>4, <2>5, <2>6
<1> HIDE DEF in
<1>6. /\ mul_in(g, 0) \in Int /\ mul_in(g, 1) \in Int
      /\ mul_in(g, 2) \in Int /\ mul_in(g, 3) \in Int
  BY <1>1 DEF mul_in
<1>7. ASSUME NEW l \in 0 .. 3 PROVE mul_prev(g, l) \in Int /\ mul_prev2(g, l) \in Int
  <2>1. l = 0 \/ l = 1 \/ l = 2 \/ l = 3
    OBVIOUS
  <2> QED
    BY <1>1, <2>1 DEF mul_prev, mul_prev2
<1>8. /\ o(0) = in(0) * mul_in(g, 0) + mul_prev2(g, 0) * s.prev2 + mul_prev(g, 0) * s.prev
      /\ o(1) = in(0) * mul_in(g, 1) + mul_in(g, 0) * in(1)
                + mul_prev2(g, 1) * s.prev2 + mul_prev(g, 1) * s.prev
      /\ o(2) = in(0) * mul_in(g, 2) + mul_in(g, 1) * in(1) + mul_in(g, 0) * in(2)
                + mul_prev2(g, 2) * s.prev2 + mul_prev(g, 2) * s.prev
      /\ o(3) = in(0) * mul_in(g, 3) + mul_in(g, 2) * in(1) + mul_in(g, 1) * in(2)
                + mul_in(g, 0) * in(3) + mul_prev2(g, 3) * s.prev2 + mul_prev(g, 3) * s.prev
  BY <1>2a, <1>5, <1>6, <1>7
<1> HIDE DEF o
<1>9. /\ y[s.n] \in Int /\ y[s.n + 1] \in Int /\ y[s.n + 2] \in Int /\ y[s.n + 3] \in Int
  BY <1>1, <1>2
<1>10. o(0) = y[s.n] /\ o(1) = y[s.n + 1] /\ o(2) = y[s.n + 2] /\ o(3) = y[s.n + 3]
  <2> DEFINE o0 == y[s.n]  o1 == y[s.n + 1]  o2 == y[s.n + 2]  o3 == y[s.n + 3]
  <2>1. /\ o0 = Recurrence(g, in(0), s.prev, s.prev2)
        /\ o1 = Recurrence(g, in(1), o0, s.prev)
        /\ o2 = Recurrence(g, in(2), o1, o0)
        /\ o3 = Recurrence(g, in(3), o2, o1)
    BY <1>5
  <2>2. in(0) \in Int /\ in(1) \in Int /\ in(2) \in Int /\ in(3) \in Int
    BY <1>5
  <2> HIDE DEF o0, o1, o2, o3
  <2>3. o(0) = o0 /\ o(1) = o1 /\ o(2) = o2 /\ o(3) = o3
    BY <1>2a, <1>8, <2>1, <2>2, Expansion
  <2> QED
    BY <2>3 DEF o0, o1, o2, o3
<1>11. t = [s EXCEPT !.n = @ + 4, !.prev2 = o(2), !.prev = o(3),
                     !.out = [i \in DOMAIN @ |-> IF i \in s.n .. s.n + 3 THEN o(i - s.n) ELSE @[i]],
                     !.lane = [i \in DOMAIN @ |-> IF i \in s.n .. s.n + 3 THEN i - s.n ELSE @[i]]]
  BY DEF UnrolledStep, StoreLanes, Lanes, o, in
<1> HIDE DEF t
<1>12. /\ t.n = s.n + 4 /\ t.prev = y[s.n + 3] /\ t.prev2 = y[s.n + 2]
       /\ t.out = [i \in 0 .. length - 1 |->
                      IF i \in s.n .. s.n + 3 THEN o(i - s.n) ELSE s.out[i]]
       /\ t.lane = [i \in 0 .. length - 1 |->
                      IF i \in s.n .. s.n + 3 THEN i - s.n ELSE s.lane[i]]
       /\ DOMAIN t = DOMAIN s
  BY <1>2c, <1>2d, <1>10, <1>11
<1>13. ASSUME NEW i \in 0 .. length - 1
       PROVE  /\ t.out[i] \in Int /\ t.lane[i] \in Int
              /\ i < s.n + 4 => t.out[i] = y[i]
  <2>1. CASE i \in s.n .. s.n + 3
    <3>1. i = s.n \/ i = s.n + 1 \/ i = s.n + 2 \/ i = s.n + 3
      BY <1>1, <2>1
    <3>2. t.out[i] = o(i - s.n) /\ t.lane[i] = i - s.n
      BY <1>12, <2>1
    <3>3. \/ i - s.n = 0 /\ i = s.n
          \/ i - s.n = 1 /\ i = s.n + 1
          \/ i - s.n = 2 /\ i = s.n + 2
          \/ i - s.n = 3 /\ i = s.n + 3
      <4> i \in Int
        OBVIOUS
      <4> QED
        BY <1>1, <3>1
    <3> QED
      BY <1>9, <1>10, <3>2, <3>3
  <2>2. CASE i \notin s.n .. s.n + 3
    <3>1. t.out[i] = s.out[i] /\ t.lane[i] = s.lane[i]
      BY <1>12, <2>2
    <3>2. s.out[i] \in Int /\ s.lane[i] \in Int
      BY <1>2d
    <3>3. i < s.n + 4 => i < s.n
      BY <1>1, <2>2
    <3> QED
      BY <1>2, <3>1, <3>2, <3>3 DEF Done
  <2> QED
    BY <2>1, <2>2
<1>14. t \in [n : 1 - g.N .. length, prev : Int, prev2 : Int,
             out : [0 .. length - 1 -> Int], lane : [0 .. length - 1 -> Int]]
  <2>1. s.n + 4 \in 1 - g.N .. length
    BY <1>1, <1>3
  <2>2. /\ [i \in 0 .. length - 1 |-> IF i \in s.n .. s.n + 3 THEN o(i - s.n) ELSE s.out[i]]
           \in [0 .. length - 1 -> Int]
        /\ [i \in 0 .. length - 1 |-> IF i \in s.n .. s.n + 3 THEN i - s.n ELSE s.lane[i]]
           \in [0 .. length - 1 -> Int]
    BY <1>12, <1>13
  <2>3. DOMAIN s.out = 0 .. length - 1 /\ DOMAIN s.lane = 0 .. length - 1
    BY <1>2d
  <2> QED
    BY <1>2c, <1>9, <1>10, <1>11, <2>1, <2>2, <2>3
<1>15. Done(length, y, t)
  BY <1>12, <1>13, <1>14 DEF Done
<1>16. t.prev = y[t.n - 1] /\ t.prev2 = y[t.n - 2]
  <2>1. (s.n + 4) - 1 = s.n + 3 /\ (s.n + 4) - 2 = s.n + 2
    BY <1>1
  <2> QED
    BY <1>12, <2>1
<1>17. RowInv(g, length, y, t)
  BY <1>14, <1>15, <1>16 DEF RowInv
<1> QED
  BY <1>17 DEF t

LEMMA RowStep ==
    ASSUME NEW g \in FiltersOf, NEW length \in Nat \ {0}, NEW line, IsLine(line, length),
           NEW y \in Responses(g, line, length), NEW s, RowInv(g, length, y, s),
           s.n < length
    PROVE  RowInv(g, length, y, FastGaussian1D(g, line, length, s))
<1>1. CASE s.n < BorderEnd(g, length)
  BY <1>1, SingleStepKeeps DEF FastGaussian1D
<1>2. CASE ~(s.n < BorderEnd(g, length)) /\ s.n < UnrolledEnd(g, length)
  <2>1. g.N \in Int /\ s.n \in Int
    BY DEF FiltersOf, RowInv
  <2>2. BorderEnd(g, length) \in Int
    BY <2>1 DEF BorderEnd, AtMost, RoundUpTo, div_ceil, Lanes
  <2>3. s.n >= BorderEnd(g, length)
    BY <1>2, <2>1, <2>2
  <2> QED
    BY <1>2, <2>3, UnrolledStepKeeps DEF FastGaussian1D
<1>3. CASE ~(s.n < BorderEnd(g, length)) /\ ~(s.n < UnrolledEnd(g, length))
  BY <1>3, SingleStepKeeps DEF FastGaussian1D
<1> QED
  BY <1>1, <1>2, <1>3

(* FastGaussian1D from the start of a row on, a step of it at a time.      *)
RowScan(g, line, length) ==
    /\ scan = ScanStart(g, length)
    /\ [][scan.n < length /\ scan' = FastGaussian1D(g, line, length, scan)]_scan

(* What FastGaussian1D has stored is the response of the filter to the     *)
(* pixels of the row, for every radius and every length of the row, be     *)
(* it shorter than the radius: its three phases run into each other        *)
(* without a pixel left out, and the phase that checks no border loads no  *)
(* value from beyond one.                                                  *)
THEOREM RowsRespond ==
    ASSUME NEW g \in FiltersOf, NEW length \in Nat \ {0}, NEW line, IsLine(line, length),
           NEW y \in Responses(g, line, length)
    PROVE  RowScan(g, line, length) => []Done(length, y, scan)
<1>1. scan = ScanStart(g, length) => RowInv(g, length, y, scan)
  BY RowStarts
<1>2. RowInv(g, length, y, scan)
      /\ [scan.n < length /\ scan' = FastGaussian1D(g, line, length, scan)]_scan
      => RowInv(g, length, y, scan)'
  <2>1. CASE scan' = scan
    BY <2>1 DEF RowInv, Done
  <2>2. CASE scan.n < length /\ scan' = FastGaussian1D(g, line, length, scan)
    BY <2>2, RowStep
  <2> QED
    BY <2>1, <2>2
<1>3. RowInv(g, length, y, scan) => Done(length, y, scan)
  BY DEF RowInv
<1> QED
  BY <1>1, <1>2, <1>3, PTL DEF RowScan

-----------------------------------------------------------------------------
(* The port to Rust takes the same steps as the reference.                 *)
LEMMA SameUnrolledStep ==
    ASSUME NEW g \in FiltersOf, NEW line, NEW s,
           s.n \in Int, DOMAIN s.out \subseteq Int, DOMAIN s.lane \subseteq Int
    PROVE  unrolled_step(g, line, s) = UnrolledStep(g, line, s)
<1> DEFINE in(j) == Unchecked(g, line, s.n + j)
           a(l) == in(0) * (IF l < 0 THEN 0 ELSE mul_in(g, l - 0))
                   + (IF l < 1 THEN 0 ELSE mul_in(g, l - 1)) * in(1)
                   + (IF l < 2 THEN 0 ELSE mul_in(g, l - 2)) * in(2)
                   + (IF l < 3 THEN 0 ELSE mul_in(g, l - 3)) * in(3)
                   + mul_prev2(g, l) * s.prev2 + mul_prev(g, l) * s.prev
           b(l) == in(0) * mul_in(g, l)
                   + (IF l >= 1 THEN mul_in(g, l - 1) ELSE 0) * in(1)
                   + (IF l >= 2 THEN mul_in(g, l - 2) ELSE 0) * in(2)
                   + (IF l >= 3 THEN mul_in(g, l - 3) ELSE 0) * in(3)
                   + mul_prev2(g, l) * s.prev2 + mul_prev(g, l) * s.prev
<1>1. unrolled_step(g, line, s) = StoreLanes(s, b)
  BY DEF unrolled_step
<1>2. UnrolledStep(g, line, s) = StoreLanes(s, a)
  BY DEF UnrolledStep
<1>3. ASSUME NEW l \in 0 .. 3 PROVE a(l) = b(l)
  <2> HIDE DEF in
  <2>1. l - 0 = l /\ ~(l < 0)
    OBVIOUS
  <2>2. /\ (IF l < 1 THEN 0 ELSE mul_in(g, l - 1)) = (IF l >= 1 THEN mul_in(g, l - 1) ELSE 0)
        /\ (IF l < 2 THEN 0 ELSE mul_in(g, l - 2)) = (IF l >= 2 THEN mul_in(g, l - 2) ELSE 0)
        /\ (IF l < 3 THEN 0 ELSE mul_in(g, l - 3)) = (IF l >= 3 THEN mul_in(g, l - 3) ELSE 0)
    OBVIOUS
  <2> QED
    BY <2>1, <2>2
<1> HIDE DEF a, b
<1>4. a(2) = b(2) /\ a(3) = b(3)
  BY <1>3
<1>5. ASSUME NEW i \in Int, i \in s.n .. s.n + 3 PROVE a(i - s.n) = b(i - s.n)
  <2>1. i - s.n \in 0 .. 3
    BY <1>5
  <2> QED
    BY <2>1, <1>3
<1>6. [i \in DOMAIN s.out |-> IF i \in s.n .. s.n + 3 THEN a(i - s.n) ELSE s.out[i]]
      = [i \in DOMAIN s.out |-> IF i \in s.n .. s.n + 3 THEN b(i - s.n) ELSE s.out[i]]
  <2>1. ASSUME NEW i \in DOMAIN s.out
        PROVE  (IF i \in s.n .. s.n + 3 THEN a(i - s.n) ELSE s.out[i])
               = (IF i \in s.n .. s.n + 3 THEN b(i - s.n) ELSE s.out[i])
    BY <1>5
  <2> QED
    BY <2>1, Zenon
<1>7. StoreLanes(s, a) = StoreLanes(s, b)
  BY <1>4, <1>6 DEF StoreLanes
<1> QED
  BY <1>1, <1>2, <1>7

(* blur_1d of blur.rs, whose rows go to blur_h.comp as well, takes the     *)
(* step FastGaussian1D takes, in every state of a scan: the engine's rows  *)
(* are the reference's.                                                    *)
THEOREM SameRows ==
    ASSUME NEW g \in FiltersOf, NEW length \in Nat \ {0}, NEW line, IsLine(line, length),
           NEW y \in Responses(g, line, length), NEW s, RowInv(g, length, y, s)
    PROVE  blur_1d(g, line, length, s) = FastGaussian1D(g, line, length, s)
<1>1. g.N \in Nat
  BY DEF FiltersOf
<1>2. /\ AtMost(first_aligned(g), length) = BorderEnd(g, length)
      /\ unrolled_end(g, length) = UnrolledEnd(g, length)
  BY <1>1 DEF first_aligned, BorderEnd, RoundUpTo, div_ceil, Lanes, unrolled_end, UnrolledEnd
<1>3. unrolled_step(g, line, s) = UnrolledStep(g, line, s)
  <2>1. s.n \in Int
    BY <1>1 DEF RowInv
  <2>2. DOMAIN s.out \subseteq Int /\ DOMAIN s.lane \subseteq Int
    <3>1. s.out \in [0 .. length - 1 -> Int] /\ s.lane \in [0 .. length - 1 -> Int]
      BY DEF RowInv
    <3>2. DOMAIN s.out = 0 .. length - 1 /\ DOMAIN s.lane = 0 .. length - 1
      BY <3>1
    <3>3. 0 .. length - 1 \subseteq Int
      OBVIOUS
    <3> QED
      BY <3>2, <3>3
  <2> QED
    BY <2>1, <2>2, SameUnrolledStep
<1> QED
  BY <1>2, <1>3 DEF blur_1d, FastGaussian1D

-----------------------------------------------------------------------------
(* Columns. Any scan that puts y[n] in place n, one output at a time.      *)
LEMMA OneMoreDone ==
    ASSUME NEW N \in Nat \ {0}, NEW length \in Nat \ {0}, NEW y \in [Int -> Int],
           NEW n \in 1 - N .. length - 1, NEW out, NEW s, NEW t,
           s.n = n, s.out = out, Done(length, y, s),
           t.n = n + 1, t.out = IF n >= 0 THEN [out EXCEPT ![n] = y[n]] ELSE out
    PROVE  Done(length, y, t)
<1>1. out \in [0 .. length - 1 -> Int] /\ y[n] \in Int
  <2>1. out \in [0 .. length - 1 -> Int]
    BY DEF Done
  <2>2. n \in Int
    OBVIOUS
  <2> QED
    BY <2>1, <2>2
<1>2. t.out \in [0 .. length - 1 -> Int]
  BY <1>1
<1>3. ASSUME NEW i \in 0 .. length - 1, i < t.n PROVE t.out[i] = y[i]
  <2>0. n \in Int /\ i \in Int /\ i >= 0 /\ i < n + 1
    BY <1>3
  <2>1. CASE i < n
    <3>1. out[i] = y[i]
      BY <2>1 DEF Done
    <3>2. [out EXCEPT ![n] = y[n]][i] = out[i]
      BY <1>1, <2>0, <2>1
    <3> QED
      BY <3>1, <3>2
  <2>2. CASE i = n
    BY <1>1, <2>0, <2>2
  <2> QED
    BY <2>0, <2>1, <2>2
<1> QED
  BY <1>2, <1>3 DEF Done

(* The last two outputs are where the counter's remainders say, and stay   *)
(* there until the step that needs them.                                   *)
ColumnInv(g, length, y, s) ==
    /\ s \in [n : 1 - g.N .. length, ctr : Nat, ring : [0 .. 3 -> Int],
              out : [0 .. length - 1 -> Int]]
    /\ s.ctr = s.n + g.N - 1
    /\ s.ring[s.ctr % 4] = y[s.n - 1] /\ s.ring[(s.ctr - 1) % 4] = y[s.n - 2]
    /\ Done(length, y, s)

LEMMA ColumnStarts ==
    ASSUME NEW g \in FiltersOf, NEW length \in Nat \ {0}, NEW line, IsLine(line, length),
           NEW y \in Responses(g, line, length)
    PROVE  ColumnInv(g, length, y, StripStart(g, length))
<1>1. g.N \in Nat \ {0}
  BY DEF FiltersOf
<1>2. y[-g.N] = 0 /\ y[-g.N - 1] = 0
  BY <1>1 DEF Responses, IsResponse
<1> DEFINE t == StripStart(g, length)
<1>3. /\ t.n = 1 - g.N /\ t.ctr = 0 /\ t.ring = [m \in 0 .. 3 |-> 0]
      /\ t \in [n : 1 - g.N .. length, ctr : Nat, ring : [0 .. 3 -> Int],
                out : [0 .. length - 1 -> Int]]
  BY <1>1 DEF StripStart, kMod
<1>4. Done(length, y, t)
  BY <1>1 DEF StripStart, Done
<1> HIDE DEF t
<1>5. t.ctr % 4 \in 0 .. 3 /\ (t.ctr - 1) % 4 \in 0 .. 3
  <2>1. t.ctr \in Int
    BY <1>3
  <2> QED
    BY <2>1
<1>6. t.ring[t.ctr % 4] = 0 /\ t.ring[(t.ctr - 1) % 4] = 0
  BY <1>3, <1>5
<1>7. t.n - 1 = -g.N /\ t.n - 2 = -g.N - 1 /\ t.ctr = t.n + g.N - 1
  <2>1. t.n = 1 - g.N /\ t.ctr = 0
    BY <1>3
  <2> QED
    BY <1>1, <2>1
<1> QED
  BY <1>2, <1>3, <1>4, <1>6, <1>7 DEF ColumnInv, t

(* A block that is given the right sum.                                    *)
LEMMA BlockKeeps ==
    ASSUME NEW g \in FiltersOf, NEW length \in Nat \ {0}, NEW line, IsLine(line, length),
           NEW y \in Responses(g, line, length), NEW s, ColumnInv(g, length, y, s),
           s.n < length, NEW sum, sum = Sum(g, line, length, s.n)
    PROVE  ColumnInv(g, length, y, VerticalBlock(g, s, sum))
<1> DEFINE o == Recurrence(g, sum, s.ring[((s.ctr + 1) - 1) % 4], s.ring[((s.ctr + 1) - 2) % 4])
           t == VerticalBlock(g, s, sum)
<1>1. g.N \in Nat \ {0} /\ g.N \in Int /\ s.n \in 1 - g.N .. length - 1 /\ s.n \in Int
  BY DEF FiltersOf, ColumnInv
<1>2. s.ctr \in Nat /\ s.ctr = s.n + g.N - 1
  BY DEF ColumnInv
<1>3. s.ring \in [0 .. 3 -> Int] /\ s.out \in [0 .. length - 1 -> Int]
  BY DEF ColumnInv
<1>4. y \in [Int -> Int]
  BY DEF Responses
<1>5. (s.ctr + 1) - 1 = s.ctr /\ (s.ctr + 1) - 2 = s.ctr - 1
  BY <1>2
<1>6. o = y[s.n]
  <2>1. y[s.n] = Recurrence(g, Sum(g, line, length, s.n), y[s.n - 1], y[s.n - 2])
    BY <1>1, Responds
  <2>2. s.ring[s.ctr % 4] = y[s.n - 1] /\ s.ring[(s.ctr - 1) % 4] = y[s.n - 2]
    BY DEF ColumnInv
  <2> QED
    BY <1>5, <2>1, <2>2
<1>7. t = [s EXCEPT !.n = @ + 1, !.ctr = s.ctr + 1, !.ring[(s.ctr + 1) % 4] = o,
                    !.out = IF s.n >= 0 THEN [@ EXCEPT ![s.n] = o] ELSE @]
  BY DEF VerticalBlock, kMod
<1> HIDE DEF o, t
<1>8. s \in [n : 1 - g.N .. length, ctr : Nat, ring : [0 .. 3 -> Int],
             out : [0 .. length - 1 -> Int]]
  BY DEF ColumnInv
<1>9. /\ t.n = s.n + 1 /\ t.ctr = s.ctr + 1
      /\ t.ring = [s.ring EXCEPT ![(s.ctr + 1) % 4] = y[s.n]]
      /\ t.out = IF s.n >= 0 THEN [s.out EXCEPT ![s.n] = y[s.n]] ELSE s.out
  BY <1>6, <1>7, <1>8
<1>10. Done(length, y, t)
  <2>1. Done(length, y, s)
    BY DEF ColumnInv
  <2> QED
    BY <1>1, <1>4, <1>9, <2>1, OneMoreDone
<1>11. /\ (s.ctr + 1) % 4 \in 0 .. 3 /\ s.ctr % 4 \in 0 .. 3
       /\ (s.ctr + 1) % 4 # s.ctr % 4
  BY <1>2
<1>12. t.ring[t.ctr % 4] = y[t.n - 1] /\ t.ring[(t.ctr - 1) % 4] = y[t.n - 2]
  <2>1. /\ t.ring[(s.ctr + 1) % 4] = y[s.n]
        /\ t.ring[s.ctr % 4] = s.ring[s.ctr % 4]
    BY <1>3, <1>9, <1>11
  <2>2. s.ring[s.ctr % 4] = y[s.n - 1]
    BY DEF ColumnInv
  <2>3. t.n - 1 = s.n /\ t.n - 2 = s.n - 1 /\ t.ctr - 1 = s.ctr
    BY <1>1, <1>2, <1>9
  <2> QED
    BY <1>9, <2>1, <2>2, <2>3
<1>13. t \in [n : 1 - g.N .. length, ctr : Nat, ring : [0 .. 3 -> Int],
              out : [0 .. length - 1 -> Int]]
  <2>1. s.n + 1 \in 1 - g.N .. length /\ s.ctr + 1 \in Nat /\ y[s.n] \in Int
    BY <1>1, <1>2, <1>4
  <2>2. [s.ring EXCEPT ![(s.ctr + 1) % 4] = y[s.n]] \in [0 .. 3 -> Int]
    BY <1>3, <2>1
  <2>3. (IF s.n >= 0 THEN [s.out EXCEPT ![s.n] = y[s.n]] ELSE s.out)
        \in [0 .. length - 1 -> Int]
    BY <1>3, <2>1
  <2> QED
    BY <1>6, <1>7, <1>8, <2>1, <2>2, <2>3
<1>14. t.ctr = t.n + g.N - 1
  BY <1>1, <1>2, <1>9
<1>15. ColumnInv(g, length, y, t)
  BY <1>10, <1>12, <1>13, <1>14 DEF ColumnInv
<1> QED
  BY <1>15 DEF t

LEMMA ColumnStep ==
    ASSUME NEW g \in FiltersOf, NEW length \in Nat \ {0}, NEW line, IsLine(line, length),
           NEW y \in Responses(g, line, length), NEW s, ColumnInv(g, length, y, s),
           s.n < length
    PROVE  ColumnInv(g, length, y, VerticalStrip(g, line, length, s))
<1>1. g.N \in Nat \ {0} /\ s.n \in 1 - g.N .. length - 1
  BY DEF FiltersOf, ColumnInv
<1>2. CASE s.n < TopEnd(g, length)
  <2>1. s.n < g.N + 1
    BY <1>1, <1>2 DEF TopEnd, AtMost
  <2>2. RightVal(g, line, length, s.n) = Sum(g, line, length, s.n)
    BY <1>1, <2>1, PixelsSummed
  <2> QED
    BY <1>2, <2>2, BlockKeeps DEF VerticalStrip
<1>3. CASE ~(s.n < TopEnd(g, length)) /\ s.n < InteriorEnd(g, length)
  <2>1. s.n >= g.N + 1 /\ s.n + g.N - 1 < length
    BY <1>1, <1>3 DEF TopEnd, AtMost, InteriorEnd, kPrefetchRows
  <2>2. Unchecked(g, line, s.n) = Sum(g, line, length, s.n)
    BY <1>1, <2>1, PixelsSummed
  <2> QED
    BY <1>3, <2>2, BlockKeeps DEF VerticalStrip
<1>4. CASE ~(s.n < TopEnd(g, length)) /\ ~(s.n < InteriorEnd(g, length))
  <2>1. s.n >= g.N + 1
    BY <1>1, <1>4 DEF TopEnd, AtMost
  <2>2. line[s.n - g.N - 1] + RightVal(g, line, length, s.n) = Sum(g, line, length, s.n)
    BY <1>1, <2>1, PixelsSummed
  <2> QED
    BY <1>4, <2>2, BlockKeeps DEF VerticalStrip
<1> QED
  BY <1>2, <1>3, <1>4

(* VerticalStrip from the top of a column on, a row at a time.             *)
ColumnScan(g, line, length) ==
    /\ scan = StripStart(g, length)
    /\ [][scan.n < length /\ scan' = VerticalStrip(g, line, length, scan)]_scan

(* VerticalStrip stores the same response: the ring buffer's remainders    *)
(* always name the last two outputs, and what it loads without checks is   *)
(* in the column.                                                          *)
THEOREM ColumnsRespond ==
    ASSUME NEW g \in FiltersOf, NEW length \in Nat \ {0}, NEW line, IsLine(line, length),
           NEW y \in Responses(g, line, length)
    PROVE  ColumnScan(g, line, length) => []Done(length, y, scan)
<1>1. scan = StripStart(g, length) => ColumnInv(g, length, y, scan)
  BY ColumnStarts
<1>2. ColumnInv(g, length, y, scan)
      /\ [scan.n < length /\ scan' = VerticalStrip(g, line, length, scan)]_scan
      => ColumnInv(g, length, y, scan)'
  <2>1. CASE scan' = scan
    BY <2>1 DEF ColumnInv, Done
  <2>2. CASE scan.n < length /\ scan' = VerticalStrip(g, line, length, scan)
    BY <2>2, ColumnStep
  <2> QED
    BY <2>1, <2>2
<1>3. ColumnInv(g, length, y, scan) => Done(length, y, scan)
  BY DEF ColumnInv
<1> QED
  BY <1>1, <1>2, <1>3, PTL DEF ColumnScan

(* The port's columns keep the last two outputs in two variables.          *)
PortColumnInv(g, length, y, s) ==
    /\ s \in [n : 1 - g.N .. length, y1 : Int, y2 : Int, out : [0 .. length - 1 -> Int]]
    /\ s.y1 = y[s.n - 1] /\ s.y2 = y[s.n - 2]
    /\ Done(length, y, s)

LEMMA PortColumnStarts ==
    ASSUME NEW g \in FiltersOf, NEW length \in Nat \ {0}, NEW line, IsLine(line, length),
           NEW y \in Responses(g, line, length)
    PROVE  PortColumnInv(g, length, y, column_start(g, length))
<1>1. g.N \in Nat \ {0}
  BY DEF FiltersOf
<1>2. y[-g.N] = 0 /\ y[-g.N - 1] = 0
  BY <1>1 DEF Responses, IsResponse
<1> QED
  BY <1>1, <1>2 DEF PortColumnInv, column_start, Done

LEMMA PortColumnStep ==
    ASSUME NEW g \in FiltersOf, NEW length \in Nat \ {0}, NEW line, IsLine(line, length),
           NEW y \in Responses(g, line, length), NEW s, PortColumnInv(g, length, y, s),
           s.n < length
    PROVE  PortColumnInv(g, length, y, column_step(g, line, length, s))
<1> DEFINE top == s.n - g.N - 1
           bottom == s.n + g.N - 1
           sum == IF top < 0 THEN (IF bottom < length THEN line[bottom] ELSE 0)
                  ELSE IF bottom >= length THEN line[top]
                  ELSE line[top] + line[bottom]
           o == g.n2 * sum - g.d1 * s.y1 - s.y2
           t == column_step(g, line, length, s)
<1>1. g.N \in Nat \ {0} /\ g.N \in Int /\ s.n \in 1 - g.N .. length - 1 /\ s.n \in Int
  BY DEF FiltersOf, PortColumnInv
<1>2. y \in [Int -> Int]
  BY DEF Responses
<1>3. sum = Sum(g, line, length, s.n)
  BY <1>1 DEF IsLine, Sum, Pixel
<1>4. o = y[s.n]
  <2>1. y[s.n] = Recurrence(g, Sum(g, line, length, s.n), y[s.n - 1], y[s.n - 2])
    BY <1>1, Responds
  <2>2. s.y1 = y[s.n - 1] /\ s.y2 = y[s.n - 2]
    BY DEF PortColumnInv
  <2> HIDE DEF sum
  <2> QED
    BY <1>3, <2>1, <2>2 DEF Recurrence
<1>5. t = [s EXCEPT !.n = @ + 1, !.y2 = s.y1, !.y1 = o,
                    !.out = IF s.n >= 0 THEN [@ EXCEPT ![s.n] = o] ELSE @]
  BY DEF column_step
<1> HIDE DEF o, t
<1>6. s \in [n : 1 - g.N .. length, y1 : Int, y2 : Int, out : [0 .. length - 1 -> Int]]
  BY DEF PortColumnInv
<1>7. /\ t.n = s.n + 1 /\ t.y1 = y[s.n] /\ t.y2 = s.y1
      /\ t.out = IF s.n >= 0 THEN [s.out EXCEPT ![s.n] = y[s.n]] ELSE s.out
  BY <1>4, <1>5, <1>6
<1>8. Done(length, y, t)
  <2>1. Done(length, y, s)
    BY DEF PortColumnInv
  <2> QED
    BY <1>1, <1>2, <1>7, <2>1, OneMoreDone
<1>9. t.y1 = y[t.n - 1] /\ t.y2 = y[t.n - 2]
  <2>1. s.y1 = y[s.n - 1]
    BY DEF PortColumnInv
  <2>2. (s.n + 1) - 1 = s.n /\ (s.n + 1) - 2 = s.n - 1
    BY <1>1
  <2> QED
    BY <1>7, <2>1, <2>2
<1>10. t \in [n : 1 - g.N .. length, y1 : Int, y2 : Int, out : [0 .. length - 1 -> Int]]
  <2>1. s.n + 1 \in 1 - g.N .. length /\ y[s.n] \in Int
    BY <1>1, <1>2
  <2>2. s.out \in [0 .. length - 1 -> Int]
    BY <1>6
  <2>3. (IF s.n >= 0 THEN [s.out EXCEPT ![s.n] = y[s.n]] ELSE s.out)
        \in [0 .. length - 1 -> Int]
    BY <2>1, <2>2
  <2> QED
    BY <1>4, <1>5, <1>6, <2>1, <2>3
<1>11. PortColumnInv(g, length, y, t)
  BY <1>8, <1>9, <1>10 DEF PortColumnInv
<1> QED
  BY <1>11 DEF t

(* The columns of blur_planes_cpu and of blur_v.comp.                      *)
PortColumnScan(g, line, length) ==
    /\ scan = column_start(g, length)
    /\ [][scan.n < length /\ scan' = column_step(g, line, length, scan)]_scan

(* The engine's columns are the reference's too: the port drops the ring   *)
(* buffer and checks both borders at every row, and stores the response    *)
(* VerticalStrip stores.                                                   *)
THEOREM PortColumnsRespond ==
    ASSUME NEW g \in FiltersOf, NEW length \in Nat \ {0}, NEW line, IsLine(line, length),
           NEW y \in Responses(g, line, length)
    PROVE  PortColumnScan(g, line, length) => []Done(length, y, scan)
<1>1. scan = column_start(g, length) => PortColumnInv(g, length, y, scan)
  BY PortColumnStarts
<1>2. PortColumnInv(g, length, y, scan)
      /\ [scan.n < length /\ scan' = column_step(g, line, length, scan)]_scan
      => PortColumnInv(g, length, y, scan)'
  <2>1. CASE scan' = scan
    BY <2>1 DEF PortColumnInv, Done
  <2>2. CASE scan.n < length /\ scan' = column_step(g, line, length, scan)
    BY <2>2, PortColumnStep
  <2> QED
    BY <2>1, <2>2
<1>3. PortColumnInv(g, length, y, scan) => Done(length, y, scan)
  BY DEF PortColumnInv
<1> QED
  BY <1>1, <1>2, <1>3, PTL DEF PortColumnScan

-----------------------------------------------------------------------------
(* Whole scans, from the start of a line to its end.                       *)

(* A function can be applied to a member of a set any number of times.     *)
Iterates(f, F, a, X, K) ==
    f \in [0 .. K -> X] /\ f[0] = a /\ \A k \in 1 .. K : f[k] = F[f[k - 1]]

LEMMA Iterated ==
    ASSUME NEW X, NEW a \in X, NEW F \in [X -> X], NEW K \in Nat
    PROVE  \E f : Iterates(f, F, a, X, K)
<1> DEFINE Applied(k) ==
             \E f \in [0 .. k -> X] : f[0] = a /\ \A j \in 1 .. k : f[j] = F[f[j - 1]]
           S == {k \in 0 .. K : Applied(k)}
<1>1. 0 \in S
  <2> DEFINE f == [j \in 0 .. 0 |-> a]
  <2>1. f \in [0 .. 0 -> X] /\ f[0] = a /\ \A j \in 1 .. 0 : f[j] = F[f[j - 1]]
    OBVIOUS
  <2> HIDE DEF f
  <2>2. Applied(0)
    BY <2>1
  <2> QED
    BY <2>2
<1>2. ASSUME NEW n \in 0 .. K - 1, n \in S PROVE n + 1 \in S
  <2>1. PICK f \in [0 .. n -> X] : f[0] = a /\ \A j \in 1 .. n : f[j] = F[f[j - 1]]
    BY <1>2
  <2> DEFINE h == [j \in 0 .. n + 1 |-> IF j = n + 1 THEN F[f[n]] ELSE f[j]]
  <2>2. n \in 0 .. n /\ f[n] \in X /\ F[f[n]] \in X
    BY <2>1
  <2>3. h \in [0 .. n + 1 -> X]
    BY <2>1, <2>2
  <2>4. h[n + 1] = F[f[n]] /\ \A j \in 0 .. n : h[j] = f[j]
    OBVIOUS
  <2> HIDE DEF h
  <2>5. ASSUME NEW j \in 1 .. n + 1 PROVE h[j] = F[h[j - 1]]
    <3>1. CASE j = n + 1
      <4>1. j - 1 = n
        BY <3>1
      <4> QED
        BY <3>1, <4>1, <2>2, <2>4
    <3>2. CASE j # n + 1
      <4>1. j \in 1 .. n /\ j \in 0 .. n /\ j - 1 \in 0 .. n
        BY <3>2
      <4> QED
        BY <4>1, <2>1, <2>4
    <3> QED
      BY <3>1, <3>2
  <2>6. 0 \in 0 .. n /\ h[0] = a
    BY <2>1, <2>4
  <2>7. Applied(n + 1)
    BY <2>3, <2>5, <2>6
  <2> QED
    BY <2>7
<1> HIDE DEF S
<1>3. K \in S
  BY <1>1, <1>2, StepByStep
<1>4. Applied(K)
  BY <1>3 DEF S
<1> QED
  BY <1>4 DEF Iterates

(* The filter has a response to every line.                                *)
LEMMA ResponseExists ==
    ASSUME NEW g \in FiltersOf, NEW length \in Nat \ {0}, NEW line, IsLine(line, length)
    PROVE  \E y : y \in Responses(g, line, length)
<1> DEFINE N == g.N
           K == length + N
           X == Int \X Int \X Int
           a == <<1 - N, 0, 0>>
           sum(n) == Sum(g, line, length, n)
           F == [s \in X |-> <<s[1] + 1, Recurrence(g, sum(s[1]), s[2], s[3]), s[2]>>]
<1>1. N \in Nat \ {0} /\ K \in Nat /\ g.n2 \in Int /\ g.d1 \in Int
  BY DEF FiltersOf
<1> HIDE DEF N
<1>2. \A n \in Int : sum(n) \in Int
  BY <1>1 DEF IsLine, Sum, Pixel, N
<1> HIDE DEF sum
<1>3. F \in [X -> X]
  BY <1>1, <1>2 DEF Recurrence
<1>4. a \in X
  BY <1>1
<1>5. PICK h \in [0 .. K -> X] : h[0] = a /\ \A k \in 1 .. K : h[k] = F[h[k - 1]]
  <2> HIDE DEF X, a, F, K
  <2>1. PICK h : Iterates(h, F, a, X, K)
    BY <1>1, <1>3, <1>4, Iterated
  <2> QED
    BY <2>1 DEF Iterates
<1>6. \A k \in 1 .. K :
        /\ h[k][1] = h[k - 1][1] + 1
        /\ h[k][2] = Recurrence(g, sum(h[k - 1][1]), h[k - 1][2], h[k - 1][3])
        /\ h[k][3] = h[k - 1][2]
  <2> SUFFICES ASSUME NEW k \in 1 .. K
               PROVE  /\ h[k][1] = h[k - 1][1] + 1
                      /\ h[k][2] = Recurrence(g, sum(h[k - 1][1]), h[k - 1][2], h[k - 1][3])
                      /\ h[k][3] = h[k - 1][2]
    OBVIOUS
  <2> DEFINE s == h[k - 1]
  <2>1. k - 1 \in 0 .. K
    BY <1>1
  <2>2. s \in X
    BY <2>1, <1>5
  <2>3. h[k] = F[s]
    BY <1>5
  <2> HIDE DEF s, K
  <2>4. h[k] = <<s[1] + 1, Recurrence(g, sum(s[1]), s[2], s[3]), s[2]>>
    BY <2>2, <2>3
  <2> QED
    BY <2>4 DEF s
<1> HIDE DEF X, F
<1>7. h[0][1] = 1 - N /\ h[0][2] = 0 /\ h[0][3] = 0
  BY <1>5
<1>8. \A k \in 0 .. K : h[k][1] = 1 - N + k
  <2> DEFINE S == {k \in 0 .. K : h[k][1] = 1 - N + k}
  <2>1. 0 \in S
    BY <1>1, <1>7
  <2>2. ASSUME NEW n \in 0 .. K - 1, n \in S PROVE n + 1 \in S
    <3>1. n + 1 \in 1 .. K /\ n + 1 \in 0 .. K /\ (n + 1) - 1 = n
      BY <1>1
    <3>2. h[n + 1][1] = h[n][1] + 1
      BY <1>6, <3>1
    <3> QED
      BY <1>1, <2>2, <3>1, <3>2
  <2> HIDE DEF S, K
  <2>3. \A k \in 0 .. K : k \in S
    BY <1>1, <2>1, <2>2, StepByStep
  <2> QED
    BY <2>3 DEF S
<1>9. \A k \in 0 .. K : h[k][2] \in Int
  <2>1. \A k \in 0 .. K : h[k] \in X
    BY <1>5
  <2> QED
    BY <2>1 DEF X
<1> DEFINE y == [n \in Int |-> IF n \in -N .. length - 1 THEN h[n + N][2] ELSE 0]
<1>10. y \in [Int -> Int]
  <2>1. ASSUME NEW n \in Int, n \in -N .. length - 1 PROVE h[n + N][2] \in Int
    <3>1. n + N \in 0 .. K
      BY <1>1, <2>1
    <3> QED
      BY <3>1, <1>9
  <2> QED
    BY <2>1
<1>11. \A n \in Int : y[n] = IF n \in -N .. length - 1 THEN h[n + N][2] ELSE 0
  OBVIOUS
<1> HIDE DEF y
<1>12. y[-N] = 0 /\ y[-N - 1] = 0
  <2>1. -N \in Int /\ -N \in -N .. length - 1 /\ -N + N = 0
        /\ -N - 1 \in Int /\ -N - 1 \notin -N .. length - 1
    BY <1>1
  <2> QED
    BY <2>1, <1>7, <1>11
<1>13. ASSUME NEW n \in 1 - N .. length - 1
       PROVE  y[n] = Recurrence(g, sum(n), y[n - 1], y[n - 2])
  <2> DEFINE k == n + N
  <2>1. /\ k \in 1 .. K /\ k - 1 \in 0 .. K /\ 1 - N + (k - 1) = n
        /\ n \in Int /\ n \in -N .. length - 1
        /\ n - 1 \in Int /\ n - 1 \in -N .. length - 1 /\ (n - 1) + N = k - 1
        /\ n - 2 \in Int /\ (n - 2) + N = (k - 1) - 1
    BY <1>1
  <2>2. y[n] = h[k][2] /\ y[n - 1] = h[k - 1][2]
    BY <2>1, <1>11
  <2>3. y[n - 2] = h[k - 1][3]
    <3>1. CASE k - 1 = 0
      <4>1. n - 2 \notin -N .. length - 1
        BY <1>1, <3>1
      <4> QED
        BY <2>1, <4>1, <3>1, <1>7, <1>11
    <3>2. CASE k - 1 # 0
      <4>1. n - 2 \in -N .. length - 1 /\ k - 1 \in 1 .. K
        BY <1>1, <2>1, <3>2
      <4>2. h[k - 1][3] = h[(k - 1) - 1][2]
        BY <4>1, <1>6
      <4> HIDE DEF k
      <4> QED
        BY <2>1, <4>1, <4>2, <1>11
    <3> QED
      BY <3>1, <3>2
  <2>4. h[k][2] = Recurrence(g, sum(h[k - 1][1]), h[k - 1][2], h[k - 1][3])
    BY <2>1, <1>6
  <2>5. h[k - 1][1] = n
    BY <2>1, <1>8
  <2> HIDE DEF k
  <2> QED
    BY <2>2, <2>3, <2>4, <2>5
<1>14. IsResponse(g, line, length, y)
  BY <1>12, <1>13 DEF IsResponse, N, sum, Sum
<1> QED
  BY <1>10, <1>14 DEF Responses

(* What Scanned does with a state: nothing at the end of the line.         *)
Step(sc, g, line, length, s) ==
    IF s.n < length THEN Advance(sc, g, line, length, s) ELSE s

(* h is the states of such a scan, and there are no others.                *)
Follows(sc, g, line, length, X, h) ==
    /\ h \in [0 .. length + g.N -> X] /\ h[0] = Start(sc, g, length)
    /\ \A k \in 1 .. length + g.N : h[k] = Step(sc, g, line, length, h[k - 1])

LEMMA ScannedFollows ==
    ASSUME NEW sc, NEW g \in FiltersOf, NEW length \in Nat \ {0}, NEW line, NEW X, NEW h,
           Follows(sc, g, line, length, X, h)
    PROVE  Scanned(sc, g, line, length) = h[length + g.N]
<1> DEFINE K == length + g.N
           Unfolded(f) == [k \in 0 .. K |->
                             IF k = 0 THEN Start(sc, g, length)
                             ELSE LET s == f[k - 1]
                                  IN  IF s.n < length THEN Advance(sc, g, line, length, s)
                                      ELSE s]
           after == CHOOSE f : f = Unfolded(f)
<1>0. K \in Nat
  BY DEF FiltersOf
<1>1. Scanned(sc, g, line, length) = after[K]
  BY DEF Scanned
<1>2. ASSUME NEW f, f = Unfolded(f)
      PROVE  f[0] = Start(sc, g, length) /\ \A k \in 1 .. K : f[k] = Step(sc, g, line, length, f[k - 1])
  <2>1. \A k \in 0 .. K :
          f[k] = IF k = 0 THEN Start(sc, g, length) ELSE Step(sc, g, line, length, f[k - 1])
    BY <1>2, Zenon DEF Step
  <2>2. 0 \in 0 .. K /\ \A k \in 1 .. K : k \in 0 .. K /\ k # 0
    BY <1>0
  <2> HIDE DEF K
  <2> QED
    BY <2>1, <2>2
<1>3. h = Unfolded(h)
  <2>1. h = [k \in 0 .. K |-> h[k]]
    BY DEF Follows
  <2>2. \A k \in 0 .. K :
          h[k] = IF k = 0 THEN Start(sc, g, length)
                 ELSE LET s == h[k - 1]
                      IN  IF s.n < length THEN Advance(sc, g, line, length, s) ELSE s
    <3> SUFFICES ASSUME NEW k \in 0 .. K
                 PROVE  h[k] = IF k = 0 THEN Start(sc, g, length)
                               ELSE Step(sc, g, line, length, h[k - 1])
      BY Zenon DEF Step
    <3>1. k = 0 \/ k \in 1 .. K
      BY <1>0
    <3> QED
      BY <3>1 DEF Follows
  <2> HIDE DEF K
  <2> QED
    BY <2>1, <2>2, Zenon
<1> HIDE DEF Unfolded, K
<1>4. after = Unfolded(after)
  BY <1>3
<1> HIDE DEF after
<1>5. \A k \in 0 .. K : after[k] = h[k]
  <2> DEFINE S == {k \in 0 .. K : after[k] = h[k]}
  <2>1. after[0] = h[0] /\ 0 \in 0 .. K
    BY <1>0, <1>2, <1>4 DEF Follows
  <2>2. 0 \in S
    BY <2>1
  <2>3. ASSUME NEW n \in 0 .. K - 1, n \in S PROVE n + 1 \in S
    <3>1. n + 1 \in 1 .. K /\ n + 1 \in 0 .. K /\ (n + 1) - 1 = n
      BY <1>0
    <3>2. after[n + 1] = Step(sc, g, line, length, after[n])
      BY <1>2, <1>4, <3>1
    <3>3. h[n + 1] = Step(sc, g, line, length, h[n])
      BY <3>1 DEF Follows, K
    <3> QED
      BY <2>3, <3>1, <3>2, <3>3
  <2> HIDE DEF S
  <2>4. \A k \in 0 .. K : k \in S
    BY <1>0, <2>2, <2>3, StepByStep
  <2> QED
    BY <2>4 DEF S
<1> QED
  BY <1>0, <1>1, <1>5 DEF K

(* A scan that stays among some states of which y is right, and goes on in *)
(* every step, comes to the end of its line.                               *)
Scanner(sc, g, line, length, y, X) ==
    /\ Start(sc, g, length) \in X /\ Start(sc, g, length).n = 1 - g.N
    /\ \A s \in X :
        /\ s.n \in 1 - g.N .. length /\ Done(length, y, s)
        /\ s.n < length => /\ Advance(sc, g, line, length, s) \in X
                           /\ Advance(sc, g, line, length, s).n >= s.n + 1

LEMMA ScansToTheEnd ==
    ASSUME NEW sc, NEW g \in FiltersOf, NEW length \in Nat \ {0}, NEW line, NEW y, NEW X,
           Scanner(sc, g, line, length, y, X)
    PROVE  \E h : /\ Follows(sc, g, line, length, X, h)
                  /\ h[length + g.N].out = [i \in 0 .. length - 1 |-> y[i]]
<1> DEFINE N == g.N
           K == length + N
           F == [s \in X |-> Step(sc, g, line, length, s)]
           a == Start(sc, g, length)
<1>1. N \in Nat \ {0} /\ K \in Nat
  BY DEF FiltersOf
<1>2. F \in [X -> X] /\ a \in X
  BY DEF Scanner, Step
<1>3. PICK h \in [0 .. K -> X] : h[0] = a /\ \A k \in 1 .. K : h[k] = F[h[k - 1]]
  <2> HIDE DEF a, F, K
  <2>1. PICK h : Iterates(h, F, a, X, K)
    BY <1>1, <1>2, Iterated
  <2> QED
    BY <2>1 DEF Iterates
<1>4. \A k \in 1 .. K : h[k - 1] \in X /\ h[k] = Step(sc, g, line, length, h[k - 1])
  <2> SUFFICES ASSUME NEW k \in 1 .. K
               PROVE  h[k - 1] \in X /\ h[k] = Step(sc, g, line, length, h[k - 1])
    OBVIOUS
  <2>1. k - 1 \in 0 .. K
    BY <1>1
  <2>2. h[k - 1] \in X /\ h[k] = F[h[k - 1]]
    BY <1>3, <2>1
  <2> QED
    BY <2>2
<1>5. Follows(sc, g, line, length, X, h)
  BY <1>3, <1>4 DEF Follows
<1> HIDE DEF F, a
<1>6. \A k \in 0 .. K : h[k] \in X
  BY <1>3
<1>7. h[K].n = length
  <2> DEFINE S == {k \in 0 .. K : h[k].n = length \/ h[k].n >= 1 - N + k}
  <2>1. 0 \in S
    <3>1. h[0].n = 1 - N
      BY <1>3 DEF Scanner, a
    <3> QED
      BY <1>1, <3>1
  <2>2. ASSUME NEW n \in 0 .. K - 1, n \in S PROVE n + 1 \in S
    <3>1. n + 1 \in 1 .. K /\ n + 1 \in 0 .. K /\ (n + 1) - 1 = n /\ n \in 0 .. K
      BY <1>1
    <3>2. h[n] \in X /\ h[n + 1] = Step(sc, g, line, length, h[n]) /\ h[n + 1] \in X
      BY <1>4, <1>6, <3>1
    <3>3. h[n].n \in 1 - N .. length /\ h[n + 1].n \in 1 - N .. length
      BY <3>2 DEF Scanner
    <3>4. h[n].n = length \/ h[n].n >= 1 - N + n
      BY <2>2
    <3>5. CASE h[n].n < length
      <4>1. h[n + 1] = Advance(sc, g, line, length, h[n])
        BY <3>2, <3>5 DEF Step
      <4>2. h[n + 1].n >= h[n].n + 1
        BY <3>2, <3>5, <4>1 DEF Scanner
      <4>3. \A p, q \in Int : q >= p + 1 /\ p >= 1 - N + n => q >= 1 - N + (n + 1)
        BY <1>1
      <4>4. h[n].n \in Int /\ h[n + 1].n \in Int /\ h[n].n >= 1 - N + n
        BY <1>1, <3>3, <3>4, <3>5
      <4>5. h[n + 1].n >= 1 - N + (n + 1)
        BY <4>2, <4>3, <4>4
      <4> QED
        BY <3>1, <4>5
    <3>6. CASE ~(h[n].n < length)
      <4>1. h[n].n = length /\ h[n + 1] = h[n]
        BY <1>1, <3>2, <3>3, <3>6 DEF Step
      <4> QED
        BY <3>1, <4>1
    <3> QED
      BY <3>5, <3>6
  <2> HIDE DEF S
  <2>3. K \in S
    <3> HIDE DEF K
    <3>1. \A n \in 0 .. K : n \in S
      BY <1>1, <2>1, <2>2, StepByStep
    <3>2. K \in 0 .. K
      BY <1>1
    <3> QED
      BY <3>1, <3>2
  <2>4. h[K].n = length \/ h[K].n >= 1 - N + K
    BY <2>3 DEF S
  <2>5. h[K].n \in 1 - N .. length
    BY <1>1, <1>6 DEF Scanner
  <2> QED
    BY <1>1, <2>4, <2>5
<1>8. Done(length, y, h[K])
  BY <1>1, <1>6 DEF Scanner
<1>9. h[K].out = [i \in 0 .. length - 1 |-> y[i]]
  <2> DEFINE r == h[K]
  <2> HIDE DEF r, K
  <2>1. r.out \in [0 .. length - 1 -> Int] /\ \A i \in 0 .. length - 1 : i < r.n => r.out[i] = y[i]
    BY <1>8 DEF Done, r
  <2>2. r.n = length
    BY <1>7 DEF r
  <2>3. \A i \in 0 .. length - 1 : r.out[i] = y[i]
    BY <2>1, <2>2
  <2>4. r.out = [i \in 0 .. length - 1 |-> y[i]]
    BY <2>1, <2>3
  <2> QED
    BY <2>4 DEF r
<1> QED
  BY <1>5, <1>9

RowRecords(g, length) ==
    [n : 1 - g.N .. length, prev : Int, prev2 : Int,
     out : [0 .. length - 1 -> Int], lane : [0 .. length - 1 -> Int]]
RowStates(g, length, y) == {s \in RowRecords(g, length) : RowInv(g, length, y, s)}

LEMMA RowGoesOn ==
    ASSUME NEW g \in FiltersOf, NEW length \in Nat \ {0}, NEW line,
           NEW s \in RowRecords(g, length)
    PROVE  FastGaussian1D(g, line, length, s).n >= s.n + 1
<1>1. s.n \in Int
  BY DEF FiltersOf, RowRecords
<1>2. SingleStep(g, line, length, s).n = s.n + 1
  BY DEF SingleStep, RowRecords
<1>3. UnrolledStep(g, line, s).n = s.n + 4
  <2>1. ASSUME NEW o(_) PROVE StoreLanes(s, o).n = s.n + 4
    BY DEF StoreLanes, Lanes, RowRecords
  <2> QED
    BY <2>1 DEF UnrolledStep
<1> QED
  BY <1>1, <1>2, <1>3 DEF FastGaussian1D

LEMMA RowScanner ==
    ASSUME NEW g \in FiltersOf, NEW length \in Nat \ {0}, NEW line, IsLine(line, length),
           NEW y \in Responses(g, line, length)
    PROVE  Scanner("FastGaussian1D", g, line, length, y, RowStates(g, length, y))
<1> DEFINE X == RowStates(g, length, y)
<1>0. \A s : s \in X <=> RowInv(g, length, y, s)
  BY DEF RowStates, RowInv, RowRecords
<1>1. Start("FastGaussian1D", g, length) = ScanStart(g, length)
  BY DEF Start
<1>2. ScanStart(g, length) \in X /\ ScanStart(g, length).n = 1 - g.N
  BY <1>0, RowStarts DEF ScanStart
<1>3. ASSUME NEW s \in X
      PROVE  /\ s.n \in 1 - g.N .. length /\ Done(length, y, s)
             /\ s.n < length => /\ FastGaussian1D(g, line, length, s) \in X
                                /\ FastGaussian1D(g, line, length, s).n >= s.n + 1
  <2>1. RowInv(g, length, y, s) /\ s \in RowRecords(g, length)
    BY <1>0 DEF RowStates
  <2>2. s.n \in 1 - g.N .. length /\ Done(length, y, s)
    BY <2>1 DEF RowInv
  <2>3. s.n < length => RowInv(g, length, y, FastGaussian1D(g, line, length, s))
    BY <2>1, RowStep
  <2>4. FastGaussian1D(g, line, length, s).n >= s.n + 1
    BY <2>1, RowGoesOn
  <2> QED
    BY <1>0, <2>2, <2>3, <2>4
<1>4. \A s : Advance("FastGaussian1D", g, line, length, s) = FastGaussian1D(g, line, length, s)
  BY DEF Advance
<1> QED
  BY <1>1, <1>2, <1>3, <1>4 DEF Scanner

ColumnRecords(g, length) ==
    [n : 1 - g.N .. length, ctr : Nat, ring : [0 .. 3 -> Int], out : [0 .. length - 1 -> Int]]
ColumnStates(g, length, y) == {s \in ColumnRecords(g, length) : ColumnInv(g, length, y, s)}

LEMMA ColumnScanner ==
    ASSUME NEW g \in FiltersOf, NEW length \in Nat \ {0}, NEW line, IsLine(line, length),
           NEW y \in Responses(g, line, length)
    PROVE  Scanner("VerticalStrip", g, line, length, y, ColumnStates(g, length, y))
<1> DEFINE X == ColumnStates(g, length, y)
<1>0. \A s : s \in X <=> ColumnInv(g, length, y, s)
  BY DEF ColumnStates, ColumnInv, ColumnRecords
<1>1. Start("VerticalStrip", g, length) = StripStart(g, length)
  BY DEF Start
<1>2. StripStart(g, length) \in X /\ StripStart(g, length).n = 1 - g.N
  BY <1>0, ColumnStarts DEF StripStart
<1>3. ASSUME NEW s \in X
      PROVE  /\ s.n \in 1 - g.N .. length /\ Done(length, y, s)
             /\ s.n < length => /\ VerticalStrip(g, line, length, s) \in X
                                /\ VerticalStrip(g, line, length, s).n >= s.n + 1
  <2>1. ColumnInv(g, length, y, s) /\ s \in ColumnRecords(g, length)
    BY <1>0 DEF ColumnStates
  <2>2. s.n \in 1 - g.N .. length /\ Done(length, y, s)
    BY <2>1 DEF ColumnInv
  <2>3. s.n < length => ColumnInv(g, length, y, VerticalStrip(g, line, length, s))
    BY <2>1, ColumnStep
  <2>4. \A sum : VerticalBlock(g, s, sum).n = s.n + 1
    BY <2>1 DEF VerticalBlock, ColumnRecords
  <2>5. VerticalStrip(g, line, length, s).n = s.n + 1
    BY <2>4 DEF VerticalStrip
  <2>6. s.n \in Int
    BY <2>2 DEF FiltersOf
  <2> QED
    BY <1>0, <2>2, <2>3, <2>5, <2>6
<1>4. \A s : Advance("VerticalStrip", g, line, length, s) = VerticalStrip(g, line, length, s)
  BY DEF Advance
<1> QED
  BY <1>1, <1>2, <1>3, <1>4 DEF Scanner

PortColumnRecords(g, length) ==
    [n : 1 - g.N .. length, y1 : Int, y2 : Int, out : [0 .. length - 1 -> Int]]
PortColumnStates(g, length, y) ==
    {s \in PortColumnRecords(g, length) : PortColumnInv(g, length, y, s)}

LEMMA PortColumnScanner ==
    ASSUME NEW g \in FiltersOf, NEW length \in Nat \ {0}, NEW line, IsLine(line, length),
           NEW y \in Responses(g, line, length)
    PROVE  Scanner("column_step", g, line, length, y, PortColumnStates(g, length, y))
<1> DEFINE X == PortColumnStates(g, length, y)
<1>0. \A s : s \in X <=> PortColumnInv(g, length, y, s)
  BY DEF PortColumnStates, PortColumnInv, PortColumnRecords
<1>1. Start("column_step", g, length) = column_start(g, length)
  BY DEF Start
<1>2. column_start(g, length) \in X /\ column_start(g, length).n = 1 - g.N
  BY <1>0, PortColumnStarts DEF column_start
<1>3. ASSUME NEW s \in X
      PROVE  /\ s.n \in 1 - g.N .. length /\ Done(length, y, s)
             /\ s.n < length => /\ column_step(g, line, length, s) \in X
                                /\ column_step(g, line, length, s).n >= s.n + 1
  <2>1. PortColumnInv(g, length, y, s) /\ s \in PortColumnRecords(g, length)
    BY <1>0 DEF PortColumnStates
  <2>2. s.n \in 1 - g.N .. length /\ Done(length, y, s)
    BY <2>1 DEF PortColumnInv
  <2>3. s.n < length => PortColumnInv(g, length, y, column_step(g, line, length, s))
    BY <2>1, PortColumnStep
  <2>5. column_step(g, line, length, s).n = s.n + 1
    BY <2>1 DEF column_step, PortColumnRecords
  <2>6. s.n \in Int
    BY <2>2 DEF FiltersOf
  <2> QED
    BY <1>0, <2>2, <2>3, <2>5, <2>6
<1>4. \A s : Advance("column_step", g, line, length, s) = column_step(g, line, length, s)
  BY DEF Advance
<1> QED
  BY <1>1, <1>2, <1>3, <1>4 DEF Scanner

(* gauss_blur.cc, blur.rs, blur_h.comp, blur_v.comp: for any line, radius  *)
(* and coefficients every scan comes to the end of the line and leaves     *)
(* what FastGaussian1D leaves; blur_1d even computes each pixel in the     *)
(* same lane.                                                              *)
THEOREM ScansAgree ==
    ASSUME NEW g \in FiltersOf, NEW length \in Nat \ {0}, NEW line, IsLine(line, length)
    PROVE  LET row == Scanned("FastGaussian1D", g, line, length)
           IN  /\ Scanned("blur_1d", g, line, length) = row
               /\ \A sc \in Scans : Scanned(sc, g, line, length).out = row.out
<1>1. PICK y : y \in Responses(g, line, length)
  BY ResponseExists
<1> DEFINE out == [i \in 0 .. length - 1 |-> y[i]]
<1>2. ASSUME NEW sc, NEW X, Scanner(sc, g, line, length, y, X)
      PROVE  Scanned(sc, g, line, length).out = out
  BY <1>2, ScansToTheEnd, ScannedFollows
<1>3. Scanned("VerticalStrip", g, line, length).out = out
  BY <1>1, <1>2, ColumnScanner
<1>4. Scanned("column_step", g, line, length).out = out
  BY <1>1, <1>2, PortColumnScanner
<1> DEFINE X == RowStates(g, length, y)
<1>5. Scanner("FastGaussian1D", g, line, length, y, X)
  BY <1>1, RowScanner
<1>6. PICK h : /\ Follows("FastGaussian1D", g, line, length, X, h)
               /\ h[length + g.N].out = out
  BY <1>5, ScansToTheEnd
<1>7. Scanned("FastGaussian1D", g, line, length) = h[length + g.N]
  BY <1>6, ScannedFollows
<1>8. Follows("blur_1d", g, line, length, X, h)
  <2>1. Start("blur_1d", g, length) = Start("FastGaussian1D", g, length)
    BY DEF Start
  <2>2. ASSUME NEW s \in X
        PROVE  Step("blur_1d", g, line, length, s) = Step("FastGaussian1D", g, line, length, s)
    <3>1. RowInv(g, length, y, s)
      BY DEF RowStates
    <3>2. blur_1d(g, line, length, s) = FastGaussian1D(g, line, length, s)
      BY <1>1, <3>1, SameRows
    <3> QED
      BY <3>2 DEF Step, Advance
  <2> HIDE DEF X
  <2>3. h \in [0 .. length + g.N -> X]
    BY <1>6 DEF Follows
  <2>4. \A k \in 1 .. length + g.N : h[k - 1] \in X
    <3>1. \A k \in 1 .. length + g.N : k - 1 \in 0 .. length + g.N
      BY DEF FiltersOf
    <3> QED
      BY <2>3, <3>1
  <2> QED
    BY <1>6, <2>1, <2>2, <2>4 DEF Follows
<1>9. Scanned("blur_1d", g, line, length) = h[length + g.N]
  BY <1>8, ScannedFollows
<1> HIDE DEF out
<1> QED
  BY <1>3, <1>4, <1>6, <1>7, <1>9 DEF Scans

-----------------------------------------------------------------------------
(* Dispatch.                                                               *)
LEMMA Times ==
    ASSUME NEW w \in Nat \ {0}, NEW p \in Int, NEW q \in Int, p >= q + 1
    PROVE  p * w >= q * w + w
  OBVIOUS

LEMMA Quotient ==
    ASSUME NEW a \in Nat, NEW w \in Nat \ {0}
    PROVE  /\ a \div w \in Nat /\ a % w \in 0 .. w - 1
           /\ a = (a \div w) * w + (a % w)
  OBVIOUS

(* The groups that are dispatched are at least as many as are needed.      *)
LEMMA SplitCovers ==
    ASSUME NEW groups \in Nat \ {0}, NEW max_x \in Nat,
           NEW g, g = split_groups(groups, max_x)
    PROVE  g[1] \in Nat \ {0} /\ g[2] \in Nat \ {0} /\ g[2] * g[1] >= groups
<1> DEFINE gx == AtLeast(AtMost(groups, AtLeast(max_x, 1)), 1)
           q == (groups + gx - 1) \div gx
<1>1. gx \in Nat \ {0}
  BY DEF AtLeast, AtMost
<1>2. g = <<gx, q>>
  BY DEF split_groups, div_ceil
<1> HIDE DEF gx
<1>3. groups + gx - 1 \in Nat /\ groups + gx - 1 >= gx
  BY <1>1
<1>4. /\ q \in Nat /\ (groups + gx - 1) % gx \in 0 .. gx - 1
      /\ groups + gx - 1 = q * gx + ((groups + gx - 1) % gx)
  BY <1>1, <1>3, Quotient
<1> HIDE DEF q
<1>5. q * gx >= groups
  <2>1. q * gx \in Int
    BY <1>1, <1>4
  <2> QED
    BY <1>1, <1>4, <2>1
<1>6. q # 0
  <2>1. SUFFICES ASSUME q = 0 PROVE FALSE
    OBVIOUS
  <2>2. q * gx = 0
    BY <1>1, <2>1
  <2> QED
    BY <1>5, <2>2
<1> QED
  BY <1>1, <1>2, <1>4, <1>5, <1>6

(* Every element of a flat dispatch is found by exactly one invocation,    *)
(* whatever the number of groups and the device's limit on a dimension,    *)
(* as long as the flat indices of the grid fit into the word.              *)
THEOREM OneInvocation ==
    ASSUME NEW groups \in Nat \ {0}, NEW max_x \in Nat, NEW word \in Nat,
           NEW g, g = split_groups(groups, max_x),
           word >= g[2] * (g[1] * WorkGroupSize),
           NEW i \in 0 .. groups * WorkGroupSize - 1
    PROVE  \E at \in Grid(g) : \A b \in Grid(g) : FlatIndex(word, g, b) = i <=> b = at
<1> DEFINE w == g[1] * WorkGroupSize
           h == g[2]
<1>1. /\ g[1] \in Nat \ {0} /\ h \in Nat \ {0} /\ h * g[1] >= groups
  BY SplitCovers
<1>2. w \in Nat \ {0} /\ h * w = (h * g[1]) * 64
  BY <1>1 DEF WorkGroupSize
<1>3. i \in Nat /\ i < h * w /\ h * w =< word
  <2>1. h * g[1] \in Int
    BY <1>1
  <2>2. i < (h * g[1]) * 64
    BY <1>1, <2>1 DEF WorkGroupSize
  <2> QED
    BY <1>2, <2>2
<1>4. \A b : b \in Grid(g) <=> b \in (0 .. w - 1) \X (0 .. h - 1)
  BY DEF Grid
<1>5. \A b : FlatIndex(word, g, b) = (b[2] * w + b[1]) % word
  BY DEF FlatIndex
<1> HIDE DEF w, h
<1> DEFINE at == <<i % w, i \div w>>
<1>6. i % w \in 0 .. w - 1 /\ i \div w \in Nat /\ i = (i \div w) * w + (i % w)
  BY <1>2, <1>3, Quotient
<1>7. i \div w \in 0 .. h - 1
  <2>1. SUFFICES ASSUME i \div w >= h PROVE FALSE
    BY <1>1, <1>6
  <2>2. (i \div w) * w >= h * w
    BY <1>1, <1>2, <1>6, <2>1
  <2> QED
    BY <1>1, <1>2, <1>3, <1>6, <2>2
<1>8. at \in Grid(g)
  BY <1>4, <1>6, <1>7
<1>9. ASSUME NEW x \in 0 .. w - 1, NEW z \in 0 .. h - 1
      PROVE  (z * w + x) % word = i <=> (x = i % w /\ z = i \div w)
  <2>1. z * w + x \in 0 .. word - 1
    <3>1. h * w >= z * w + w
      BY <1>1, <1>2, Times
    <3>2. z * w \in Nat /\ h * w \in Nat /\ w \in Nat /\ x \in Nat /\ x < w
      BY <1>1, <1>2
    <3>3. z * w + x \in Nat /\ z * w + x < z * w + w
      BY <3>2
    <3> QED
      BY <1>3, <3>1, <3>2, <3>3
  <2>2. (z * w + x) % word = z * w + x
    BY <2>1
  <2>3. ASSUME z * w + x = i PROVE x = i % w /\ z = i \div w
    <3>1. CASE z = i \div w
      BY <1>2, <1>6, <2>3, <3>1
    <3>2. CASE z > i \div w
      <4>1. z * w >= (i \div w) * w + w
        BY <1>2, <1>6, <3>2, Times
      <4> QED
        BY <1>2, <1>6, <2>3, <4>1
    <3>3. CASE z < i \div w
      <4>1. (i \div w) * w >= z * w + w
        BY <1>2, <1>6, <3>3, Times
      <4> QED
        BY <1>2, <1>6, <2>3, <4>1
    <3> QED
      BY <1>6, <3>1, <3>2, <3>3
  <2> QED
    BY <1>6, <2>2, <2>3
<1>10. ASSUME NEW b \in Grid(g) PROVE FlatIndex(word, g, b) = i <=> b = at
  <2>1. PICK x \in 0 .. w - 1, z \in 0 .. h - 1 : b = <<x, z>>
    BY <1>4
  <2>2. FlatIndex(word, g, b) = (z * w + x) % word
    BY <1>5, <2>1
  <2> QED
    BY <1>9, <2>1, <2>2
<1> QED
  BY <1>8, <1>10

(* The split wastes less than a row of groups.                             *)
LEMMA SplitBounds ==
    ASSUME NEW groups \in Nat \ {0}, NEW max_x \in Nat,
           NEW g, g = split_groups(groups, max_x)
    PROVE  g[2] * g[1] <= 2 * groups
<1> DEFINE gx == AtLeast(AtMost(groups, AtLeast(max_x, 1)), 1)
           q == (groups + gx - 1) \div gx
<1>1. gx \in Nat \ {0} /\ gx <= groups
  BY DEF AtLeast, AtMost
<1>2. g = <<gx, q>>
  BY DEF split_groups, div_ceil
<1> HIDE DEF gx
<1>3. groups + gx - 1 \in Nat /\ groups + gx - 1 <= 2 * groups
  BY <1>1
<1>4. /\ q \in Nat /\ (groups + gx - 1) % gx \in 0 .. gx - 1
      /\ groups + gx - 1 = q * gx + ((groups + gx - 1) % gx)
  BY <1>1, <1>3, Quotient
<1> HIDE DEF q
<1>5. q * gx \in Int
  BY <1>1, <1>4
<1>6. q * gx <= 2 * groups
  BY <1>1, <1>3, <1>4, <1>5
<1> QED
  BY <1>2, <1>6

(* blur_h.comp, blur_v.comp, pipeline.rs: as long as 6 * lines + 126 fits  *)
(* into the word, every line of each of the three planes is scanned by     *)
(* exactly one invocation, whatever the device's limit on a dimension.     *)
THEOREM EveryLineOnce ==
    ASSUME NEW lines \in Nat \ {0}, NEW max_x \in Nat, NEW word \in Nat,
           word >= 6 * lines + 126
    PROVE  LinesScannedOnce(word, lines, max_x)
<1> DEFINE groups == GroupsFor(3 * lines)
           g == split_groups(groups, max_x)
<1>1. /\ groups \in Nat \ {0} /\ groups * 64 >= 3 * lines
      /\ groups * 64 <= 3 * lines + 63
  BY DEF GroupsFor, div_ceil, WorkGroupSize
<1> HIDE DEF groups
<1>2. g[1] \in Nat \ {0} /\ g[2] \in Nat \ {0} /\ g[2] * g[1] <= 2 * groups
  BY <1>1, SplitCovers, SplitBounds
<1>3. PICK f : f = g
  OBVIOUS
<1> HIDE DEF g
<1>4. f[2] * (f[1] * WorkGroupSize) = (f[2] * f[1]) * 64
  BY <1>2, <1>3 DEF WorkGroupSize
<1>5. word >= f[2] * (f[1] * WorkGroupSize)
  <2>1. f[2] * f[1] \in Int /\ f[2] * f[1] <= 2 * groups
    BY <1>2, <1>3
  <2>2. (f[2] * f[1]) * 64 <= 6 * lines + 126
    BY <1>1, <2>1
  <2>3. (f[2] * f[1]) * 64 \in Int
    BY <2>1
  <2> QED
    BY <1>4, <2>2, <2>3
<1>6. ASSUME NEW r \in 0 .. 3 * lines - 1 PROVE Cardinality(InvocationsOf(word, r, f)) = 1
  <2>1. r \in 0 .. groups * WorkGroupSize - 1
    BY <1>1 DEF WorkGroupSize
  <2>2. \E at \in Grid(f) : \A b \in Grid(f) : FlatIndex(word, f, b) = r <=> b = at
    BY <1>1, <1>3, <1>5, <2>1, OneInvocation DEF g
  <2>3. PICK at \in Grid(f) : \A b \in Grid(f) : FlatIndex(word, f, b) = r <=> b = at
    BY <2>2
  <2>4. InvocationsOf(word, r, f) = {at}
    BY <2>3 DEF InvocationsOf
  <2> QED
    BY <2>4, FS_Singleton
<1> QED
  BY <1>3, <1>6 DEF LinesScannedOnce, groups, g

-----------------------------------------------------------------------------
(* The scales.                                                             *)

Scales == 0 .. kNumScales - 1

LEMMA ScalesAre == Scales = {0, 1, 2, 3, 4, 5}
  BY DEF Scales, kNumScales

(* The recursion of At has a solution: it is written down here.            *)
LEMMA AtUnfolds ==
    ASSUME NEW o, NEW d, NEW w, NEW h
    PROVE  At(o, d, w, h) =
             [k \in Scales |->
                IF k = 0 THEN <<o, d, w, h>>
                ELSE LET p == At(o, d, w, h)[k - 1]
                     IN  <<Downsampled(p[1], p[3], p[4]), Downsampled(p[2], p[3], p[4]),
                           Half(p[3]), Half(p[4])>>]
<1> DEFINE Next(p) == <<Downsampled(p[1], p[3], p[4]), Downsampled(p[2], p[3], p[4]),
                        Half(p[3]), Half(p[4])>>
           Unfolded(g) == [k \in Scales |-> IF k = 0 THEN <<o, d, w, h>> ELSE Next(g[k - 1])]
           a0 == <<o, d, w, h>>
           a1 == Next(a0)
           a2 == Next(a1)
           a3 == Next(a2)
           a4 == Next(a3)
           a5 == Next(a4)
           g == [k \in Scales |-> IF k = 0 THEN a0 ELSE IF k = 1 THEN a1 ELSE IF k = 2 THEN a2
                                  ELSE IF k = 3 THEN a3 ELSE IF k = 4 THEN a4 ELSE a5]
<1>1. At(o, d, w, h) = CHOOSE f : f = Unfolded(f)
  BY DEF At, Scales
<1> HIDE DEF Next, a0, a1, a2, a3, a4, a5
<1>2. /\ g[0] = a0 /\ g[1] = a1 /\ g[2] = a2 /\ g[3] = a3 /\ g[4] = a4 /\ g[5] = a5
  BY ScalesAre
<1>3. g = Unfolded(g)
  <2> SUFFICES ASSUME NEW k \in Scales
               PROVE  g[k] = (IF k = 0 THEN <<o, d, w, h>> ELSE Next(g[k - 1]))
    BY Zenon
  <2>1. k \in {0, 1, 2, 3, 4, 5}
    BY ScalesAre
  <2> HIDE DEF g
  <2> QED
    BY <2>1, <1>2 DEF a0, a1, a2, a3, a4, a5
<1> HIDE DEF g, Unfolded
<1>4. (CHOOSE f : f = Unfolded(f)) = Unfolded(CHOOSE f : f = Unfolded(f))
  BY <1>3
<1>5. At(o, d, w, h) = Unfolded(At(o, d, w, h))
  BY <1>1, <1>4
<1> QED
  BY <1>5 DEF Unfolded, Next

(* Induction over the scales.                                              *)
LEMMA ScaleByScale ==
    ASSUME NEW S, 0 \in S, \A k \in 0 .. 4 : k \in S => k + 1 \in S
    PROVE  \A k \in Scales : k \in S
<1>1. 1 \in S /\ 2 \in S
  <2>1. 0 + 1 \in S
    OBVIOUS
  <2>2. 1 + 1 \in S
    BY <2>1
  <2> QED
    BY <2>1, <2>2
<1>2. 3 \in S /\ 4 \in S
  <2>1. 2 + 1 \in S
    BY <1>1
  <2>2. 3 + 1 \in S
    BY <2>1
  <2> QED
    BY <2>1, <2>2
<1>3. 5 \in S
  <2>1. 4 + 1 \in S
    BY <1>2
  <2> QED
    BY <2>1
<1> QED
  BY <1>1, <1>2, <1>3, ScalesAre

LEMMA AtStarts ==
    ASSUME NEW o, NEW d, NEW w, NEW h
    PROVE  At(o, d, w, h)[0] = <<o, d, w, h>>
<1>1. 0 \in Scales
  BY ScalesAre
<1> QED
  BY <1>1, AtUnfolds

LEMMA AtShrinks ==
    ASSUME NEW o, NEW d, NEW w, NEW h, NEW k \in 0 .. 4,
           NEW a, NEW b, NEW v, NEW g, At(o, d, w, h)[k] = <<a, b, v, g>>
    PROVE  At(o, d, w, h)[k + 1] = <<Downsampled(a, v, g), Downsampled(b, v, g), Half(v), Half(g)>>
<1>1. k + 1 \in Scales /\ k + 1 # 0 /\ (k + 1) - 1 = k
  BY ScalesAre
<1> DEFINE f == At(o, d, w, h)
<1>2. f = [j \in Scales |->
                IF j = 0 THEN <<o, d, w, h>>
                ELSE LET p == f[j - 1]
                     IN  <<Downsampled(p[1], p[3], p[4]), Downsampled(p[2], p[3], p[4]),
                           Half(p[3]), Half(p[4])>>]
  BY AtUnfolds
<1>3. f[k] = <<a, b, v, g>>
  OBVIOUS
<1> HIDE DEF f
<1>4. f[k + 1] = <<Downsampled(f[k][1], f[k][3], f[k][4]), Downsampled(f[k][2], f[k][3], f[k][4]),
                   Half(f[k][3]), Half(f[k][4])>>
  BY <1>1, <1>2
<1>5. f[k][1] = a /\ f[k][2] = b /\ f[k][3] = v /\ f[k][4] = g
  BY <1>3
<1>6. f[k + 1] = <<Downsampled(a, v, g), Downsampled(b, v, g), Half(v), Half(g)>>
  BY <1>4, <1>5
<1> QED
  BY <1>6 DEF f

(* A scale has two linear images and its dimensions.                       *)
LEMMA AtIs ==
    ASSUME NEW o, NEW d, NEW w, NEW h, NEW k \in Scales
    PROVE  At(o, d, w, h)[k] =
             <<LinearOf(o, w, h, k), LinearOf(d, w, h, k), WidthOf(w, h, k), HeightOf(w, h, k)>>
<1> DEFINE Is(j) == \E a, b, v, g :
             /\ At(o, d, w, h)[j] = <<a, b, v, g>>
             /\ At(o, o, w, h)[j] = <<a, a, v, g>>
             /\ At(d, d, w, h)[j] = <<b, b, v, g>>
             /\ \E z : At(<<>>, <<>>, w, h)[j] = <<z, z, v, g>>
           S == {j \in Scales : Is(j)}
<1>1. Is(0)
  BY AtStarts
<1>2. ASSUME NEW j \in 0 .. 4, Is(j) PROVE Is(j + 1)
  <2>1. PICK a, b, v, g :
             /\ At(o, d, w, h)[j] = <<a, b, v, g>>
             /\ At(o, o, w, h)[j] = <<a, a, v, g>>
             /\ At(d, d, w, h)[j] = <<b, b, v, g>>
             /\ \E z : At(<<>>, <<>>, w, h)[j] = <<z, z, v, g>>
    BY <1>2
  <2>2. PICK z : At(<<>>, <<>>, w, h)[j] = <<z, z, v, g>>
    BY <2>1
  <2>3. At(o, d, w, h)[j + 1] = <<Downsampled(a, v, g), Downsampled(b, v, g), Half(v), Half(g)>>
    BY <2>1, AtShrinks
  <2>4. At(o, o, w, h)[j + 1] = <<Downsampled(a, v, g), Downsampled(a, v, g), Half(v), Half(g)>>
    BY <2>1, AtShrinks
  <2>5. At(d, d, w, h)[j + 1] = <<Downsampled(b, v, g), Downsampled(b, v, g), Half(v), Half(g)>>
    BY <2>1, AtShrinks
  <2>6. At(<<>>, <<>>, w, h)[j + 1] = <<Downsampled(z, v, g), Downsampled(z, v, g), Half(v), Half(g)>>
    BY <2>2, AtShrinks
  <2> QED
    BY <2>3, <2>4, <2>5, <2>6, Zenon
<1>3. \A j \in 0 .. 4 : j \in Scales /\ j + 1 \in Scales
  BY ScalesAre
<1>4. 0 \in Scales
  BY ScalesAre
<1> HIDE DEF Is
<1>5. 0 \in S /\ \A j \in 0 .. 4 : j \in S => j + 1 \in S
  BY <1>1, <1>2, <1>3, <1>4
<1> HIDE DEF S
<1>6. k \in S
  BY <1>5, ScaleByScale
<1>7. Is(k)
  BY <1>6 DEF S
<1> QED
  BY <1>7 DEF Is, LinearOf, WidthOf, HeightOf

LEMMA ScalesShrink ==
    ASSUME NEW w, NEW h
    PROVE  /\ WidthOf(w, h, 0) = w /\ HeightOf(w, h, 0) = h
           /\ \A k \in 0 .. 4 : /\ WidthOf(w, h, k + 1) = Half(WidthOf(w, h, k))
                                /\ HeightOf(w, h, k + 1) = Half(HeightOf(w, h, k))
           /\ \A img : LinearOf(img, w, h, 0) = img
           /\ \A img : \A k \in 0 .. 4 :
                LinearOf(img, w, h, k + 1) =
                    Downsampled(LinearOf(img, w, h, k), WidthOf(w, h, k), HeightOf(w, h, k))
<1>1. \A k \in 0 .. 4 : k \in Scales /\ k + 1 \in Scales
  BY ScalesAre
<1>2. ASSUME NEW img, NEW k \in 0 .. 4
      PROVE  /\ WidthOf(w, h, k + 1) = Half(WidthOf(w, h, k))
             /\ HeightOf(w, h, k + 1) = Half(HeightOf(w, h, k))
             /\ LinearOf(img, w, h, k + 1) =
                    Downsampled(LinearOf(img, w, h, k), WidthOf(w, h, k), HeightOf(w, h, k))
  <2>1. At(img, img, w, h)[k] = <<LinearOf(img, w, h, k), LinearOf(img, w, h, k),
                                  WidthOf(w, h, k), HeightOf(w, h, k)>>
    BY <1>1, AtIs
  <2>2. At(img, img, w, h)[k + 1] =
          <<LinearOf(img, w, h, k + 1), LinearOf(img, w, h, k + 1),
            WidthOf(w, h, k + 1), HeightOf(w, h, k + 1)>>
    BY <1>1, AtIs
  <2>3. At(img, img, w, h)[k + 1] =
          <<Downsampled(LinearOf(img, w, h, k), WidthOf(w, h, k), HeightOf(w, h, k)),
            Downsampled(LinearOf(img, w, h, k), WidthOf(w, h, k), HeightOf(w, h, k)),
            Half(WidthOf(w, h, k)), Half(HeightOf(w, h, k))>>
    BY <2>1, AtShrinks
  <2> QED
    BY <2>2, <2>3
<1>3. ASSUME NEW img PROVE /\ LinearOf(img, w, h, 0) = img
                           /\ WidthOf(w, h, 0) = w /\ HeightOf(w, h, 0) = h
  BY AtStarts DEF LinearOf, WidthOf, HeightOf
<1> QED
  BY <1>2, <1>3

LEMMA DimensionsAreNat ==
    ASSUME NEW w \in Nat, NEW h \in Nat, NEW k \in Scales
    PROVE  WidthOf(w, h, k) \in Nat /\ HeightOf(w, h, k) \in Nat
<1> DEFINE S == {j \in Scales : WidthOf(w, h, j) \in Nat /\ HeightOf(w, h, j) \in Nat}
<1>1. 0 \in S
  BY ScalesShrink, ScalesAre
<1>2. ASSUME NEW j \in 0 .. 4, j \in S PROVE j + 1 \in S
  <2>1. j + 1 \in Scales
    BY ScalesAre
  <2>2. WidthOf(w, h, j + 1) = Half(WidthOf(w, h, j)) /\ HeightOf(w, h, j + 1) = Half(HeightOf(w, h, j))
    BY ScalesShrink
  <2>3. \A n \in Nat : Half(n) \in Nat
    BY DEF Half
  <2> QED
    BY <1>2, <2>1, <2>2, <2>3
<1> HIDE DEF S
<1>3. k \in S
  BY <1>1, <1>2, ScaleByScale
<1> QED
  BY <1>3 DEF S

Small(w, h, k) == TooSmall(WidthOf(w, h, Before(k)), HeightOf(w, h, Before(k)))

(* The scales the reference reaches, by the dimensions of its loop.        *)
LEMMA ReachedIs ==
    ASSUME NEW w, NEW h
    PROVE  Reached(w, h) = {k \in Scales : \A j \in 0 .. k : ~Small(w, h, j)}
<1> DEFINE Unfolded(g) == [k \in Scales |-> IF k <= 1 THEN <<w, h>>
                                            ELSE <<Half(g[k - 1][1]), Half(g[k - 1][2])>>]
           Pair(k) == <<WidthOf(w, h, Before(k)), HeightOf(w, h, Before(k))>>
           given == [k \in Scales |-> Pair(k)]
           before == CHOOSE f : f = Unfolded(f)
<1>1. Reached(w, h) = {k \in 0 .. kNumScales - 1 :
                         \A j \in 0 .. k : ~TooSmall(before[j][1], before[j][2])}
  BY DEF Reached, Scales
(* Whatever satisfies the recursion has these values.                      *)
<1>2. ASSUME NEW f, f = Unfolded(f) PROVE \A k \in Scales : f[k] = Pair(k)
  <2> DEFINE S == {k \in Scales : f[k] = Pair(k)}
  <2>0. f[0] = <<w, h>> /\ f[1] = <<w, h>>
    <3>1. 0 \in Scales /\ 1 \in Scales
      BY ScalesAre
    <3> QED
      BY <1>2, <3>1
  <2>1. 0 \in S
    <3>1. Pair(0) = <<w, h>> /\ 0 \in Scales
      BY ScalesShrink, ScalesAre DEF Before
    <3> QED
      BY <2>0, <3>1
  <2>2. ASSUME NEW k \in 0 .. 4, k \in S PROVE k + 1 \in S
    <3>1. k + 1 \in Scales /\ k \in Scales /\ (k + 1) - 1 = k
      BY ScalesAre
    <3>2. CASE k = 0
      <4>1. Before(1) = 0
        BY DEF Before
      <4>2. Pair(1) = <<w, h>>
        BY <4>1, ScalesShrink
      <4> QED
        BY <3>1, <3>2, <4>2, <2>0
    <3>3. CASE k # 0
      <4>1. f[k + 1] = <<Half(f[k][1]), Half(f[k][2])>>
        <5>1. f[k + 1] = Unfolded(f)[k + 1]
          BY <1>2
        <5>2. ~(k + 1 <= 1)
          BY <3>3
        <5> HIDE <1>2
        <5>3. Unfolded(f)[k + 1] = <<Half(f[(k + 1) - 1][1]), Half(f[(k + 1) - 1][2])>>
          BY <3>1, <5>2
        <5> QED
          BY <5>1, <5>3, <3>1
      <4>2. f[k] = Pair(k)
        BY <2>2
      <4>3. Before(k) = k - 1 /\ Before(k + 1) = k /\ (k - 1) + 1 = k /\ k - 1 \in 0 .. 4
        BY <3>3 DEF Before
      <4>4. WidthOf(w, h, (k - 1) + 1) = Half(WidthOf(w, h, k - 1)) /\ HeightOf(w, h, (k - 1) + 1) = Half(HeightOf(w, h, k - 1))
        BY <4>3, ScalesShrink
      <4>5. f[k][1] = WidthOf(w, h, k - 1) /\ f[k][2] = HeightOf(w, h, k - 1)
        BY <4>2, <4>3
      <4>6. f[k + 1] = Pair(k + 1)
        BY <4>1, <4>3, <4>4, <4>5
      <4> QED
        BY <3>1, <4>6
    <3> QED
      BY <3>2, <3>3
  <2> HIDE DEF S
  <2>3. \A k \in Scales : k \in S
    BY <2>1, <2>2, ScaleByScale
  <2> QED
    BY <2>3 DEF S
<1>3. given = Unfolded(given)
  <2>1. ASSUME NEW k \in Scales
        PROVE  given[k] = IF k <= 1 THEN <<w, h>>
                          ELSE <<Half(given[k - 1][1]), Half(given[k - 1][2])>>
    <3>1. CASE k <= 1
      <4>1. Before(k) = 0
        BY <3>1, ScalesAre DEF Before
      <4>2. Pair(k) = <<w, h>>
        BY <4>1, ScalesShrink
      <4> QED
        BY <3>1, <4>2
    <3>2. CASE ~(k <= 1)
      <4>1. /\ k - 1 \in Scales /\ k - 2 \in 0 .. 4 /\ (k - 2) + 1 = k - 1
            /\ Before(k) = k - 1 /\ Before(k - 1) = k - 2
        BY <3>2, ScalesAre DEF Before
      <4>2. WidthOf(w, h, (k - 2) + 1) = Half(WidthOf(w, h, k - 2)) /\ HeightOf(w, h, (k - 2) + 1) = Half(HeightOf(w, h, k - 2))
        BY <4>1, ScalesShrink
      <4>3. given[k] = Pair(k) /\ given[k - 1] = Pair(k - 1)
        BY <4>1
      <4>4. given[k - 1][1] = WidthOf(w, h, k - 2) /\ given[k - 1][2] = HeightOf(w, h, k - 2)
        BY <4>1, <4>3
      <4> HIDE DEF given
      <4> QED
        BY <3>2, <4>1, <4>2, <4>3, <4>4
    <3> QED
      BY <3>1, <3>2
  <2> HIDE DEF Pair
  <2>2. given = [k \in Scales |-> given[k]]
    OBVIOUS
  <2> HIDE DEF given
  <2> QED
    BY <2>1, <2>2
<1> HIDE DEF Unfolded, given
<1>4. before = Unfolded(before)
  BY <1>3
<1> HIDE DEF before
<1>5. \A k \in Scales : before[k] = Pair(k)
  BY <1>2, <1>4
<1>6. \A k \in Scales : before[k][1] = WidthOf(w, h, Before(k)) /\ before[k][2] = HeightOf(w, h, Before(k))
  BY <1>5
<1>7. \A k \in Scales : \A j \in 0 .. k : j \in Scales
  BY ScalesAre
<1> QED
  BY <1>1, <1>6, <1>7 DEF Small, Scales

(* The loop ends where the reference does, and not before.                 *)
LEMMA ReachedNext ==
    ASSUME NEW w, NEW h, NEW k \in 0 .. 6, 0 .. k - 1 \subseteq Reached(w, h)
    PROVE  /\ k = 6 \/ Small(w, h, k) => Reached(w, h) = 0 .. k - 1
           /\ k < 6 /\ ~Small(w, h, k) => k \in Reached(w, h) /\ 0 .. k \subseteq Reached(w, h)
<1>1. \A j \in 0 .. k - 1 : j \in Scales /\ ~Small(w, h, j)
  BY ReachedIs
<1>2. ASSUME k < 6, ~Small(w, h, k)
      PROVE  k \in Reached(w, h) /\ 0 .. k \subseteq Reached(w, h)
  <2>1. k \in Scales /\ \A j \in 0 .. k : j \in 0 .. k - 1 \/ j = k
    BY <1>2, ScalesAre
  <2>2. k \in Reached(w, h)
    BY <2>1, <1>1, <1>2, ReachedIs
  <2> QED
    BY <2>1, <2>2
<1>3. ASSUME k = 6 \/ Small(w, h, k)
      PROVE  Reached(w, h) = 0 .. k - 1
  <2>1. ASSUME NEW j \in Reached(w, h) PROVE j \in 0 .. k - 1
    <3>1. j \in Scales /\ \A i \in 0 .. j : ~Small(w, h, i)
      BY ReachedIs
    <3>2. j \in 0 .. 5
      BY <3>1, ScalesAre
    <3>3. ~(k <= j)
      BY <1>3, <3>1, <3>2
    <3> QED
      BY <3>2, <3>3
  <2> QED
    BY <2>1
<1> QED
  BY <1>2, <1>3

LEMMA ReachedScales == \A w, h : Reached(w, h) \subseteq Scales
  BY ReachedIs

(* An image has pixels at every scale that is reached, and before it.      *)
LEMMA ReachedHasPixels ==
    ASSUME NEW w \in Nat, NEW h \in Nat, NEW k \in Reached(w, h)
    PROVE  /\ WidthOf(w, h, k) > 0 /\ HeightOf(w, h, k) > 0
           /\ WidthOf(w, h, Before(k)) > 0 /\ HeightOf(w, h, Before(k)) > 0
<1>1. k \in {0, 1, 2, 3, 4, 5} /\ ~Small(w, h, k)
  <2>1. k \in Scales /\ \A j \in 0 .. k : ~Small(w, h, j)
    BY ReachedIs
  <2> QED
    BY <2>1, ScalesAre
<1>2. Before(k) \in Scales
  BY <1>1, ScalesAre DEF Before
<1>3. WidthOf(w, h, Before(k)) \in Nat /\ HeightOf(w, h, Before(k)) \in Nat
  BY <1>2, DimensionsAreNat
<1>4. WidthOf(w, h, Before(k)) >= 8 /\ HeightOf(w, h, Before(k)) >= 8
  BY <1>1, <1>3 DEF Small, TooSmall
<1>5. CASE k = 0
  <2>1. Before(k) = k
    BY <1>5 DEF Before
  <2>2. WidthOf(w, h, k) \in Nat /\ HeightOf(w, h, k) \in Nat
        /\ WidthOf(w, h, k) >= 8 /\ HeightOf(w, h, k) >= 8
    BY <1>3, <1>4, <2>1
  <2> QED
    BY <2>1, <2>2
<1>6. CASE k # 0
  <2>1. Before(k) \in 0 .. 4 /\ Before(k) + 1 = k
    BY <1>1, <1>6 DEF Before
  <2>2. /\ WidthOf(w, h, k) = Half(WidthOf(w, h, Before(k)))
        /\ HeightOf(w, h, k) = Half(HeightOf(w, h, Before(k)))
    BY <2>1, ScalesShrink
  <2>3. \A n \in Nat : n >= 8 => Half(n) > 0
    BY DEF Half
  <2> QED
    BY <1>3, <1>4, <2>2, <2>3
<1> QED
  BY <1>3, <1>4, <1>5, <1>6

(* No scale is skipped.                                                    *)
LEMMA ReachedPrefix ==
    ASSUME NEW w, NEW h
    PROVE  \E n \in 0 .. 6 : Reached(w, h) = 0 .. n - 1
<1> DEFINE T == {k \in 0 .. 6 : k = 6 \/ Small(w, h, k)}
<1>1. T \in SUBSET Nat /\ 6 \in T
  OBVIOUS
<1>2. \E m \in T : \A n \in T : m <= n
  <2> HIDE DEF T
  <2> QED
    BY <1>1, LeastNumber
<1>3. PICK m \in T : \A n \in T : m <= n
  BY <1>2
<1>4. \A k \in 0 .. m - 1 : k \in Scales /\ \A j \in 0 .. k : ~Small(w, h, j)
  <2> SUFFICES ASSUME NEW k \in 0 .. m - 1, NEW j \in 0 .. k
               PROVE  k \in Scales /\ ~Small(w, h, j)
    OBVIOUS
  <2>1. k \in Scales /\ j \in 0 .. 6 /\ ~(m <= j)
    BY ScalesAre
  <2> QED
    BY <1>3, <2>1
<1>5. 0 .. m - 1 \subseteq Reached(w, h)
  BY <1>4, ReachedIs
<1> QED
  BY <1>3, <1>5, ReachedNext

ScaleOf(o, d, w, h, k) ==
    Scale(LinearOf(o, w, h, k), LinearOf(d, w, h, k), WidthOf(w, h, k), HeightOf(w, h, k))

ScalesOf(o, d, w, h, n) == [i \in 1 .. n |-> ScaleOf(o, d, w, h, i - 1)]

LEMMA ReferenceScales ==
    ASSUME NEW o, NEW d, NEW w, NEW h, NEW n \in 0 .. 6, Reached(w, h) = 0 .. n - 1
    PROVE  ComputeSSIMULACRA2(o, d, w, h) = ScalesOf(o, d, w, h, n)
<1> DEFINE at == At(o, d, w, h)
           scale == [k \in Reached(w, h) |-> Scale(at[k][1], at[k][2], at[k][3], at[k][4])]
<1>1. ComputeSSIMULACRA2(o, d, w, h) = [i \in {k + 1 : k \in DOMAIN scale} |-> scale[i - 1]]
  BY DEF ComputeSSIMULACRA2
<1>2. ASSUME NEW k \in 0 .. n - 1 PROVE scale[k] = ScaleOf(o, d, w, h, k)
  <2>1. k \in Scales
    BY ScalesAre
  <2>2. at[k] = <<LinearOf(o, w, h, k), LinearOf(d, w, h, k), WidthOf(w, h, k), HeightOf(w, h, k)>>
    BY <2>1, AtIs
  <2>3. scale[k] = Scale(at[k][1], at[k][2], at[k][3], at[k][4])
    OBVIOUS
  <2> HIDE DEF at, scale
  <2>4. /\ at[k][1] = LinearOf(o, w, h, k) /\ at[k][2] = LinearOf(d, w, h, k)
        /\ at[k][3] = WidthOf(w, h, k) /\ at[k][4] = HeightOf(w, h, k)
    BY <2>2
  <2> QED
    BY <2>3, <2>4 DEF ScaleOf
<1>3. DOMAIN scale = 0 .. n - 1
  OBVIOUS
<1> HIDE DEF scale
<1>4. {k + 1 : k \in 0 .. n - 1} = 1 .. n
  <2>1. ASSUME NEW i \in 1 .. n PROVE i \in {k + 1 : k \in 0 .. n - 1}
    <3>1. i - 1 \in 0 .. n - 1 /\ i = (i - 1) + 1
      OBVIOUS
    <3> QED
      BY <3>1
  <2> QED
    BY <2>1
<1>5. \A i \in 1 .. n : scale[i - 1] = ScaleOf(o, d, w, h, i - 1)
  BY <1>2
<1> QED
  BY <1>1, <1>3, <1>4, <1>5 DEF ScalesOf

(* How far the loop of compute_ssimulacra2_cpu is before its scale k.      *)
CpuFar(s, o, d, w, h, k) ==
    /\ s = [a |-> s.a, b |-> s.b, w |-> s.w, h |-> s.h, broke |-> s.broke,
            scales |-> s.scales]
    /\ \E n \in 0 .. k :
        /\ 0 .. n - 1 \subseteq Reached(w, h)
        /\ s.scales = ScalesOf(o, d, w, h, n)
        /\ IF s.broke THEN Reached(w, h) = 0 .. n - 1
           ELSE /\ n = k
                /\ s.a = LinearOf(o, w, h, Before(k)) /\ s.b = LinearOf(d, w, h, Before(k))
                /\ s.w = WidthOf(w, h, Before(k)) /\ s.h = HeightOf(w, h, Before(k))

LEMMA AppendedScale ==
    ASSUME NEW o, NEW d, NEW w, NEW h, NEW n \in Nat
    PROVE  Append(ScalesOf(o, d, w, h, n), ScaleOf(o, d, w, h, n))
               = ScalesOf(o, d, w, h, n + 1)
<1> USE DEF ScalesOf
<1> DEFINE f == ScalesOf(o, d, w, h, n + 1)
<1>1. f[n + 1] = ScaleOf(o, d, w, h, n)
  <2>1. (n + 1) - 1 = n /\ n + 1 \in 1 .. n + 1
    OBVIOUS
  <2> QED
    BY <2>1
<1>2. [i \in 1 .. n |-> f[i]] = ScalesOf(o, d, w, h, n)
  <2>1. \A i \in 1 .. n : f[i] = ScaleOf(o, d, w, h, i - 1)
    OBVIOUS
  <2> QED
    BY <2>1
<1>3. [i \in 1 .. n + 1 |-> f[i]] = f
  OBVIOUS
<1> HIDE DEF f
<1>4. Append([i \in 1 .. n |-> f[i]], f[n + 1]) = [i \in 1 .. n + 1 |-> f[i]]
  BY Appended
<1>5. Append(ScalesOf(o, d, w, h, n), ScaleOf(o, d, w, h, n)) = f
  BY <1>1, <1>2, <1>3, <1>4
<1> QED
  BY <1>5 DEF f

LEMMA CpuGoesOn ==
    ASSUME NEW o, NEW d, NEW w, NEW h, NEW k \in 0 .. 5, NEW s, CpuFar(s, o, d, w, h, k)
    PROVE  CpuFar(CpuScale(s, k), o, d, w, h, k + 1)
<1> DEFINE t == CpuScale(s, k)
<1>1. PICK n \in 0 .. k :
        /\ 0 .. n - 1 \subseteq Reached(w, h)
        /\ s.scales = ScalesOf(o, d, w, h, n)
        /\ IF s.broke THEN Reached(w, h) = 0 .. n - 1
           ELSE /\ n = k
                /\ s.a = LinearOf(o, w, h, Before(k)) /\ s.b = LinearOf(d, w, h, Before(k))
                /\ s.w = WidthOf(w, h, Before(k)) /\ s.h = HeightOf(w, h, Before(k))
  BY DEF CpuFar
<1>2. CASE s.broke \/ TooSmall(s.w, s.h)
  <2>1. t = [s EXCEPT !.broke = TRUE]
    BY <1>2 DEF CpuScale
  <2>0. s = [a |-> s.a, b |-> s.b, w |-> s.w, h |-> s.h, broke |-> s.broke,
             scales |-> s.scales]
    BY DEF CpuFar
  <2>2. t = [a |-> s.a, b |-> s.b, w |-> s.w, h |-> s.h, broke |-> TRUE, scales |-> s.scales]
    <3> HIDE DEF t
    <3> QED
      BY <2>0, <2>1
  <2>3. Reached(w, h) = 0 .. n - 1
    <3>1. CASE s.broke
      BY <1>1, <3>1
    <3>2. CASE ~s.broke /\ TooSmall(s.w, s.h)
      <4>1. Small(w, h, k) /\ n = k
        BY <1>1, <3>2 DEF Small
      <4>2. k \in 0 .. 6 /\ 0 .. k - 1 \subseteq Reached(w, h)
        BY <1>1, <4>1
      <4>3. Reached(w, h) = 0 .. k - 1
        BY <4>1, <4>2, ReachedNext
      <4> QED
        BY <4>1, <4>3
    <3> QED
      BY <1>2, <3>1, <3>2
  <2> HIDE DEF t
  <2>4. n \in 0 .. k + 1
    OBVIOUS
  <2>6. /\ t.broke /\ t.scales = s.scales
        /\ t = [a |-> t.a, b |-> t.b, w |-> t.w, h |-> t.h, broke |-> t.broke,
                scales |-> t.scales]
    BY <2>2
  <2>5. CpuFar(t, o, d, w, h, k + 1)
    BY <1>1, <2>6, <2>3, <2>4 DEF CpuFar
  <2> QED
    BY <2>5 DEF t
<1>3. CASE ~(s.broke \/ TooSmall(s.w, s.h))
  <2>1. n = k /\ ~Small(w, h, k)
    BY <1>1, <1>3 DEF Small
  <2>2. 0 .. (k + 1) - 1 \subseteq Reached(w, h)
    BY <1>1, <2>1, ReachedNext
  <2> DEFINE a == LinearOf(o, w, h, k)
             b == LinearOf(d, w, h, k)
             v == WidthOf(w, h, k)
             g == HeightOf(w, h, k)
  <2>3. t = [a |-> a, b |-> b, w |-> v, h |-> g, broke |-> FALSE,
             scales |-> Append(s.scales, Scale(a, b, v, g))]
    <3>1. CASE k = 0
      <4>1. Before(k) = k
        BY <3>1 DEF Before
      <4>2. s.a = a /\ s.b = b /\ s.w = v /\ s.h = g
        BY <1>1, <2>1, <4>1, <1>3
      <4> HIDE DEF a, b, v, g
      <4> QED
        BY <1>3, <3>1, <4>2 DEF CpuScale
    <3>2. CASE k > 0
      <4>1. Before(k) = k - 1 /\ k - 1 \in 0 .. 4 /\ (k - 1) + 1 = k
        BY <3>2 DEF Before
      <4>2. /\ v = Half(WidthOf(w, h, k - 1)) /\ g = Half(HeightOf(w, h, k - 1))
            /\ a = Downsampled(LinearOf(o, w, h, k - 1), WidthOf(w, h, k - 1), HeightOf(w, h, k - 1))
            /\ b = Downsampled(LinearOf(d, w, h, k - 1), WidthOf(w, h, k - 1), HeightOf(w, h, k - 1))
        BY <4>1, ScalesShrink
      <4>3. /\ v = Half(s.w) /\ g = Half(s.h)
            /\ a = Downsampled(s.a, s.w, s.h) /\ b = Downsampled(s.b, s.w, s.h)
        BY <1>1, <2>1, <4>1, <4>2, <1>3
      <4> HIDE DEF a, b, v, g
      <4> QED
        BY <1>3, <3>2, <4>3 DEF CpuScale
    <3> QED
      BY <3>1, <3>2
  <2>4. Scale(a, b, v, g) = ScaleOf(o, d, w, h, k)
    BY DEF ScaleOf
  <2>5. Append(ScalesOf(o, d, w, h, k), ScaleOf(o, d, w, h, k)) = ScalesOf(o, d, w, h, k + 1)
    <3>1. k \in Nat
      OBVIOUS
    <3> QED
      BY <3>1, AppendedScale
  <2>6. Before(k + 1) = k
    BY DEF Before
  <2>7. k + 1 \in 0 .. k + 1
    OBVIOUS
  <2> HIDE DEF t
  <2>8. /\ t.a = a /\ t.b = b /\ t.w = v /\ t.h = g /\ t.broke = FALSE
        /\ t.scales = Append(s.scales, Scale(a, b, v, g))
        /\ t = [a |-> t.a, b |-> t.b, w |-> t.w, h |-> t.h, broke |-> t.broke,
                scales |-> t.scales]
    <3> HIDE DEF a, b, v, g
    <3> QED
      BY <2>3
  <2>9. t.scales = ScalesOf(o, d, w, h, k + 1)
    BY <1>1, <2>1, <2>4, <2>5, <2>8
  <2>10. CpuFar(t, o, d, w, h, k + 1)
    BY <2>2, <2>6, <2>7, <2>8, <2>9 DEF CpuFar
  <2> QED
    BY <2>10 DEF t
<1> QED
  BY <1>2, <1>3

(* cpu.rs, ssimulacra2.cc: for images of any dimensions the loop of        *)
(* compute_ssimulacra2_cpu makes the scales of ComputeSSIMULACRA2, of the  *)
(* same images with the same dimensions, and stops where that one does.    *)
THEOREM CpuIsReference ==
    ASSUME NEW o, NEW d, NEW w, NEW h
    PROVE  compute_ssimulacra2_cpu(o, d, w, h) = ComputeSSIMULACRA2(o, d, w, h)
<1> DEFINE s0 == [a |-> o, b |-> d, w |-> w, h |-> h, broke |-> FALSE, scales |-> <<>>]
           s1 == CpuScale(s0, 0)
           s2 == CpuScale(s1, 1)
           s3 == CpuScale(s2, 2)
           s4 == CpuScale(s3, 3)
           s5 == CpuScale(s4, 4)
           s6 == CpuScale(s5, 5)
           g == [k \in 0 .. 6 |-> IF k = 0 THEN s0 ELSE IF k = 1 THEN s1 ELSE IF k = 2 THEN s2
                                  ELSE IF k = 3 THEN s3 ELSE IF k = 4 THEN s4
                                  ELSE IF k = 5 THEN s5 ELSE s6]
           Unfolded(f) == [k \in 0 .. 6 |-> IF k = 0 THEN s0 ELSE CpuScale(f[k - 1], k - 1)]
           after == CHOOSE f : f = Unfolded(f)
<1>1. compute_ssimulacra2_cpu(o, d, w, h) = after[6].scales
  BY DEF compute_ssimulacra2_cpu, kNumScales
<1>2. CpuFar(s0, o, d, w, h, 0)
  <2>1. s0.scales = ScalesOf(o, d, w, h, 0)
    BY DEF ScalesOf
  <2>2. /\ s0.a = o /\ s0.b = d /\ s0.w = w /\ s0.h = h /\ ~s0.broke
        /\ s0 = [a |-> s0.a, b |-> s0.b, w |-> s0.w, h |-> s0.h, broke |-> s0.broke,
                 scales |-> s0.scales]
    OBVIOUS
  <2> HIDE DEF s0
  <2>3. Before(0) = 0 /\ 0 \in 0 .. 0 /\ 0 .. 0 - 1 = {}
    BY DEF Before
  <2> QED
    BY <2>1, <2>2, <2>3, ScalesShrink DEF CpuFar
<1> HIDE DEF s0, s1, s2, s3, s4, s5, s6
<1>3. /\ g[0] = s0 /\ g[1] = s1 /\ g[2] = s2 /\ g[3] = s3 /\ g[4] = s4 /\ g[5] = s5
      /\ g[6] = s6
  OBVIOUS
<1>4. g = Unfolded(g)
  <2> SUFFICES ASSUME NEW k \in 0 .. 6
               PROVE  g[k] = (IF k = 0 THEN s0 ELSE CpuScale(g[k - 1], k - 1))
    BY Zenon
  <2>1. k \in {0, 1, 2, 3, 4, 5, 6}
    OBVIOUS
  <2> HIDE DEF g
  <2> QED
    BY <2>1, <1>3 DEF s1, s2, s3, s4, s5, s6
<1> HIDE DEF g, Unfolded
<1>5. after = Unfolded(after)
  BY <1>4
<1> HIDE DEF after
<1>6. after[0] = s0 /\ \A k \in 0 .. 5 : after[k + 1] = CpuScale(after[k], k)
  <2>1. after = [k \in 0 .. 6 |-> IF k = 0 THEN s0 ELSE CpuScale(after[k - 1], k - 1)]
    BY <1>5 DEF Unfolded
  <2>2. after[0] = s0
    BY <2>1
  <2>3. ASSUME NEW k \in 0 .. 5 PROVE after[k + 1] = CpuScale(after[k], k)
    <3>1. k + 1 \in 0 .. 6 /\ k + 1 # 0 /\ (k + 1) - 1 = k
      OBVIOUS
    <3> QED
      BY <2>1, <3>1
  <2> QED
    BY <2>2, <2>3
<1>7. CpuFar(after[6], o, d, w, h, 6)
  <2>0. CpuFar(after[0], o, d, w, h, 0)
    BY <1>2, <1>6
  <2>1. ASSUME NEW k \in 0 .. 5, CpuFar(after[k], o, d, w, h, k)
        PROVE  CpuFar(after[k + 1], o, d, w, h, k + 1)
    BY <1>6, <2>1, CpuGoesOn
  <2>2. CpuFar(after[0 + 1], o, d, w, h, 0 + 1)
    BY <2>0, <2>1
  <2>3. CpuFar(after[1 + 1], o, d, w, h, 1 + 1)
    BY <2>2, <2>1
  <2>4. CpuFar(after[2 + 1], o, d, w, h, 2 + 1)
    BY <2>3, <2>1
  <2>5. CpuFar(after[3 + 1], o, d, w, h, 3 + 1)
    BY <2>4, <2>1
  <2>6. CpuFar(after[4 + 1], o, d, w, h, 4 + 1)
    BY <2>5, <2>1
  <2>7. CpuFar(after[5 + 1], o, d, w, h, 5 + 1)
    BY <2>6, <2>1
  <2> QED
    BY <2>7
<1>8. PICK n \in 0 .. 6 :
        /\ 0 .. n - 1 \subseteq Reached(w, h)
        /\ after[6].scales = ScalesOf(o, d, w, h, n)
        /\ after[6].broke \/ n = 6
        /\ after[6].broke => Reached(w, h) = 0 .. n - 1
  BY <1>7 DEF CpuFar
<1>9. Reached(w, h) = 0 .. n - 1
  BY <1>8, ReachedNext
<1>10. ComputeSSIMULACRA2(o, d, w, h) = ScalesOf(o, d, w, h, n)
  BY <1>9, ReferenceScales
<1> QED
  BY <1>1, <1>8, <1>10

-----------------------------------------------------------------------------
(* The averages are in the order in which SSIMMap and EdgeDiffMap leave    *)
(* them.                                                                   *)
LEMMA SsimNorms == \A i \in 1 .. 6 : ssim_norms[i] = avg_ssim[i - 1]
<1> DEFINE B == [c \in 1 .. 3 |-> <<Average("ssim", c - 1, 1), Average("ssim", c - 1, 4)>>]
           T == {Average("ssim", c - 1, n) : c \in 1 .. 3, n \in {1, 4}}
           out == CHOOSE g : g = [c \in 0 .. 3 |->
                    IF c = 0 THEN <<>>
                    ELSE g[c - 1] \o <<Average("ssim", c - 1, 1), Average("ssim", c - 1, 4)>>]
<1>1. ssim_norms = out[3]
  BY DEF ssim_norms
<1>2. AreBlocks(B, 2, 3)
  <2>1. ASSUME NEW c \in 1 .. 3 PROVE B[c] \in [1 .. 2 -> T]
    <3>1. Average("ssim", c - 1, 1) \in T /\ Average("ssim", c - 1, 4) \in T
      OBVIOUS
    <3> HIDE DEF T
    <3> QED
      BY <3>1
  <2>2. B = [c \in 1 .. 3 |-> B[c]]
    OBVIOUS
  <2> HIDE DEF B, T
  <2>3. B \in [1 .. 3 -> [1 .. 2 -> T]]
    BY <2>1, <2>2
  <2> QED
    BY <2>3 DEF AreBlocks
<1>3. out = Unrolled(B, 3, out)
  <2> DEFINE Unfolded(g) == [c \in 0 .. 3 |->
                    IF c = 0 THEN <<>>
                    ELSE g[c - 1] \o <<Average("ssim", c - 1, 1), Average("ssim", c - 1, 4)>>]
  <2>1. \E g : g = Unrolled(B, 3, g)
    <3> HIDE DEF B
    <3> QED
      BY <1>2, BlocksExist
  <2>2. ASSUME NEW g PROVE Unrolled(B, 3, g) = Unfolded(g)
    <3>1. \A c \in 0 .. 3 : c # 0 => B[c] = <<Average("ssim", c - 1, 1), Average("ssim", c - 1, 4)>>
      OBVIOUS
    <3> HIDE DEF B
    <3> QED
      BY <3>1, Zenon DEF Unrolled
  <2>3. out = CHOOSE g : g = Unfolded(g)
    OBVIOUS
  <2> HIDE DEF out, Unfolded, B
  <2> QED
    BY <2>1, <2>2, <2>3
<1> HIDE DEF out
<1>4. out[3] = InBlocks(B, 2, 3)
  <2> HIDE DEF B
  <2> QED
    BY <1>2, <1>3, Blocks
<1>5. ASSUME NEW i \in 1 .. 6 PROVE ssim_norms[i] = avg_ssim[i - 1]
  <2>1. i \in 1 .. 2 * 3 /\ (i - 1) \div 2 + 1 \in 1 .. 3 /\ (i - 1) % 2 \in 0 .. 1
    OBVIOUS
  <2>2. ssim_norms[i] = B[(i - 1) \div 2 + 1][((i - 1) % 2) + 1]
    BY <1>1, <1>4, <2>1 DEF InBlocks
  <2>3. B[(i - 1) \div 2 + 1] = <<Average("ssim", (i - 1) \div 2, 1), Average("ssim", (i - 1) \div 2, 4)>>
    <3>1. ((i - 1) \div 2 + 1) - 1 = (i - 1) \div 2
      BY <2>1
    <3> QED
      BY <2>1, <3>1
  <2>4. avg_ssim[i - 1] = Average("ssim", (i - 1) \div 2, Norm((i - 1) % 2))
    BY DEF avg_ssim
  <2> HIDE DEF B
  <2>5. CASE (i - 1) % 2 = 0
    BY <2>2, <2>3, <2>4, <2>5 DEF Norm
  <2>6. CASE (i - 1) % 2 = 1
    BY <2>2, <2>3, <2>4, <2>6 DEF Norm
  <2> QED
    BY <2>1, <2>5, <2>6
<1> QED
  BY <1>5

LEMMA EdgeNorms == \A i \in 1 .. 12 : edge_norms[i] = avg_edgediff[i - 1]
<1> DEFINE b(c) == <<Average("artifact", c - 1, 1), Average("artifact", c - 1, 4),
                     Average("detail_lost", c - 1, 1), Average("detail_lost", c - 1, 4)>>
           B == [c \in 1 .. 3 |-> b(c)]
           T == {Average(w, c - 1, n) : w \in {"artifact", "detail_lost"}, c \in 1 .. 3, n \in {1, 4}}
           out == CHOOSE g : g = [c \in 0 .. 3 |-> IF c = 0 THEN <<>> ELSE g[c - 1] \o b(c)]
<1>1. edge_norms = out[3]
  BY DEF edge_norms
<1>2. AreBlocks(B, 4, 3)
  <2>1. ASSUME NEW c \in 1 .. 3 PROVE B[c] \in [1 .. 4 -> T]
    <3>1. /\ Average("artifact", c - 1, 1) \in T /\ Average("artifact", c - 1, 4) \in T
          /\ Average("detail_lost", c - 1, 1) \in T /\ Average("detail_lost", c - 1, 4) \in T
      OBVIOUS
    <3> HIDE DEF T
    <3> QED
      BY <3>1
  <2>2. B = [c \in 1 .. 3 |-> B[c]]
    OBVIOUS
  <2> HIDE DEF B, T
  <2>3. B \in [1 .. 3 -> [1 .. 4 -> T]]
    BY <2>1, <2>2
  <2> QED
    BY <2>3 DEF AreBlocks
<1>3. out = Unrolled(B, 3, out)
  <2> DEFINE Unfolded(g) == [c \in 0 .. 3 |-> IF c = 0 THEN <<>> ELSE g[c - 1] \o b(c)]
  <2>1. \E g : g = Unrolled(B, 3, g)
    <3> HIDE DEF B
    <3> QED
      BY <1>2, BlocksExist
  <2>2. ASSUME NEW g PROVE Unrolled(B, 3, g) = Unfolded(g)
    <3> HIDE DEF b
    <3>1. \A c \in 0 .. 3 : c # 0 => B[c] = b(c)
      OBVIOUS
    <3> HIDE DEF B
    <3> QED
      BY <3>1, Zenon DEF Unrolled
  <2>3. out = CHOOSE g : g = Unfolded(g)
    OBVIOUS
  <2> HIDE DEF out, Unfolded, B
  <2> QED
    BY <2>1, <2>2, <2>3
<1> HIDE DEF out
<1>4. out[3] = InBlocks(B, 4, 3)
  <2> HIDE DEF B
  <2> QED
    BY <1>2, <1>3, Blocks
<1>5. ASSUME NEW i \in 1 .. 12 PROVE edge_norms[i] = avg_edgediff[i - 1]
  <2>1. /\ i \in 1 .. 4 * 3 /\ (i - 1) \div 4 + 1 \in 1 .. 3 /\ (i - 1) % 4 \in 0 .. 3
        /\ i - 1 \in 0 .. 11
    OBVIOUS
  <2>2. edge_norms[i] = B[(i - 1) \div 4 + 1][((i - 1) % 4) + 1]
    BY <1>1, <1>4, <2>1 DEF InBlocks
  <2>3. B[(i - 1) \div 4 + 1] = b((i - 1) \div 4 + 1)
    BY <2>1
  <2>4. avg_edgediff[i - 1] = Average(IF (i - 1) % 4 < 2 THEN "artifact" ELSE "detail_lost",
                                      (i - 1) \div 4, Norm((i - 1) % 2))
    BY <2>1 DEF avg_edgediff
  <2>5. ((i - 1) \div 4 + 1) - 1 = (i - 1) \div 4
    OBVIOUS
  <2> DEFINE c == (i - 1) \div 4
  <2>6. edge_norms[i] = <<Average("artifact", c, 1), Average("artifact", c, 4),
                          Average("detail_lost", c, 1), Average("detail_lost", c, 4)>>
                        [((i - 1) % 4) + 1]
    BY <2>2, <2>3, <2>5
  <2>7. avg_edgediff[i - 1] = Average(IF (i - 1) % 4 < 2 THEN "artifact" ELSE "detail_lost",
                                      c, Norm((i - 1) % 2))
    BY <2>4
  <2> HIDE DEF B, c
  <2>8. CASE (i - 1) % 4 = 0
    <3>1. (i - 1) % 2 = 0
      BY <2>8
    <3> QED
      BY <2>6, <2>7, <2>8, <3>1 DEF Norm
  <2>9. CASE (i - 1) % 4 = 1
    <3>1. (i - 1) % 2 = 1
      BY <2>9
    <3> QED
      BY <2>6, <2>7, <2>9, <3>1 DEF Norm
  <2>10. CASE (i - 1) % 4 = 2
    <3>1. (i - 1) % 2 = 0
      BY <2>10
    <3> QED
      BY <2>6, <2>7, <2>10, <3>1 DEF Norm
  <2>11. CASE (i - 1) % 4 = 3
    <3>1. (i - 1) % 2 = 1
      BY <2>11
    <3> QED
      BY <2>6, <2>7, <2>11, <3>1 DEF Norm
  <2> QED
    BY <2>1, <2>8, <2>9, <2>10, <2>11
<1> QED
  BY <1>5

(* Where an average of channel c stands among the 18 n of n scales.        *)
StandsAt(n, c, j, i) ==
    /\ i \div (6 * n) = c /\ (i \div 6) % n = j \div 6
    /\ (i \div 3) % 2 = (j % 6) \div 3 /\ i % 3 = (j % 6) % 3
    /\ j \div 6 \in 0 .. n - 1 /\ j % 6 \in 0 .. 5
    /\ i + 1 \in 1 .. 18 * n

LEMMA ScoreIndices ==
    ASSUME NEW n \in 1 .. 6, NEW c \in 0 .. 2, NEW j \in 0 .. 6 * n - 1, NEW i, i = 6 * n * c + j
    PROVE  StandsAt(n, c, j, i)
<1> USE DEF StandsAt
<1>1. CASE n = 1
  BY <1>1
<1>2. CASE n = 2
  BY <1>2
<1>3. CASE n = 3
  BY <1>3
<1>4. CASE n = 4
  BY <1>4
<1>5. CASE n = 5
  BY <1>5
<1>6. CASE n = 6
  BY <1>6
<1> QED
  BY <1>1, <1>2, <1>3, <1>4, <1>5, <1>6

UnrolledTwice(p, q, N, g) ==
    [n \in 0 .. N |-> IF n = 0 THEN <<>> ELSE g[n - 1] \o p[n] \o q[n]]

(* A loop that appends twice each time appends both at once.               *)
AreHalves(p, q, B, N) ==
    \E T : \A n \in 1 .. N :
        p[n] \in Seq(T) /\ q[n] \in Seq(T) /\ B[n] = p[n] \o q[n]

LEMMA AppendedTwice ==
    ASSUME NEW N \in Nat, NEW p, NEW q, NEW B, AreHalves(p, q, B, N), NEW g
    PROVE  g = UnrolledTwice(p, q, N, g) <=> g = Unrolled(B, N, g)
<1> PICK T : \A n \in 1 .. N :
        p[n] \in Seq(T) /\ q[n] \in Seq(T) /\ B[n] = p[n] \o q[n]
  BY DEF AreHalves
<1>1. \A n \in 1 .. N : \A s \in Seq(T) : (s \o p[n]) \o q[n] = s \o B[n] /\ s \o B[n] \in Seq(T)
  <2> SUFFICES ASSUME NEW n \in 1 .. N, NEW s \in Seq(T)
               PROVE  (s \o p[n]) \o q[n] = s \o B[n] /\ s \o B[n] \in Seq(T)
    OBVIOUS
  <2>1. p[n] \in Seq(T) /\ q[n] \in Seq(T) /\ B[n] = p[n] \o q[n]
    OBVIOUS
  <2>2. p[n] \o q[n] \in Seq(T)
    BY <2>1, ConcatProperties
  <2>3. s \o (p[n] \o q[n]) \in Seq(T)
    BY <2>2, ConcatProperties
  <2>4. (s \o p[n]) \o q[n] = s \o (p[n] \o q[n])
    <3> DEFINE a == p[n]
               b == q[n]
    <3>1. a \in Seq(T) /\ b \in Seq(T)
      BY <2>1
    <3> HIDE DEF a, b
    <3>2. (s \o a) \o b = s \o (a \o b)
      BY <3>1, ConcatAssociative
    <3> QED
      BY <3>2 DEF a, b
  <2>5. B[n] = p[n] \o q[n]
    BY <2>1
  <2> QED
    BY <2>3, <2>4, <2>5, Zenon
<1> DEFINE Once(n) == IF n = 0 THEN <<>> ELSE g[n - 1] \o B[n]
           Twice(n) == IF n = 0 THEN <<>> ELSE (g[n - 1] \o p[n]) \o q[n]
           S == {n \in 0 .. N : g[n] \in Seq(T)}
<1>2. ASSUME (\A n \in 0 .. N : g[n] = Once(n)) \/ (\A n \in 0 .. N : g[n] = Twice(n))
      PROVE  \A n \in 0 .. N : Once(n) = Twice(n)
  <2>1. 0 \in S
    <3>1. g[0] = Once(0) \/ g[0] = Twice(0)
      BY <1>2
    <3>2. Once(0) = <<>> /\ Twice(0) = <<>> /\ 0 \in 0 .. N
      OBVIOUS
    <3>3. <<>> \in Seq(T)
      OBVIOUS
    <3> HIDE DEF Once, Twice
    <3> QED
      BY <3>1, <3>2, <3>3
  <2>2. ASSUME NEW n \in 0 .. N - 1, n \in S PROVE n + 1 \in S
    <3>1. n + 1 \in 1 .. N /\ n + 1 \in 0 .. N /\ n + 1 # 0 /\ (n + 1) - 1 = n
      OBVIOUS
    <3>2. g[n] \in Seq(T)
      BY <2>2
    <3>3. Once(n + 1) = g[n] \o B[n + 1] /\ Twice(n + 1) = (g[n] \o p[n + 1]) \o q[n + 1]
      BY <3>1
    <3>4. g[n + 1] = Once(n + 1) \/ g[n + 1] = Twice(n + 1)
      BY <1>2, <3>1
    <3> HIDE DEF Once, Twice
    <3>5. (g[n] \o p[n + 1]) \o q[n + 1] = g[n] \o B[n + 1] /\ g[n] \o B[n + 1] \in Seq(T)
      BY <1>1, <3>1, <3>2, Zenon
    <3>6. g[n + 1] = g[n] \o B[n + 1]
      BY <3>3, <3>4, <3>5, Zenon
    <3>7. g[n + 1] \in Seq(T)
      BY <3>5, <3>6, Zenon
    <3> QED
      BY <3>1, <3>7, Zenon
  <2> HIDE DEF S
  <2>3. \A n \in 0 .. N : n \in S
    BY <2>1, <2>2, StepByStep
  <2> USE DEF S
  <2> SUFFICES ASSUME NEW n \in 0 .. N PROVE Once(n) = Twice(n)
    OBVIOUS
  <2>4. CASE n = 0
    BY <2>4
  <2>5. CASE n # 0
    <3>1. n \in 1 .. N /\ n - 1 \in 0 .. N
      BY <2>5
    <3>2. g[n - 1] \in Seq(T)
      BY <2>3, <3>1
    <3>3. (g[n - 1] \o p[n]) \o q[n] = g[n - 1] \o B[n]
      BY <1>1, <3>1, <3>2
    <3> QED
      BY <2>5, <3>3
  <2> QED
    BY <2>4, <2>5
<1>3. UnrolledTwice(p, q, N, g) = [n \in 0 .. N |-> Twice(n)]
  BY DEF UnrolledTwice
<1>4. Unrolled(B, N, g) = [n \in 0 .. N |-> Once(n)]
  BY DEF Unrolled
<1> HIDE DEF Once, Twice, S
<1>5. ASSUME g = UnrolledTwice(p, q, N, g) PROVE g = Unrolled(B, N, g)
  <2>1. \A n \in 0 .. N : g[n] = Twice(n)
    BY <1>3, <1>5
  <2>2. \A n \in 0 .. N : Once(n) = Twice(n)
    BY <1>2, <2>1
  <2> QED
    BY <1>3, <1>4, <1>5, <2>2
<1>6. ASSUME g = Unrolled(B, N, g) PROVE g = UnrolledTwice(p, q, N, g)
  <2>1. \A n \in 0 .. N : g[n] = Once(n)
    BY <1>4, <1>6
  <2>2. \A n \in 0 .. N : Once(n) = Twice(n)
    BY <1>2, <2>1
  <2> QED
    BY <1>3, <1>4, <1>6, <2>2
<1> QED
  BY <1>5, <1>6

(* One of the three averages of a scale, a channel and a norm.             *)
Three(c, sc, n) == <<<<sc, ssim_norms[c * 2 + n + 1]>>,
                     <<sc, edge_norms[c * 4 + n + 1]>>,
                     <<sc, edge_norms[c * 4 + n + 2 + 1]>>>>
Both(c, sc) == Three(c, sc, 0) \o Three(c, sc, 1)
ChannelSum(c, N) ==
    LET upto[sc \in 0 .. N] == IF sc = 0 THEN <<>>
                               ELSE upto[sc - 1] \o Three(c, sc, 0) \o Three(c, sc, 1)
    IN  upto[N]
Entries == Nat \X ({ssim_norms[i] : i \in 1 .. 6} \cup {edge_norms[i] : i \in 1 .. 12})

LEMMA WeightedSumIs ==
    ASSUME NEW N
    PROVE  weighted_sum(N) = ChannelSum(0, N) \o ChannelSum(1, N) \o ChannelSum(2, N)
  BY Zenon DEF weighted_sum, ChannelSum, Three

LEMMA ThreeIs ==
    ASSUME NEW c \in 0 .. 2, NEW sc \in Nat
    PROVE  /\ \A n \in {0, 1} : Three(c, sc, n) \in Seq(Entries) /\ Len(Three(c, sc, n)) = 3
           /\ Both(c, sc) \in [1 .. 6 -> Entries]
           /\ \A r \in 0 .. 5 : Both(c, sc)[r + 1] = Three(c, sc, r \div 3)[(r % 3) + 1]
<1>1. ASSUME NEW n \in {0, 1}
      PROVE  Three(c, sc, n) \in Seq(Entries) /\ Len(Three(c, sc, n)) = 3
  <2>1. c * 2 + n + 1 \in 1 .. 6 /\ c * 4 + n + 1 \in 1 .. 12 /\ c * 4 + n + 2 + 1 \in 1 .. 12
    OBVIOUS
  <2>2. /\ <<sc, ssim_norms[c * 2 + n + 1]>> \in Entries
        /\ <<sc, edge_norms[c * 4 + n + 1]>> \in Entries
        /\ <<sc, edge_norms[c * 4 + n + 2 + 1]>> \in Entries
    BY <2>1 DEF Entries
  <2> HIDE DEF Entries
  <2> QED
    BY <2>2 DEF Three
<1> DEFINE p == Three(c, sc, 0)
           q == Three(c, sc, 1)
<1>2. p \in Seq(Entries) /\ q \in Seq(Entries) /\ Len(p) = 3 /\ Len(q) = 3
  BY <1>1
<1> HIDE DEF p, q
<1> DEFINE r0 == p \o q
<1>3. /\ r0 \in Seq(Entries) /\ Len(r0) = 6
      /\ \A i \in 1 .. 6 : r0[i] = IF i <= 3 THEN p[i] ELSE q[i - 3]
  <2>1. /\ p \o q \in Seq(Entries)
        /\ Len(p \o q) = Len(p) + Len(q)
        /\ \A i \in 1 .. Len(p) + Len(q) :
             (p \o q)[i] = IF i <= Len(p) THEN p[i] ELSE q[i - Len(p)]
    BY <1>2, ConcatProperties
  <2> HIDE DEF Entries
  <2>2. /\ r0 \in Seq(Entries)
        /\ Len(r0) = Len(p) + Len(q)
        /\ \A i \in 1 .. Len(p) + Len(q) :
             r0[i] = IF i <= Len(p) THEN p[i] ELSE q[i - Len(p)]
    BY <2>1, Zenon
  <2> HIDE DEF r0
  <2> QED
    BY <1>2, <2>2
<1>4. Both(c, sc) = r0
  BY DEF Both, p, q
<1> HIDE DEF r0
<1>5. Both(c, sc) \in [1 .. 6 -> Entries]
  <2> HIDE DEF Entries
  <2>1. r0 \in [1 .. Len(r0) -> Entries]
    BY <1>3, LenProperties
  <2> QED
    BY <2>1, <1>3, <1>4
<1>6. ASSUME NEW r \in 0 .. 5
      PROVE  Both(c, sc)[r + 1] = Three(c, sc, r \div 3)[(r % 3) + 1]
  <2>1. CASE r <= 2
    <3>1. r + 1 \in 1 .. 6 /\ r + 1 <= 3 /\ r \div 3 = 0 /\ r % 3 = r
      BY <2>1
    <3> QED
      BY <3>1, <1>3, <1>4 DEF p
  <2>2. CASE r > 2
    <3>1. r + 1 \in 1 .. 6 /\ ~(r + 1 <= 3) /\ r \div 3 = 1 /\ r % 3 = r - 3 /\ (r + 1) - 3 = (r % 3) + 1
      BY <2>2
    <3> QED
      BY <3>1, <1>3, <1>4 DEF q
  <2> QED
    BY <2>1, <2>2
<1> QED
  BY <1>1, <1>5, <1>6

(* A channel's averages: six of each scale, scale by scale.                *)
LEMMA ChannelSumIs ==
    ASSUME NEW c \in 0 .. 2, NEW N \in Nat
    PROVE  /\ ChannelSum(c, N) \in Seq(Entries) /\ Len(ChannelSum(c, N)) = 6 * N
           /\ \A j \in 0 .. 6 * N - 1 :
                ChannelSum(c, N)[j + 1] =
                    Three(c, j \div 6 + 1, (j % 6) \div 3)[((j % 6) % 3) + 1]
<1> DEFINE p == [sc \in 1 .. N |-> Three(c, sc, 0)]
           q == [sc \in 1 .. N |-> Three(c, sc, 1)]
           B == [sc \in 1 .. N |-> Both(c, sc)]
           Unfolded(g) == [sc \in 0 .. N |-> IF sc = 0 THEN <<>>
                               ELSE g[sc - 1] \o Three(c, sc, 0) \o Three(c, sc, 1)]
           upto == CHOOSE g : g = Unfolded(g)
<1>1. ChannelSum(c, N) = upto[N]
  BY DEF ChannelSum
<1>2. \A sc \in 1 .. N : /\ p[sc] \in Seq(Entries) /\ q[sc] \in Seq(Entries)
                         /\ B[sc] = p[sc] \o q[sc]
  <2> SUFFICES ASSUME NEW sc \in 1 .. N
               PROVE  /\ p[sc] \in Seq(Entries) /\ q[sc] \in Seq(Entries)
                      /\ B[sc] = p[sc] \o q[sc]
    OBVIOUS
  <2>1. p[sc] = Three(c, sc, 0) /\ q[sc] = Three(c, sc, 1) /\ B[sc] = Both(c, sc) /\ sc \in Nat
    OBVIOUS
  <2>2. Three(c, sc, 0) \in Seq(Entries) /\ Three(c, sc, 1) \in Seq(Entries)
    BY <2>1, ThreeIs
  <2>3. Both(c, sc) = Three(c, sc, 0) \o Three(c, sc, 1)
    BY DEF Both
  <2> HIDE DEF p, q, B
  <2> QED
    BY <2>1, <2>2, <2>3, Zenon
<1>3. ASSUME NEW g PROVE Unfolded(g) = UnrolledTwice(p, q, N, g)
  <2>1. \A sc \in 0 .. N : sc # 0 => p[sc] = Three(c, sc, 0) /\ q[sc] = Three(c, sc, 1)
    OBVIOUS
  <2> HIDE DEF p, q
  <2> QED
    BY <2>1, Zenon DEF UnrolledTwice
<1>4. AreBlocks(B, 6, N)
  <2>1. \A sc \in 1 .. N : B[sc] \in [1 .. 6 -> Entries]
    BY ThreeIs
  <2>2. B = [sc \in 1 .. N |-> B[sc]]
    OBVIOUS
  <2> HIDE DEF B
  <2>3. B \in [1 .. N -> [1 .. 6 -> Entries]]
    BY <2>1, <2>2
  <2> QED
    BY <2>3 DEF AreBlocks
<1> HIDE DEF p, q, B, Unfolded
<1>5. \A g : g = UnrolledTwice(p, q, N, g) <=> g = Unrolled(B, N, g)
  <2>1. AreHalves(p, q, B, N)
    BY <1>2, Zenon DEF AreHalves
  <2> QED
    BY <2>1, AppendedTwice
<1>6. \E g : g = Unfolded(g)
  BY <1>3, <1>4, <1>5, BlocksExist
<1>7. upto = Unfolded(upto)
  BY <1>6
<1> HIDE DEF upto
<1>8. upto = Unrolled(B, N, upto)
  BY <1>3, <1>5, <1>7
<1>9. upto[N] = InBlocks(B, 6, N)
  BY <1>4, <1>8, Blocks
<1>10. \A i \in 1 .. 6 * N : (i - 1) \div 6 + 1 \in 1 .. N /\ (i - 1) % 6 \in 0 .. 5 /\ 6 * N \in Nat
  OBVIOUS
<1>11. \A i \in 1 .. 6 * N :
        InBlocks(B, 6, N)[i] = Both(c, (i - 1) \div 6 + 1)[((i - 1) % 6) + 1]
  BY <1>10 DEF InBlocks, B
<1>12. ASSUME NEW j \in 0 .. 6 * N - 1
       PROVE  ChannelSum(c, N)[j + 1] =
                    Three(c, j \div 6 + 1, (j % 6) \div 3)[((j % 6) % 3) + 1]
  <2>1. j + 1 \in 1 .. 6 * N /\ (j + 1) - 1 = j /\ j \div 6 + 1 \in Nat /\ j % 6 \in 0 .. 5
    OBVIOUS
  <2>2. ChannelSum(c, N)[j + 1] = Both(c, j \div 6 + 1)[(j % 6) + 1]
    BY <1>1, <1>9, <1>11, <2>1
  <2> QED
    BY <2>1, <2>2, ThreeIs
<1>13. ChannelSum(c, N) \in [1 .. 6 * N -> Entries]
  <2>1. \A i \in 1 .. 6 * N : Both(c, (i - 1) \div 6 + 1)[((i - 1) % 6) + 1] \in Entries
    <3> SUFFICES ASSUME NEW i \in 1 .. 6 * N
                 PROVE  Both(c, (i - 1) \div 6 + 1)[((i - 1) % 6) + 1] \in Entries
      OBVIOUS
    <3>1. (i - 1) \div 6 + 1 \in Nat /\ ((i - 1) % 6) + 1 \in 1 .. 6
      OBVIOUS
    <3>2. Both(c, (i - 1) \div 6 + 1) \in [1 .. 6 -> Entries]
      BY <3>1, ThreeIs
    <3> QED
      BY <3>1, <3>2
  <2>2. InBlocks(B, 6, N) = [i \in 1 .. 6 * N |-> InBlocks(B, 6, N)[i]]
    BY DEF InBlocks
  <2>3. InBlocks(B, 6, N) \in [1 .. 6 * N -> Entries]
    BY <2>1, <2>2, <1>11
  <2> QED
    BY <1>1, <1>9, <2>3
<1>14. ChannelSum(c, N) \in Seq(Entries) /\ Len(ChannelSum(c, N)) = 6 * N
  BY <1>10, <1>13
<1> QED
  BY <1>12, <1>14

(* What is appended is what Score() adds at that place.                    *)
Scored(sc, c, n, which) ==
    <<sc, CASE which = 0 -> avg_ssim[c * 2 + n]
            [] which = 1 -> avg_edgediff[c * 4 + n]
            [] which = 2 -> avg_edgediff[c * 4 + n + 2]>>

LEMMA ThreeIsScored ==
    ASSUME NEW c \in 0 .. 2, NEW sc \in Nat, NEW n \in {0, 1}, NEW which \in 0 .. 2
    PROVE  Three(c, sc, n)[which + 1] = Scored(sc, c, n, which)
<1>1. /\ c * 2 + n + 1 \in 1 .. 6 /\ (c * 2 + n + 1) - 1 = c * 2 + n
      /\ c * 4 + n + 1 \in 1 .. 12 /\ (c * 4 + n + 1) - 1 = c * 4 + n
      /\ c * 4 + n + 2 + 1 \in 1 .. 12 /\ (c * 4 + n + 2 + 1) - 1 = c * 4 + n + 2
  OBVIOUS
<1>2. /\ ssim_norms[c * 2 + n + 1] = avg_ssim[c * 2 + n]
      /\ edge_norms[c * 4 + n + 1] = avg_edgediff[c * 4 + n]
      /\ edge_norms[c * 4 + n + 2 + 1] = avg_edgediff[c * 4 + n + 2]
  <2>1. ssim_norms[c * 2 + n + 1] = avg_ssim[(c * 2 + n + 1) - 1]
    BY <1>1, SsimNorms
  <2>2. edge_norms[c * 4 + n + 1] = avg_edgediff[(c * 4 + n + 1) - 1]
    BY <1>1, EdgeNorms
  <2>3. edge_norms[c * 4 + n + 2 + 1] = avg_edgediff[(c * 4 + n + 2 + 1) - 1]
    BY <1>1, EdgeNorms
  <2> QED
    BY <1>1, <2>1, <2>2, <2>3
<1>3. Three(c, sc, n) = <<<<sc, avg_ssim[c * 2 + n]>>, <<sc, avg_edgediff[c * 4 + n]>>,
                          <<sc, avg_edgediff[c * 4 + n + 2]>>>>
  BY <1>2 DEF Three
<1>4. CASE which = 0
  BY <1>3, <1>4 DEF Scored
<1>5. CASE which = 1
  BY <1>3, <1>5 DEF Scored
<1>6. CASE which = 2
  BY <1>3, <1>6 DEF Scored
<1> QED
  BY <1>4, <1>5, <1>6

(* score.rs adds up what Msssim::Score() does, the same averages with the  *)
(* same weights in the same order, when scales are missing too.            *)
THEOREM WeightsAreScores ==
    ASSUME NEW N \in 1 .. 6
    PROVE  weighted_sum(N) = Score(N)
<1> DEFINE s(c) == ChannelSum(c, N)
           L == 6 * N
           left == s(0) \o s(1)
           all == left \o s(2)
<1>0. N \in Nat /\ L \in Nat /\ 18 * N = L + L + L /\ 18 * N \in Nat /\ L = 6 * N
  OBVIOUS
<1>1. \A c \in 0 .. 2 : s(c) \in Seq(Entries) /\ Len(s(c)) = L
  BY <1>0, ChannelSumIs
<1>2. /\ left \in Seq(Entries) /\ Len(left) = L + L
      /\ \A i \in 1 .. L + L : left[i] = IF i <= L THEN s(0)[i] ELSE s(1)[i - L]
  <2> DEFINE p == s(0)
             q == s(1)
  <2>1. p \in Seq(Entries) /\ q \in Seq(Entries) /\ Len(p) = L /\ Len(q) = L
    BY <1>1
  <2> HIDE DEF p, q, Entries
  <2>2. /\ p \o q \in Seq(Entries)
        /\ Len(p \o q) = Len(p) + Len(q)
        /\ \A i \in 1 .. Len(p) + Len(q) :
             (p \o q)[i] = IF i <= Len(p) THEN p[i] ELSE q[i - Len(p)]
    BY <2>1, ConcatProperties
  <2> DEFINE r == p \o q
  <2>3. /\ r \in Seq(Entries)
        /\ Len(r) = Len(p) + Len(q)
        /\ \A i \in 1 .. Len(p) + Len(q) :
             r[i] = IF i <= Len(p) THEN p[i] ELSE q[i - Len(p)]
    BY <2>2, Zenon
  <2> HIDE DEF r, L
  <2>4. /\ r \in Seq(Entries) /\ Len(r) = L + L
        /\ \A i \in 1 .. L + L : r[i] = IF i <= L THEN p[i] ELSE q[i - L]
    BY <2>1, <2>3
  <2> QED
    BY <2>4, Zenon DEF p, q, r
<1> HIDE DEF left, L
<1>3. /\ all \in Seq(Entries) /\ Len(all) = L + L + L
      /\ \A i \in 1 .. L + L + L : all[i] = IF i <= L + L THEN left[i] ELSE s(2)[i - (L + L)]
  <2> DEFINE q == s(2)
  <2>1. q \in Seq(Entries) /\ Len(q) = L
    BY <1>1
  <2>0. left \in Seq(Entries)
    BY <1>2
  <2> HIDE DEF q, Entries
  <2>2. /\ left \o q \in Seq(Entries)
        /\ Len(left \o q) = Len(left) + Len(q)
        /\ \A i \in 1 .. Len(left) + Len(q) :
             (left \o q)[i] = IF i <= Len(left) THEN left[i] ELSE q[i - Len(left)]
    BY <2>0, <2>1, ConcatProperties
  <2> DEFINE r == left \o q
  <2>3. /\ r \in Seq(Entries)
        /\ Len(r) = Len(left) + Len(q)
        /\ \A i \in 1 .. Len(left) + Len(q) :
             r[i] = IF i <= Len(left) THEN left[i] ELSE q[i - Len(left)]
    BY <2>2, Zenon
  <2> HIDE DEF r
  <2>4. /\ r \in Seq(Entries) /\ Len(r) = L + L + L
        /\ \A i \in 1 .. L + L + L : r[i] = IF i <= L + L THEN left[i] ELSE q[i - (L + L)]
    BY <1>2, <2>1, <2>3
  <2> QED
    BY <2>4, Zenon DEF q, r
<1>4. weighted_sum(N) = all
  BY WeightedSumIs DEF left
<1> HIDE DEF all
<1>5. ASSUME NEW c \in 0 .. 2, NEW j \in 0 .. L - 1
      PROVE  all[L * c + j + 1] = s(c)[j + 1] /\ L * c + j + 1 \in 1 .. 18 * N
  <2>1. CASE c = 0
    <3>1. L * c + j + 1 = j + 1 /\ j + 1 <= L /\ j + 1 <= L + L /\ j + 1 \in 1 .. L + L
          /\ j + 1 \in 1 .. L + L + L
      BY <1>0, <2>1
    <3> HIDE DEF s
    <3> QED
      BY <1>0, <1>2, <1>3, <2>1, <3>1
  <2>2. CASE c = 1
    <3>1. L * c + j + 1 = L + j + 1 /\ ~(L + j + 1 <= L) /\ L + j + 1 <= L + L
          /\ L + j + 1 \in 1 .. L + L /\ (L + j + 1) - L = j + 1
          /\ L + j + 1 \in 1 .. L + L + L
      BY <1>0, <2>2
    <3> HIDE DEF s
    <3> QED
      BY <1>0, <1>2, <1>3, <2>2, <3>1
  <2>3. CASE c = 2
    <3>1. L * c + j + 1 = L + L + j + 1 /\ ~(L + L + j + 1 <= L + L)
          /\ L + L + j + 1 \in 1 .. L + L + L /\ (L + L + j + 1) - (L + L) = j + 1
      BY <1>0, <2>3
    <3> HIDE DEF s
    <3> QED
      BY <1>0, <1>3, <2>3, <3>1
  <2> QED
    BY <2>1, <2>2, <2>3
<1>6. ASSUME NEW c \in 0 .. 2, NEW j \in 0 .. L - 1
      PROVE  Score(N)[L * c + j + 1] = s(c)[j + 1]
  <2> DEFINE i == 6 * N * c + j
             n == (j % 6) \div 3
             which == (j % 6) % 3
  <2>1. L * c + j + 1 = i + 1 /\ (i + 1) - 1 = i /\ j \in 0 .. 6 * N - 1
    BY <1>0
  <2>2. /\ i \div (6 * N) = c /\ (i \div 6) % N = j \div 6
        /\ (i \div 3) % 2 = n /\ i % 3 = which /\ i + 1 \in 1 .. 18 * N
        /\ j % 6 \in 0 .. 5
    <3> HIDE DEF i
    <3>1. i = 6 * N * c + j
      BY DEF i
    <3>2. StandsAt(N, c, j, i)
      BY <2>1, <3>1, ScoreIndices
    <3> QED
      BY <3>2 DEF StandsAt
  <2>3. n \in {0, 1} /\ which \in 0 .. 2 /\ j \div 6 + 1 \in Nat
    BY <2>1, <2>2
  <2>4. s(c)[j + 1] = Three(c, j \div 6 + 1, n)[which + 1]
    BY <1>0, <2>1, ChannelSumIs
  <2>5. Three(c, j \div 6 + 1, n)[which + 1] = Scored(j \div 6 + 1, c, n, which)
    BY <2>3, ThreeIsScored
  <2>6. Score(N)[i + 1] =
          Scored(((i \div 6) % N) + 1, i \div (6 * N), (i \div 3) % 2, i % 3)
    <3> DEFINE k == i + 1
    <3>1. k \in 1 .. 18 * N /\ k - 1 = i
      BY <2>1, <2>2
    <3> HIDE DEF k, i
    <3>2. Score(N)[k] =
          Scored((((k - 1) \div 6) % N) + 1, (k - 1) \div (6 * N), ((k - 1) \div 3) % 2, (k - 1) % 3)
      BY <3>1, Zenon DEF Score, Scored
    <3> QED
      BY <3>1, <3>2 DEF k
  <2> HIDE DEF i, n, which, s
  <2>7. Score(N)[i + 1] = Scored(j \div 6 + 1, c, n, which)
    BY <2>2, <2>6
  <2> QED
    BY <2>1, <2>4, <2>5, <2>7
<1>7. \A k \in 1 .. 18 * N : all[k] = Score(N)[k]
  <2> SUFFICES ASSUME NEW k \in 1 .. 18 * N PROVE all[k] = Score(N)[k]
    OBVIOUS
  <2>1. \E c \in 0 .. 2 : \E j \in 0 .. L - 1 : k = L * c + j + 1
    <3>1. CASE k <= L
      <4>1. k - 1 \in 0 .. L - 1 /\ k = L * 0 + (k - 1) + 1
        BY <3>1, <1>0
      <4> QED
        BY <4>1
    <3>2. CASE k > L /\ k <= L + L
      <4>1. k - 1 - L \in 0 .. L - 1 /\ k = L * 1 + (k - 1 - L) + 1
        BY <3>2, <1>0
      <4> QED
        BY <4>1
    <3>3. CASE k > L + L
      <4>1. k - 1 - (L + L) \in 0 .. L - 1 /\ k = L * 2 + (k - 1 - (L + L)) + 1
        BY <3>3, <1>0
      <4> QED
        BY <4>1
    <3> QED
      BY <1>0, <3>1, <3>2, <3>3
  <2>2. PICK c \in 0 .. 2, j \in 0 .. L - 1 : k = L * c + j + 1
    BY <2>1
  <2>3. all[L * c + j + 1] = s(c)[j + 1] /\ Score(N)[L * c + j + 1] = s(c)[j + 1]
    BY <1>5, <1>6
  <2> HIDE DEF s
  <2> QED
    BY <2>2, <2>3, Zenon
<1>8. DOMAIN all = 1 .. 18 * N /\ all = [k \in 1 .. 18 * N |-> all[k]]
  <2> HIDE DEF Entries
  <2>1. all \in [1 .. Len(all) -> Entries] /\ Len(all) = 18 * N
    BY <1>0, <1>3, LenProperties
  <2> QED
    BY <2>1
<1>9. Score(N) = [k \in 1 .. 18 * N |-> Score(N)[k]]
  BY DEF Score
<1> QED
  BY <1>4, <1>7, <1>8, <1>9
=============================================================================
