--------------------------- MODULE BitStreamProofs ---------------------------
(***************************************************************************)
(* A BitWriter's writes land on zero bits inside the storage, for          *)
(* allotments of any size and depth, and a BitReader accounts for every    *)
(* bit, for spans and skips of any size.                                   *)
(***************************************************************************)
EXTENDS BitWriter, BitReader, TLAPS

-----------------------------------------------------------------------------
(* BitWriter.                                                              *)

Allotments == [prev_bits_written : Nat, max_bits : Nat, granted : Nat]

WriterTypeOK ==
  /\ bits_written \in Nat /\ size \in Nat /\ capacity \in Nat /\ clean \in Nat
  /\ charged \in Nat
  /\ open \in Seq(Allotments)

\* The byte under the pen is zero above it as soon as there is storage.
CleanAhead == capacity > 0 => kBitsPerByte * Pen + kBitsPerByte <= clean

\* An allotment was opened within what was left of the one around it.
Nested ==
  \A i \in 1..Len(open) - 1 :
    /\ open[i].prev_bits_written <= open[i + 1].prev_bits_written
    /\ open[i + 1].prev_bits_written <= open[i].prev_bits_written + open[i].max_bits
    /\ open[i + 1].granted = open[i].granted + open[i + 1].max_bits

\* What an allotment may still reach is within what all of them were opened for.
Granted ==
  \A i \in 1..Len(open) :
    open[i].prev_bits_written + open[i].max_bits
      <= open[1].prev_bits_written + open[i].granted

WithinTop ==
  open # <<>> =>
    /\ Top.prev_bits_written <= bits_written
    /\ bits_written <= Top.prev_bits_written + Top.max_bits

\* The storage holds all that was granted, and what was written before.
Allocated ==
  IF open = <<>> THEN bits_written <= kBitsPerByte * size
  ELSE open[1].prev_bits_written + Top.granted <= kBitsPerByte * size

\* The outermost allotment starts at the bits that have been charged.
ChargedBelow ==
  charged = IF open = <<>> THEN bits_written ELSE open[1].prev_bits_written

WriterInv ==
  /\ WriterTypeOK
  /\ size <= capacity
  /\ CleanAhead
  /\ Nested
  /\ Granted
  /\ WithinTop
  /\ Allocated
  /\ ChargedBelow

-----------------------------------------------------------------------------
(* Reclaim moves the start of two allotments by the same number of bits,   *)
(* which leaves the inner one in its place within the outer.               *)
LEMMA ShiftKeepsOrder ==
  ASSUME NEW a \in Nat, NEW b \in Nat, NEW m \in Nat, NEW u \in Nat, a <= b, b <= a + m
  PROVE  a + u <= b + u /\ b + u <= (a + u) + m
  OBVIOUS

(* The bits written lie inside the storage.                                *)
LEMMA WrittenInside ==
  ASSUME WriterInv
  PROVE  /\ bits_written <= kBitsPerByte * size
         /\ Pen \in Nat
         /\ Pen <= size
         /\ open # <<>> => /\ Len(open) \in 1..Len(open)
                           /\ Top \in Allotments /\ open[1] \in Allotments
                           /\ Top.prev_bits_written + Top.max_bits <= kBitsPerByte * size
<1>1. Pen \in Nat /\ kBitsPerByte * Pen <= bits_written
  BY DEF WriterInv, WriterTypeOK, Pen, kBitsPerByte
<1>2. CASE open = <<>>
  BY <1>1, <1>2 DEF WriterInv, WriterTypeOK, Allocated, kBitsPerByte
<1>3. CASE open # <<>>
  <2>1. Len(open) \in Nat /\ Len(open) >= 1
    BY <1>3 DEF WriterInv, WriterTypeOK
  <2>2. Top \in Allotments /\ open[1] \in Allotments
    BY <2>1 DEF WriterInv, WriterTypeOK, Top
  <2>3. Top.prev_bits_written + Top.max_bits <= open[1].prev_bits_written + Top.granted
    BY <2>1 DEF WriterInv, Granted, Top
  <2>4. Top.prev_bits_written + Top.max_bits <= kBitsPerByte * size
    BY <1>3, <2>2, <2>3 DEF WriterInv, WriterTypeOK, Allocated, Allotments, kBitsPerByte
  <2>5. bits_written <= kBitsPerByte * size
    BY <1>3, <2>2, <2>4 DEF WriterInv, WriterTypeOK, WithinTop, Allotments, kBitsPerByte
  <2> QED BY <1>1, <2>1, <2>2, <2>4, <2>5 DEF WriterInv, WriterTypeOK, kBitsPerByte
<1> QED BY <1>2, <1>3

(* Growing or shrinking the storage keeps the byte under the pen.          *)
LEMMA ResizeKeepsClean ==
  ASSUME WriterInv, NEW bytes \in Nat, Resize(bytes, ZeroedByResize(bytes)),
         bits_written' = bits_written
  PROVE  /\ size' = bytes /\ size' \in Nat /\ capacity' \in Nat /\ clean' \in Nat
         /\ size' <= capacity'
         /\ CleanAhead'
<1>1. /\ bits_written \in Nat /\ size \in Nat /\ capacity \in Nat /\ clean \in Nat
      /\ size <= capacity /\ Pen \in Nat /\ Pen <= size
      /\ bits_written <= kBitsPerByte * size
  BY WrittenInside DEF WriterInv, WriterTypeOK
<1>2. Pen' = Pen
  BY DEF Pen
<1>3. CASE bytes > capacity
  <2>1. /\ capacity' \in Nat /\ capacity' >= bytes
    BY <1>1, <1>3 DEF Resize, IncreaseCapacityTo, Larger
  <2>2. clean' = ZeroedByGrowth
    BY <1>3 DEF Resize, ZeroedByResize
  <2>3. clean' \in Nat /\ kBitsPerByte * Pen + kBitsPerByte <= clean'
    <3>1. CASE capacity = 0
      BY <1>1, <2>2, <3>1 DEF ZeroedByGrowth, kBitsPerByte
    <3>2. CASE capacity # 0
      BY <1>1, <2>2, <3>2 DEF ZeroedByGrowth, kBitsPerByte, WriterInv, CleanAhead
    <3> QED BY <3>1, <3>2
  <2> QED BY <1>2, <2>1, <2>3 DEF Resize, CleanAhead
<1>4. CASE ~(bytes > capacity)
  <2>1. capacity' = capacity /\ clean' = clean /\ size' = bytes
    BY <1>4 DEF Resize, ZeroedByResize
  <2> QED BY <1>1, <1>2, <1>4, <2>1 DEF WriterInv, CleanAhead
<1> QED BY <1>3, <1>4

-----------------------------------------------------------------------------
LEMMA AllotKeepsInv ==
  ASSUME WriterInv, NEW max_bits \in Nat, Allot(max_bits)
  PROVE  WriterInv'
<1> DEFINE bytes == size + DivCeil(max_bits, kBitsPerByte)
           outer == IF open = <<>> THEN 0 ELSE Top.granted
           new == [prev_bits_written |-> bits_written, max_bits |-> max_bits,
                   granted |-> max_bits + outer]
<1>1. /\ DivCeil(max_bits, kBitsPerByte) \in Nat
      /\ kBitsPerByte * DivCeil(max_bits, kBitsPerByte) >= max_bits
  BY DEF DivCeil, kBitsPerByte
<1>2. bytes \in Nat /\ Resize(bytes, ZeroedByResize(bytes))
  BY <1>1 DEF Allot, WriterInv, WriterTypeOK
<1>3. bits_written' = bits_written /\ charged' = charged /\ open' = Append(open, new)
  BY DEF Allot
<1>4. /\ size' = bytes /\ size' \in Nat /\ capacity' \in Nat /\ clean' \in Nat
      /\ size' <= capacity' /\ CleanAhead'
  BY <1>2, <1>3, ResizeKeepsClean
<1>5. outer \in Nat /\ new \in Allotments
  BY WrittenInside DEF Allotments, WriterInv, WriterTypeOK
<1>6. WriterTypeOK'
  BY <1>3, <1>4, <1>5 DEF WriterInv, WriterTypeOK
<1>7. /\ Len(open) \in Nat /\ Len(open') = Len(open) + 1 /\ Top' = new
      /\ \A i \in 1..Len(open) : open'[i] = open[i] /\ open[i] \in Allotments
      /\ open' # <<>>
  BY <1>3, <1>5 DEF WriterInv, WriterTypeOK, Top
<1>8. open # <<>> => /\ Len(open) \in 1..Len(open) /\ Top = open[Len(open)]
                     /\ open'[1] = open[1] /\ open[1] \in Allotments
                     /\ Top \in Allotments
  BY <1>7, WrittenInside DEF Top
<1>9. open = <<>> => Len(open) = 0 /\ open'[1] = new
  BY <1>7 DEF Top
<1>10. open'[Len(open) + 1] = new
  BY <1>7 DEF Top
<1>11. Nested'
  <2> SUFFICES ASSUME NEW i \in 1..Len(open)
               PROVE  /\ open'[i].prev_bits_written <= open'[i + 1].prev_bits_written
                      /\ open'[i + 1].prev_bits_written
                           <= open'[i].prev_bits_written + open'[i].max_bits
                      /\ open'[i + 1].granted = open'[i].granted + open'[i + 1].max_bits
    BY <1>7 DEF Nested
  <2>1. CASE i < Len(open)
    BY <1>7, <2>1 DEF WriterInv, Nested
  <2>2. CASE i = Len(open)
    <3>1. open'[i + 1] = new /\ open'[i] = Top /\ open # <<>>
      BY <1>7, <1>8, <1>9, <1>10, <2>2
    <3> QED BY <1>8, <3>1 DEF WriterInv, WriterTypeOK, WithinTop, Allotments
  <2> QED BY <1>7, <2>1, <2>2
<1>12. Granted'
  <2> SUFFICES ASSUME NEW i \in 1..(Len(open) + 1)
               PROVE  open'[i].prev_bits_written + open'[i].max_bits
                        <= open'[1].prev_bits_written + open'[i].granted
    BY <1>7 DEF Granted
  <2>1. CASE i <= Len(open)
    BY <1>7, <1>8, <2>1 DEF WriterInv, Granted
  <2>2. CASE i = Len(open) + 1 /\ open = <<>>
    BY <1>5, <1>9, <1>10, <2>2 DEF WriterInv, WriterTypeOK, Allotments
  <2>3. CASE i = Len(open) + 1 /\ open # <<>>
    <3>1. Top.prev_bits_written + Top.max_bits <= open[1].prev_bits_written + Top.granted
      BY <1>8, <2>3 DEF WriterInv, Granted
    <3>2. bits_written <= Top.prev_bits_written + Top.max_bits
      BY <2>3 DEF WriterInv, WithinTop
    <3>3. /\ open'[i].prev_bits_written = bits_written
          /\ open'[i].max_bits = max_bits
          /\ open'[i].granted = max_bits + Top.granted
          /\ open'[1].prev_bits_written = open[1].prev_bits_written
      BY <1>8, <1>10, <2>3
    <3>4. /\ bits_written \in Nat /\ Top.prev_bits_written \in Nat /\ Top.max_bits \in Nat
          /\ Top.granted \in Nat /\ open[1].prev_bits_written \in Nat
      BY <1>8, <2>3 DEF WriterInv, WriterTypeOK, Allotments
    <3>5. bits_written + max_bits <= open[1].prev_bits_written + (max_bits + Top.granted)
      <4>1. \A w, t, o, g, m \in Nat : w <= t /\ t <= o + g => w + m <= o + (m + g)
        OBVIOUS
      <4>2. Top.prev_bits_written + Top.max_bits \in Nat
        BY <3>4
      <4> QED BY <3>1, <3>2, <3>4, <4>1, <4>2
    <3> QED BY <3>3, <3>5
  <2> QED BY <1>7, <2>1, <2>2, <2>3
<1>13. WithinTop'
  BY <1>3, <1>5, <1>7 DEF WithinTop, WriterInv, WriterTypeOK, Allotments
<1>14. Allocated'
  <2>1. CASE open = <<>>
    BY <1>1, <1>3, <1>4, <1>7, <1>9, <2>1
       DEF Allocated, WriterInv, WriterTypeOK, kBitsPerByte
  <2>2. CASE open # <<>>
    <3>1. open'[1] = open[1] /\ Top'.granted = max_bits + Top.granted
      BY <1>7, <1>8, <2>2
    <3>2. open[1].prev_bits_written + Top.granted <= kBitsPerByte * size
      BY <2>2 DEF WriterInv, Allocated
    <3>3. size' = size + DivCeil(max_bits, kBitsPerByte) /\ open' # <<>>
      BY <1>4, <1>7
    <3>4. /\ open[1].prev_bits_written \in Nat /\ Top.granted \in Nat /\ size \in Nat
      BY <1>8, <2>2 DEF Allotments, WriterInv, WriterTypeOK
    <3>5. open[1].prev_bits_written + (max_bits + Top.granted) <= kBitsPerByte * size'
      BY <1>1, <3>2, <3>3, <3>4 DEF kBitsPerByte
    <3> QED BY <3>1, <3>3, <3>5 DEF Allocated
  <2> QED BY <2>1, <2>2
<1>15. ChargedBelow'
  BY <1>3, <1>7, <1>8, <1>9 DEF ChargedBelow, WriterInv
<1> QED BY <1>4, <1>6, <1>11, <1>12, <1>13, <1>14, <1>15 DEF WriterInv

LEMMA WriteKeepsInv ==
  ASSUME WriterInv, NEW n_bits \in 1..kMaxBitsPerCall, open # <<>>,
         n_bits <= UnusedBits, WriteBits(n_bits)
  PROVE  WriterInv'
<1>1. /\ bits_written' = bits_written + n_bits /\ clean' = kBitsPerByte * Pen + 64
      /\ size' = size /\ capacity' = capacity /\ open' = open /\ charged' = charged
  BY DEF WriteBits
<1>2. n_bits \in Nat /\ n_bits <= 56 /\ bits_written \in Nat /\ Pen \in Nat
  BY WrittenInside DEF kMaxBitsPerCall, WriterInv, WriterTypeOK
<1>3. WriterTypeOK'
  BY <1>1, <1>2 DEF WriterInv, WriterTypeOK, kBitsPerByte
<1>4. CleanAhead'
  BY <1>1, <1>2 DEF CleanAhead, Pen, kBitsPerByte
<1>5. WithinTop'
  <2>1. Top \in Allotments /\ Top.prev_bits_written <= bits_written
    BY WrittenInside DEF WriterInv, WithinTop
  <2>2. bits_written + n_bits <= Top.prev_bits_written + Top.max_bits
    BY <1>2, <2>1 DEF UnusedBits, UsedBits, Allotments
  <2>3. Top' = Top
    BY <1>1 DEF Top
  <2> QED BY <1>1, <1>2, <2>1, <2>2, <2>3 DEF WithinTop, Allotments
<1>6. Nested' /\ Granted' /\ Allocated' /\ ChargedBelow'
  BY <1>1 DEF Nested, Granted, Allocated, ChargedBelow, Top, WriterInv
<1> QED BY <1>1, <1>3, <1>4, <1>5, <1>6 DEF WriterInv

LEMMA ReclaimKeepsInv ==
  ASSUME WriterInv, open # <<>>, Reclaim
  PROVE  WriterInv'
<1> DEFINE n == Len(open)
           bytes == size - UnusedBits \div kBitsPerByte
<1>1. /\ n \in Nat /\ n >= 1 /\ Top = open[n] /\ Top \in Allotments
      /\ \A i \in 1..n : open[i] \in Allotments
  BY WrittenInside DEF WriterInv, WriterTypeOK, Top
<1>2. /\ UsedBits \in Nat /\ UnusedBits \in Nat
      /\ bits_written = Top.prev_bits_written + UsedBits
      /\ UsedBits + UnusedBits = Top.max_bits
  BY <1>1 DEF UsedBits, UnusedBits, WriterInv, WriterTypeOK, WithinTop, Allotments
<1>3. /\ bytes \in Nat
      /\ kBitsPerByte * bytes >= kBitsPerByte * size - UnusedBits
  <2>1. UnusedBits <= kBitsPerByte * size
    BY <1>1, <1>2, WrittenInside DEF Allotments, WriterInv, WriterTypeOK, kBitsPerByte
  <2> QED BY <1>2, <2>1 DEF WriterInv, WriterTypeOK, kBitsPerByte
<1>4. /\ Resize(bytes, ZeroedByResize(bytes)) /\ bits_written' = bits_written
      /\ charged' = charged + UsedBits
      /\ open' = [i \in 1..n - 1 |->
                    [open[i] EXCEPT !.prev_bits_written = @ + UsedBits]]
  BY DEF Reclaim, ChargedElsewhere
<1>5. /\ size' = bytes /\ size' \in Nat /\ capacity' \in Nat /\ clean' \in Nat
      /\ size' <= capacity' /\ CleanAhead'
  BY <1>3, <1>4, ResizeKeepsClean
<1>6. /\ open' \in Seq(Allotments) /\ Len(open') = n - 1
      /\ \A i \in 1..n - 1 :
           /\ open'[i].prev_bits_written = open[i].prev_bits_written + UsedBits
           /\ open'[i].max_bits = open[i].max_bits
           /\ open'[i].granted = open[i].granted
  <2> DEFINE moved(i) == [open[i] EXCEPT !.prev_bits_written = @ + UsedBits]
  <2>1. ASSUME NEW i \in 1..n - 1
        PROVE  /\ moved(i) \in Allotments
               /\ moved(i).prev_bits_written = open[i].prev_bits_written + UsedBits
               /\ moved(i).max_bits = open[i].max_bits
               /\ moved(i).granted = open[i].granted
    <3>1. open[i] \in Allotments
      BY <1>1
    <3> QED BY <1>2, <3>1 DEF Allotments
  <2>2. open' = [i \in 1..n - 1 |-> moved(i)]
    BY <1>4
  <2>3. n - 1 \in Nat
    BY <1>1
  <2> HIDE DEF moved, n
  <2>4. open' \in Seq(Allotments) /\ Len(open') = n - 1
    BY <2>1, <2>2, <2>3
  <2>5. \A i \in 1..n - 1 : open'[i] = moved(i)
    BY <2>2
  <2> QED BY <2>1, <2>4, <2>5
<1>7. /\ bits_written' = bits_written /\ charged' = charged + UsedBits
      /\ n \in Nat /\ n >= 1 /\ size' = bytes
      /\ kBitsPerByte * size' >= kBitsPerByte * size - UnusedBits
  BY <1>1, <1>3, <1>4, <1>5
<1> HIDE DEF n, bytes
<1>15. WriterTypeOK'
  BY <1>2, <1>5, <1>6, <1>7 DEF WriterInv, WriterTypeOK
<1>8. /\ n > 1 => Top' = open'[n - 1] /\ open' # <<>> /\ n - 1 \in 1..n - 1
                  /\ 1 \in 1..n - 1 /\ n - 1 \in 1..Len(open) - 1
      /\ n = 1 => open' = <<>> /\ Top = open[1]
  BY <1>1, <1>6 DEF Top, n
<1>9. n > 1 => /\ open[n - 1].prev_bits_written <= open[n].prev_bits_written
               /\ open[n].prev_bits_written
                    <= open[n - 1].prev_bits_written + open[n - 1].max_bits
               /\ open[n].granted = open[n - 1].granted + open[n].max_bits
  BY <1>1, <1>8 DEF WriterInv, Nested, n
<1>10. Nested'
  <2> SUFFICES ASSUME NEW i \in 1..(n - 1) - 1
               PROVE  /\ open'[i].prev_bits_written <= open'[i + 1].prev_bits_written
                      /\ open'[i + 1].prev_bits_written
                           <= open'[i].prev_bits_written + open'[i].max_bits
                      /\ open'[i + 1].granted = open'[i].granted + open'[i + 1].max_bits
    BY <1>6 DEF Nested
  <2>1. i \in 1..n - 1 /\ i + 1 \in 1..n - 1 /\ i \in 1..n /\ i + 1 \in 1..n
    BY <1>1
  <2>2. /\ open[i].prev_bits_written <= open[i + 1].prev_bits_written
        /\ open[i + 1].prev_bits_written <= open[i].prev_bits_written + open[i].max_bits
        /\ open[i + 1].granted = open[i].granted + open[i + 1].max_bits
    BY <1>1, <2>1 DEF WriterInv, Nested, n
  <2>3. open[i] \in Allotments /\ open[i + 1] \in Allotments
    BY <1>1, <2>1
  <2>4. /\ open'[i].prev_bits_written = open[i].prev_bits_written + UsedBits
        /\ open'[i].max_bits = open[i].max_bits
        /\ open'[i].granted = open[i].granted
        /\ open'[i + 1].prev_bits_written = open[i + 1].prev_bits_written + UsedBits
        /\ open'[i + 1].max_bits = open[i + 1].max_bits
        /\ open'[i + 1].granted = open[i + 1].granted
    BY <1>6, <2>1
  <2>5. /\ open[i].prev_bits_written \in Nat /\ open[i].max_bits \in Nat
        /\ open[i].granted \in Nat
        /\ open[i + 1].prev_bits_written \in Nat /\ open[i + 1].max_bits \in Nat
    BY <2>3 DEF Allotments
  <2>6. UsedBits \in Nat
    BY <1>2
  <2>7. /\ open[i].prev_bits_written + UsedBits <= open[i + 1].prev_bits_written + UsedBits
        /\ open[i + 1].prev_bits_written + UsedBits
             <= (open[i].prev_bits_written + UsedBits) + open[i].max_bits
    BY <2>2, <2>5, <2>6, ShiftKeepsOrder
  <2> QED BY ONLY <2>2, <2>4, <2>7
<1>11. Granted'
  <2> SUFFICES ASSUME NEW i \in 1..n - 1
               PROVE  open'[i].prev_bits_written + open'[i].max_bits
                        <= open'[1].prev_bits_written + open'[i].granted
    BY <1>6 DEF Granted
  <2>1. 1 \in 1..n - 1 /\ i \in 1..n /\ 1 \in 1..n
    BY <1>1
  <2>2. open[i].prev_bits_written + open[i].max_bits
          <= open[1].prev_bits_written + open[i].granted
    BY <2>1 DEF WriterInv, Granted, n
  <2>3. open[i] \in Allotments /\ open[1] \in Allotments
    BY <1>1, <2>1
  <2>4. /\ open'[i].prev_bits_written = open[i].prev_bits_written + UsedBits
        /\ open'[i].max_bits = open[i].max_bits
        /\ open'[i].granted = open[i].granted
        /\ open'[1].prev_bits_written = open[1].prev_bits_written + UsedBits
    BY <1>6, <2>1
  <2>5. /\ open[i].prev_bits_written \in Nat /\ open[i].max_bits \in Nat
        /\ open[i].granted \in Nat /\ open[1].prev_bits_written \in Nat
    BY <2>3 DEF Allotments
  <2>6. UsedBits \in Nat
    BY <1>2
  <2>7. \A a, b, c, d, u \in Nat : a + b <= c + d => (a + u) + b <= (c + u) + d
    OBVIOUS
  <2> QED BY <2>2, <2>4, <2>5, <2>6, <2>7
<1>12. WithinTop'
  <2>1. CASE n = 1
    BY <1>8, <2>1 DEF WithinTop
  <2>2. CASE n > 1
    <3>1. n - 1 \in 1..n /\ open[n - 1] \in Allotments
      BY <1>1, <2>2
    <3>2. /\ Top'.prev_bits_written = open[n - 1].prev_bits_written + UsedBits
          /\ Top'.max_bits = open[n - 1].max_bits
      BY <1>6, <1>8, <2>2
    <3>3. bits_written = open[n].prev_bits_written + UsedBits
      BY <1>1, <1>2
    <3>4. /\ open[n - 1].prev_bits_written \in Nat /\ open[n - 1].max_bits \in Nat
          /\ open[n].prev_bits_written \in Nat /\ UsedBits \in Nat
      BY <1>1, <1>2, <3>1 DEF Allotments
    <3>5. /\ Top'.prev_bits_written <= bits_written'
          /\ bits_written' <= Top'.prev_bits_written + Top'.max_bits
      <4>1. \A a, b, c, u \in Nat :
              a <= b /\ b <= a + c => a + u <= b + u /\ b + u <= (a + u) + c
        OBVIOUS
      <4> QED BY <1>7, <1>9, <2>2, <3>2, <3>3, <3>4, <4>1
    <3> QED BY <3>5 DEF WithinTop
  <2> QED BY <1>1, <2>1, <2>2
<1>13. Allocated'
  <2>1. CASE n = 1
    <3>1. open[1].prev_bits_written + Top.max_bits <= kBitsPerByte * size
      BY <1>8, <2>1, WrittenInside
    <3>2. /\ Top.prev_bits_written \in Nat /\ size \in Nat /\ size' \in Nat
          /\ Top.prev_bits_written + Top.max_bits <= kBitsPerByte * size
      BY <1>1, <1>5, WrittenInside DEF Allotments, WriterInv, WriterTypeOK
    <3>3. bits_written' <= kBitsPerByte * size'
      BY <1>2, <1>7, <3>2 DEF kBitsPerByte
    <3> QED BY <1>8, <2>1, <3>3 DEF Allocated
  <2>2. CASE n > 1
    <3>1. n - 1 \in 1..n /\ open[n - 1] \in Allotments /\ open[1] \in Allotments
      BY <1>1, <2>2
    <3>2. open[1].prev_bits_written + open[n].granted <= kBitsPerByte * size
      BY <1>1 DEF WriterInv, Allocated, n
    <3>3. /\ Top'.granted = open[n - 1].granted
          /\ open'[1].prev_bits_written = open[1].prev_bits_written + UsedBits
          /\ open' # <<>>
      BY <1>6, <1>8, <2>2
    <3>4. /\ open[1].prev_bits_written \in Nat /\ open[n - 1].granted \in Nat
          /\ open[n].max_bits = UsedBits + UnusedBits /\ size \in Nat /\ size' \in Nat
      BY <1>1, <1>2, <1>5, <3>1 DEF Allotments, WriterInv, WriterTypeOK
    <3>5. open[1].prev_bits_written + UsedBits + open[n - 1].granted <= kBitsPerByte * size'
      <4>1. open[n].granted = open[n - 1].granted + UsedBits + UnusedBits
        BY <1>2, <1>9, <2>2, <3>4
      <4>2. kBitsPerByte * size' >= kBitsPerByte * size - UnusedBits
        BY <1>3, <1>5
      <4>3. \A o, g, u, v, z, zz \in Nat :
              o + (g + u + v) <= z /\ zz >= z - v => o + u + g <= zz
        OBVIOUS
      <4>4. \A z \in Nat : kBitsPerByte * z \in Nat
        BY DEF kBitsPerByte
      <4>5. kBitsPerByte * size \in Nat /\ kBitsPerByte * size' \in Nat
        BY <3>4, <4>4
      <4> QED BY <1>2, <3>2, <3>4, <4>1, <4>2, <4>3, <4>5
    <3>6. open'[1].prev_bits_written + Top'.granted <= kBitsPerByte * size'
      BY <3>3, <3>5
    <3> QED BY <3>3, <3>6 DEF Allocated
  <2> QED BY <1>1, <2>1, <2>2
<1>14. ChargedBelow'
  <2>1. charged = open[1].prev_bits_written
    BY DEF WriterInv, ChargedBelow
  <2>2. CASE n = 1
    BY <1>2, <1>4, <1>8, <2>1, <2>2 DEF ChargedBelow
  <2>3. CASE n > 1
    BY <1>4, <1>6, <1>8, <2>1, <2>3 DEF ChargedBelow
  <2> QED BY <1>1, <2>2, <2>3
<1> QED BY <1>5, <1>10, <1>11, <1>12, <1>13, <1>14, <1>15 DEF WriterInv

LEMMA AppendKeepsInv ==
  ASSUME WriterInv, NEW bytes \in Nat, open = <<>>, bits_written % kBitsPerByte = 0,
         AppendBytes(bytes)
  PROVE  WriterInv'
<1>1. /\ size' = size + bytes + 1 /\ bits_written' = bits_written + bytes * kBitsPerByte
      /\ charged' = charged + bytes * kBitsPerByte /\ open' = open
      /\ clean' = kBitsPerByte * (Pen + bytes) + kBitsPerByte
      /\ IF size + bytes + 1 > capacity THEN IncreaseCapacityTo(size + bytes + 1)
                                        ELSE capacity' = capacity
  BY DEF AppendBytes, Resize
<1>2. /\ bits_written \in Nat /\ size \in Nat /\ capacity \in Nat /\ charged \in Nat
      /\ Pen \in Nat /\ bits_written <= kBitsPerByte * size
  BY WrittenInside DEF WriterInv, WriterTypeOK
<1>3. capacity' \in Nat /\ size' <= capacity'
  BY <1>1, <1>2 DEF IncreaseCapacityTo, Larger
<1>4. WriterTypeOK'
  BY <1>1, <1>2, <1>3 DEF WriterInv, WriterTypeOK, kBitsPerByte
<1>5. CleanAhead'
  BY <1>1, <1>2 DEF CleanAhead, Pen, kBitsPerByte
<1>6. Nested' /\ Granted' /\ WithinTop' /\ Allocated' /\ ChargedBelow'
  BY <1>1, <1>2 DEF Nested, Granted, WithinTop, Allocated, ChargedBelow, WriterInv,
                    kBitsPerByte
<1> QED BY <1>3, <1>4, <1>5, <1>6 DEF WriterInv

-----------------------------------------------------------------------------
LEMMA InitInv == WriterInit => WriterInv
BY DEF WriterInit, WriterInv, WriterTypeOK, CleanAhead, Nested, Granted, WithinTop,
       Allocated, ChargedBelow, kBitsPerByte

LEMMA NextInv == WriterInv /\ [WriterNext]_writerVars => WriterInv'
<1> SUFFICES ASSUME WriterInv, [WriterNext]_writerVars PROVE WriterInv'
  OBVIOUS
<1>1. CASE OpenAllotment
  BY <1>1, BoundsAssumption, AllotKeepsInv DEF OpenAllotment
<1>2. CASE Write
  BY <1>2, WriteKeepsInv DEF Write
<1>3. CASE ZeroPadToByte
  <2>1. PaddingBits \in 1..kMaxBitsPerCall
    BY <1>3 DEF ZeroPadToByte, PaddingBits, DivCeil, kBitsPerByte, kMaxBitsPerCall,
                WriterInv, WriterTypeOK
  <2> QED BY <1>3, <2>1, WriteKeepsInv DEF ZeroPadToByte
<1>4. CASE ReclaimUnused
  BY <1>4, ReclaimKeepsInv DEF ReclaimUnused
<1>5. CASE AppendByteAligned
  BY <1>5, BoundsAssumption, AppendKeepsInv DEF AppendByteAligned
<1>6. CASE UNCHANGED writerVars
  BY <1>6 DEF writerVars, WriterInv, WriterTypeOK, CleanAhead, Nested, Granted, WithinTop,
              Allocated, ChargedBelow, Pen, Top
<1> QED BY <1>1, <1>2, <1>3, <1>4, <1>5, <1>6 DEF WriterNext

LEMMA InvImplies == WriterInv => PenOnZeros /\ WrittenKept /\ ChargedOnce
<1> SUFFICES ASSUME WriterInv PROVE PenOnZeros /\ WrittenKept /\ ChargedOnce
  OBVIOUS
<1>1. WrittenKept
  BY WrittenInside DEF WrittenKept
<1>2. ChargedOnce
  BY DEF WriterInv, ChargedBelow, ChargedOnce
<1>3. PenOnZeros
  <2> SUFFICES ASSUME open # <<>>, UnusedBits > 0
               PROVE  /\ 0 < capacity /\ Pen < size /\ size <= capacity
                      /\ kBitsPerByte * Pen + kBitsPerByte <= clean
    BY DEF PenOnZeros
  <2>1. bits_written < kBitsPerByte * size
    BY WrittenInside DEF UnusedBits, UsedBits, Allotments, WriterInv, WriterTypeOK,
                         kBitsPerByte
  <2>2. Pen < size /\ Pen \in Nat
    BY <2>1 DEF Pen, kBitsPerByte, WriterInv, WriterTypeOK
  <2> QED BY <2>2 DEF WriterInv, WriterTypeOK, CleanAhead
<1> QED BY <1>1, <1>2, <1>3

LEMMA WriterInvariant == WriterSpec => []WriterInv
  BY InitInv, NextInv, PTL DEF WriterSpec

(* Every write that the contract of BitWriter allows goes to zero bits     *)
(* inside the storage (PenOnZeros), and what is written is never given     *)
(* back or lost when the storage grows (WrittenKept), whatever the sizes   *)
(* and the nesting of allotments.                                          *)
THEOREM WritesLandOnZeros == WriterSpec => [](PenOnZeros /\ WrittenKept)
  BY WriterInvariant, InvImplies, PTL

(* BitWriter::ReclaimAndCharge, Allotment::PrivateReclaim: once all        *)
(* allotments are closed every bit written has been billed to a layer,     *)
(* once, however they were nested and whatever was reclaimed between.      *)
THEOREM BilledOnce == WriterSpec => []ChargedOnce
  BY WriterInvariant, InvImplies, PTL

-----------------------------------------------------------------------------
(* BitReader.                                                              *)

Readers == [end : Nat, next_byte : Nat, bits_in_buf : Nat, overread_bytes : Nat]

\* The reader r is consistent.
Sound(r) ==
  /\ r \in Readers
  /\ r.next_byte <= r.end
  /\ r.bits_in_buf < kWordBits
  /\ r.bits_in_buf <= 8 * (r.next_byte + r.overread_bytes)
  /\ r.overread_bytes > 0 => r.next_byte = r.end

\* The reader r stands for a user who has asked for n bits.
StandsFor(r, n) ==
  \/ 8 * (r.next_byte + r.overread_bytes) = n + r.bits_in_buf
  \/ /\ 8 * (r.next_byte + r.overread_bytes) > SpanBits(r) + r.bits_in_buf
     /\ n > SpanBits(r)

ReaderInv == consumed \in Nat /\ Sound(reader) /\ StandsFor(reader, consumed)

-----------------------------------------------------------------------------
(* A refill loads between 56 and 63 bits and moves nobody.                 *)
LEMMA RefillSound ==
  ASSUME NEW r, Sound(r), NEW n \in Nat, StandsFor(r, n)
  PROVE  /\ Sound(Refill(r)) /\ StandsFor(Refill(r), n)
         /\ Refill(r).bits_in_buf >= kMaxReadBits
         /\ Refill(r).end = r.end
<1> DEFINE missing == (kWordBits - 1 - r.bits_in_buf) \div 8
           left == r.end - r.next_byte
           loaded == IF 8 <= left \/ missing <= left THEN missing ELSE left
<1>1. /\ r.end \in Nat /\ r.next_byte \in Nat /\ r.bits_in_buf \in Nat
      /\ r.overread_bytes \in Nat
      /\ r.next_byte <= r.end /\ r.bits_in_buf < 64
      /\ r.overread_bytes > 0 => r.next_byte = r.end
  BY DEF Sound, Readers, kWordBits
<1>2. /\ missing \in Nat /\ missing <= 7
      /\ r.bits_in_buf + 8 * missing >= 56 /\ r.bits_in_buf + 8 * missing < 64
  BY <1>1 DEF kWordBits
<1>3. /\ loaded \in Nat /\ loaded <= missing
      /\ r.next_byte + loaded <= r.end
      /\ missing > loaded => r.next_byte + loaded = r.end
      /\ missing - loaded \in Nat
  BY <1>1, <1>2
<1>4. Refill(r) = [end |-> r.end, next_byte |-> r.next_byte + loaded,
                   bits_in_buf |-> r.bits_in_buf + 8 * missing,
                   overread_bytes |-> r.overread_bytes + (missing - loaded)]
  BY DEF Refill
<1> HIDE DEF missing, loaded, left
<1>5. /\ Refill(r) \in Readers
      /\ Refill(r).end = r.end
      /\ Refill(r).next_byte = r.next_byte + loaded
      /\ Refill(r).overread_bytes = r.overread_bytes + (missing - loaded)
      /\ Refill(r).bits_in_buf = r.bits_in_buf + 8 * missing
  BY <1>1, <1>2, <1>3, <1>4 DEF Readers
<1>6. r.bits_in_buf <= 8 * (r.next_byte + r.overread_bytes)
  BY DEF Sound
<1>7. Sound(Refill(r))
  <2>1. Refill(r).next_byte <= Refill(r).end
    BY <1>1, <1>2, <1>3, <1>5
  <2>2. Refill(r).bits_in_buf < 64
    BY <1>1, <1>2, <1>3, <1>5
  <2>3. Refill(r).bits_in_buf <= 8 * (Refill(r).next_byte + Refill(r).overread_bytes)
    BY <1>1, <1>2, <1>3, <1>5, <1>6
  <2>4. Refill(r).overread_bytes > 0 => Refill(r).next_byte = Refill(r).end
    BY <1>1, <1>2, <1>3, <1>5
  <2> QED BY <1>5, <2>1, <2>2, <2>3, <2>4 DEF Sound, kWordBits
<1>8. StandsFor(Refill(r), n)
  <2>1. 8 * (Refill(r).next_byte + Refill(r).overread_bytes)
          = 8 * (r.next_byte + r.overread_bytes) + 8 * missing
    <3>1. \A a, b, c, d \in Nat : 8 * ((a + c) + (b + (d - c))) = 8 * (a + b) + 8 * d
      OBVIOUS
    <3> QED BY <1>1, <1>2, <1>3, <1>5, <3>1
  <2>2. SpanBits(Refill(r)) = SpanBits(r) /\ SpanBits(r) \in Nat
    BY <1>1, <1>5 DEF SpanBits
  <2>3. /\ 8 * (r.next_byte + r.overread_bytes) \in Nat /\ 8 * missing \in Nat
        /\ Refill(r).bits_in_buf = r.bits_in_buf + 8 * missing
        /\ r.bits_in_buf \in Nat
    BY <1>1, <1>2, <1>5
  <2>4. \A x, y, z, b, m \in Nat :
          /\ x = y + b => x + m = y + (b + m)
          /\ x > z + b => x + m > z + (b + m)
    OBVIOUS
  <2> QED BY <2>1, <2>2, <2>3, <2>4 DEF StandsFor
<1> QED BY <1>2, <1>5, <1>7, <1>8 DEF kMaxReadBits

LEMMA ConsumeSound ==
  ASSUME NEW r, Sound(r), NEW n \in Nat, StandsFor(r, n),
         NEW bits \in Nat, bits <= r.bits_in_buf
  PROVE  Sound(Consume(r, bits)) /\ StandsFor(Consume(r, bits), n + bits)
<1>1. /\ Consume(r, bits) \in Readers
      /\ Consume(r, bits).end = r.end
      /\ Consume(r, bits).next_byte = r.next_byte
      /\ Consume(r, bits).overread_bytes = r.overread_bytes
      /\ Consume(r, bits).bits_in_buf = r.bits_in_buf - bits
  BY DEF Consume, Sound, Readers
<1>2. /\ r.end \in Nat /\ r.next_byte \in Nat /\ r.bits_in_buf \in Nat
      /\ r.overread_bytes \in Nat
  BY DEF Sound, Readers
<1>3. Sound(Consume(r, bits))
  BY <1>1, <1>2 DEF Sound, kWordBits
<1>4. StandsFor(Consume(r, bits), n + bits)
  BY <1>1, <1>2 DEF StandsFor, SpanBits
<1> QED BY <1>3, <1>4

LEMMA ReadSound ==
  ASSUME NEW r, Sound(r), NEW n \in Nat, StandsFor(r, n), NEW bits \in 0..kMaxReadBits
  PROVE  Sound(ReadBits(r, bits)) /\ StandsFor(ReadBits(r, bits), n + bits)
<1>1. /\ Sound(Refill(r)) /\ StandsFor(Refill(r), n)
      /\ Refill(r).bits_in_buf \in Nat /\ bits <= Refill(r).bits_in_buf
  BY RefillSound DEF kMaxReadBits, Sound, Readers
<1> QED BY <1>1, ConsumeSound DEF ReadBits

LEMMA SkipSound ==
  ASSUME NEW r, Sound(r), NEW n \in Nat, StandsFor(r, n), NEW bits \in Nat
  PROVE  Sound(SkipBits(r, bits)) /\ StandsFor(SkipBits(r, bits), n + bits)
<1> DEFINE rest == bits - r.bits_in_buf
           whole == rest \div 8
           beyond == whole > r.end - r.next_byte
           moved == [end |-> r.end, bits_in_buf |-> 0, overread_bytes |-> r.overread_bytes,
                     next_byte |-> IF beyond THEN r.end ELSE r.next_byte + whole]
           last == (rest % 8) + IF beyond THEN 8 ELSE 0
<1>1. /\ r.end \in Nat /\ r.next_byte \in Nat /\ r.bits_in_buf \in Nat
      /\ r.overread_bytes \in Nat /\ r.next_byte <= r.end
      /\ r.overread_bytes > 0 => r.next_byte = r.end
  BY DEF Sound, Readers
<1>2. CASE bits <= r.bits_in_buf
  BY <1>2, ConsumeSound DEF SkipBits
<1>3. CASE bits > r.bits_in_buf
  <2>1. /\ rest \in Nat /\ rest > 0 /\ whole \in Nat /\ rest % 8 \in 0..7
        /\ rest = 8 * whole + (rest % 8)
    BY <1>1, <1>3
  <2>2. SkipBits(r, bits) = Consume(Refill(moved), last)
    BY <1>1, <1>3 DEF SkipBits
  <2>3. /\ moved.end = r.end /\ moved.overread_bytes = r.overread_bytes
        /\ moved.bits_in_buf = 0
        /\ moved.next_byte = IF beyond THEN r.end ELSE r.next_byte + whole
    OBVIOUS
  <2>5. bits = r.bits_in_buf + rest
    BY <1>1
  <2> HIDE DEF moved, rest, whole
  <2>4. Sound(moved)
    <3>1. moved.next_byte \in Nat /\ moved.next_byte <= moved.end
      BY <1>1, <2>1, <2>3
    <3>2. moved \in Readers
      BY <1>1, <2>3, <3>1 DEF Readers, moved
    <3>3. moved.overread_bytes > 0 => moved.next_byte = moved.end
      <4> SUFFICES ASSUME r.overread_bytes > 0 PROVE moved.next_byte = r.end
        BY <2>3
      <4>1. r.next_byte = r.end
        BY <1>1
      <4>2. beyond \/ whole = 0
        BY <1>1, <2>1, <4>1
      <4> QED BY <1>1, <2>3, <4>1, <4>2
    <3> QED BY <1>1, <2>3, <3>1, <3>2, <3>3 DEF Sound, kWordBits
  <2>6. CASE ~beyond
    <3>1. StandsFor(moved, n + r.bits_in_buf + 8 * whole)
      <4>1. moved.next_byte = r.next_byte + whole
        BY <2>3, <2>6
      <4>2. \A a, b, c, w, m \in Nat :
              /\ 8 * (a + b) = m + c => 8 * ((a + w) + b) = (m + c + 8 * w) + 0
              /\ 8 * (a + b) > m + c => 8 * ((a + w) + b) > m + 0
        OBVIOUS
      <4>3. \A z, m, c, w \in Nat : m > z => m + c + 8 * w > z
        OBVIOUS
      <4>4. r.end \in Nat /\ 8 * r.end \in Nat
        BY <1>1
      <4> QED BY <1>1, <2>1, <2>3, <4>1, <4>2, <4>3, <4>4 DEF StandsFor, SpanBits
    <3>2. last = (rest % 8) /\ last \in Nat /\ last <= kMaxReadBits
      BY <2>1, <2>6 DEF kMaxReadBits
    <3>3. n + r.bits_in_buf + 8 * whole \in Nat
          /\ n + bits = (n + r.bits_in_buf + 8 * whole) + last
      BY <1>1, <2>1, <2>5, <3>2
    <3>4. Sound(ReadBits(moved, last))
          /\ StandsFor(ReadBits(moved, last), (n + r.bits_in_buf + 8 * whole) + last)
      <4>1. last \in 0..kMaxReadBits
        BY <3>2 DEF kMaxReadBits
      <4> QED BY <2>4, <3>1, <3>3, <4>1, ReadSound
    <3> QED BY <2>2, <3>3, <3>4 DEF ReadBits
  <2>7. CASE beyond
    <3>1. last = (rest % 8) + 8 /\ last \in 8..15
      BY <2>1, <2>7
    <3>2. n + bits > SpanBits(r)
      <4>1. \A a, b, c, e, w, m \in Nat : 8 * (a + b) = m + c /\ w > e - a
                                             => m + (c + 8 * w) > 8 * e
        OBVIOUS
      <4>2. \A m, x, z \in Nat : m > z => m + x > z
        OBVIOUS
      <4>3. \A m, x, y, z \in Nat : m + x > z /\ x <= y => m + y > z
        OBVIOUS
      <4>4. whole > r.end - r.next_byte /\ r.bits_in_buf + 8 * whole <= bits
            /\ r.bits_in_buf + 8 * whole \in Nat /\ 8 * r.end \in Nat
        BY <1>1, <2>1, <2>5, <2>7
      <4>5. CASE 8 * (r.next_byte + r.overread_bytes) = n + r.bits_in_buf
        <5>1. n + (r.bits_in_buf + 8 * whole) > 8 * r.end
          BY <1>1, <2>1, <4>1, <4>4, <4>5
        <5> QED BY <4>3, <4>4, <5>1 DEF SpanBits
      <4>6. CASE n > SpanBits(r)
        BY <4>2, <4>4, <4>6 DEF SpanBits
      <4> QED BY <4>5, <4>6 DEF StandsFor
    <3>3. StandsFor(moved, 8 * (r.end + r.overread_bytes))
      BY <1>1, <2>3, <2>7 DEF StandsFor, SpanBits
    <3>4. /\ Sound(ReadBits(moved, last))
          /\ StandsFor(ReadBits(moved, last), 8 * (r.end + r.overread_bytes) + last)
      BY <1>1, <2>4, <3>1, <3>3, ReadSound DEF kMaxReadBits
    <3>5. ReadBits(moved, last).end = r.end
      <4>1. Refill(moved).end = r.end /\ Refill(moved) \in Readers
        BY <1>1, <2>3, <2>4, <3>3, RefillSound DEF Sound
      <4> QED BY <4>1 DEF ReadBits, Consume, Readers
    <3>6. /\ ReadBits(moved, last).next_byte \in Nat
          /\ ReadBits(moved, last).overread_bytes \in Nat
          /\ ReadBits(moved, last).bits_in_buf \in Nat
      BY <3>4 DEF Sound, Readers
    <3>7. StandsFor(ReadBits(moved, last), n + bits)
      BY <1>1, <3>1, <3>2, <3>4, <3>5, <3>6 DEF StandsFor, SpanBits
    <3> QED BY <2>2, <3>4, <3>7 DEF ReadBits
  <2> QED BY <2>6, <2>7
<1> QED BY <1>1, <1>2, <1>3

-----------------------------------------------------------------------------
LEMMA InitReaderInv == ReaderInit => ReaderInv
<1> SUFFICES ASSUME ReaderInit PROVE ReaderInv
  OBVIOUS
<1>1. PICK bytes \in 0..MaxSpan : reader = NewReader(bytes)
  BY DEF ReaderInit
<1> DEFINE empty == [end |-> bytes, next_byte |-> 0, bits_in_buf |-> 0,
                     overread_bytes |-> 0]
<1>2. Sound(empty) /\ StandsFor(empty, 0)
  BY SpanAssumption DEF Sound, StandsFor, Readers, kWordBits
<1> QED BY <1>1, <1>2, RefillSound DEF NewReader, ReaderInit, ReaderInv

LEMMA NextReaderInv == ReaderInv /\ [ReaderNext]_readerVars => ReaderInv'
<1> SUFFICES ASSUME ReaderInv, [ReaderNext]_readerVars PROVE ReaderInv'
  OBVIOUS
<1> USE DEF ReaderInv
<1>1. CASE Read
  <2>1. PICK bits \in 0..kMaxReadBits :
          reader' = ReadBits(reader, bits) /\ consumed' = consumed + bits
    BY <1>1 DEF Read
  <2> QED BY <2>1, ReadSound DEF kMaxReadBits
<1>2. CASE Skip
  <2>1. PICK bits \in 0..MaxSkip :
          reader' = SkipBits(reader, bits) /\ consumed' = consumed + bits
    BY <1>2 DEF Skip
  <2> QED BY <2>1, SkipSound, SpanAssumption
<1>3. CASE JumpToByteBoundary
  <2>1. BitsToBoundary(reader) \in 0..kMaxReadBits
    <3>1. TotalBitsConsumed(reader) \in Nat
      BY DEF TotalBitsConsumed, Sound, Readers
    <3> QED BY <3>1 DEF BitsToBoundary, kMaxReadBits
  <2>2. CASE BitsToBoundary(reader) = 0
    BY <1>3, <2>2 DEF JumpToByteBoundary
  <2>3. CASE BitsToBoundary(reader) # 0
    BY <1>3, <2>1, <2>3, ReadSound DEF JumpToByteBoundary, kMaxReadBits
  <2> QED BY <2>2, <2>3
<1>4. CASE UNCHANGED readerVars
  BY <1>4 DEF readerVars
<1> QED BY <1>1, <1>2, <1>3, <1>4 DEF ReaderNext

(* TotalBitsConsumed is the number of bits the reader's user has asked     *)
(* for, or both are beyond the end of the span, and no byte outside of the *)
(* span is loaded: for spans of any length, reads of up to 56 bits and     *)
(* skips of any length.                                                    *)
THEOREM EveryBitCounted == ReaderSpec => []ReaderCounts
<1>1. ReaderInv => ReaderCounts
  BY DEF ReaderInv, ReaderCounts, Sound, StandsFor, TotalBitsConsumed, SpanBits, Readers
<1>2. ReaderSpec => []ReaderInv
  BY InitReaderInv, NextReaderInv, PTL DEF ReaderSpec
<1> QED BY <1>1, <1>2, PTL
=============================================================================
