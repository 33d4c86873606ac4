------------------------------ MODULE BitWriter ------------------------------
(***************************************************************************)
(* BitWriter (lib/jxl/enc_bit_writer.cc) and the storage it writes to,     *)
(* PaddedBytes (lib/jxl/base/padded_bytes.cc).                             *)
(*                                                                         *)
(* Write is fast because it checks nothing: it stores 64 bits at the byte  *)
(* under the pen and relies on memory there being zero from the pen to the *)
(* end of that byte.  Storage is only zeroed ahead of the pen by earlier   *)
(* writes and, one byte of it, when it is allocated, and it grows and      *)
(* shrinks with the allotments its users open, nested, and reclaim.  The   *)
(* contents of the bits are of no account here, only where they go.        *)
(***************************************************************************)
EXTENDS Naturals, Sequences

CONSTANTS
  MaxBits,    \* bound: bits an allotment is opened for
  MaxBytes    \* bound: bytes another writer holds when it is appended

ASSUME BoundsAssumption == MaxBits \in Nat /\ MaxBytes \in Nat

VARIABLES
  bits_written,
  size, capacity,   \* of the storage, in bytes; without any, both are 0
  clean,            \* the bits from bits_written to here are zero in memory
  open,             \* the allotments that are open, outermost first
  charged           \* bits ReclaimAndCharge has billed to a layer

writerVars == <<bits_written, size, capacity, clean, open, charged>>

kBitsPerByte == 8
kMaxBitsPerCall == 56

DivCeil(a, b) == (a + b - 1) \div b

Larger(a, b) == IF a > b THEN a ELSE b

Pen == bits_written \div kBitsPerByte

Top == open[Len(open)]

WriterInit ==
  /\ bits_written = 0 /\ size = 0 /\ capacity = 0 /\ clean = 0
  /\ open = <<>> /\ charged = 0

-----------------------------------------------------------------------------
(* PaddedBytes.                                                            *)

IncreaseCapacityTo(bytes) ==
  capacity' = Larger(64, Larger(bytes, (3 * capacity) \div 2))

\* The old bytes are copied and one more is zeroed; of a first allocation, the first.
\* Mutant: the byte behind what is copied is only zeroed when there are old bytes.
ZeroedByCopy ==
  IF clean >= kBitsPerByte * size /\ capacity # 0 THEN kBitsPerByte * size + kBitsPerByte
  ELSE clean
ZeroedByGrowth ==
  IF capacity = 0 THEN kBitsPerByte
  ELSE IF clean >= kBitsPerByte * size THEN kBitsPerByte * size + kBitsPerByte
  ELSE clean

Resize(bytes, zeroed) ==
  /\ size' = bytes
  /\ IF bytes > capacity THEN IncreaseCapacityTo(bytes) ELSE UNCHANGED capacity
  /\ clean' = zeroed

ZeroedByResize(bytes) == IF bytes > capacity THEN ZeroedByGrowth ELSE clean

-----------------------------------------------------------------------------
(* BitWriter.  An allotment keeps its constructor's arguments; granted is  *)
(* history: the bits it and those it is nested in were opened for.         *)

Allot(max_bits) ==
  LET bytes == size + DivCeil(max_bits, kBitsPerByte) IN
  /\ Resize(bytes, ZeroedByResize(bytes))
  /\ open' = Append(open, [prev_bits_written |-> bits_written, max_bits |-> max_bits,
                           granted |-> max_bits + IF open = <<>> THEN 0 ELSE Top.granted])
  /\ UNCHANGED <<bits_written, charged>>

UsedBits == bits_written - Top.prev_bits_written

UnusedBits == Top.max_bits - UsedBits

\* Mutant: what a nested allotment was charged for is charged again.
ChargedHere(allotments, bits) == SubSeq(allotments, 1, Len(allotments) - 1)
ChargedElsewhere(allotments, bits) ==
  [i \in 1..Len(allotments) - 1 |->
     [allotments[i] EXCEPT !.prev_bits_written = @ + bits]]

Reclaim ==
  LET bytes == size - UnusedBits \div kBitsPerByte IN
  /\ Resize(bytes, ZeroedByResize(bytes))
  /\ open' = ChargedElsewhere(open, UsedBits)
  /\ charged' = charged + UsedBits
  /\ UNCHANGED bits_written

\* Storing a word leaves zeros from the last bit written to the end of the word.
WriteBits(n_bits) ==
  /\ bits_written' = bits_written + n_bits
  /\ clean' = kBitsPerByte * Pen + 64
  /\ UNCHANGED <<size, capacity, open, charged>>

PaddingBits == DivCeil(bits_written, kBitsPerByte) * kBitsPerByte - bits_written

AppendBytes(bytes) ==
  LET end == Pen + bytes IN
  /\ Resize(size + bytes + 1, kBitsPerByte * end + kBitsPerByte)
  /\ bits_written' = bits_written + bytes * kBitsPerByte
  /\ charged' = charged + bytes * kBitsPerByte
  /\ UNCHANGED open

-----------------------------------------------------------------------------
(* What the class asks of its users, by its comments and assertions.       *)

OpenAllotment == \E max_bits \in 0..MaxBits : Allot(max_bits)

Write ==
  \E n_bits \in 1..kMaxBitsPerCall :
    open # <<>> /\ n_bits <= UnusedBits /\ WriteBits(n_bits)

ZeroPadToByte ==
  /\ open # <<>> /\ PaddingBits # 0 /\ PaddingBits <= UnusedBits
  /\ WriteBits(PaddingBits)

ReclaimUnused == open # <<>> /\ UsedBits \in 0..Top.max_bits /\ Reclaim

AppendByteAligned ==
  \E bytes \in 1..MaxBytes :
    open = <<>> /\ bits_written % kBitsPerByte = 0 /\ AppendBytes(bytes)

WriterNext == OpenAllotment \/ Write \/ ZeroPadToByte \/ ReclaimUnused \/ AppendByteAligned

WriterSpec == WriterInit /\ [][WriterNext]_writerVars

-----------------------------------------------------------------------------
(* Wherever the contract allows a write of up to 56 bits, the byte under   *)
(* the pen and the seven behind it are inside the storage with its 8 bytes *)
(* of padding, and from the pen to the end of its byte there are zeros:    *)
(* nothing is written over, nothing lost and nothing left uninitialized,   *)
(* through any nesting of allotments, growth and appended writers.         *)
PenOnZeros ==
  open # <<>> /\ UnusedBits > 0 =>
    /\ 0 < capacity /\ Pen < size /\ size <= capacity
    /\ kBitsPerByte * Pen + kBitsPerByte <= clean

(* What is written stays allocated, so that growing copies it: reclaiming  *)
(* an allotment takes back no byte that is in use, although it rounds.     *)
WrittenKept == bits_written <= kBitsPerByte * size

(* A bit that is written inside nested allotments is billed once.          *)
ChargedOnce == open = <<>> => charged = bits_written
==============================================================================
