------------------------------ MODULE BitReader ------------------------------
(***************************************************************************)
(* BitReader (lib/jxl/dec_bit_reader.h): how far it is in a span of bytes. *)
(* It loads up to 8 bytes ahead of what it returns, 8 at once while they   *)
(* are there and then one by one, and beyond the end it makes up zeros, so *)
(* a user may read on and ask afterwards whether all was within bounds.    *)
(*                                                                         *)
(* The word it keeps them in holds the bits of the span from               *)
(* TotalBitsConsumed on: what a read returns is left to its user.          *)
(***************************************************************************)
EXTENDS Naturals

CONSTANTS
  MaxSpan,  \* bound: bytes of a span
  MaxSkip   \* bound: bits skipped at once

ASSUME SpanAssumption == MaxSpan \in Nat /\ MaxSkip \in Nat

VARIABLES
  reader,   \* a BitReader: end is the size of the span
  consumed  \* history: the bits its user has asked for

readerVars == <<reader, consumed>>

kWordBits == 64
kMaxReadBits == 56

SpanBits(r) == 8 * r.end

Refill(r) ==
  LET missing == (kWordBits - 1 - r.bits_in_buf) \div 8
      left == r.end - r.next_byte
      loaded == IF 8 <= left \/ missing <= left THEN missing ELSE left
  IN [end |-> r.end, next_byte |-> r.next_byte + loaded,
      bits_in_buf |-> r.bits_in_buf + 8 * missing,
      overread_bytes |-> r.overread_bytes + (missing - loaded)]

Consume(r, bits) == [r EXCEPT !.bits_in_buf = @ - bits]

ReadBits(r, bits) == Consume(Refill(r), bits)

\* Mutant: what lies beyond the end is forgotten.
SkipToTheEnd(r, bits) ==
  LET rest == bits - r.bits_in_buf
      whole == rest \div 8
      left == r.end - r.next_byte
      moved == [end |-> r.end, bits_in_buf |-> 0, overread_bytes |-> r.overread_bytes,
                next_byte |-> r.next_byte + IF whole > left THEN left ELSE whole]
  IN IF bits <= r.bits_in_buf THEN Consume(r, bits) ELSE Consume(Refill(moved), rest % 8)

\* Skipping whole bytes past the end stops at the end, but is remembered.
SkipBits(r, bits) ==
  LET rest == bits - r.bits_in_buf
      whole == rest \div 8
      beyond == whole > r.end - r.next_byte
      moved == [end |-> r.end, bits_in_buf |-> 0, overread_bytes |-> r.overread_bytes,
                next_byte |-> IF beyond THEN r.end ELSE r.next_byte + whole]
  IN IF bits <= r.bits_in_buf THEN Consume(r, bits)
     ELSE Consume(Refill(moved), (rest % 8) + IF beyond THEN 8 ELSE 0)

TotalBitsConsumed(r) == 8 * (r.next_byte + r.overread_bytes) - r.bits_in_buf

AllReadsWithinBounds(r) == TotalBitsConsumed(r) <= SpanBits(r)

\* The bits JumpToByteBoundary reads.
BitsToBoundary(r) == (8 - (TotalBitsConsumed(r) % 8)) % 8

NewReader(bytes) ==
  Refill([end |-> bytes, next_byte |-> 0, bits_in_buf |-> 0, overread_bytes |-> 0])

-----------------------------------------------------------------------------
ReaderInit == consumed = 0 /\ \E bytes \in 0..MaxSpan : reader = NewReader(bytes)

Read ==
  \E bits \in 0..kMaxReadBits :
    reader' = ReadBits(reader, bits) /\ consumed' = consumed + bits

Skip ==
  \E bits \in 0..MaxSkip :
    reader' = SkipBits(reader, bits) /\ consumed' = consumed + bits

JumpToByteBoundary ==
  /\ reader' = IF BitsToBoundary(reader) = 0 THEN reader
               ELSE ReadBits(reader, BitsToBoundary(reader))
  /\ consumed' = consumed + BitsToBoundary(reader)

ReaderNext == Read \/ Skip \/ JumpToByteBoundary

ReaderSpec == ReaderInit /\ [][ReaderNext]_readerVars

-----------------------------------------------------------------------------
(* The reader accounts for every bit that is asked for, through words that *)
(* are loaded ahead, zeros that are made up and skips: where it says it is *)
(* is where its user is, or both are beyond the end, and it never loads    *)
(* from beyond the span.  So AllReadsWithinBounds is exact.                *)
ReaderCounts ==
  /\ reader.next_byte <= reader.end
  /\ reader.bits_in_buf < kWordBits
  /\ \/ TotalBitsConsumed(reader) = consumed
     \/ TotalBitsConsumed(reader) > SpanBits(reader) /\ consumed > SpanBits(reader)
==============================================================================
