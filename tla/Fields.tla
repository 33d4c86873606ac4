------------------------------- MODULE Fields -------------------------------
(***************************************************************************)
(* The coders and visitors of lib/jxl/fields.cc, by which a bundle of      *)
(* header fields is written to and read from a stream of bits.             *)
(*                                                                         *)
(* What VisitFields of a bundle does with a visitor is the sequence of     *)
(* items it visits: fields, each with the value to write, its default and  *)
(* the path at which a read changes the bundle, checks and assignments.  A *)
(* visitor is a fold over the items, and the one that reads gets them anew *)
(* after each of them, as which ones follow depends on what was read.      *)
(*                                                                         *)
(* A float is its IEEE single: sign, unbiased exponent and mantissa.       *)
(* Numbers stay below 2^31, the integers of the model checker.             *)
(***************************************************************************)
EXTENDS BitReader, Integers, SequencesExt

Bit(x, i) == (x \div 2^i) % 2

SumOf(numbers) == FoldLeft(LAMBDA sum, n : sum + n, 0, numbers)

RECURSIVE WithField(_, _, _)
WithField(v, path, x) ==
  IF path = <<>> THEN x
  ELSE [v EXCEPT ![Head(path)] = WithField(@, Tail(path), x)]

-----------------------------------------------------------------------------
(* Distributions of a U32: Val is direct, the others add offset to bits.   *)

Val(x) == [direct |-> TRUE, offset |-> x, bits |-> 0]
BitsOffset(bits, offset) == [direct |-> FALSE, offset |-> offset, bits |-> bits]
BitsOnly(bits) == BitsOffset(bits, 0)

Holds(d, x) == IF d.direct THEN x = d.offset
               ELSE x >= d.offset /\ (d.bits > 30 \/ x - d.offset < 2^d.bits)

\* A direct distribution is the best, then the first of the shortest.
Selectors(enc, x) ==
  LET fit == {s \in 1..4 : Holds(enc[s], x)}
  IN {s \in fit : \A t \in fit : \/ enc[s].bits < enc[t].bits
                                 \/ enc[s].bits = enc[t].bits /\ s <= t}

U32Writes(enc, x) ==
  LET s == CHOOSE s \in Selectors(enc, x) : TRUE
  IN IF enc[s].direct THEN << <<2, s - 1>> >>
     ELSE << <<2, s - 1>>, <<enc[s].bits, x - enc[s].offset>> >>

\* Groups of 8 bits with a stop bit, and a last one of 4 without.
RECURSIVE VarintWrites(_, _)
VarintWrites(x, shift) ==
  IF x = 0 THEN << <<1, 0>> >>
  ELSE IF shift < 60 THEN << <<1, 1>>, <<8, x % 2^8>> >> \o VarintWrites(x \div 2^8, shift + 8)
  ELSE << <<1, 1>>, <<4, x % 2^4>> >>

U64Writes(x) ==
  CASE x = 0 -> << <<2, 0>> >>
    [] x \in 1..16 -> << <<2, 1>>, <<4, x - 1>> >>
    [] x \in 17..272 -> << <<2, 2>>, <<8, x - 17>> >>
    [] OTHER -> << <<2, 3>>, <<12, x % 2^12>> >> \o VarintWrites(x \div 2^12, 12)

RECURSIVE VarintBits(_, _)
VarintBits(x, shift) ==
  IF x = 0 THEN 1 ELSE IF shift < 60 THEN 9 + VarintBits(x \div 2^8, shift + 8) ELSE 5

U64EncodedBits(x) ==
  CASE x = 0 -> 2
    [] x \in 1..16 -> 2 + 4
    [] x \in 17..272 -> 2 + 8
    [] OTHER -> 2 + 12 + VarintBits(x \div 2^12, 12)

MaxU64Bits == 2 + 12 + 6 * (8 + 1) + (4 + 1)

-----------------------------------------------------------------------------
(* Floats of 16 bits.  Too small a number becomes 0, the rest is cut off.  *)

Float(sign, exp, man) == [sign |-> sign, exp |-> exp, man |-> man]
Zero == Float(0, -127, 0)
One == Float(0, 0, 0)
OneMillionth == Float(0, -20, 407485)

IsZero(f) == f.exp = -127 /\ f.man = 0
Negative(f) == f.sign = 1 /\ ~IsZero(f)
\* Of the absolute values.
Above(f, g) == f.exp > g.exp \/ (f.exp = g.exp /\ f.man > g.man)

F16CanEncode(f) == f.exp < 15 \/ (f.exp = 15 /\ f.man <= 1023 * 2^13)

F16Bits(f) ==
  LET sub_exp == -14 - f.exp IN
  IF f.exp < -24 THEN 0
  ELSE f.sign * 2^15
       + IF f.exp < -14 THEN 2^(10 - sub_exp) + f.man \div 2^(13 + sub_exp)
         ELSE (f.exp + 15) * 2^10 + f.man \div 2^13

F16Infinite(bits) == (bits \div 2^10) % 2^5 = 31

F16Value(bits) ==
  LET sign == bits \div 2^15
      exp == (bits \div 2^10) % 2^5
      man == bits % 2^10
      top == CHOOSE k \in 0..9 : man \in 2^k..2^(k + 1) - 1
  IN IF exp = 0 THEN IF man = 0 THEN [Zero EXCEPT !.sign = sign]
                     ELSE Float(sign, top - 24, (man - 2^top) * 2^(23 - top))
     ELSE Float(sign, exp - 15, man * 2^13)

\* AllDefaultVisitor takes a difference below a millionth for none; for the
\* defaults that are not 0 the numbers used here differ by more.
NearlyEqual(f, g) == f = g \/ (IsZero(g) /\ Above(OneMillionth, f))

-----------------------------------------------------------------------------
(* Items.  A field is packed into the number, or float, that is visited.   *)

Pack(packing, x) ==
  CASE packing = "plain" -> x
    [] packing = "minus1" -> x - 1
    [] packing = "bool" -> IF x THEN 1 ELSE 0
    [] packing = "float" -> x
    [] packing = "signed" -> IF x >= 0 THEN 2 * x ELSE -2 * x - 1
    [] packing = "sequence" -> Len(x)

Item(coder, packing, path, default, x) ==
  [coder |-> coder, packing |-> packing, path |-> path,
   default |-> Pack(packing, default), value |-> Pack(packing, x)]

\* The field called name of the bundle v, and of d, which has all defaults.
FieldItem(coder, packing, name, d, v) == Item(coder, packing, <<name>>, d[name], v[name])

BitsCoder(bits) == [type |-> "bits", bits |-> bits]
U32Coder(d0, d1, d2, d3) == [type |-> "u32", enc |-> <<d0, d1, d2, d3>>]
F16Coder == [type |-> "f16"]

BitsItem(bits, name, d, v) == FieldItem(BitsCoder(bits), "plain", name, d, v)
U32Item(enc, name, d, v) == FieldItem(enc, "plain", name, d, v)
BoolItem(name, d, v) == FieldItem(BitsCoder(1), "bool", name, d, v)
F16Item(name, d, v) == FieldItem(F16Coder, "float", name, d, v)
F16Items(name, d, v) ==
  [i \in DOMAIN v[name] |-> Item(F16Coder, "float", <<name, i>>, d[name][i], v[name][i])]

Check(ok) == [coder |-> [type |-> "check", ok |-> ok]]
Assign(path, x) == [coder |-> [type |-> "assign", value |-> x], path |-> path]
BeginExtensions(d, v) == FieldItem([type |-> "extensions"], "plain", "extensions", d, v)
EndExtensions == [coder |-> [type |-> "end_extensions"]]

EnumItems(name, values, d, v) ==
  << U32Item(U32Coder(Val(0), Val(1), BitsOffset(4, 2), BitsOffset(6, 18)), name, d, v),
     Check(v[name] \in values) >>

\* visitor->VisitNested(&field): the items of the field, which are below path.
VisitNested(path, items) ==
  LET Below(item) == IF "path" \in DOMAIN item THEN [item EXCEPT !.path = path \o @] ELSE item
  IN [i \in DOMAIN items |-> Below(items[i])]

IsField(item) == item.coder.type \in {"bits", "u32", "f16", "u64", "extensions"}
FieldsOf(items) == SelectSeq(items, IsField)
ChecksHold(items) ==
  \A i \in DOMAIN items : items[i].coder.type = "check" => items[i].coder.ok

-----------------------------------------------------------------------------
(* AllDefaultVisitor, MaxBitsVisitor and CanEncodeVisitor.                 *)

IsDefault(item) ==
  IF item.packing = "float" THEN NearlyEqual(item.value, item.default)
  ELSE item.value = item.default

AllFieldsDefault(items) ==
  FoldLeft(LAMBDA all, item : all /\ (IsField(item) => IsDefault(item)), TRUE, items)

MaxEncodedBits(coder) ==
  CASE coder.type = "bits" -> coder.bits
    [] coder.type = "u32" -> 2 + FoldLeft(LAMBDA m, d : IF d.bits > m THEN d.bits ELSE m,
                                          0, coder.enc)
    [] coder.type = "f16" -> 16
    [] coder.type = "u64" -> MaxU64Bits
    [] coder.type = "extensions" -> 0

MaxBitsOfItems(items) ==
  SumOf([i \in DOMAIN FieldsOf(items) |-> MaxEncodedBits(FieldsOf(items)[i].coder)])

Encodable(item) ==
  CASE item.coder.type = "bits" -> item.value < 2^item.coder.bits
    [] item.coder.type = "u32" -> Selectors(item.coder.enc, item.value) # {}
    [] item.coder.type = "f16" -> F16CanEncode(item.value)
    [] item.coder.type \in {"u64", "extensions"} -> TRUE

\* Mutant: a U32 is taken to need its longest distribution.
LongestBits(item) ==
  IF item.coder.type \in {"u64", "extensions"} THEN U64EncodedBits(item.value)
  ELSE MaxEncodedBits(item.coder)
EncodedBits(item) ==
  CASE item.coder.type = "bits" -> item.coder.bits
    [] item.coder.type = "u32" ->
         2 + item.coder.enc[CHOOSE s \in Selectors(item.coder.enc, item.value) : TRUE].bits
    [] item.coder.type = "f16" -> 16
    [] item.coder.type \in {"u64", "extensions"} -> U64EncodedBits(item.value)

CanEncodeItems(items) ==
  /\ ChecksHold(items)
  /\ \A i \in DOMAIN FieldsOf(items) : Encodable(FieldsOf(items)[i])

PopCount(x) == SumOf([i \in 1..31 |-> Bit(x, i - 1)])

BitsOfItems(items) == SumOf([i \in DOMAIN items |-> EncodedBits(items[i])])

\* The bits of the fields behind the extensions field; 0 if no bit of it is set.
ExtensionBits(fields) ==
  LET at == SelectInSeq(fields, LAMBDA f : f.coder.type = "extensions" /\ f.value # 0)
  IN IF at = 0 THEN 0 ELSE BitsOfItems(SubSeq(fields, at + 1, Len(fields)))

\* Mutant: the sizes of all extensions but the first are forgotten.
BitsAndOneSize(items) ==
  LET fields == FieldsOf(items)
  IN BitsOfItems(fields)
     + IF ExtensionBits(fields) = 0 THEN 0 ELSE U64EncodedBits(ExtensionBits(fields))
\* With extensions: the size of them all, and a 0 for every one but the first.
TotalBits(items) ==
  LET fields == FieldsOf(items)
      used == SelectInSeq(fields, LAMBDA f : f.coder.type = "extensions" /\ f.value # 0)
  IN BitsOfItems(fields)
     + IF used = 0 THEN 0
       ELSE U64EncodedBits(ExtensionBits(fields)) + 2 * (PopCount(fields[used].value) - 1)

-----------------------------------------------------------------------------
(* WriteVisitor: the calls of BitWriter::Write, as <<n_bits, bits>>.       *)

ItemWrites(item, extension_bits) ==
  CASE item.coder.type = "bits" -> << <<item.coder.bits, item.value>> >>
    [] item.coder.type = "u32" -> U32Writes(item.coder.enc, item.value)
    [] item.coder.type = "f16" -> << <<16, F16Bits(item.value)>> >>
    [] item.coder.type = "u64" -> U64Writes(item.value)
    [] item.coder.type = "extensions" ->
         U64Writes(item.value)
         \o IF item.value = 0 THEN <<>>
            ELSE U64Writes(extension_bits)
                 \o [i \in 1..PopCount(item.value) - 1 |-> <<2, 0>>]

WritesOf(items) ==
  LET fields == FieldsOf(items)
  IN FlattenSeq([i \in DOMAIN fields |-> ItemWrites(fields[i], ExtensionBits(fields))])

-----------------------------------------------------------------------------
(* ReadVisitor.  Its state: the reader, how many bits were asked for, the  *)
(* bundle, whether a float was infinite, and where the extensions end.     *)

Visiting(r, n, v) ==
  [reader |-> r, consumed |-> n, v |-> v, ok |-> TRUE, status |-> "visiting",
   total_extension_bits |-> 0, pos_after_ext_size |-> 0]

\* Beyond the end of the span there are zeros.
BitsAt(stream, r, n) ==
  LET pos == TotalBitsConsumed(r)
  IN SumOf([i \in 1..n |-> IF pos + i <= SpanBits(r) /\ pos + i <= Len(stream)
                           THEN stream[pos + i] * 2^(i - 1) ELSE 0])

\* A read of n bits: the value, and the visitor's state after it.
Take(stream, s, n) ==
  [value |-> BitsAt(stream, s.reader, n),
   s |-> [s EXCEPT !.reader = Consume(@, n), !.consumed = @ + n]]
Got(stream, s, n) == Take(stream, [s EXCEPT !.reader = Refill(@)], n)
Plus(got, n) == [got EXCEPT !.value = @ + n]

U32Read(stream, selector, d) ==
  IF d.direct THEN [selector EXCEPT !.value = d.offset]
  ELSE Plus(Got(stream, selector.s, d.bits), d.offset)

RECURSIVE VarintRead(_, _, _, _)
VarintRead(stream, low, more, shift) ==
  LET Group(bits) == Plus([Got(stream, more.s, bits) EXCEPT !.value = @ * 2^shift], low)
      Further(group) == VarintRead(stream, group.value, Got(stream, group.s, 1), shift + 8)
  IN IF more.value = 0 THEN [more EXCEPT !.value = low]
     ELSE IF shift = 60 THEN Group(4) ELSE Further(Group(8))

U64Read(stream, selector) ==
  LET Low(low) == VarintRead(stream, low.value, Got(stream, low.s, 1), 12)
  IN CASE selector.value = 0 -> selector
       [] selector.value = 1 -> Plus(Got(stream, selector.s, 4), 1)
       [] selector.value = 2 -> Plus(Got(stream, selector.s, 8), 17)
       [] selector.value = 3 -> Low(Got(stream, selector.s, 12))

CoderRead(stream, s, coder) ==
  LET U32(selector) == U32Read(stream, selector, coder.enc[selector.value + 1])
  IN CASE coder.type = "bits" -> Got(stream, s, coder.bits)
       [] coder.type = "u32" -> U32(Got(stream, s, 2))
       [] coder.type = "f16" -> Got(stream, s, 16)
       [] coder.type \in {"u64", "extensions"} -> U64Read(stream, Got(stream, s, 2))

\* What the field becomes: a sequence is resized, to elements like item.fresh.
Unpack(item, x) ==
  CASE item.packing = "plain" -> x
    [] item.packing = "minus1" -> x + 1
    [] item.packing = "bool" -> x = 1
    [] item.packing = "float" -> F16Value(x)
    [] item.packing = "signed" -> IF x % 2 = 0 THEN x \div 2 ELSE -((x + 1) \div 2)
    [] item.packing = "sequence" -> [i \in 1..x |-> item.fresh]

Stopped(s, status) == [s EXCEPT !.status = status]

Checked(s) == IF AllReadsWithinBounds(s.reader) THEN s ELSE Stopped(s, "not_enough_bytes")

\* Read one U64 for every extension that is present: their sizes.
RECURSIVE ReadSizes(_, _, _)
ReadSizes(stream, s, n) ==
  LET Added(size) == Checked([size.s EXCEPT !.total_extension_bits = @ + size.value])
  IN IF s.status # "visiting" THEN s
     ELSE IF n = 0 THEN [s EXCEPT !.pos_after_ext_size = TotalBitsConsumed(s.reader)]
     ELSE ReadSizes(stream, Added(U64Read(stream, Got(stream, s, 2))), n - 1)

\* Mutant: a skip beyond the end goes unnoticed.
SkipUnchecked(s) ==
  LET remaining == s.pos_after_ext_size + s.total_extension_bits - TotalBitsConsumed(s.reader)
  IN IF s.pos_after_ext_size = 0 \/ remaining <= 0 THEN s
     ELSE [s EXCEPT !.reader = SkipBits(@, remaining), !.consumed = @ + remaining]
\* Skip what this version does not know.
SkipExtensions(s) ==
  LET end == s.pos_after_ext_size + s.total_extension_bits
      remaining == end - TotalBitsConsumed(s.reader)
  IN IF s.pos_after_ext_size = 0 \/ remaining = 0 THEN s
     ELSE IF remaining < 0 THEN Stopped(s, "failure")
     ELSE Checked([s EXCEPT !.reader = SkipBits(@, remaining), !.consumed = @ + remaining])

\* The field is set, unless it is a float that is not finite.
Stored(got, item) ==
  LET infinite == item.packing = "float" /\ F16Infinite(got.value)
  IN Checked([got.s EXCEPT
                !.ok = @ /\ ~infinite,
                !.v = IF infinite THEN @ ELSE WithField(@, item.path, Unpack(item, got.value))])

FieldRead(stream, s, item) ==
  LET Field(got) ==
        IF item.coder.type = "extensions" /\ got.value # 0
        THEN ReadSizes(stream, Stored(got, item), PopCount(got.value)) ELSE Stored(got, item)
  IN Field(CoderRead(stream, s, item.coder))

ItemRead(stream, s, item) ==
  CASE item.coder.type = "check" -> IF item.coder.ok THEN s ELSE Stopped(s, "failure")
    [] item.coder.type = "assign" -> [s EXCEPT !.v = WithField(@, item.path, item.coder.value)]
    [] item.coder.type = "end_extensions" -> SkipExtensions(s)
    [] OTHER -> FieldRead(stream, s, item)
=============================================================================
