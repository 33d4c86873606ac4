----------------------------- MODULE Codestream -----------------------------
(***************************************************************************)
(* Header bundles are written to a BitWriter and read back from the bytes  *)
(* with a BitReader, as lib/jxl/image_bundle_test.cc does: Bundle::Write   *)
(* and Bundle::Read (lib/jxl/fields.cc) one field at a time.  What is read *)
(* may be cut off anywhere, as when a file is still arriving.              *)
(*                                                                         *)
(* A write is not guarded by what is left of its allotment: that            *)
(* CanEncode allots enough, and no more, is for the properties to say.     *)
(***************************************************************************)
EXTENDS BitWriter, ImageHeaders

CONSTANT Codestreams  \* the sequences of bundles to write: [kind, v]

VARIABLES
  bundles,    \* the one that was chosen
  stage,      \* "write", "pad", "append", "arrive", "read", "jump", "end"
  at,         \* which bundle it is about
  pending,    \* calls of BitWriter::Write that are left of the bundle
  stream,     \* the bits that are written
  ends,       \* history: where each bundle ends
  visit,      \* the ReadVisitor, without its reader
  items,      \* what VisitFields visits, going by what was read so far
  next_item   \* the one that is next

readVars == <<visit, items, next_item>>
codestreamVars == <<bundles, stage, at, pending, stream, ends, readVars>>
vars == <<writerVars, readerVars, codestreamVars>>

kPaddingAllotment == 99

Bundle(i) == bundles[i]

WriteItems(b) == VisitFields(b.kind, b.v, "write")

BitsOf(n_bits, x) == [i \in 1..n_bits |-> IF i > 31 THEN 0 ELSE Bit(x, i - 1)]

\* Into a new bundle, but for what its user has to set before VisitFields.
NewVisit(b) ==
  LET fresh == IF b.kind = "CustomTransformData"
               THEN [Default(b.kind) EXCEPT
                       !.nonserialized_xyb_encoded = b.v.nonserialized_xyb_encoded]
               ELSE Default(b.kind)
      s == Visiting(reader, 0, fresh)
  IN [field \in DOMAIN s \ {"reader", "consumed"} |-> s[field]]

Init ==
  /\ WriterInit
  /\ reader = NewReader(0) /\ consumed = 0
  /\ bundles \in Codestreams
  /\ stage = "write" /\ at = 0 /\ pending = <<>> /\ stream = <<>> /\ ends = <<>>
  /\ visit = NewVisit(bundles[1]) /\ items = <<>> /\ next_item = 1

-----------------------------------------------------------------------------
(* Writing.                                                                *)

OpenForPadding ==
  /\ stage = "write" /\ open = <<>>
  /\ Allot(kPaddingAllotment)
  /\ at' = 1
  /\ UNCHANGED <<readerVars, bundles, stage, pending, stream, ends, readVars>>

WriteBundle ==
  /\ stage = "write" /\ Len(open) = 1 /\ at <= Len(bundles)
  /\ \E written \in {WriteItems(Bundle(at))} :
       /\ CanEncodeItems(written)
       /\ Allot(TotalBits(written))
       /\ pending' = WritesOf(written)
  /\ UNCHANGED <<readerVars, bundles, stage, at, stream, ends, readVars>>

WriteToken ==
  LET token == Head(pending) IN
  /\ pending # <<>>
  /\ WriteBits(token[1])
  /\ stream' = stream \o BitsOf(token[1], token[2])
  /\ pending' = Tail(pending)
  /\ UNCHANGED <<readerVars, bundles, stage, at, ends, readVars>>

BundleWritten ==
  /\ stage = "write" /\ Len(open) = 2 /\ pending = <<>>
  /\ Reclaim
  /\ ends' = Append(ends, bits_written)
  /\ at' = at + 1
  /\ stage' = IF at = Len(bundles) THEN "pad" ELSE "write"
  /\ UNCHANGED <<readerVars, bundles, pending, stream, readVars>>

Pad ==
  /\ stage = "pad" /\ PaddingBits # 0
  /\ WriteBits(PaddingBits)
  /\ stream' = stream \o BitsOf(PaddingBits, 0)
  /\ UNCHANGED <<readerVars, bundles, stage, at, pending, ends, readVars>>

ClosePadding ==
  /\ stage = "pad" /\ PaddingBits = 0
  /\ Reclaim
  /\ stage' = "append"
  /\ UNCHANGED <<readerVars, bundles, at, pending, stream, ends, readVars>>

\* What another writer holds comes behind it; its bits are of no account.
AppendSection ==
  /\ stage = "append"
  /\ \E bytes \in 1..MaxBytes :
       AppendBytes(bytes) /\ stream' = stream \o BitsOf(kBitsPerByte * bytes, 0)
  /\ stage' = "arrive"
  /\ UNCHANGED <<readerVars, bundles, at, pending, ends, readVars>>

-----------------------------------------------------------------------------
(* Reading.                                                                *)

StartBundle(b) ==
  /\ visit' = NewVisit(b)
  /\ items' = VisitFields(b.kind, NewVisit(b).v, "read")
  /\ next_item' = 1

Arrive ==
  /\ stage \in {"append", "arrive"}
  /\ \E bytes \in 0..Pen : reader' = NewReader(bytes)
  /\ consumed' = 0
  /\ stage' = "read" /\ at' = 1
  /\ StartBundle(Bundle(1))
  /\ UNCHANGED <<writerVars, bundles, pending, stream, ends>>

ReadItem ==
  /\ stage = "read" /\ visit.status = "visiting" /\ next_item <= Len(items)
  /\ \E s \in {ItemRead(stream, visit @@ [reader |-> reader, consumed |-> consumed],
                       items[next_item])} :
       /\ reader' = s.reader /\ consumed' = s.consumed
       /\ visit' = [field \in DOMAIN visit |-> s[field]]
  /\ items' = VisitFields(Bundle(at).kind, visit'.v, "read")
  /\ next_item' = next_item + 1
  /\ UNCHANGED <<writerVars, bundles, stage, at, pending, stream, ends>>

BundleRead ==
  /\ stage = "read" /\ visit.status = "visiting" /\ next_item > Len(items)
  /\ visit.ok
  /\ IF at = Len(bundles)
     THEN stage' = "jump" /\ UNCHANGED <<at, readVars>>
     ELSE /\ at' = at + 1
          /\ StartBundle(Bundle(at + 1))
          /\ UNCHANGED stage
  /\ UNCHANGED <<writerVars, readerVars, bundles, pending, stream, ends>>

Jump ==
  /\ stage = "jump"
  /\ JumpToByteBoundary
  /\ stage' = "end"
  /\ UNCHANGED <<writerVars, bundles, at, pending, stream, ends, readVars>>

Next ==
  \/ OpenForPadding \/ WriteBundle \/ WriteToken \/ BundleWritten \/ Pad \/ ClosePadding
  \/ AppendSection \/ Arrive \/ ReadItem \/ BundleRead \/ Jump

Spec == Init /\ [][Next]_vars

-----------------------------------------------------------------------------
AllRead == stage = "read" /\ visit.status = "visiting" /\ next_item > Len(items)

\* w is what was written of a field and r what was read, by their items.
SameField(w, r) ==
  /\ w.path = r.path
  /\ \/ r.value = IF w.packing = "float" THEN F16Value(F16Bits(w.value)) ELSE w.value
     \/ r.value = r.default /\ IsDefault(w)

SameBundle(b, v) ==
  LET written == FieldsOf(VisitFields(b.kind, b.v, "max"))
      read == FieldsOf(VisitFields(b.kind, v, "max"))
  IN /\ Len(read) = Len(written)
     /\ \A i \in DOMAIN read : SameField(written[i], read[i])
     /\ b.kind = "SizeHeader" => SizeOfXsize(v) = b.xsize /\ SizeOfYsize(v) = b.ysize

(* What VisitFields writes is what VisitFields reads, and what it leaves   *)
(* out is as it was: all fields are compared, where those of no use have   *)
(* their defaults.  Conditions, all_default bits and the sizes of vectors  *)
(* must agree, and no extension of a later version disturbs them.          *)
(* Floats come back with the ten bits of mantissa they were written with,  *)
(* and a difference from a default below a millionth may be lost.          *)
ReadsBack == AllRead => SameBundle(Bundle(at), visit.v)

(* A read ends where the write of the same bundle ended, or it says that   *)
(* there are not enough bytes, and it says so exactly when there are not:  *)
(* never does a stream that is cut off look invalid or complete.           *)
ToldWhenCut ==
  /\ AllRead => ends[at] <= SpanBits(reader) /\ TotalBitsConsumed(reader) = ends[at] /\ visit.ok
  /\ visit.status = "not_enough_bytes" => ends[at] > SpanBits(reader)
  /\ visit.status # "failure"

(* CanEncode says exactly what a bundle takes, so that its allotment is    *)
(* used up, and but for extensions that is no more than Bundle::MaxBits.   *)
ExactlyEncoded ==
  stage = "write" /\ Len(open) = 2 /\ pending = <<>> =>
    /\ UnusedBits = 0
    /\ LET b == Bundle(at)
       IN \/ b.kind = "ImageMetadata" /\ b.v.extensions # 0
          \/ UsedBits <= MaxBitsOfItems(VisitFields(b.kind, b.v, "max"))
=============================================================================
