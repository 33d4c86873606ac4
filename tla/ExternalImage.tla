---------------------------- MODULE ExternalImage ----------------------------
(***************************************************************************)
(* Pixels between interleaved buffers of bytes and planes of samples:      *)
(* ConvertFromExternal (lib/jxl/enc_external_image.cc), ConvertToExternal   *)
(* and UndoOrientation (lib/jxl/dec_external_image.cc).                     *)
(*                                                                         *)
(* A sample is the fraction n/d in the colour space it is in, times its    *)
(* alpha a to the power of p (PremultiplyAlpha makes p one more), perhaps  *)
(* rounded to half a float.  A plane is a function of rows, a row one of   *)
(* columns.                                                                *)
(***************************************************************************)
EXTENDS Integers, SequencesExt, FiniteSets

kBitsPerByte == 8

RoundUpDiv(a, b) == (a + b - 1) \div b

NoAlpha == <<1, 1>>

Sample(n, d, space) ==
  [n |-> IF n = d THEN 1 ELSE n, d |-> IF n \in {0, d} THEN 1 ELSE d,
   p |-> 0, a |-> NoAlpha, half |-> FALSE, space |-> space]

Opaque == Sample(1, 1, "alpha")

-----------------------------------------------------------------------------
(* Bytes: of an integer in a colour space, a piece of a float of so many    *)
(* bytes, or none that was ever written.  Pieces are counted from the      *)
(* least significant one.  Which space it is no file and no buffer tells.  *)

UintByte(k, space) == <<"uint", k, space>>
Unwritten == <<"unwritten">>

\* StoreLE16, StoreBE16, StoreLEFloat, StoreBEFloat and their counterparts.
InOrder(least_first, little_endian) ==
  IF little_endian THEN least_first ELSE Reverse(least_first)

UintBytes(k, width, little_endian, space) ==
  InOrder(IF width = 1 THEN <<UintByte(k % 256, space)>>
          ELSE <<UintByte(k % 256, space), UintByte(k \div 256, space)>>, little_endian)

FloatBytes(sample, width, little_endian) ==
  InOrder([i \in 1 .. width |-> <<"float", sample, width, i>>], little_endian)

\* Bytes that are not those of one sample load as a number nobody stored.
Garbage == [n |-> -1, d |-> 1, p |-> 0, a |-> NoAlpha, half |-> FALSE, space |-> "none"]

LoadUint(least_first, bits) ==
  IF \E i \in DOMAIN least_first : least_first[i][1] # "uint" \/ least_first[i][3] # least_first[1][3]
  THEN Garbage
  ELSE Sample(least_first[1][2] + (IF Len(least_first) = 2 THEN 256 * least_first[2][2] ELSE 0),
              2 ^ bits - 1, least_first[1][3])

LoadFloat(least_first) ==
  IF \A i \in DOMAIN least_first : /\ least_first[i][1] = "float"
                                   /\ least_first[i][2] = least_first[1][2]
                                   /\ least_first[i][3] = Len(least_first)
                                   /\ least_first[i][4] = i
  THEN least_first[1][2] ELSE Garbage

\* bits: of an integer, or 16 or 32 for a float.
Load(bytes, bits, float_in, little_endian) ==
  IF float_in THEN LoadFloat(InOrder(bytes, little_endian))
  ELSE LoadUint(InOrder(bytes, little_endian), bits)

-----------------------------------------------------------------------------
(* ConvertFromExternal.  in is a sequence of bytes.                        *)

BytesPerChannel(bits) == RoundUpDiv(bits, kBitsPerByte)

\* align > 1 rounds the size of a row up.
RowSize(xsize, channels, bits, align) ==
  LET last_row_size == xsize * channels * BytesPerChannel(bits)
  IN  IF align > 1 THEN RoundUpDiv(last_row_size, align) * align ELSE last_row_size

\* The last row need not be padded.
SizeFits(size, xsize, ysize, channels, bits, align) ==
  LET row_size == RowSize(xsize, channels, bits, align)
      last_row_size == RowSize(xsize, channels, bits, 1)
  IN  /\ xsize # 0 /\ ysize # 0
      /\ row_size * (ysize - 1) + last_row_size <= size
      /\ size <= row_size * ysize

\* Channel c of the image, the first being 0.
LoadPlane(in, xsize, ysize, channels, c, bits, float_in, little_endian, align) ==
  LET width == BytesPerChannel(bits)
      At(x, y) == RowSize(xsize, channels, bits, align) * y + (x * channels + c) * width
  IN  [y \in 0 .. ysize - 1 |-> [x \in 0 .. xsize - 1 |->
         Load(SubSeq(in, At(x, y) + 1, At(x, y) + width), bits, float_in, little_endian)]]

ConstantPlane(xsize, ysize, sample) ==
  [y \in 0 .. ysize - 1 |-> [x \in 0 .. xsize - 1 |-> sample]]

\* format: [num_channels, float, endianness, align]; has_alpha: of the metadata of ib.
CanConvert(in, xsize, ysize, format, color_channels, bits) ==
  /\ format.num_channels >= color_channels
  /\ SizeFits(Len(in), xsize, ysize, format.num_channels, bits, format.align)

LittleEndian(format) == format.endianness # "big"   \* native is little endian

\* A gray image has its plane three times.
ColorPlanes(in, xsize, ysize, format, color_channels, bits) ==
  [c \in 1 .. 3 |->
     LoadPlane(in, xsize, ysize, format.num_channels, IF color_channels = 1 THEN 0 ELSE c - 1,
               bits, format.float, LittleEndian(format), format.align)]

\* The last channel is alpha.  Without one an image that should have alpha is
\* opaque, and alpha nobody asked for is dropped.
AlphaPlanes(in, xsize, ysize, format, has_alpha, bits) ==
  CASE ~has_alpha -> <<>>
    [] has_alpha /\ format.num_channels \in {2, 4} ->
         <<LoadPlane(in, xsize, ysize, format.num_channels, format.num_channels - 1, bits,
                     format.float, LittleEndian(format), format.align)>>
    [] OTHER -> <<ConstantPlane(xsize, ysize, Opaque)>>

-----------------------------------------------------------------------------
(* UndoOrientation: where the pixel at column x of row y goes.             *)

Transposes(orientation) == orientation > 4

Upright(orientation, x, y, xsize, ysize) ==
  CASE orientation = 1 -> <<x, y>>
    [] orientation = 2 -> <<xsize - x - 1, y>>               \* kFlipHorizontal
    [] orientation = 3 -> <<xsize - x - 1, ysize - y - 1>>   \* kRotate180
    [] orientation = 4 -> <<x, ysize - y - 1>>               \* kFlipVertical
    [] orientation = 5 -> <<y, x>>                           \* kTranspose
    [] orientation = 6 -> <<ysize - y - 1, x>>               \* kRotate90
    [] orientation = 7 -> <<ysize - y - 1, xsize - x - 1>>   \* kAntiTranspose
    [] orientation = 8 -> <<y, xsize - x - 1>>               \* kRotate270

Columns(plane) == Cardinality(DOMAIN plane[0])
Rows(plane) == Cardinality(DOMAIN plane)

UndoOrientation(orientation, plane) ==
  LET xsize == Columns(plane)
      ysize == Rows(plane)
      out_xsize == IF Transposes(orientation) THEN ysize ELSE xsize
      out_ysize == IF Transposes(orientation) THEN xsize ELSE ysize
  IN  [v \in 0 .. out_ysize - 1 |-> [u \in 0 .. out_xsize - 1 |->
         LET from == CHOOSE at \in (0 .. xsize - 1) \X (0 .. ysize - 1) :
                       Upright(orientation, at[1], at[2], xsize, ysize) = <<u, v>>
         IN  plane[from[2]][from[1]]]]

-----------------------------------------------------------------------------
(* ConvertChannelsToExternal: one row at a time, by the threads of a pool. *)

\* What a sample is worth: a fraction.
Worth(s) ==
  CASE s.p = 0 -> <<s.n, s.d>>
    [] s.p > 0 -> IF s.a[1] = 0 THEN <<0, 1>> ELSE <<s.n * s.a[1], s.d * s.a[2]>>
    [] s.p < 0 -> IF s.a[1] = 0 THEN <<IF s.n = 0 THEN 0 ELSE 1, 1>>
                  ELSE <<s.n * s.a[2], s.d * s.a[1]>>

\* FloatToU32: clamped to 0 .. 1 and rounded to the nearest integer.
NearestUint(w, bits) ==
  LET mul == 2 ^ bits - 1
  IN  CASE w[1] <= 0 -> 0
        [] w[1] >= w[2] -> mul
        [] w[1] < w[2] /\ w[2] = mul -> w[1]
        [] OTHER -> (2 * w[1] * mul + w[2]) \div (2 * w[2])

\* FloatToF16.
HalfFloat(s) == [s EXCEPT !.half = TRUE]

\* What a thread keeps of a channel of its row: as an integer a sample is worth
\* k / (2^bits - 1), and can still be told from one in another space.
ConvertedRow(row, bits, float_out) ==
  [x \in DOMAIN row |->
     CASE ~float_out -> <<NearestUint(Worth(row[x]), bits), row[x].space>>
       [] float_out /\ bits = 16 -> HalfFloat(row[x])
       [] OTHER -> row[x]]

\* The caches have a row for each channel of each thread.
\* Mutant: all threads have the same rows.
SharedCacheRow(c, thread, num_channels) == c
CacheRow(c, thread, num_channels) == c + thread * num_channels

\* StoreUintRow, StoreFloatRow: the bytes of a row of so many columns.
StoredBytes(value, bits, float_out, little_endian) ==
  IF float_out THEN FloatBytes(value, BytesPerChannel(bits), little_endian)
  ELSE UintBytes(value[1], BytesPerChannel(bits), little_endian, value[2])

StoredRow(rows, xsize, bits, float_out, little_endian) ==
  LET width == BytesPerChannel(bits)
      At(k) == rows[(k % Len(rows)) + 1][k \div Len(rows)]
  IN  [i \in 1 .. xsize * Len(rows) * width |->
         StoredBytes(At((i - 1) \div width), bits, float_out, little_endian)[((i - 1) % width) + 1]]

\* out with bytes at offset.
Overwritten(out, offset, bytes) ==
  [i \in DOMAIN out |->
     IF offset < i /\ i <= offset + Len(bytes) THEN bytes[i - offset] ELSE out[i]]

StrideFits(xsize, ysize, num_channels, bits, stride, out_size) ==
  LET row == num_channels * BytesPerChannel(bits) * xsize
  IN  row <= stride /\ (ysize - 1) * stride + row <= out_size
=============================================================================
