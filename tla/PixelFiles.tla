----------------------------- MODULE PixelFiles -----------------------------
(***************************************************************************)
(* A picture on its way through libjxl: read from a file (SetFromBytes of  *)
(* lib/extras/codec.cc) or given as a decoder of another library fills it  *)
(* in, worked on as a CodecInOut, and written to a file (EncodeToFile).    *)
(* The rows of a colour transform and of the conversion to bytes are done  *)
(* by the threads of a pool, each with buffers of its own.                 *)
(***************************************************************************)
EXTENDS PixelFormats

CONSTANTS
  Sources,         \* [file, ppf, picture, whole]: a file, or else a PackedPixelFile
  Encodings,       \* colour encodings a user may ask for
  Extensions,      \* of the files that are written
  PoolThreads,     \* 0 .. the number of threads - 1
  MaxOperations    \* on one picture: a bound

ASSUME PoolAssumption ==
  IsFiniteSet(PoolThreads) /\ PoolThreads = 0 .. Cardinality(PoolThreads) - 1

\* No encoding calls its colours alpha.
ASSUME EncodingsAssumption == \A encoding \in Encodings : encoding.space # "alpha"

-----------------------------------------------------------------------------
(* What was drawn.  picture tells its size, whether it is gray, has alpha, *)
(* is premultiplied, and the samples at each of its places, channel 3      *)
(* being alpha.                                                            *)

Drawn(picture, c, x, y) == picture.at[y][x][IF picture.gray /\ c < 3 THEN 0 ELSE c]

Samples == [n : Nat, d : Nat \ {0}, p : {0}, a : {NoAlpha}, half : {FALSE}, space : STRING]

IsPicture(picture) ==
  /\ picture.xsize \in Nat \ {0} /\ picture.ysize \in Nat \ {0}
  /\ picture.gray \in BOOLEAN /\ picture.alpha \in BOOLEAN /\ picture.associated \in BOOLEAN
  /\ picture.associated => picture.alpha
  /\ \A y \in 0 .. picture.ysize - 1, x \in 0 .. picture.xsize - 1, c \in 0 .. 3 :
       /\ picture.at[y][x][c] \in Samples
       /\ picture.at[y][x][c].space = "alpha" <=> c = 3

\* The channels that are stored, and which one comes at place k, from 0.
ColorsOf(picture) == IF picture.gray THEN 1 ELSE 3
StoredChannels(picture) == ColorsOf(picture) + (IF picture.alpha THEN 1 ELSE 0)
ChannelAt(picture, k) == IF k < ColorsOf(picture) THEN k ELSE 3

\* These bytes are those of sample s.
Holds(bytes, s, bits, float, little_endian) ==
  IF float THEN bytes = FloatBytes(s, BytesPerChannel(bits), little_endian)
  ELSE \E k \in 0 .. 2 ^ bits - 1 :
         /\ s = Sample(k, 2 ^ bits - 1, s.space)
         /\ bytes = UintBytes(k, BytesPerChannel(bits), little_endian, s.space)

HoldsFrame(picture, frame, bits) ==
  LET width == BytesPerChannel(bits)
      row_size == picture.xsize * StoredChannels(picture) * width
  IN  \A y \in 0 .. picture.ysize - 1, x \in 0 .. picture.xsize - 1,
         k \in 0 .. StoredChannels(picture) - 1 :
        LET at == row_size * y + (x * StoredChannels(picture) + k) * width
        IN  Holds(SubSeq(frame.pixels, at + 1, at + width),
                  Drawn(picture, ChannelAt(picture, k), x, y), bits, frame.format.float,
                  LittleEndian(frame.format))

\* A PackedPixelFile, each of whose frames is the picture, in the encoding it says.
IsPacked(picture, frame, bits) ==
  /\ frame.xsize = picture.xsize /\ frame.ysize = picture.ysize
  /\ frame.format.num_channels = StoredChannels(picture) /\ frame.format.float \in BOOLEAN
  /\ bits \in IF frame.format.float THEN {16, 32} ELSE 1 .. 16
  /\ picture.alpha => frame.extra_channels = <<>>
  /\ HoldsFrame(picture, frame, bits)

\* ExtraChannel
ExtraChannelTypes ==
  {"alpha", "depth", "spot color", "selection mask", "black", "CFA", "thermal", "unknown",
   "optional"}
ExtraInfos == [type : ExtraChannelTypes, bits_per_sample : Nat, alpha_associated : BOOLEAN]

Packs(picture, packed) ==
  /\ packed.bits_per_sample \in Nat /\ packed.alpha_bits \in Nat
  /\ picture.alpha = (packed.alpha_bits # 0)
  /\ packed.alpha_premultiplied = picture.associated
  /\ packed.extra_channels_info \in Seq(ExtraInfos)
  /\ \A k \in DOMAIN packed.extra_channels_info : packed.extra_channels_info[k].type # "alpha"
  /\ DOMAIN packed.frames = 1 .. Len(packed.frames) /\ Len(packed.frames) \in Nat
  /\ \A k \in 1 .. Len(packed.frames) :
       IsPacked(picture, packed.frames[k], FrameBits(packed, packed.frames[k]))
  /\ \A y \in 0 .. picture.ysize - 1, x \in 0 .. picture.xsize - 1, c \in 0 .. 2 :
       picture.at[y][x][c].space = MetadataEncoding(packed).space

\* What decoders of other libraries hand over shows the picture.
ASSUME SourcesAssumption ==
  \A s \in Sources : IsPicture(s.picture) /\ (s.file = <<>> => Packs(s.picture, s.ppf))

\* What the parsers make of a file they read shows the picture.
FilesDecode ==
  \A s \in Sources :
    LET decoded == DecodeBytes(s.file)
    IN  s.file # <<>> /\ decoded.status = "ok" => Packs(s.picture, decoded.ppf)

-----------------------------------------------------------------------------

VARIABLES
  source,
  stage,
  ppf,             \* the PackedPixelFile
  io,              \* the CodecInOut
  operations,
  job,             \* the pool's work
  written          \* the file

pixelVars == <<source, stage, ppf, io, operations, job, written>>

NoPpf == [frames |-> <<>>]
NoIo == [frames |-> <<>>]
NoJob == [kind |-> "none"]
NoSource == [file |-> <<>>, ppf |-> NoPpf, whole |-> FALSE]

GivenAt(at) ==
  /\ stage = at
  /\ ppf = source.ppf
  /\ io = NoIo
  /\ operations = 0
  /\ job = NoJob
  /\ written = <<>>

PixelInit ==
  /\ source \in Sources
  /\ GivenAt(IF source.file = <<>> THEN "packed in" ELSE "file")

\* The bytes are not for the decoders of this module.
NoPixelFile == source = NoSource /\ GivenAt("elsewhere")

ReadAs(decoded) ==
  /\ stage' = IF decoded.status = "ok" THEN "packed in" ELSE "unreadable"
  /\ ppf' = IF decoded.status = "ok" THEN decoded.ppf ELSE ppf

Read ==
  /\ stage = "file"
  /\ ReadAs(DecodeBytes(source.file))
  /\ UNCHANGED <<source, io, operations, job, written>>

ConvertedTo(converted) ==
  /\ stage' = IF converted.status = "ok" THEN "picture" ELSE converted.status
  /\ io' = IF converted.status = "ok" THEN converted.io ELSE io

Convert ==
  /\ stage = "packed in"
  /\ ConvertedTo(ConvertPackedPixelFileToCodecInOut(ppf))
  /\ UNCHANGED <<source, ppf, operations, job, written>>

-----------------------------------------------------------------------------
(* Operations on the picture.                                              *)

Operate ==
  /\ stage = "picture" /\ operations < MaxOperations
  /\ operations' = operations + 1

Premultiply ==
  /\ Operate
  /\ io' = PremultiplyAlpha(io)
  /\ UNCHANGED <<source, stage, ppf, job, written>>

Unpremultiply ==
  /\ Operate
  /\ io' = UnpremultiplyAlpha(io)
  /\ UNCHANGED <<source, stage, ppf, job, written>>

\* Jobs.  buffers: the rows the threads have read; done by a thread: the row it is at.
Idle == [t \in PoolThreads |-> -1]
NoBuffers == [slot \in 0 .. 4 * Cardinality(PoolThreads) - 1 |-> <<>>]

\* for: the file, its codec and format, that the frame is transformed for, if any.
NoFile == [codec |-> "none"]

TransformJob(for, frame, ib, target) ==
  [kind |-> "transform", for |-> for, frame |-> frame, ib |-> ib, target |-> target,
   rows |-> YSize(ib), next |-> 0, at |-> Idle, buffers |-> NoBuffers, ok |-> TRUE]

\* JXL_CHECK: a transform between gray and colour.
TransformTo(for, frame, ib, target) ==
  IF ib.c_current.gray = target.gray
  THEN /\ stage' = "transforming"
       /\ job' = TransformJob(for, frame, ib, target)
  ELSE stage' = "aborted" /\ job' = NoJob

\* CodecInOut::TransformTo begins with the first frame.
Transform ==
  /\ Operate
  /\ \E target \in Encodings : TransformTo(NoFile, 1, io.frames[1], target)
  /\ UNCHANGED <<source, ppf, io, written>>

\* BufSrc.  Mutant: one buffer for all threads.
SourceBufferOfAll(thread) == 0
SourceBuffer(thread) == thread

\* A thread is given the next row, and reads it into its source buffer.
ReadRow(t) ==
  /\ job.kind = "transform" /\ job.at[t] = -1 /\ job.next < job.rows
  /\ job' = [job EXCEPT !.next = @ + 1, !.at[t] = job.next,
                        !.buffers[SourceBuffer(t)] = SourceRow(job.ib, job.next)]
  /\ UNCHANGED <<source, stage, ppf, io, operations, written>>

\* It transforms what is in its buffer, and writes the row.  CMYK needs black.
WriteRow(t) ==
  /\ job.kind = "transform" /\ job.at[t] # -1
  /\ job' =
       [job EXCEPT !.at[t] = -1,
          !.ib.color = WithRow(@, job.at[t],
             TransformedRow(job.buffers[SourceBuffer(t)], job.ib.c_current, job.target))]
  /\ ~(IsCMYK(job.ib.c_current) /\ ~HasBlack(io.m))
  /\ UNCHANGED <<source, stage, ppf, io, operations, written>>

\* The colour management system may fail at any row, the others are still done.
FailRow(t) ==
  /\ job.kind = "transform" /\ job.at[t] # -1
  /\ job' = [job EXCEPT !.at[t] = -1, !.ok = FALSE]
  /\ UNCHANGED <<source, stage, ppf, io, operations, written>>

RowsDone == job.kind # "none" /\ job.next = job.rows /\ job.at = Idle

\* The frame is in its new encoding, or has some of its rows in it.
Transformed ==
  /\ RowsDone /\ job.kind = "transform" /\ job.for = NoFile
  /\ io' = [io EXCEPT !.frames[job.frame] =
              IF job.ok THEN [job.ib EXCEPT !.c_current = job.target] ELSE job.ib]
  /\ CASE ~job.ok -> stage' = "failed" /\ job' = NoJob
       [] job.ok /\ job.frame = Len(io.frames) -> stage' = "picture" /\ job' = NoJob
       [] OTHER -> TransformTo(NoFile, job.frame + 1, io.frames[job.frame + 1], job.target)
  /\ UNCHANGED <<source, ppf, operations, written>>

-----------------------------------------------------------------------------
(* EncodeToFile and Encode.                                                *)

\* ConvertToExternal for a frame in the encoding that is wanted.
StoreJob(frame, target, for, channels, packed) ==
  [kind |-> "store", frame |-> frame, target |-> target, for |-> for,
   bits |-> PackedBits(io.m, for.format), channels |-> channels, packed |-> packed,
   rows |-> packed.ysize, next |-> 0, at |-> Idle, buffers |-> NoBuffers]

\* JXL_CHECK: integers of up to 16 bits.
StartStore(new) ==
  CASE ~IsFloat(new.for.format.data_type) /\ new.bits > 16 -> stage' = "aborted" /\ job' = NoJob
    [] ~StrideFits(new.packed.xsize, new.packed.ysize, Len(new.channels), new.bits,
                   new.packed.stride, Len(new.packed.pixels)) ->
         stage' = "failed" /\ job' = NoJob
    [] OTHER -> stage' = "packing" /\ job' = new

StoreFrame(frame, ib, target, for) ==
  StartStore(StoreJob(frame, target, for,
    UprightChannels(io.m.orientation, ExternalChannels(io.m, ib)),
    NewPackedFrame(OrientedXSize(io.m, ib), OrientedYSize(io.m, ib), FrameFormat(io.m, for.format))))

\* One frame after another; pixels that are elsewhere are transformed in a copy.
PackFrame(frame, target, for) ==
  IF NeedsTransform(io.m, io.frames[frame], target)
  THEN TransformTo(for, frame, io.frames[frame], target)
  ELSE StoreFrame(frame, io.frames[frame], target, for)

Encode ==
  /\ stage = "picture"
  /\ \E extension \in Extensions, target \in Encodings \cup {io.m.color_encoding} :
       IF CodecFromExtension(extension) \in {"PNM", "PGX"}
       THEN /\ ppf' = PackedInfo(io, target)
            /\ PackFrame(1, target,
                 [codec |-> CodecFromExtension(extension),
                  format |-> EncodeFormat(io, CodecFromExtension(extension),
                               BitsForExtension(extension, io.m.bits_per_sample))])
       ELSE stage' = "failed" /\ UNCHANGED <<ppf, job>>
  /\ UNCHANGED <<source, io, operations, written>>

CopyTransformed ==
  /\ RowsDone /\ job.kind = "transform" /\ job.for # NoFile
  /\ IF job.ok
     THEN StoreFrame(job.frame, [job.ib EXCEPT !.c_current = job.target], job.target, job.for)
     ELSE stage' = "failed" /\ job' = NoJob
  /\ UNCHANGED <<source, ppf, io, operations, written>>

\* A thread converts its row, a channel at a time, into rows of the cache.
ConvertRow(t) ==
  LET num_channels == Len(job.channels)
      y == job.next
  IN  /\ job.kind = "store" /\ job.at[t] = -1 /\ job.next < job.rows
      /\ job' = [job EXCEPT !.next = @ + 1, !.at[t] = y,
                   !.buffers = [slot \in DOMAIN @ |->
                     IF \E c \in 0 .. num_channels - 1 : slot = CacheRow(c, t, num_channels)
                     THEN ConvertedRow(
                            job.channels[1 + CHOOSE c \in 0 .. num_channels - 1 :
                                               slot = CacheRow(c, t, num_channels)][y],
                            job.bits, IsFloat(job.for.format.data_type))
                     ELSE @[slot]]]
      /\ UNCHANGED <<source, stage, ppf, io, operations, written>>

\* ... and stores what the cache has, interleaved, where the row belongs.
StoreRow(t) ==
  LET num_channels == Len(job.channels)
      rows == [c \in 1 .. num_channels |-> job.buffers[CacheRow(c - 1, t, num_channels)]]
  IN  /\ job.kind = "store" /\ job.at[t] # -1
      /\ job' = [job EXCEPT !.at[t] = -1,
                   !.packed.pixels =
                     Overwritten(@, job.packed.stride * job.at[t],
                       StoredRow(rows, job.packed.xsize, job.bits, IsFloat(job.for.format.data_type),
                                 LittleEndian(job.for.format)))]
      /\ UNCHANGED <<source, stage, ppf, io, operations, written>>

\* JXL_CHECK: extra channels besides alpha.
FrameStored ==
  /\ RowsDone /\ job.kind = "store"
  /\ IF Len(io.frames[job.frame].extra_channels) > (IF HasAlpha(io.m) THEN 1 ELSE 0)
     THEN stage' = "aborted" /\ job' = NoJob /\ UNCHANGED ppf
     ELSE /\ ppf' = [ppf EXCEPT !.frames = Append(@, job.packed)]
          /\ IF job.frame = Len(io.frames)
             THEN stage' = "packed out" /\ job' = [kind |-> "none", for |-> job.for]
             ELSE PackFrame(job.frame + 1, job.target, job.for)
  /\ UNCHANGED <<source, io, operations, written>>

\* JXL_ASSERT: one bitstream.
Write ==
  /\ stage = "packed out"
  /\ CASE ~Encodes(job.for.codec, ppf) -> stage' = "failed" /\ UNCHANGED written
       [] Len(ppf.frames) # 1 -> stage' = "aborted" /\ UNCHANGED written
       [] OTHER -> stage' = "written" /\ written' = Bitstreams(job.for.codec, ppf)[1]
  /\ UNCHANGED <<source, ppf, io, operations, job>>

PixelNext ==
  \/ Read \/ Convert
  \/ Premultiply \/ Unpremultiply \/ Transform \/ Transformed
  \/ Encode \/ CopyTransformed \/ FrameStored \/ Write
  \/ \E t \in PoolThreads :
       ReadRow(t) \/ WriteRow(t) \/ FailRow(t) \/ ConvertRow(t) \/ StoreRow(t)

-----------------------------------------------------------------------------
(* What is promised of a picture.                                          *)

\* A file is read exactly if it is whole and of a format that is supported:
\* DecodeBytes, whichever comments, line breaks, order of keywords and
\* endianness the header has, and although its pixels may look like whitespace.
ReadsWhatIsWhole ==
  /\ stage = "unreadable" => ~source.whole
  /\ stage \notin {"file", "unreadable", "elsewhere"} => source.whole

\* How often a sample has been multiplied with alpha since it was drawn.
Power(picture, m) ==
  (IF AlphaIsPremultiplied(m) THEN 1 ELSE 0) - (IF picture.associated THEN 1 ELSE 0)

Multiple(s, power, alpha, space) ==
  [s EXCEPT !.space = space, !.p = power,
            !.a = IF power = 0 THEN NoAlpha ELSE <<alpha.n, alpha.d>>]

DrawnRow(picture, power, space, c, y) ==
  [x \in 0 .. picture.xsize - 1 |->
     Multiple(Drawn(picture, c, x, y), power, Drawn(picture, 3, x, y), space)]
DrawnColor(picture, power, space) ==
  [c \in 1 .. 3 |-> [y \in 0 .. picture.ysize - 1 |-> DrawnRow(picture, power, space, c - 1, y)]]
DrawnAlpha(picture) ==
  [y \in 0 .. picture.ysize - 1 |-> [x \in 0 .. picture.xsize - 1 |-> Drawn(picture, 3, x, y)]]

\* A frame shows a picture, in the encoding the frame says it is in.
Shows(picture, m, ib) ==
  /\ ib.c_current.gray = picture.gray
  /\ HasAlpha(m) = picture.alpha
  /\ HasAlpha(m) => Alpha(m, ib) = DrawnAlpha(picture)
  /\ ib.color = DrawnColor(picture, Power(picture, m), ib.c_current.space)

\* Whatever has been done to a picture, each of its samples is the one drawn at
\* its place, in the encoding its frame says it is in, and multiplied with the
\* alpha of its place if and only if the metadata says so; a gray image has the
\* same sample in all planes (ImageBundle: "all planes equal if IsGray()").
PictureAsDrawn ==
  stage = "picture" =>
    \A k \in DOMAIN io.frames : Shows(source.picture, io.m, io.frames[k])

\* The sides of the picture that the first row and the first column are at: EXIF.
FirstRow == <<"top", "top", "bottom", "bottom", "left", "right", "right", "left">>
FirstColumn == <<"left", "right", "right", "left", "top", "top", "bottom", "bottom">>

FromSide(side, distance, size) ==
  IF side \in {"left", "top"} THEN distance ELSE size - 1 - distance

PlaceAcross(o, x, y, width) ==
  IF FirstColumn[o] \in {"left", "right"} THEN FromSide(FirstColumn[o], x, width)
  ELSE FromSide(FirstRow[o], y, width)

PlaceDown(o, x, y, height) ==
  IF FirstRow[o] \in {"top", "bottom"} THEN FromSide(FirstRow[o], y, height)
  ELSE FromSide(FirstColumn[o], x, height)

\* k of mul is nearest to a fraction, or the nearest end.
IsNearest(k, mul, worth) ==
  CASE worth[1] >= worth[2] -> k = mul
    [] worth[1] < worth[2] /\ worth[2] = mul -> k = worth[1]
    [] OTHER -> LET away == k * worth[2] - worth[1] * mul
                IN  2 * away <= worth[2] /\ -worth[2] <= 2 * away

\* A sample that was loaded is s in another space.
Renders(loaded, s, space, bits, float) ==
  LET mul == 2 ^ bits - 1
  IN  /\ loaded.space = IF s.space = "alpha" THEN "alpha" ELSE space
      /\ float => loaded = [s EXCEPT !.space = loaded.space, !.half = bits = 16]
      /\ ~float => IsNearest(IF loaded.d = 1 THEN loaded.n * mul ELSE loaded.n, mul, Worth(s))

\* The container Encode chooses is the one for the bits the picture has: if not,
\* the encoders write the bytes of the container under a header for the bits.
ContainerFits ==
  LET format == job.for.format
      bits == PackedBits(io.m, format)
  IN  /\ BytesPerChannel(bits) * kBitsPerByte = BitsPerChannel(format.data_type)
      /\ IsFloat(format.data_type) = (io.m.bits_per_sample = 32)

\* Every frame that is handed to an encoder shows what the picture shows in the
\* encoding that was asked for, the way EXIF says it is to be seen, its samples
\* rounded to the nearest: whichever thread converts which row, and although
\* the rows pass through buffers that are used again.
FrameUpright ==
  stage = "packed out" /\ ContainerFits =>
    /\ Len(ppf.frames) = Len(io.frames)
    /\ \A k \in DOMAIN ppf.frames :
         LET packed == ppf.frames[k]
             bits == PackedBits(io.m, packed.format)
             float == IsFloat(packed.format.data_type)
             channels == ExternalChannels(io.m, io.frames[k])
         IN  \A c \in DOMAIN channels :
               LET loaded == LoadPlane(packed.pixels, packed.xsize, packed.ysize, Len(channels),
                                       c - 1, bits, float, LittleEndian(packed.format), 0)
               IN  \A y \in 0 .. YSize(io.frames[k]) - 1, x \in 0 .. XSize(io.frames[k]) - 1 :
                     Renders(
                       loaded[PlaceDown(io.m.orientation, x, y, packed.ysize)]
                             [PlaceAcross(io.m.orientation, x, y, packed.xsize)],
                       channels[c][y][x], ppf.color_encoding.space, bits, float)

\* A file that was written reads back as the picture: of sRGB, which is what
\* readers take it for, with straight alpha, and in a container that fits.
WrittenReadsBack ==
  stage = "written" /\ ContainerFits /\ ppf.color_encoding.space = "sRGB"
    /\ ~AlphaIsPremultiplied(io.m) =>
    LET back == DecodeBytes(written)
        again == ConvertPackedPixelFileToCodecInOut(back.ppf)
        bits == io.m.bits_per_sample
    IN  /\ back.status = "ok" /\ again.status = "ok"
        /\ HasAlpha(again.io.m) = HasAlpha(io.m)
        /\ LET ib == again.io.frames[1]
               channels == ExternalChannels(io.m, io.frames[1])
               loaded == ExternalChannels(again.io.m, ib)
           IN  /\ Len(loaded) = Len(channels)
               /\ \A c \in DOMAIN channels, y \in 0 .. io.m.ysize - 1, x \in 0 .. io.m.xsize - 1 :
                    Renders(loaded[c][y][x], channels[c][y][x], "sRGB", bits, bits = 32)
=============================================================================
