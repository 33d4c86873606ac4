----------------------------- MODULE ImageBundle -----------------------------
(***************************************************************************)
(* Pictures in memory: the PackedPixelFile a decoder fills (lib/extras/    *)
(* packed_image.h), the CodecInOut with its ImageBundles that the metric   *)
(* works on (lib/jxl/codec_in_out.h, image_bundle.cc), and the way from    *)
(* one to the other and back (lib/extras/packed_image_convert.cc).         *)
(*                                                                         *)
(* A colour encoding is [gray, space].  What a colour management system    *)
(* does to a sample in space s is to put it into another one; what it does *)
(* to a sample that is elsewhere is of no use.                             *)
(***************************************************************************)
EXTENDS ExternalImage

CodingOf(gray, space) == [gray |-> gray, space |-> space]
ColorChannels(encoding) == IF encoding.gray THEN 1 ELSE 3
IsCMYK(encoding) == encoding.space = "CMYK"

-----------------------------------------------------------------------------
(* PackedImage.                                                            *)

BitsPerChannel(data_type) ==
  CASE data_type = "uint8" -> 8 [] data_type = "uint16" -> 16
    [] data_type = "float" -> 32 [] data_type = "float16" -> 16

IsFloat(data_type) == data_type \in {"float", "float16"}

\* JxlPixelFormat; float is there for ConvertFromExternal.
PixelFormat(num_channels, data_type, endianness) ==
  [num_channels |-> num_channels, data_type |-> data_type, endianness |-> endianness,
   align |-> 0, float |-> IsFloat(data_type)]

PixelStride(format) == (BitsPerChannel(format.data_type) * format.num_channels) \div kBitsPerByte

CalcStride(format, xsize) ==
  LET stride == xsize * PixelStride(format)
  IN  IF format.align > 1 THEN RoundUpDiv(stride, format.align) * format.align ELSE stride

\* malloc does not clear pixels.
NewPackedFrame(xsize, ysize, format) ==
  [xsize |-> xsize, ysize |-> ysize, format |-> format, stride |-> CalcStride(format, xsize),
   pixels |-> [i \in 1 .. ysize * CalcStride(format, xsize) |-> Unwritten],
   duration |-> 0, extra_channels |-> <<>>]

\* PackedPixelFile(), with the defaults DecodeBytes sets.
NewPackedPixelFile ==
  [xsize |-> 0, ysize |-> 0, bits_per_sample |-> 8, exponent_bits_per_sample |-> 0,
   uses_original_profile |-> TRUE, orientation |-> 1, num_color_channels |-> 3,
   num_extra_channels |-> 0, extra_channels_info |-> <<>>,
   alpha_bits |-> 0, alpha_exponent_bits |-> 0,
   alpha_premultiplied |-> FALSE, have_animation |-> FALSE,
   icc |-> "none", color_encoding |-> CodingOf(FALSE, "unset"), frames |-> <<>>]

-----------------------------------------------------------------------------
(* ImageMetadata and ImageBundle.  An extra channel whose image is empty   *)
(* is <<>>.                                                                *)

\* The first extra channel of a type, or 0.
Find(m, type) == SelectInSeq(m.extra_channel_info, LAMBDA info : info.type = type)

HasAlpha(m) == Find(m, "alpha") # 0
HasBlack(m) == Find(m, "black") # 0

GetAlphaBits(m) == IF HasAlpha(m) THEN m.extra_channel_info[Find(m, "alpha")].bits_per_sample ELSE 0
AlphaIsPremultiplied(m) == HasAlpha(m) /\ m.extra_channel_info[Find(m, "alpha")].alpha_associated

ExtraChannelInfo(type, bits, associated) ==
  [type |-> type, bits_per_sample |-> bits, alpha_associated |-> associated]

\* SetAlphaBits of new metadata: alpha comes first.
AlphaInfo(bits, premultiplied) ==
  IF bits = 0 THEN <<>> ELSE <<ExtraChannelInfo("alpha", bits, premultiplied)>>

NewBundle(color, c_current, extra_channels, duration) ==
  [color |-> color, c_current |-> c_current, extra_channels |-> extra_channels,
   duration |-> duration]

Alpha(m, ib) == ib.extra_channels[Find(m, "alpha")]

XSize(ib) == Columns(ib.color[1])
YSize(ib) == Rows(ib.color[1])

OrientedXSize(m, ib) == IF m.orientation > 4 THEN YSize(ib) ELSE XSize(ib)
OrientedYSize(m, ib) == IF m.orientation > 4 THEN XSize(ib) ELSE YSize(ib)

\* The first frame that is shown for any time, or else the last.
LastStillFrame(frames) ==
  LET shown == SelectInSeq(frames, LAMBDA ib : ib.duration > 0)
  IN  IF shown = 0 THEN Len(frames) ELSE shown

Main(io) == io.frames[LastStillFrame(io.frames)]

\* lib/jxl/luminance.cc
DefaultIntensityTarget(space) ==
  CASE space = "PQ" -> 10000 [] space = "HLG" -> 1000 [] OTHER -> 255

-----------------------------------------------------------------------------
(* ConvertPackedPixelFileToCodecInOut.  A result has a status: "ok",       *)
(* "failed", or "aborted" by a JXL_CHECK or JXL_ASSERT.                    *)

\* An ICC profile that cannot be used is replaced by sRGB.
MetadataEncoding(ppf) ==
  CASE ppf.icc = "none" -> ppf.color_encoding
    [] ppf.icc = "broken" -> CodingOf(ppf.num_color_channels = 1, "sRGB")
    [] OTHER -> CodingOf(ppf.icc = "gray", IF ppf.icc = "cmyk" THEN "CMYK" ELSE "icc")

MetadataOf(ppf, encoding) ==
  [xsize |-> ppf.xsize, ysize |-> ppf.ysize,
   bits_per_sample |-> ppf.bits_per_sample,
   exponent_bits_per_sample |-> ppf.exponent_bits_per_sample,
   extra_channel_info |->
     AlphaInfo(ppf.alpha_bits, ppf.alpha_premultiplied) \o ppf.extra_channels_info,
   xyb_encoded |-> ~ppf.uses_original_profile, orientation |-> ppf.orientation,
   have_animation |-> ppf.have_animation, color_encoding |-> encoding,
   intensity_target |-> DefaultIntensityTarget(encoding.space)]

ConvertedMetadata(ppf) == MetadataOf(ppf, MetadataEncoding(ppf))

AssertsHold(ppf) ==
  /\ ppf.frames # <<>>
  /\ ppf.alpha_bits # 0 => /\ ppf.alpha_bits = ppf.bits_per_sample
                           /\ ppf.alpha_exponent_bits = ppf.exponent_bits_per_sample
  /\ ppf.num_color_channels \in {1, 3}
  /\ ppf.orientation \in 1 .. 8
  /\ Len(ppf.frames) = 1 \/ ppf.have_animation
  /\ ppf.xsize # 0 /\ ppf.ysize # 0   \* SetSize

GrayMatchesChannels(m, frame) == m.color_encoding.gray = (frame.format.num_channels <= 2)

FrameBits(ppf, frame) ==
  IF frame.format.float THEN BitsPerChannel(frame.format.data_type) ELSE ppf.bits_per_sample

\* BufferToImageF.
ExtraPlane(image) ==
  LoadPlane(image.pixels, image.xsize, image.ysize, 1, 0, BitsPerChannel(image.format.data_type),
            image.format.float, LittleEndian(image.format), image.format.align)

\* The extra channels of the file go to the first places there are, whatever is
\* there already.
ExtraChannels(m, frame, alpha) ==
  [k \in DOMAIN m.extra_channel_info |->
     IF k \in DOMAIN frame.extra_channels THEN ExtraPlane(frame.extra_channels[k])
     ELSE IF k \in DOMAIN alpha THEN alpha[k] ELSE <<>>]

FrameConverts(ppf, m, frame, bits) ==
  CanConvert(frame.pixels, frame.xsize, frame.ysize, [frame.format EXCEPT !.align = 0],
             ColorChannels(m.color_encoding), bits)

FromExternal(m, frame, format, bits, duration) ==
  NewBundle(
    ColorPlanes(frame.pixels, frame.xsize, frame.ysize, format, ColorChannels(m.color_encoding),
                bits),
    m.color_encoding,
    ExtraChannels(m, frame,
      AlphaPlanes(frame.pixels, frame.xsize, frame.ysize, format, HasAlpha(m), bits)),
    duration)

ConvertPackedFrameToImageBundle(ppf, m, frame) ==
  FromExternal(m, frame, [frame.format EXCEPT !.align = 0], FrameBits(ppf, frame),
               IF ppf.have_animation THEN frame.duration ELSE 0)

ConvertedWith(ppf, m) ==
  CASE ~AssertsHold(ppf) -> [status |-> "aborted"]
    [] ppf.icc \in {"gray", "rgb", "cmyk"} /\ m.color_encoding.gray # (ppf.num_color_channels = 1) ->
         [status |-> "failed"]
    [] \E k \in DOMAIN ppf.frames : ~GrayMatchesChannels(m, ppf.frames[k]) ->
         [status |-> "aborted"]
    [] \E k \in DOMAIN ppf.frames :
         ~FrameConverts(ppf, m, ppf.frames[k], FrameBits(ppf, ppf.frames[k])) ->
         [status |-> "failed"]
    [] OTHER ->
         [status |-> "ok",
          io |-> [m |-> m,
                  frames |-> [k \in DOMAIN ppf.frames |->
                    ConvertPackedFrameToImageBundle(ppf, m, ppf.frames[k])]]]

ConvertPackedPixelFileToCodecInOut(ppf) == ConvertedWith(ppf, ConvertedMetadata(ppf))

-----------------------------------------------------------------------------
(* PremultiplyAlpha and UnpremultiplyAlpha: of every frame, and only when  *)
(* alpha is not, or is, associated.  kSmallAlpha stands in for an alpha of *)
(* zero, so that the second undoes the first.                              *)

MultipliedRow(row, alpha, power) ==
  [x \in DOMAIN row |->
     [row[x] EXCEPT !.p = @ + power,
                    !.a = IF row[x].p + power = 0 THEN NoAlpha ELSE <<alpha[x].n, alpha[x].d>>]]

Multiplied(ib, alpha, power) ==
  [ib EXCEPT !.color =
     [c \in 1 .. 3 |-> [y \in DOMAIN ib.color[c] |-> MultipliedRow(ib.color[c][y], alpha[y], power)]]]

WithAlphaAssociated(io, associated, power) ==
  [io EXCEPT !.frames = [k \in DOMAIN io.frames |->
                           Multiplied(io.frames[k], Alpha(io.m, io.frames[k]), power)],
             !.m.extra_channel_info[Find(io.m, "alpha")].alpha_associated = associated]

PremultiplyAlpha(io) ==
  IF ~HasAlpha(io.m) \/ AlphaIsPremultiplied(io.m) THEN io ELSE WithAlphaAssociated(io, TRUE, 1)

UnpremultiplyAlpha(io) ==
  IF ~AlphaIsPremultiplied(io.m) THEN io ELSE WithAlphaAssociated(io, FALSE, -1)

-----------------------------------------------------------------------------
(* Colour transforms (CopyToT of lib/jxl/enc_image_bundle.cc): a row at a  *)
(* time through the buffers of a thread.                                   *)

InSpace(s, from, to) == [s EXCEPT !.space = IF s.space = from THEN to ELSE "none"]

\* Interleaved into the source buffer; a gray image gives its first plane.
SourceRow(ib, y) ==
  [c \in 1 .. ColorChannels(ib.c_current) |-> ib.color[c][y]]

\* Black is an input of its own.  Nothing is done to alpha.
TransformedRow(rows, from, to) ==
  [c \in 1 .. 3 |->
     LET row == rows[IF Len(rows) = 1 THEN 1 ELSE c]
     IN  [x \in DOMAIN row |-> InSpace(row[x], from.space, to.space)]]

WithRow(color, y, rows) == [c \in 1 .. 3 |-> [color[c] EXCEPT ![y] = rows[c]]]

\* TransformIfNeeded: pixels that are in the desired encoding are left alone.
NeedsTransform(m, ib, c_desired) == ib.c_current # c_desired \/ HasBlack(m)

-----------------------------------------------------------------------------
(* ConvertCodecInOutToPackedPixelFile, but for its loop over the frames.   *)

PackedInfo(io, c_desired) ==
  [NewPackedPixelFile EXCEPT
     !.xsize = io.m.xsize, !.ysize = io.m.ysize,
     !.bits_per_sample = io.m.bits_per_sample,
     !.exponent_bits_per_sample = io.m.exponent_bits_per_sample,
     !.alpha_bits = GetAlphaBits(io.m),
     !.alpha_premultiplied = AlphaIsPremultiplied(io.m),
     !.uses_original_profile = ~io.m.xyb_encoded,
     !.orientation = io.m.orientation,
     !.num_color_channels = ColorChannels(io.m.color_encoding),
     !.have_animation = io.m.have_animation,
     !.color_encoding = c_desired]

FrameFormat(m, format) ==
  [format EXCEPT !.num_channels = ColorChannels(m.color_encoding) + (IF HasAlpha(m) THEN 1 ELSE 0)]

PackedBits(m, format) ==
  IF IsFloat(format.data_type) THEN BitsPerChannel(format.data_type) ELSE m.bits_per_sample

\* ConvertToExternal: gray takes the first plane, and alpha comes last.
ExternalChannels(m, ib) ==
  SubSeq(ib.color, 1, ColorChannels(m.color_encoding)) \o (IF HasAlpha(m) THEN <<Alpha(m, ib)>> ELSE <<>>)

UprightChannels(orientation, channels) ==
  IF orientation = 1 THEN channels
  ELSE [c \in DOMAIN channels |-> UndoOrientation(orientation, channels[c])]
=============================================================================
