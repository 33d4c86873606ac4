---------------------------- MODULE ImageHeaders ----------------------------
(***************************************************************************)
(* The bundles a JPEG XL codestream starts with (lib/jxl/headers.cc,       *)
(* image_metadata.cc, color_encoding_internal.cc): for each its defaults   *)
(* and the items its VisitFields visits, which depend on its fields and on *)
(* the mode of the visitor:                                                *)
(*   "max"      MaxBitsVisitor, which takes every condition to hold        *)
(*   "write"    CanEncodeVisitor, WriteVisitor and AllDefaultVisitor       *)
(*   "read"     ReadVisitor                                                *)
(* A record has the fields of its class.  Enumerators are their numbers.   *)
(***************************************************************************)
EXTENDS Fields

CONSTANTS
  NumWeights,  \* bound: of the three upsampling kernels, 15, 55 and 210 in the code
  NumMatrix    \* bound: of the two bias vectors and the inverse matrix, 3, 4 and 9

Conditional(c, mode) == mode = "max" \/ c

If(c, items) == IF c THEN items ELSE <<>>

AllDefault(items) == AllFieldsDefault(items)

\* A bundle with an all_default field: just that when it is TRUE.  Reading
\* relies on what the bit says, writing finds it out; the bundle that is read
\* into is new, so that SetDefault leaves it as it is.
MaybeDefault(v, mode, items) ==
  LET all_default == IF mode = "read" THEN v.all_default ELSE AllDefault(items)
  IN << Item(BitsCoder(1), "bool", <<"all_default">>, TRUE, all_default) >>
     \o If(Conditional(~all_default, mode), items)

\* Stands for each of the numbers that are the default of a matrix or kernel.
SomeWeight == Float(1, -6, 825173)

-----------------------------------------------------------------------------
(* headers.cc                                                              *)

MulTruncate(multiplicand, ratio) == (multiplicand * ratio[1]) \div ratio[2]

FixedAspectRatios == << <<1, 1>>, <<12, 10>>, <<4, 3>>, <<3, 2>>, <<16, 9>>, <<5, 4>>, <<2, 1>> >>

FindAspectRatio(xsize, ysize) ==
  SelectInSeq(FixedAspectRatios, LAMBDA ratio : xsize = MulTruncate(ysize, ratio))

DefaultSize == [small |-> FALSE, ysize_div8_minus_1 |-> 0, ysize |-> 1, ratio |-> 0,
                xsize_div8_minus_1 |-> 0, xsize |-> 1]

SizeOfYsize(h) == IF h.small THEN (h.ysize_div8_minus_1 + 1) * 8 ELSE h.ysize
SizeOfXsize(h) ==
  IF h.ratio # 0 THEN MulTruncate(SizeOfYsize(h), FixedAspectRatios[h.ratio])
  ELSE IF h.small THEN (h.xsize_div8_minus_1 + 1) * 8 ELSE h.xsize

\* Fields that are not needed keep what they had.
SetSize(h, xsize, ysize) ==
  LET ratio == FindAspectRatio(xsize, ysize)
      InBlocks(n) == n <= 256 /\ n % 8 = 0
      small == InBlocks(ysize) /\ (ratio # 0 \/ InBlocks(xsize))
  IN [h EXCEPT !.ratio = ratio, !.small = small,
               !.ysize_div8_minus_1 = IF small THEN ysize \div 8 - 1 ELSE @,
               !.ysize = IF small THEN @ ELSE ysize,
               !.xsize_div8_minus_1 = IF ratio = 0 /\ small THEN xsize \div 8 - 1 ELSE @,
               !.xsize = IF ratio = 0 /\ ~small THEN xsize ELSE @]

SizeHeader(v, mode) ==
  LET enc == U32Coder(BitsOffset(9, 1), BitsOffset(13, 1), BitsOffset(18, 1), BitsOffset(30, 1))
      d == DefaultSize
  IN << BoolItem("small", d, v) >>
     \o If(Conditional(v.small, mode), << BitsItem(5, "ysize_div8_minus_1", d, v) >>)
     \o If(Conditional(~v.small, mode), << U32Item(enc, "ysize", d, v) >>)
     \o << BitsItem(3, "ratio", d, v) >>
     \o If(Conditional(v.ratio = 0 /\ v.small, mode), << BitsItem(5, "xsize_div8_minus_1", d, v) >>)
     \o If(Conditional(v.ratio = 0 /\ ~v.small, mode), << U32Item(enc, "xsize", d, v) >>)

DefaultPreview == [div8 |-> FALSE, ysize_div8 |-> 1, ysize |-> 1, ratio |-> 0,
                   xsize_div8 |-> 1, xsize |-> 1]

SetPreview(h, xsize, ysize) ==
  LET ratio == FindAspectRatio(xsize, ysize)
      div8 == xsize % 8 = 0 /\ ysize % 8 = 0
  IN [h EXCEPT !.div8 = div8, !.ratio = ratio,
               !.ysize_div8 = IF div8 THEN ysize \div 8 ELSE @,
               !.ysize = IF div8 THEN @ ELSE ysize,
               !.xsize_div8 = IF ratio = 0 /\ div8 THEN xsize \div 8 ELSE @,
               !.xsize = IF ratio = 0 /\ ~div8 THEN xsize ELSE @]

PreviewHeader(v, mode) ==
  LET blocks == U32Coder(Val(16), Val(32), BitsOffset(5, 1), BitsOffset(9, 33))
      pixels == U32Coder(BitsOffset(6, 1), BitsOffset(8, 65), BitsOffset(10, 321), BitsOffset(12, 1345))
      d == DefaultPreview
  IN << BoolItem("div8", d, v) >>
     \o If(Conditional(v.div8, mode), << U32Item(blocks, "ysize_div8", d, v) >>)
     \o If(Conditional(~v.div8, mode), << U32Item(pixels, "ysize", d, v) >>)
     \o << BitsItem(3, "ratio", d, v) >>
     \o If(Conditional(v.ratio = 0 /\ v.div8, mode), << U32Item(blocks, "xsize_div8", d, v) >>)
     \o If(Conditional(v.ratio = 0 /\ ~v.div8, mode), << U32Item(pixels, "xsize", d, v) >>)

DefaultAnimation == [tps_numerator |-> 1, tps_denominator |-> 1, num_loops |-> 0,
                     have_timecodes |-> FALSE]

AnimationHeader(v) ==
  LET d == DefaultAnimation
  IN << U32Item(U32Coder(Val(100), Val(1000), BitsOffset(10, 1), BitsOffset(30, 1)),
                "tps_numerator", d, v),
        U32Item(U32Coder(Val(1), Val(1001), BitsOffset(8, 1), BitsOffset(10, 1)),
                "tps_denominator", d, v),
        U32Item(U32Coder(Val(0), BitsOnly(3), BitsOnly(16), BitsOnly(32)), "num_loops", d, v),
        BoolItem("have_timecodes", d, v) >>

-----------------------------------------------------------------------------
(* color_encoding_internal.cc.  An ICC profile is there or not; CreateICC  *)
(* makes one of the fields of a gray or RGB encoding.                      *)

ColorSpaces == [RGB |-> 0, Gray |-> 1, XYB |-> 2, Unknown |-> 3]
kCustom == 2
kUnknownTF == 2
kGammaMul == 10000000
kMaxGamma == 8192

DefaultXY == [x |-> 0, y |-> 0]

Customxy(v) ==
  LET enc == U32Coder(BitsOnly(19), BitsOffset(19, 524288), BitsOffset(20, 1048576),
                      BitsOffset(21, 2097152))
  IN << FieldItem(enc, "signed", "x", DefaultXY, v), FieldItem(enc, "signed", "y", DefaultXY, v) >>

DefaultTransferFunction == [have_gamma |-> FALSE, gamma |-> kGammaMul, transfer_function |-> 13]

\* The color space is not XYB, which cannot be visited without an ICC profile.
CustomTransferFunction(v, mode) ==
  LET d == DefaultTransferFunction
  IN << BoolItem("have_gamma", d, v) >>
     \o If(Conditional(v.have_gamma, mode),
           << BitsItem(24, "gamma", d, v),
              Check(v.gamma <= kGammaMul /\ v.gamma > (kGammaMul - 1) \div kMaxGamma) >>)
     \o If(Conditional(~v.have_gamma, mode),
           EnumItems("transfer_function", {1, kUnknownTF, 8, 13, 16, 17, 18}, d, v))

DefaultColorEncoding ==
  [all_default |-> TRUE, want_icc |-> FALSE, icc |-> TRUE, color_space |-> ColorSpaces.RGB,
   white_point |-> 1, white |-> DefaultXY, primaries |-> 1, red |-> DefaultXY,
   green |-> DefaultXY, blue |-> DefaultXY, tf |-> DefaultTransferFunction,
   rendering_intent |-> 1]

KnownEncoding(v) ==
  /\ v.color_space \in {ColorSpaces.RGB, ColorSpaces.Gray}
  /\ v.tf.have_gamma \/ v.tf.transfer_function # kUnknownTF

WhitePointItems(d, v, mode) ==
  EnumItems("white_point", {1, kCustom, 10, 11}, d, v)
  \o If(Conditional(v.white_point = kCustom, mode), VisitNested(<<"white">>, Customxy(v.white)))

PrimariesItems(d, v, mode) ==
  EnumItems("primaries", {1, kCustom, 9, 11}, d, v)
  \o If(Conditional(v.primaries = kCustom, mode),
        FlattenSeq([i \in 1..3 |-> LET c == <<"red", "green", "blue">>[i]
                                   IN VisitNested(<<c>>, Customxy(v[c]))]))

ColorEncodingItems(d, v, mode) ==
  << BoolItem("want_icc", d, v) >>
  \o EnumItems("color_space", 0..3, d, v)
  \o If(Conditional(~v.want_icc, mode),
        If(Conditional(v.color_space # ColorSpaces.XYB, mode), WhitePointItems(d, v, mode))
        \o If(Conditional(v.color_space \notin {ColorSpaces.Gray, ColorSpaces.XYB}, mode),
              PrimariesItems(d, v, mode))
        \o VisitNested(<<"tf">>, CustomTransferFunction(v.tf, mode))
        \o EnumItems("rendering_intent", 0..3, d, v)
        \o << Check(KnownEncoding(v)) >>)
  \o If(~(v.want_icc /\ mode = "read"), << Check(v.icc) >>)

ColorEncoding(v, mode) ==
  MaybeDefault(v, mode, ColorEncodingItems(DefaultColorEncoding, v, mode))

-----------------------------------------------------------------------------
(* image_metadata.cc                                                       *)

DefaultBitDepth == [floating_point_sample |-> FALSE, bits_per_sample |-> 8,
                    exponent_bits_per_sample |-> 0]

FloatDefaults == [DefaultBitDepth EXCEPT !.bits_per_sample = 32, !.exponent_bits_per_sample = 8]

BitDepth(v) ==
  LET d == DefaultBitDepth
      mantissa_bits == v.bits_per_sample - v.exponent_bits_per_sample - 1
  IN << BoolItem("floating_point_sample", d, v) >>
     \o IF ~v.floating_point_sample
        THEN << U32Item(U32Coder(Val(8), Val(10), Val(12), BitsOffset(6, 1)),
                        "bits_per_sample", d, v),
                Assign(<<"exponent_bits_per_sample">>, 0), Check(v.bits_per_sample <= 31) >>
        ELSE << U32Item(U32Coder(Val(32), Val(16), Val(24), BitsOffset(6, 1)),
                        "bits_per_sample", FloatDefaults, v),
                FieldItem(BitsCoder(4), "minus1", "exponent_bits_per_sample", FloatDefaults, v),
                Check(v.exponent_bits_per_sample \in 2..8 /\ mantissa_bits \in 2..23) >>

DefaultOpsinInverseMatrix ==
  [all_default |-> TRUE,
   inverse_matrix |-> [i \in 1..NumMatrix[3] |-> SomeWeight],
   opsin_biases |-> [i \in 1..NumMatrix[1] |-> SomeWeight],
   quant_biases |-> [i \in 1..NumMatrix[2] |-> SomeWeight]]

OpsinInverseMatrix(v, mode) ==
  LET d == DefaultOpsinInverseMatrix
  IN MaybeDefault(v, mode, F16Items("inverse_matrix", d, v) \o F16Items("opsin_biases", d, v)
                           \o F16Items("quant_biases", d, v))

DefaultCustomTransformData ==
  [nonserialized_xyb_encoded |-> FALSE, all_default |-> TRUE,
   opsin_inverse_matrix |-> DefaultOpsinInverseMatrix, custom_weights_mask |-> 0,
   upsampling2_weights |-> [i \in 1..NumWeights[1] |-> SomeWeight],
   upsampling4_weights |-> [i \in 1..NumWeights[2] |-> SomeWeight],
   upsampling8_weights |-> [i \in 1..NumWeights[3] |-> SomeWeight]]

CustomTransformItems(d, v, mode) ==
  LET Kernel(bit, name) ==
        If(Conditional(Bit(v.custom_weights_mask, bit) = 1, mode), F16Items(name, d, v))
  IN If(Conditional(v.nonserialized_xyb_encoded, mode),
        VisitNested(<<"opsin_inverse_matrix">>, OpsinInverseMatrix(v.opsin_inverse_matrix, mode)))
     \o << BitsItem(3, "custom_weights_mask", d, v) >>
     \o Kernel(0, "upsampling2_weights") \o Kernel(1, "upsampling4_weights")
     \o Kernel(2, "upsampling8_weights")

CustomTransformData(v, mode) ==
  MaybeDefault(v, mode, CustomTransformItems(DefaultCustomTransformData, v, mode))

kAlpha == 0
kSpotColor == 2
kCFA == 5
kUnknownChannel == 15
kOptional == 16

DefaultExtraChannel ==
  [all_default |-> TRUE, type |-> kAlpha, bit_depth |-> DefaultBitDepth, dim_shift |-> 0,
   name |-> <<>>, alpha_associated |-> FALSE, spot_color |-> [i \in 1..4 |-> Zero],
   cfa_channel |-> 1]

SequenceItem(enc, name, fresh, v) ==
  << Item(enc, "sequence", <<name>>, <<>>, v[name]) @@ [fresh |-> fresh] >>

\* A character is a number.
NameString(v) ==
  SequenceItem(U32Coder(Val(0), BitsOnly(4), BitsOffset(5, 16), BitsOffset(10, 48)), "name", 0, v)
  \o [i \in DOMAIN v.name |-> Item(BitsCoder(8), "plain", <<"name", i>>, 0, v.name[i])]

ExtraChannelItems(d, v, mode) ==
  EnumItems("type", 0..6 \cup {kUnknownChannel, kOptional}, d, v)
  \o VisitNested(<<"bit_depth">>, BitDepth(v.bit_depth))
  \o << U32Item(U32Coder(Val(0), Val(3), Val(4), BitsOffset(3, 1)), "dim_shift", d, v),
        Check(v.dim_shift <= 3) >>
  \o NameString(v)
  \o If(Conditional(v.type = kAlpha, mode), << BoolItem("alpha_associated", d, v) >>)
  \o If(Conditional(v.type = kSpotColor, mode), F16Items("spot_color", d, v))
  \o If(Conditional(v.type = kCFA, mode),
        << U32Item(U32Coder(Val(1), BitsOnly(2), BitsOffset(4, 3), BitsOffset(8, 19)),
                   "cfa_channel", d, v) >>)
  \o << Check(v.type # kUnknownChannel) >>

ExtraChannelInfo(v, mode) ==
  MaybeDefault(v, mode, ExtraChannelItems(DefaultExtraChannel, v, mode))

DefaultToneMapping ==
  [all_default |-> TRUE, intensity_target |-> Float(0, 7, 127 * 2^16), min_nits |-> Zero,
   relative_to_max_display |-> FALSE, linear_below |-> Zero]

ToneMappingItems(d, v) ==
  << F16Item("intensity_target", d, v),
     Check(~Negative(v.intensity_target) /\ ~IsZero(v.intensity_target)),
     F16Item("min_nits", d, v),
     Check(~Negative(v.min_nits) /\ ~Above(v.min_nits, v.intensity_target)),
     BoolItem("relative_to_max_display", d, v),
     F16Item("linear_below", d, v),
     Check(/\ ~Negative(v.linear_below)
           /\ v.relative_to_max_display => ~Above(v.linear_below, One)) >>

ToneMapping(v, mode) == MaybeDefault(v, mode, ToneMappingItems(DefaultToneMapping, v))

\* extra_fields is a local variable of VisitFields.  payload is what a later
\* version of the format has behind extensions, fields of so many bits each: its
\* writer visits them.  The flag to parse basic information only is never set.
DefaultImageMetadata ==
  [all_default |-> TRUE, extra_fields |-> FALSE, orientation |-> 1,
   have_intrinsic_size |-> FALSE, intrinsic_size |-> DefaultSize,
   have_preview |-> FALSE, preview_size |-> DefaultPreview,
   have_animation |-> FALSE, animation |-> DefaultAnimation,
   bit_depth |-> DefaultBitDepth, modular_16_bit_buffer_sufficient |-> TRUE,
   extra_channel_info |-> <<>>, xyb_encoded |-> TRUE,
   color_encoding |-> DefaultColorEncoding, tone_mapping |-> DefaultToneMapping,
   extensions |-> 0, payload |-> <<>>]

\* Mutant: an intrinsic size alone does not count.
ExtraButSize(v, mode) ==
  IF mode = "read" THEN v.extra_fields
  ELSE \/ v.orientation # 1 \/ v.have_preview \/ v.have_animation
       \/ ~AllDefault(ToneMapping(v.tone_mapping, "write"))
HasExtraFields(v, mode) ==
  IF mode = "read" THEN v.extra_fields
  ELSE \/ v.orientation # 1 \/ v.have_preview \/ v.have_animation \/ v.have_intrinsic_size
       \/ ~AllDefault(ToneMapping(v.tone_mapping, "write"))

ExtraFields(d, v, mode) ==
  LET Known(have, name, items) ==
        << BoolItem(have, d, v) >> \o If(Conditional(v[have], mode), VisitNested(<<name>>, items))
  IN << FieldItem(BitsCoder(3), "minus1", "orientation", d, v) >>
     \o Known("have_intrinsic_size", "intrinsic_size", SizeHeader(v.intrinsic_size, mode))
     \o Known("have_preview", "preview_size", PreviewHeader(v.preview_size, mode))
     \o Known("have_animation", "animation", AnimationHeader(v.animation))

NoExtraFields ==
  << Assign(<<"orientation">>, 1), Assign(<<"have_intrinsic_size">>, FALSE),
     Assign(<<"have_preview">>, FALSE), Assign(<<"have_animation">>, FALSE) >>

ExtraChannels(v, mode) ==
  SequenceItem(U32Coder(Val(0), Val(1), BitsOffset(4, 2), BitsOffset(12, 1)),
               "extra_channel_info", DefaultExtraChannel, v)
  \o FlattenSeq([i \in DOMAIN v.extra_channel_info |->
                   VisitNested(<<"extra_channel_info", i>>,
                               ExtraChannelInfo(v.extra_channel_info[i], mode))])

Payload(v) ==
  [i \in DOMAIN v.payload |-> Item(BitsCoder(v.payload[i]), "plain", <<"payload">>, 0, 1)]

ImageMetadataItems(d, v, extra_fields, mode) ==
  << Item(BitsCoder(1), "bool", <<"extra_fields">>, FALSE, extra_fields) >>
  \o (IF Conditional(extra_fields, mode) THEN ExtraFields(d, v, mode) ELSE NoExtraFields)
  \o VisitNested(<<"bit_depth">>, BitDepth(v.bit_depth))
  \o << BoolItem("modular_16_bit_buffer_sufficient", d, v) >>
  \o ExtraChannels(v, mode)
  \o << BoolItem("xyb_encoded", d, v) >>
  \o VisitNested(<<"color_encoding">>, ColorEncoding(v.color_encoding, mode))
  \o If(Conditional(extra_fields, mode),
        VisitNested(<<"tone_mapping">>, ToneMapping(v.tone_mapping, mode)))
  \o << BeginExtensions(d, v) >>
  \o If(mode = "write" /\ v.extensions # 0, Payload(v))
  \o << EndExtensions >>

ImageMetadata(v, mode) ==
  MaybeDefault(v, mode,
               ImageMetadataItems(DefaultImageMetadata, v, HasExtraFields(v, mode), mode))

IsAlpha(channel) == channel.type = kAlpha

SetAlphaBits(v, bits, alpha_is_premultiplied) ==
  LET channels == v.extra_channel_info
      first == SelectInSeq(channels, IsAlpha)
      fresh == [DefaultExtraChannel EXCEPT !.bit_depth.bits_per_sample = bits,
                                           !.alpha_associated = alpha_is_premultiplied]
      changed == [channels EXCEPT ![first].bit_depth = [DefaultBitDepth EXCEPT !.bits_per_sample = bits],
                                  ![first].alpha_associated = alpha_is_premultiplied]
  IN [v EXCEPT !.modular_16_bit_buffer_sufficient = @ /\ bits <= 12,
               !.extra_channel_info =
                  IF bits = 0 THEN SelectSeq(channels, LAMBDA c : ~IsAlpha(c))
                  ELSE IF first = 0 THEN <<fresh>> \o channels ELSE changed]

-----------------------------------------------------------------------------
Default(kind) ==
  CASE kind = "SizeHeader" -> DefaultSize
    [] kind = "ImageMetadata" -> DefaultImageMetadata
    [] kind = "CustomTransformData" -> DefaultCustomTransformData

VisitFields(kind, v, mode) ==
  CASE kind = "SizeHeader" -> SizeHeader(v, mode)
    [] kind = "ImageMetadata" -> ImageMetadata(v, mode)
    [] kind = "CustomTransformData" -> CustomTransformData(v, mode)
=============================================================================
