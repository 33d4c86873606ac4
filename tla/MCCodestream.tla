---------------------------- MODULE MCCodestream ----------------------------
(* Bundles that between them visit every field and every distribution of   *)
(* bits but the widest, in sequences of up to three.  A field that others  *)
(* make useless has its default, as after a read.                          *)
EXTENDS Codestream

MCNumWeights == <<2, 1, 1>>
MCNumMatrix == <<1, 1, 2>>

SizeOf(x, y) ==
  [kind |-> "SizeHeader", v |-> SetSize(DefaultSize, x, y), xsize |-> x, ysize |-> y]
Metadata(v) == [kind |-> "ImageMetadata", v |-> v]
Transform(v) == [kind |-> "CustomTransformData", v |-> v]

M == DefaultImageMetadata
T == DefaultCustomTransformData
Preview(x, y) ==
  [M EXCEPT !.have_preview = TRUE, !.preview_size = SetPreview(DefaultPreview, x, y)]
Channel(type) == [DefaultExtraChannel EXCEPT !.type = type]
WithChannels(channels) == [M EXCEPT !.extra_channel_info = channels]

Sizes == { <<8, 8>>, <<1, 1>>, <<256, 256>>, <<264, 8>>, <<24, 200>>, <<640, 480>>,
           <<500, 606>>, <<512, 513>>, <<9000, 301>>, <<300000, 2>> }

Depths == { [floating_point_sample |-> TRUE, bits_per_sample |-> 32, exponent_bits_per_sample |-> 8],
            [floating_point_sample |-> TRUE, bits_per_sample |-> 16, exponent_bits_per_sample |-> 5],
            [DefaultBitDepth EXCEPT !.bits_per_sample = 16] }

Half == Float(0, -1, 0)
Tiny == Float(0, -21, 5)        \* less than a millionth
Small == Float(0, -17, 12345)   \* not a normal number of 16 bits
Odd == Float(1, 3, 8388607)     \* loses bits of its mantissa

Encodings ==
  { [DefaultColorEncoding EXCEPT !.want_icc = TRUE, !.color_space = ColorSpaces.XYB],
    [DefaultColorEncoding EXCEPT !.color_space = ColorSpaces.Gray, !.white_point = 10],
    [DefaultColorEncoding EXCEPT !.tf.have_gamma = TRUE, !.tf.gamma = 4545455],
    [DefaultColorEncoding EXCEPT !.white_point = kCustom, !.white = [x |-> 312700, y |-> 329000],
                                 !.primaries = kCustom, !.red = [x |-> 640000, y |-> -330000],
                                 !.green = [x |-> -1, y |-> 1048577], !.blue = [x |-> 0, y |-> 262144]],
    [DefaultColorEncoding EXCEPT !.primaries = 9, !.tf.transfer_function = 18, !.rendering_intent = 3] }

ToneMappings ==
  { [DefaultToneMapping EXCEPT !.intensity_target = Float(0, 13, 1851392)],
    [DefaultToneMapping EXCEPT !.min_nits = Tiny],
    [DefaultToneMapping EXCEPT !.min_nits = Small, !.relative_to_max_display = TRUE,
                               !.linear_below = Half] }

Channels ==
  { WithChannels(<< [Channel(4) EXCEPT !.name = <<116, 101, 115, 116, 75>>] >>),
    WithChannels(<< [Channel(kSpotColor) EXCEPT !.spot_color = <<Half, One, Odd, Zero>>],
                    DefaultExtraChannel >>),
    WithChannels(<< [Channel(kCFA) EXCEPT !.cfa_channel = 7, !.dim_shift = 2] >>),
    WithChannels(<< Channel(kOptional), [Channel(1) EXCEPT !.name = [i \in 1..17 |-> 90 + i]] >>),
    SetAlphaBits(M, 8, FALSE), SetAlphaBits(M, 16, TRUE),
    SetAlphaBits(WithChannels(<<Channel(4), DefaultExtraChannel, DefaultExtraChannel>>), 10, TRUE),
    SetAlphaBits(WithChannels(<<DefaultExtraChannel, Channel(4), DefaultExtraChannel>>), 0, FALSE) }

Extended(extensions, payload, v) == [v EXCEPT !.extensions = extensions, !.payload = payload]

Metadatas ==
  { M, [M EXCEPT !.orientation = 6, !.xyb_encoded = FALSE],
    [M EXCEPT !.have_intrinsic_size = TRUE, !.intrinsic_size = SizeOf(24, 200).v],
    Preview(5, 7), Preview(128, 128), Preview(400, 296), Preview(1000, 1350),
    [M EXCEPT !.have_animation = TRUE, !.animation =
       [tps_numerator |-> 24000, tps_denominator |-> 1001, num_loops |-> 5, have_timecodes |-> TRUE]],
    [M EXCEPT !.orientation = 2],
    Extended(1, <<>>, M), Extended(1, <<7>>, M),
    Extended(5, <<1, 1, 28>>, [M EXCEPT !.orientation = 8]),
    \* Ends at a byte.
    Extended(300, [i \in 1..12 |-> IF i = 1 THEN 24 ELSE 25], SetAlphaBits(M, 16, FALSE)) }
  \cup { [M EXCEPT !.bit_depth = depth, !.modular_16_bit_buffer_sufficient = FALSE] : depth \in Depths }
  \cup { [M EXCEPT !.color_encoding = encoding] : encoding \in Encodings }
  \cup { [M EXCEPT !.tone_mapping = tone_mapping] : tone_mapping \in ToneMappings }
  \cup Channels

Transforms ==
  { T, [T EXCEPT !.custom_weights_mask = 5],
    [T EXCEPT !.custom_weights_mask = 3, !.upsampling2_weights = <<Half, Odd>>],
    [T EXCEPT !.nonserialized_xyb_encoded = TRUE, !.opsin_inverse_matrix.quant_biases[1] = Half] }

WithTransform(first, m, t) ==
  <<SizeOf(first[1], first[2]), Metadata(m),
    Transform([t EXCEPT !.nonserialized_xyb_encoded = m.xyb_encoded])>>

MCCodestreams ==
  { WithTransform(s, M, T) : s \in Sizes }
  \cup { WithTransform(<<500, 606>>, m, [T EXCEPT !.custom_weights_mask = 2]) : m \in Metadatas }
  \cup { <<Transform(t)>> : t \in Transforms }

ASSUME EachCanBeEncoded ==
  \A codestream \in MCCodestreams :
    \A i \in DOMAIN codestream : CanEncodeItems(WriteItems(codestream[i]))
=============================================================================
