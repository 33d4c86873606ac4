--------------------------- MODULE ColorTransforms ---------------------------
(***************************************************************************)
(* Transforms between two profiles: ColorSpaceTransform                    *)
(* (lib/jxl/enc_color_management.h) and the JxlCms behind it               *)
(* (lib/jxl/enc_color_management.cc), with LCMS.                           *)
(*                                                                         *)
(* A pixel is what its samples mean: the space they are in, the curve they *)
(* are encoded with, the nits of 1.0, whether they are the light of the    *)
(* scene or of the display, whether 1.0 is all ink, and whether they have  *)
(* been through a table of 16 bits.                                        *)
(***************************************************************************)
EXTENDS ColorProfiles

Linear == [name |-> "gamma", gamma |-> kGammaMul]
sRGBCurve == [name |-> "SRGB", gamma |-> 0]

\* The space of a profile.
SpaceIn(icc) ==
  IF icc.header.data_space = "RGB" /\ CanTransform(icc)
  THEN [data_space |-> "RGB", rgb |-> ColorantsIn(icc).rgb, white |-> ColorantsIn(icc).white]
  ELSE [data_space |-> icc.header.data_space, rgb |-> <<NoXY, NoXY, NoXY>>, white |-> NoXY]

\* PQ is of absolute light, HLG of the scene; 1.0 of the others is the target.
MeaningOf(icc, intensity_target) ==
  LET curve == IF icc.header.data_space = "CMYK" THEN [name |-> "ink", gamma |-> 0] ELSE CurveIn(icc)
  IN  [space |-> SpaceIn(icc), curve |-> curve,
       nits |-> IF curve.name = "PQ" THEN 10000 ELSE intensity_target,
       light |-> IF curve.name = "HLG" THEN "scene" ELSE "display",
       ink |-> FALSE, clipped |-> FALSE]

-----------------------------------------------------------------------------
(* HLG.                                                                    *)

\* CIEXYZFromWhiteCIExy and the inverse of the primaries.
GetPrimariesLuminances(c) == GetWhitePoint(c)[2] # 0 /\ Invertible(GetPrimaries(c))

\* With a gamma of about one there is nothing to apply.
OotfIsIdentity(intensity_target) == intensity_target \in 295 .. 305

ApplyHlgOotf(t, pixel, forward) ==
  IF OotfIsIdentity(t.intensity_target) THEN pixel
  ELSE [pixel EXCEPT !.light = IF forward THEN "display" ELSE "scene"]

Garbled(pixel) == [pixel EXCEPT !.curve = [name |-> "garbled", gamma |-> 0]]

\* Undoes a curve: the pixel has to be encoded with it.
DisplayFromEncoded(pixel, name) ==
  IF pixel.curve.name = name THEN [pixel EXCEPT !.curve = Linear] ELSE Garbled(pixel)
EncodedFromDisplay(pixel, name) ==
  IF pixel.curve = Linear THEN [pixel EXCEPT !.curve = [name |-> name, gamma |-> 0]] ELSE Garbled(pixel)

BeforeTransform(t, pixel) ==
  LET undone == DisplayFromEncoded(pixel, t.preprocess)
  IN  CASE t.preprocess = "None" -> pixel
        [] t.preprocess = "PQ" ->
             [undone EXCEPT !.nits = IF t.intensity_target = 10000 THEN @
                                     ELSE (@ * t.intensity_target) \div 10000]
        [] t.preprocess = "HLG" -> IF t.apply_hlg_ootf THEN ApplyHlgOotf(t, undone, TRUE) ELSE undone
        [] t.preprocess = "SRGB" -> undone

AfterTransform(t, pixel) ==
  CASE t.postprocess = "None" -> pixel
    [] t.postprocess = "PQ" ->
         EncodedFromDisplay([pixel EXCEPT !.nits = IF t.intensity_target = 10000 THEN @
                                                   ELSE (@ * 10000) \div t.intensity_target], "PQ")
    [] t.postprocess = "HLG" ->
         EncodedFromDisplay(IF t.apply_hlg_ootf THEN ApplyHlgOotf(t, pixel, FALSE) ELSE pixel, "HLG")
    [] t.postprocess = "SRGB" -> EncodedFromDisplay(pixel, "SRGB")

\* LCMS takes ink for what is not white, and tables clip.
DoTransform(t, pixel) ==
  LET from == MeaningOf(t.profile_src, t.intensity_target)
      to == MeaningOf(t.profile_dst, t.intensity_target)
  IN  IF SameProfileCurve(pixel.curve, from.curve) /\ (from.curve.name = "ink" => pixel.ink)
      THEN [pixel EXCEPT !.space = to.space, !.curve = to.curve, !.ink = FALSE,
                         !.clipped = IsTable(from.curve) \/ IsTable(to.curve)]
      ELSE Garbled(pixel)

DoColorSpaceTransform(t, pixel) ==
  LET before == BeforeTransform(t, pixel)
      inked == IF t.channels_src = 4 /\ ~t.skip_lcms THEN [before EXCEPT !.ink = ~@] ELSE before
  IN  AfterTransform(t, IF t.skip_lcms THEN inked ELSE DoTransform(t, inked))

-----------------------------------------------------------------------------
(* JxlCmsInit.                                                             *)

NoTransform == [skip_lcms |-> FALSE, intensity_target |-> 0]

\* An encoding as if its pixels were linear already, its profile, and what
\* makes them so; as it is if no such profile can be made.
Linearized(c, icc, wanted) ==
  LET linear == MaybeCreateProfile(WithTF(c, "Linear"))
  IN  IF wanted /\ linear.ok
      THEN [c |-> WithTF(c, "Linear"), icc |-> linear.icc, extra |-> c.tf.transfer_function]
      ELSE [c |-> c, icc |-> icc, extra |-> "None"]

NeedsExtra(c, other) ==
  IsTF(c, "PQ") \/ IsTF(c, "HLG")
    \/ (IsTF(c, "SRGB") /\ IsTF(other, "Linear") /\ SameColorSpace(c, other))

\* Mutant: light of the scene is taken for that of the display.
AppliesOotfNever(src, dst) == FALSE
AppliesOotf(src, dst) == IsTF(src, "HLG") # IsTF(dst, "HLG")

CanDoTransform(icc) ==
  IF icc.header.data_space = "CMYK" THEN HasTag(icc, "A2B0") ELSE CanTransform(icc)

ChannelsOf(c) == IF c.cmyk THEN 4 ELSE Channels(c)

\* Yields what becomes of it, and the transform, but for its intensity target.
\* src and dst are what SetICC makes of the two profiles, from and to the same
\* linearized.
InitFromTo(src, dst, from, to) ==
  LET hlg == AppliesOotf(src.c, dst.c)
      c_hlg == IF IsTF(src.c, "HLG") THEN src.c ELSE dst.c
      t == [skip_lcms |-> SameColorEncoding(src.c, dst.c) \/ SameColorEncoding(from.c, to.c),
            apply_hlg_ootf |-> hlg, preprocess |-> from.extra, postprocess |-> to.extra,
            profile_src |-> from.icc, profile_dst |-> to.icc,
            channels_src |-> ChannelsOf(from.c), channels_dst |-> Channels(to.c),
            intensity_target |-> 0]
      fails ==
        \/ ~src.ok \/ ~dst.ok
        \/ hlg /\ (\/ Channels(c_hlg) = 3 /\ ~GetPrimariesLuminances(c_hlg)
                   \/ NeedsExtra(src.c, dst.c) /\ from.extra = "None"
                   \/ NeedsExtra(dst.c, from.c) /\ to.extra = "None")
      aborts == t.channels_src # t.channels_dst /\ ~(t.channels_src = 4 /\ t.channels_dst = 3)
  IN  CASE ~fails /\ aborts -> [outcome |-> "aborted", t |-> NoTransform]
        [] ~fails /\ ~aborts /\ CanDoTransform(from.icc) /\ CanDoTransform(to.icc) ->
             [outcome |-> "ok", t |-> t]
        [] OTHER -> [outcome |-> "failed", t |-> NoTransform]

JxlCmsInit(icc_src, icc_dst, src, dst) ==
  LET from == Linearized(src.c, icc_src, NeedsExtra(src.c, dst.c))
  IN  InitFromTo(src, dst, from, Linearized(dst.c, icc_dst, NeedsExtra(dst.c, from.c)))

\* ColorSpaceTransform::Init
TransformInit(c_src, c_dst, src, dst) ==
  IF c_dst.cmyk THEN [outcome |-> "failed", t |-> NoTransform]
  ELSE JxlCmsInit(c_src.icc, c_dst.icc, src, dst)
=============================================================================
