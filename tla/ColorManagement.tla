--------------------------- MODULE ColorManagement ---------------------------
(***************************************************************************)
(* The encoding of an image's colours from the profile or the description  *)
(* a file gives (lib/extras/packed_image_convert.cc,                       *)
(* lib/extras/dec/color_hints.cc) to the transform of its pixels           *)
(* (lib/jxl/enc_image_bundle.cc): one ColorEncoding, calls on it one after *)
(* the other, and at the end one transform to another encoding.            *)
(***************************************************************************)
EXTENDS ColorTransforms

CONSTANTS
  Profiles,       \* ICC profiles found in files
  Externals,      \* JxlColorEncodings given by decoders
  Hints,          \* the texts of color_space hints
  Targets,        \* JxlColorEncodings of the ColorEncodings transforms go to
  Intensities,    \* intensity targets, in nits
  Drifts,         \* what chromaticities read by LCMS may be off by
  MaxCalls        \* bound: calls on one ColorEncoding

\* What the structs and the texts may say, whether it makes sense or not:
\* "none" is for what is in no enum.
XYs == [1 .. 2 -> Int]
ExternalForms ==
  [color_space : DOMAIN SpaceNames,
   white_point : WhitePoints \cup {"none"}, white_point_xy : XYs,
   primaries : DOMAIN PrimariesNames \cup {"none"}, primaries_xy : [1 .. 3 -> XYs],
   transfer_function : DOMAIN TransferFunctionNames \cup {"Gamma", "none"}, gamma : Int,
   rendering_intent : DOMAIN RenderingIntentNames]
Tokens == [word : STRING] \cup [numbers : Seq(Int)] \cup [g : Int]

\* A tag holds what its name says; others are not asked for.
TagsHold(icc) ==
  /\ \A tag \in {"wtpt", "chad"} : HasTag(icc, tag) => ReadTag(icc, tag).white \in XYs
  /\ \A tag \in ColorantTags \cup {"A2B0"} :
       HasTag(icc, tag) => ReadTag(icc, tag).rgb \in [1 .. 3 -> XYs]

ASSUME GivenAssumption ==
  /\ Externals \cup Targets \subseteq ExternalForms
  /\ \A hints \in Hints : hints # <<>> => hints[1] \in Seq(Tokens)
  /\ \A icc \in Profiles : icc # NoICC => TagsHold(icc)

\* "We have seen differences of 7.1E-5 with lcms2"
ASSUME DriftsAssumption == Drifts \subseteq -7 .. 7

ASSUME MaxCallsAssumption == MaxCalls \in Nat

VARIABLES
  managed,     \* the ColorEncoding
  outcome,     \* "none" before the first call, then "ok", "failed" or "aborted"
  calls,
  transform,   \* the JxlCms
  given,       \* the profile its pixels come with
  target,      \* the encoding they go to
  pixel        \* a pixel: before and after

colorVars == <<managed, outcome, calls, transform, given, target, pixel>>

\* No encoding is managed, and none will be.
NoColor ==
  /\ outcome = "none" /\ calls = MaxCalls
  /\ managed = <<>> /\ transform = <<>> /\ given = <<>> /\ target = <<>> /\ pixel = <<>>

ColorInit ==
  /\ managed = BlankColorEncoding /\ outcome = "none" /\ calls = 0
  /\ transform = NoTransform /\ given = NoICC /\ target = NoICC /\ pixel = <<>>

Call ==
  /\ calls < MaxCalls /\ outcome \in {"none", "ok"} /\ transform = NoTransform
  /\ calls' = calls + 1
  /\ UNCHANGED <<transform, given, target, pixel>>

\* A profile that cannot be used is replaced, one of the wrong kind refused.
ConvertIcc ==
  /\ Call
  /\ \E set \in {SetICC(managed, icc, drift) : icc \in Profiles, drift \in Drifts}, is_gray \in BOOLEAN :
       /\ managed' = IF set.ok THEN set.c ELSE SRGB(is_gray)
       /\ outcome' = IF IsGray(managed') = is_gray THEN "ok" ELSE "failed"

\* ConvertExternalToInternalColorEncoding
WithProfile(fields) == IF fields.ok THEN Good(CreateICC(fields.c).c) ELSE fields
WithExternal(c, external) == WithProfile(FieldsFromExternal(external, c))

Becomes(with) ==
  /\ managed' = with.c
  /\ outcome' = IF with.ok /\ with.c.icc # NoICC THEN "ok" ELSE "failed"

ConvertEncoding == Call /\ \E external \in Externals : Becomes(WithExternal(managed, external))

\* What is converted is what the hint describes, or sRGB.
AssumedEncoding(is_gray) ==
  [NoExternal EXCEPT !.color_space = IF is_gray THEN "Gray" ELSE "RGB", !.white_point = "D65",
                     !.primaries = "SRGB", !.transfer_function = "SRGB"]

ApplyColorHints(hints, is_gray) ==
  LET parsed == ParseDescription(hints[1])
  IN  IF hints = <<>> THEN [ok |-> TRUE, c |-> AssumedEncoding(is_gray)]
      ELSE [ok |-> parsed.ok /\ is_gray = (parsed.c.color_space = "Gray"), c |-> parsed.c]

ConvertHinted ==
  /\ Call
  /\ \E hinted \in {ApplyColorHints(hints, is_gray) : hints \in Hints, is_gray \in BOOLEAN} :
       \/ hinted.ok /\ Becomes(WithExternal(managed, hinted.c))
       \/ ~hinted.ok /\ outcome' = "failed" /\ UNCHANGED managed

SetToSRGB ==
  /\ Call
  /\ \E cs \in {"RGB", "Gray"} :
       /\ managed' = SetSRGB(managed, cs).c
       /\ outcome' = IF SetSRGB(managed, cs).ok THEN "ok" ELSE "failed"

Decide ==
  /\ Call /\ outcome = "ok"
  /\ managed' = DecideIfWantICC(managed).c
  /\ outcome' = IF DecideIfWantICC(managed).aborts THEN "aborted" ELSE "ok"

-----------------------------------------------------------------------------
(* CopyToT                                                                 *)

\* What JxlCmsInit may find in a profile.
ReadBack(icc) == {SetICC(BlankColorEncoding, icc, drift) : drift \in Drifts}

Desired == {WithExternal(BlankColorEncoding, external).c : external \in Targets}

StartTransform ==
  /\ outcome = "ok" /\ transform = NoTransform /\ managed.icc # NoICC
  /\ \E c_desired \in {c \in Desired : IsGray(c) = IsGray(managed)} :
       /\ \E init \in {TransformInit(managed, c_desired, src, dst) :
                         src \in ReadBack(managed.icc), dst \in ReadBack(c_desired.icc)},
             intensity_target \in Intensities :
            /\ outcome' = init.outcome
            /\ transform' = [init.t EXCEPT !.intensity_target = intensity_target]
       /\ target' = c_desired
  /\ given' = managed.icc
  /\ UNCHANGED <<managed, calls, pixel>>

RunTransform ==
  /\ outcome = "ok" /\ transform # NoTransform /\ pixel = <<>>
  /\ pixel' = LET in == MeaningOf(given, transform.intensity_target)
              IN  <<in, DoColorSpaceTransform(transform, in)>>
  /\ UNCHANGED <<managed, outcome, calls, transform, given, target>>

ColorNext ==
  ConvertIcc \/ ConvertEncoding \/ ConvertHinted \/ SetToSRGB \/ Decide \/ StartTransform \/ RunTransform

-----------------------------------------------------------------------------
(* The properties.                                                         *)

\* The fields are all of what a profile does to pixels.
SaysAll(icc, c) ==
  /\ CanTransform(icc) /\ SameProfileCurve(CurveIn(icc), Curve(c.tf))
  /\ ~IsGray(c) => /\ Close(ColorantsIn(icc).white, GetWhitePoint(c))
                   /\ \A k \in 1 .. 3 : Close(ColorantsIn(icc).rgb[k], GetPrimaries(c)[k])

\* The white point and the primaries a profile tells are the fields'; with a
\* curve they are all it does, or else the profile is kept.
ProfileSays(icc, c) ==
  /\ icc.header.data_space = IF IsGray(c) THEN "GRAY" ELSE "RGB"
  /\ icc.header.intent = c.rendering_intent
  /\ TellsWhite(icc) => Near(WhiteIn(icc), GetWhitePoint(c))
  /\ ~IsGray(c) => \A k \in 1 .. 3 : Near(ColorantsTold(icc).rgb[k], GetPrimaries(c)[k])
  /\ IF IsTF(c, "Unknown") THEN c.want_icc ELSE SaysAll(icc, c)

\* However an encoding came about, its profile and its fields say the same,
\* as they are found in the bytes through the table of tags, so that the
\* profile need not be kept with it unless want_icc says so; what cannot be
\* told as fields stays a profile: a white point that is not found, a table
\* that does not do what the tags of the colorants say.  (ColorEncoding::ICC,
\* SetICC, CreateICC, DecideIfWantICC and its assertion, FinalizeICCTag.)
ProfileTellsFields ==
  /\ outcome # "aborted"
  /\ outcome = "ok" =>
       /\ managed.icc # NoICC
       /\ managed.icc.header.data_space = "CMYK" => managed.cmyk /\ managed.want_icc
       /\ managed.icc.header.data_space \in {"RGB", "GRAY"} => ProfileSays(managed.icc, managed)
       /\ managed.color_space = "Unknown" => managed.want_icc

\* The struct of an encoding, and its description read as a hint, give an
\* encoding of the same colours, if what is described has primaries with
\* names.  (ConvertInternalToExternalColorEncoding, Description and
\* ParseDescription.)
DescribedAsIs ==
  LET parsed == ParseDescription(Description(managed))
      custom == HasPrimaries(managed) /\ managed.primaries = "Custom"
      SameFrom(external) ==
        LET from == FieldsFromExternal(external, BlankColorEncoding)
        IN  /\ from.ok /\ SameMeaning(from.c, managed)
            /\ from.c.rendering_intent = managed.rendering_intent
  IN  outcome = "ok" =>
      /\ SameFrom(ConvertInternalToExternalColorEncoding(managed))
      /\ parsed.ok <=> ~custom
      /\ parsed.ok => SameFrom(parsed.c)

\* A transform gives what the target encoding means: its space, its curve,
\* light of the scene or the display as it takes it, at the same nits; and
\* no pixel of PQ or HLG is clipped by a table of a profile.
\* (JxlCmsInit, BeforeTransform, AfterTransform, ApplyHlgOotf.)
TransformKeepsColour ==
  pixel # <<>> =>
    LET out == pixel[2]
        meant == MeaningOf(target.icc, transform.intensity_target)
    IN  /\ out.curve.name # "garbled" /\ SameProfileCurve(out.curve, meant.curve)
        /\ out.space.data_space = meant.space.data_space
        /\ Near(out.space.white, meant.space.white)
        /\ \A k \in 1 .. 3 : Near(out.space.rgb[k], meant.space.rgb[k])
        /\ AbsoluteOf(out.nits - meant.nits) <= 1
        /\ OotfIsIdentity(transform.intensity_target) \/ out.light = meant.light
        /\ ~out.clipped
=============================================================================
