----------------------------- MODULE ColorProofs -----------------------------
(***************************************************************************)
(* Proofs about ColorManagement, for any profiles, descriptions and hints: *)
(* however an encoding came about, its fields, its profile, its struct and *)
(* its text say the same.                                                  *)
(***************************************************************************)
EXTENDS ImageFiles, TLAPS, SequenceTheorems

-----------------------------------------------------------------------------
(* The fields of an encoding, whatever its profile.                        *)

Spaces == DOMAIN SpaceNames
Curves ==
  [have_gamma : BOOLEAN, gamma : Int, transfer_function : DOMAIN TransferFunctionNames,
   nonserialized_color_space : Spaces]

FieldNames ==
  {"color_space", "cmyk", "white_point", "white", "primaries", "rgb", "tf", "rendering_intent",
   "want_icc", "icc"}
HasFields(c) == c = [f \in FieldNames |-> c[f]]

(* A custom white point is none of those with a name, and fits.            *)
CustomWhite_(xy) ==
  /\ xy \in XYs /\ xy[1] # 0 /\ xy[2] # 0
  /\ ~ApproxEq(xy, KnownWhitePoints.D65) /\ ~IsE(xy) /\ ~ApproxEq(xy, KnownWhitePoints.DCI)
  /\ \A m \in 1 .. 2 : CustomxyFits(xy[m])

IsKnown(rgb, name) == \A m \in 1 .. 3 : ApproxEq(rgb[m], KnownPrimaries[name][m])

CustomPrimaries_(rgb) ==
  /\ rgb \in [1 .. 3 -> XYs]
  /\ \A m \in 1 .. 3 : rgb[m][1] # 0 /\ rgb[m][2] # 0 /\ \A k \in 1 .. 2 : CustomxyFits(rgb[m][k])
  /\ \A name \in DOMAIN KnownPrimaries : ~IsKnown(rgb, name)

(* An exponent is none of those with a name, and a curve is not implied.   *)
CurveOK(tf) ==
  /\ tf \in Curves /\ ~HasImplicitTF(tf)
  /\ tf.have_gamma =>
       /\ tf.gamma > kGammaMul \div kMaxGamma /\ tf.gamma <= kGammaMul
       /\ ~Approximates(tf.gamma, kGammaMul, 1, 800)
       /\ ~Approximates(tf.gamma, 10 * kGammaMul, 26, 800)

WhiteOK(c) ==
  /\ c.white_point \in WhitePoints /\ c.white \in XYs
  /\ c.white_point = "Custom" => CustomWhite_(c.white)

PrimariesOK(c) ==
  /\ c.primaries \in {"Custom"} \cup DOMAIN KnownPrimaries /\ c.rgb \in [1 .. 3 -> XYs]
  /\ c.primaries = "Custom" => CustomPrimaries_(c.rgb)

EncodingOK(c) ==
  /\ HasFields(c) /\ c.color_space \in Spaces /\ c.rendering_intent \in DOMAIN RenderingIntentNames
  /\ c.cmyk \in BOOLEAN /\ c.want_icc \in BOOLEAN
  /\ WhiteOK(c) /\ PrimariesOK(c) /\ CurveOK(c.tf)

-----------------------------------------------------------------------------
(* Names.                                                                  *)

LEMMA SpacesAre == Spaces = {"RGB", "Gray", "XYB", "Unknown"}
  BY DEF Spaces, SpaceNames

LEMMA WhitePointsAre ==
    /\ DOMAIN KnownWhitePoints = {"D65", "E", "DCI"}
    /\ KnownWhitePoints.D65 = <<31270, 32900>> /\ KnownWhitePoints.E = <<33333, 33333>>
    /\ KnownWhitePoints.DCI = <<31400, 35100>>
    /\ \A w \in DOMAIN KnownWhitePoints : KnownWhitePoints[w] \in XYs
  BY DEF KnownWhitePoints, XYs

LEMMA PrimariesAre ==
    /\ DOMAIN KnownPrimaries = {"SRGB", "2100", "P3"}
    /\ \A p \in DOMAIN KnownPrimaries : KnownPrimaries[p] \in [1 .. 3 -> XYs]
    /\ \A p \in DOMAIN KnownPrimaries, m \in 1 .. 3, k \in 1 .. 2 : KnownPrimaries[p][m][k] > 8
  BY DEF KnownPrimaries, XYs

LEMMA CurvesAre ==
    DOMAIN TransferFunctionNames = {"709", "Unknown", "Linear", "SRGB", "PQ", "DCI", "HLG"}
  BY DEF TransferFunctionNames

LEMMA IntentsAre ==
    DOMAIN RenderingIntentNames = {"Perceptual", "Relative", "Saturation", "Absolute"}
  BY DEF RenderingIntentNames

-----------------------------------------------------------------------------
(* Setting fields.                                                         *)

LEMMA BlankOK ==
    /\ EncodingOK(BlankColorEncoding) /\ BlankColorEncoding.color_space = "RGB"
    /\ BlankColorEncoding.icc = NoICC
<1>1. CurveOK(TransferFunction("SRGB"))
  BY SpacesAre, CurvesAre
     DEF CurveOK, Curves, TransferFunction, HasImplicitTF, kGammaMul
<1>2. NoXY \in XYs /\ <<NoXY, NoXY, NoXY>> \in [1 .. 3 -> XYs]
  BY DEF NoXY, XYs
<1>3. HasFields(BlankColorEncoding)
  BY DEF BlankColorEncoding, HasFields, FieldNames
<1>4. WhiteOK(BlankColorEncoding) /\ PrimariesOK(BlankColorEncoding)
  BY <1>2, PrimariesAre DEF BlankColorEncoding, WhiteOK, PrimariesOK, WhitePoints
<1> QED
  BY <1>1, <1>3, <1>4, SpacesAre, IntentsAre DEF EncodingOK, BlankColorEncoding

LEMMA FieldSet ==
    ASSUME NEW c, HasFields(c), NEW f \in FieldNames, NEW v
    PROVE  /\ HasFields([c EXCEPT ![f] = v]) /\ [c EXCEPT ![f] = v][f] = v
           /\ \A g \in FieldNames \ {f} : [c EXCEPT ![f] = v][g] = c[g]
  BY DEF HasFields

LEMMA CurveSet ==
    ASSUME NEW c, EncodingOK(c), NEW tf, CurveOK(tf)
    PROVE  LET to == [c EXCEPT !.tf = tf]
           IN  /\ EncodingOK(to) /\ to.tf = tf
               /\ \A g \in FieldNames \ {"tf"} : to[g] = c[g]
<1> DEFINE to == [c EXCEPT !.tf = tf]
<1>1. HasFields(to) /\ to.tf = tf /\ \A g \in FieldNames \ {"tf"} : to[g] = c[g]
  BY FieldSet DEF EncodingOK, FieldNames
<1> HIDE DEF to
<1>2. EncodingOK(to)
  BY <1>1 DEF EncodingOK, WhiteOK, PrimariesOK, FieldNames
<1> QED
  BY <1>1, <1>2 DEF to

LEMMA ColorSpaceSet ==
    ASSUME NEW c, EncodingOK(c), NEW cs \in Spaces, cs # "XYB"
    PROVE  LET to == SetColorSpace(c, cs)
           IN  /\ EncodingOK(to) /\ to.color_space = cs
               /\ \A g \in FieldNames \ {"tf", "color_space"} : to[g] = c[g]
<1> DEFINE tf == [c.tf EXCEPT !.nonserialized_color_space = cs]
           spaced == [c EXCEPT !.color_space = cs]
           to == [spaced EXCEPT !.tf = tf]
<1>1. CurveOK(tf)
  BY DEF EncodingOK, CurveOK, Curves, HasImplicitTF
<1>2. HasFields(spaced) /\ spaced.color_space = cs /\ \A g \in FieldNames \ {"color_space"} : spaced[g] = c[g]
  BY FieldSet DEF EncodingOK, FieldNames
<1>3. SetColorSpace(c, cs) = to
  BY <1>2 DEF SetColorSpace, FieldNames
<1> HIDE DEF tf, spaced
<1>4. EncodingOK(spaced)
  BY <1>2 DEF EncodingOK, WhiteOK, PrimariesOK, FieldNames
<1>5. EncodingOK(to) /\ \A g \in FieldNames \ {"tf"} : to[g] = spaced[g]
  BY <1>1, <1>4, CurveSet
<1> HIDE DEF to
<1> QED
  BY <1>2, <1>3, <1>5 DEF FieldNames

LEMMA TFSet ==
    ASSUME NEW c, EncodingOK(c), NEW name \in DOMAIN TransferFunctionNames
    PROVE  LET to == WithTF(c, name)
           IN  /\ EncodingOK(to) /\ IsTF(to, name)
               /\ to.tf = [c.tf EXCEPT !.have_gamma = FALSE, !.transfer_function = name]
               /\ \A g \in FieldNames \ {"tf"} : to[g] = c[g]
<1> DEFINE tf == [c.tf EXCEPT !.have_gamma = FALSE, !.transfer_function = name]
           to == [c EXCEPT !.tf = tf]
<1>1. CurveOK(tf) /\ ~tf.have_gamma /\ tf.transfer_function = name
  BY DEF EncodingOK, CurveOK, Curves, HasImplicitTF
<1>2. WithTF(c, name) = to
  BY DEF WithTF, EncodingOK, HasFields, FieldNames
<1> HIDE DEF tf
<1>3. EncodingOK(to) /\ to.tf = tf /\ \A g \in FieldNames \ {"tf"} : to[g] = c[g]
  BY <1>1, CurveSet
<1> HIDE DEF to
<1> QED
  BY <1>1, <1>2, <1>3 DEF IsTF, tf

(* Chromaticities that are about the same.                                 *)
Within(xy, other, n) == \A m \in 1 .. 2 : AbsoluteOf(xy[m] - other[m]) <= n

LEMMA NamedWhite ==
    ASSUME NEW xy \in XYs
    PROVE  /\ ApproxEq(xy, KnownWhitePoints.D65) => Within(xy, KnownWhitePoints.D65, 8)
           /\ ApproxEq(xy, KnownWhitePoints.DCI) => Within(xy, KnownWhitePoints.DCI, 8)
           /\ IsE(xy) => Within(xy, KnownWhitePoints.E, 8)
  BY WhitePointsAre DEF XYs, ApproxEq, Approximates, IsE, Within, AbsoluteOf

LEMMA Stored ==
    ASSUME NEW old, NEW xy \in XYs
    PROVE  /\ StoresXY(old, xy).ok <=> \A m \in 1 .. 2 : CustomxyFits(xy[m])
           /\ StoresXY(old, xy).ok => StoresXY(old, xy).xy = xy
  BY DEF StoresXY, XYs, CustomxyFits, AbsoluteOf

LEMMA WhitePointSet ==
    ASSUME NEW c, HasFields(c), c.white \in XYs, NEW xy \in XYs, SetWhitePoint(c, xy).ok
    PROVE  LET to == SetWhitePoint(c, xy).c
           IN  /\ HasFields(to) /\ WhiteOK(to) /\ Within(xy, GetWhitePoint(to), 8)
               /\ \A g \in FieldNames \ {"white_point", "white"} : to[g] = c[g]
<1> DEFINE Named(name) == [c EXCEPT !.white_point = name]
           custom == [Named("Custom") EXCEPT !.white = xy]
           Fine(to) == /\ HasFields(to) /\ WhiteOK(to) /\ Within(xy, GetWhitePoint(to), 8)
                       /\ \A g \in FieldNames \ {"white_point", "white"} : to[g] = c[g]
<1>1. ASSUME NEW name
      PROVE  /\ HasFields(Named(name)) /\ Named(name).white_point = name
             /\ \A g \in FieldNames \ {"white_point"} : Named(name)[g] = c[g]
  BY FieldSet DEF FieldNames
<1> HIDE DEF Named
<1>2. /\ HasFields(custom) /\ custom.white_point = "Custom" /\ custom.white = xy
      /\ \A g \in FieldNames \ {"white_point", "white"} : custom[g] = c[g]
  BY <1>1, FieldSet DEF FieldNames
<1>3. ASSUME NEW name \in {"D65", "E", "DCI"}, Within(xy, KnownWhitePoints[name], 8)
      PROVE  Fine(Named(name))
  <2>1. WhiteOK(Named(name))
    BY <1>1 DEF WhiteOK, WhitePoints, FieldNames
  <2> QED
    BY <1>1, <1>3, <2>1 DEF GetWhitePoint, FieldNames
<1> HIDE DEF custom
<1>4. ASSUME CustomWhite_(xy) PROVE Fine(custom)
  <2>1. WhiteOK(custom)
    BY <1>2, <1>4 DEF WhiteOK, WhitePoints
  <2>2. Within(xy, GetWhitePoint(custom), 8)
    BY <1>2 DEF GetWhitePoint, Within, AbsoluteOf, XYs
  <2> QED
    BY <1>2, <2>1, <2>2
<1>5. \/ SetWhitePoint(c, xy) = Good(Named("D65")) /\ ApproxEq(xy, KnownWhitePoints.D65)
      \/ SetWhitePoint(c, xy) = Good(Named("E")) /\ IsE(xy)
      \/ SetWhitePoint(c, xy) = Good(Named("DCI")) /\ ApproxEq(xy, KnownWhitePoints.DCI)
      \/ SetWhitePoint(c, xy).c = custom /\ CustomWhite_(xy)
  <2> DEFINE stored == StoresXY(c.white, xy)
             kept == [ok |-> stored.ok, c |-> [c EXCEPT !.white_point = "Custom", !.white = stored.xy]]
  <2>1. /\ stored.ok <=> \A m \in 1 .. 2 : CustomxyFits(xy[m])
        /\ stored.ok => stored.xy = xy
    BY Stored
  <2> HIDE DEF stored
  <2>2. SetWhitePoint(c, xy) # Bad(c)
    BY DEF Bad
  <2>3. 0 \notin {xy[1], xy[2]}
    BY <2>2 DEF SetWhitePoint
  <2>4. \/ SetWhitePoint(c, xy) = Good(Named("D65")) /\ ApproxEq(xy, KnownWhitePoints.D65)
        \/ SetWhitePoint(c, xy) = Good(Named("E")) /\ IsE(xy)
        \/ SetWhitePoint(c, xy) = Good(Named("DCI")) /\ ApproxEq(xy, KnownWhitePoints.DCI)
        \/ /\ SetWhitePoint(c, xy) = kept /\ ~ApproxEq(xy, KnownWhitePoints.D65) /\ ~IsE(xy)
           /\ ~ApproxEq(xy, KnownWhitePoints.DCI)
    BY <2>3 DEF SetWhitePoint, Named, stored
  <2>5. stored.ok => kept.c = custom
    BY <2>1 DEF custom, Named
  <2>6. SetWhitePoint(c, xy) = kept => stored.ok
    OBVIOUS
  <2> QED
    BY <2>1, <2>3, <2>4, <2>5, <2>6 DEF CustomWhite_
<1> HIDE DEF Fine
<1>6. Fine(SetWhitePoint(c, xy).c)
  BY <1>3, <1>4, <1>5, NamedWhite DEF Good
<1> QED
  BY <1>6 DEF Fine

LEMMA CustomWhiteFits ==
    ASSUME NEW c, NEW xy, CustomWhite_(xy)
    PROVE  SetWhitePoint(c, xy).ok
<1>1. StoresXY(c.white, xy).ok
  BY Stored DEF CustomWhite_
<1> QED
  BY <1>1 DEF CustomWhite_, SetWhitePoint, Good

LEMMA KnownIsNear ==
    ASSUME NEW rgb \in [1 .. 3 -> XYs], NEW p \in DOMAIN KnownPrimaries, IsKnown(rgb, p)
    PROVE  \A m \in 1 .. 3 : Within(rgb[m], KnownPrimaries[p][m], 8)
<1> SUFFICES ASSUME NEW m \in 1 .. 3 PROVE Within(rgb[m], KnownPrimaries[p][m], 8)
  OBVIOUS
<1> DEFINE a == rgb[m]
           b == KnownPrimaries[p][m]
<1>1. a \in XYs /\ b \in XYs /\ ApproxEq(a, b)
  BY PrimariesAre DEF IsKnown
<1> HIDE DEF a, b
<1>2. Within(a, b, 8)
  BY <1>1 DEF XYs, ApproxEq, Approximates, Within, AbsoluteOf
<1> QED
  BY <1>2 DEF a, b

LEMMA StoredAll ==
    ASSUME NEW old, NEW rgb \in [1 .. 3 -> XYs], \A m \in 1 .. 3 : StoresXY(old[m], rgb[m]).ok
    PROVE  /\ StoredPrimaries(old, rgb) = rgb
           /\ \A m \in 1 .. 3, k \in 1 .. 2 : CustomxyFits(rgb[m][k])
<1>1. \A m \in 1 .. 3 : rgb[m] \in XYs
  OBVIOUS
<1>2. \A m \in 1 .. 3 : StoresXY(old[m], rgb[m]).xy = rgb[m] /\ \A k \in 1 .. 2 : CustomxyFits(rgb[m][k])
  BY <1>1, Stored
<1> QED
  BY <1>2 DEF StoredPrimaries

LEMMA PrimariesSet ==
    ASSUME NEW c, HasFields(c), c.rgb \in [1 .. 3 -> XYs], NEW rgb \in [1 .. 3 -> XYs],
           SetPrimaries(c, rgb).ok
    PROVE  LET to == SetPrimaries(c, rgb).c
           IN  /\ HasFields(to) /\ PrimariesOK(to)
               /\ \A m \in 1 .. 3 : Within(rgb[m], GetPrimaries(to)[m], 8)
               /\ \A g \in FieldNames \ {"primaries", "rgb"} : to[g] = c[g]
<1> DEFINE Named(name) == [c EXCEPT !.primaries = name]
           custom == [Named("Custom") EXCEPT !.rgb = rgb]
           Fine(to) == /\ HasFields(to) /\ PrimariesOK(to)
                       /\ \A m \in 1 .. 3 : Within(rgb[m], GetPrimaries(to)[m], 8)
                       /\ \A g \in FieldNames \ {"primaries", "rgb"} : to[g] = c[g]
<1>1. ASSUME NEW name
      PROVE  /\ HasFields(Named(name)) /\ Named(name).primaries = name
             /\ \A g \in FieldNames \ {"primaries"} : Named(name)[g] = c[g]
  BY FieldSet DEF FieldNames
<1> HIDE DEF Named
<1>2. /\ HasFields(custom) /\ custom.primaries = "Custom" /\ custom.rgb = rgb
      /\ \A g \in FieldNames \ {"primaries", "rgb"} : custom[g] = c[g]
  <2>1. "rgb" \in FieldNames /\ "primaries" \in FieldNames /\ HasFields(Named("Custom"))
    BY <1>1 DEF FieldNames
  <2>2. /\ HasFields(custom) /\ custom["rgb"] = rgb
        /\ \A g \in FieldNames \ {"rgb"} : custom[g] = Named("Custom")[g]
    BY <2>1, FieldSet
  <2> HIDE DEF custom
  <2> QED
    BY <1>1, <2>1, <2>2
<1>3. ASSUME NEW name \in DOMAIN KnownPrimaries, IsKnown(rgb, name)
      PROVE  Fine(Named(name))
  <2>1. name # "Custom"
    BY PrimariesAre
  <2>2. PrimariesOK(Named(name))
    BY <1>1, <2>1 DEF PrimariesOK, FieldNames
  <2>3. GetPrimaries(Named(name)) = KnownPrimaries[name]
    BY <1>1, <2>1 DEF GetPrimaries
  <2> QED
    BY <1>1, <1>3, <2>2, <2>3, KnownIsNear DEF FieldNames
<1> HIDE DEF custom
<1>4. ASSUME CustomPrimaries_(rgb) PROVE Fine(custom)
  <2>1. PrimariesOK(custom)
    BY <1>2, <1>4 DEF PrimariesOK
  <2>2. GetPrimaries(custom) = rgb
    BY <1>2 DEF GetPrimaries
  <2>3. ASSUME NEW m \in 1 .. 3 PROVE Within(rgb[m], rgb[m], 8)
    BY DEF Within, AbsoluteOf, XYs
  <2> QED
    BY <1>2, <2>1, <2>2, <2>3
<1>5. \/ \E name \in DOMAIN KnownPrimaries : IsKnown(rgb, name) /\ SetPrimaries(c, rgb).c = Named(name)
      \/ SetPrimaries(c, rgb).c = custom /\ CustomPrimaries_(rgb)
  <2> DEFINE known == {p \in DOMAIN KnownPrimaries : IsKnown(rgb, p)}
             fits == \A m \in 1 .. 3 : StoresXY(c.rgb[m], rgb[m]).ok
             kept == [ok |-> fits,
                      c |-> [c EXCEPT !.primaries = "Custom", !.rgb = StoredPrimaries(@, rgb)]]
             named == Named(CHOOSE p \in known : TRUE)
  <2>1. SetPrimaries(c, rgb) # Bad(c)
    BY DEF Bad
  <2>2. ~\E m \in 1 .. 3 : 0 \in {rgb[m][1], rgb[m][2]}
    <3> SUFFICES ASSUME NEW m \in 1 .. 3, 0 \in {rgb[m][1], rgb[m][2]}
                 PROVE  SetPrimaries(c, rgb) = Bad(c)
      BY <2>1
    <3>1. ASSUME NEW p \in known PROVE FALSE
      <4>1. Within(rgb[m], KnownPrimaries[p][m], 8)
        BY KnownIsNear
      <4>2. /\ KnownPrimaries[p][m] \in XYs /\ rgb[m] \in XYs
            /\ \A k \in 1 .. 2 : KnownPrimaries[p][m][k] > 8
        BY PrimariesAre
      <4> QED
        BY <4>1, <4>2 DEF Within, AbsoluteOf, XYs
    <3>2. known = {}
      BY <3>1
    <3> QED
      BY <3>2 DEF SetPrimaries, IsKnown
  <2>3. \/ known # {} /\ SetPrimaries(c, rgb) = Good(named)
        \/ known = {} /\ SetPrimaries(c, rgb) = kept
    BY <2>2 DEF SetPrimaries, IsKnown, Named
  <2>4. CASE known # {} /\ SetPrimaries(c, rgb) = Good(named)
    <3>1. PICK name : name \in known /\ name = (CHOOSE p \in known : TRUE)
      BY <2>4
    <3>2. named = Named(name)
      BY <3>1
    <3> HIDE DEF named
    <3>3. SetPrimaries(c, rgb).c = Named(name)
      BY <2>4, <3>2 DEF Good
    <3> QED
      BY <3>1, <3>3
  <2>5. CASE known = {} /\ SetPrimaries(c, rgb) = kept
    <3>1. fits
      BY <2>5
    <3>2. /\ StoredPrimaries(c.rgb, rgb) = rgb
          /\ \A m \in 1 .. 3, k \in 1 .. 2 : CustomxyFits(rgb[m][k])
      BY <3>1, StoredAll
    <3>3. kept.c = custom
      BY <3>2 DEF custom, Named
    <3> HIDE DEF kept
    <3> QED
      BY <2>2, <2>5, <3>2, <3>3 DEF CustomPrimaries_
  <2> QED
    BY <2>3, <2>4, <2>5
<1> HIDE DEF Fine
<1>6. Fine(SetPrimaries(c, rgb).c)
  BY <1>3, <1>4, <1>5
<1> QED
  BY <1>6 DEF Fine

LEMMA CustomPrimariesFit ==
    ASSUME NEW c, NEW rgb, CustomPrimaries_(rgb)
    PROVE  SetPrimaries(c, rgb).ok
<1>1. \A m \in 1 .. 3 : rgb[m] \in XYs
  BY DEF CustomPrimaries_
<1>2. \A m \in 1 .. 3 : StoresXY(c.rgb[m], rgb[m]).ok
  BY <1>1, Stored DEF CustomPrimaries_
<1>3. {p \in DOMAIN KnownPrimaries : IsKnown(rgb, p)} = {}
  BY DEF CustomPrimaries_
<1>4. ~\E m \in 1 .. 3 : 0 \in {rgb[m][1], rgb[m][2]}
  BY DEF CustomPrimaries_
<1> QED
  BY <1>2, <1>3, <1>4 DEF SetPrimaries, IsKnown

(* A curve with a name, and one that is a power.                           *)
Called(tf, name) == ~tf.have_gamma /\ tf.transfer_function = name
Raises(tf, gamma) == tf.have_gamma /\ tf.gamma = gamma
NamedExponent(name) == IF name = "Linear" THEN kGammaMul ELSE IF name = "DCI" THEN 3846154 ELSE 0

LEMMA NamedExponents ==
    ASSUME NEW tf, NEW name, Called(tf, name)
    PROVE  ExponentOf(tf) = NamedExponent(name)
  BY SMT DEF ExponentOf, Called, NamedExponent

LEMMA GivenExponents ==
    ASSUME NEW tf, NEW gamma, Raises(tf, gamma)
    PROVE  ExponentOf(tf) = gamma
  BY SMT DEF ExponentOf, Raises

LEMMA CurveNamed ==
    ASSUME NEW tf \in Curves, ~HasImplicitTF(tf), NEW name \in DOMAIN TransferFunctionNames
    PROVE  LET to == [tf EXCEPT !.have_gamma = FALSE, !.transfer_function = name]
           IN  CurveOK(to) /\ Called(to, name)
  BY DEF CurveOK, Curves, HasImplicitTF, Called

LEMMA CurveRaised ==
    ASSUME NEW tf \in Curves, ~HasImplicitTF(tf), NEW gamma \in Int,
           gamma > kGammaMul \div kMaxGamma, gamma <= kGammaMul,
           ~Approximates(gamma, kGammaMul, 1, 800), ~Approximates(gamma, 10 * kGammaMul, 26, 800)
    PROVE  LET to == [tf EXCEPT !.have_gamma = TRUE, !.gamma = gamma, !.transfer_function = "Unknown"]
           IN  CurveOK(to) /\ Raises(to, gamma)
<1> DEFINE power == [tf EXCEPT !.have_gamma = TRUE, !.gamma = gamma, !.transfer_function = "Unknown"]
<1>1. power \in Curves /\ power.gamma = gamma /\ ~HasImplicitTF(power) /\ Raises(power, gamma)
  BY CurvesAre DEF Curves, HasImplicitTF, Raises
<1> HIDE DEF power
<1>2. CurveOK(power)
  BY <1>1 DEF CurveOK
<1> QED
  BY <1>1, <1>2 DEF power

(* gamma is within what SetGamma forgives.                                 *)
About(exponent, gamma) == exponent \in Int /\ exponent # 0 /\ AbsoluteOf(exponent - gamma) <= 800

LEMMA GammaSet ==
    ASSUME NEW tf \in Curves, ~HasImplicitTF(tf), NEW gamma \in Int, SetGamma(tf, gamma).ok
    PROVE  CurveOK(SetGamma(tf, gamma).c) /\ About(ExponentOf(SetGamma(tf, gamma).c), gamma)
<1> DEFINE Named(name) == [tf EXCEPT !.have_gamma = FALSE, !.transfer_function = name]
           power == [tf EXCEPT !.have_gamma = TRUE, !.gamma = gamma, !.transfer_function = "Unknown"]
           Fine(to) == CurveOK(to) /\ About(ExponentOf(to), gamma)
<1>1. gamma > kGammaMul \div kMaxGamma /\ gamma <= kGammaMul
  BY DEF SetGamma, Bad, kGammaMul, kMaxGamma
<1>2. ~(gamma <= kGammaMul \div kMaxGamma \/ gamma > kGammaMul)
  BY <1>1 DEF kGammaMul, kMaxGamma
<1>3. \/ SetGamma(tf, gamma) = Good(Named("Linear")) /\ Approximates(gamma, kGammaMul, 1, 800)
      \/ SetGamma(tf, gamma) = Good(Named("DCI")) /\ Approximates(gamma, 10 * kGammaMul, 26, 800)
      \/ /\ SetGamma(tf, gamma) = Good(power) /\ ~Approximates(gamma, kGammaMul, 1, 800)
         /\ ~Approximates(gamma, 10 * kGammaMul, 26, 800)
  BY <1>2, SMT DEF SetGamma
<1>4. /\ CurveOK(Named("Linear")) /\ Called(Named("Linear"), "Linear")
      /\ CurveOK(Named("DCI")) /\ Called(Named("DCI"), "DCI")
  BY CurveNamed, CurvesAre
<1> HIDE DEF Named
<1>5. /\ ExponentOf(Named("Linear")) = NamedExponent("Linear")
      /\ ExponentOf(Named("DCI")) = NamedExponent("DCI")
  BY <1>4, NamedExponents
<1>6. NamedExponent("Linear") = kGammaMul /\ NamedExponent("DCI") = 3846154
  BY DEF NamedExponent
<1>7. Approximates(gamma, kGammaMul, 1, 800) => Fine(Named("Linear"))
  BY <1>4, <1>5, <1>6 DEF Approximates, AbsoluteOf, kGammaMul, About
<1>8. Approximates(gamma, 10 * kGammaMul, 26, 800) => Fine(Named("DCI"))
  BY <1>4, <1>5, <1>6 DEF Approximates, AbsoluteOf, kGammaMul, About
<1>9. ASSUME ~Approximates(gamma, kGammaMul, 1, 800), ~Approximates(gamma, 10 * kGammaMul, 26, 800)
      PROVE  Fine(power)
  <2>1. CurveOK(power) /\ Raises(power, gamma)
    BY <1>1, <1>9, CurveRaised
  <2> HIDE DEF power
  <2>2. ExponentOf(power) = gamma
    BY <2>1, GivenExponents
  <2>3. gamma # 0 /\ AbsoluteOf(gamma - gamma) <= 800
    BY <1>1 DEF AbsoluteOf, kGammaMul, kMaxGamma
  <2> QED
    BY <2>1, <2>2, <2>3 DEF About
<1> HIDE DEF power, Fine
<1>10. Fine(SetGamma(tf, gamma).c)
  BY <1>3, <1>7, <1>8, <1>9 DEF Good
<1> QED
  BY <1>10 DEF Fine

LEMMA GammaFits ==
    ASSUME NEW tf, NEW gamma \in Int, gamma > kGammaMul \div kMaxGamma, gamma <= kGammaMul
    PROVE  SetGamma(tf, gamma).ok
<1>1. ~(gamma <= kGammaMul \div kMaxGamma \/ gamma > kGammaMul)
  BY DEF kGammaMul, kMaxGamma
<1> QED
  BY <1>1, SMT DEF SetGamma, Good

LEMMA NewCurve ==
    /\ TransferFunction("SRGB") \in Curves /\ ~HasImplicitTF(TransferFunction("SRGB"))
    /\ TransferFunction("SRGB").have_gamma = FALSE
  BY SpacesAre, CurvesAre DEF Curves, TransferFunction, HasImplicitTF, kGammaMul

LEMMA TransferFunctionsAre ==
    /\ DOMAIN TransferFunctions = 1 .. 7 /\ TransferFunctions \in Seq(DOMAIN TransferFunctionNames)
    /\ \A name : (\E m \in DOMAIN TransferFunctions : TransferFunctions[m] = name)
                   <=> name \in DOMAIN TransferFunctionNames
<1>1. DOMAIN TransferFunctions = 1 .. 7
  BY DEF TransferFunctions
<1>2. /\ TransferFunctions[1] = "709" /\ TransferFunctions[2] = "Unknown"
      /\ TransferFunctions[3] = "Linear" /\ TransferFunctions[4] = "SRGB"
      /\ TransferFunctions[5] = "PQ" /\ TransferFunctions[6] = "DCI" /\ TransferFunctions[7] = "HLG"
  BY DEF TransferFunctions
<1>3. TransferFunctions \in Seq(DOMAIN TransferFunctionNames)
  BY CurvesAre DEF TransferFunctions
<1> QED
  BY <1>1, <1>2, <1>3, CurvesAre

(* What a JxlColorEncoding says of the curve.                              *)
LEMMA CurveFromExternal ==
    ASSUME NEW external \in ExternalForms, ExternalTF(external).ok
    PROVE  LET tf == ExternalTF(external).c
           IN  /\ CurveOK(tf)
               /\ IF external.transfer_function = "Gamma" THEN About(ExponentOf(tf), external.gamma)
                  ELSE Called(tf, external.transfer_function)
<1> DEFINE new == TransferFunction("SRGB")
           name == external.transfer_function
<1>1. new \in Curves /\ ~HasImplicitTF(new) /\ new.have_gamma = FALSE
  BY NewCurve
<1> HIDE DEF new
<1>2. external.gamma \in Int
  BY DEF ExternalForms
<1>3. CASE name = "Gamma"
  <2>1. ExternalTF(external) = SetGamma(new, external.gamma)
    BY <1>3 DEF ExternalTF, new
  <2> QED
    BY <1>1, <1>2, <1>3, <2>1, GammaSet
<1>4. CASE name # "Gamma"
  <2>1. ExternalTF(external).c = [new EXCEPT !.transfer_function = name]
        /\ name \in DOMAIN TransferFunctionNames
    BY <1>4, TransferFunctionsAre DEF ExternalTF, new
  <2>2. [new EXCEPT !.transfer_function = name]
          = [new EXCEPT !.have_gamma = FALSE, !.transfer_function = name]
    BY <1>1 DEF Curves
  <2>3. CurveOK([new EXCEPT !.transfer_function = name]) /\ Called([new EXCEPT !.transfer_function = name], name)
    BY <1>1, <2>1, <2>2, CurveNamed
  <2> QED
    BY <1>4, <2>1, <2>3
<1> QED
  BY <1>3, <1>4

(* What it says of the white point and the primaries.                      *)
TakesWhite(external, c) ==
  /\ external.white_point \in WhitePoints
  /\ IF external.white_point = "Custom" THEN Within(external.white_point_xy, GetWhitePoint(c), 8)
     ELSE c.white_point = external.white_point

TakesPrimaries(external, c) ==
  external.color_space \in {"RGB", "Unknown"} =>
    /\ external.primaries \in {"Custom"} \cup DOMAIN KnownPrimaries
    /\ IF external.primaries = "Custom"
       THEN \A m \in 1 .. 3 : Within(external.primaries_xy[m], GetPrimaries(c)[m], 8)
       ELSE c.primaries = external.primaries

LEMMA WhiteFromExternal ==
    ASSUME NEW c, HasFields(c), c.white \in XYs, WhiteOK(c), NEW external \in ExternalForms,
           WithExternalWhitePoint(external, c).ok
    PROVE  LET to == WithExternalWhitePoint(external, c).c
           IN  /\ HasFields(to) /\ WhiteOK(to) /\ TakesWhite(external, to)
               /\ \A g \in FieldNames \ {"white_point", "white"} : to[g] = c[g]
<1> DEFINE Named(name) == [c EXCEPT !.white_point = name]
<1>1. ASSUME NEW name
      PROVE  /\ HasFields(Named(name)) /\ Named(name).white_point = name
             /\ \A g \in FieldNames \ {"white_point"} : Named(name)[g] = c[g]
  BY FieldSet DEF FieldNames
<1>2. external.white_point \in WhitePoints /\ external.white_point_xy \in XYs
  <2>1. external.white_point_xy \in XYs
    BY DEF ExternalForms
  <2>2. external.white_point \notin WhitePoints => WithExternalWhitePoint(external, c) = Bad(c)
    BY SMT DEF WithExternalWhitePoint, WhitePoints
  <2> QED
    BY <2>1, <2>2 DEF Bad
<1>3. CASE external.white_point = "Custom"
  <2> DEFINE to == SetWhitePoint(Named("Custom"), external.white_point_xy)
  <2>1. WithExternalWhitePoint(external, c) = to
    BY <1>2, <1>3, SMT DEF WithExternalWhitePoint
  <2> HIDE DEF Named
  <2>2. Named("Custom").white \in XYs
    BY <1>1 DEF FieldNames
  <2>3. /\ HasFields(to.c) /\ WhiteOK(to.c) /\ Within(external.white_point_xy, GetWhitePoint(to.c), 8)
        /\ \A g \in FieldNames \ {"white_point", "white"} : to.c[g] = Named("Custom")[g]
    BY <1>1, <1>2, <2>1, <2>2, WhitePointSet
  <2> HIDE DEF to
  <2> QED
    BY <1>1, <1>2, <1>3, <2>1, <2>3 DEF TakesWhite
<1>4. CASE external.white_point # "Custom"
  <2>1. WithExternalWhitePoint(external, c).c = Named(external.white_point)
    BY <1>2, <1>4, SMT DEF WithExternalWhitePoint, Good
  <2> HIDE DEF Named
  <2>2. WhiteOK(Named(external.white_point))
    BY <1>1, <1>2, <1>4 DEF WhiteOK, FieldNames
  <2> QED
    BY <1>1, <1>2, <1>4, <2>1, <2>2 DEF TakesWhite
<1> QED
  BY <1>3, <1>4

LEMMA PrimariesFromExternal ==
    ASSUME NEW c, HasFields(c), PrimariesOK(c), NEW external \in ExternalForms,
           WithExternalPrimaries(external, c).ok
    PROVE  LET to == WithExternalPrimaries(external, c).c
           IN  /\ HasFields(to) /\ PrimariesOK(to) /\ TakesPrimaries(external, to)
               /\ \A g \in FieldNames \ {"primaries", "rgb"} : to[g] = c[g]
<1> DEFINE Named(name) == [c EXCEPT !.primaries = name]
<1>1. ASSUME NEW name
      PROVE  /\ HasFields(Named(name)) /\ Named(name).primaries = name
             /\ \A g \in FieldNames \ {"primaries"} : Named(name)[g] = c[g]
  BY FieldSet DEF FieldNames
<1>2. external.primaries_xy \in [1 .. 3 -> XYs]
  BY DEF ExternalForms
<1>3. CASE external.color_space \notin {"RGB", "Unknown"}
  <2>1. WithExternalPrimaries(external, c) = Good(c)
    BY <1>3, SMT DEF WithExternalPrimaries
  <2> QED
    BY <1>3, <2>1 DEF Good, TakesPrimaries
<1>4. CASE external.color_space \in {"RGB", "Unknown"} /\ external.primaries = "Custom"
  <2> DEFINE to == SetPrimaries(Named("Custom"), external.primaries_xy)
  <2>1. WithExternalPrimaries(external, c) = to
    BY <1>4, PrimariesAre, SMT DEF WithExternalPrimaries
  <2> HIDE DEF Named
  <2>2. Named("Custom").rgb \in [1 .. 3 -> XYs]
    BY <1>1 DEF FieldNames, PrimariesOK
  <2>3. /\ HasFields(to.c) /\ PrimariesOK(to.c)
        /\ \A m \in 1 .. 3 : Within(external.primaries_xy[m], GetPrimaries(to.c)[m], 8)
        /\ \A g \in FieldNames \ {"primaries", "rgb"} : to.c[g] = Named("Custom")[g]
    BY <1>1, <1>2, <2>1, <2>2, PrimariesSet
  <2> HIDE DEF to
  <2> QED
    BY <1>1, <1>4, <2>1, <2>3 DEF TakesPrimaries
<1>5. CASE external.color_space \in {"RGB", "Unknown"} /\ external.primaries # "Custom"
  <2>1. external.primaries \notin DOMAIN KnownPrimaries => WithExternalPrimaries(external, c) = Bad(c)
    BY <1>5, SMT DEF WithExternalPrimaries
  <2>2. external.primaries \in DOMAIN KnownPrimaries
    BY <2>1 DEF Bad
  <2>3. WithExternalPrimaries(external, c).c = Named(external.primaries)
    BY <1>5, <2>2, SMT DEF WithExternalPrimaries, Good
  <2> HIDE DEF Named
  <2>4. PrimariesOK(Named(external.primaries))
    BY <1>1, <1>5, <2>2 DEF PrimariesOK, FieldNames
  <2> QED
    BY <1>1, <1>5, <2>2, <2>3, <2>4 DEF TakesPrimaries
<1> QED
  BY <1>3, <1>4, <1>5

(* All that it says.                                                       *)
Takes(external, c) ==
  /\ c.color_space = external.color_space /\ TakesWhite(external, c) /\ TakesPrimaries(external, c)
  /\ ExternalTF(external).ok /\ c.tf = ExternalTF(external).c
  /\ c.rendering_intent = external.rendering_intent

LEMMA FieldsTaken ==
    ASSUME NEW c, EncodingOK(c), NEW external \in ExternalForms, FieldsFromExternal(external, c).ok
    PROVE  LET to == FieldsFromExternal(external, c).c
           IN  /\ EncodingOK(to) /\ Takes(external, to)
               /\ to.icc = c.icc /\ to.cmyk = c.cmyk /\ to.want_icc = c.want_icc
<1> DEFINE spaced == SetColorSpace(c, external.color_space)
           white == WithExternalWhitePoint(external, spaced)
           primaries == WithExternalPrimaries(external, white.c)
           tf == ExternalTF(external)
           curved == [primaries.c EXCEPT !.tf = tf.c]
           to == [curved EXCEPT !.rendering_intent = external.rendering_intent]
<1>1. /\ HasFields(spaced) /\ spaced.color_space = external.color_space
      /\ \A g \in FieldNames \ {"color_space", "tf"} : spaced[g] = c[g]
  BY DEF EncodingOK, SetColorSpace, HasFields, FieldNames
<1>2. white.ok /\ primaries.ok /\ tf.ok
  BY DEF FieldsFromExternal, Bad
<1>3. FieldsFromExternal(external, c).c
        = [primaries.c EXCEPT !.tf = tf.c, !.rendering_intent = external.rendering_intent]
  BY <1>2 DEF FieldsFromExternal, Good
<1> HIDE DEF spaced
<1>4. spaced.white \in XYs /\ WhiteOK(spaced) /\ PrimariesOK(spaced)
  BY <1>1 DEF EncodingOK, WhiteOK, PrimariesOK, FieldNames
<1>5. /\ HasFields(white.c) /\ WhiteOK(white.c) /\ TakesWhite(external, white.c)
      /\ \A g \in FieldNames \ {"white_point", "white"} : white.c[g] = spaced[g]
  BY <1>1, <1>2, <1>4, WhiteFromExternal
<1> HIDE DEF white
<1>6. PrimariesOK(white.c)
  BY <1>4, <1>5 DEF PrimariesOK, FieldNames
<1>7. /\ HasFields(primaries.c) /\ PrimariesOK(primaries.c) /\ TakesPrimaries(external, primaries.c)
      /\ \A g \in FieldNames \ {"primaries", "rgb"} : primaries.c[g] = white.c[g]
  BY <1>2, <1>5, <1>6, PrimariesFromExternal
<1> HIDE DEF primaries
<1>8. /\ HasFields(curved) /\ curved.tf = tf.c
      /\ \A g \in FieldNames \ {"tf"} : curved[g] = primaries.c[g]
  BY <1>7, FieldSet DEF FieldNames
<1>9. to = [primaries.c EXCEPT !.tf = tf.c, !.rendering_intent = external.rendering_intent]
  OBVIOUS
<1> HIDE DEF curved
<1>10. /\ HasFields(to) /\ to.rendering_intent = external.rendering_intent
       /\ \A g \in FieldNames \ {"rendering_intent"} : to[g] = curved[g]
  BY <1>8, FieldSet DEF FieldNames
<1> HIDE DEF to
<1>11. /\ to.color_space = external.color_space /\ to.tf = tf.c
       /\ to.icc = c.icc /\ to.cmyk = c.cmyk /\ to.want_icc = c.want_icc
       /\ to.white_point = white.c.white_point /\ to.white = white.c.white
       /\ to.primaries = primaries.c.primaries /\ to.rgb = primaries.c.rgb
  BY <1>1, <1>5, <1>7, <1>8, <1>10 DEF FieldNames
<1>12. WhiteOK(to) /\ TakesWhite(external, to)
  BY <1>5, <1>11 DEF WhiteOK, TakesWhite, GetWhitePoint
<1>13. PrimariesOK(to) /\ TakesPrimaries(external, to)
  BY <1>7, <1>11 DEF PrimariesOK, TakesPrimaries, GetPrimaries
<1>14. CurveOK(to.tf)
  BY <1>2, <1>11, CurveFromExternal
<1>15. EncodingOK(to)
  BY <1>10, <1>11, <1>12, <1>13, <1>14 DEF EncodingOK, ExternalForms, Spaces
<1> QED
  BY <1>2, <1>3, <1>9, <1>10, <1>11, <1>12, <1>13, <1>15 DEF Takes

LEMMA FieldsCanBeTaken ==
    ASSUME NEW c, NEW external, external.white_point \in WhitePoints,
           external.white_point = "Custom" => CustomWhite_(external.white_point_xy),
           external.color_space \in {"RGB", "Unknown"} =>
             /\ external.primaries \in {"Custom"} \cup DOMAIN KnownPrimaries
             /\ external.primaries = "Custom" => CustomPrimaries_(external.primaries_xy),
           ExternalTF(external).ok
    PROVE  FieldsFromExternal(external, c).ok
<1>1. ASSUME NEW d PROVE WithExternalWhitePoint(external, d).ok
  BY CustomWhiteFits DEF WithExternalWhitePoint, Good
<1>2. ASSUME NEW d PROVE WithExternalPrimaries(external, d).ok
  BY CustomPrimariesFit, PrimariesAre DEF WithExternalPrimaries, Good
<1> QED
  BY <1>1, <1>2 DEF FieldsFromExternal, Good

-----------------------------------------------------------------------------
(* What describes an encoding, to the last digit or to six of them.        *)

DescribesCurve(external, tf) ==
  IF tf.have_gamma
  THEN /\ external.transfer_function = "Gamma" /\ AbsoluteOf(external.gamma - tf.gamma) <= 5
       /\ external.gamma > kGammaMul \div kMaxGamma /\ external.gamma <= kGammaMul
  ELSE external.transfer_function = tf.transfer_function

Describes(external, c) ==
  /\ external \in ExternalForms
  /\ external.color_space = c.color_space /\ external.rendering_intent = c.rendering_intent
  /\ external.white_point = c.white_point
  /\ c.white_point = "Custom" => external.white_point_xy = c.white
  /\ HasPrimaries(c) =>
       /\ external.primaries = c.primaries
       /\ c.primaries = "Custom" => external.primaries_xy = c.rgb
  /\ DescribesCurve(external, c.tf)

LEMMA CurveDescribed ==
    ASSUME NEW tf, CurveOK(tf), NEW external \in ExternalForms, DescribesCurve(external, tf)
    PROVE  /\ ExternalTF(external).ok /\ SameCurve(ExternalTF(external).c, tf)
<1> DEFINE new == ExternalTF(external).c
<1>1. tf.have_gamma \in BOOLEAN /\ tf.gamma \in Int /\ tf.transfer_function \in DOMAIN TransferFunctionNames
  BY DEF CurveOK, Curves
<1>2. external.gamma \in Int
  BY DEF ExternalForms
<1>3. CASE tf.have_gamma
  <2>1. external.transfer_function = "Gamma" /\ AbsoluteOf(external.gamma - tf.gamma) <= 5
    BY <1>3 DEF DescribesCurve
  <2>2. ExternalTF(external).ok
    BY <1>2, <1>3, GammaFits DEF DescribesCurve, ExternalTF
  <2>3. About(ExponentOf(new), external.gamma)
    BY <2>1, <2>2, CurveFromExternal
  <2> HIDE DEF new
  <2>4. ExponentOf(tf) = tf.gamma
    BY <1>3, GivenExponents DEF Raises
  <2>5. AbsoluteOf(ExponentOf(new) - tf.gamma) <= 1600 /\ ExponentOf(new) # 0
    BY <1>1, <1>2, <2>1, <2>3 DEF AbsoluteOf, About
  <2>6. SameCurve(new, tf)
    BY <2>4, <2>5 DEF SameCurve
  <2> QED
    BY <2>2, <2>6 DEF new
<1>4. CASE ~tf.have_gamma
  <2> DEFINE name == tf.transfer_function
  <2>1. external.transfer_function = name /\ name # "Gamma"
    BY <1>1, <1>4, CurvesAre DEF DescribesCurve
  <2>2. ExternalTF(external).ok
    BY <1>1, <2>1, TransferFunctionsAre DEF ExternalTF
  <2>3. Called(new, name) /\ CurveOK(new)
    BY <2>1, <2>2, CurveFromExternal
  <2> HIDE DEF new
  <2>4. Called(tf, name)
    BY <1>4 DEF Called
  <2>5. ExponentOf(new) = NamedExponent(name) /\ ExponentOf(tf) = NamedExponent(name)
    BY <2>3, <2>4, NamedExponents
  <2>6. NamedExponent(name) \in Int
    BY DEF NamedExponent, kGammaMul
  <2>7. IsSame(new, tf)
    BY <2>3, <2>4 DEF IsSame, Called, CurveOK, Curves
  <2>8. SameCurve(new, tf)
    BY <2>5, <2>6, <2>7 DEF SameCurve, AbsoluteOf
  <2> QED
    BY <2>2, <2>8 DEF new
<1> QED
  BY <1>1, <1>3, <1>4

LEMMA Chromaticities_ ==
    ASSUME NEW c
    PROVE  /\ WhiteOK(c) => GetWhitePoint(c) \in XYs
           /\ PrimariesOK(c) => GetPrimaries(c) \in [1 .. 3 -> XYs]
  BY WhitePointsAre, PrimariesAre
     DEF WhiteOK, PrimariesOK, GetWhitePoint, GetPrimaries, WhitePoints, CustomWhite_, CustomPrimaries_

LEMMA WithinIsNear ==
    ASSUME NEW xy \in XYs, NEW other \in XYs
    PROVE  /\ Within(xy, other, 8) => Near(other, xy)
           /\ Near(xy, xy)
  BY DEF Within, Near, AbsoluteOf, XYs

SaysSame(external, c) ==
  LET from == FieldsFromExternal(external, BlankColorEncoding)
  IN  from.ok /\ SameMeaning(from.c, c) /\ from.c.rendering_intent = c.rendering_intent

LEMMA DescribedSame ==
    ASSUME NEW c, EncodingOK(c), c.color_space # "XYB", NEW external, Describes(external, c)
    PROVE  SaysSame(external, c)
<1> DEFINE from == FieldsFromExternal(external, BlankColorEncoding)
<1>1. HasPrimaries(c) <=> c.color_space \in {"RGB", "Unknown"}
  BY SpacesAre DEF EncodingOK, HasPrimaries
<1>2. external \in ExternalForms /\ ExternalTF(external).ok /\ SameCurve(ExternalTF(external).c, c.tf)
  BY CurveDescribed DEF EncodingOK, Describes
<1>3. from.ok
  BY <1>1, <1>2, FieldsCanBeTaken DEF EncodingOK, WhiteOK, PrimariesOK, Describes
<1>4. EncodingOK(from.c) /\ Takes(external, from.c)
  BY <1>2, <1>3, BlankOK, FieldsTaken
<1> HIDE DEF from
<1>5. GetWhitePoint(c) \in XYs /\ GetWhitePoint(from.c) \in XYs
  BY <1>4, Chromaticities_ DEF EncodingOK
<1>6. Near(GetWhitePoint(from.c), GetWhitePoint(c))
  BY <1>4, <1>5, WithinIsNear DEF Takes, TakesWhite, Describes, GetWhitePoint
<1>7. ASSUME HasPrimaries(c), NEW m \in 1 .. 3
      PROVE  Near(GetPrimaries(from.c)[m], GetPrimaries(c)[m])
  <2>1. GetPrimaries(c)[m] \in XYs /\ GetPrimaries(from.c)[m] \in XYs
    BY <1>4, Chromaticities_ DEF EncodingOK
  <2> QED
    BY <1>1, <1>4, <1>7, <2>1, WithinIsNear DEF Takes, TakesPrimaries, Describes, GetPrimaries
<1>8. SameSpace(from.c, c)
  BY <1>1, <1>4, <1>6, <1>7 DEF SameSpace, Takes, Describes, HasPrimaries
<1>9. SameCurve(from.c.tf, c.tf)
  BY <1>2, <1>4 DEF Takes
<1> QED
  BY <1>3, <1>4, <1>8, <1>9 DEF SaysSame, from, SameMeaning, Takes, Describes

LEMMA StructDescribes ==
    ASSUME NEW c, EncodingOK(c)
    PROVE  Describes(ConvertInternalToExternalColorEncoding(c), c)
<1> DEFINE external == ConvertInternalToExternalColorEncoding(c)
           noXYs == <<NoXY, NoXY, NoXY>>
<1>1. /\ c.white_point \in WhitePoints /\ c.primaries \in DOMAIN PrimariesNames
      /\ c.rendering_intent \in DOMAIN RenderingIntentNames /\ c.color_space \in Spaces
  BY PrimariesAre DEF EncodingOK, WhiteOK, PrimariesOK, PrimariesNames
<1>2. /\ c.tf.transfer_function \in DOMAIN TransferFunctionNames /\ c.tf.gamma \in Int
      /\ c.tf.have_gamma \in BOOLEAN
  BY DEF EncodingOK, CurveOK, Curves
<1>3. GetWhitePoint(c) \in XYs /\ GetPrimaries(c) \in [1 .. 3 -> XYs] /\ noXYs \in [1 .. 3 -> XYs]
  BY Chromaticities_ DEF EncodingOK, NoXY, XYs
<1> HIDE DEF noXYs
<1>4. external
        = [color_space |-> c.color_space, white_point |-> c.white_point,
           white_point_xy |-> GetWhitePoint(c),
           primaries |-> IF c.color_space \in {"RGB", "Unknown"} THEN c.primaries ELSE "none",
           primaries_xy |-> IF c.color_space \in {"RGB", "Unknown"} THEN GetPrimaries(c) ELSE noXYs,
           transfer_function |-> IF c.tf.have_gamma THEN "Gamma" ELSE c.tf.transfer_function,
           gamma |-> IF c.tf.have_gamma THEN c.tf.gamma ELSE 0,
           rendering_intent |-> c.rendering_intent]
  BY DEF ConvertInternalToExternalColorEncoding, noXYs
<1> HIDE DEF external
<1>5. external \in ExternalForms
  BY <1>1, <1>2, <1>3, <1>4 DEF ExternalForms, Spaces
<1>6. HasPrimaries(c) <=> c.color_space \in {"RGB", "Unknown"}
  BY <1>1, SpacesAre DEF HasPrimaries
<1>7. DescribesCurve(external, c.tf)
  BY <1>2, <1>4 DEF DescribesCurve, EncodingOK, CurveOK, AbsoluteOf
<1>8. /\ external.color_space = c.color_space /\ external.rendering_intent = c.rendering_intent
      /\ external.white_point = c.white_point /\ external.white_point_xy = GetWhitePoint(c)
      /\ HasPrimaries(c) => external.primaries = c.primaries /\ external.primaries_xy = GetPrimaries(c)
  BY <1>4, <1>6
<1> QED
  BY <1>5, <1>7, <1>8 DEF Describes, GetWhitePoint, GetPrimaries, external

-----------------------------------------------------------------------------
(* The text.                                                               *)

LEMMA NamesAreRead ==
    /\ \A s \in Spaces : /\ SpaceNames[s] \in DOMAIN kJxlColorSpaceNames
                         /\ kJxlColorSpaceNames[SpaceNames[s]] = s
    /\ \A w \in WhitePoints : /\ WhitePointNames[w] \in DOMAIN kJxlWhitePointNames
                              /\ kJxlWhitePointNames[WhitePointNames[w]] = w
    /\ \A p \in DOMAIN KnownPrimaries : /\ PrimariesNames[p] \in DOMAIN kJxlPrimariesNames
                                        /\ kJxlPrimariesNames[PrimariesNames[p]] = p
    /\ \A t \in DOMAIN TransferFunctionNames :
         /\ TransferFunctionNames[t] \in DOMAIN kJxlTransferFunctionNames
         /\ kJxlTransferFunctionNames[TransferFunctionNames[t]] = t
    /\ \A n \in DOMAIN RenderingIntentNames :
         /\ RenderingIntentNames[n] \in DOMAIN kJxlRenderingIntentNames
         /\ kJxlRenderingIntentNames[RenderingIntentNames[n]] = n
<1>1. \A s \in Spaces : /\ SpaceNames[s] \in DOMAIN kJxlColorSpaceNames
                        /\ kJxlColorSpaceNames[SpaceNames[s]] = s
  BY SpacesAre DEF SpaceNames, kJxlColorSpaceNames
<1>2. \A w \in WhitePoints : /\ WhitePointNames[w] \in DOMAIN kJxlWhitePointNames
                             /\ kJxlWhitePointNames[WhitePointNames[w]] = w
  BY DEF WhitePoints, WhitePointNames, kJxlWhitePointNames
<1>3. \A p \in DOMAIN KnownPrimaries : /\ PrimariesNames[p] \in DOMAIN kJxlPrimariesNames
                                       /\ kJxlPrimariesNames[PrimariesNames[p]] = p
  BY PrimariesAre DEF PrimariesNames, kJxlPrimariesNames
<1>4. \A t \in DOMAIN TransferFunctionNames :
        /\ TransferFunctionNames[t] \in DOMAIN kJxlTransferFunctionNames
        /\ kJxlTransferFunctionNames[TransferFunctionNames[t]] = t
  BY CurvesAre DEF TransferFunctionNames, kJxlTransferFunctionNames
<1>5. \A n \in DOMAIN RenderingIntentNames :
        /\ RenderingIntentNames[n] \in DOMAIN kJxlRenderingIntentNames
        /\ kJxlRenderingIntentNames[RenderingIntentNames[n]] = n
  BY IntentsAre DEF RenderingIntentNames, kJxlRenderingIntentNames
<1> QED
  BY <1>1, <1>2, <1>3, <1>4, <1>5

LEMMA NamesNotEmpty ==
    /\ \A s \in Spaces : SpaceNames[s] # ""
    /\ \A w \in WhitePoints : WhitePointNames[w] # ""
    /\ \A p \in DOMAIN KnownPrimaries : PrimariesNames[p] # ""
    /\ \A t \in DOMAIN TransferFunctionNames : TransferFunctionNames[t] # ""
    /\ \A n \in DOMAIN RenderingIntentNames : RenderingIntentNames[n] # ""
<1>1. \A s \in Spaces : SpaceNames[s] # ""
  <2>1. \A s \in Spaces : SpaceNames[s] \in {"RGB", "Gra", "XYB", "CS?"}
    BY SpacesAre DEF SpaceNames
  <2>2. "" \notin {"RGB", "Gra", "XYB", "CS?"}
    BY Zenon
  <2> QED
    BY <2>1, <2>2, Zenon
<1>2. \A w \in WhitePoints : WhitePointNames[w] # ""
  <2>1. \A w \in WhitePoints : WhitePointNames[w] \in {"D65", "Cst", "EER", "DCI"}
    BY DEF WhitePoints, WhitePointNames
  <2>2. "" \notin {"D65", "Cst", "EER", "DCI"}
    BY Zenon
  <2> QED
    BY <2>1, <2>2, Zenon
<1>3. \A p \in DOMAIN KnownPrimaries : PrimariesNames[p] # ""
  BY PrimariesAre DEF PrimariesNames
<1>4. \A t \in DOMAIN TransferFunctionNames : TransferFunctionNames[t] # ""
  BY CurvesAre DEF TransferFunctionNames
<1>5. \A n \in DOMAIN RenderingIntentNames : RenderingIntentNames[n] # ""
  <2>1. \A n \in DOMAIN RenderingIntentNames : RenderingIntentNames[n] \in {"Per", "Rel", "Sat", "Abs"}
    BY IntentsAre DEF RenderingIntentNames
  <2>2. "" \notin {"Per", "Rel", "Sat", "Abs"}
    BY Zenon
  <2> QED
    BY <2>1, <2>2, Zenon
<1> QED
  BY <1>1, <1>2, <1>3, <1>4, <1>5

LEMMA WordIsRead ==
    ASSUME NEW w, NEW names, NEW tokens, tokens # <<>>, tokens[1] = Word_(w)
    PROVE  /\ IsEnum(tokens, names) <=> w # "" /\ w \in DOMAIN names
           /\ EnumOf(tokens, names) = names[w]
<1> DEFINE token == tokens[1]
<1>1. "word" \in DOMAIN token /\ token.word = w
  BY DEF Word_
<1> HIDE DEF token
<1>2. IsEnum(tokens, names) <=> (/\ tokens # <<>> /\ "word" \in DOMAIN token
                              /\ token.word # "" /\ token.word \in DOMAIN names)
  BY Zenon DEF IsEnum, token
<1>3. EnumOf(tokens, names) = names[token.word]
  BY DEF EnumOf, token
<1> QED
  BY <1>1, <1>2, <1>3

LEMMA NameIsRead ==
    ASSUME NEW w, NEW names, NEW tokens, tokens # <<>>, tokens[1] = Word_(w),
           w # "", w \in DOMAIN names
    PROVE  IsEnum(tokens, names) /\ EnumOf(tokens, names) = names[w]
  BY WordIsRead

LEMMA PairIsList ==
    ASSUME NEW xy \in XYs
    PROVE  xy \in Seq(Int) /\ Len(xy) = 2
<1>1. xy \in Seq(Int)
  BY SeqDef DEF XYs
<1> QED
  BY <1>1, LenProperties DEF XYs

LEMMA PairIsRead ==
    ASSUME NEW xy \in XYs
    PROVE  xy # <<>> /\ FirstTwo(xy) = xy
<1>1. xy \in Seq(Int) /\ Len(xy) = 2
  BY PairIsList
<1>2. xy = <<xy[1], xy[2]>>
  BY <1>1
<1>3. xy # <<>> /\ Len(xy) # 1
  BY <1>1
<1> QED
  BY <1>2, <1>3, Zenon DEF FirstTwo

LEMMA SpaceIsRead ==
    ASSUME NEW s \in Spaces, NEW p, p.rest # <<>>, p.rest[1] = Word_(SpaceNames[s])
    PROVE  ParseColorSpace(p) = Parses(TRUE, [p.c EXCEPT !.color_space = s], p)
<1>1. SpaceNames[s] # "" /\ SpaceNames[s] \in DOMAIN kJxlColorSpaceNames /\ kJxlColorSpaceNames[SpaceNames[s]] = s
  BY NamesAreRead, NamesNotEmpty
<1>2. IsEnum(p.rest, kJxlColorSpaceNames) /\ EnumOf(p.rest, kJxlColorSpaceNames) = s
  BY <1>1, NameIsRead
<1> QED
  BY <1>2 DEF ParseColorSpace, Parses

LEMMA WhiteIsRead ==
    ASSUME NEW c, WhiteOK(c), c.color_space # "XYB", NEW p, p.c.color_space # "XYB",
           p.rest # <<>>, p.rest[1] = WhitePointTokens(c)[1]
    PROVE  ParseWhitePoint(p)
             = Parses(TRUE, IF c.white_point = "Custom"
                            THEN [p.c EXCEPT !.white_point = "Custom", !.white_point_xy = c.white]
                            ELSE [p.c EXCEPT !.white_point = c.white_point], p)
<1>1. CASE c.white_point = "Custom"
  <2>1. p.rest[1] = [numbers |-> c.white]
    BY <1>1 DEF WhitePointTokens, Numbers, GetWhitePoint
  <2>2. ~IsEnum(p.rest, kJxlWhitePointNames)
    BY <2>1 DEF IsEnum
  <2> DEFINE token == p.rest[1]
  <2>3. "numbers" \in DOMAIN token /\ token.numbers = c.white
    BY <2>1
  <2> HIDE DEF token
  <2>4. c.white # <<>> /\ FirstTwo(c.white) = c.white
    BY PairIsRead DEF WhiteOK
  <2>5. NumbersOf(token) = token.numbers
    BY <2>3 DEF NumbersOf
  <2>6. AreNumbers(p.rest) /\ FirstTwo(NumbersOf(p.rest[1])) = c.white
    BY <2>3, <2>4, <2>5 DEF AreNumbers, token
  <2> QED
    BY <1>1, <2>2, <2>6 DEF ParseWhitePoint
<1>2. CASE c.white_point # "Custom"
  <2>1. p.rest[1] = Word_(WhitePointNames[c.white_point])
    BY <1>2 DEF WhitePointTokens
  <2>2. WhitePointNames[c.white_point] # "" /\ WhitePointNames[c.white_point] \in DOMAIN kJxlWhitePointNames /\ kJxlWhitePointNames[WhitePointNames[c.white_point]] = c.white_point
    BY <2>1, NamesAreRead, NamesNotEmpty DEF WhiteOK
  <2>3. IsEnum(p.rest, kJxlWhitePointNames) /\ EnumOf(p.rest, kJxlWhitePointNames) = c.white_point
    BY <2>1, <2>2, NameIsRead
  <2> QED
    BY <1>2, <2>3 DEF ParseWhitePoint
<1> QED
  BY <1>1, <1>2

LEMMA PrimariesAreRead ==
    ASSUME NEW c, PrimariesOK(c), HasPrimaries(c), NEW p, p.c.color_space \notin {"Gray", "XYB"},
           p.rest # <<>>, p.rest[1] = PrimariesTokens(c)[1]
    PROVE  IF c.primaries = "Custom" THEN ~ParsePrimaries(p).ok
           ELSE ParsePrimaries(p)
                  = Parses(TRUE, [p.c EXCEPT !.primaries = c.primaries], p)
<1>1. CASE c.primaries = "Custom"
  <2>1. ~("word" \in DOMAIN p.rest[1])
    BY <1>1 DEF PrimariesTokens, Numbers
  <2> QED
    BY <1>1, <2>1 DEF ParsePrimaries, IsEnum, Parses
<1>2. CASE c.primaries # "Custom"
  <2>1. p.rest[1] = Word_(PrimariesNames[c.primaries])
    BY <1>2 DEF PrimariesTokens
  <2>2. PrimariesNames[c.primaries] # "" /\ PrimariesNames[c.primaries] \in DOMAIN kJxlPrimariesNames /\ kJxlPrimariesNames[PrimariesNames[c.primaries]] = c.primaries
    BY <1>2, <2>1, NamesAreRead, NamesNotEmpty DEF PrimariesOK
  <2>3. IsEnum(p.rest, kJxlPrimariesNames) /\ EnumOf(p.rest, kJxlPrimariesNames) = c.primaries
    BY <2>1, <2>2, NameIsRead
  <2> QED
    BY <1>2, <2>3 DEF ParsePrimaries, Parses
<1> QED
  BY <1>1, <1>2

LEMMA IntentIsRead ==
    ASSUME NEW n \in DOMAIN RenderingIntentNames, NEW p, p.rest # <<>>,
           p.rest[1] = Word_(RenderingIntentNames[n])
    PROVE  ParseRenderingIntent(p)
             = Parses(TRUE, [p.c EXCEPT !.rendering_intent = n], p)
<1>1. RenderingIntentNames[n] # "" /\ RenderingIntentNames[n] \in DOMAIN kJxlRenderingIntentNames /\ kJxlRenderingIntentNames[RenderingIntentNames[n]] = n
  BY NamesAreRead, NamesNotEmpty
<1>2. IsEnum(p.rest, kJxlRenderingIntentNames) /\ EnumOf(p.rest, kJxlRenderingIntentNames) = n
  BY <1>1, NameIsRead
<1> QED
  BY <1>2 DEF ParseRenderingIntent, Parses

LEMMA CurveIsRead ==
    ASSUME NEW tf, CurveOK(tf), NEW p, p.c.color_space # "XYB",
           p.rest # <<>>, p.rest[1] = TransferFunctionTokens(tf)[1]
    PROVE  LET got == ParseTransferFunction(p)
           IN  /\ got.ok
               /\ got.c = IF tf.have_gamma
                           THEN [p.c EXCEPT !.transfer_function = "Gamma", !.gamma = SixDigits(tf.gamma)]
                           ELSE [p.c EXCEPT !.transfer_function = tf.transfer_function]
<1>1. CASE tf.have_gamma
  <2>1. p.rest[1] = [g |-> SixDigits(tf.gamma)]
    BY <1>1 DEF TransferFunctionTokens, CurveOK, GammaToken
  <2>2. ~IsEnum(p.rest, kJxlTransferFunctionNames) /\ "g" \in DOMAIN p.rest[1]
        /\ p.rest[1].g = SixDigits(tf.gamma)
    BY <2>1 DEF IsEnum
  <2> QED
    BY <1>1, <2>2 DEF ParseTransferFunction, Parses, IsGamma
<1>2. CASE ~tf.have_gamma
  <2>1. p.rest[1] = Word_(TransferFunctionNames[tf.transfer_function])
        /\ tf.transfer_function \in DOMAIN TransferFunctionNames
    BY <1>2 DEF TransferFunctionTokens, CurveOK, Curves
  <2>2. TransferFunctionNames[tf.transfer_function] # "" /\ TransferFunctionNames[tf.transfer_function] \in DOMAIN kJxlTransferFunctionNames /\ kJxlTransferFunctionNames[TransferFunctionNames[tf.transfer_function]] = tf.transfer_function
    BY <2>1, NamesAreRead, NamesNotEmpty
  <2>3. IsEnum(p.rest, kJxlTransferFunctionNames) /\ EnumOf(p.rest, kJxlTransferFunctionNames) = tf.transfer_function
    BY <2>1, <2>2, NameIsRead
  <2> QED
    BY <1>2, <2>3 DEF ParseTransferFunction, Parses
<1> QED
  BY <1>1, <1>2 DEF CurveOK, Curves

LEMMA SixDigitsEnough ==
    ASSUME NEW tf, CurveOK(tf), tf.have_gamma
    PROVE  /\ SixDigits(tf.gamma) \in Int /\ AbsoluteOf(SixDigits(tf.gamma) - tf.gamma) <= 5
           /\ SixDigits(tf.gamma) > kGammaMul \div kMaxGamma /\ SixDigits(tf.gamma) <= kGammaMul
  BY DEF CurveOK, Curves, SixDigits, AbsoluteOf, Approximates, kGammaMul, kMaxGamma

-----------------------------------------------------------------------------
(* Sequences.                                                              *)

LEMMA Extended ==
    ASSUME NEW S, NEW s \in Seq(S), NEW x \in S, NEW to \in Seq(S), Len(to) = Len(s) + 1,
           \A m \in 1 .. Len(s) : to[m] = s[m], to[Len(s) + 1] = x
    PROVE  s \o <<x>> = to
<1>1. Append(s, x) \in Seq(S) /\ Len(Append(s, x)) = Len(s) + 1
  OBVIOUS
<1>2. \A m \in 1 .. Len(s) + 1 : Append(s, x)[m] = to[m]
  OBVIOUS
<1>3. Append(s, x) = to
  BY <1>1, <1>2, SeqEqual
<1> QED
  BY <1>3, AppendIsConcat

Joins(a, b, c, d, e) ==
  /\ <<a>> \o <<b>> \o <<c>> \o <<d>> \o <<e>> = <<a, b, c, d, e>>
  /\ <<a>> \o <<b>> \o <<>> \o <<d>> \o <<e>> = <<a, b, d, e>>

LEMMA Joined ==
    ASSUME NEW a, NEW b, NEW c, NEW d, NEW e
    PROVE  Joins(a, b, c, d, e)
<1> DEFINE S == {a, b, c, d, e}
           one == <<a>>
           two == <<a, b>>
           three == <<a, b, c>>
           four == <<a, b, c, d>>
           five == <<a, b, c, d, e>>
           skipped == <<a, b, d>>
           short == <<a, b, d, e>>
<1>1. /\ one \in Seq(S) /\ two \in Seq(S) /\ three \in Seq(S) /\ four \in Seq(S) /\ five \in Seq(S)
      /\ skipped \in Seq(S) /\ short \in Seq(S)
      /\ b \in S /\ c \in S /\ d \in S /\ e \in S
  OBVIOUS
<1>2. /\ Len(one) = 1 /\ Len(two) = 2 /\ Len(three) = 3 /\ Len(four) = 4 /\ Len(five) = 5
      /\ two[2] = b /\ three[3] = c /\ four[4] = d /\ five[5] = e
      /\ Len(skipped) = 3 /\ Len(short) = 4 /\ skipped[3] = d /\ short[4] = e
  OBVIOUS
<1>3. /\ \A m \in 1 .. 1 : two[m] = one[m]
      /\ \A m \in 1 .. 2 : three[m] = two[m]
      /\ \A m \in 1 .. 3 : four[m] = three[m]
      /\ \A m \in 1 .. 4 : five[m] = four[m]
      /\ \A m \in 1 .. 2 : skipped[m] = two[m]
      /\ \A m \in 1 .. 3 : short[m] = skipped[m]
  OBVIOUS
<1> HIDE DEF S, one, two, three, four, five, skipped, short
<1>4. /\ Len(two) = Len(one) + 1 /\ Len(three) = Len(two) + 1 /\ Len(four) = Len(three) + 1
      /\ Len(five) = Len(four) + 1
      /\ two[Len(one) + 1] = b /\ three[Len(two) + 1] = c /\ four[Len(three) + 1] = d
      /\ five[Len(four) + 1] = e
      /\ Len(skipped) = Len(two) + 1 /\ Len(short) = Len(skipped) + 1
      /\ skipped[Len(two) + 1] = d /\ short[Len(skipped) + 1] = e
  BY <1>2
<1>5. /\ \A m \in 1 .. Len(one) : two[m] = one[m]
      /\ \A m \in 1 .. Len(two) : three[m] = two[m]
      /\ \A m \in 1 .. Len(three) : four[m] = three[m]
      /\ \A m \in 1 .. Len(four) : five[m] = four[m]
      /\ \A m \in 1 .. Len(two) : skipped[m] = two[m]
      /\ \A m \in 1 .. Len(skipped) : short[m] = skipped[m]
  BY <1>2, <1>3
<1>6. one \o <<b>> = two
  BY <1>1, <1>4, <1>5, Extended
<1>7. two \o <<c>> = three
  BY <1>1, <1>4, <1>5, Extended
<1>8. three \o <<d>> = four
  BY <1>1, <1>4, <1>5, Extended
<1>9. four \o <<e>> = five
  BY <1>1, <1>4, <1>5, Extended
<1>10. two \o <<>> = two
  BY <1>1, ConcatEmptySeq
<1>11. one \o <<b>> \o <<c>> \o <<d>> \o <<e>> = five
  BY <1>6, <1>7, <1>8, <1>9, Zenon
<1>12. two \o <<d>> = skipped
  BY <1>1, <1>4, <1>5, Extended
<1>13. skipped \o <<e>> = short
  BY <1>1, <1>4, <1>5, Extended
<1>14. one \o <<b>> \o <<>> \o <<d>> \o <<e>> = short
  BY <1>6, <1>10, <1>12, <1>13, Zenon
<1> QED
  BY <1>11, <1>14 DEF one, five, short, Joins

-----------------------------------------------------------------------------
(* The description of an encoding, read.                                   *)

LEMMA NoExternalIs ==
    NoExternal \in ExternalForms
<1>1. NoXY \in XYs /\ <<NoXY, NoXY, NoXY>> \in [1 .. 3 -> XYs]
  BY DEF NoXY, XYs
<1> QED
  BY <1>1, SpacesAre, IntentsAre DEF NoExternal, ExternalForms, Spaces

LEMMA ExternalSet ==
    ASSUME NEW e \in ExternalForms
    PROVE  /\ \A v \in Spaces :
                LET to == [e EXCEPT !.color_space = v]
                IN  to \in ExternalForms /\ to.color_space = v
           /\ \A v \in WhitePoints :
                LET to == [e EXCEPT !.white_point = v]
                IN  to \in ExternalForms /\ to.white_point = v /\ to.color_space = e.color_space
           /\ \A v \in WhitePoints, xy \in XYs :
                LET to == [e EXCEPT !.white_point = v, !.white_point_xy = xy]
                IN  /\ to \in ExternalForms /\ to.white_point = v /\ to.white_point_xy = xy
                    /\ to.color_space = e.color_space
           /\ \A v \in DOMAIN PrimariesNames :
                LET to == [e EXCEPT !.primaries = v]
                IN  /\ to \in ExternalForms /\ to.primaries = v
                    /\ to.color_space = e.color_space /\ to.white_point = e.white_point
                    /\ to.white_point_xy = e.white_point_xy
           /\ \A v \in DOMAIN RenderingIntentNames :
                LET to == [e EXCEPT !.rendering_intent = v]
                IN  /\ to \in ExternalForms /\ to.rendering_intent = v
                    /\ to.color_space = e.color_space /\ to.white_point = e.white_point
                    /\ to.white_point_xy = e.white_point_xy /\ to.primaries = e.primaries
           /\ \A v \in DOMAIN TransferFunctionNames \cup {"Gamma"} :
                LET to == [e EXCEPT !.transfer_function = v]
                IN  /\ to \in ExternalForms /\ to.transfer_function = v
                    /\ to.color_space = e.color_space /\ to.white_point = e.white_point
                    /\ to.white_point_xy = e.white_point_xy /\ to.primaries = e.primaries
                    /\ to.rendering_intent = e.rendering_intent
           /\ \A v \in Int :
                LET to == [e EXCEPT !.transfer_function = "Gamma", !.gamma = v]
                IN  /\ to \in ExternalForms /\ to.transfer_function = "Gamma" /\ to.gamma = v
                    /\ to.color_space = e.color_space /\ to.white_point = e.white_point
                    /\ to.white_point_xy = e.white_point_xy /\ to.primaries = e.primaries
                    /\ to.rendering_intent = e.rendering_intent
  BY DEF ExternalForms, Spaces

LEMMA TokensOf ==
    ASSUME NEW c, EncodingOK(c), c.color_space # "XYB"
    PROVE  /\ WhitePointTokens(c) = <<WhitePointTokens(c)[1]>>
           /\ TransferFunctionTokens(c.tf) = <<TransferFunctionTokens(c.tf)[1]>>
           /\ HasPrimaries(c) => PrimariesTokens(c) = <<PrimariesTokens(c)[1]>>
           /\ ~HasPrimaries(c) => PrimariesTokens(c) = <<>>
<1>1. WhitePointTokens(c) = <<WhitePointTokens(c)[1]>>
  BY DEF WhitePointTokens
<1>2. ~HasImplicitTF(c.tf)
  BY DEF EncodingOK, CurveOK
<1>3. TransferFunctionTokens(c.tf) = <<TransferFunctionTokens(c.tf)[1]>>
  BY <1>2 DEF TransferFunctionTokens
<1>4. HasPrimaries(c) => PrimariesTokens(c) = <<PrimariesTokens(c)[1]>>
  BY DEF PrimariesTokens
<1>5. ~HasPrimaries(c) => PrimariesTokens(c) = <<>>
  BY DEF PrimariesTokens
<1> QED
  BY <1>1, <1>3, <1>4, <1>5

LEMMA DescriptionIs ==
    ASSUME NEW c, EncodingOK(c), c.color_space # "XYB"
    PROVE  LET space == Word_(SpaceNames[c.color_space])
               white == WhitePointTokens(c)[1]
               primaries == PrimariesTokens(c)[1]
               intent == Word_(RenderingIntentNames[c.rendering_intent])
               curve == TransferFunctionTokens(c.tf)[1]
           IN  Description(c) = IF HasPrimaries(c) THEN <<space, white, primaries, intent, curve>>
                                ELSE <<space, white, intent, curve>>
<1> DEFINE space == Word_(SpaceNames[c.color_space])
           white == WhitePointTokens(c)[1]
           primaries == PrimariesTokens(c)[1]
           intent == Word_(RenderingIntentNames[c.rendering_intent])
           curve == TransferFunctionTokens(c.tf)[1]
<1>1. Description(c)
        = <<space>> \o WhitePointTokens(c) \o PrimariesTokens(c) \o <<intent>> \o TransferFunctionTokens(c.tf)
  BY DEF Description
<1>2. /\ WhitePointTokens(c) = <<white>> /\ TransferFunctionTokens(c.tf) = <<curve>>
      /\ HasPrimaries(c) => PrimariesTokens(c) = <<primaries>>
      /\ ~HasPrimaries(c) => PrimariesTokens(c) = <<>>
  BY TokensOf
<1> HIDE DEF space, white, primaries, intent, curve
<1>3. Joins(space, white, primaries, intent, curve)
  BY Joined
<1>4. Description(c) = IF HasPrimaries(c) THEN <<space, white, primaries, intent, curve>>
                       ELSE <<space, white, intent, curve>>
  BY <1>1, <1>2, <1>3, Zenon DEF Joins
<1> QED
  BY <1>4 DEF space, white, primaries, intent, curve

(* How far a description has been read.                                    *)
ReadsOn(p, c, fields) ==
  /\ p.ok = TRUE /\ p.c \in ExternalForms
  /\ p.c.color_space = c.color_space
  /\ "white" \in fields =>
       /\ p.c.white_point = c.white_point
       /\ c.white_point = "Custom" => p.c.white_point_xy = c.white
  /\ "primaries" \in fields /\ HasPrimaries(c) => p.c.primaries = c.primaries
  /\ "intent" \in fields => p.c.rendering_intent = c.rendering_intent

LEMMA ReadSpace ==
    ASSUME NEW c, EncodingOK(c), NEW p, p.c \in ExternalForms, p.rest # <<>>,
           p.rest[1] = Word_(SpaceNames[c.color_space])
    PROVE  ReadsOn(ParseColorSpace(p), c, {}) /\ ParseColorSpace(p).rest = NextRest(p)
<1> DEFINE e == p.c
           to == [e EXCEPT !.color_space = c.color_space]
<1>1. c.color_space \in Spaces
  BY DEF EncodingOK
<1>2. ParseColorSpace(p) = Parses(TRUE, to, p)
  BY <1>1, SpaceIsRead
<1>3. to \in ExternalForms /\ to.color_space = c.color_space
  BY <1>1 DEF ExternalForms, Spaces
<1> HIDE DEF to
<1> QED
  BY <1>2, <1>3 DEF ReadsOn, Parses

LEMMA ReadWhite ==
    ASSUME NEW c, EncodingOK(c), c.color_space # "XYB", NEW p, ReadsOn(p, c, {}),
           p.rest # <<>>, p.rest[1] = WhitePointTokens(c)[1]
    PROVE  ReadsOn(ParseWhitePoint(p), c, {"white"}) /\ ParseWhitePoint(p).rest = NextRest(p)
<1> DEFINE e == p.c
           custom == [e EXCEPT !.white_point = "Custom", !.white_point_xy = c.white]
           named == [e EXCEPT !.white_point = c.white_point]
           to == IF c.white_point = "Custom" THEN custom ELSE named
<1>1. e \in ExternalForms /\ e.color_space = c.color_space
  BY DEF ReadsOn
<1>2. WhiteOK(c) /\ c.white_point \in WhitePoints /\ c.white \in XYs
  BY DEF EncodingOK, WhiteOK
<1>3. ParseWhitePoint(p) = Parses(TRUE, to, p)
  BY <1>1, <1>2, WhiteIsRead
<1>4. /\ custom \in ExternalForms /\ custom.color_space = e.color_space
      /\ custom.white_point = "Custom" /\ custom.white_point_xy = c.white
  BY <1>1, <1>2 DEF ExternalForms, WhitePoints
<1>5. /\ named \in ExternalForms /\ named.color_space = e.color_space
      /\ named.white_point = c.white_point
  BY <1>1, <1>2 DEF ExternalForms
<1> HIDE DEF custom, named
<1>6. /\ to \in ExternalForms /\ to.color_space = e.color_space /\ to.white_point = c.white_point
      /\ c.white_point = "Custom" => to.white_point_xy = c.white
  BY <1>4, <1>5
<1> HIDE DEF to
<1> QED
  BY <1>1, <1>3, <1>6 DEF ReadsOn, Parses

LEMMA ReadPrimaries ==
    ASSUME NEW c, EncodingOK(c), c.color_space # "XYB", NEW p, ReadsOn(p, c, {"white"}),
           HasPrimaries(c) => p.rest # <<>> /\ p.rest[1] = PrimariesTokens(c)[1]
    PROVE  IF HasPrimaries(c) /\ c.primaries = "Custom" THEN ~ParsePrimaries(p).ok
           ELSE /\ ReadsOn(ParsePrimaries(p), c, {"white", "primaries"})
                /\ ParsePrimaries(p).rest = IF HasPrimaries(c) THEN NextRest(p) ELSE p.rest
<1> DEFINE e == p.c
           to == [e EXCEPT !.primaries = c.primaries]
<1>1. e \in ExternalForms /\ e.color_space = c.color_space
  BY DEF ReadsOn
<1>2. HasPrimaries(c) <=> e.color_space \notin {"Gray", "XYB"}
  BY <1>1 DEF HasPrimaries
<1>3. CASE ~HasPrimaries(c)
  <2>1. p.c.color_space \in {"Gray", "XYB"}
    BY <1>2, <1>3
  <2>2. ParsePrimaries(p) = p
    BY <2>1, SMT DEF ParsePrimaries, Parses
  <2> QED
    BY <1>3, <2>2 DEF ReadsOn
<1>4. CASE HasPrimaries(c) /\ c.primaries = "Custom"
  <2>1. PrimariesOK(c)
    BY DEF EncodingOK
  <2> QED
    BY <1>2, <1>4, <2>1, PrimariesAreRead
<1>5. CASE HasPrimaries(c) /\ c.primaries # "Custom"
  <2>1. PrimariesOK(c) /\ c.primaries \in DOMAIN PrimariesNames
    BY PrimariesAre DEF EncodingOK, PrimariesOK, PrimariesNames
  <2>2. ParsePrimaries(p) = Parses(TRUE, to, p)
    BY <1>2, <1>5, <2>1, PrimariesAreRead
  <2>3. /\ to \in ExternalForms /\ to.primaries = c.primaries /\ to.color_space = e.color_space
        /\ to.white_point = e.white_point /\ to.white_point_xy = e.white_point_xy
    BY <1>1, <2>1 DEF ExternalForms
  <2> HIDE DEF to
  <2> QED
    BY <1>5, <2>2, <2>3 DEF ReadsOn, Parses
<1> QED
  BY <1>3, <1>4, <1>5

LEMMA ReadIntent ==
    ASSUME NEW c, EncodingOK(c), NEW p, ReadsOn(p, c, {"white", "primaries"}), p.rest # <<>>,
           p.rest[1] = Word_(RenderingIntentNames[c.rendering_intent])
    PROVE  /\ ReadsOn(ParseRenderingIntent(p), c, {"white", "primaries", "intent"})
           /\ ParseRenderingIntent(p).rest = NextRest(p)
<1> DEFINE e == p.c
           to == [e EXCEPT !.rendering_intent = c.rendering_intent]
<1>1. e \in ExternalForms /\ c.rendering_intent \in DOMAIN RenderingIntentNames
  BY DEF ReadsOn, EncodingOK
<1>2. ParseRenderingIntent(p) = Parses(TRUE, to, p)
  BY <1>1, IntentIsRead
<1>3. /\ to \in ExternalForms /\ to.rendering_intent = c.rendering_intent
      /\ to.primaries = e.primaries /\ to.color_space = e.color_space
      /\ to.white_point = e.white_point /\ to.white_point_xy = e.white_point_xy
  BY <1>1 DEF ExternalForms
<1> HIDE DEF to
<1> QED
  BY <1>2, <1>3 DEF ReadsOn, Parses

LEMMA ReadCurve ==
    ASSUME NEW c, EncodingOK(c), c.color_space # "XYB", NEW p,
           ReadsOn(p, c, {"white", "primaries", "intent"}), HasPrimaries(c) => c.primaries # "Custom",
           p.rest # <<>>, p.rest[1] = TransferFunctionTokens(c.tf)[1]
    PROVE  ParseTransferFunction(p).ok /\ Describes(ParseTransferFunction(p).c, c)
<1> DEFINE e == p.c
           named == [e EXCEPT !.transfer_function = c.tf.transfer_function]
           power == [e EXCEPT !.transfer_function = "Gamma", !.gamma = SixDigits(c.tf.gamma)]
           to == IF c.tf.have_gamma THEN power ELSE named
<1>1. e \in ExternalForms /\ e.color_space = c.color_space
  BY DEF ReadsOn
<1>2. CurveOK(c.tf) /\ c.tf.transfer_function \in DOMAIN TransferFunctionNames
  BY DEF EncodingOK, CurveOK, Curves
<1>3. ParseTransferFunction(p).ok /\ ParseTransferFunction(p).c = to
  BY <1>1, <1>2, CurveIsRead
<1>4. /\ c.tf.have_gamma =>
           /\ power \in ExternalForms /\ power.transfer_function = "Gamma"
           /\ power.gamma = SixDigits(c.tf.gamma)
      /\ power.color_space = e.color_space /\ power.white_point = e.white_point
      /\ power.white_point_xy = e.white_point_xy /\ power.primaries = e.primaries
      /\ power.rendering_intent = e.rendering_intent
  BY <1>1, <1>2, SixDigitsEnough DEF ExternalForms
<1>5. /\ named \in ExternalForms /\ named.transfer_function = c.tf.transfer_function
      /\ named.color_space = e.color_space /\ named.white_point = e.white_point
      /\ named.white_point_xy = e.white_point_xy /\ named.primaries = e.primaries
      /\ named.rendering_intent = e.rendering_intent
  BY <1>1, <1>2 DEF ExternalForms
<1> HIDE DEF power, named
<1>6. /\ to \in ExternalForms
      /\ to.color_space = e.color_space /\ to.white_point = e.white_point
      /\ to.white_point_xy = e.white_point_xy /\ to.primaries = e.primaries
      /\ to.rendering_intent = e.rendering_intent
  BY <1>4, <1>5
<1>7. DescribesCurve(to, c.tf)
  BY <1>2, <1>4, <1>5, SixDigitsEnough DEF DescribesCurve
<1> HIDE DEF to
<1> QED
  BY <1>3, <1>6, <1>7 DEF ReadsOn, Describes

LEMMA ListTails ==
    ASSUME NEW a, NEW b, NEW c, NEW d, NEW e
    PROVE  /\ Tail(<<a, b, c, d, e>>) = <<b, c, d, e>> /\ Tail(<<b, c, d, e>>) = <<c, d, e>>
           /\ Tail(<<c, d, e>>) = <<d, e>> /\ Tail(<<d, e>>) = <<e>>
           /\ Len(<<a, b, c, d, e>>) > 1 /\ Len(<<b, c, d, e>>) > 1
           /\ Len(<<c, d, e>>) > 1 /\ Len(<<d, e>>) > 1
  OBVIOUS

LEMMA NextIsTail ==
    ASSUME NEW p, Len(p.rest) \in Nat, Len(p.rest) > 1
    PROVE  NextRest(p) = Tail(p.rest)
  BY DEF NextRest

LEMMA StepByStep ==
    ASSUME NEW tokens
    PROVE  LET start == [ok |-> TRUE, c |-> NoExternal, text |-> tokens, rest |-> tokens]
               space == ParseColorSpace(start)
               white == ParseWhitePoint(space)
               primaries == ParsePrimaries(white)
               intent == ParseRenderingIntent(primaries)
           IN  space.ok /\ white.ok =>
                 /\ ~primaries.ok => ParseDescription(tokens) = primaries
                 /\ primaries.ok /\ intent.ok => ParseDescription(tokens) = ParseTransferFunction(intent)
  BY DEF ParseDescription

LEMMA TextDescribes ==
    ASSUME NEW c, EncodingOK(c), c.color_space # "XYB"
    PROVE  LET parsed == ParseDescription(Description(c))
           IN  IF HasPrimaries(c) /\ c.primaries = "Custom" THEN ~parsed.ok
               ELSE parsed.ok /\ Describes(parsed.c, c)
<1> DEFINE a == Word_(SpaceNames[c.color_space])
           b == WhitePointTokens(c)[1]
           d == PrimariesTokens(c)[1]
           m == Word_(RenderingIntentNames[c.rendering_intent])
           t == TransferFunctionTokens(c.tf)[1]
           text == IF HasPrimaries(c) THEN <<a, b, d, m, t>> ELSE <<a, b, m, t>>
           start == [ok |-> TRUE, c |-> NoExternal, text |-> text, rest |-> text]
           space == ParseColorSpace(start)
           white == ParseWhitePoint(space)
           primaries == ParsePrimaries(white)
           intent == ParseRenderingIntent(primaries)
           parsed == ParseTransferFunction(intent)
           custom == HasPrimaries(c) /\ c.primaries = "Custom"
<1>1. Description(c) = text
  BY DescriptionIs
<1>2. space.ok /\ white.ok =>
        /\ ~primaries.ok => ParseDescription(text) = primaries
        /\ primaries.ok /\ intent.ok => ParseDescription(text) = parsed
  BY StepByStep
<1> HIDE DEF parsed, intent, primaries, white, space
<1>3. /\ start.rest # <<>> /\ start.rest[1] = a /\ start.c \in ExternalForms
      /\ Tail(text) = IF HasPrimaries(c) THEN <<b, d, m, t>> ELSE <<b, m, t>>
  BY NoExternalIs, ListTails
<1> HIDE DEF text, start
<1>4. start.rest = text
  BY DEF start
<1> HIDE DEF a, b, d, m, t
<1>5. ReadsOn(space, c, {}) /\ space.rest = IF HasPrimaries(c) THEN <<b, d, m, t>> ELSE <<b, m, t>>
  <2>1. NextRest(start) = Tail(start.rest)
    BY <1>3, <1>4, ListTails, NextIsTail DEF text
  <2> QED
    BY <1>3, <1>4, <2>1, ReadSpace DEF space, a
<1>6. ReadsOn(white, c, {"white"}) /\ white.rest = IF HasPrimaries(c) THEN <<d, m, t>> ELSE <<m, t>>
  <2>1. space.rest # <<>> /\ space.rest[1] = b
    BY <1>5
  <2>2. ReadsOn(white, c, {"white"}) /\ white.rest = NextRest(space)
    BY <1>5, <2>1, ReadWhite DEF white, b
  <2>3. NextRest(space) = Tail(space.rest)
    BY <1>5, ListTails, NextIsTail
  <2> QED
    BY <1>5, <2>2, <2>3, ListTails
<1>7. IF custom THEN ~primaries.ok
      ELSE ReadsOn(primaries, c, {"white", "primaries"}) /\ primaries.rest = <<m, t>>
  <2>1. HasPrimaries(c) => white.rest # <<>> /\ white.rest[1] = d
    BY <1>6
  <2>2. IF custom THEN ~primaries.ok
        ELSE /\ ReadsOn(primaries, c, {"white", "primaries"})
             /\ primaries.rest = IF HasPrimaries(c) THEN NextRest(white) ELSE white.rest
    BY <1>6, <2>1, ReadPrimaries DEF primaries, d
  <2>3. HasPrimaries(c) => NextRest(white) = Tail(white.rest)
    BY <1>6, ListTails, NextIsTail
  <2> QED
    BY <1>6, <2>2, <2>3, ListTails
<1>8. space.ok /\ white.ok
  BY <1>5, <1>6 DEF ReadsOn
<1>9. CASE custom
  BY <1>1, <1>2, <1>7, <1>8, <1>9
<1>10. CASE ~custom
  <2>1. ReadsOn(primaries, c, {"white", "primaries"}) /\ primaries.rest = <<m, t>>
    BY <1>7, <1>10
  <2>2. primaries.rest # <<>> /\ primaries.rest[1] = m /\ NextRest(primaries) = <<t>>
    <3>1. Len(primaries.rest) \in Nat /\ Len(primaries.rest) > 1
      BY <2>1
    <3>2. NextRest(primaries) = Tail(primaries.rest)
      BY <3>1, NextIsTail
    <3> QED
      BY <2>1, <3>2, ListTails
  <2>3. ReadsOn(intent, c, {"white", "primaries", "intent"}) /\ intent.rest = <<t>>
    BY <2>1, <2>2, ReadIntent DEF intent, m
  <2>4. intent.rest # <<>> /\ intent.rest[1] = t
    BY <2>3
  <2>5. parsed.ok /\ Describes(parsed.c, c)
    BY <1>10, <2>3, <2>4, ReadCurve DEF parsed, t
  <2>6. primaries.ok /\ intent.ok
    BY <2>1, <2>3 DEF ReadsOn
  <2> QED
    BY <1>1, <1>2, <1>8, <1>10, <2>5, <2>6
<1> QED
  BY <1>9, <1>10

-----------------------------------------------------------------------------
(* Any text, read.                                                         *)

Parsing(p) == p \in [ok : BOOLEAN, c : ExternalForms, text : Seq(Tokens), rest : Seq(Tokens)]

LEMMA NamesRead ==
    /\ \A w \in DOMAIN kJxlColorSpaceNames : kJxlColorSpaceNames[w] \in Spaces
    /\ \A w \in DOMAIN kJxlWhitePointNames : kJxlWhitePointNames[w] \in WhitePoints
    /\ \A w \in DOMAIN kJxlPrimariesNames : kJxlPrimariesNames[w] \in DOMAIN PrimariesNames
    /\ \A w \in DOMAIN kJxlTransferFunctionNames :
         kJxlTransferFunctionNames[w] \in DOMAIN TransferFunctionNames \cup {"Gamma"}
    /\ \A w \in DOMAIN kJxlRenderingIntentNames :
         kJxlRenderingIntentNames[w] \in DOMAIN RenderingIntentNames
<1>1. \A w \in DOMAIN kJxlColorSpaceNames : kJxlColorSpaceNames[w] \in Spaces
  BY SpacesAre DEF kJxlColorSpaceNames
<1>2. \A w \in DOMAIN kJxlWhitePointNames : kJxlWhitePointNames[w] \in WhitePoints
  BY DEF kJxlWhitePointNames, WhitePoints
<1>3. \A w \in DOMAIN kJxlPrimariesNames : kJxlPrimariesNames[w] \in DOMAIN PrimariesNames
  BY DEF kJxlPrimariesNames, PrimariesNames
<1>4. \A w \in DOMAIN kJxlTransferFunctionNames :
        kJxlTransferFunctionNames[w] \in DOMAIN TransferFunctionNames \cup {"Gamma"}
  BY CurvesAre DEF kJxlTransferFunctionNames
<1>5. \A w \in DOMAIN kJxlRenderingIntentNames :
        kJxlRenderingIntentNames[w] \in DOMAIN RenderingIntentNames
  BY IntentsAre DEF kJxlRenderingIntentNames
<1> QED
  BY <1>1, <1>2, <1>3, <1>4, <1>5

LEMMA EnumRead ==
    ASSUME NEW tokens, NEW names, IsEnum(tokens, names)
    PROVE  \E w \in DOMAIN names : EnumOf(tokens, names) = names[w]
  BY DEF IsEnum, EnumOf

LEMMA TokenRead ==
    ASSUME NEW p, Parsing(p)
    PROVE  /\ AreNumbers(p.rest) => FirstTwo(NumbersOf(p.rest[1])) \in XYs
           /\ p.rest # <<>> /\ "g" \in DOMAIN p.rest[1] => p.rest[1].g \in Int
           /\ \A ok \in BOOLEAN, c \in ExternalForms : Parsing(Parses(ok, c, p))
<1> DEFINE tokens == p.rest
<1>1. /\ p.text \in Seq(Tokens) /\ tokens \in Seq(Tokens)
      /\ tokens # <<>> => tokens[1] \in Tokens /\ Tail(tokens) \in Seq(Tokens)
  BY DEF Parsing
<1>2. ASSUME NEW token \in Tokens
      PROVE  /\ NumbersOf(token) \in Seq(Int)
             /\ "g" \in DOMAIN token => token.g \in Int
  <2>1. /\ "numbers" \in DOMAIN token => token.numbers \in Seq(Int)
        /\ "g" \in DOMAIN token => token.g \in Int
    BY DEF Tokens
  <2>2. <<20200000>> \in Seq(Int) /\ <<70900000>> \in Seq(Int) /\ <<>> \in Seq(Int)
    OBVIOUS
  <2>3. CASE "numbers" \in DOMAIN token
    BY <2>1, <2>3 DEF NumbersOf
  <2>4. CASE ~("numbers" \in DOMAIN token)
    BY <2>1, <2>2, <2>4 DEF NumbersOf
  <2> QED
    BY <2>1, <2>3, <2>4
<1>3. ASSUME NEW s \in Seq(Int), s # <<>>
      PROVE  FirstTwo(s) \in XYs
  <2>1. /\ Len(s) \in Nat /\ Len(s) # 0
        /\ \A k \in 1 .. Len(s) : s[k] \in Int
    BY <1>3, EmptySeq, LenProperties, ElementOfSeq
  <2>2. s[1] \in Int /\ (Len(s) # 1 => s[2] \in Int)
    <3>1. \A n \in Nat : n # 0 => 1 \in 1 .. n /\ (n # 1 => 2 \in 1 .. n)
      OBVIOUS
    <3> QED
      BY <2>1, <3>1, Zenon
  <2> QED
    BY <2>2 DEF FirstTwo, XYs
<1>4. AreNumbers(tokens) => FirstTwo(NumbersOf(tokens[1])) \in XYs
  BY <1>1, <1>2, <1>3 DEF AreNumbers
<1>5. ASSUME NEW ok \in BOOLEAN, NEW c \in ExternalForms
      PROVE  Parsing(Parses(ok, c, p))
  <2>1. NextRest(p) \in Seq(Tokens)
    BY <1>1 DEF NextRest
  <2> QED
    BY <1>1, <2>1 DEF Parsing, Parses
<1> QED
  BY <1>1, <1>2, <1>4, <1>5

LEMMA AnySpace ==
    ASSUME NEW p, Parsing(p)
    PROVE  Parsing(ParseColorSpace(p))
<1> DEFINE got == EnumOf(p.rest, kJxlColorSpaceNames)
           to == [p.c EXCEPT !.color_space = got]
<1>1. CASE IsEnum(p.rest, kJxlColorSpaceNames)
  <2>1. got \in Spaces
    BY <1>1, EnumRead, NamesRead
  <2> HIDE DEF got
  <2>2. to \in ExternalForms
    BY <2>1 DEF Parsing, ExternalForms, Spaces
  <2> QED
    BY <1>1, <2>2, TokenRead DEF ParseColorSpace, Parsing, got
<1>2. CASE ~IsEnum(p.rest, kJxlColorSpaceNames)
  BY <1>2, TokenRead DEF ParseColorSpace, Parsing
<1> QED
  BY <1>1, <1>2

LEMMA AnyIntent ==
    ASSUME NEW p, Parsing(p)
    PROVE  Parsing(ParseRenderingIntent(p))
<1> DEFINE got == EnumOf(p.rest, kJxlRenderingIntentNames)
           to == [p.c EXCEPT !.rendering_intent = got]
<1>1. CASE IsEnum(p.rest, kJxlRenderingIntentNames)
  <2>1. got \in DOMAIN RenderingIntentNames
    BY <1>1, EnumRead, NamesRead
  <2> HIDE DEF got
  <2>2. to \in ExternalForms
    BY <2>1 DEF Parsing, ExternalForms
  <2> QED
    BY <1>1, <2>2, TokenRead DEF ParseRenderingIntent, Parsing, got
<1>2. CASE ~IsEnum(p.rest, kJxlRenderingIntentNames)
  BY <1>2, TokenRead DEF ParseRenderingIntent, Parsing
<1> QED
  BY <1>1, <1>2

LEMMA AnyPrimaries ==
    ASSUME NEW p, Parsing(p)
    PROVE  Parsing(ParsePrimaries(p))
<1> DEFINE got == EnumOf(p.rest, kJxlPrimariesNames)
           to == [p.c EXCEPT !.primaries = got]
           known == IsEnum(p.rest, kJxlPrimariesNames)
<1>1. CASE p.c.color_space \in {"Gray", "XYB"}
  BY <1>1, SMT DEF ParsePrimaries, Parses
<1>2. CASE p.c.color_space \notin {"Gray", "XYB"} /\ known
  <2>1. got \in DOMAIN PrimariesNames
    BY <1>2, EnumRead, NamesRead
  <2>2. ParsePrimaries(p) = Parses(TRUE, to, p)
    BY <1>2, SMT DEF ParsePrimaries
  <2> HIDE DEF got
  <2>3. to \in ExternalForms
    BY <2>1 DEF Parsing, ExternalForms
  <2> QED
    BY <2>2, <2>3, TokenRead
<1>3. CASE p.c.color_space \notin {"Gray", "XYB"} /\ ~known
  <2>1. ParsePrimaries(p) = Parses(FALSE, p.c, p)
    BY <1>3, SMT DEF ParsePrimaries
  <2> QED
    BY <2>1, TokenRead DEF Parsing
<1> QED
  BY <1>1, <1>2, <1>3

LEMMA AnyWhite ==
    ASSUME NEW p, Parsing(p)
    PROVE  Parsing(ParseWhitePoint(p))
<1> DEFINE got == EnumOf(p.rest, kJxlWhitePointNames)
           to == [p.c EXCEPT !.white_point = got]
           pair == FirstTwo(NumbersOf(p.rest[1]))
           custom == [p.c EXCEPT !.white_point = "Custom", !.white_point_xy = pair]
           known == IsEnum(p.rest, kJxlWhitePointNames)
           numbers == AreNumbers(p.rest)
<1>1. CASE p.c.color_space = "XYB"
  <2> DEFINE white == [p.c EXCEPT !.white_point = "D65"]
  <2>1. ParseWhitePoint(p) = [p EXCEPT !.c = white]
    BY <1>1, SMT DEF ParseWhitePoint, Parses
  <2>2. white \in ExternalForms
    BY DEF Parsing, ExternalForms, WhitePoints
  <2> HIDE DEF white
  <2> QED
    BY <2>1, <2>2 DEF Parsing
<1>2. CASE p.c.color_space # "XYB" /\ known
  <2>1. got \in WhitePoints
    BY <1>2, EnumRead, NamesRead
  <2>2. ParseWhitePoint(p) = Parses(TRUE, to, p)
    BY <1>2, SMT DEF ParseWhitePoint
  <2> HIDE DEF got
  <2>3. to \in ExternalForms
    BY <2>1 DEF Parsing, ExternalForms
  <2> QED
    BY <2>2, <2>3, TokenRead
<1>3. CASE p.c.color_space # "XYB" /\ ~known /\ numbers
  <2>1. ParseWhitePoint(p) = Parses(TRUE, custom, p)
    BY <1>3, SMT DEF ParseWhitePoint
  <2>2. pair \in XYs
    BY <1>3, TokenRead DEF Parsing
  <2> HIDE DEF pair
  <2>3. custom \in ExternalForms
    BY <2>2 DEF Parsing, ExternalForms, WhitePoints
  <2> QED
    BY <2>1, <2>3, TokenRead
<1>4. CASE p.c.color_space # "XYB" /\ ~known /\ ~numbers
  <2>1. ParseWhitePoint(p) = Parses(FALSE, p.c, p)
    BY <1>4, SMT DEF ParseWhitePoint
  <2> QED
    BY <2>1, TokenRead DEF Parsing
<1> QED
  BY <1>1, <1>2, <1>3, <1>4

LEMMA AnyCurve ==
    ASSUME NEW p, Parsing(p)
    PROVE  Parsing(ParseTransferFunction(p))
<1> DEFINE got == EnumOf(p.rest, kJxlTransferFunctionNames)
           to == [p.c EXCEPT !.transfer_function = got]
           cubic == [p.c EXCEPT !.transfer_function = "Gamma", !.gamma = kGammaMul \div 3]
           power == [p.c EXCEPT !.transfer_function = "Gamma", !.gamma = p.rest[1].g]
           known == IsEnum(p.rest, kJxlTransferFunctionNames)
           gamma == IsGamma(p.rest)
<1>1. CASE p.c.color_space = "XYB"
  <2>1. ParseTransferFunction(p) = [p EXCEPT !.c = cubic]
    BY <1>1, SMT DEF ParseTransferFunction, Parses
  <2>2. kGammaMul \div 3 \in Int
    BY DEF kGammaMul
  <2>3. cubic \in ExternalForms
    BY <2>2 DEF Parsing, ExternalForms
  <2> HIDE DEF cubic
  <2> QED
    BY <2>1, <2>3 DEF Parsing
<1>2. CASE p.c.color_space # "XYB" /\ known
  <2>1. got \in DOMAIN TransferFunctionNames \cup {"Gamma"}
    BY <1>2, EnumRead, NamesRead
  <2>2. ParseTransferFunction(p) = Parses(TRUE, to, p)
    BY <1>2, SMT DEF ParseTransferFunction
  <2> HIDE DEF got
  <2>3. to \in ExternalForms
    BY <2>1 DEF Parsing, ExternalForms
  <2> QED
    BY <2>2, <2>3, TokenRead
<1>3. CASE p.c.color_space # "XYB" /\ ~known /\ gamma
  <2>1. ParseTransferFunction(p) = Parses(TRUE, power, p)
    BY <1>3, SMT DEF ParseTransferFunction
  <2>2. p.rest[1].g \in Int
    BY <1>3, TokenRead DEF Parsing, IsGamma
  <2>3. power \in ExternalForms
    BY <2>2 DEF Parsing, ExternalForms
  <2> QED
    BY <2>1, <2>3, TokenRead
<1>4. CASE p.c.color_space # "XYB" /\ ~known /\ ~gamma
  <2>1. ParseTransferFunction(p) = Parses(FALSE, p.c, p)
    BY <1>4, SMT DEF ParseTransferFunction
  <2> QED
    BY <2>1, TokenRead DEF Parsing
<1> QED
  BY <1>1, <1>2, <1>3, <1>4

LEMMA AnyText ==
    ASSUME NEW tokens \in Seq(Tokens)
    PROVE  Parsing(ParseDescription(tokens))
<1> DEFINE start == [ok |-> TRUE, c |-> NoExternal, text |-> tokens, rest |-> tokens]
           space == ParseColorSpace(start)
           white == IF space.ok THEN ParseWhitePoint(space) ELSE space
           primaries == IF white.ok THEN ParsePrimaries(white) ELSE white
           intent == IF primaries.ok THEN ParseRenderingIntent(primaries) ELSE primaries
           parsed == IF intent.ok THEN ParseTransferFunction(intent) ELSE intent
<1>1. ParseDescription(tokens) = parsed
  BY DEF ParseDescription
<1>2. Parsing(start)
  BY NoExternalIs DEF Parsing
<1> HIDE DEF start
<1>3. Parsing(space)
  BY <1>2, AnySpace
<1> HIDE DEF space
<1>4. Parsing(white)
  BY <1>3, AnyWhite
<1> HIDE DEF white
<1>5. Parsing(primaries)
  BY <1>4, AnyPrimaries
<1> HIDE DEF primaries
<1>6. Parsing(intent)
  BY <1>5, AnyIntent
<1> HIDE DEF intent
<1>7. Parsing(parsed)
  BY <1>6, AnyCurve
<1> QED
  BY <1>1, <1>7

-----------------------------------------------------------------------------
(* The length of a description.                                            *)

LEMMA FirstOf ==
    ASSUME NEW n \in {5, 7}, NEW P, P \subseteq 0 .. n, n \in P
    PROVE  \E d \in P : \A e \in 0 .. d - 1 : e \notin P
<1> SUFFICES ASSUME \A d \in P : \E e \in 0 .. d - 1 : e \in P PROVE FALSE
  OBVIOUS
<1>1. 0 \notin P
  OBVIOUS
<1>2. 1 \notin P
  BY <1>1
<1>3. 2 \notin P
  BY <1>1, <1>2
<1>4. 3 \notin P
  BY <1>1, <1>2, <1>3
<1>5. 4 \notin P
  BY <1>1, <1>2, <1>3, <1>4
<1>6. 5 \notin P
  BY <1>1, <1>2, <1>3, <1>4, <1>5
<1>7. 6 \notin P
  BY <1>1, <1>2, <1>3, <1>4, <1>5, <1>6
<1> QED
  BY <1>1, <1>2, <1>3, <1>4, <1>5, <1>6, <1>7

LEMMA CharactersCounted ==
    ASSUME NEW n \in Int, NEW digits \in {5, 7}
    PROVE  CharactersOf(n, digits) \in Nat /\ CharactersOf(n, digits) >= 1
<1> DEFINE Whole(d) == n % (10 ^ (digits - d)) = 0
           k == CHOOSE d \in 0 .. digits : n % (10 ^ (digits - d)) = 0 /\ \A e \in 0 .. d - 1 : n % (10 ^ (digits - e)) # 0
<1>1. Whole(digits)
  BY DEF Whole
<1> HIDE DEF Whole
<1>2. \E d \in 0 .. digits : Whole(d) /\ \A e \in 0 .. d - 1 : ~Whole(e)
  <2> DEFINE P == {d \in 0 .. digits : Whole(d)}
  <2>1. P \subseteq 0 .. digits /\ digits \in P
    BY <1>1
  <2>2. \A d \in 0 .. digits : d \in P <=> Whole(d)
    OBVIOUS
  <2> HIDE DEF P
  <2>3. \E d \in P : \A e \in 0 .. d - 1 : e \notin P
    BY <2>1, FirstOf
  <2> QED
    BY <2>1, <2>2, <2>3
<1>3. k \in 0 .. digits
  BY <1>2 DEF Whole
<1> HIDE DEF k
<1>4. CharactersOf(n, digits) = (IF n < 0 THEN 1 ELSE 0) + 1 + (IF k = 0 THEN 0 ELSE 1 + k)
  BY DEF CharactersOf, k
<1> QED
  BY <1>3, <1>4
LEMMA LengthsSummed ==
    ASSUME NEW n \in 1 .. 6, NEW s \in [1 .. n -> Nat], s[1] >= 1
    PROVE  SumOf(s) - 1 \in Nat
<1> DEFINE Sum(f) == f = [m \in 0 .. n |-> IF m = 0 THEN 0 ELSE f[m - 1] + s[m]]
           sum == CHOOSE f : Sum(f)
           two == s[1] + s[2]
           three == two + s[3]
           four == three + s[4]
           five == four + s[5]
           six == five + s[6]
           by_hand == [m \in 0 .. n |->
                         IF m = 0 THEN 0 ELSE IF m = 1 THEN s[1] ELSE IF m = 2 THEN two
                         ELSE IF m = 3 THEN three ELSE IF m = 4 THEN four
                         ELSE IF m = 5 THEN five ELSE six]
<1>1. Len(s) = n
  <2>1. s \in Seq(Nat)
    BY SeqDef
  <2> QED
    BY <2>1, LenProperties
<1>2. \A m \in 1 .. n : s[m] \in Nat
  OBVIOUS
<1>3. Sum(by_hand)
  <2>1. /\ two = s[1] + s[2] /\ three = two + s[3] /\ four = three + s[4]
        /\ five = four + s[5] /\ six = five + s[6]
    OBVIOUS
  <2> HIDE DEF two, three, four, five, six
  <2>2. n \in Nat /\ n <= 6
    OBVIOUS
  <2>3. /\ by_hand[0] = 0 /\ by_hand[1] = s[1]
        /\ n >= 2 => by_hand[2] = two
        /\ n >= 3 => by_hand[3] = three
        /\ n >= 4 => by_hand[4] = four
        /\ n >= 5 => by_hand[5] = five
        /\ n >= 6 => by_hand[6] = six
    BY <2>2
  <2>4. by_hand = [m \in 0 .. n |-> by_hand[m]]
    OBVIOUS
  <2> HIDE DEF by_hand
  <2>5. s[1] \in Nat
    BY <1>2
  <2>6. ASSUME NEW m \in 0 .. n
        PROVE  by_hand[m] = IF m = 0 THEN 0 ELSE by_hand[m - 1] + s[m]
    <3>1. m \in {0, 1, 2, 3, 4, 5, 6} /\ m <= n
      BY <2>2
    <3>2. CASE m = 0 \/ m = 1
      BY <2>3, <2>5, <3>2
    <3>3. CASE m = 2
      <4>1. by_hand[m] = two /\ by_hand[m - 1] = s[1]
        BY <2>3, <3>1, <3>3
      <4> QED
        BY <2>1, <3>3, <4>1
    <3>4. CASE m = 3
      <4>1. by_hand[m] = three /\ by_hand[m - 1] = two
        BY <2>2, <2>3, <3>1, <3>4
      <4> QED
        BY <2>1, <3>4, <4>1
    <3>5. CASE m = 4
      <4>1. by_hand[m] = four /\ by_hand[m - 1] = three
        BY <2>2, <2>3, <3>1, <3>5
      <4> QED
        BY <2>1, <3>5, <4>1
    <3>6. CASE m = 5
      <4>1. by_hand[m] = five /\ by_hand[m - 1] = four
        BY <2>2, <2>3, <3>1, <3>6
      <4> QED
        BY <2>1, <3>6, <4>1
    <3>7. CASE m = 6
      <4>1. by_hand[m] = six /\ by_hand[m - 1] = five
        BY <2>2, <2>3, <3>1, <3>7
      <4> QED
        BY <2>1, <3>7, <4>1
    <3> QED
      BY <3>1, <3>2, <3>3, <3>4, <3>5, <3>6, <3>7
  <2> QED
    BY <2>4, <2>6
<1>4. Sum(sum)
  BY <1>3
<1>5. SumOf(s) = sum[n]
  BY <1>1 DEF SumOf
<1> HIDE DEF sum
<1>6. sum[0] = 0 /\ \A m \in 1 .. n : sum[m] = sum[m - 1] + s[m] /\ s[m] \in Nat
  BY <1>2, <1>4
<1>7. /\ sum[1] = sum[0] + s[1] /\ s[1] \in Nat
      /\ n >= 2 => sum[2] = sum[1] + s[2] /\ s[2] \in Nat
      /\ n >= 3 => sum[3] = sum[2] + s[3] /\ s[3] \in Nat
      /\ n >= 4 => sum[4] = sum[3] + s[4] /\ s[4] \in Nat
      /\ n >= 5 => sum[5] = sum[4] + s[5] /\ s[5] \in Nat
      /\ n >= 6 => sum[6] = sum[5] + s[6] /\ s[6] \in Nat
  BY <1>6
<1> DEFINE Positive(k) == sum[k] \in Nat /\ sum[k] >= 1
<1>8. n \in Int
  OBVIOUS
<1>9. Positive(1)
  BY <1>6, <1>7
<1>10. n >= 2 => Positive(2)
  BY <1>7, <1>8, <1>9
<1>11. n >= 3 => Positive(3)
  BY <1>7, <1>8, <1>10
<1>12. n >= 4 => Positive(4)
  BY <1>7, <1>8, <1>11
<1>13. n >= 5 => Positive(5)
  BY <1>7, <1>8, <1>12
<1>14. n >= 6 => Positive(6)
  BY <1>7, <1>8, <1>13
<1>15. n \in {1, 2, 3, 4, 5, 6}
  OBVIOUS
<1>16. Positive(n)
  BY <1>9, <1>10, <1>11, <1>12, <1>13, <1>14, <1>15
<1> QED
  BY <1>5, <1>16

LEMMA TokenLengths ==
    /\ \A w : TokenLength(Word_(w)) \in Nat
    /\ \A g \in Int : TokenLength(GammaToken(g)) \in Nat
    /\ \A n \in 1 .. 6 : \A s \in [1 .. n -> Int] : TokenLength(Numbers(s)) \in Nat
<1>1. ASSUME NEW w PROVE TokenLength(Word_(w)) \in Nat
  <2> DEFINE token == Word_(w)
  <2>1. "word" \in DOMAIN token /\ "g" \notin DOMAIN token /\ "numbers" \notin DOMAIN token
    BY DEF Word_
  <2> HIDE DEF token
  <2>2. TokenLength(token) = 3
    BY <2>1, SMT DEF TokenLength
  <2> QED
    BY <2>2 DEF token
<1>2. ASSUME NEW g \in Int PROVE TokenLength(GammaToken(g)) \in Nat
  <2> DEFINE token == GammaToken(g)
  <2>1. "word" \notin DOMAIN token /\ "g" \in DOMAIN token /\ "numbers" \notin DOMAIN token /\ token.g = g
    BY DEF GammaToken
  <2> HIDE DEF token
  <2>2. TokenLength(token) = 1 + CharactersOf(g, 7)
    BY <2>1, SMT DEF TokenLength
  <2>3. CharactersOf(g, 7) \in Nat
    BY CharactersCounted
  <2> QED
    BY <2>2, <2>3 DEF token
<1>3. ASSUME NEW n \in 1 .. 6, NEW s \in [1 .. n -> Int] PROVE TokenLength(Numbers(s)) \in Nat
  <2> DEFINE token == Numbers(s)
             lengths == [m \in DOMAIN s |-> CharactersOf(s[m], 5) + 1]
  <2>1. "word" \notin DOMAIN token /\ "g" \notin DOMAIN token /\ "numbers" \in DOMAIN token /\ token.numbers = s
    BY DEF Numbers
  <2> HIDE DEF token
  <2>2. TokenLength(token) = SumOf(lengths) - 1
    BY <2>1, SMT DEF TokenLength
  <2>3. \A m \in 1 .. n : CharactersOf(s[m], 5) \in Nat
    BY CharactersCounted
  <2>4. lengths \in [1 .. n -> Nat] /\ lengths[1] >= 1
    BY <2>3
  <2> HIDE DEF lengths
  <2>5. SumOf(lengths) - 1 \in Nat
    BY <2>4, LengthsSummed
  <2> QED
    BY <2>2, <2>5 DEF token
<1> QED
  BY <1>1, <1>2, <1>3

LEMMA SixNumbers ==
    ASSUME NEW r \in XYs, NEW g \in XYs, NEW b \in XYs
    PROVE  r \o g \o b \in [1 .. 6 -> Int]
<1> DEFINE four == r \o g
           six == four \o b
<1>1. /\ r \in Seq(Int) /\ Len(r) = 2 /\ g \in Seq(Int) /\ Len(g) = 2 /\ b \in Seq(Int) /\ Len(b) = 2
  BY PairIsList
<1>2. four \in Seq(Int) /\ Len(four) = Len(r) + Len(g)
  <2>1. r \in Seq(Int) /\ g \in Seq(Int)
    BY <1>1
  <2> QED
    BY <2>1, ConcatProperties
<1> HIDE DEF four
<1>3. six \in Seq(Int) /\ Len(six) = Len(four) + Len(b)
  <2>1. four \in Seq(Int) /\ b \in Seq(Int)
    BY <1>1, <1>2
  <2> QED
    BY <2>1, ConcatProperties
<1> HIDE DEF six
<1>4. Len(six) = 6
  BY <1>1, <1>2, <1>3
<1>5. six \in [1 .. 6 -> Int]
  BY <1>3, <1>4, LenProperties
<1> QED
  BY <1>5 DEF six, four

LEMMA DescriptionLength ==
    ASSUME NEW c, EncodingOK(c), c.color_space # "XYB"
    PROVE  TextLength(Description(c)) \in Nat
<1> DEFINE a == Word_(SpaceNames[c.color_space])
           b == WhitePointTokens(c)[1]
           d == PrimariesTokens(c)[1]
           m == Word_(RenderingIntentNames[c.rendering_intent])
           t == TransferFunctionTokens(c.tf)[1]
           text == IF HasPrimaries(c) THEN <<a, b, d, m, t>> ELSE <<a, b, m, t>>
           n == IF HasPrimaries(c) THEN 5 ELSE 4
           lengths == [k \in DOMAIN text |-> TokenLength(text[k]) + 1]
<1>1. Description(c) = text
  BY DescriptionIs
<1>2. TokenLength(a) \in Nat /\ TokenLength(m) \in Nat
  BY TokenLengths
<1>3. TokenLength(b) \in Nat
  <2>1. GetWhitePoint(c) \in [1 .. 2 -> Int]
    BY Chromaticities_ DEF EncodingOK, XYs
  <2>2. b = Numbers(GetWhitePoint(c)) \/ b = Word_(WhitePointNames[c.white_point])
    BY DEF WhitePointTokens
  <2> HIDE DEF b
  <2> QED
    BY <2>1, <2>2, TokenLengths
<1>4. HasPrimaries(c) => TokenLength(d) \in Nat
  <2> DEFINE numbers == GetPrimaries(c)[1] \o GetPrimaries(c)[2] \o GetPrimaries(c)[3]
  <2>1. numbers \in [1 .. 6 -> Int]
    <3> DEFINE rgb == GetPrimaries(c)
    <3>1. rgb[1] \in XYs /\ rgb[2] \in XYs /\ rgb[3] \in XYs
      BY Chromaticities_ DEF EncodingOK
    <3> HIDE DEF rgb
    <3>2. rgb[1] \o rgb[2] \o rgb[3] \in [1 .. 6 -> Int]
      BY <3>1, SixNumbers
    <3> QED
      BY <3>2 DEF rgb
  <2>2. HasPrimaries(c) => d = Numbers(numbers) \/ d = Word_(PrimariesNames[c.primaries])
    BY DEF PrimariesTokens
  <2> HIDE DEF d, numbers
  <2> QED
    BY <2>1, <2>2, TokenLengths
<1>5. TokenLength(t) \in Nat
  <2>1. ~HasImplicitTF(c.tf) /\ c.tf.gamma \in Int
    BY DEF EncodingOK, CurveOK, Curves
  <2>2. t = GammaToken(SixDigits(c.tf.gamma)) \/ t = Word_(TransferFunctionNames[c.tf.transfer_function])
    BY <2>1 DEF TransferFunctionTokens
  <2>3. SixDigits(c.tf.gamma) \in Int
    BY <2>1 DEF SixDigits
  <2> HIDE DEF t
  <2> QED
    BY <2>2, <2>3, TokenLengths
<1> HIDE DEF a, b, d, m, t
<1>6. DOMAIN text = 1 .. n /\ \A k \in 1 .. n : TokenLength(text[k]) \in Nat
  <2>1. CASE HasPrimaries(c)
    <3>1. /\ text[1] = a /\ text[2] = b /\ text[3] = d /\ text[4] = m /\ text[5] = t
          /\ DOMAIN text = 1 .. 5 /\ n = 5
      BY <2>1
    <3> HIDE DEF text, n
    <3>2. \A k \in 1 .. 5 : k = 1 \/ k = 2 \/ k = 3 \/ k = 4 \/ k = 5
      OBVIOUS
    <3> QED
      BY <1>2, <1>3, <1>4, <1>5, <2>1, <3>1, <3>2
  <2>2. CASE ~HasPrimaries(c)
    <3>1. /\ text[1] = a /\ text[2] = b /\ text[3] = m /\ text[4] = t
          /\ DOMAIN text = 1 .. 4 /\ n = 4
      BY <2>2
    <3> HIDE DEF text, n
    <3>2. \A k \in 1 .. 4 : k = 1 \/ k = 2 \/ k = 3 \/ k = 4
      OBVIOUS
    <3> QED
      BY <1>2, <1>3, <1>5, <3>1, <3>2
  <2> QED
    BY <2>1, <2>2
<1> HIDE DEF text
<1>7. n \in 1 .. 6 /\ lengths \in [1 .. n -> Nat] /\ lengths[1] >= 1
  BY <1>6
<1>8. TextLength(text) = SumOf(lengths) - 1
  BY DEF TextLength
<1> HIDE DEF lengths, n
<1> QED
  BY <1>1, <1>7, <1>8, LengthsSummed

-----------------------------------------------------------------------------
(* A profile is read as it was made: its tags lie one after the other.     *)

LEMMA Appended ==
    ASSUME NEW S, NEW s \in Seq(S), NEW e
    PROVE  LET to == Append(s, e)
           IN  /\ to \in Seq(S \cup {e}) /\ DOMAIN s = 1 .. Len(s) /\ DOMAIN to = 1 .. Len(s) + 1
               /\ \A m \in 1 .. Len(s) : to[m] = s[m]
               /\ to[Len(s) + 1] = e /\ Len(s) \in Nat /\ Len(to) = Len(s) + 1
<1>1. s \in Seq(S \cup {e}) /\ e \in S \cup {e}
  BY SeqDef
<1> QED
  BY <1>1, AppendProperties, LenProperties

IsList(s) == \E S : s \in Seq(S)

LEMMA ListAppended ==
    ASSUME NEW s, IsList(s), NEW e
    PROVE  LET to == Append(s, e)
           IN  /\ IsList(to) /\ DOMAIN s = 1 .. Len(s) /\ DOMAIN to = 1 .. Len(s) + 1
               /\ \A m \in 1 .. Len(s) : to[m] = s[m]
               /\ to[Len(s) + 1] = e /\ Len(s) \in Nat /\ Len(to) = Len(s) + 1
<1>1. PICK S : s \in Seq(S)
  BY DEF IsList
<1> DEFINE to == Append(s, e)
<1>2. /\ to \in Seq(S \cup {e}) /\ DOMAIN s = 1 .. Len(s) /\ DOMAIN to = 1 .. Len(s) + 1
      /\ \A m \in 1 .. Len(s) : to[m] = s[m]
      /\ to[Len(s) + 1] = e /\ Len(s) \in Nat /\ Len(to) = Len(s) + 1
  BY <1>1, Appended
<1> HIDE DEF to
<1>3. IsList(to)
  BY <1>2 DEF IsList
<1> QED
  BY <1>2, <1>3 DEF to

(* A piece of `tags`, and an entry of its table.                           *)
Laid(piece, bytes) ==
  /\ piece.at \in Nat /\ piece.bytes \in Nat /\ piece.bytes > 0 /\ piece.at + piece.bytes <= bytes
Entry(name, offset, size) == [tag |-> name, offset |-> offset, size |-> size]
IsEntry(entry) ==
  entry = Entry(entry.tag, entry.offset, entry.size) /\ entry.offset \in Nat /\ entry.size \in Nat

(* The pieces do not overlap, and the next follows what was last told.     *)
WellLaid(tags) ==
  /\ tags = [data |-> tags.data, bytes |-> tags.bytes, offset |-> tags.offset, size |-> tags.size,
             table |-> tags.table]
  /\ IsList(tags.data) /\ IsList(tags.table)
  /\ tags.bytes \in Nat /\ tags.offset \in Nat /\ tags.size \in Nat
  /\ tags.offset + tags.size = tags.bytes
  /\ \A m \in DOMAIN tags.data : Laid(tags.data[m], tags.bytes)
  /\ \A m, j \in DOMAIN tags.data : m # j => tags.data[m].at # tags.data[j].at
  /\ \A k \in DOMAIN tags.table : IsEntry(tags.table[k])

Lies(data, offset, size, holds) ==
  \E m \in DOMAIN data : data[m].at = offset /\ data[m].bytes = size /\ data[m].holds = holds

Lacks(tags, name) == \A k \in DOMAIN tags.table : tags.table[k].tag # name

Says(tags, name, holds) ==
  /\ ~Lacks(tags, name)
  /\ \A k \in DOMAIN tags.table : tags.table[k].tag = name =>
       Lies(tags.data, tags.table[k].offset, tags.table[k].size, holds)

LEMMA NothingLaid == WellLaid(NewTags) /\ \A name : Lacks(NewTags, name)
<1>1. NewTags = [data |-> <<>>, bytes |-> 0, offset |-> 0, size |-> 0, table |-> <<>>]
  BY DEF NewTags
<1>2. <<>> \in Seq({}) /\ DOMAIN <<>> = {}
  BY EmptySeq
<1>3. IsList(<<>>)
  BY <1>2 DEF IsList
<1> QED
  BY <1>1, <1>2, <1>3 DEF WellLaid, Lacks

LEMMA RoundedUp ==
    ASSUME NEW n \in Nat, n > 0
    PROVE  LET bytes == ((n + 3) \div 4) * 4
           IN  bytes \in Nat /\ bytes > 0
<1> DEFINE m == (n + 3) \div 4
<1>1. m \in Nat /\ m >= 1
  OBVIOUS
<1> HIDE DEF m
<1>2. m * 4 \in Nat /\ m * 4 > 0
  BY <1>1
<1> QED
  BY <1>2 DEF m

LEMMA PieceLaid ==
    ASSUME NEW tags, WellLaid(tags), NEW piece, piece.bytes \in Nat, piece.bytes > 0
    PROVE  LET to == FinalizeICCTag(tags, piece)
           IN  /\ WellLaid(to) /\ to.table = tags.table
               /\ Lies(to.data, to.offset, to.size, piece.holds)
               /\ \A offset, size, holds :
                    Lies(tags.data, offset, size, holds) => Lies(to.data, offset, size, holds)
<1> DEFINE bytes == ((piece.bytes + 3) \div 4) * 4
           new == [at |-> tags.bytes, bytes |-> bytes, holds |-> piece.holds]
           data == Append(tags.data, new)
           n == Len(tags.data)
           sum == tags.bytes + bytes
           to == [data |-> data, bytes |-> sum, offset |-> tags.bytes, size |-> bytes,
                  table |-> tags.table]
<1>1. bytes \in Nat /\ bytes > 0
  BY RoundedUp
<1>2. /\ tags = [data |-> tags.data, bytes |-> tags.bytes, offset |-> tags.offset,
                 size |-> tags.size, table |-> tags.table]
      /\ tags.bytes \in Nat /\ tags.offset \in Nat /\ tags.size \in Nat
      /\ tags.offset + tags.size = tags.bytes
  BY DEF WellLaid
<1>3. /\ IsList(data) /\ DOMAIN tags.data = 1 .. n /\ DOMAIN data = 1 .. n + 1 /\ n \in Nat
      /\ \A m \in 1 .. n : data[m] = tags.data[m]
      /\ data[n + 1] = new
  BY ListAppended DEF WellLaid
<1>4. new.at = tags.bytes /\ new.bytes = bytes /\ new.holds = piece.holds
  OBVIOUS
<1>5. sum \in Nat /\ sum > tags.bytes /\ sum - tags.bytes = bytes
  BY <1>1, <1>2
<1> DEFINE padded == [data |-> data, bytes |-> sum, offset |-> tags.offset, size |-> tags.size,
                      table |-> tags.table]
<1>16. Padded(tags, piece) = [tags EXCEPT !.data = data, !.bytes = sum]
  BY DEF Padded
<1> HIDE DEF bytes, new, data, n, sum
<1>6. Padded(tags, piece) = padded
  BY <1>2, <1>16
<1>17. padded.bytes - (tags.offset + tags.size) = bytes /\ tags.offset + tags.size = tags.bytes
  BY <1>2, <1>5
<1>18. FinalizeICCTag(tags, piece) = [padded EXCEPT !.offset = tags.bytes, !.size = bytes]
  BY <1>6, <1>17 DEF FinalizeICCTag
<1>7. FinalizeICCTag(tags, piece) = to
  BY <1>18
<1>8. /\ to.data = data /\ to.bytes = sum /\ to.offset = tags.bytes /\ to.size = bytes
      /\ to.table = tags.table
      /\ to = [data |-> to.data, bytes |-> to.bytes, offset |-> to.offset, size |-> to.size,
               table |-> to.table]
  OBVIOUS
<1> HIDE DEF to
<1>9. \A m \in 1 .. n + 1 : m \in 1 .. n \/ m = n + 1
  BY <1>3
<1>10. \A m \in 1 .. n : Laid(data[m], tags.bytes)
  BY <1>3 DEF WellLaid
<1>11. \A m \in 1 .. n + 1 : Laid(data[m], sum)
  <2>1. Laid(new, sum)
    BY <1>1, <1>2, <1>4, <1>5 DEF Laid, sum
  <2>2. ASSUME NEW piece_, Laid(piece_, tags.bytes) PROVE Laid(piece_, sum)
    BY <1>2, <1>5, <2>2 DEF Laid
  <2> QED
    BY <1>3, <1>9, <1>10, <2>1, <2>2
<1>12. \A m, j \in 1 .. n + 1 : m # j => data[m].at # data[j].at
  <2>1. \A m \in 1 .. n : data[m].at # tags.bytes
    <3> TAKE m \in 1 .. n
    <3>1. Laid(data[m], tags.bytes)
      BY <1>10
    <3> QED
      BY <1>2, <3>1 DEF Laid
  <2>2. \A m, j \in 1 .. n : m # j => data[m].at # data[j].at
    BY <1>3 DEF WellLaid
  <2>3. data[n + 1].at = tags.bytes
    BY <1>3, <1>4
  <2> QED
    BY <1>9, <2>1, <2>2, <2>3
<1>13. WellLaid(to)
  BY <1>1, <1>2, <1>3, <1>5, <1>8, <1>11, <1>12 DEF WellLaid, sum
<1>14. Lies(data, tags.bytes, bytes, piece.holds)
  <2>1. n + 1 \in DOMAIN data
    BY <1>3
  <2> QED
    BY <1>3, <1>4, <2>1 DEF Lies
<1>15. ASSUME NEW offset, NEW size, NEW holds, Lies(tags.data, offset, size, holds)
       PROVE  Lies(data, offset, size, holds)
  <2>1. 1 .. n \subseteq DOMAIN data
    BY <1>3
  <2> QED
    BY <1>3, <1>15, <2>1 DEF Lies
<1> QED
  BY <1>7, <1>8, <1>13, <1>14, <1>15

LEMMA TagTold ==
    ASSUME NEW tags, WellLaid(tags), NEW name, Lacks(tags, name),
           NEW holds, Lies(tags.data, tags.offset, tags.size, holds)
    PROVE  LET to == AddToICCTagTable(tags, name)
           IN  /\ WellLaid(to) /\ Says(to, name, holds) /\ Lies(to.data, to.offset, to.size, holds)
               /\ \A other : other # name /\ Lacks(tags, other) => Lacks(to, other)
               /\ \A other, held : other # name /\ Says(tags, other, held) => Says(to, other, held)
<1> DEFINE new == [tag |-> name, offset |-> tags.offset, size |-> tags.size]
           table == Append(tags.table, new)
           n == Len(tags.table)
           to == [data |-> tags.data, bytes |-> tags.bytes, offset |-> tags.offset,
                  size |-> tags.size, table |-> table]
<1>1. /\ tags = [data |-> tags.data, bytes |-> tags.bytes, offset |-> tags.offset,
                 size |-> tags.size, table |-> tags.table]
      /\ tags.offset \in Nat /\ tags.size \in Nat
  BY DEF WellLaid
<1>2. /\ IsList(table) /\ DOMAIN tags.table = 1 .. n /\ DOMAIN table = 1 .. n + 1 /\ n \in Nat
      /\ \A k \in 1 .. n : table[k] = tags.table[k]
      /\ table[n + 1] = new
  BY ListAppended DEF WellLaid
<1>3. /\ new.tag = name /\ new.offset = tags.offset /\ new.size = tags.size /\ IsEntry(new)
  BY <1>1 DEF IsEntry, Entry
<1>4. AddToICCTagTable(tags, name) = [tags EXCEPT !.table = table]
  BY DEF AddToICCTagTable
<1> HIDE DEF new, table, n
<1>5. AddToICCTagTable(tags, name) = to
  BY <1>1, <1>4
<1>6. /\ to.data = tags.data /\ to.bytes = tags.bytes /\ to.offset = tags.offset
      /\ to.size = tags.size /\ to.table = table
      /\ to = [data |-> to.data, bytes |-> to.bytes, offset |-> to.offset, size |-> to.size,
               table |-> to.table]
  OBVIOUS
<1> HIDE DEF to
<1>7. /\ \A k \in DOMAIN table : k \in DOMAIN tags.table \/ k = n + 1
      /\ \A k \in DOMAIN tags.table : k \in DOMAIN table /\ table[k] = tags.table[k]
      /\ n + 1 \in DOMAIN table
  BY <1>2
<1>8. WellLaid(to)
  <2>1. \A k \in DOMAIN table : IsEntry(table[k])
    BY <1>2, <1>3, <1>7 DEF WellLaid
  <2> QED
    BY <1>2, <1>6, <2>1 DEF WellLaid
<1>9. Says(to, name, holds)
  BY <1>2, <1>3, <1>6, <1>7 DEF Says, Lacks
<1>10. ASSUME NEW other, other # name, Lacks(tags, other) PROVE Lacks(to, other)
  BY <1>2, <1>3, <1>6, <1>7, <1>10 DEF Lacks
<1>11. ASSUME NEW other, NEW held, other # name, Says(tags, other, held) PROVE Says(to, other, held)
  BY <1>2, <1>3, <1>6, <1>7, <1>11 DEF Says, Lacks
<1>12. Lies(to.data, to.offset, to.size, holds)
  BY <1>6
<1> QED
  BY <1>5, <1>8, <1>9, <1>10, <1>11, <1>12

LEMMA TagAdded ==
    ASSUME NEW tags, WellLaid(tags), NEW name, Lacks(tags, name),
           NEW piece, piece.bytes \in Nat, piece.bytes > 0
    PROVE  LET to == AddTag(tags, name, piece)
           IN  /\ WellLaid(to) /\ Says(to, name, piece.holds)
               /\ Lies(to.data, to.offset, to.size, piece.holds)
               /\ \A other : other # name /\ Lacks(tags, other) => Lacks(to, other)
               /\ \A other, held : other # name /\ Says(tags, other, held) => Says(to, other, held)
<1> DEFINE laid == FinalizeICCTag(tags, piece)
           to == AddToICCTagTable(laid, name)
<1>1. /\ WellLaid(laid) /\ laid.table = tags.table
      /\ Lies(laid.data, laid.offset, laid.size, piece.holds)
      /\ \A offset, size, holds :
           Lies(tags.data, offset, size, holds) => Lies(laid.data, offset, size, holds)
  BY PieceLaid
<1>2. AddTag(tags, name, piece) = to
  BY DEF AddTag
<1> HIDE DEF laid
<1>3. \A other : Lacks(laid, other) <=> Lacks(tags, other)
  BY <1>1 DEF Lacks
<1>4. \A other, held : Says(tags, other, held) => Says(laid, other, held)
  BY <1>1, <1>3 DEF Says
<1>5. /\ WellLaid(to) /\ Says(to, name, piece.holds) /\ Lies(to.data, to.offset, to.size, piece.holds)
      /\ \A other : other # name /\ Lacks(laid, other) => Lacks(to, other)
      /\ \A other, held : other # name /\ Says(laid, other, held) => Says(to, other, held)
  BY <1>1, <1>3, TagTold
<1> HIDE DEF to
<1> QED
  BY <1>2, <1>3, <1>4, <1>5

LEMMA ProfileLaid ==
    ASSUME NEW tags, WellLaid(tags), NEW space, NEW intent
    PROVE  LET profile == Profile(space, intent, tags)
               before == 128 + 4 + 12 * Len(profile.table)
           IN  /\ profile.header.magic = "acsp" /\ profile.header.data_space = space
               /\ profile.header.intent = intent /\ profile.header.size = before + tags.bytes
               /\ before \in Nat /\ profile.data = tags.data /\ DOMAIN profile.table = DOMAIN tags.table
               /\ \A k \in DOMAIN tags.table :
                    /\ profile.table[k].tag = tags.table[k].tag /\ profile.table[k].size = tags.table[k].size
                    /\ profile.table[k].offset = tags.table[k].offset + before
<1> DEFINE before == 128 + 4 + 12 * Len(tags.table)
           table == [m \in DOMAIN tags.table |-> [tags.table[m] EXCEPT !.offset = @ + before]]
           profile == Profile(space, intent, tags)
<1>1. PICK S : tags.table \in Seq(S)
  BY DEF WellLaid, IsList
<1>2. Len(tags.table) \in Nat /\ DOMAIN tags.table = 1 .. Len(tags.table)
  BY <1>1, LenProperties
<1>3. before \in Nat
  BY <1>2
<1>4. DOMAIN table = 1 .. Len(tags.table)
  BY <1>2
<1>5. Len(table) = Len(tags.table)
  BY <1>2, <1>4
<1>6. ASSUME NEW k \in DOMAIN tags.table
      PROVE  /\ table[k].tag = tags.table[k].tag /\ table[k].size = tags.table[k].size
             /\ table[k].offset = tags.table[k].offset + before
  <2> HIDE DEF before
  <2>1. tags.table[k] = [tag |-> tags.table[k].tag, offset |-> tags.table[k].offset,
                         size |-> tags.table[k].size]
    BY DEF WellLaid, IsEntry, Entry
  <2>2. table[k] = [tags.table[k] EXCEPT !.offset = @ + before]
    OBVIOUS
  <2> HIDE DEF table
  <2> QED
    BY <2>1, <2>2
<1> HIDE DEF table
<1>7. profile = [header |-> [size |-> before + tags.bytes, magic |-> "acsp", data_space |-> space,
                         intent |-> intent],
             table |-> table, data |-> tags.data]
  BY DEF Profile, table
<1> HIDE DEF profile
<1>8. /\ profile.header.magic = "acsp" /\ profile.header.data_space = space /\ profile.header.intent = intent
      /\ profile.header.size = before + tags.bytes /\ profile.table = table /\ profile.data = tags.data
  BY <1>7
<1>9. before = 128 + 4 + 12 * Len(profile.table)
  BY <1>5, <1>8
<1>10. DOMAIN table = DOMAIN tags.table
  BY <1>2, <1>4
<1> HIDE DEF before
<1> QED
  BY <1>3, <1>6, <1>8, <1>9, <1>10 DEF profile

(* What is found under a name.                                             *)
IsRead(profile, name, holds) == HasTag(profile, name) /\ ReadTag(profile, name) = holds

LEMMA TagRead ==
    ASSUME NEW tags, WellLaid(tags), NEW space, NEW intent, NEW name
    PROVE  LET profile == Profile(space, intent, tags)
           IN  /\ Lacks(tags, name) => ~HasTag(profile, name)
               /\ \A holds : Says(tags, name, holds) => IsRead(profile, name, holds)
<1> DEFINE profile == Profile(space, intent, tags)
           before == 128 + 4 + 12 * Len(profile.table)
<1>1. /\ profile.header.size = before + tags.bytes
      /\ before \in Nat /\ profile.data = tags.data /\ DOMAIN profile.table = DOMAIN tags.table
      /\ \A k \in DOMAIN tags.table :
           /\ profile.table[k].tag = tags.table[k].tag /\ profile.table[k].size = tags.table[k].size
           /\ profile.table[k].offset = tags.table[k].offset + before
  BY ProfileLaid
<1> HIDE DEF profile
<1> DEFINE LiesAt(m, k) == /\ before + profile.data[m].at = profile.table[k].offset
                         /\ profile.data[m].bytes <= profile.table[k].size
                         /\ profile.table[k].offset + profile.table[k].size <= profile.header.size
<1>2. TagPieces(profile, name) = {m \in DOMAIN profile.data :
                                \E k \in DOMAIN profile.table : profile.table[k].tag = name /\ LiesAt(m, k)}
  BY DEF TagPieces
<1> HIDE DEF before
<1>3. Lacks(tags, name) => TagPieces(profile, name) = {}
  BY <1>1, <1>2 DEF Lacks
<1>4. ASSUME NEW m \in DOMAIN tags.data, NEW j \in DOMAIN tags.data, NEW k \in DOMAIN tags.table,
             tags.data[m].at = tags.table[k].offset, tags.data[m].bytes = tags.table[k].size
      PROVE  LiesAt(m, k) /\ (LiesAt(j, k) => j = m)
  <2>1. /\ tags.data[m].at \in Nat /\ tags.data[m].bytes \in Nat
        /\ tags.data[m].at + tags.data[m].bytes <= tags.bytes
        /\ tags.data[j].at \in Nat /\ tags.bytes \in Nat
    BY DEF WellLaid, Laid
  <2>2. j # m => tags.data[m].at # tags.data[j].at
    BY DEF WellLaid
  <2>3. LiesAt(m, k)
    BY <1>1, <1>4, <2>1
  <2>4. LiesAt(j, k) => tags.data[j].at = tags.data[m].at
    BY <1>1, <1>4, <2>1
  <2> QED
    BY <2>2, <2>3, <2>4
<1>5. ASSUME NEW holds, Says(tags, name, holds)
      PROVE  TagPieces(profile, name) # {} /\ \A j \in TagPieces(profile, name) : profile.data[j].holds = holds
  <2>1. PICK k \in DOMAIN tags.table : tags.table[k].tag = name
    BY <1>5 DEF Says, Lacks
  <2>2. \A q \in DOMAIN tags.table : tags.table[q].tag = name =>
          \E m \in DOMAIN tags.data : /\ tags.data[m].at = tags.table[q].offset
                                      /\ tags.data[m].bytes = tags.table[q].size
                                      /\ tags.data[m].holds = holds
    BY <1>5 DEF Says, Lies
  <2> HIDE DEF LiesAt
  <2>3. TagPieces(profile, name) # {}
    <3>1. PICK m \in DOMAIN tags.data : tags.data[m].at = tags.table[k].offset
                                        /\ tags.data[m].bytes = tags.table[k].size
      BY <2>1, <2>2
    <3>2. LiesAt(m, k)
      BY <1>4, <3>1
    <3> QED
      BY <1>1, <1>2, <2>1, <3>2
  <2>4. ASSUME NEW j \in TagPieces(profile, name) PROVE profile.data[j].holds = holds
    <3>1. j \in DOMAIN tags.data
      BY <1>1, <1>2
    <3>2. PICK q \in DOMAIN tags.table : tags.table[q].tag = name /\ LiesAt(j, q)
      BY <1>1, <1>2
    <3>3. PICK m \in DOMAIN tags.data : /\ tags.data[m].at = tags.table[q].offset
                                        /\ tags.data[m].bytes = tags.table[q].size
                                        /\ tags.data[m].holds = holds
      BY <2>2, <3>2
    <3>4. j = m
      BY <1>4, <3>1, <3>2, <3>3
    <3> QED
      BY <1>1, <3>3, <3>4
  <2> QED
    BY <2>3, <2>4
<1>6. ASSUME NEW holds, Says(tags, name, holds) PROVE IsRead(profile, name, holds)
  <2>1. (CHOOSE m \in TagPieces(profile, name) : TRUE) \in TagPieces(profile, name)
    BY <1>5, <1>6
  <2> QED
    BY <1>5, <1>6, <2>1 DEF IsRead, HasTag, ReadTag
<1>7. Lacks(tags, name) => ~HasTag(profile, name)
  BY <1>3 DEF HasTag
<1> QED
  BY <1>6, <1>7 DEF profile

(* One tag more.                                                           *)
OneMore(to, tags, name, holds) ==
  /\ WellLaid(to) /\ Says(to, name, holds) /\ Lies(to.data, to.offset, to.size, holds)
  /\ \A other : other # name /\ Lacks(tags, other) => Lacks(to, other)
  /\ \A other, held : other # name /\ Says(tags, other, held) => Says(to, other, held)

LEMMA PieceAdded ==
    ASSUME NEW tags, WellLaid(tags), NEW name, Lacks(tags, name), NEW bytes \in Nat, bytes > 0, NEW holds
    PROVE  OneMore(AddTag(tags, name, Piece(bytes, holds)), tags, name, holds)
<1> DEFINE piece == Piece(bytes, holds)
<1>1. piece.bytes = bytes /\ piece.holds = holds
  BY DEF Piece
<1> HIDE DEF piece
<1> QED
  BY <1>1, TagAdded DEF OneMore, piece

LEMMA NameAdded ==
    ASSUME NEW tags, WellLaid(tags), NEW name, Lacks(tags, name),
           NEW holds, Lies(tags.data, tags.offset, tags.size, holds)
    PROVE  OneMore(AddToICCTagTable(tags, name), tags, name, holds)
  BY TagTold DEF OneMore

LEMMA DescribedTold ==
    ASSUME NEW c, EncodingOK(c), c.color_space # "XYB"
    PROVE  WellLaid(DescribedTags(c)) /\ \A name : name \notin {"desc", "cprt"} => Lacks(DescribedTags(c), name)
<1> DEFINE text == Description(c)
           length == TextLength(text)
           bytes == 28 + 2 * length
           desc == AddTag(NewTags, "desc", Piece(bytes, [text |-> text]))
           nobody == [text |-> <<>>]
           cprt == AddTag(desc, "cprt", Piece(256, nobody))
<1>1. length \in Nat
  BY DescriptionLength
<1>2. bytes \in Nat /\ bytes > 0
  <2> HIDE DEF length
  <2> QED
    BY <1>1
<1>3. DescribedTags(c) = cprt
  <2>1. 28 + 2 * 114 = 256
    OBVIOUS
  <2> QED
    BY <2>1 DEF DescribedTags, Mluc
<1> HIDE DEF text, length, bytes
<1>4. OneMore(desc, NewTags, "desc", [text |-> text])
  BY <1>2, NothingLaid, PieceAdded
<1> HIDE DEF desc
<1>5. WellLaid(desc) /\ \A name : name # "desc" => Lacks(desc, name)
  BY <1>4, NothingLaid DEF OneMore
<1> HIDE DEF nobody
<1>6. OneMore(cprt, desc, "cprt", nobody)
  BY <1>5, PieceAdded
<1> HIDE DEF cprt
<1> QED
  BY <1>3, <1>5, <1>6 DEF OneMore

LEMMA CurveBytes ==
    ASSUME NEW curve
    PROVE  \E bytes \in Nat : bytes > 0 /\ CurveTag(curve) = Piece(bytes, [curve |-> curve])
<1>1. 12 + 2 * 4096 = 8204 /\ 12 + 5 * 4 = 32
  OBVIOUS
<1>2. CurveTag(curve) = Piece(8204, [curve |-> curve]) \/ CurveTag(curve) = Piece(32, [curve |-> curve])
  BY <1>1 DEF CurveTag
<1> QED
  BY <1>2

LEMMA GrayTold ==
    ASSUME NEW c, EncodingOK(c), c.color_space # "XYB"
    PROVE  /\ WellLaid(GrayTags(c))
           /\ Says(GrayTags(c), "wtpt", [white |-> GetWhitePoint(c)])
           /\ Says(GrayTags(c), "kTRC", [curve |-> Curve(c.tf)])
           /\ \A name : name \notin {"desc", "cprt", "wtpt", "kTRC"} => Lacks(GrayTags(c), name)
<1> DEFINE described == DescribedTags(c)
           holds == [white |-> GetWhitePoint(c)]
           wtpt == AddTag(described, "wtpt", Piece(20, holds))
           curve == Curve(c.tf)
           kTRC == AddTag(wtpt, "kTRC", CurveTag(curve))
<1>1. GrayTags(c) = kTRC
  <2>1. 8 + 3 * 4 = 20
    OBVIOUS
  <2> QED
    BY <2>1 DEF GrayTags, XYZ
<1>2. WellLaid(described) /\ \A name : name \notin {"desc", "cprt"} => Lacks(described, name)
  BY DescribedTold
<1> HIDE DEF described
<1>3. OneMore(wtpt, described, "wtpt", holds)
  BY <1>2, PieceAdded
<1> HIDE DEF wtpt, holds
<1>4. WellLaid(wtpt) /\ \A name : name \notin {"desc", "cprt", "wtpt"} => Lacks(wtpt, name)
  BY <1>2, <1>3 DEF OneMore
<1>5. OneMore(kTRC, wtpt, "kTRC", [curve |-> curve])
  <2>1. PICK bytes \in Nat : bytes > 0 /\ CurveTag(curve) = Piece(bytes, [curve |-> curve])
    BY CurveBytes
  <2> QED
    BY <1>4, <2>1, PieceAdded
<1> HIDE DEF kTRC, curve
<1>6. /\ WellLaid(kTRC) /\ Says(kTRC, "wtpt", holds) /\ Says(kTRC, "kTRC", [curve |-> curve])
      /\ \A name : name \notin {"desc", "cprt", "wtpt", "kTRC"} => Lacks(kTRC, name)
  BY <1>3, <1>4, <1>5 DEF OneMore
<1> QED
  BY <1>1, <1>6 DEF holds, curve

LEMMA ColorTold ==
    ASSUME NEW c, EncodingOK(c), c.color_space # "XYB"
    PROVE  /\ WellLaid(ColorTags(c))
           /\ Says(ColorTags(c), "wtpt", [white |-> D50])
           /\ Says(ColorTags(c), "chad", [white |-> GetWhitePoint(c)])
           /\ Says(ColorTags(c), "rXYZ", [rgb |-> GetPrimaries(c), white |-> GetWhitePoint(c), channel |-> 1])
           /\ \E holds : Says(ColorTags(c), "gXYZ", holds)
           /\ \E holds : Says(ColorTags(c), "bXYZ", holds)
           /\ \A name \in CurveTags : Says(ColorTags(c), name, [curve |-> Curve(c.tf)])
           /\ Lacks(ColorTags(c), "A2B0")
<1> DEFINE described == DescribedTags(c)
           known == {"desc", "cprt"}
           d50 == [white |-> D50]
           white == [white |-> GetWhitePoint(c)]
           colorant(m) == [rgb |-> GetPrimaries(c), white |-> GetWhitePoint(c), channel |-> m]
           red == colorant(1)
           green == colorant(2)
           blue == colorant(3)
           curve == Curve(c.tf)
           held == [curve |-> curve]
           wtpt == AddTag(described, "wtpt", Piece(20, d50))
           chad == AddTag(wtpt, "chad", Piece(44, white))
           rXYZ == AddTag(chad, "rXYZ", Piece(20, red))
           gXYZ == AddTag(rXYZ, "gXYZ", Piece(20, green))
           bXYZ == AddTag(gXYZ, "bXYZ", Piece(20, blue))
           rTRC == AddTag(bXYZ, "rTRC", CurveTag(curve))
           gTRC == AddToICCTagTable(rTRC, "gTRC")
           bTRC == AddToICCTagTable(gTRC, "bTRC")
<1>1. ColorTags(c) = bTRC
  <2>1. 8 + 3 * 4 = 20 /\ 8 + 9 * 4 = 44
    OBVIOUS
  <2> QED
    BY <2>1 DEF ColorTags, XYZ, Chad, Colorant
<1>2. WellLaid(described) /\ \A name : name \notin known => Lacks(described, name)
  BY DescribedTold
<1> HIDE DEF described, known, d50, white, red, green, blue, held
<1>3. OneMore(wtpt, described, "wtpt", d50)
  BY <1>2, PieceAdded DEF known
<1> HIDE DEF wtpt
<1>4. WellLaid(wtpt) /\ \A name : name \notin known \cup {"wtpt"} => Lacks(wtpt, name)
  BY <1>2, <1>3 DEF OneMore
<1>5. OneMore(chad, wtpt, "chad", white)
  BY <1>4, PieceAdded DEF known
<1> HIDE DEF chad
<1>6. /\ WellLaid(chad) /\ \A name : name \notin known \cup {"wtpt", "chad"} => Lacks(chad, name)
      /\ Says(chad, "wtpt", d50) /\ Says(chad, "chad", white)
  BY <1>3, <1>4, <1>5 DEF OneMore
<1>7. OneMore(rXYZ, chad, "rXYZ", red)
  BY <1>6, PieceAdded DEF known
<1> HIDE DEF rXYZ
<1>8. /\ WellLaid(rXYZ) /\ \A name : name \notin known \cup {"wtpt", "chad", "rXYZ"} => Lacks(rXYZ, name)
      /\ Says(rXYZ, "wtpt", d50) /\ Says(rXYZ, "chad", white) /\ Says(rXYZ, "rXYZ", red)
  BY <1>6, <1>7 DEF OneMore
<1>9. OneMore(gXYZ, rXYZ, "gXYZ", green)
  BY <1>8, PieceAdded DEF known
<1> HIDE DEF gXYZ
<1>10. /\ WellLaid(gXYZ)
       /\ \A name : name \notin known \cup {"wtpt", "chad", "rXYZ", "gXYZ"} => Lacks(gXYZ, name)
       /\ Says(gXYZ, "wtpt", d50) /\ Says(gXYZ, "chad", white) /\ Says(gXYZ, "rXYZ", red)
       /\ Says(gXYZ, "gXYZ", green)
  BY <1>8, <1>9 DEF OneMore
<1>11. OneMore(bXYZ, gXYZ, "bXYZ", blue)
  BY <1>10, PieceAdded DEF known
<1> HIDE DEF bXYZ
<1>12. /\ WellLaid(bXYZ)
       /\ \A name : name \notin known \cup {"wtpt", "chad"} \cup ColorantTags => Lacks(bXYZ, name)
       /\ Says(bXYZ, "wtpt", d50) /\ Says(bXYZ, "chad", white) /\ Says(bXYZ, "rXYZ", red)
       /\ Says(bXYZ, "gXYZ", green) /\ Says(bXYZ, "bXYZ", blue)
  BY <1>10, <1>11 DEF OneMore, ColorantTags
<1>13. OneMore(rTRC, bXYZ, "rTRC", held)
  <2>1. PICK bytes \in Nat : bytes > 0 /\ CurveTag(curve) = Piece(bytes, held)
    BY CurveBytes DEF held
  <2>2. Lacks(bXYZ, "rTRC")
    BY <1>12 DEF known, ColorantTags
  <2> QED
    BY <1>12, <2>1, <2>2, PieceAdded
<1> HIDE DEF rTRC, curve
<1>14. Lies(rTRC.data, rTRC.offset, rTRC.size, held) /\ WellLaid(rTRC) /\ Lacks(rTRC, "gTRC")
  BY <1>12, <1>13 DEF OneMore, known, ColorantTags
<1>15. OneMore(gTRC, rTRC, "gTRC", held)
  BY <1>14, NameAdded
<1> HIDE DEF gTRC
<1>16. Lies(gTRC.data, gTRC.offset, gTRC.size, held) /\ WellLaid(gTRC) /\ Lacks(gTRC, "bTRC")
  BY <1>12, <1>13, <1>15 DEF OneMore, known, ColorantTags
<1>17. OneMore(bTRC, gTRC, "bTRC", held)
  BY <1>16, NameAdded
<1> HIDE DEF bTRC
<1>18. ASSUME NEW name, NEW holds, Says(bXYZ, name, holds), name \notin CurveTags PROVE Says(bTRC, name, holds)
  BY <1>13, <1>15, <1>17, <1>18 DEF OneMore, CurveTags
<1>19. Lacks(bTRC, "A2B0") /\ WellLaid(bTRC)
  BY <1>12, <1>13, <1>15, <1>17 DEF OneMore, known, ColorantTags
<1>20. Says(bTRC, "rTRC", held) /\ Says(bTRC, "gTRC", held) /\ Says(bTRC, "bTRC", held)
  BY <1>13, <1>15, <1>17 DEF OneMore
<1>21. /\ Says(bTRC, "wtpt", d50) /\ Says(bTRC, "chad", white) /\ Says(bTRC, "rXYZ", red)
       /\ Says(bTRC, "gXYZ", green) /\ Says(bTRC, "bXYZ", blue)
  BY <1>12, <1>18 DEF CurveTags
<1>22. /\ \A name \in CurveTags : Says(bTRC, name, held)
       /\ \E holds : Says(bTRC, "gXYZ", holds)
       /\ \E holds : Says(bTRC, "bXYZ", holds)
  BY <1>20, <1>21 DEF CurveTags
<1>23. red = [rgb |-> GetPrimaries(c), white |-> GetWhitePoint(c), channel |-> 1]
  BY DEF red
<1>24. d50 = [white |-> D50] /\ white = [white |-> GetWhitePoint(c)] /\ held = [curve |-> Curve(c.tf)]
  BY DEF d50, white, held, curve
<1> QED
  BY <1>1, <1>19, <1>21, <1>22, <1>23, <1>24

-----------------------------------------------------------------------------
(* A profile that is made of an encoding tells its fields.                 *)

LEMMA MadeOrNot ==
    ASSUME NEW c, EncodingOK(c)
    PROVE  LET made == MaybeCreateProfile(c)
           IN  \/ made = [ok |-> FALSE, icc |-> NoICC]
               \/ /\ c.color_space = "Gray" /\ ~IsTF(c, "Unknown")
                  /\ made = [ok |-> TRUE, icc |-> Profile("GRAY", c.rendering_intent, GrayTags(c))]
               \/ /\ c.color_space = "RGB" /\ ~IsTF(c, "Unknown")
                  /\ made = [ok |-> TRUE, icc |-> Profile("RGB", c.rendering_intent, ColorTags(c))]
<1> DEFINE bad == [ok |-> FALSE, icc |-> NoICC]
           gray == [ok |-> TRUE, icc |-> Profile("GRAY", c.rendering_intent, GrayTags(c))]
           color == [ok |-> TRUE, icc |-> Profile("RGB", c.rendering_intent, ColorTags(c))]
           unknown == IsTF(c, "Unknown")
           fits == WhiteFitsTag(GetWhitePoint(c))
           adapts == CanAdaptToXYZD50(GetWhitePoint(c)) /\ Invertible(GetPrimaries(c))
<1>1. c.color_space \in {"RGB", "Gray", "XYB", "Unknown"}
  BY SpacesAre DEF EncodingOK
<1>2. MaybeCreateProfile(c) =
        CASE c.color_space \in {"Unknown", "XYB"} \/ unknown -> bad
          [] c.color_space = "Gray" /\ ~unknown -> IF fits THEN gray ELSE bad
          [] OTHER -> IF adapts THEN color ELSE bad
  BY DEF MaybeCreateProfile
<1> HIDE DEF bad, gray, color, unknown, fits, adapts
<1>3. \/ MaybeCreateProfile(c) = bad
      \/ c.color_space = "Gray" /\ ~unknown /\ MaybeCreateProfile(c) = gray
      \/ c.color_space = "RGB" /\ ~unknown /\ MaybeCreateProfile(c) = color
  BY <1>1, <1>2
<1> QED
  BY <1>3 DEF bad, gray, color, unknown

LEMMA ProfileIsOne ==
    ASSUME NEW space, NEW intent, NEW tags
    PROVE  Profile(space, intent, tags) # NoICC
<1>1. "table" \in DOMAIN Profile(space, intent, tags)
  BY DEF Profile
<1>2. "table" \notin DOMAIN NoICC
  BY DEF NoICC
<1> QED
  BY <1>1, <1>2

(* What a profile has to say of `c`.                                       *)
Tells(profile, c) ==
  /\ profile # NoICC /\ DecodeProfile(profile) /\ CanTransform(profile)
  /\ profile.header.data_space = (IF IsGray(c) THEN "GRAY" ELSE "RGB")
  /\ profile.header.intent = c.rendering_intent
  /\ CurveIn(profile) = Curve(c.tf) /\ WhiteIn(profile) = GetWhitePoint(c)
  /\ ~IsGray(c) =>
       /\ ColorantsTold(profile) = ColorantsIn(profile)
       /\ ColorantsIn(profile) = [rgb |-> GetPrimaries(c), white |-> GetWhitePoint(c), channel |-> 1]

LEMMA GrayTells ==
    ASSUME NEW c, EncodingOK(c), c.color_space = "Gray"
    PROVE  Tells(Profile("GRAY", c.rendering_intent, GrayTags(c)), c)
<1> DEFINE tags == GrayTags(c)
           profile == Profile("GRAY", c.rendering_intent, tags)
<1>1. /\ WellLaid(tags)
      /\ Says(tags, "wtpt", [white |-> GetWhitePoint(c)])
      /\ Says(tags, "kTRC", [curve |-> Curve(c.tf)])
      /\ Lacks(tags, "chad") /\ Lacks(tags, "A2B0")
  BY GrayTold
<1> HIDE DEF tags
<1>2. /\ profile.header.magic = "acsp" /\ profile.header.data_space = "GRAY"
      /\ profile.header.intent = c.rendering_intent /\ profile # NoICC
  BY <1>1, ProfileLaid, ProfileIsOne
<1>3. /\ IsRead(profile, "wtpt", [white |-> GetWhitePoint(c)])
      /\ IsRead(profile, "kTRC", [curve |-> Curve(c.tf)])
      /\ ~HasTag(profile, "chad") /\ ~HasTag(profile, "A2B0")
  BY <1>1, TagRead
<1> HIDE DEF profile
<1>4. CanTransform(profile) /\ DecodeProfile(profile)
  BY <1>2, <1>3 DEF CanTransform, DecodeProfile, IsRead
<1>5. CurveIn(profile) = Curve(c.tf)
  BY <1>2, <1>3 DEF CurveIn, IsRead
<1>6. WhiteIn(profile) = GetWhitePoint(c)
  BY <1>3 DEF WhiteIn, IsRead
<1>7. IsGray(c)
  BY DEF IsGray
<1> QED
  BY <1>2, <1>4, <1>5, <1>6, <1>7 DEF Tells, profile, tags

LEMMA ColorTells ==
    ASSUME NEW c, EncodingOK(c), c.color_space = "RGB"
    PROVE  Tells(Profile("RGB", c.rendering_intent, ColorTags(c)), c)
<1> DEFINE tags == ColorTags(c)
           profile == Profile("RGB", c.rendering_intent, tags)
           red == [rgb |-> GetPrimaries(c), white |-> GetWhitePoint(c), channel |-> 1]
           held == [curve |-> Curve(c.tf)]
           white == [white |-> GetWhitePoint(c)]
<1>1. /\ WellLaid(tags) /\ Says(tags, "chad", white) /\ Says(tags, "rXYZ", red)
      /\ \E holds : Says(tags, "gXYZ", holds)
      /\ \E holds : Says(tags, "bXYZ", holds)
      /\ \A name \in CurveTags : Says(tags, name, held)
      /\ Lacks(tags, "A2B0")
  BY ColorTold
<1>2. held.curve = Curve(c.tf) /\ white.white = GetWhitePoint(c)
  OBVIOUS
<1> HIDE DEF tags, red, held, white
<1>3. /\ profile.header.magic = "acsp" /\ profile.header.data_space = "RGB"
      /\ profile.header.intent = c.rendering_intent /\ profile # NoICC
  BY <1>1, ProfileLaid, ProfileIsOne
<1>4. IsRead(profile, "chad", white) /\ IsRead(profile, "rXYZ", red)
  BY <1>1, TagRead
<1>5. HasTag(profile, "gXYZ") /\ HasTag(profile, "bXYZ")
  BY <1>1, TagRead DEF IsRead
<1>6. \A name \in CurveTags : IsRead(profile, name, held)
  BY <1>1, TagRead
<1>7. ~HasTag(profile, "A2B0")
  BY <1>1, TagRead
<1> HIDE DEF profile
<1>8. \A name \in ColorantTags \cup CurveTags : HasTag(profile, name)
  BY <1>4, <1>5, <1>6 DEF ColorantTags, IsRead
<1>9. CanTransform(profile) /\ DecodeProfile(profile) /\ HasColorants(profile)
  BY <1>3, <1>8 DEF CanTransform, DecodeProfile, HasColorants
<1>10. CurveIn(profile) = Curve(c.tf)
  <2>1. IsRead(profile, "rTRC", held)
    BY <1>6 DEF CurveTags
  <2>2. CurveIn(profile) = ReadTag(profile, "rTRC").curve
    BY <1>3, <1>7, SMT DEF CurveIn
  <2> QED
    BY <1>2, <2>1, <2>2 DEF IsRead
<1>11. /\ WhiteIn(profile) = GetWhitePoint(c)
       /\ ColorantsIn(profile) = red /\ ColorantsTold(profile) = red
  BY <1>2, <1>4, <1>7, <1>9 DEF WhiteIn, ColorantsIn, ColorantsTold, IsRead
<1>12. ~IsGray(c)
  BY DEF IsGray
<1> QED
  BY <1>3, <1>9, <1>10, <1>11, <1>12 DEF Tells, profile, tags, red

LEMMA MadeTells ==
    ASSUME NEW c, EncodingOK(c), MaybeCreateProfile(c).ok
    PROVE  /\ Tells(MaybeCreateProfile(c).icc, c) /\ c.color_space \in {"RGB", "Gray"}
           /\ ~IsTF(c, "Unknown")
<1> DEFINE made == MaybeCreateProfile(c)
           gray == Profile("GRAY", c.rendering_intent, GrayTags(c))
           color == Profile("RGB", c.rendering_intent, ColorTags(c))
<1>1. \/ made = [ok |-> FALSE, icc |-> NoICC]
      \/ /\ c.color_space = "Gray" /\ ~IsTF(c, "Unknown")
         /\ made = [ok |-> TRUE, icc |-> gray]
      \/ /\ c.color_space = "RGB" /\ ~IsTF(c, "Unknown")
         /\ made = [ok |-> TRUE, icc |-> color]
  BY MadeOrNot
<1> HIDE DEF made, gray, color
<1>2. \/ c.color_space = "Gray" /\ ~IsTF(c, "Unknown") /\ made.icc = gray
      \/ c.color_space = "RGB" /\ ~IsTF(c, "Unknown") /\ made.icc = color
  <2>1. made # [ok |-> FALSE, icc |-> NoICC]
    BY DEF made
  <2> QED
    BY <1>1, <2>1
<1>3. c.color_space = "Gray" => Tells(gray, c)
  BY GrayTells DEF gray
<1>4. c.color_space = "RGB" => Tells(color, c)
  BY ColorTells DEF color
<1> QED
  BY <1>2, <1>3, <1>4 DEF made

LEMMA NotMade ==
    ASSUME NEW c, EncodingOK(c), ~MaybeCreateProfile(c).ok
    PROVE  MaybeCreateProfile(c).icc = NoICC
  BY MadeOrNot

LEMMA CurveIsNumber ==
    ASSUME NEW tf, CurveOK(tf)
    PROVE  Curve(tf).gamma \in Int
<1>1. ExponentOf(tf) \in Int
  BY SMT DEF ExponentOf, CurveOK, Curves, kGammaMul
<1> QED
  BY <1>1 DEF Curve

LEMMA TellsItself ==
    ASSUME NEW c, EncodingOK(c), NEW profile, Tells(profile, c)
    PROVE  /\ ProfileEquivalentToICC(profile, profile, c)
           /\ ~IsTF(c, "Unknown") => ProfileSays(profile, c)
<1>1. SameProfileCurve(Curve(c.tf), Curve(c.tf))
  BY CurveIsNumber DEF SameProfileCurve, AbsoluteOf, EncodingOK
<1>2. GetWhitePoint(c) \in XYs /\ GetPrimaries(c) \in [1 .. 3 -> XYs]
  BY Chromaticities_ DEF EncodingOK
<1>3. ASSUME NEW xy \in XYs
      PROVE  Near(xy, xy) /\ Close(xy, xy)
  BY DEF Near, Close, AbsoluteOf, XYs
<1> DEFINE red == [rgb |-> GetPrimaries(c), white |-> GetWhitePoint(c), channel |-> 1]
<1>4. red.rgb = GetPrimaries(c) /\ red.white = GetWhitePoint(c)
  OBVIOUS
<1>5. Close(red.white, red.white) /\ \A k \in 1 .. 3 : Close(red.rgb[k], red.rgb[k])
  <2>1. red.white \in XYs /\ \A k \in 1 .. 3 : red.rgb[k] \in XYs
    BY <1>2, <1>4
  <2> HIDE DEF red
  <2> QED
    BY <1>3, <2>1
<1> HIDE DEF red
<1>6. /\ DecodeProfile(profile) /\ CanTransform(profile) /\ CurveIn(profile) = Curve(c.tf)
      /\ ~IsGray(c) => ColorantsIn(profile) = red /\ ColorantsTold(profile) = red
  BY DEF Tells, red
<1>7. ProfileEquivalentToICC(profile, profile, c)
  BY <1>1, <1>5, <1>6 DEF ProfileEquivalentToICC
<1>8. ASSUME ~IsTF(c, "Unknown") PROVE ProfileSays(profile, c)
  <2>1. Near(WhiteIn(profile), GetWhitePoint(c))
    BY <1>2, <1>3 DEF Tells
  <2>2. ~IsGray(c) => \A k \in 1 .. 3 : Near(ColorantsTold(profile).rgb[k], GetPrimaries(c)[k])
    <3>1. \A k \in 1 .. 3 : GetPrimaries(c)[k] \in XYs
      BY <1>2
    <3> QED
      BY <1>3, <1>4, <1>6, <3>1
  <2>3. SaysAll(profile, c)
    BY <1>1, <1>4, <1>5, <1>6 DEF SaysAll
  <2> QED
    BY <1>8, <2>1, <2>2, <2>3 DEF ProfileSays, Tells
<1> QED
  BY <1>7, <1>8

-----------------------------------------------------------------------------
(* Only the colours and the intent of an encoding go into a profile.       *)

MeantFields == {"color_space", "white_point", "white", "primaries", "rgb", "tf", "rendering_intent"}
Alike(c, d) == \A f \in MeantFields : c[f] = d[f]

LEMMA MadeAlike ==
    ASSUME NEW c, NEW d, Alike(c, d)
    PROVE  MaybeCreateProfile(c) = MaybeCreateProfile(d)
<1>1. /\ c.color_space = d.color_space /\ c.white_point = d.white_point /\ c.white = d.white
      /\ c.primaries = d.primaries /\ c.rgb = d.rgb /\ c.tf = d.tf
      /\ c.rendering_intent = d.rendering_intent
  BY DEF Alike, MeantFields
<1>2. GetWhitePoint(c) = GetWhitePoint(d) /\ GetPrimaries(c) = GetPrimaries(d)
  BY <1>1 DEF GetWhitePoint, GetPrimaries
<1>3. WhitePointTokens(c) = WhitePointTokens(d)
  BY <1>1, <1>2, SMT DEF WhitePointTokens
<1>4. PrimariesTokens(c) = PrimariesTokens(d)
  BY <1>1, <1>2, SMT DEF PrimariesTokens, HasPrimaries
<1>5. Description(c) = Description(d)
  BY <1>1, <1>3, <1>4 DEF Description
<1>6. DescribedTags(c) = DescribedTags(d)
  BY <1>5 DEF DescribedTags
<1>7. GrayTags(c) = GrayTags(d)
  BY <1>1, <1>2, <1>6 DEF GrayTags
<1>8. \A m : Colorant(c, m) = Colorant(d, m)
  BY <1>2 DEF Colorant
<1>9. ColorTags(c) = ColorTags(d)
  BY <1>1, <1>2, <1>6, <1>8 DEF ColorTags
<1>10. IsTF(c, "Unknown") <=> IsTF(d, "Unknown")
  BY <1>1 DEF IsTF
<1> QED
  BY <1>1, <1>2, <1>7, <1>9, <1>10, SMT DEF MaybeCreateProfile

LEMMA IccSet ==
    ASSUME NEW c, EncodingOK(c), NEW profile
    PROVE  LET to == [c EXCEPT !.icc = profile]
           IN  /\ EncodingOK(to) /\ to.icc = profile /\ Alike(to, c)
               /\ \A g \in FieldNames \ {"icc"} : to[g] = c[g]
<1> DEFINE to == [c EXCEPT !.icc = profile]
<1>1. HasFields(to) /\ to.icc = profile /\ \A g \in FieldNames \ {"icc"} : to[g] = c[g]
  BY FieldSet DEF EncodingOK, FieldNames
<1> HIDE DEF to
<1>2. /\ to.color_space = c.color_space /\ to.white_point = c.white_point /\ to.white = c.white
      /\ to.primaries = c.primaries /\ to.rgb = c.rgb /\ to.tf = c.tf
      /\ to.rendering_intent = c.rendering_intent /\ to.cmyk = c.cmyk /\ to.want_icc = c.want_icc
  BY <1>1 DEF FieldNames
<1>3. Alike(to, c)
  BY <1>2 DEF Alike, MeantFields
<1>4. WhiteOK(to) /\ PrimariesOK(to) /\ CurveOK(to.tf)
  BY <1>2 DEF EncodingOK, WhiteOK, PrimariesOK
<1>5. EncodingOK(to)
  BY <1>1, <1>2, <1>4 DEF EncodingOK
<1> QED
  BY <1>1, <1>3, <1>5 DEF to

LEMMA TellsAlike ==
    ASSUME NEW c, NEW d, Alike(c, d)
    PROVE  /\ \A profile : Tells(profile, c) <=> Tells(profile, d)
           /\ IsGray(c) <=> IsGray(d)
<1>1. /\ c.color_space = d.color_space /\ c.white_point = d.white_point /\ c.white = d.white
      /\ c.primaries = d.primaries /\ c.rgb = d.rgb /\ c.tf = d.tf
      /\ c.rendering_intent = d.rendering_intent
  BY DEF Alike, MeantFields
<1> QED
  BY <1>1 DEF Tells, GetWhitePoint, GetPrimaries, IsGray

(* An encoding with a profile.                                             *)
Keeps(c) ==
  /\ c.icc # NoICC
  /\ c.icc.header.data_space = "CMYK" => c.cmyk /\ c.want_icc
  /\ c.icc.header.data_space \in {"RGB", "GRAY"} => ProfileSays(c.icc, c)
  /\ c.color_space = "Unknown" => c.want_icc

AsMade(c) ==
  c.icc.header.data_space # "CMYK" /\ MaybeCreateProfile(c).ok =>
    ProfileEquivalentToICC(c.icc, MaybeCreateProfile(c).icc, c)

Managed(c) ==
  /\ EncodingOK(c) /\ c.color_space # "XYB" /\ c.color_space = ColorSpaceFromProfile(c.icc)
  /\ Keeps(c) /\ AsMade(c)

LEMMA FlagSet ==
    ASSUME NEW c, EncodingOK(c)
    PROVE  /\ LET to == [c EXCEPT !.want_icc = FALSE]
              IN  /\ EncodingOK(to) /\ ~to.want_icc /\ Alike(to, c)
                  /\ \A g \in FieldNames \ {"want_icc"} : to[g] = c[g]
           /\ LET to == [c EXCEPT !.want_icc = TRUE]
              IN  /\ EncodingOK(to) /\ to.want_icc /\ Alike(to, c)
                  /\ \A g \in FieldNames \ {"want_icc"} : to[g] = c[g]
           /\ LET to == [c EXCEPT !.cmyk = TRUE]
              IN  /\ EncodingOK(to) /\ to.cmyk /\ Alike(to, c)
                  /\ \A g \in FieldNames \ {"cmyk"} : to[g] = c[g]
<1>1. ASSUME NEW f \in {"want_icc", "cmyk"}, NEW to, HasFields(to), to[f] \in BOOLEAN,
             \A g \in FieldNames \ {f} : to[g] = c[g]
      PROVE  EncodingOK(to) /\ Alike(to, c)
  <2>1. /\ to.color_space = c.color_space /\ to.white_point = c.white_point /\ to.white = c.white
        /\ to.primaries = c.primaries /\ to.rgb = c.rgb /\ to.tf = c.tf
        /\ to.rendering_intent = c.rendering_intent
    BY <1>1 DEF FieldNames
  <2>2. to.cmyk \in BOOLEAN /\ to.want_icc \in BOOLEAN
    BY <1>1 DEF EncodingOK, FieldNames
  <2>3. WhiteOK(to) /\ PrimariesOK(to) /\ CurveOK(to.tf)
    BY <2>1 DEF EncodingOK, WhiteOK, PrimariesOK
  <2> QED
    BY <1>1, <2>1, <2>2, <2>3 DEF EncodingOK, Alike, MeantFields
<1>2. ASSUME NEW to, to = [c EXCEPT !.want_icc = FALSE]
      PROVE  /\ HasFields(to) /\ to.want_icc = FALSE
             /\ \A g \in FieldNames \ {"want_icc"} : to[g] = c[g]
  BY <1>2 DEF EncodingOK, HasFields, FieldNames
<1>3. ASSUME NEW to, to = [c EXCEPT !.want_icc = TRUE]
      PROVE  /\ HasFields(to) /\ to.want_icc = TRUE
             /\ \A g \in FieldNames \ {"want_icc"} : to[g] = c[g]
  BY <1>3 DEF EncodingOK, HasFields, FieldNames
<1>4. ASSUME NEW to, to = [c EXCEPT !.cmyk = TRUE]
      PROVE  /\ HasFields(to) /\ to.cmyk = TRUE
             /\ \A g \in FieldNames \ {"cmyk"} : to[g] = c[g]
  BY <1>4 DEF EncodingOK, HasFields, FieldNames
<1> QED
  BY <1>1, <1>2, <1>3, <1>4

LEMMA CreatedTells ==
    ASSUME NEW c, EncodingOK(c)
    PROVE  LET to == CreateICC(c)
           IN  /\ EncodingOK(to.c) /\ Alike(to.c, c)
               /\ IF to.ok THEN Managed(to.c) /\ to.c.color_space \in {"RGB", "Gray"}
                  ELSE to.c.icc = NoICC
<1> DEFINE made == MaybeCreateProfile(c)
           to == [c EXCEPT !.icc = made.icc]
<1>1. CreateICC(c).ok = made.ok /\ CreateICC(c).c = to
  BY DEF CreateICC
<1>2. EncodingOK(to) /\ to.icc = made.icc /\ Alike(to, c)
  BY IccSet
<1>3. ~made.ok => made.icc = NoICC
  BY NotMade
<1>4. made.ok => Tells(made.icc, c) /\ c.color_space \in {"RGB", "Gray"} /\ ~IsTF(c, "Unknown")
  BY MadeTells
<1>5. MaybeCreateProfile(to) = made
  BY <1>2, MadeAlike
<1> HIDE DEF made, to
<1>6. ASSUME made.ok
      PROVE  Managed(to) /\ to.color_space \in {"RGB", "Gray"}
  <2>1. to.color_space = c.color_space /\ to.tf = c.tf
    BY <1>2 DEF Alike, MeantFields
  <2>2. Tells(to.icc, to) /\ ~IsTF(to, "Unknown")
    BY <1>2, <1>4, <1>6, <2>1, TellsAlike DEF IsTF
  <2>3. ProfileEquivalentToICC(to.icc, to.icc, to) /\ ProfileSays(to.icc, to)
    BY <1>2, <2>2, TellsItself
  <2>4. to.icc # NoICC /\ to.icc.header.data_space # "CMYK"
    BY <2>2 DEF Tells
  <2>5. to.color_space \in {"RGB", "Gray"}
    BY <1>4, <1>6, <2>1
  <2>6. to.color_space = ColorSpaceFromProfile(to.icc)
    BY <2>2, <2>5 DEF Tells, IsGray, ColorSpaceFromProfile
  <2> QED
    BY <1>2, <1>5, <2>3, <2>4, <2>5, <2>6 DEF Managed, Keeps, AsMade
<1> QED
  BY <1>1, <1>2, <1>3, <1>6

LEMMA CanBeMade ==
    ASSUME NEW c, EncodingOK(c), c.color_space \in {"RGB", "Gray"}, ~IsTF(c, "Unknown"),
           c.white_point = "D65", c.primaries = "SRGB"
    PROVE  MaybeCreateProfile(c).ok
<1>1. GetWhitePoint(c) = <<31270, 32900>>
  BY WhitePointsAre DEF GetWhitePoint
<1>2. GetPrimaries(c) = << <<64000, 33000>>, <<30000, 60000>>, <<15000, 6000>> >>
  BY DEF GetPrimaries, KnownPrimaries
<1>3. WhiteFitsTag(<<31270, 32900>>) /\ CanAdaptToXYZD50(<<31270, 32900>>)
  <2>1. 31270 \div 32900 = 0 /\ 35830 \div 32900 = 1 /\ 100000 - 31270 - 32900 = 35830
    OBVIOUS
  <2> QED
    BY <2>1 DEF WhiteFitsTag, CanAdaptToXYZD50, FitsS15Fixed16, AbsoluteOf
<1>4. Invertible(<< <<64000, 33000>>, <<30000, 60000>>, <<15000, 6000>> >>)
  BY DEF Invertible
<1>5. WhiteFitsTag(GetWhitePoint(c)) /\ CanAdaptToXYZD50(GetWhitePoint(c)) /\ Invertible(GetPrimaries(c))
  BY <1>1, <1>2, <1>3, <1>4
<1>6. CASE c.color_space = "Gray"
  <2>1. MaybeCreateProfile(c) = [ok |-> TRUE, icc |-> Profile("GRAY", c.rendering_intent, GrayTags(c))]
    BY <1>5, <1>6, SMT DEF MaybeCreateProfile
  <2> QED
    BY <2>1
<1>7. CASE c.color_space = "RGB"
  <2>1. MaybeCreateProfile(c) = [ok |-> TRUE, icc |-> Profile("RGB", c.rendering_intent, ColorTags(c))]
    BY <1>5, <1>7, SMT DEF MaybeCreateProfile
  <2> QED
    BY <2>1
<1> QED
  BY <1>6, <1>7

LEMMA CreatedIfMade ==
    ASSUME NEW c, EncodingOK(c), MaybeCreateProfile(c).ok
    PROVE  Managed(CreateICC(c).c) /\ Alike(CreateICC(c).c, c)
<1>1. CreateICC(c).ok
  BY DEF CreateICC
<1> QED
  BY <1>1, CreatedTells

LEMMA SRGBManaged ==
    ASSUME NEW is_gray \in BOOLEAN
    PROVE  Managed(SRGB(is_gray)) /\ (IsGray(SRGB(is_gray)) <=> is_gray)
<1> DEFINE cs == IF is_gray THEN "Gray" ELSE "RGB"
           spaced == SetColorSpace(BlankColorEncoding, cs)
           c == WithTF(spaced, "SRGB")
<1>1. cs \in Spaces /\ cs # "XYB" /\ cs \in {"RGB", "Gray"} /\ (cs = "Gray" <=> is_gray)
  BY SpacesAre
<1> HIDE DEF cs
<1>2. /\ EncodingOK(spaced) /\ spaced.color_space = cs
      /\ \A g \in FieldNames \ {"tf", "color_space"} : spaced[g] = BlankColorEncoding[g]
  BY <1>1, BlankOK, ColorSpaceSet
<1>3. BlankColorEncoding.white_point = "D65" /\ BlankColorEncoding.primaries = "SRGB"
  BY DEF BlankColorEncoding
<1> HIDE DEF spaced
<1>4. "SRGB" \in DOMAIN TransferFunctionNames
  BY CurvesAre
<1>5. /\ EncodingOK(c) /\ IsTF(c, "SRGB")
      /\ \A g \in FieldNames \ {"tf"} : c[g] = spaced[g]
  BY <1>2, <1>4, TFSet
<1>6. c.color_space = cs /\ c.white_point = "D65" /\ c.primaries = "SRGB"
  BY <1>2, <1>3, <1>5 DEF FieldNames
<1>7. SRGB(is_gray) = CreateICC(c).c
  BY DEF SRGB, ReadyToUse, c, spaced, cs
<1> HIDE DEF c
<1>8. MaybeCreateProfile(c).ok
  BY <1>1, <1>5, <1>6, CanBeMade DEF IsTF
<1>9. Managed(CreateICC(c).c) /\ Alike(CreateICC(c).c, c)
  BY <1>5, <1>8, CreatedIfMade
<1> QED
  BY <1>1, <1>6, <1>7, <1>9 DEF IsGray, Alike, MeantFields

LEMMA SetSRGBManaged ==
    ASSUME NEW c, EncodingOK(c), NEW cs \in {"RGB", "Gray"}, SetSRGB(c, cs).ok
    PROVE  Managed(SetSRGB(c, cs).c)
<1> DEFINE curved == WithTF(c, "SRGB")
           to == [curved EXCEPT !.color_space = cs, !.white_point = "D65", !.primaries = "SRGB",
                                !.rendering_intent = "Relative"]
<1>1. "SRGB" \in DOMAIN TransferFunctionNames
  BY CurvesAre
<1>2. EncodingOK(curved)
  BY <1>1, TFSet
<1>3. SetSRGB(c, cs) = CreateICC(to)
  BY DEF SetSRGB
<1> HIDE DEF curved
<1>4. /\ HasFields(to) /\ to.color_space = cs /\ to.white_point = "D65" /\ to.primaries = "SRGB"
      /\ to.rendering_intent = "Relative" /\ to.tf = curved.tf /\ to.white = curved.white
      /\ to.rgb = curved.rgb /\ to.cmyk = curved.cmyk /\ to.want_icc = curved.want_icc
  BY <1>2 DEF EncodingOK, HasFields, FieldNames
<1> HIDE DEF to
<1>5. WhiteOK(to) /\ PrimariesOK(to)
  BY <1>2, <1>4, PrimariesAre DEF EncodingOK, WhiteOK, PrimariesOK, WhitePoints
<1>6. EncodingOK(to)
  BY <1>2, <1>4, <1>5, SpacesAre, IntentsAre DEF EncodingOK
<1> QED
  BY <1>3, <1>6, CreatedTells

LEMMA ExternalManaged ==
    ASSUME NEW c, EncodingOK(c), NEW external \in ExternalForms,
           WithExternal(c, external).ok, WithExternal(c, external).c.icc # NoICC
    PROVE  Managed(WithExternal(c, external).c)
<1> DEFINE fields == FieldsFromExternal(external, c)
           created == CreateICC(fields.c)
<1>1. WithExternal(c, external) = IF fields.ok THEN Good(created.c) ELSE fields
  BY DEF WithExternal, WithProfile
<1> HIDE DEF created
<1>2. fields.ok /\ WithExternal(c, external).c = created.c
  BY <1>1 DEF Good
<1>3. EncodingOK(fields.c)
  BY <1>2, FieldsTaken
<1> HIDE DEF fields
<1>4. IF created.ok THEN Managed(created.c) ELSE created.c.icc = NoICC
  BY <1>3, CreatedTells DEF created
<1> QED
  BY <1>2, <1>4

LEMMA HintManaged ==
    ASSUME NEW c, EncodingOK(c), NEW hints, hints # <<>> => hints[1] \in Seq(Tokens),
           NEW is_gray \in BOOLEAN, ApplyColorHints(hints, is_gray).ok
    PROVE  ApplyColorHints(hints, is_gray).c \in ExternalForms
<1>1. CASE hints = <<>>
  <2> DEFINE cs == IF is_gray THEN "Gray" ELSE "RGB"
             assumed == [NoExternal EXCEPT !.color_space = cs, !.white_point = "D65",
                                           !.primaries = "SRGB", !.transfer_function = "SRGB"]
  <2>1. ApplyColorHints(hints, is_gray).c = assumed
    BY <1>1 DEF ApplyColorHints, AssumedEncoding
  <2>2. cs \in DOMAIN SpaceNames
    BY SpacesAre DEF Spaces
  <2> HIDE DEF cs
  <2>3. NoExternal \in ExternalForms
    BY NoExternalIs
  <2>4. "SRGB" \in DOMAIN PrimariesNames /\ "SRGB" \in DOMAIN TransferFunctionNames /\ "D65" \in WhitePoints
    BY CurvesAre DEF PrimariesNames, WhitePoints
  <2>5. assumed \in ExternalForms
    BY <2>2, <2>3, <2>4 DEF ExternalForms
  <2> QED
    BY <2>1, <2>5
<1>2. CASE hints # <<>>
  <2>1. ApplyColorHints(hints, is_gray).c = ParseDescription(hints[1]).c
    BY <1>2 DEF ApplyColorHints
  <2>2. Parsing(ParseDescription(hints[1]))
    BY <1>2, AnyText
  <2> QED
    BY <2>1, <2>2 DEF Parsing
<1> QED
  BY <1>1, <1>2

LEMMA DecidedManaged ==
    ASSUME NEW c, Managed(c)
    PROVE  ~DecideIfWantICC(c).aborts /\ Managed(DecideIfWantICC(c).c)
<1> DEFINE made == MaybeCreateProfile(c)
           decides == DecodeProfile(c.icc) /\ c.icc.header.data_space # "CMYK" /\ made.ok
           to == [c EXCEPT !.want_icc = FALSE]
<1>1. /\ DecideIfWantICC(c).aborts = (decides /\ ~ProfileEquivalentToICC(c.icc, made.icc, c))
      /\ DecideIfWantICC(c).c = IF decides THEN to ELSE c
  BY DEF DecideIfWantICC
<1>2. decides => ProfileEquivalentToICC(c.icc, made.icc, c)
  BY DEF Managed, AsMade
<1>3. ASSUME decides PROVE Managed(to)
  <2>1. /\ EncodingOK(to) /\ ~to.want_icc /\ Alike(to, c)
        /\ \A g \in FieldNames \ {"want_icc"} : to[g] = c[g]
    BY FlagSet DEF Managed
  <2>2. c.color_space \in {"RGB", "Gray"} /\ ~IsTF(c, "Unknown")
    BY <1>3, MadeTells DEF Managed
  <2>3. MaybeCreateProfile(to) = made
    BY <2>1, MadeAlike
  <2> HIDE DEF to, made
  <2>4. /\ to.icc = c.icc /\ to.cmyk = c.cmyk /\ to.tf = c.tf /\ to.color_space = c.color_space
        /\ to.rendering_intent = c.rendering_intent
        /\ GetWhitePoint(to) = GetWhitePoint(c) /\ GetPrimaries(to) = GetPrimaries(c)
    BY <2>1 DEF FieldNames, GetWhitePoint, GetPrimaries
  <2>5. ProfileSays(c.icc, c) => ProfileSays(c.icc, to)
    BY <2>2, <2>4 DEF ProfileSays, SaysAll, IsGray, IsTF
  <2>6. Keeps(to)
    BY <1>3, <2>2, <2>4, <2>5 DEF Managed, Keeps
  <2>7. ProfileEquivalentToICC(c.icc, made.icc, c) => ProfileEquivalentToICC(c.icc, made.icc, to)
    BY <2>4 DEF ProfileEquivalentToICC, IsGray
  <2>8. AsMade(to)
    BY <1>2, <1>3, <2>3, <2>4, <2>7 DEF AsMade
  <2> QED
    BY <2>1, <2>4, <2>6, <2>8 DEF Managed
<1> HIDE DEF decides, to
<1> QED
  BY <1>1, <1>2, <1>3

-----------------------------------------------------------------------------
(* Reading the fields of a profile of others.                              *)

LEMMA LeastOf ==
    ASSUME NEW P, P \subseteq 1 .. 7, P # {}
    PROVE  \E k \in P : \A j \in P : k <= j
<1> SUFFICES ASSUME \A k \in P : \E j \in P : j < k PROVE FALSE
  <2>1. \A k, j \in P : k \in Int /\ j \in Int
    OBVIOUS
  <2> QED
    BY <2>1
<1>1. 1 \notin P
  OBVIOUS
<1>2. 2 \notin P
  BY <1>1
<1>3. 3 \notin P
  BY <1>1, <1>2
<1>4. 4 \notin P
  BY <1>1, <1>2, <1>3
<1>5. 5 \notin P
  BY <1>1, <1>2, <1>3, <1>4
<1>6. 6 \notin P
  BY <1>1, <1>2, <1>3, <1>4, <1>5
<1>7. 7 \notin P
  BY <1>1, <1>2, <1>3, <1>4, <1>5, <1>6
<1>8. PICK k \in P : TRUE
  OBVIOUS
<1>9. k \in 1 .. 7
  OBVIOUS
<1> QED
  BY <1>1, <1>2, <1>3, <1>4, <1>5, <1>6, <1>7, <1>8, <1>9

(* A curve whose profile does the same as `icc`, or none.                  *)
CurveFound(profile, c) ==
  \/ IsTF(c, "Unknown")
  \/ MaybeCreateProfile(c).ok /\ ProfileEquivalentToICC(profile, MaybeCreateProfile(c).icc, c)

LEMMA CurveDetected ==
    ASSUME NEW c, EncodingOK(c), NEW profile
    PROVE  LET to == DetectTransferFunction(profile, c)
           IN  /\ EncodingOK(to) /\ CurveFound(profile, to)
               /\ \A g \in FieldNames \ {"tf"} : to[g] = c[g]
<1> DEFINE Fits(tf) ==
             LET test == MaybeCreateProfile(WithTF(c, tf))
             IN  tf # "Unknown" /\ test.ok /\ ProfileEquivalentToICC(profile, test.icc, c)
           fitting == {k \in DOMAIN TransferFunctions : Fits(TransferFunctions[k])}
           first == CHOOSE k \in fitting : \A j \in fitting : k <= j
           tf == IF fitting = {} THEN "Unknown" ELSE TransferFunctions[first]
           to == WithTF(c, tf)
<1>1. ~HasImplicitTF(c.tf)
  BY DEF EncodingOK, CurveOK
<1>2. DetectTransferFunction(profile, c) = to
  BY <1>1, SMT DEF DetectTransferFunction
<1>3. DOMAIN TransferFunctions = 1 .. 7
  BY DEF TransferFunctions
<1>4. \A k \in DOMAIN TransferFunctions : TransferFunctions[k] \in DOMAIN TransferFunctionNames
  BY CurvesAre DEF TransferFunctions
<1>5. fitting \subseteq 1 .. 7
  BY <1>3
<1> HIDE DEF Fits
<1>6. fitting # {} => first \in fitting
  <2> HIDE DEF fitting
  <2> QED
    BY <1>5, LeastOf
<1>7. fitting # {} => Fits(tf) /\ tf \in DOMAIN TransferFunctionNames
  <2> HIDE DEF first
  <2> QED
    BY <1>4, <1>6
<1>8. tf = "Unknown" \/ Fits(tf)
  BY <1>7
<1>9. tf \in DOMAIN TransferFunctionNames
  BY <1>7, CurvesAre
<1> HIDE DEF tf, first, fitting
<1>10. /\ EncodingOK(to) /\ IsTF(to, tf) /\ \A g \in FieldNames \ {"tf"} : to[g] = c[g]
  BY <1>9, TFSet
<1>11. IsGray(to) <=> IsGray(c)
  BY <1>10 DEF IsGray, FieldNames
<1>12. ASSUME NEW other, ProfileEquivalentToICC(profile, other, c)
       PROVE  ProfileEquivalentToICC(profile, other, to)
  BY <1>11, <1>12 DEF ProfileEquivalentToICC
<1>13. Fits(tf) => MaybeCreateProfile(to).ok /\ ProfileEquivalentToICC(profile, MaybeCreateProfile(to).icc, c)
  BY DEF Fits
<1>14. CurveFound(profile, to)
  BY <1>8, <1>10, <1>12, <1>13 DEF CurveFound
<1> HIDE DEF to
<1> QED
  BY <1>2, <1>10, <1>14

(* Found in one of the profiles of files.                                  *)
LEMMA DriftedBy ==
    ASSUME NEW xy \in XYs, NEW drift \in Drifts
    PROVE  Drifted(xy, drift) \in XYs /\ Within(Drifted(xy, drift), xy, 7)
<1>1. drift \in -7 .. 7
  BY DriftsAssumption
<1>2. drift \in Int /\ -7 <= drift /\ drift <= 7
  BY <1>1
<1>3. xy[1] \in Int /\ xy[2] \in Int
  BY DEF XYs
<1> DEFINE to == Drifted(xy, drift)
<1>4. to[1] = xy[1] + drift /\ to[2] = xy[2] + drift /\ to \in [1 .. 2 -> Int]
  BY <1>2, <1>3 DEF Drifted
<1> HIDE DEF to
<1>5. \A m \in 1 .. 2 : m = 1 \/ m = 2
  OBVIOUS
<1>6. Within(to, xy, 7)
  <2>1. AbsoluteOf(to[1] - xy[1]) <= 7 /\ AbsoluteOf(to[2] - xy[2]) <= 7
    BY <1>2, <1>3, <1>4 DEF AbsoluteOf
  <2> QED
    BY <1>5, <2>1 DEF Within
<1> QED
  BY <1>4, <1>6 DEF XYs, to

LEMMA NearAfterAll ==
    ASSUME NEW xy \in XYs, NEW got \in XYs, NEW kept \in XYs,
           Within(got, xy, 7), Within(got, kept, 8)
    PROVE  Near(xy, kept)
  BY DEF Within, Near, AbsoluteOf, XYs

LEMMA WhiteFound ==
    ASSUME NEW profile \in Profiles, profile # NoICC, NEW drift \in Drifts
    PROVE  LET got == UnadaptedWhitePoint(profile, drift)
           IN  /\ got \in XYs
               /\ TellsWhite(profile) => WhiteIn(profile) \in XYs /\ Within(got, WhiteIn(profile), 7)
<1>1. \A tag \in {"wtpt", "chad"} : HasTag(profile, tag) => ReadTag(profile, tag).white \in XYs
  BY GivenAssumption DEF TagsHold
<1>2. D50 \in XYs /\ <<33333, 33333>> \in XYs
  BY DEF D50, XYs
<1>3. WhiteIn(profile) \in XYs
  <2>1. \/ HasTag(profile, "chad") /\ WhiteIn(profile) = ReadTag(profile, "chad").white
        \/ HasTag(profile, "wtpt") /\ WhiteIn(profile) = ReadTag(profile, "wtpt").white
        \/ WhiteIn(profile) = D50
    BY SMT DEF WhiteIn
  <2> QED
    BY <1>1, <1>2, <2>1
<1>4. UnadaptedWhitePoint(profile, drift) =
        IF TellsWhite(profile) THEN Drifted(WhiteIn(profile), drift) ELSE <<33333, 33333>>
  BY DEF UnadaptedWhitePoint
<1> QED
  BY <1>2, <1>3, <1>4, DriftedBy

LEMMA PrimariesFound ==
    ASSUME NEW profile \in Profiles, profile # NoICC, profile.header.data_space # "CMYK", NEW drift \in Drifts,
           NEW c, EncodingOK(c), c.color_space = ColorSpaceFromProfile(profile),
           IdentifyPrimaries(profile, c, drift).ok
    PROVE  LET to == IdentifyPrimaries(profile, c, drift).c
           IN  /\ EncodingOK(to) /\ \A g \in FieldNames \ {"primaries", "rgb"} : to[g] = c[g]
               /\ c.color_space = "RGB" =>
                    \A k \in 1 .. 3 : Near(ColorantsTold(profile).rgb[k], GetPrimaries(to)[k])
<1> DEFINE got == [k \in 1 .. 3 |-> Drifted(ColorantsTold(profile).rgb[k], drift)]
           set == SetPrimaries(c, got)
<1>1. \/ IdentifyPrimaries(profile, c, drift) = Good(c) /\ c.color_space # "RGB"
      \/ /\ HasPrimaries(c) /\ ColorSpaceFromProfile(profile) # "Unknown"
         /\ CanTransform(profile) \/ HasColorants(profile)
         /\ IdentifyPrimaries(profile, c, drift) = set
  <2>1. IdentifyPrimaries(profile, c, drift) # Bad(c)
    BY DEF Bad
  <2>2. \/ IdentifyPrimaries(profile, c, drift) = Good(c)
           /\ (~HasPrimaries(c) \/ ColorSpaceFromProfile(profile) = "Unknown")
        \/ /\ HasPrimaries(c) /\ ColorSpaceFromProfile(profile) # "Unknown"
           /\ CanTransform(profile) \/ HasColorants(profile)
           /\ IdentifyPrimaries(profile, c, drift) = set
        \/ IdentifyPrimaries(profile, c, drift) = Bad(c)
    BY SMT DEF IdentifyPrimaries
  <2> QED
    BY <2>1, <2>2 DEF HasPrimaries
<1>2. CASE IdentifyPrimaries(profile, c, drift) = Good(c) /\ c.color_space # "RGB"
  BY <1>2 DEF Good
<1>3. CASE /\ HasPrimaries(c) /\ ColorSpaceFromProfile(profile) # "Unknown"
           /\ CanTransform(profile) \/ HasColorants(profile)
           /\ IdentifyPrimaries(profile, c, drift) = set
  <2>1. \A tag \in ColorantTags \cup {"A2B0"} :
          HasTag(profile, tag) => ReadTag(profile, tag).rgb \in [1 .. 3 -> XYs]
    BY GivenAssumption DEF TagsHold
  <2>2. profile.header.data_space = "RGB"
    BY <1>3 DEF HasPrimaries, ColorSpaceFromProfile
  <2>3. /\ HasTag(profile, "A2B0") \/ HasColorants(profile)
        /\ HasColorants(profile) => HasTag(profile, "rXYZ")
    BY <1>3, <2>2 DEF CanTransform, HasColorants, ColorantTags
  <2>4. ColorantsTold(profile).rgb \in [1 .. 3 -> XYs]
    BY <2>1, <2>3 DEF ColorantsTold, ColorantsIn, ColorantTags
  <2>5. ASSUME NEW k \in 1 .. 3
        PROVE  /\ ColorantsTold(profile).rgb[k] \in XYs /\ got[k] \in XYs
               /\ Within(got[k], ColorantsTold(profile).rgb[k], 7)
    <3>1. ColorantsTold(profile).rgb[k] \in XYs
      BY <2>4
    <3>2. got[k] = Drifted(ColorantsTold(profile).rgb[k], drift)
      OBVIOUS
    <3> QED
      BY <3>1, <3>2, DriftedBy
  <2>6. got \in [1 .. 3 -> XYs]
    BY <2>5
  <2> HIDE DEF got
  <2>7. HasFields(c) /\ c.rgb \in [1 .. 3 -> XYs]
    BY DEF EncodingOK, PrimariesOK
  <2>8. /\ HasFields(set.c) /\ PrimariesOK(set.c)
        /\ \A m \in 1 .. 3 : Within(got[m], GetPrimaries(set.c)[m], 8)
        /\ \A g \in FieldNames \ {"primaries", "rgb"} : set.c[g] = c[g]
    BY <1>3, <2>6, <2>7, PrimariesSet
  <2> DEFINE to == set.c
  <2> HIDE DEF set
  <2>9. EncodingOK(to)
    BY <2>8 DEF EncodingOK, WhiteOK, FieldNames
  <2>10. \A k \in 1 .. 3 : GetPrimaries(to)[k] \in XYs
    BY <2>8, Chromaticities_
  <2>11. \A k \in 1 .. 3 : Near(ColorantsTold(profile).rgb[k], GetPrimaries(to)[k])
    BY <2>5, <2>8, <2>10, NearAfterAll
  <2> QED
    BY <1>3, <2>8, <2>9, <2>11
<1> QED
  BY <1>1, <1>2, <1>3

(* The space and the intent of a profile in the encoding that has it.      *)
LEMMA SpaceFound ==
    ASSUME NEW c, EncodingOK(c), NEW profile, c.icc = profile, NEW intent \in DOMAIN RenderingIntentNames
    PROVE  LET marked == WithTF(SetColorSpace(c, "Unknown"), "Unknown")
               to == SetColorSpace([marked EXCEPT !.rendering_intent = intent], ColorSpaceFromProfile(profile))
           IN  /\ EncodingOK(to) /\ to.icc = profile /\ to.rendering_intent = intent
               /\ to.color_space = ColorSpaceFromProfile(profile)
<1> DEFINE space == ColorSpaceFromProfile(profile)
           unspaced == SetColorSpace(c, "Unknown")
           marked == WithTF(unspaced, "Unknown")
           told == [marked EXCEPT !.rendering_intent = intent]
           to == SetColorSpace(told, space)
<1>1. space \in {"RGB", "Gray", "Unknown"}
  BY DEF ColorSpaceFromProfile
<1>2. "Unknown" \in Spaces /\ space \in Spaces /\ space # "XYB"
  BY <1>1, SpacesAre
<1> HIDE DEF space
<1>3. EncodingOK(unspaced) /\ \A g \in FieldNames \ {"tf", "color_space"} : unspaced[g] = c[g]
  BY <1>2, ColorSpaceSet
<1> HIDE DEF unspaced
<1>4. "Unknown" \in DOMAIN TransferFunctionNames
  BY CurvesAre
<1>5. EncodingOK(marked) /\ \A g \in FieldNames \ {"tf"} : marked[g] = unspaced[g]
  BY <1>3, <1>4, TFSet
<1> HIDE DEF marked
<1>6. /\ HasFields(told) /\ told.rendering_intent = intent
      /\ \A g \in FieldNames \ {"rendering_intent"} : told[g] = marked[g]
  BY <1>5, FieldSet DEF EncodingOK, FieldNames
<1> HIDE DEF told
<1>7. /\ told.color_space = marked.color_space /\ told.white_point = marked.white_point
      /\ told.white = marked.white /\ told.primaries = marked.primaries /\ told.rgb = marked.rgb
      /\ told.tf = marked.tf /\ told.cmyk = marked.cmyk /\ told.want_icc = marked.want_icc
      /\ told.icc = profile
  BY <1>3, <1>5, <1>6 DEF FieldNames
<1>8. WhiteOK(told) /\ PrimariesOK(told)
  BY <1>5, <1>7 DEF EncodingOK, WhiteOK, PrimariesOK
<1>9. EncodingOK(told)
  BY <1>5, <1>6, <1>7, <1>8 DEF EncodingOK
<1>10. /\ EncodingOK(to) /\ to.color_space = space
       /\ \A g \in FieldNames \ {"tf", "color_space"} : to[g] = told[g]
  BY <1>2, <1>9, ColorSpaceSet
<1> HIDE DEF to
<1>11. to.icc = profile /\ to.rendering_intent = intent
  BY <1>6, <1>7, <1>10 DEF FieldNames
<1> QED
  BY <1>10, <1>11 DEF to, told, marked, unspaced, space

(* What is read of a profile, before its curve is looked for.              *)
ReadOf(profile, c) ==
  /\ EncodingOK(c) /\ c.icc = profile /\ c.rendering_intent = profile.header.intent
  /\ c.color_space = ColorSpaceFromProfile(profile)
  /\ TellsWhite(profile) => Near(WhiteIn(profile), GetWhitePoint(c))
  /\ profile.header.data_space = "RGB" =>
       \A k \in 1 .. 3 : Near(ColorantsTold(profile).rgb[k], GetPrimaries(c)[k])

LEMMA ColoursFound ==
    ASSUME NEW profile \in Profiles, profile # NoICC, profile.header.data_space # "CMYK", NEW drift \in Drifts,
           NEW c, EncodingOK(c), c.icc = profile, c.rendering_intent = profile.header.intent,
           c.color_space = ColorSpaceFromProfile(profile),
           SetWhitePoint(c, UnadaptedWhitePoint(profile, drift)).ok,
           IdentifyPrimaries(profile, SetWhitePoint(c, UnadaptedWhitePoint(profile, drift)).c, drift).ok
    PROVE  ReadOf(profile, IdentifyPrimaries(profile, SetWhitePoint(c, UnadaptedWhitePoint(profile, drift)).c, drift).c)
<1> DEFINE got == UnadaptedWhitePoint(profile, drift)
           white == SetWhitePoint(c, got)
           to == IdentifyPrimaries(profile, white.c, drift).c
<1>1. /\ got \in XYs
      /\ TellsWhite(profile) => WhiteIn(profile) \in XYs /\ Within(got, WhiteIn(profile), 7)
  BY WhiteFound
<1> HIDE DEF got
<1>2. HasFields(c) /\ c.white \in XYs /\ white.ok
  BY DEF EncodingOK, WhiteOK, got
<1>3. /\ HasFields(white.c) /\ WhiteOK(white.c) /\ Within(got, GetWhitePoint(white.c), 8)
      /\ \A g \in FieldNames \ {"white_point", "white"} : white.c[g] = c[g]
  BY <1>1, <1>2, WhitePointSet
<1>4. IdentifyPrimaries(profile, white.c, drift).ok
  BY DEF got
<1> HIDE DEF white
<1>5. EncodingOK(white.c)
  BY <1>3 DEF EncodingOK, PrimariesOK, FieldNames
<1>6. white.c.color_space = ColorSpaceFromProfile(profile)
  BY <1>3 DEF FieldNames
<1>7. /\ EncodingOK(to) /\ \A g \in FieldNames \ {"primaries", "rgb"} : to[g] = white.c[g]
      /\ white.c.color_space = "RGB" =>
           \A k \in 1 .. 3 : Near(ColorantsTold(profile).rgb[k], GetPrimaries(to)[k])
  BY <1>4, <1>5, <1>6, PrimariesFound
<1> HIDE DEF to
<1>8. /\ to.icc = profile /\ to.rendering_intent = profile.header.intent
      /\ to.color_space = ColorSpaceFromProfile(profile) /\ GetWhitePoint(to) = GetWhitePoint(white.c)
  BY <1>3, <1>7 DEF FieldNames, GetWhitePoint
<1>9. TellsWhite(profile) => Near(WhiteIn(profile), GetWhitePoint(to))
  <2>1. GetWhitePoint(white.c) \in XYs
    BY <1>3, Chromaticities_
  <2> QED
    BY <1>1, <1>3, <1>8, <2>1, NearAfterAll
<1>10. profile.header.data_space = "RGB" => white.c.color_space = "RGB"
  BY <1>6 DEF ColorSpaceFromProfile
<1> QED
  BY <1>7, <1>8, <1>9, <1>10 DEF ReadOf, to, white, got

LEMMA ReadManaged ==
    ASSUME NEW profile, profile # NoICC, profile.header.data_space # "CMYK", NEW c, ReadOf(profile, c)
    PROVE  Managed([DetectTransferFunction(profile, c) EXCEPT !.want_icc = TRUE])
<1> DEFINE found == DetectTransferFunction(profile, c)
           to == [found EXCEPT !.want_icc = TRUE]
<1>1. EncodingOK(found) /\ CurveFound(profile, found) /\ \A g \in FieldNames \ {"tf"} : found[g] = c[g]
  BY CurveDetected DEF ReadOf
<1> HIDE DEF found
<1>2. /\ EncodingOK(to) /\ to.want_icc /\ Alike(to, found)
      /\ \A g \in FieldNames \ {"want_icc"} : to[g] = found[g]
  BY <1>1, FlagSet
<1> HIDE DEF to
<1>3. /\ to.icc = profile /\ to.rendering_intent = profile.header.intent /\ to.tf = found.tf
      /\ to.color_space = ColorSpaceFromProfile(profile)
      /\ GetWhitePoint(to) = GetWhitePoint(c) /\ GetPrimaries(to) = GetPrimaries(c)
  BY <1>1, <1>2 DEF ReadOf, FieldNames, GetWhitePoint, GetPrimaries
<1>4. MaybeCreateProfile(to) = MaybeCreateProfile(found) /\ (IsGray(to) <=> IsGray(found))
  BY <1>2, MadeAlike, TellsAlike
<1>5. CurveFound(profile, to)
  <2>1. \A other : ProfileEquivalentToICC(profile, other, found) => ProfileEquivalentToICC(profile, other, to)
    BY <1>4 DEF ProfileEquivalentToICC
  <2>2. IsTF(found, "Unknown") => IsTF(to, "Unknown")
    BY <1>3 DEF IsTF
  <2> QED
    BY <1>1, <1>4, <2>1, <2>2 DEF CurveFound
<1>6. ASSUME MaybeCreateProfile(to).ok
      PROVE  /\ ~IsTF(to, "Unknown") /\ ProfileEquivalentToICC(profile, MaybeCreateProfile(to).icc, to)
             /\ Tells(MaybeCreateProfile(to).icc, to)
             /\ to.color_space # "Unknown"
  <2>1. /\ Tells(MaybeCreateProfile(to).icc, to) /\ to.color_space \in {"RGB", "Gray"}
        /\ ~IsTF(to, "Unknown")
    BY <1>2, <1>6, MadeTells
  <2>2. to.color_space # "Unknown"
    BY <2>1
  <2> QED
    BY <1>5, <2>1, <2>2 DEF CurveFound
<1>7. AsMade(to)
  BY <1>3, <1>6 DEF AsMade
<1>8. ASSUME profile.header.data_space \in {"RGB", "GRAY"} PROVE ProfileSays(profile, to)
  <2>1. profile.header.data_space = IF IsGray(to) THEN "GRAY" ELSE "RGB"
    BY <1>3, <1>8 DEF IsGray, ColorSpaceFromProfile
  <2>2. ~IsTF(to, "Unknown") => SaysAll(profile, to)
    <3> DEFINE made == MaybeCreateProfile(to)
               red == [rgb |-> GetPrimaries(to), white |-> GetWhitePoint(to), channel |-> 1]
    <3>1. SUFFICES ASSUME ~IsTF(to, "Unknown")
                   PROVE  SaysAll(profile, to)
      OBVIOUS
    <3>2. made.ok
      BY <1>5, <3>1 DEF CurveFound
    <3>3. ProfileEquivalentToICC(profile, made.icc, to) /\ Tells(made.icc, to)
      BY <1>6, <3>2
    <3>4. red.rgb = GetPrimaries(to) /\ red.white = GetWhitePoint(to)
      OBVIOUS
    <3>5. CurveIn(made.icc) = Curve(to.tf) /\ (~IsGray(to) => ColorantsIn(made.icc) = red)
      BY <3>3 DEF Tells
    <3> HIDE DEF made, red
    <3> QED
      BY <3>3, <3>4, <3>5 DEF ProfileEquivalentToICC, SaysAll
  <2>3. TellsWhite(profile) => Near(WhiteIn(profile), GetWhitePoint(to))
    BY <1>3 DEF ReadOf
  <2>4. ~IsGray(to) => \A k \in 1 .. 3 : Near(ColorantsTold(profile).rgb[k], GetPrimaries(to)[k])
    BY <1>3, <2>1 DEF ReadOf
  <2> QED
    BY <1>2, <1>3, <2>1, <2>2, <2>3, <2>4 DEF ProfileSays
<1>9. Keeps(to)
  BY <1>2, <1>3, <1>8 DEF Keeps
<1>10. to.color_space # "XYB"
  BY <1>3 DEF ColorSpaceFromProfile
<1> QED
  BY <1>2, <1>3, <1>7, <1>9, <1>10 DEF Managed, to, found

LEMMA InksManaged ==
    ASSUME NEW c, EncodingOK(c), c.icc # NoICC, c.icc.header.data_space = "CMYK",
           c.color_space = ColorSpaceFromProfile(c.icc)
    PROVE  Managed([[c EXCEPT !.cmyk = TRUE] EXCEPT !.want_icc = TRUE])
<1> DEFINE inks == [c EXCEPT !.cmyk = TRUE]
           to == [inks EXCEPT !.want_icc = TRUE]
<1>1. EncodingOK(inks) /\ inks.cmyk /\ \A g \in FieldNames \ {"cmyk"} : inks[g] = c[g]
  BY FlagSet
<1> HIDE DEF inks
<1>2. EncodingOK(to) /\ to.want_icc /\ \A g \in FieldNames \ {"want_icc"} : to[g] = inks[g]
  BY <1>1, FlagSet
<1> HIDE DEF to
<1>3. to.icc = c.icc /\ to.color_space = c.color_space /\ to.cmyk
  BY <1>1, <1>2 DEF FieldNames
<1>4. c.color_space = "RGB"
  BY DEF ColorSpaceFromProfile
<1> QED
  BY <1>2, <1>3, <1>4 DEF Managed, Keeps, AsMade, to, inks

LEMMA IntentsHaveNames ==
    ASSUME NEW intent, \E k \in DOMAIN RenderingIntents : RenderingIntents[k] = intent
    PROVE  intent \in DOMAIN RenderingIntentNames
<1>1. DOMAIN RenderingIntents = 1 .. 4
  BY DEF RenderingIntents
<1>2. \A k \in 1 .. 4 : k = 1 \/ k = 2 \/ k = 3 \/ k = 4
  OBVIOUS
<1>3. /\ RenderingIntents[1] = "Perceptual" /\ RenderingIntents[2] = "Relative"
      /\ RenderingIntents[3] = "Saturation" /\ RenderingIntents[4] = "Absolute"
  BY DEF RenderingIntents
<1> QED
  BY <1>1, <1>2, <1>3, IntentsAre

LEMMA ProfileManaged ==
    ASSUME NEW c, EncodingOK(c), NEW profile \in Profiles, NEW drift \in Drifts, SetICC(c, profile, drift).ok
    PROVE  Managed(SetICC(c, profile, drift).c)
<1> DEFINE given_ == [c EXCEPT !.icc = profile]
           marked == WithTF(SetColorSpace(given_, "Unknown"), "Unknown")
           told == SetColorSpace([marked EXCEPT !.rendering_intent = profile.header.intent],
                                 ColorSpaceFromProfile(profile))
           white == SetWhitePoint(told, UnadaptedWhitePoint(profile, drift))
           primaries == IdentifyPrimaries(profile, white.c, drift)
           inks == Good([told EXCEPT !.cmyk = TRUE])
           found == Good(DetectTransferFunction(profile, primaries.c))
           heard == \E k \in DOMAIN RenderingIntents : RenderingIntents[k] = profile.header.intent
           got == SetFieldsFromICC(given_, drift)
<1>1. profile # NoICC /\ SetICC(c, profile, drift) = KeptIfRead(got)
  BY DEF SetICC, Bad
<1>2. EncodingOK(given_) /\ given_.icc = profile
  BY IccSet
<1> HIDE DEF given_
<1>3. \/ got = Bad(marked)
      \/ heard /\ profile.header.data_space = "CMYK" /\ got = inks
      \/ heard /\ profile.header.data_space # "CMYK" /\ ~white.ok /\ got = white
      \/ heard /\ profile.header.data_space # "CMYK" /\ white.ok /\ ~primaries.ok /\ got = primaries
      \/ heard /\ profile.header.data_space # "CMYK" /\ white.ok /\ primaries.ok /\ got = found
  <2> DEFINE decodes == DecodeProfile(profile)
             cmyk == profile.header.data_space = "CMYK"
             bad == Bad(marked)
  <2>1. got = CASE ~decodes -> bad
                 [] decodes /\ \A k \in DOMAIN RenderingIntents : RenderingIntents[k] # profile.header.intent -> bad
                 [] OTHER ->
                      CASE cmyk -> inks
                        [] ~cmyk /\ ~white.ok -> white
                        [] ~cmyk /\ white.ok /\ ~primaries.ok -> primaries
                        [] OTHER -> found
    BY <1>2 DEF SetFieldsFromICC
  <2> HIDE DEF decodes, cmyk, bad, got, marked, told, white, primaries, inks, found
  <2>2. \/ got = bad
        \/ heard /\ got = CASE cmyk -> inks
                             [] ~cmyk /\ ~white.ok -> white
                             [] ~cmyk /\ white.ok /\ ~primaries.ok -> primaries
                             [] OTHER -> found
    BY <2>1
  <2>3. ~cmyk <=> profile.header.data_space # "CMYK"
    BY DEF cmyk
  <2> QED
    BY <2>2, <2>3 DEF bad
<1>4. got.ok
  <2>1. ~KeptIfRead(got).ok \/ got.ok
    BY DEF KeptIfRead, Bad
  <2> QED
    BY <1>1, <2>1
<1>5. SetICC(c, profile, drift).c = [got.c EXCEPT !.want_icc = TRUE]
  BY <1>1, <1>4 DEF KeptIfRead, Good
<1> HIDE DEF got, heard
<1>6. heard /\ ((profile.header.data_space = "CMYK" /\ got = inks)
                \/ (profile.header.data_space # "CMYK" /\ white.ok /\ primaries.ok /\ got = found))
  <2>1. got # Bad(marked)
    BY <1>4 DEF Bad
  <2> HIDE DEF marked, told, white, primaries, inks, found
  <2> QED
    BY <1>3, <1>4, <2>1
<1>7. profile.header.intent \in DOMAIN RenderingIntentNames
  BY <1>6, IntentsHaveNames DEF heard
<1>8. /\ EncodingOK(told) /\ told.icc = profile /\ told.rendering_intent = profile.header.intent
      /\ told.color_space = ColorSpaceFromProfile(profile)
  BY <1>2, <1>7, SpaceFound
<1> HIDE DEF told
<1>9. CASE profile.header.data_space = "CMYK" /\ got = inks
  <2>2. got.c = [told EXCEPT !.cmyk = TRUE]
    BY <1>9 DEF Good
  <2>3. Managed([[told EXCEPT !.cmyk = TRUE] EXCEPT !.want_icc = TRUE])
    BY <1>1, <1>8, <1>9, InksManaged
  <2> QED
    BY <1>5, <2>2, <2>3
<1>10. CASE profile.header.data_space # "CMYK" /\ white.ok /\ primaries.ok /\ got = found
  <2>1. ReadOf(profile, primaries.c)
    BY <1>1, <1>8, <1>10, ColoursFound
  <2>2. got.c = DetectTransferFunction(profile, primaries.c)
    BY <1>10 DEF Good
  <2> HIDE DEF primaries
  <2>3. Managed([DetectTransferFunction(profile, primaries.c) EXCEPT !.want_icc = TRUE])
    BY <1>1, <1>10, <2>1, ReadManaged
  <2> QED
    BY <1>5, <2>2, <2>3
<1> QED
  BY <1>6, <1>9, <1>10

-----------------------------------------------------------------------------
(* The transform: what JxlCmsInit finds in a profile is of its space.      *)

Spaced(to, c) ==
  HasFields(to) /\ to.color_space = c.color_space /\ to.cmyk = c.cmyk /\ to.icc = c.icc

LEMMA CurveSpaced ==
    ASSUME NEW c, HasFields(c), NEW tf
    PROVE  Spaced(WithTF(c, tf), c)
  BY DEF WithTF, Spaced, HasFields, FieldNames

LEMMA WhiteSpaced ==
    ASSUME NEW c, HasFields(c), NEW xy
    PROVE  Spaced(SetWhitePoint(c, xy).c, c)
<1> DEFINE stored == StoresXY(c.white, xy)
           named(name) == [c EXCEPT !.white_point = name]
           custom == [c EXCEPT !.white_point = "Custom", !.white = stored.xy]
           zero == 0 \in {xy[1], xy[2]}
           d65 == ApproxEq(xy, KnownWhitePoints.D65)
           e == IsE(xy)
           dci == ApproxEq(xy, KnownWhitePoints.DCI)
           bad == Bad(c)
           to == SetWhitePoint(c, xy)
<1>1. /\ \A name : Spaced(named(name), c)
      /\ Spaced(custom, c) /\ Spaced(c, c)
  BY DEF Spaced, HasFields, FieldNames
<1>2. to = CASE zero -> bad
             [] ~zero /\ d65 -> Good(named("D65"))
             [] ~zero /\ e -> Good(named("E"))
             [] ~zero /\ dci -> Good(named("DCI"))
             [] OTHER -> [ok |-> stored.ok, c |-> custom]
  BY DEF SetWhitePoint
<1> HIDE DEF stored, named, custom, zero, d65, e, dci, bad, to
<1>3. \/ to = bad \/ to = Good(named("D65")) \/ to = Good(named("E")) \/ to = Good(named("DCI"))
      \/ to = [ok |-> stored.ok, c |-> custom]
  BY <1>2
<1>4. \/ to.c = c \/ to.c = named("D65") \/ to.c = named("E") \/ to.c = named("DCI")
      \/ to.c = custom
  BY <1>3 DEF Good, Bad, bad
<1> QED
  BY <1>1, <1>4 DEF to

LEMMA PrimariesSetSpaced ==
    ASSUME NEW c, HasFields(c), NEW rgb
    PROVE  Spaced(SetPrimaries(c, rgb).c, c)
<1> DEFINE known == {p \in DOMAIN KnownPrimaries :
                       \A m \in 1 .. 3 : ApproxEq(rgb[m], KnownPrimaries[p][m])}
           fits == \A m \in 1 .. 3 : StoresXY(c.rgb[m], rgb[m]).ok
           named == [c EXCEPT !.primaries = CHOOSE p \in known : TRUE]
           custom == [c EXCEPT !.primaries = "Custom", !.rgb = StoredPrimaries(@, rgb)]
           set == SetPrimaries(c, rgb)
<1>1. Spaced(named, c) /\ Spaced(custom, c) /\ Spaced(c, c)
  <2>1. \A name, to_ : /\ Spaced([c EXCEPT !.primaries = name], c)
                      /\ Spaced([c EXCEPT !.primaries = name, !.rgb = to_], c)
    BY DEF Spaced, HasFields, FieldNames
  <2> DEFINE name == CHOOSE p \in known : TRUE
             rgb_ == StoredPrimaries(c.rgb, rgb)
  <2>2. named = [c EXCEPT !.primaries = name]
    OBVIOUS
  <2>3. custom = [c EXCEPT !.primaries = "Custom", !.rgb = rgb_]
    BY DEF HasFields, FieldNames
  <2>4. Spaced(c, c)
    BY DEF Spaced
  <2> HIDE DEF name, rgb_, named, custom
  <2> QED
    BY <2>1, <2>2, <2>3, <2>4
<1> DEFINE zero == \E m \in 1 .. 3 : 0 \in {rgb[m][1], rgb[m][2]}
           none == known = {}
           kept == [ok |-> fits, c |-> custom]
           good == Good(named)
           bad == Bad(c)
<1>2. set = CASE zero -> bad [] ~none -> good [] OTHER -> kept
  BY DEF SetPrimaries
<1> HIDE DEF zero, none, kept, good, bad, set, named, custom, fits
<1>3. set = bad \/ set = good \/ set = kept
  BY <1>2
<1>4. set.c = c \/ set.c = named \/ set.c = custom
  BY <1>3 DEF kept, good, bad, Good, Bad
<1> QED
  BY <1>1, <1>4 DEF set

LEMMA PrimariesSpaced ==
    ASSUME NEW c, HasFields(c), NEW profile, NEW drift
    PROVE  Spaced(IdentifyPrimaries(profile, c, drift).c, c)
<1> DEFINE rgb == [k \in 1 .. 3 |-> Drifted(ColorantsTold(profile).rgb[k], drift)]
           set == SetPrimaries(c, rgb)
           to == IdentifyPrimaries(profile, c, drift)
<1>1. Spaced(set.c, c)
  BY PrimariesSetSpaced
<1> HIDE DEF set
<1>2. IdentifyPrimaries(profile, c, drift) = Good(c) \/ IdentifyPrimaries(profile, c, drift) = set
      \/ IdentifyPrimaries(profile, c, drift) = Bad(c)
  BY SMT DEF IdentifyPrimaries, set
<1>3. Spaced(c, c)
  BY DEF Spaced
<1> QED
  BY <1>1, <1>2, <1>3 DEF Good, Bad

LEMMA DetectedSpaced ==
    ASSUME NEW c, HasFields(c), NEW profile
    PROVE  Spaced(DetectTransferFunction(profile, c), c)
<1>1. Spaced([c EXCEPT !.tf = SetImplicit(@)], c)
  BY DEF Spaced, HasFields, FieldNames
<1> DEFINE Fits(tf) ==
             LET test == MaybeCreateProfile(WithTF(c, tf))
             IN  tf # "Unknown" /\ test.ok /\ ProfileEquivalentToICC(profile, test.icc, c)
           fitting == {k \in DOMAIN TransferFunctions : Fits(TransferFunctions[k])}
           tf == IF fitting = {} THEN "Unknown"
                 ELSE TransferFunctions[CHOOSE k \in fitting : \A j \in fitting : k <= j]
<1>2. \/ DetectTransferFunction(profile, c) = [c EXCEPT !.tf = SetImplicit(@)]
      \/ DetectTransferFunction(profile, c) = WithTF(c, tf)
  BY SMT DEF DetectTransferFunction
<1> HIDE DEF tf
<1> QED
  BY <1>1, <1>2, CurveSpaced

LEMMA ReadSpaced ==
    ASSUME NEW c, HasFields(c), NEW profile, NEW drift, SetICC(c, profile, drift).ok
    PROVE  LET to == SetICC(c, profile, drift).c
           IN  /\ HasFields(to) /\ to.color_space = ColorSpaceFromProfile(profile)
               /\ profile.header.data_space # "CMYK" => to.cmyk = c.cmyk
<1> DEFINE given_ == [c EXCEPT !.icc = profile]
           unspaced == SetColorSpace(given_, "Unknown")
           marked == WithTF(unspaced, "Unknown")
           heard == [marked EXCEPT !.rendering_intent = profile.header.intent]
           told == SetColorSpace(heard, ColorSpaceFromProfile(profile))
           white == SetWhitePoint(told, UnadaptedWhitePoint(profile, drift))
           primaries == IdentifyPrimaries(profile, white.c, drift)
           inks == [told EXCEPT !.cmyk = TRUE]
           found == DetectTransferFunction(profile, primaries.c)
           got == SetFieldsFromICC(given_, drift)
<1>1. SetICC(c, profile, drift) = KeptIfRead(got)
  BY DEF SetICC, Bad
<1>2. HasFields(given_) /\ given_.icc = profile /\ given_.cmyk = c.cmyk
  BY DEF HasFields, FieldNames
<1>3. got.ok => \/ profile.header.data_space = "CMYK" /\ got.c = inks
                \/ got.c = found
  <2> DEFINE cmyk == profile.header.data_space = "CMYK"
             decodes == DecodeProfile(profile)
             unheard == \A k \in DOMAIN RenderingIntents : RenderingIntents[k] # profile.header.intent
             bad == Bad(marked)
             ok == Good(found)
             cmyks == Good(inks)
  <2> HIDE DEF given_
  <2>1. got = CASE ~decodes -> bad
                [] decodes /\ unheard -> bad
                [] OTHER ->
                     CASE cmyk -> cmyks
                       [] ~cmyk /\ ~white.ok -> white
                       [] ~cmyk /\ white.ok /\ ~primaries.ok -> primaries
                       [] OTHER -> ok
    BY <1>2 DEF SetFieldsFromICC
  <2>2. ~bad.ok /\ ok.c = found /\ cmyks.c = inks
    BY DEF Good, Bad
  <2> HIDE DEF decodes, unheard, cmyk, bad, ok, cmyks, got, marked, told, white, primaries, inks, found
  <2>3. got.ok => (cmyk /\ got = cmyks) \/ got = ok
    BY <2>1, <2>2
  <2> QED
    BY <2>2, <2>3 DEF cmyk
<1> HIDE DEF given_, got
<1>4. HasFields(unspaced) /\ unspaced.cmyk = c.cmyk
  BY <1>2 DEF SetColorSpace, HasFields, FieldNames
<1> HIDE DEF unspaced
<1>5. HasFields(marked) /\ marked.cmyk = c.cmyk
  BY <1>4, CurveSpaced DEF Spaced
<1> HIDE DEF marked
<1>6. HasFields(heard) /\ heard.cmyk = c.cmyk
  BY <1>5 DEF HasFields, FieldNames
<1> HIDE DEF heard
<1>7. /\ HasFields(told) /\ told.color_space = ColorSpaceFromProfile(profile) /\ told.cmyk = c.cmyk
  BY <1>6 DEF SetColorSpace, HasFields, FieldNames
<1> HIDE DEF told
<1>8. Spaced(white.c, told)
  BY <1>7, WhiteSpaced
<1> HIDE DEF white
<1>9. Spaced(primaries.c, white.c)
  BY <1>8, PrimariesSpaced DEF Spaced
<1> HIDE DEF primaries
<1>10. Spaced(found, primaries.c)
  BY <1>9, DetectedSpaced DEF Spaced
<1> HIDE DEF found
<1>11. HasFields(inks) /\ inks.color_space = told.color_space
  BY <1>7 DEF HasFields, FieldNames
<1> HIDE DEF inks
<1>12. got.ok
  BY <1>1 DEF KeptIfRead, Bad
<1>13. /\ HasFields(got.c) /\ got.c.color_space = ColorSpaceFromProfile(profile)
       /\ profile.header.data_space # "CMYK" => got.c.cmyk = c.cmyk
  BY <1>3, <1>7, <1>8, <1>9, <1>10, <1>11, <1>12 DEF Spaced
<1> DEFINE to == [got.c EXCEPT !.want_icc = TRUE]
<1>14. SetICC(c, profile, drift).c = to
  BY <1>1, <1>12 DEF KeptIfRead, Good
<1>15. HasFields(to) /\ to.color_space = got.c.color_space /\ to.cmyk = got.c.cmyk
  BY <1>13 DEF HasFields, FieldNames
<1> HIDE DEF to
<1> QED
  BY <1>13, <1>14, <1>15

LEMMA Initialized ==
    ASSUME NEW c, Managed(c), NEW desired, IsGray(desired) <=> IsGray(c),
           desired.icc # NoICC => desired.color_space = ColorSpaceFromProfile(desired.icc),
           NEW src \in ReadBack(c.icc), NEW dst \in ReadBack(desired.icc)
    PROVE  TransformInit(c, desired, src, dst).outcome \in {"ok", "failed"}
<1> DEFINE from == Linearized(src.c, c.icc, NeedsExtra(src.c, dst.c))
           to == Linearized(dst.c, desired.icc, NeedsExtra(dst.c, from.c))
           failed == [outcome |-> "failed", t |-> NoTransform]
<1>1. \/ TransformInit(c, desired, src, dst) = failed
      \/ TransformInit(c, desired, src, dst) = InitFromTo(src, dst, from, to)
  BY DEF TransformInit, JxlCmsInit
<1>2. PICK drift \in Drifts : src = SetICC(BlankColorEncoding, c.icc, drift)
  BY DEF ReadBack
<1>3. PICK drift_ \in Drifts : dst = SetICC(BlankColorEncoding, desired.icc, drift_)
  BY DEF ReadBack
<1>4. HasFields(BlankColorEncoding) /\ BlankColorEncoding.cmyk = FALSE
  BY BlankOK DEF EncodingOK, BlankColorEncoding
<1>5. src.ok => /\ HasFields(src.c) /\ src.c.color_space = ColorSpaceFromProfile(c.icc)
                /\ c.icc.header.data_space # "CMYK" => ~src.c.cmyk
  BY <1>2, <1>4, ReadSpaced
<1>6. dst.ok => /\ HasFields(dst.c) /\ dst.c.color_space = ColorSpaceFromProfile(desired.icc)
                /\ desired.icc # NoICC
  <2>1. desired.icc = NoICC => ~dst.ok
    BY <1>3 DEF SetICC, Bad
  <2> QED
    BY <1>3, <1>4, <2>1, ReadSpaced
<1>7. \/ from.c = src.c
      \/ \E tf : from.c = WithTF(src.c, tf)
  BY DEF Linearized
<1>8. \/ to.c = dst.c
      \/ \E tf : to.c = WithTF(dst.c, tf)
  BY DEF Linearized
<1> HIDE DEF from, to
<1>9. src.ok => from.c.color_space = src.c.color_space /\ from.c.cmyk = src.c.cmyk
  BY <1>5, <1>7, CurveSpaced DEF Spaced
<1>10. dst.ok => to.c.color_space = dst.c.color_space
  BY <1>6, <1>8, CurveSpaced DEF Spaced
<1>11. src.ok /\ dst.ok => \/ ChannelsOf(from.c) = Channels(to.c)
                           \/ ChannelsOf(from.c) = 4 /\ Channels(to.c) = 3
  <2> SUFFICES ASSUME src.ok, dst.ok
               PROVE  \/ ChannelsOf(from.c) = Channels(to.c)
                      \/ ChannelsOf(from.c) = 4 /\ Channels(to.c) = 3
    OBVIOUS
  <2>1. from.c.color_space = c.color_space /\ (IsGray(to.c) <=> IsGray(c))
    BY <1>5, <1>6, <1>9, <1>10 DEF Managed, IsGray
  <2>2. from.c.cmyk => ~IsGray(c)
    BY <1>5, <1>9 DEF Managed, IsGray, ColorSpaceFromProfile
  <2> QED
    BY <2>1, <2>2 DEF ChannelsOf, Channels, IsGray
<1>12. InitFromTo(src, dst, from, to).outcome \in {"ok", "failed"}
  BY <1>11, SMT DEF InitFromTo
<1> QED
  BY <1>1, <1>12

(* An encoding that not all could be taken into has the profile it had.    *)
LEMMA NotTaken ==
    ASSUME NEW c, HasFields(c), NEW external, ~FieldsFromExternal(external, c).ok
    PROVE  FieldsFromExternal(external, c).c.icc = c.icc
<1> DEFINE spaced == SetColorSpace(c, external.color_space)
           white == WithExternalWhitePoint(external, spaced)
           primaries == WithExternalPrimaries(external, white.c)
           tf == ExternalTF(external)
           fields == FieldsFromExternal(external, c)
<1>1. HasFields(spaced) /\ spaced.icc = c.icc
  BY DEF SetColorSpace, HasFields, FieldNames
<1> HIDE DEF spaced
<1>2. Spaced(white.c, spaced)
  <2> DEFINE named == [spaced EXCEPT !.white_point = external.white_point]
             custom == [spaced EXCEPT !.white_point = "Custom"]
             set == SetWhitePoint(custom, external.white_point_xy)
  <2>1. Spaced(named, spaced) /\ Spaced(custom, spaced) /\ Spaced(spaced, spaced)
    BY <1>1 DEF Spaced, HasFields, FieldNames
  <2>2. Spaced(set.c, custom)
    BY <2>1, WhiteSpaced DEF Spaced
  <2> HIDE DEF named, set, custom
  <2>3. white = Bad(spaced) \/ white = set \/ white = Good(named)
    BY DEF WithExternalWhitePoint, named, set, custom
  <2>4. white.c = spaced \/ white.c = set.c \/ white.c = named
    BY <2>3 DEF Good, Bad
  <2> QED
    BY <2>1, <2>2, <2>4 DEF Spaced
<1> HIDE DEF white
<1>3. Spaced(primaries.c, white.c)
  <2> DEFINE named == [white.c EXCEPT !.primaries = external.primaries]
             custom == [white.c EXCEPT !.primaries = "Custom"]
             set == SetPrimaries(custom, external.primaries_xy)
  <2>1. Spaced(named, white.c) /\ Spaced(custom, white.c) /\ Spaced(white.c, white.c)
    BY <1>2 DEF Spaced, HasFields, FieldNames
  <2>2. Spaced(set.c, custom)
    BY <2>1, PrimariesSetSpaced DEF Spaced
  <2> HIDE DEF named, set, custom
  <2>3. primaries = Good(white.c) \/ primaries = Bad(white.c) \/ primaries = set \/ primaries = Good(named)
    BY SMT DEF WithExternalPrimaries, named, set, custom
  <2>4. primaries.c = white.c \/ primaries.c = set.c \/ primaries.c = named
    BY <2>3 DEF Good, Bad
  <2> QED
    BY <2>1, <2>2, <2>4 DEF Spaced
<1> HIDE DEF primaries, tf
<1>4. fields.c = white.c \/ fields.c = primaries.c
  <2> DEFINE to == Good([primaries.c EXCEPT !.tf = tf.c, !.rendering_intent = external.rendering_intent])
             bad == Bad(primaries.c)
  <2>1. fields = CASE ~white.ok -> white
                   [] white.ok /\ ~primaries.ok -> primaries
                   [] white.ok /\ primaries.ok /\ ~tf.ok -> bad
                   [] OTHER -> to
    BY DEF FieldsFromExternal, white, primaries, tf, spaced
  <2>2. to.ok /\ bad.c = primaries.c
    BY DEF Good, Bad
  <2> HIDE DEF to, bad
  <2>3. fields = white \/ fields = primaries \/ fields = bad \/ fields = to
    <3> HIDE DEF fields
    <3> QED
      BY <2>1
  <2> QED
    BY <2>2, <2>3
<1> QED
  BY <1>1, <1>2, <1>3, <1>4 DEF Spaced

(* The encodings that pixels are asked for in.                             *)
LEMMA DesiredNamed ==
    ASSUME NEW desired \in Desired, desired.icc # NoICC
    PROVE  desired.color_space = ColorSpaceFromProfile(desired.icc)
<1>1. PICK external \in Targets : desired = WithExternal(BlankColorEncoding, external).c
  BY DEF Desired
<1> DEFINE with == WithExternal(BlankColorEncoding, external)
           fields == FieldsFromExternal(external, BlankColorEncoding)
<1>2. external \in ExternalForms
  BY GivenAssumption
<1>3. with.ok
  <2> SUFFICES ASSUME ~with.ok PROVE FALSE
    OBVIOUS
  <2>1. ~fields.ok /\ with = fields
    BY DEF WithExternal, WithProfile, Good
  <2>2. fields.c.icc = BlankColorEncoding.icc
    BY <2>1, BlankOK, NotTaken DEF EncodingOK
  <2> QED
    BY <1>1, <2>1, <2>2, BlankOK
<1>4. Managed(with.c)
  BY <1>1, <1>2, <1>3, BlankOK, ExternalManaged
<1> QED
  BY <1>1, <1>4 DEF Managed

-----------------------------------------------------------------------------
(* The encoding that is managed: blank until it is set, then its profile   *)
(* and its fields say the same.                                            *)

ColorInv ==
  /\ outcome \in {"none", "ok", "failed"}
  /\ outcome = "none" => calls = MaxCalls \/ managed = BlankColorEncoding
  /\ outcome = "ok" => Managed(managed)

LEMMA Callable ==
    ASSUME ColorInv, Call
    PROVE  EncodingOK(managed)
<1>1. calls # MaxCalls
  BY MaxCallsAssumption DEF Call
<1>2. outcome \in {"none", "ok"}
  BY DEF Call
<1> QED
  BY <1>1, <1>2, BlankOK DEF ColorInv, Managed

LEMMA BecomesManaged ==
    ASSUME EncodingOK(managed), NEW external \in ExternalForms, Becomes(WithExternal(managed, external))
    PROVE  ColorInv'
<1>1. outcome' \in {"ok", "failed"}
  BY DEF Becomes
<1>2. outcome' = "ok" => Managed(managed')
  BY ExternalManaged DEF Becomes
<1> QED
  BY <1>1, <1>2 DEF ColorInv

LEMMA ConvertIccStep ==
    ASSUME ColorInv, ConvertIcc
    PROVE  ColorInv'
<1>1. EncodingOK(managed)
  BY Callable DEF ConvertIcc
<1>2. PICK icc_ \in Profiles, drift \in Drifts, is_gray \in BOOLEAN :
        /\ managed' = IF SetICC(managed, icc_, drift).ok THEN SetICC(managed, icc_, drift).c
                      ELSE SRGB(is_gray)
        /\ outcome' \in {"ok", "failed"}
  BY DEF ConvertIcc
<1>3. Managed(managed')
  BY <1>1, <1>2, ProfileManaged, SRGBManaged
<1> QED
  BY <1>2, <1>3 DEF ColorInv

LEMMA ConvertEncodingStep ==
    ASSUME ColorInv, ConvertEncoding
    PROVE  ColorInv'
  BY Callable, BecomesManaged, GivenAssumption DEF ConvertEncoding

LEMMA ConvertHintedStep ==
    ASSUME ColorInv, ConvertHinted
    PROVE  ColorInv'
<1>1. EncodingOK(managed)
  BY Callable DEF ConvertHinted
<1>2. PICK hints \in Hints, is_gray \in BOOLEAN :
        LET hinted == ApplyColorHints(hints, is_gray)
        IN  \/ hinted.ok /\ Becomes(WithExternal(managed, hinted.c))
            \/ ~hinted.ok /\ outcome' = "failed" /\ UNCHANGED managed
  BY DEF ConvertHinted
<1>3. ASSUME ApplyColorHints(hints, is_gray).ok,
             Becomes(WithExternal(managed, ApplyColorHints(hints, is_gray).c))
      PROVE  ColorInv'
  <2>1. ApplyColorHints(hints, is_gray).c \in ExternalForms
    BY <1>1, <1>3, HintManaged, GivenAssumption
  <2> QED
    BY <1>1, <1>3, <2>1, BecomesManaged
<1>4. ASSUME outcome' = "failed" PROVE ColorInv'
  BY <1>4 DEF ColorInv
<1> QED
  BY <1>2, <1>3, <1>4

LEMMA SetToSRGBStep ==
    ASSUME ColorInv, SetToSRGB
    PROVE  ColorInv'
<1>1. EncodingOK(managed)
  BY Callable DEF SetToSRGB
<1>2. PICK cs \in {"RGB", "Gray"} :
        /\ managed' = SetSRGB(managed, cs).c
        /\ outcome' = IF SetSRGB(managed, cs).ok THEN "ok" ELSE "failed"
  BY DEF SetToSRGB
<1>3. outcome' = "ok" => Managed(managed')
  BY <1>1, <1>2, SetSRGBManaged
<1> QED
  BY <1>2, <1>3 DEF ColorInv

LEMMA DecideStep ==
    ASSUME ColorInv, Decide
    PROVE  ColorInv'
<1>1. Managed(managed)
  BY DEF ColorInv, Decide
<1>2. ~DecideIfWantICC(managed).aborts /\ Managed(DecideIfWantICC(managed).c)
  BY <1>1, DecidedManaged
<1>3. managed' = DecideIfWantICC(managed).c /\ outcome' = "ok"
  BY <1>2 DEF Decide
<1> QED
  BY <1>2, <1>3 DEF ColorInv

LEMMA StartTransformStep ==
    ASSUME ColorInv, StartTransform
    PROVE  ColorInv'
<1>1. Managed(managed) /\ managed' = managed
  BY DEF ColorInv, StartTransform
<1>2. PICK c_desired \in {c \in Desired : IsGray(c) = IsGray(managed)} :
        \E init \in {TransformInit(managed, c_desired, src, dst) :
                       src \in ReadBack(managed.icc), dst \in ReadBack(c_desired.icc)} :
          outcome' = init.outcome
  BY DEF StartTransform
<1>3. PICK src \in ReadBack(managed.icc), dst \in ReadBack(c_desired.icc) :
        outcome' = TransformInit(managed, c_desired, src, dst).outcome
  BY <1>2
<1>4. c_desired.icc # NoICC => c_desired.color_space = ColorSpaceFromProfile(c_desired.icc)
  BY DesiredNamed
<1>5. outcome' \in {"ok", "failed"}
  BY <1>1, <1>3, <1>4, Initialized
<1> QED
  BY <1>1, <1>5 DEF ColorInv

LEMMA ColorStep ==
    ASSUME ColorInv, [ColorNext]_colorVars
    PROVE  ColorInv'
<1>1. CASE RunTransform \/ UNCHANGED colorVars
  BY <1>1 DEF RunTransform, colorVars, ColorInv
<1>2. CASE ColorNext /\ ~RunTransform
  BY <1>2, ConvertIccStep, ConvertEncodingStep, ConvertHintedStep, SetToSRGBStep, DecideStep,
     StartTransformStep DEF ColorNext
<1> QED
  BY <1>1, <1>2

LEMMA ColorInvStarts == ImageInit => ColorInv
<1>1. NoColor => ColorInv
  BY DEF NoColor, ColorInv
<1>2. ColorInit => ColorInv
  BY DEF ColorInit, ColorInv
<1> QED
  BY <1>1, <1>2 DEF ImageInit

LEMMA ColorInvKept ==
    ASSUME ColorInv, [ImageNext]_imageVars
    PROVE  ColorInv'
<1>1. [ColorNext]_colorVars
  BY DEF ImageNext, imageVars
<1> QED
  BY <1>1, ColorStep

(***************************************************************************)
(* For any profiles, descriptions and hints, whatever LCMS reads off by    *)
(* and any calls one after the other: an encoding that came about has a    *)
(* profile, and white point, primaries, curve and intent found in the      *)
(* bytes of that profile are those the fields name; what fields cannot     *)
(* tell is kept as a profile, and DecideIfWantICC's assertion holds.       *)
(* CreateICC has to lay out the tags it writes so that they are read back, *)
(* SetFieldsFromICC must settle on nothing the profile does not say, and   *)
(* no setter may leave the profile of an encoding it changed.              *)
(***************************************************************************)
THEOREM ProfilesTellFields == ImageSpec => []ProfileTellsFields
<1>1. ColorInv => ProfileTellsFields
  BY DEF ColorInv, ProfileTellsFields, Managed, Keeps
<1> QED
  BY <1>1, ColorInvStarts, ColorInvKept, PTL DEF ImageSpec

LEMMA ManagedIsDescribed ==
    ASSUME ColorInv
    PROVE  DescribedAsIs
<1> SUFFICES ASSUME outcome = "ok"
             PROVE  LET parsed == ParseDescription(Description(managed))
                        custom == HasPrimaries(managed) /\ managed.primaries = "Custom"
                    IN  /\ SaysSame(ConvertInternalToExternalColorEncoding(managed), managed)
                        /\ (parsed.ok <=> ~custom)
                        /\ parsed.ok => SaysSame(parsed.c, managed)
  BY DEF DescribedAsIs, SaysSame
<1> DEFINE parsed == ParseDescription(Description(managed))
           custom == HasPrimaries(managed) /\ managed.primaries = "Custom"
<1>1. EncodingOK(managed) /\ managed.color_space # "XYB"
  BY DEF ColorInv, Managed
<1>2. SaysSame(ConvertInternalToExternalColorEncoding(managed), managed)
  BY <1>1, StructDescribes, DescribedSame
<1>3. IF custom THEN ~parsed.ok ELSE parsed.ok /\ Describes(parsed.c, managed)
  BY <1>1, TextDescribes
<1> HIDE DEF parsed
<1>4. parsed.ok => SaysSame(parsed.c, managed)
  BY <1>1, <1>3, DescribedSame
<1> QED
  BY <1>2, <1>3, <1>4 DEF parsed

(***************************************************************************)
(* For the same: the struct the API gives of an encoding makes one of the  *)
(* same colours, and so does its description read as a hint; it is refused *)
(* exactly when it would have to give primaries without a name.            *)
(* (ConvertInternalToExternalColorEncoding, Description, ParseDescription, *)
(* whose gamma has six digits only.)                                       *)
(***************************************************************************)
THEOREM EncodingsDescribed == ImageSpec => []DescribedAsIs
  BY ManagedIsDescribed, ColorInvStarts, ColorInvKept, PTL DEF ImageSpec

=============================================================================
