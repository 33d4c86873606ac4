--------------------------- MODULE ColorEncodings ---------------------------
(***************************************************************************)
(* What a ColorEncoding says (lib/jxl/color_encoding_internal.{h,cc}): its *)
(* fields, how they are set from chromaticities and exponents, the text    *)
(* and the JxlColorEncoding that stand for it, and the parser of the text  *)
(* (lib/extras/dec/color_description.cc).                                  *)
(*                                                                         *)
(* Chromaticities are in units of 1E-5, exponents in units of 1E-7: finer  *)
(* ones are not given.  The values of an enum have their names, which are  *)
(* the same inside and outside of the library.  An operation that may fail *)
(* yields [ok, c], where c is what it leaves in the object.                *)
(***************************************************************************)
EXTENDS Integers, Sequences

kMaxGamma == 8192
kGammaMul == 10000000

AbsoluteOf(a) == IF a < 0 THEN -a ELSE a

\* ApproxEq(a, n / d) with the tolerance of 8E-5.
Approximates(a, n, d, tolerance) == AbsoluteOf(d * a - n) <= d * tolerance
ApproxEq(xy, known) == \A i \in 1 .. 2 : Approximates(xy[i], known[i], 1, 8)

Good(c) == [ok |-> TRUE, c |-> c]
Bad(c) == [ok |-> FALSE, c |-> c]

-----------------------------------------------------------------------------
(* The fields.                                                             *)

WhitePoints == {"D65", "Custom", "E", "DCI"}
KnownWhitePoints == [D65 |-> <<31270, 32900>>, E |-> <<33333, 33333>>, DCI |-> <<31400, 35100>>]

\* Red, green, blue.
KnownPrimaries ==
  [p \in {"SRGB", "2100", "P3"} |->
     CASE p = "SRGB" -> << <<64000, 33000>>, <<30000, 60000>>, <<15000, 6000>> >>
       [] p = "2100" -> << <<70800, 29200>>, <<17000, 79700>>, <<13100, 4600>> >>
       [] p = "P3" -> << <<68000, 32000>>, <<26500, 69000>>, <<15000, 6000>> >>]

\* In the order of their values, which is that of Values<TransferFunction>().
TransferFunctions == <<"709", "Unknown", "Linear", "SRGB", "PQ", "DCI", "HLG">>

RenderingIntents == <<"Perceptual", "Relative", "Saturation", "Absolute">>

NoICC == [header |-> [size |-> 0]]
NoXY == <<0, 0>>

TransferFunction(tf) ==
  [have_gamma |-> FALSE, gamma |-> kGammaMul, transfer_function |-> tf,
   nonserialized_color_space |-> "RGB"]

\* As Bundle::Init leaves it, but for its profile.
BlankColorEncoding ==
  [color_space |-> "RGB", cmyk |-> FALSE, white_point |-> "D65", white |-> NoXY,
   primaries |-> "SRGB", rgb |-> <<NoXY, NoXY, NoXY>>, tf |-> TransferFunction("SRGB"),
   rendering_intent |-> "Relative", want_icc |-> FALSE, icc |-> NoICC]

IsGray(c) == c.color_space = "Gray"
Channels(c) == IF IsGray(c) THEN 1 ELSE 3
HasPrimaries(c) == c.color_space \notin {"Gray", "XYB"}

\* SetTransferFunction, and assigning to the member.
WithTF(c, tf) == [c EXCEPT !.tf.have_gamma = FALSE, !.tf.transfer_function = tf]
IsTF(c, tf) == ~c.tf.have_gamma /\ c.tf.transfer_function = tf

\* The exponent of a curve that is a power, or 0.
ExponentOf(tf) ==
  CASE tf.have_gamma -> tf.gamma
    [] ~tf.have_gamma /\ tf.transfer_function = "Linear" -> kGammaMul
    [] ~tf.have_gamma /\ tf.transfer_function = "DCI" -> 3846154
    [] OTHER -> 0

SetColorSpace(c, cs) == [c EXCEPT !.color_space = cs, !.tf.nonserialized_color_space = cs]

IsSame(tf, other) ==
  /\ tf.have_gamma = other.have_gamma
  /\ IF tf.have_gamma THEN tf.gamma = other.gamma
     ELSE tf.transfer_function = other.transfer_function

SameColorSpace(c, other) ==
  /\ c.color_space = other.color_space
  /\ c.white_point = other.white_point
  /\ c.white_point = "Custom" => c.white = other.white
  /\ HasPrimaries(c) =>
       /\ c.primaries = other.primaries
       /\ c.primaries = "Custom" => c.rgb = other.rgb

SameColorEncoding(c, other) == SameColorSpace(c, other) /\ IsSame(c.tf, other.tf)

-----------------------------------------------------------------------------
(* Setting fields.                                                         *)

\* Customxy::Set stores as far as it gets: 4.0, and what 21 bits hold of 1E-6.
CustomxyFits(v) == AbsoluteOf(v) <= 209715
StoresXY(old, xy) ==
  LET OutOfBounds(v) == AbsoluteOf(v) > 400000
  IN  CASE OutOfBounds(xy[1]) -> [ok |-> FALSE, xy |-> old]
        [] ~OutOfBounds(xy[1]) /\ OutOfBounds(xy[2]) -> [ok |-> FALSE, xy |-> <<xy[1], old[2]>>]
        [] OTHER -> [ok |-> \A i \in 1 .. 2 : CustomxyFits(xy[i]), xy |-> xy]

\* Mutant: E comes out as its decimals.
GetWhitePointAsStored(c) == c.white
GetWhitePoint(c) == IF c.white_point = "Custom" THEN c.white ELSE KnownWhitePoints[c.white_point]

IsE(xy) == \A i \in 1 .. 2 : Approximates(xy[i], 100000, 3, 8)

SetWhitePoint(c, xy) ==
  LET stored == StoresXY(c.white, xy)
  IN  CASE 0 \in {xy[1], xy[2]} -> Bad(c)
        [] 0 \notin {xy[1], xy[2]} /\ ApproxEq(xy, KnownWhitePoints.D65) ->
             Good([c EXCEPT !.white_point = "D65"])
        [] 0 \notin {xy[1], xy[2]} /\ IsE(xy) -> Good([c EXCEPT !.white_point = "E"])
        [] 0 \notin {xy[1], xy[2]} /\ ApproxEq(xy, KnownWhitePoints.DCI) ->
             Good([c EXCEPT !.white_point = "DCI"])
        [] OTHER -> [ok |-> stored.ok,
                     c |-> [c EXCEPT !.white_point = "Custom", !.white = stored.xy]]

GetPrimaries(c) == IF c.primaries = "Custom" THEN c.rgb ELSE KnownPrimaries[c.primaries]

\* The channels are stored one after the other, up to one that does not fit.
StoredPrimaries(old, rgb) ==
  [i \in 1 .. 3 |->
     IF \A j \in 1 .. i - 1 : StoresXY(old[j], rgb[j]).ok THEN StoresXY(old[i], rgb[i]).xy
     ELSE old[i]]

SetPrimaries(c, rgb) ==
  LET known == {p \in DOMAIN KnownPrimaries : \A i \in 1 .. 3 : ApproxEq(rgb[i], KnownPrimaries[p][i])}
  IN  CASE \E i \in 1 .. 3 : 0 \in {rgb[i][1], rgb[i][2]} -> Bad(c)
        [] known # {} -> Good([c EXCEPT !.primaries = CHOOSE p \in known : TRUE])
        [] OTHER -> [ok |-> \A i \in 1 .. 3 : StoresXY(c.rgb[i], rgb[i]).ok,
                     c |-> [c EXCEPT !.primaries = "Custom", !.rgb = StoredPrimaries(@, rgb)]]

\* Mutant: an exponent that is as good as one does not become linear.
SetGammaAsIs(tf, gamma) ==
  IF gamma <= kGammaMul \div kMaxGamma \/ gamma > kGammaMul THEN Bad(tf)
  ELSE Good([tf EXCEPT !.have_gamma = TRUE, !.gamma = gamma, !.transfer_function = "Unknown"])
SetGamma(tf, gamma) ==
  IF gamma <= kGammaMul \div kMaxGamma \/ gamma > kGammaMul THEN Bad(tf)
  ELSE CASE Approximates(gamma, kGammaMul, 1, 800) ->
              Good([tf EXCEPT !.have_gamma = FALSE, !.transfer_function = "Linear"])
         [] Approximates(gamma, 10 * kGammaMul, 26, 800) ->
              Good([tf EXCEPT !.have_gamma = FALSE, !.transfer_function = "DCI"])
         [] OTHER ->
              Good([tf EXCEPT !.have_gamma = TRUE, !.gamma = gamma, !.transfer_function = "Unknown"])

HasImplicitTF(tf) == tf.nonserialized_color_space = "XYB"
SetImplicit(tf) == IF HasImplicitTF(tf) THEN SetGamma(tf, kGammaMul \div 3).c ELSE tf

-----------------------------------------------------------------------------
(* The struct of the API.                                                  *)

\* *c = {}.
NoExternal ==
  [color_space |-> "RGB", white_point |-> "none", white_point_xy |-> NoXY, primaries |-> "none",
   primaries_xy |-> <<NoXY, NoXY, NoXY>>, transfer_function |-> "none", gamma |-> 0,
   rendering_intent |-> "Perceptual"]

ConvertInternalToExternalColorEncoding(c) ==
  LET rgb == c.color_space \in {"RGB", "Unknown"}
  IN  [color_space |-> c.color_space,
       white_point |-> c.white_point, white_point_xy |-> GetWhitePoint(c),
       primaries |-> IF rgb THEN c.primaries ELSE "none",
       primaries_xy |-> IF rgb THEN GetPrimaries(c) ELSE <<NoXY, NoXY, NoXY>>,
       transfer_function |-> IF c.tf.have_gamma THEN "Gamma" ELSE c.tf.transfer_function,
       gamma |-> IF c.tf.have_gamma THEN c.tf.gamma ELSE 0,
       rendering_intent |-> c.rendering_intent]

WithExternalWhitePoint(external, c) ==
  CASE external.white_point \notin WhitePoints -> Bad(c)
    [] external.white_point = "Custom" ->
         SetWhitePoint([c EXCEPT !.white_point = "Custom"], external.white_point_xy)
    [] OTHER -> Good([c EXCEPT !.white_point = external.white_point])

WithExternalPrimaries(external, c) ==
  CASE external.color_space \notin {"RGB", "Unknown"} -> Good(c)
    [] external.color_space \in {"RGB", "Unknown"} /\ external.primaries = "Custom" ->
         SetPrimaries([c EXCEPT !.primaries = "Custom"], external.primaries_xy)
    [] external.color_space \in {"RGB", "Unknown"} /\ external.primaries \in DOMAIN KnownPrimaries ->
         Good([c EXCEPT !.primaries = external.primaries])
    [] OTHER -> Bad(c)

\* A new object, whose color space is not told.
ExternalTF(external) ==
  LET new == TransferFunction("SRGB")
  IN  IF external.transfer_function = "Gamma" THEN SetGamma(new, external.gamma)
      ELSE [ok |-> \E i \in DOMAIN TransferFunctions : TransferFunctions[i] = external.transfer_function,
            c |-> [new EXCEPT !.transfer_function = external.transfer_function]]

\* All but the profile.
FieldsFromExternal(external, c) ==
  LET white == WithExternalWhitePoint(external, SetColorSpace(c, external.color_space))
      primaries == WithExternalPrimaries(external, white.c)
      tf == ExternalTF(external)
  IN  CASE ~white.ok -> white
        [] white.ok /\ ~primaries.ok -> primaries
        [] white.ok /\ primaries.ok /\ ~tf.ok -> Bad(primaries.c)
        [] OTHER -> Good([primaries.c EXCEPT !.tf = tf.c,
                                             !.rendering_intent = external.rendering_intent])

-----------------------------------------------------------------------------
(* The text: tokens, each a word, numbers, or g and a number.              *)

Word_(w) == [word |-> w]
Numbers(s) == [numbers |-> s]
GammaToken(g) == [g |-> g]

SpaceNames == [RGB |-> "RGB", Gray |-> "Gra", XYB |-> "XYB", Unknown |-> "CS?"]
WhitePointNames == [D65 |-> "D65", Custom |-> "Cst", E |-> "EER", DCI |-> "DCI"]
PrimariesNames ==
  [p \in {"SRGB", "2100", "P3", "Custom"} |->
     CASE p = "SRGB" -> "SRG" [] p = "2100" -> "202" [] p = "P3" -> "DCI" [] p = "Custom" -> "Cst"]
TransferFunctionNames ==
  [t \in {"SRGB", "Linear", "709", "PQ", "HLG", "DCI", "Unknown"} |->
     CASE t = "SRGB" -> "SRG" [] t = "Linear" -> "Lin" [] t = "709" -> "709" [] t = "PQ" -> "PeQ"
       [] t = "HLG" -> "HLG" [] t = "DCI" -> "DCI" [] t = "Unknown" -> "TF?"]
RenderingIntentNames ==
  [Perceptual |-> "Per", Relative |-> "Rel", Saturation |-> "Sat", Absolute |-> "Abs"]

\* ToString of a double is %g: six digits.
SixDigits(gamma) == IF gamma < 1000000 THEN gamma ELSE ((gamma + 5) \div 10) * 10

WhitePointTokens(c) ==
  CASE c.color_space = "XYB" -> <<>>
    [] c.color_space # "XYB" /\ c.white_point = "Custom" -> <<Numbers(GetWhitePoint(c))>>
    [] OTHER -> <<Word_(WhitePointNames[c.white_point])>>

PrimariesTokens(c) ==
  CASE ~HasPrimaries(c) -> <<>>
    [] HasPrimaries(c) /\ c.primaries = "Custom" ->
         <<Numbers(GetPrimaries(c)[1] \o GetPrimaries(c)[2] \o GetPrimaries(c)[3])>>
    [] OTHER -> <<Word_(PrimariesNames[c.primaries])>>

TransferFunctionTokens(tf) ==
  CASE HasImplicitTF(tf) -> <<>>
    [] ~HasImplicitTF(tf) /\ tf.have_gamma -> <<GammaToken(SixDigits(tf.gamma))>>
    [] OTHER -> <<Word_(TransferFunctionNames[tf.transfer_function])>>

\* Mutant: the intent comes before the primaries.
DescriptionIntentFirst(c) ==
  <<Word_(SpaceNames[c.color_space])>> \o WhitePointTokens(c)
    \o <<Word_(RenderingIntentNames[c.rendering_intent])>> \o PrimariesTokens(c)
    \o TransferFunctionTokens(c.tf)

Description(c) ==
  <<Word_(SpaceNames[c.color_space])>> \o WhitePointTokens(c) \o PrimariesTokens(c)
    \o <<Word_(RenderingIntentNames[c.rendering_intent])>> \o TransferFunctionTokens(c.tf)

-----------------------------------------------------------------------------
(* ParseDescription.  A parser yields [ok, c, text, rest]: of the text what *)
(* Tokenizer::Next has not read.  What c is after a failure is not looked  *)
(* at.                                                                     *)

kJxlColorSpaceNames ==
  [w \in {"RGB", "Gra", "XYB", "CS?"} |->
     CASE w = "RGB" -> "RGB" [] w = "Gra" -> "Gray" [] w = "XYB" -> "XYB"
       [] w = "CS?" -> "Unknown"]
kJxlWhitePointNames ==
  [w \in {"D65", "Cst", "EER", "DCI"} |->
     CASE w = "D65" -> "D65" [] w = "Cst" -> "Custom" [] w = "EER" -> "E" [] w = "DCI" -> "DCI"]
kJxlPrimariesNames ==
  [w \in {"SRG", "Cst", "202", "DCI"} |->
     CASE w = "SRG" -> "SRGB" [] w = "Cst" -> "Custom" [] w = "202" -> "2100" [] w = "DCI" -> "P3"]
kJxlTransferFunctionNames ==
  [w \in {"709", "TF?", "Lin", "SRG", "PeQ", "DCI", "HLG", ""} |->
     CASE w = "709" -> "709" [] w = "TF?" -> "Unknown" [] w = "Lin" -> "Linear"
       [] w = "SRG" -> "SRGB" [] w = "PeQ" -> "PQ" [] w = "DCI" -> "DCI" [] w = "HLG" -> "HLG"
       [] w = "" -> "Gamma"]
kJxlRenderingIntentNames ==
  [Per |-> "Perceptual", Rel |-> "Relative", Sat |-> "Saturation", Abs |-> "Absolute"]

\* Tokenizer::Next: after the last token it starts over.  It fails where a
\* token is empty.
NextRest(p) == IF Len(p.rest) <= 1 THEN p.text ELSE Tail(p.rest)
Parses(ok, c, p) == [ok |-> ok, c |-> c, text |-> p.text, rest |-> NextRest(p)]

IsEnum(tokens, names) ==
  /\ tokens # <<>> /\ "word" \in DOMAIN tokens[1] /\ tokens[1].word # ""
  /\ tokens[1].word \in DOMAIN names
EnumOf(tokens, names) == names[tokens[1].word]

\* strtod reads what is a name elsewhere.
NumbersOf(token) ==
  IF "numbers" \in DOMAIN token THEN token.numbers
  ELSE IF token = Word_("202") THEN <<20200000>>
  ELSE IF token = Word_("709") THEN <<70900000>> ELSE <<>>
AreNumbers(tokens) == tokens # <<>> /\ NumbersOf(tokens[1]) # <<>>

\* The tokenizer of a token starts over, too: one number is read twice.
FirstTwo(numbers) == <<numbers[1], IF Len(numbers) = 1 THEN numbers[1] ELSE numbers[2]>>
IsGamma(tokens) == tokens # <<>> /\ "g" \in DOMAIN tokens[1]

ParseColorSpace(p) ==
  IF IsEnum(p.rest, kJxlColorSpaceNames)
  THEN Parses(TRUE, [p.c EXCEPT !.color_space = EnumOf(p.rest, kJxlColorSpaceNames)], p)
  ELSE Parses(FALSE, p.c, p)

ParseWhitePoint(p) ==
  CASE p.c.color_space = "XYB" -> [p EXCEPT !.c.white_point = "D65"]
    [] p.c.color_space # "XYB" /\ IsEnum(p.rest, kJxlWhitePointNames) ->
         Parses(TRUE, [p.c EXCEPT !.white_point = EnumOf(p.rest, kJxlWhitePointNames)], p)
    [] p.c.color_space # "XYB" /\ ~IsEnum(p.rest, kJxlWhitePointNames) /\ AreNumbers(p.rest) ->
         Parses(TRUE, [p.c EXCEPT !.white_point = "Custom",
                                  !.white_point_xy = FirstTwo(NumbersOf(p.rest[1]))], p)
    [] OTHER -> Parses(FALSE, p.c, p)

\* Six numbers are read, and then refused.
ParsePrimaries(p) ==
  CASE p.c.color_space \in {"Gray", "XYB"} -> p
    [] p.c.color_space \notin {"Gray", "XYB"} /\ IsEnum(p.rest, kJxlPrimariesNames) ->
         Parses(TRUE, [p.c EXCEPT !.primaries = EnumOf(p.rest, kJxlPrimariesNames)], p)
    [] OTHER -> Parses(FALSE, p.c, p)

ParseRenderingIntent(p) ==
  IF IsEnum(p.rest, kJxlRenderingIntentNames)
  THEN Parses(TRUE, [p.c EXCEPT !.rendering_intent = EnumOf(p.rest, kJxlRenderingIntentNames)], p)
  ELSE Parses(FALSE, p.c, p)

ParseTransferFunction(p) ==
  CASE p.c.color_space = "XYB" ->
         [p EXCEPT !.c = [@ EXCEPT !.transfer_function = "Gamma", !.gamma = kGammaMul \div 3]]
    [] p.c.color_space # "XYB" /\ IsEnum(p.rest, kJxlTransferFunctionNames) ->
         Parses(TRUE, [p.c EXCEPT !.transfer_function = EnumOf(p.rest, kJxlTransferFunctionNames)], p)
    [] p.c.color_space # "XYB" /\ ~IsEnum(p.rest, kJxlTransferFunctionNames) /\ IsGamma(p.rest) ->
         Parses(TRUE, [p.c EXCEPT !.transfer_function = "Gamma", !.gamma = p.rest[1].g], p)
    [] OTHER -> Parses(FALSE, p.c, p)

ParseDescription(tokens) ==
  LET space == ParseColorSpace([ok |-> TRUE, c |-> NoExternal, text |-> tokens, rest |-> tokens])
      white == IF space.ok THEN ParseWhitePoint(space) ELSE space
      primaries == IF white.ok THEN ParsePrimaries(white) ELSE white
      intent == IF primaries.ok THEN ParseRenderingIntent(primaries) ELSE primaries
  IN  IF intent.ok THEN ParseTransferFunction(intent) ELSE intent

-----------------------------------------------------------------------------
(* What is meant, for the properties: the same colours but for what        *)
(* ApproxEq forgives, twice; a power is one however it is stored.          *)

Near(xy, other) == \A i \in 1 .. 2 : AbsoluteOf(xy[i] - other[i]) <= 16

SameCurve(tf, other) ==
  IF ExponentOf(tf) # 0 THEN AbsoluteOf(ExponentOf(tf) - ExponentOf(other)) <= 1600
  ELSE IsSame(tf, other)

SameSpace(c, other) ==
  /\ c.color_space = other.color_space
  /\ c.color_space # "XYB" => Near(GetWhitePoint(c), GetWhitePoint(other))
  /\ HasPrimaries(c) => \A i \in 1 .. 3 : Near(GetPrimaries(c)[i], GetPrimaries(other)[i])

SameMeaning(c, other) ==
  SameSpace(c, other) /\ (c.color_space # "XYB" => SameCurve(c.tf, other.tf))
=============================================================================
