---------------------------- MODULE ColorProfiles ----------------------------
(***************************************************************************)
(* ICC profiles: how one is made of the fields of a ColorEncoding          *)
(* (lib/jxl/color_management.cc) and how the fields are found in one       *)
(* (lib/jxl/enc_color_management.cc, with LCMS).                           *)
(*                                                                         *)
(* A profile is its header, its table of tags and the pieces the tags      *)
(* point at: a piece has a place and a number of bytes, and holds a text,  *)
(* a white point, a colorant or a curve. What LCMS does is modelled by     *)
(* what it yields; the chromaticities it finds are off by `drift', of at   *)
(* most 7E-5 ("differences of 7.1E-5 with lcms2"). The checksum is left    *)
(* out.                                                                    *)
(***************************************************************************)
EXTENDS ColorEncodings

D50 == <<34567, 35850>>

-----------------------------------------------------------------------------
(* Curves.                                                                 *)

\* The powers are equal; the others have formulas or tables of their own.
Curve(tf) ==
  IF ExponentOf(tf) # 0 THEN [name |-> "gamma", gamma |-> ExponentOf(tf)]
  ELSE [name |-> tf.transfer_function, gamma |-> 0]

\* Within 2E-4 of each other everywhere.
SameProfileCurve(curve, other) ==
  curve.name = other.name /\ AbsoluteOf(curve.gamma - other.gamma) <= 2000

IsTable(curve) == curve.name \in {"PQ", "HLG"}

-----------------------------------------------------------------------------
(* Making a profile.                                                       *)

\* The characters of n / 10^digits.
CharactersOf(n, digits) ==
  LET k == CHOOSE d \in 0 .. digits : n % (10 ^ (digits - d)) = 0 /\ \A e \in 0 .. d - 1 : n % (10 ^ (digits - e)) # 0
  IN  (IF n < 0 THEN 1 ELSE 0) + 1 + (IF k = 0 THEN 0 ELSE 1 + k)

SumOf(lengths) ==
  LET sum[i \in 0 .. Len(lengths)] == IF i = 0 THEN 0 ELSE sum[i - 1] + lengths[i]
  IN  sum[Len(lengths)]

\* Every name of an enum has three characters.
TokenLength(token) ==
  CASE "word" \in DOMAIN token -> 3
    [] "g" \in DOMAIN token -> 1 + CharactersOf(token.g, 7)
    [] "numbers" \in DOMAIN token -> SumOf([i \in DOMAIN token.numbers |-> CharactersOf(token.numbers[i], 5) + 1]) - 1

TextLength(tokens) == SumOf([i \in DOMAIN tokens |-> TokenLength(tokens[i]) + 1]) - 1

Piece(bytes, holds) == [bytes |-> bytes, holds |-> holds]
Mluc(text, length) == Piece(28 + 2 * length, [text |-> text])
XYZ(holds) == Piece(8 + 3 * 4, holds)
Chad(white) == Piece(8 + 9 * 4, [white |-> white])
CurveTag(curve) ==
  Piece(IF IsTable(curve) THEN 12 + 2 * 4096 ELSE 12 + 5 * 4, [curve |-> curve])

NewTags == [data |-> <<>>, bytes |-> 0, offset |-> 0, size |-> 0, table |-> <<>>]

\* One more piece, padded to four bytes.
Padded(tags, piece) ==
  LET bytes == ((piece.bytes + 3) \div 4) * 4
  IN  [tags EXCEPT !.data = Append(@, [at |-> tags.bytes, bytes |-> bytes, holds |-> piece.holds]),
                   !.bytes = @ + bytes]

\* Mutant: the offset moves after the size is known.
FinalizeICCTagLate(tags, piece) ==
  LET size == Padded(tags, piece).bytes - tags.offset
  IN  [Padded(tags, piece) EXCEPT !.offset = @ + size, !.size = size]

FinalizeICCTag(tags, piece) ==
  LET offset == tags.offset + tags.size
  IN  [Padded(tags, piece) EXCEPT !.offset = offset, !.size = Padded(tags, piece).bytes - offset]

AddToICCTagTable(tags, name) ==
  [tags EXCEPT !.table = Append(@, [tag |-> name, offset |-> tags.offset, size |-> tags.size])]

AddTag(tags, name, piece) == AddToICCTagTable(FinalizeICCTag(tags, piece), name)

\* The header of 128 bytes, the table, the data.
Profile(space, intent, tags) ==
  LET before == 128 + 4 + 12 * Len(tags.table)
  IN  [header |-> [size |-> before + tags.bytes, magic |-> "acsp",
                   data_space |-> space, intent |-> intent],
       table |-> [i \in DOMAIN tags.table |-> [tags.table[i] EXCEPT !.offset = @ + before]],
       data |-> tags.data]

FitsS15Fixed16(n, d) == AbsoluteOf(n) \div AbsoluteOf(d) <= 32767

\* CIEXYZFromWhiteCIExy, and that the tag can hold it.
WhiteFitsTag(xy) ==
  xy[2] # 0 /\ FitsS15Fixed16(xy[1], xy[2]) /\ FitsS15Fixed16(100000 - xy[1] - xy[2], xy[2])

\* AdaptToXYZD50; the response of a cone is never exactly zero here.
CanAdaptToXYZD50(xy) == xy[1] \in 0 .. 100000 /\ xy[2] \in 1 .. 100000

\* Inv3x3Matrix: three points on a line have no inverse.  To 1E-4.  The
\* colorants of others are taken to fit into their tags.
Invertible(rgb) ==
  LET d(i, k) == rgb[i][k] \div 10 - rgb[1][k] \div 10
  IN  d(2, 1) * d(3, 2) # d(3, 1) * d(2, 2)

Colorant(c, i) == XYZ([rgb |-> GetPrimaries(c), white |-> GetWhitePoint(c), channel |-> i])

DescribedTags(c) ==
  AddTag(AddTag(NewTags, "desc", Mluc(Description(c), TextLength(Description(c)))),
         "cprt", Mluc(<<>>, 114))

GrayTags(c) ==
  AddTag(AddTag(DescribedTags(c), "wtpt", XYZ([white |-> GetWhitePoint(c)])),
         "kTRC", CurveTag(Curve(c.tf)))

ColorTags(c) ==
  LET white == AddTag(AddTag(DescribedTags(c), "wtpt", XYZ([white |-> D50])),
                      "chad", Chad(GetWhitePoint(c)))
      colorants == AddTag(AddTag(AddTag(white, "rXYZ", Colorant(c, 1)), "gXYZ", Colorant(c, 2)),
                          "bXYZ", Colorant(c, 3))
  IN  AddToICCTagTable(AddToICCTagTable(
        AddTag(colorants, "rTRC", CurveTag(Curve(c.tf))), "gTRC"), "bTRC")

MaybeCreateProfile(c) ==
  CASE c.color_space \in {"Unknown", "XYB"} \/ IsTF(c, "Unknown") -> [ok |-> FALSE, icc |-> NoICC]
    [] c.color_space = "Gray" /\ ~IsTF(c, "Unknown") ->
         IF WhiteFitsTag(GetWhitePoint(c))
         THEN [ok |-> TRUE, icc |-> Profile("GRAY", c.rendering_intent, GrayTags(c))]
         ELSE [ok |-> FALSE, icc |-> NoICC]
    [] OTHER ->
         IF CanAdaptToXYZD50(GetWhitePoint(c)) /\ Invertible(GetPrimaries(c))
         THEN [ok |-> TRUE, icc |-> Profile("RGB", c.rendering_intent, ColorTags(c))]
         ELSE [ok |-> FALSE, icc |-> NoICC]

\* Mutant: a profile that cannot be made leaves the one that was.
CreateICCIfPossible(c) ==
  LET made == MaybeCreateProfile(c)
  IN  [ok |-> made.ok, c |-> IF made.ok THEN [c EXCEPT !.icc = made.icc] ELSE c]
CreateICC(c) ==
  LET made == MaybeCreateProfile(c)
  IN  [ok |-> made.ok, c |-> [c EXCEPT !.icc = made.icc]]

SetSRGB(c, cs) ==
  CreateICC([WithTF(c, "SRGB") EXCEPT !.color_space = cs, !.white_point = "D65", !.primaries = "SRGB",
                                      !.rendering_intent = "Relative"])

\* CreateC2
ReadyToUse(is_gray, tf) ==
  CreateICC(WithTF(SetColorSpace(BlankColorEncoding, IF is_gray THEN "Gray" ELSE "RGB"), tf)).c
SRGB(is_gray) == ReadyToUse(is_gray, "SRGB")
LinearSRGB(is_gray) == ReadyToUse(is_gray, "Linear")

-----------------------------------------------------------------------------
(* Reading a profile.                                                      *)

DecodeProfile(icc) == icc # NoICC /\ icc.header.magic = "acsp"

\* cmsReadTag: the tag's bytes have to lie in the file, and to be all there.
TagPieces(icc, name) ==
  LET before == 128 + 4 + 12 * Len(icc.table)
      IsAt(i, entry) == /\ before + icc.data[i].at = entry.offset
                        /\ icc.data[i].bytes <= entry.size
                        /\ entry.offset + entry.size <= icc.header.size
  IN  {i \in DOMAIN icc.data : \E k \in DOMAIN icc.table : icc.table[k].tag = name /\ IsAt(i, icc.table[k])}
HasTag(icc, name) == TagPieces(icc, name) # {}
ReadTag(icc, name) == icc.data[CHOOSE m \in TagPieces(icc, name) : TRUE].holds

ColorSpaceFromProfile(icc) ==
  CASE icc.header.data_space \in {"RGB", "CMYK"} -> "RGB"
    [] icc.header.data_space = "GRAY" -> "Gray"
    [] OTHER -> "Unknown"

\* A transform to XYZ: what tables say, or else what the colorants say.
ColorantTags == {"rXYZ", "gXYZ", "bXYZ"}
CurveTags == {"rTRC", "gTRC", "bTRC"}
HasColorants(icc) == \A t \in ColorantTags : HasTag(icc, t)
CanTransform(icc) ==
  \/ icc.header.data_space \in {"RGB", "GRAY"} /\ HasTag(icc, "A2B0")
  \/ icc.header.data_space = "RGB" /\ HasColorants(icc) /\ \A t \in CurveTags : HasTag(icc, t)
  \/ icc.header.data_space = "GRAY" /\ HasTag(icc, "kTRC")
CurveIn(icc) ==
  LET tag == CASE HasTag(icc, "A2B0") -> "A2B0"
               [] ~HasTag(icc, "A2B0") /\ icc.header.data_space = "GRAY" -> "kTRC"
               [] OTHER -> "rTRC"
  IN  ReadTag(icc, tag).curve

\* Colorants are given as the chromaticities they have once what is stored
\* is adapted from D50 to the white point the profile is read with; those of
\* all three are with the first.
ColorantsIn(icc) == ReadTag(icc, IF HasTag(icc, "A2B0") THEN "A2B0" ELSE "rXYZ")
ColorantsTold(icc) == IF HasColorants(icc) THEN ReadTag(icc, "rXYZ") ELSE ColorantsIn(icc)

\* LCMS takes D50 if no tag says.
WhiteIn(icc) ==
  CASE HasTag(icc, "chad") -> ReadTag(icc, "chad").white
    [] ~HasTag(icc, "chad") /\ HasTag(icc, "wtpt") -> ReadTag(icc, "wtpt").white
    [] OTHER -> D50

Drifted(xy, drift) == [i \in 1 .. 2 |-> xy[i] + drift]

\* The tag, or else what white is transformed to; equal energy if it cannot be.
TellsWhite(icc) == CanTransform(icc) \/ (HasTag(icc, "wtpt") /\ ~HasTag(icc, "chad"))
UnadaptedWhitePoint(icc, drift) ==
  IF TellsWhite(icc) THEN Drifted(WhiteIn(icc), drift) ELSE <<33333, 33333>>

Close(xy, other) == \A i \in 1 .. 2 : AbsoluteOf(xy[i] - other[i]) <= 20

\* Every sample, from very dark to almost fully bright, comes out as the same XYZ.
ProfileEquivalentToICC(icc, other, c) ==
  /\ DecodeProfile(other) /\ CanTransform(icc) /\ CanTransform(other)
  /\ SameProfileCurve(CurveIn(icc), CurveIn(other))
  /\ ~IsGray(c) =>
       LET a == ColorantsIn(icc)
           b == ColorantsIn(other)
       IN  Close(a.white, b.white) /\ \A k \in 1 .. 3 : Close(a.rgb[k], b.rgb[k])

\* By the tags of the colorants, or else by transforming red, green and blue.
IdentifyPrimaries(icc, c, drift) ==
  CASE ~HasPrimaries(c) \/ ColorSpaceFromProfile(icc) = "Unknown" -> Good(c)
    [] HasPrimaries(c) /\ ColorSpaceFromProfile(icc) # "Unknown"
         /\ (CanTransform(icc) \/ HasColorants(icc)) ->
         SetPrimaries(c, [k \in 1 .. 3 |-> Drifted(ColorantsTold(icc).rgb[k], drift)])
    [] OTHER -> Bad(c)

\* Mutant: the candidates need not be like the profile.
DetectTransferFunctionFirst(icc, c) ==
  LET known == SelectSeq(TransferFunctions, LAMBDA tf : MaybeCreateProfile(WithTF(c, tf)).ok)
  IN  WithTF(c, IF known = <<>> THEN "Unknown" ELSE known[1])

\* The first curve whose profile does the same; an exponent is not looked for.
DetectTransferFunction(icc, c) ==
  LET Fits(tf) ==
        LET test == MaybeCreateProfile(WithTF(c, tf))
        IN  tf # "Unknown" /\ test.ok /\ ProfileEquivalentToICC(icc, test.icc, c)
      fitting == {k \in DOMAIN TransferFunctions : Fits(TransferFunctions[k])}
  IN  IF HasImplicitTF(c.tf) THEN [c EXCEPT !.tf = SetImplicit(@)]
      ELSE WithTF(c, IF fitting = {} THEN "Unknown"
                     ELSE TransferFunctions[CHOOSE k \in fitting : \A j \in fitting : k <= j])

SetFieldsFromICC(c, drift) ==
  LET marked == WithTF(SetColorSpace(c, "Unknown"), "Unknown")
      told == SetColorSpace([marked EXCEPT !.rendering_intent = c.icc.header.intent],
                            ColorSpaceFromProfile(c.icc))
      white == SetWhitePoint(told, UnadaptedWhitePoint(c.icc, drift))
      primaries == IdentifyPrimaries(c.icc, white.c, drift)
  IN  CASE ~DecodeProfile(c.icc) -> Bad(marked)
        [] DecodeProfile(c.icc) /\ \A k \in DOMAIN RenderingIntents : RenderingIntents[k] # c.icc.header.intent ->
             Bad(marked)
        [] OTHER ->
             CASE c.icc.header.data_space = "CMYK" -> Good([told EXCEPT !.cmyk = TRUE])
               [] c.icc.header.data_space # "CMYK" /\ ~white.ok -> white
               [] c.icc.header.data_space # "CMYK" /\ white.ok /\ ~primaries.ok -> primaries
               [] OTHER -> Good(DetectTransferFunction(c.icc, primaries.c))

\* The profile is kept if its fields were found.
KeptIfRead(read) ==
  IF read.ok THEN Good([read.c EXCEPT !.want_icc = TRUE]) ELSE Bad([read.c EXCEPT !.icc = NoICC])

SetICC(c, icc, drift) ==
  IF icc = NoICC THEN Bad(c) ELSE KeptIfRead(SetFieldsFromICC([c EXCEPT !.icc = icc], drift))

\* JXL_ASSERT(equivalent)
DecideIfWantICC(c) ==
  LET made == MaybeCreateProfile(c)
      decides == DecodeProfile(c.icc) /\ c.icc.header.data_space # "CMYK" /\ made.ok
  IN  [aborts |-> decides /\ ~ProfileEquivalentToICC(c.icc, made.icc, c),
       c |-> IF decides THEN [c EXCEPT !.want_icc = FALSE] ELSE c]
=============================================================================
