---------------------------- MODULE MCImageFiles ----------------------------
(* For PNG a canvas of 2x2: rectangles that contain each other, overlap,   *)
(* are equal, and are the canvas.  Besides, pictures of 2x2 and 2x3 in     *)
(* every format PixelFormats reads, whole and damaged, and such as other   *)
(* decoders hand over: turned, premultiplied, animated, with black.  And    *)
(* profiles of other makers, described encodings, and hints, good and bad.  *)
EXTENDS ImageFiles

MCRects == {FullRect,
            [FullRect EXCEPT !.xsize = 1],
            [FullRect EXCEPT !.ysize = 1],
            [FullRect EXCEPT !.xsize = 1, !.ysize = 1]}

\* Numbers that tell all samples apart; the first are bytes of whitespace.
Level(x, y, c, bits) ==
  LET k == IF x + y + c = 0 THEN 10 ELSE IF x = 0 /\ y = 0 THEN 32 + c ELSE 50 + 20 * y + 8 * x + c
  IN  CASE bits = 1 -> (x + y) % 2
        [] bits = 8 -> IF x = 1 /\ y = 1 THEN 255 * (c % 2) ELSE k
        [] bits = 12 -> 8 * k + 1
        [] bits = 16 /\ c = 3 -> 65535 * ((x + y) % 2)   \* products stay small
        [] OTHER -> 200 * k + c

\* Alpha: of channel 3.
DrawnSample(x, y, c, bits, space) ==
  Sample(Level(x, y, c, bits), 2 ^ bits - 1, IF c = 3 THEN "alpha" ELSE space)

Picture(xsize, ysize, bits, gray, alpha, space, associated) ==
  [xsize |-> xsize, ysize |-> ysize, bits |-> bits, gray |-> gray, alpha |-> alpha,
   associated |-> associated,
   at |-> [y \in 0 .. ysize - 1 |-> [x \in 0 .. xsize - 1 |-> [c \in 0 .. 3 |->
             DrawnSample(x, y, c, bits, space)]]]]

\* The channels of a picture in the order they are stored in.
Stored(picture) ==
  (IF picture.gray THEN <<0>> ELSE <<0, 1, 2>>) \o (IF picture.alpha THEN <<3>> ELSE <<>>)

\* Rows from first to last, or from last to first.
Raster(picture, float, little_endian, last_first) ==
  LET channels == Stored(picture)
      width == IF float THEN 4 ELSE IF picture.bits > 8 THEN 2 ELSE 1
      BytesOf(x, y, c) ==
        IF float THEN FloatBytes(picture.at[y][x][c], 4, little_endian)
        ELSE UintBytes(Level(x, y, c, picture.bits), width, little_endian, picture.at[y][x][c].space)
  IN  FlattenSeq([y \in 1 .. picture.ysize |-> FlattenSeq([x \in 1 .. picture.xsize |->
        FlattenSeq([k \in 1 .. Len(channels) |->
          BytesOf(x - 1, IF last_first THEN picture.ysize - y ELSE y - 1, channels[k])])])])

WholeFile(file, picture) == [file |-> file, ppf |-> NoPpf, picture |-> picture, whole |-> TRUE]
Damaged(file, picture) == [file |-> file, ppf |-> NoPpf, picture |-> picture, whole |-> FALSE]

sRGB(xsize, ysize, bits, gray, alpha) == Picture(xsize, ysize, bits, gray, alpha, "sRGB", FALSE)

-----------------------------------------------------------------------------

Pnm(picture, space, comments) ==
  <<Word(IF picture.gray THEN "P5" ELSE "P6")>> \o comments \o <<space, Number(picture.xsize), space,
    Number(picture.ysize)>> \o comments \o <<space, Number(2 ^ picture.bits - 1), NewLine>>
    \o Raster(picture, FALSE, FALSE, FALSE)

PnmFiles ==
  {WholeFile(Pnm(p, s, c), p) :
     p \in {sRGB(2, 2, 8, TRUE, FALSE), sRGB(2, 2, 8, FALSE, FALSE), sRGB(2, 3, 12, FALSE, FALSE)},
     s \in {NewLine}, c \in {<<>>, <<Return, Comment, Return, NewLine, Comment>>}}

MCLine(key, value) == <<Word(key), Tab, value, NewLine>>

Pam(picture, type) ==
  <<Word("P7"), NewLine>> \o MCLine("DEPTH", Number(Len(Stored(picture)))) \o <<Comment, NewLine>>
    \o MCLine("HEIGHT", Number(picture.ysize)) \o MCLine("WIDTH", Number(picture.xsize))
    \o (IF picture.bits = 1 THEN <<>> ELSE MCLine("MAXVAL", Number(2 ^ picture.bits - 1)))
    \o MCLine("TUPLTYPE", Word(type)) \o <<Word("ENDHDR"), NewLine>>
    \o Raster(picture, FALSE, FALSE, FALSE)

PamFiles ==
  {WholeFile(Pam(p, "RGB_ALPHA"), p) : p \in {sRGB(2, 2, 8, FALSE, TRUE)}}
    \cup {WholeFile(Pam(p, "GRAYSCALE_ALPHA"), p) : p \in {sRGB(2, 2, 8, TRUE, TRUE), sRGB(2, 2, 16, TRUE, TRUE)}}
    \cup {WholeFile(Pam(p, "BLACKANDWHITE"), p) : p \in {sRGB(2, 2, 1, TRUE, FALSE)}}

Pfm(picture, scale) ==
  <<Word(IF picture.gray THEN "Pf" ELSE "PF"), NewLine, Number(picture.xsize), Space,
    Number(picture.ysize), NewLine, Scale(scale), NewLine>> \o Raster(picture, TRUE, scale < 0, TRUE)

PfmFiles ==
  {WholeFile(Pfm(p, scale), [p EXCEPT !.bits = 32]) :
     p \in {sRGB(2, 2, 16, FALSE, FALSE), sRGB(2, 2, 16, TRUE, FALSE)}, scale \in {-1, 2}}

Pgx(picture, endian, sign) ==
  <<Word("PG"), Space, Word(endian), Space>> \o sign \o <<Number(picture.bits), Space,
    Number(picture.xsize), Space, Number(picture.ysize), Return, NewLine>>
    \o Raster(picture, FALSE, endian = "LM", FALSE)

PgxFiles ==
  {WholeFile(Pgx(p, endian, <<Word("+"), Space>>), p) :
     p \in {sRGB(2, 2, 8, TRUE, FALSE), sRGB(2, 2, 16, TRUE, FALSE)}, endian \in {"ML", "LM"}}

DamagedFiles ==
  LET p == sRGB(2, 2, 8, FALSE, FALSE)
      g == sRGB(2, 2, 16, TRUE, FALSE)
      Cut(file, n) == SubSeq(file, 1, Len(file) - n)
  IN  {Damaged(Cut(Pnm(p, Space, <<>>), 1), p), Damaged(Cut(Pnm(p, Space, <<>>), 13), p),
       Damaged(<<Word("P6"), Space, Number(2), Space, Number(2), Space, Number(254), Space>>, p),
       Damaged(Pnm(sRGB(2, 4, 8, FALSE, FALSE), Space, <<>>), p),
       Damaged(<<Word("P6"), Space, Number(0), Space, Number(2), Space, Number(255), Space>>, p),
       Damaged(Cut(Pfm(g, -1), 1), g), Damaged(Pfm(g, 0), g),
       Damaged(Pam(sRGB(2, 2, 8, FALSE, TRUE), "RGB"), p),
       Damaged(Pgx(g, "ML", <<Word("-")>>), g), Damaged(Cut(Pgx(g, "LM", <<Word("+")>>), 1), g)}

-----------------------------------------------------------------------------

\* As a decoder of JPEG XL gives it.
PackedBy(picture, data_type, endianness, count) ==
  LET float == IsFloat(data_type)
      format == PixelFormat(Len(Stored(picture)), data_type, endianness)
      pixels == Raster(picture, float, endianness = "little", FALSE)
  IN  [NewPackedPixelFile EXCEPT
         !.xsize = picture.xsize, !.ysize = picture.ysize, !.bits_per_sample = picture.bits,
         !.alpha_bits = IF picture.alpha THEN picture.bits ELSE 0,
         !.alpha_premultiplied = picture.associated,
         !.num_color_channels = IF picture.gray THEN 1 ELSE 3,
         !.have_animation = count > 1,
         !.color_encoding = CodingOf(picture.gray, picture.at[0][0][0].space),
         !.frames = [k \in 1 .. count |->
           [NewPackedFrame(picture.xsize, picture.ysize, format) EXCEPT
              !.pixels = pixels, !.duration = IF k = 1 THEN 0 ELSE 7]]]

Given(picture, packed) == [file |-> <<>>, ppf |-> packed, picture |-> picture, whole |-> TRUE]

Turned ==
  {LET p == Picture(2, 3, 8, FALSE, TRUE, "sRGB", TRUE)
   IN  Given(p, [PackedBy(p, "uint8", "little", 1) EXCEPT !.orientation = o]) : o \in 1 .. 8}

Straight ==
  {LET p == Picture(2, 2, 16, gray, FALSE, "PQ", FALSE)
   IN  Given(p, [PackedBy(p, "uint16", endianness, count) EXCEPT !.orientation = o]) :
     gray \in {FALSE}, endianness \in {"little"}, count \in {1, 2}, o \in {1, 6}}

WithBlack(picture, packed) ==
  [packed EXCEPT !.icc = "cmyk",
     !.extra_channels_info = <<ExtraChannelInfo("black", 8, FALSE)>>,
     !.frames[1].extra_channels =
        <<[NewPackedFrame(picture.xsize, picture.ysize, PixelFormat(1, "uint8", "little")) EXCEPT
             !.pixels = Raster([picture EXCEPT !.gray = TRUE], FALSE, FALSE, FALSE)]>>]

Inks ==
  LET p == Picture(2, 2, 8, FALSE, FALSE, "CMYK", FALSE)
  IN  {Given(p, WithBlack(p, PackedBy(p, "uint8", "little", 1))),
       Given(p, [PackedBy(p, "uint8", "little", 1) EXCEPT !.icc = "cmyk"])}

MCSources == PnmFiles \cup PamFiles \cup PfmFiles \cup PgxFiles \cup DamagedFiles
               \cup Turned \cup Straight \cup Inks

\* What the proofs about pictures ask of the parsers.
ASSUME FilesDecodeAsDrawn == FilesDecode

MCEncodings == {CodingOf(FALSE, "sRGB"), CodingOf(TRUE, "sRGB"), CodingOf(FALSE, "linear")}
MCConstraints == [dec_max_xsize |-> 3, dec_max_ysize |-> 3, dec_max_pixels |-> 8]
MCExtensions == {".ppm", ".pfm", ".pgx", ".gif"}
-----------------------------------------------------------------------------
\* Profiles of other makers: their tags one after the other.

Made(space, intent, pieces) ==
  LET at(n) == SumOf([k \in 1 .. n - 1 |-> pieces[k].piece.bytes])
      before == 132 + 12 * Len(pieces)
  IN  [header |-> [size |-> before + at(Len(pieces) + 1), magic |-> "acsp", data_space |-> space,
                   intent |-> intent],
       table |-> [n \in DOMAIN pieces |->
                    [tag |-> pieces[n].tag, offset |-> before + at(n), size |-> pieces[n].piece.bytes]] \o <<>>,
       data |-> [n \in DOMAIN pieces |->
                    [at |-> at(n), bytes |-> pieces[n].piece.bytes, holds |-> pieces[n].piece.holds]] \o <<>>]

Tagged(tag, piece) == [tag |-> tag, piece |-> piece]
PowerOf(gamma) == [name |-> "gamma", gamma |-> gamma]
Formula(name) == [name |-> name, gamma |-> 0]

White(white, adapted) ==
  IF adapted THEN <<Tagged("wtpt", XYZ([white |-> D50])), Tagged("chad", Chad(white))>>
  ELSE <<Tagged("wtpt", XYZ([white |-> white]))>>

MatrixProfile(intent, white, adapted, rgb, curve) ==
  LET colorant(n) == XYZ([rgb |-> rgb, white |-> white, channel |-> n])
  IN  Made("RGB", intent,
        <<Tagged("rTRC", CurveTag(curve)), Tagged("gTRC", CurveTag(curve)), Tagged("bTRC", CurveTag(curve)),
          Tagged("rXYZ", colorant(1)), Tagged("gXYZ", colorant(2)), Tagged("bXYZ", colorant(3))>>
          \o White(white, adapted))
GrayProfile(white, adapted, curve) ==
  Made("GRAY", "Perceptual", <<Tagged("kTRC", CurveTag(curve))>> \o White(white, adapted))
TableProfile(space, white, rgb, curve) ==
  Made(space, "Relative",
    White(white, TRUE) \o <<Tagged("A2B0", Piece(4096, [rgb |-> rgb, white |-> white, curve |-> curve]))>>)

D65 == KnownWhitePoints.D65
AdobeRGB == << <<64000, 33000>>, <<21000, 71000>>, <<15000, 6000>> >>
AlmostSRGB == << <<64003, 32998>>, <<30000, 60005>>, <<15002, 5997>> >>
ACES == << <<73470, 26530>>, <<100000, 1>>, <<10, -7700>> >>
OnALine == << <<10000, 10000>>, <<20000, 20000>>, <<40000, 40000>> >>

\* Without curves nothing can be transformed, without a white point it is
\* that of all profiles, and a table comes before curves and colorants.
Without(profile, tags) == [profile EXCEPT !.table = SelectSeq(@, LAMBDA entry : entry.tag \notin tags)]
TableAnd(table, rgb) ==
  LET curve == Formula("709")
      colorant(n) == XYZ([rgb |-> rgb, white |-> D65, channel |-> n])
  IN  Made("RGB", "Perceptual",
        <<Tagged("A2B0", Piece(4096, [rgb |-> table, white |-> D65, curve |-> curve])),
          Tagged("rTRC", CurveTag(curve)), Tagged("gTRC", CurveTag(curve)), Tagged("bTRC", CurveTag(curve)),
          Tagged("rXYZ", colorant(1)), Tagged("gXYZ", colorant(2)), Tagged("bXYZ", colorant(3))>>
          \o White(D65, FALSE))

MCProfiles ==
  {MatrixProfile("Perceptual", D65, TRUE, KnownPrimaries["SRGB"], Formula("SRGB")),
   MatrixProfile("Relative", <<31273, 32902>>, FALSE, AlmostSRGB, PowerOf(9999500)),
   MatrixProfile("Absolute", D65, TRUE, AdobeRGB, PowerOf(4545455)),
   MatrixProfile("Relative", KnownWhitePoints.DCI, TRUE, KnownPrimaries["P3"], PowerOf(3846154)),
   MatrixProfile("Saturation", D65, FALSE, KnownPrimaries["2100"], Formula("HLG")),
   MatrixProfile("Unheard", D65, TRUE, KnownPrimaries["SRGB"], Formula("SRGB")),
   TableProfile("RGB", D65, KnownPrimaries["2100"], Formula("PQ")),
   TableProfile("CMYK", D50, KnownPrimaries["SRGB"], Formula("ink")),
   TableProfile("Lab", D50, KnownPrimaries["SRGB"], Formula("Lab")),
   GrayProfile(D65, FALSE, Formula("SRGB")), GrayProfile(D50, TRUE, PowerOf(4545455)),
   [GrayProfile(D65, TRUE, Formula("709")) EXCEPT !.header.magic = "none"],
   TableAnd(AlmostSRGB, KnownPrimaries["SRGB"]), TableAnd(AdobeRGB, KnownPrimaries["SRGB"]),
   Without(MatrixProfile("Relative", D50, TRUE, KnownPrimaries["P3"], Formula("SRGB")), {"wtpt", "chad"}),
   Without(MatrixProfile("Relative", D65, TRUE, KnownPrimaries["SRGB"], Formula("SRGB")), CurveTags),
   Without(GrayProfile(D65, TRUE, Formula("709")), {"kTRC"})}

External(space, white, primaries, tf, intent) ==
  [NoExternal EXCEPT !.color_space = space, !.white_point = white, !.primaries = primaries,
                     !.transfer_function = tf, !.rendering_intent = intent]
RGB(white, primaries, tf) == External("RGB", white, primaries, tf, "Relative")
Gray(white, tf) == External("Gray", white, "none", tf, "Perceptual")
CustomWhite(external, xy) == [external EXCEPT !.white_point = "Custom", !.white_point_xy = xy]
CustomPrimaries(external, rgb) == [external EXCEPT !.primaries = "Custom", !.primaries_xy = rgb]
WithGamma(external, gamma) == [external EXCEPT !.transfer_function = "Gamma", !.gamma = gamma]

MCExternals ==
  LET srgb == RGB("D65", "SRGB", "SRGB")
  IN  {srgb, RGB("DCI", "P3", "DCI"), RGB("D65", "2100", "PQ"), RGB("E", "2100", "HLG"),
       RGB("D65", "SRGB", "Unknown"), RGB("none", "SRGB", "SRGB"), RGB("D65", "none", "SRGB"),
       RGB("D65", "SRGB", "none"), Gray("D65", "709"), Gray("E", "HLG"),
       External("XYB", "D65", "none", "SRGB", "Perceptual"),
       External("Unknown", "D65", "P3", "Linear", "Absolute"),
       WithGamma(srgb, 4545455), WithGamma(srgb, 9999300), WithGamma(srgb, 1220), WithGamma(srgb, 10000001),
       WithGamma(Gray("D65", "none"), 3846000), WithGamma(Gray("D65", "none"), 2500),
       CustomWhite(srgb, <<31264, 32908>>), CustomWhite(srgb, D50), CustomWhite(srgb, <<33333, 33334>>),
       CustomWhite(srgb, NoXY), CustomWhite(srgb, <<31270, 400001>>), CustomWhite(srgb, <<31270, 300000>>),
       CustomWhite(Gray("D65", "SRGB"), <<20000, -50000>>), CustomWhite(Gray("D65", "PQ"), <<200000, 1>>),
       CustomPrimaries(srgb, AdobeRGB), CustomPrimaries(srgb, AlmostSRGB), CustomPrimaries(srgb, ACES),
       CustomPrimaries(srgb, OnALine),
       CustomPrimaries(srgb, [AdobeRGB EXCEPT ![3] = <<15000, 0>>]),
       CustomPrimaries(srgb, [AdobeRGB EXCEPT ![2] = <<-210000, 71000>>])}

Words(words) == [n \in DOMAIN words |-> Word_(words[n])] \o <<>>
MCHints ==
  {<<>>, <<Words(<<"RGB", "D65", "202", "Rel", "PeQ">>)>>,
   <<Words(<<"RGB", "EER", "DCI", "Per">>) \o <<GammaToken(5000000)>> >>,
   << <<Word_("RGB"), Numbers(<<31265, 32905>>)>> \o Words(<<"SRG", "Sat", "Lin">>)>>,
   << <<Word_("Gra"), Numbers(<<34567, 35850>>)>> \o Words(<<"Abs", "709">>)>>,
   << <<Word_("Gra"), Numbers(<<34567>>)>> \o Words(<<"Abs", "709">>)>>,
   <<Words(<<"Gra", "709", "Abs", "709">>)>>, <<Words(<<"RGB", "D65", "SRG", "Rel", "">>)>>,
   <<Words(<<"RGB", "D65", "Rel", "SRG">>)>>, <<Words(<<"RGB", "Cst", "SRG", "Rel", "SRG">>)>>,
   <<Words(<<"XYB", "Rel">>)>>, <<Words(<<"CMY">>)>>, <<Words(<<"Gra", "D65", "Rel">>)>>,
   << <<>> >>}

MCTargets ==
  {RGB("D65", "SRGB", "Linear"), RGB("D65", "SRGB", "SRGB"), RGB("D65", "2100", "PQ"),
   RGB("D65", "P3", "HLG"), RGB("D65", "2100", "HLG"), Gray("D65", "Linear"), Gray("D65", "HLG")}
MCIntensities == {255, 300, 10000}
MCDrifts == {-7, 7}

=============================================================================
