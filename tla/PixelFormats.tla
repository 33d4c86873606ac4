---------------------------- MODULE PixelFormats ----------------------------
(***************************************************************************)
(* The files of pixels libjxl reads and writes by itself: PGM, PPM, PAM    *)
(* and PFM (lib/extras/dec/pnm.cc, enc/pnm.cc) and PGX (dec/pgx.cc,        *)
(* enc/pgx.cc), and who reads and writes what (dec/decode.cc,              *)
(* enc/encode.cc, codec.cc).                                               *)
(*                                                                         *)
(* A file is a sequence of tokens: the bytes of ExternalImage, some of     *)
(* which are also whitespace, and in its header numbers, words and         *)
(* comments, none of which has whitespace or a line break in it.  A        *)
(* parser's position is 0 after it has failed.                             *)
(***************************************************************************)
EXTENDS ImageBundle

CONSTANT Constraints   \* SizeConstraints: the largest xsize, ysize, and number of pixels

ASSUME ConstraintsAssumption ==
  Constraints \in [dec_max_xsize : Nat, dec_max_ysize : Nat, dec_max_pixels : Nat]

Word(w) == <<"word", w>>
Number(n) == <<"number", n>>
Scale(sign) == <<"scale", sign>>    \* "-1.0" or such
Comment == <<"comment">>
Character(k) == UintByte(k, "text")
Space == Character(32)
NewLine == Character(10)
Return == Character(13)
Tab == Character(9)

LineBreaks == {10, 13}
Whitespace == LineBreaks \cup {9, 32}

-----------------------------------------------------------------------------
(* The parsers' steps.                                                     *)

IsAt(file, pos, tokens) == pos \in DOMAIN file /\ file[pos] \in tokens
IsByteAt(file, pos, values) ==
  pos \in DOMAIN file /\ file[pos][1] = "uint" /\ file[pos][2] \in values

Skip(file, pos, tokens) == IF IsAt(file, pos, tokens) THEN pos + 1 ELSE 0
SkipByte(file, pos, values) == IF IsByteAt(file, pos, values) THEN pos + 1 ELSE 0

\* "\n" or "\r\n"
SkipLineBreak(file, pos) ==
  IF IsByteAt(file, pos, {13}) THEN SkipByte(file, pos + 1, {10}) ELSE SkipByte(file, pos, {10})

\* The first position from pos on that has none of these bytes.
After(file, pos, values) ==
  CHOOSE j \in pos .. Len(file) + 1 :
    /\ ~IsByteAt(file, j, values)
    /\ \A k \in pos .. j - 1 : IsByteAt(file, k, values)

\* Whitespace, comments with the line breaks after each, and whitespace.
SkipWhitespace(file, pos) ==
  LET comments[k \in 1 .. Len(file) + 1] ==
        IF IsAt(file, k, {Comment}) THEN comments[After(file, k + 1, LineBreaks)] ELSE k
  IN  IF ~IsByteAt(file, pos, Whitespace) /\ ~IsAt(file, pos, {Comment}) THEN 0
      ELSE After(file, comments[After(file, pos, Whitespace)], Whitespace)

\* ParseUnsigned, ParseSigned, SkipSingleWhitespace, SkipBlank, SkipSpace and
\* what else a header is made of.
AfterStep(file, pos, step) ==
  CASE step = "number" -> IF pos \in DOMAIN file /\ file[pos][1] = "number" THEN pos + 1 ELSE 0
    [] step = "scale" -> IF pos \in DOMAIN file /\ file[pos][1] \in {"scale", "number"} THEN pos + 1 ELSE 0
    [] step = "whitespace" -> SkipWhitespace(file, pos)
    [] step = "single whitespace" -> SkipByte(file, pos, Whitespace)
    [] step = "blank" -> SkipByte(file, pos, {32, 10})
    [] step = "space" -> SkipByte(file, pos, {32})
    [] step = "optional space" -> IF IsByteAt(file, pos, {32}) THEN pos + 1 ELSE pos
    [] step = "endianness" -> Skip(file, pos, {Word("ML"), Word("LM")})
    [] step = "sign" -> Skip(file, pos, {Word("+"), Word("-")})
    [] step = "line break" -> SkipLineBreak(file, pos)

\* Where the parser is after each step, from the first token after the signature.
Positions(file, steps) ==
  LET pos[k \in 0 .. Len(steps)] ==
        IF k = 0 THEN 2 ELSE AfterStep(file, pos[k - 1], steps[k])
  IN  pos

\* What the step took.
Taken(file, pos, step) == file[pos[step - 1]][2]

-----------------------------------------------------------------------------
(* Headers.                                                                *)

NoHeader == [raster |-> 0]

Header(xsize, ysize, is_gray, has_alpha, bits, floating_point, big_endian, raster) ==
  [xsize |-> xsize, ysize |-> ysize, is_gray |-> is_gray, has_alpha |-> has_alpha,
   bits_per_sample |-> bits, floating_point |-> floating_point, big_endian |-> big_endian,
   raster |-> raster]

\* Of 2^n - 1; 0 for any other.
BitsOfMaxVal(max_val) ==
  IF \E n \in 1 .. 16 : 2 ^ n - 1 = max_val THEN CHOOSE n \in 1 .. 16 : 2 ^ n - 1 = max_val ELSE 0

\* Mutant: all the whitespace before the raster is skipped.
StepsIntoRaster == <<"whitespace", "number", "whitespace", "number", "whitespace", "number",
                     "whitespace">>
StepsPNM == <<"whitespace", "number", "whitespace", "number", "whitespace", "number",
              "single whitespace">>
StepsPFM == <<"single whitespace", "number", "blank", "number", "single whitespace", "scale",
              "single whitespace">>

HeaderPNM(file, pos, is_gray) ==
  IF pos[7] = 0 \/ BitsOfMaxVal(Taken(file, pos, 6)) = 0 THEN NoHeader
  ELSE Header(Taken(file, pos, 2), Taken(file, pos, 4), is_gray, FALSE,
              BitsOfMaxVal(Taken(file, pos, 6)), FALSE, TRUE, pos[7])

\* Only the sign of the scale counts.
HeaderPFM(file, pos, is_gray) ==
  IF pos[7] = 0 \/ Taken(file, pos, 6) = 0 THEN NoHeader
  ELSE Header(Taken(file, pos, 2), Taken(file, pos, 4), is_gray, FALSE, 32, TRUE,
              Taken(file, pos, 6) > 0, pos[7])

TupleTypes ==
  [RGB_ALPHA |-> <<FALSE, TRUE>>, RGB |-> <<FALSE, FALSE>>, GRAYSCALE_ALPHA |-> <<TRUE, TRUE>>,
   GRAYSCALE |-> <<TRUE, FALSE>>, BLACKANDWHITE_ALPHA |-> <<TRUE, TRUE>>,
   BLACKANDWHITE |-> <<TRUE, FALSE>>]

\* h after TUPLTYPE type.
WithTupleType(h, type) ==
  [h EXCEPT !.is_gray = @ \/ TupleTypes[type][1], !.has_alpha = @ \/ TupleTypes[type][2],
            !.MAXVAL = IF type \in {"BLACKANDWHITE", "BLACKANDWHITE_ALPHA"} THEN 1 ELSE @]

NoLines ==
  [WIDTH |-> 0, HEIGHT |-> 0, DEPTH |-> 3, MAXVAL |-> 255, is_gray |-> FALSE, has_alpha |-> FALSE,
   raster |-> 0]

Keywords == {Word(w) : w \in {"WIDTH", "HEIGHT", "DEPTH", "MAXVAL", "TUPLTYPE"}}

\* Where the value of a keyword is that whitespace leads to.
ValueAt(file, key) ==
  IF IsAt(file, key, Keywords) THEN SkipWhitespace(file, key + 1) ELSE 0

\* Lines of a keyword and a number, in any order; a TUPLTYPE also skips the
\* whitespace after it, which another line would want, but not ENDHDR.  The
\* parser's position is 0 also behind the last line.
LineOf(pos, h) == [pos |-> pos, h |-> h]

PamLine(file, key, value, h) ==
  CASE value = 0 -> LineOf(0, h)
    [] value # 0 /\ file[key][2] # "TUPLTYPE" ->
         IF AfterStep(file, value, "number") = 0 THEN LineOf(0, h)
         ELSE LineOf(value + 1, [h EXCEPT ![file[key][2]] = file[value][2]])
    [] OTHER ->
         IF ~IsAt(file, value, {Word(w) : w \in DOMAIN TupleTypes}) THEN LineOf(0, h)
         ELSE LineOf(SkipWhitespace(file, value + 1), WithTupleType(h, file[value][2]))

PamKey(file, key, h) == PamLine(file, key, ValueAt(file, key), h)

NextLine(file, line) ==
  CASE line.pos = 0 -> line
    [] IsAt(file, line.pos, {Word("ENDHDR")}) ->
         LineOf(0, [line.h EXCEPT !.raster = SkipByte(file, line.pos + 1, Whitespace)])
    [] OTHER -> PamKey(file, SkipWhitespace(file, line.pos), line.h)

\* A line has a token at least.
PamLines(file) ==
  LET after[k \in 0 .. Len(file)] ==
        IF k = 0 THEN LineOf(2, NoLines) ELSE NextLine(file, after[k - 1])
  IN  after[Len(file)].h

HeaderPAM(h, num_channels) ==
  IF h.raster = 0 \/ h.DEPTH # num_channels \/ BitsOfMaxVal(h.MAXVAL) = 0 THEN NoHeader
  ELSE Header(h.WIDTH, h.HEIGHT, h.is_gray, h.has_alpha, BitsOfMaxVal(h.MAXVAL), FALSE, TRUE,
              h.raster)

NumChannels(h) == (IF h.is_gray THEN 1 ELSE 3) + (IF h.has_alpha THEN 1 ELSE 0)

ParseHeaderPAM(lines) == HeaderPAM(lines, NumChannels(lines))

\* "PG ML + 8 2 3\n"
StepsPGX == <<"space", "endianness", "space", "sign", "optional space", "number",
              "single whitespace", "number", "single whitespace", "number", "line break">>

HeaderPGX(file, pos) ==
  IF pos[11] = 0 \/ Taken(file, pos, 6) > 16 \/ Taken(file, pos, 4) = "-" THEN NoHeader
  ELSE Header(Taken(file, pos, 8), Taken(file, pos, 10), TRUE, FALSE, Taken(file, pos, 6), FALSE,
              Taken(file, pos, 2) = "ML", pos[11])

ParseHeader(file) ==
  CASE file[1] = Word("P5") -> HeaderPNM(file, Positions(file, StepsPNM), TRUE)
    [] file[1] = Word("P6") -> HeaderPNM(file, Positions(file, StepsPNM), FALSE)
    [] file[1] = Word("P7") -> ParseHeaderPAM(PamLines(file))
    [] file[1] = Word("PF") -> HeaderPFM(file, Positions(file, StepsPFM), FALSE)
    [] file[1] = Word("Pf") -> HeaderPFM(file, Positions(file, StepsPFM), TRUE)
    [] file[1] = Word("PG") -> HeaderPGX(file, Positions(file, StepsPGX))
    [] OTHER -> NoHeader

-----------------------------------------------------------------------------
(* DecodeImagePNM and DecodeImagePGX, which DecodeBytes tries in turn; the *)
(* signatures tell which is in charge.                                     *)

VerifyDimensions(xs, ys) ==
  /\ xs # 0 /\ ys # 0
  /\ xs <= Constraints.dec_max_xsize /\ ys <= Constraints.dec_max_ysize
  /\ xs * ys <= Constraints.dec_max_pixels

DataType(h) ==
  IF h.floating_point THEN "float" ELSE IF h.bits_per_sample > 8 THEN "uint16" ELSE "uint8"

HeaderFormat(h) ==
  PixelFormat(NumChannels(h), DataType(h),
              IF h.big_endian THEN "big" ELSE "little")

\* The rows of a PFM are stored bottom first.
FlippedRows(pixels, ysize, stride) ==
  [k \in DOMAIN pixels |->
     LET y == (k - 1) \div stride
     IN  pixels[(ysize - 1 - y) * stride + ((k - 1) % stride) + 1]]

\* ApplyColorHints without hints assumes sRGB.
DecodedFile(h, frame, raster) ==
  [NewPackedPixelFile EXCEPT
     !.xsize = h.xsize, !.ysize = h.ysize,
     !.bits_per_sample = h.bits_per_sample,
     !.exponent_bits_per_sample = IF h.floating_point THEN 8 ELSE 0,
     !.alpha_bits = IF h.has_alpha THEN h.bits_per_sample ELSE 0,
     !.num_color_channels = IF h.is_gray THEN 1 ELSE 3,
     !.num_extra_channels = IF h.has_alpha THEN 1 ELSE 0,
     !.color_encoding = CodingOf(h.is_gray, "sRGB"),
     !.frames = <<[frame EXCEPT !.pixels =
        IF h.bits_per_sample = 32
        THEN FlippedRows(SubSeq(raster, 1, Len(frame.pixels)), h.ysize, frame.stride)
        ELSE SubSeq(raster, 1, Len(frame.pixels))]>>]

DecodedRaster(h, frame, raster) ==
  IF Len(raster) < Len(frame.pixels) THEN [status |-> "failed"]
  ELSE [status |-> "ok", ppf |-> DecodedFile(h, frame, raster)]

DecodedHeader(file, h) ==
  IF h.raster = 0 \/ ~VerifyDimensions(h.xsize, h.ysize) \/ h.bits_per_sample = 0
  THEN [status |-> "failed"]
  ELSE DecodedRaster(h, NewPackedFrame(h.xsize, h.ysize, HeaderFormat(h)),
                     SubSeq(file, h.raster, Len(file)))

DecodeBytes(file) ==
  IF file = <<>> THEN [status |-> "failed"] ELSE DecodedHeader(file, ParseHeader(file))

-----------------------------------------------------------------------------
(* Encoders.                                                               *)

VerifyBasicInfo(ppf) ==
  /\ ppf.xsize # 0 /\ ppf.ysize # 0
  /\ ppf.num_color_channels \in {1, 3}
  /\ ppf.alpha_bits > 0 => ppf.alpha_bits = ppf.bits_per_sample
  /\ ppf.orientation = 1

VerifyPackedImage(frame, ppf) ==
  /\ frame.stride = frame.xsize * PixelStride(frame.format)
  /\ Len(frame.pixels) = frame.ysize * frame.stride
  /\ frame.xsize = ppf.xsize /\ frame.ysize = ppf.ysize
  /\ frame.format.num_channels = ppf.num_color_channels + (IF ppf.alpha_bits > 0 THEN 1 ELSE 0)
  /\ ppf.bits_per_sample <= BitsPerChannel(frame.format.data_type)

HeaderSize(frame) == <<NewLine, Number(frame.xsize), Space, Number(frame.ysize), NewLine>>

\* <<>> for a header that cannot be written.
EncodeHeaderPNM(frame, bits) ==
  LET is_gray == frame.format.num_channels <= 2
  IN  CASE frame.format.num_channels \in {2, 4} /\ bits <= 16 ->
             <<Word("P7"), NewLine, Word("WIDTH"), Space, Number(frame.xsize), NewLine,
               Word("HEIGHT"), Space, Number(frame.ysize), NewLine,
               Word("DEPTH"), Space, Number(IF is_gray THEN 2 ELSE 4), NewLine,
               Word("MAXVAL"), Space, Number(2 ^ bits - 1), NewLine,
               Word("TUPLTYPE"), Space, Word(IF is_gray THEN "GRAYSCALE_ALPHA" ELSE "RGB_ALPHA"),
               NewLine, Word("ENDHDR"), NewLine>>
        [] frame.format.num_channels \in {1, 3} /\ bits = 32 ->
             <<Word(IF is_gray THEN "Pf" ELSE "PF")>> \o HeaderSize(frame) \o <<Scale(-1), NewLine>>
        [] frame.format.num_channels \in {1, 3} /\ bits <= 16 ->
             <<Word(IF is_gray THEN "P5" ELSE "P6")>> \o HeaderSize(frame)
               \o <<Number(2 ^ bits - 1), NewLine>>
        [] OTHER -> <<>>

\* Mutant: a PFM gets its rows top first.
EncodeTopFirst(frame, bits) == EncodeHeaderPNM(frame, bits) \o frame.pixels
EncodeImagePNM(frame, bits) ==
  EncodeHeaderPNM(frame, bits)
    \o (IF bits = 32 THEN FlippedRows(frame.pixels, frame.ysize, frame.stride) ELSE frame.pixels)

PNMEncodes(ppf) ==
  /\ VerifyBasicInfo(ppf)
  /\ \A k \in DOMAIN ppf.frames : /\ VerifyPackedImage(ppf.frames[k], ppf)
                                  /\ EncodeHeaderPNM(ppf.frames[k], ppf.bits_per_sample) # <<>>

\* 8 or 16 bits of gray, big-endian.
PGXEncodes(ppf) ==
  /\ VerifyBasicInfo(ppf)
  /\ ppf.alpha_bits = 0 /\ ppf.num_color_channels = 1 /\ ppf.bits_per_sample \in {8, 16}
  /\ \A k \in DOMAIN ppf.frames :
       /\ VerifyPackedImage(ppf.frames[k], ppf)
       /\ ppf.bits_per_sample = BitsPerChannel(ppf.frames[k].format.data_type)
       /\ ~ppf.frames[k].format.float

Encodes(codec, ppf) == IF codec = "PGX" THEN PGXEncodes(ppf) ELSE PNMEncodes(ppf)

SwappedPairs(pixels) ==
  [k \in DOMAIN pixels |-> pixels[IF k % 2 = 1 THEN k + 1 ELSE k - 1]]

EncodeImagePGX(frame, bits) ==
  <<Word("PG"), Space, Word("ML"), Space, Word("+"), Space, Number(bits), Space,
    Number(frame.xsize), Space, Number(frame.ysize), NewLine>>
    \o (IF bits = 16 /\ LittleEndian(frame.format) THEN SwappedPairs(frame.pixels) ELSE frame.pixels)

Bitstreams(codec, ppf) ==
  [k \in DOMAIN ppf.frames |->
     IF codec = "PGX" THEN EncodeImagePGX(ppf.frames[k], ppf.bits_per_sample)
     ELSE EncodeImagePNM(ppf.frames[k], ppf.bits_per_sample)]

-----------------------------------------------------------------------------
(* EncodeToFile: the extension decides on the codec, and on the number of  *)
(* bits the container is for.                                              *)

CodecFromExtension(extension) ==
  CASE extension = ".pgx" -> "PGX"
    [] extension \in {".pam", ".pnm", ".pgm", ".ppm", ".pfm"} -> "PNM"
    [] extension = ".gif" -> "GIF"
    [] OTHER -> "unknown"

BitsForExtension(extension, bits) ==
  IF extension = ".pfm" THEN 32
  ELSE IF CodecFromExtension(extension) = "PNM" /\ bits > 16 THEN 16 ELSE bits

\* num_channels is set by the converter.  Only PFM takes floats, and only in colour.
EncodeFormat(io, codec, bits) ==
  IF codec = "PNM" /\ bits > 16 /\ ~HasAlpha(io.m) /\ ~Main(io).c_current.gray
  THEN PixelFormat(0, "float", "native")
  ELSE PixelFormat(0, IF bits <= 8 THEN "uint8" ELSE "uint16", "big")
=============================================================================
