-------------------------------- MODULE Apng --------------------------------
(***************************************************************************)
(* DecodeImageAPNG (lib/extras/dec/apng.cc): the loop over the chunks of a *)
(* PNG file, which splits an animation into images it hands to libpng one  *)
(* after the other, and then the loop of ApngCompositing over its frames.  *)
(*                                                                         *)
(* The file is chosen chunk by chunk as the loop reads it, so every order  *)
(* of chunks is a behaviour.  A chunk of data delivers any number of rows, *)
(* and may end the compressed stream before all have come: no checksum is  *)
(* looked at, and nothing counts the rows.  (Of an interlaced image a row  *)
(* has come with its first pass.)  All images share one buffer,            *)
(* frameRaw, which is never cleared; a pixel of it is the number of the    *)
(* image that was last written there, 0 if none was.                       *)
(***************************************************************************)
EXTENDS ApngCompositing

CONSTANTS
  FrameRects,   \* bound: the rectangles fcTL chunks ask for
  MaxChunks,    \* bound: chunks after IHDR; those that are neither animation nor
                \* the data of a whole image count twice
  MaxExtras     \* bound: chunks of that kind

ASSUME RectsAssumption == FrameRects \subseteq Rects

VARIABLES
  pc,           \* "chunks", "compositing", "ok", "failed", "aborted"
  read, extras, \* chunks read so far
  hasInfo, isAnimated,
  ctl,          \* x0, y0, w0, h0, dop, bop: of the image being read
  png,          \* the libpng reader: image, size, header chunks seen, rows delivered,
                \* and whether its compressed stream is "none", "open" or "ended"
  frameRaw,     \* the shared buffer
  chunksInfo,   \* number of header chunks to replay for every further image
  frames,
  colour, icc, have_srgb, have_color,
  seen          \* history: the ids read so far

chunkVars == <<pc, read, extras, hasInfo, isAnimated, ctl, png, frameRaw, chunksInfo, frames,
               colour, icc, have_srgb, have_color, seen>>
apngVars == <<chunkVars, compositingVars>>
colourVars == <<colour, icc, have_srgb, have_color>>

SizeOf(r) == <<r.xsize, r.ysize>>

\* A libpng reader for image k after the header chunks it was given.
\* Mutant: the header chunks that were kept are not replayed.
NewReaderWithoutHeader(k, size, header) ==
  [image |-> k, size |-> size, header |-> 0, rows |-> 0, stream |-> "none"]
NewReader(k, size, header) ==
  [image |-> k, size |-> size, header |-> header, rows |-> 0, stream |-> "none"]

\* The default image: no fcTL has said anything else.
DefaultControl == [rect |-> FullRect, dispose_op |-> "NONE", blend_op |-> "SOURCE"]

ColourByDefault == [white |-> "sRGB", primaries |-> "sRGB", transfer |-> "sRGB", intent |-> "any"]

NothingRead ==
  /\ CompositingInit
  /\ read = 0 /\ extras = 0 /\ seen = {}
  /\ hasInfo = FALSE /\ isAnimated = FALSE
  /\ ctl = DefaultControl
  /\ png = NewReader(1, SizeOf(FullRect), 0)
  /\ frameRaw = [p \in Pixels |-> 0]
  /\ chunksInfo = 0
  /\ frames = <<>>
  /\ colour = ColourByDefault /\ icc = FALSE /\ have_srgb = FALSE /\ have_color = FALSE

Init == NothingRead /\ pc = "chunks"

\* The signature or IHDR is not what it must be: the function returns at once.
NotPng == NothingRead /\ pc = "failed"

-----------------------------------------------------------------------------
(* Reading a chunk.  A file that ends, in or after a chunk, and a chunk    *)
(* that claims more than 1 GB both end the loop.                           *)

Reads(id) ==
  /\ pc = "chunks" /\ read + extras < MaxChunks
  /\ read' = read + 1 /\ seen' = seen \cup {id}
  /\ UNCHANGED compositingVars

ReadsExtra(id) == Reads(id) /\ extras < MaxExtras /\ extras' = extras + 1

\* break or return false: errorstate is still set.
Fails == /\ pc' = "failed"
         /\ UNCHANGED <<hasInfo, isAnimated, ctl, png, frameRaw, chunksInfo, frames, colourVars>>

EndOfFile ==
  /\ pc = "chunks" /\ UNCHANGED <<compositingVars, read, extras, seen>> /\ Fails

AnimationControl ==
  /\ Reads("acTL") /\ ~hasInfo /\ ~isAnimated
  /\ isAnimated' = TRUE
  /\ UNCHANGED <<pc, extras, hasInfo, ctl, png, frameRaw, chunksInfo, frames, colourVars>>

-----------------------------------------------------------------------------
(* The end of an image.  libpng refuses a chunk that comes when its stream *)
(* is open still, and IEND also when there was no data; it does not count  *)
(* the rows.  The frame takes a copy of the shared buffer: of its top left *)
(* corner, at the size fcTL asked for.                                     *)

FinishSucceeds == png.stream = "ended"
TakesOtherChunks == png.stream # "open"

Frame == [info |-> ctl, data |-> frameRaw, size |-> png.size, rows |-> png.rows,
          header |-> png.header]

FramesAfterFinish == IF hasInfo THEN Append(frames, Frame) ELSE frames

ImageEnd ==
  /\ Reads("IEND")
  /\ \/ /\ hasInfo => FinishSucceeds
        /\ frames' = FramesAfterFinish
        /\ pc' = "compositing"
        /\ UNCHANGED <<hasInfo, isAnimated, ctl, png, frameRaw, chunksInfo, colourVars>>
     \/ hasInfo /\ ~FinishSucceeds /\ Fails
  /\ UNCHANGED extras

\* A fcTL chunk asks for rectangle r, or breaks a rule: too short, an unknown
\* operation, or a rectangle that is not inside the canvas.  libpng has no
\* images without pixels.
FrameControl ==
  /\ Reads("fcTL") /\ (~hasInfo \/ isAnimated)
  /\ Len(frames) + 1 < MaxFrames
  /\ \/ \E r \in FrameRects, dop \in DisposeOps, bop \in BlendOps :
          /\ hasInfo => FinishSucceeds /\ 0 \notin {r.xsize, r.ysize}
          /\ frames' = FramesAfterFinish
          /\ ctl' = [rect |-> r, dispose_op |-> dop, blend_op |-> bop]
          /\ png' = IF hasInfo THEN NewReader(png.image + 1, SizeOf(r), chunksInfo) ELSE png
          /\ UNCHANGED <<pc, hasInfo, isAnimated, frameRaw, chunksInfo, colourVars>>
     \/ Fails
  /\ UNCHANGED extras

-----------------------------------------------------------------------------
(* Image data.  A chunk delivers the rows up to row n, and may end the     *)
(* stream: it is over, too long, or damaged.  What comes then is ignored.  *)

Delivers(n, stream) ==
  /\ IF png.stream = "ended" THEN n = png.rows /\ stream = "ended"
     ELSE n \in png.rows .. png.size[2] /\ stream \in {"open", "ended"}
  /\ png' = [png EXCEPT !.rows = n, !.stream = stream]
  /\ frameRaw' = [p \in Pixels |->
                    IF p[1] < png.size[1] /\ png.rows <= p[2] /\ p[2] < n THEN png.image
                    ELSE frameRaw[p]]

\* All of an image in one chunk, or in several, or not all.
TakesData ==
  \/ Delivers(png.size[2], "ended") /\ UNCHANGED extras
  \/ /\ extras < MaxExtras /\ extras' = extras + 1
     /\ \E n \in 0 .. Height, stream \in {"open", "ended"} : Delivers(n, stream)

\* The first IDAT ends the header and sizes the buffer.  A later one is more
\* data, but JXL_CHECK aborts when the reader's image is not the canvas.
ImageData ==
  /\ Reads("IDAT")
  /\ \/ /\ png.size # SizeOf(FullRect)
        /\ pc' = "aborted"
        /\ UNCHANGED <<extras, png, frameRaw, hasInfo>>
     \/ /\ png.size = SizeOf(FullRect)
        /\ TakesData
        /\ hasInfo' = TRUE
        /\ UNCHANGED pc
     \/ /\ png.size = SizeOf(FullRect)   \* libpng, VerifyDimensions or the alpha depth
        /\ pc' = "failed"
        /\ UNCHANGED <<extras, png, frameRaw, hasInfo>>
  /\ UNCHANGED <<isAnimated, ctl, chunksInfo, frames, colourVars>>

\* Rows that come before the first IDAT find no buffer: JXL_CHECK in row_fn.
FrameData ==
  /\ Reads("fdAT") /\ isAnimated
  /\ \/ /\ hasInfo
        /\ TakesData
        /\ UNCHANGED pc
     \/ /\ ~hasInfo
        /\ extras < MaxExtras /\ extras' = extras + 1
        /\ \E stream \in {"open", "ended"} : Delivers(0, stream)
        /\ UNCHANGED pc
     \/ /\ pc' \in IF hasInfo THEN {"failed"} ELSE {"failed", "aborted"}
        /\ UNCHANGED <<extras, png, frameRaw>>
  /\ UNCHANGED <<hasInfo, isAnimated, ctl, chunksInfo, frames, colourVars>>

-----------------------------------------------------------------------------
(* Colour.  Each of the chunks may be malformed.                           *)

ColourProfile ==
  /\ ReadsExtra("iCCP")
  /\ \/ \E usable \in BOOLEAN :
          /\ TakesOtherChunks
          /\ icc' = (icc \/ usable)
          /\ have_color' = (have_color \/ usable)
          /\ UNCHANGED <<pc, colour, have_srgb>>
     \/ pc' = "failed" /\ UNCHANGED colourVars
  /\ UNCHANGED <<hasInfo, isAnimated, ctl, png, frameRaw, chunksInfo, frames>>

ColourChunk(id, new) ==
  /\ ReadsExtra(id)
  /\ \/ /\ colour' = new /\ have_color' = TRUE
        /\ have_srgb' = (have_srgb \/ id = "sRGB")
        /\ UNCHANGED <<pc, icc>>
     \/ pc' = "failed" /\ UNCHANGED colourVars
  /\ UNCHANGED <<hasInfo, isAnimated, ctl, png, frameRaw, chunksInfo, frames>>

StandardColour == ColourChunk("sRGB", [colour EXCEPT !.intent = "sRGB"])
Gamma          == ColourChunk("gAMA", [colour EXCEPT !.transfer = "gAMA"])
Chromaticities == ColourChunk("cHRM", [colour EXCEPT !.white = "cHRM", !.primaries = "cHRM"])

-----------------------------------------------------------------------------
(* Every other chunk goes to libpng, animation chunks that are out of      *)
(* place among them.  In the header it is kept for the further images.     *)

OtherChunk ==
  /\ \/ ReadsExtra("other")
     \/ (hasInfo \/ isAnimated) /\ ReadsExtra("acTL")
     \/ hasInfo /\ ~isAnimated /\ ReadsExtra("fcTL")
     \/ ~isAnimated /\ ReadsExtra("fdAT")
  /\ \/ /\ TakesOtherChunks
        /\ chunksInfo' = IF hasInfo THEN chunksInfo ELSE chunksInfo + 1
        /\ png' = IF hasInfo THEN png ELSE [png EXCEPT !.header = @ + 1]
        /\ UNCHANGED <<pc, hasInfo, isAnimated, ctl, frameRaw, frames, colourVars>>
     \/ Fails

\* Exif data is copied; libpng does not see it.
ExifChunk ==
  /\ ReadsExtra("eXIf")
  /\ UNCHANGED <<pc, hasInfo, isAnimated, ctl, png, frameRaw, chunksInfo, frames, colourVars>>

\* A type that is not made of letters.
NotAChunk == ReadsExtra("notAbc") /\ Fails

-----------------------------------------------------------------------------
(* After the loop: what sRGB says wins, and without any colour chunk       *)
(* ApplyColorHints assumes sRGB.  Then the frames.                         *)

AllSRGB == [white |-> "sRGB", primaries |-> "sRGB", transfer |-> "sRGB", intent |-> "sRGB"]

\* Mutant: sRGB does not override what came before or after it.
ColourAsRead == IF have_color THEN colour ELSE [AllSRGB EXCEPT !.intent = colour.intent]
FinalColour == CASE have_srgb -> AllSRGB
                 [] ~have_color -> [AllSRGB EXCEPT !.intent = colour.intent]
                 [] OTHER -> colour

CompositeNext ==
  /\ pc = "compositing" /\ i < Len(frames)
  /\ CompositeFrame(frames[i + 1].info)
  /\ UNCHANGED chunkVars

Finish ==
  /\ pc = "compositing" /\ i = Len(frames)
  /\ pc' = IF frames = <<>> THEN "failed" ELSE "ok"
  /\ colour' = FinalColour
  /\ UNCHANGED <<compositingVars, read, extras, seen, hasInfo, isAnimated, ctl, png, frameRaw,
                 chunksInfo, frames, icc, have_srgb, have_color>>

Next ==
  \/ EndOfFile \/ AnimationControl \/ FrameControl \/ ImageEnd
  \/ ImageData \/ FrameData
  \/ ColourProfile \/ StandardColour \/ Gamma \/ Chromaticities
  \/ OtherChunk \/ ExifChunk \/ NotAChunk
  \/ CompositeNext \/ Finish

Spec == Init /\ [][Next]_apngVars

-----------------------------------------------------------------------------
\* Image f, of a reader or a frame, has written pixel p of the shared buffer.
Wrote(f, p) == p[1] < f.size[1] /\ p[2] < f.rows

\* Image n of the first k was the last to write pixel p; 0 is none.
LastToWrite(fs, k, n, p) ==
  /\ n \in 0 .. k
  /\ n # 0 => Wrote(fs[n], p)
  /\ \A m \in n + 1 .. k : ~Wrote(fs[m], p)

(* A file is decoded only if its IEND was read.  Each frame was decoded at *)
(* its own size by a reader that saw the header chunks the first one saw,  *)
(* and shows the rows that came for it, none that came later; where rows   *)
(* are missing it shows what the last image before it that has such rows   *)
(* left in the shared buffer, for nothing refuses it (apng.cc:452-519).    *)
FramesShowLatestRows ==
  pc = "ok" =>
    /\ {"IDAT", "IEND"} \subseteq seen
    /\ "fcTL" \notin seen => Len(frames) = 1 /\ frames[1].info.rect = FullRect
    /\ \A k \in 1 .. Len(frames) :
         /\ \A p \in Pixels : LastToWrite(frames, k, frames[k].data[p], p)
         /\ frames[k].size = IF k = 1 THEN SizeOf(FullRect) ELSE SizeOf(frames[k].info.rect)
         /\ frames[k].header = frames[1].header

(* The order of the colour chunks does not matter: sRGB overrides gAMA and *)
(* cHRM, each of those says only its own part, and what no chunk says is   *)
(* sRGB (apng.cc:470-475, 628-675).                                        *)
ColourLikePng ==
  pc = "ok" =>
    LET says(id) == id \in seen /\ "sRGB" \notin seen
    IN  /\ colour.transfer = IF says("gAMA") THEN "gAMA" ELSE "sRGB"
        /\ colour.white = IF says("cHRM") THEN "cHRM" ELSE "sRGB"
        /\ colour.primaries = colour.white
        /\ icc => "iCCP" \in seen
=============================================================================
