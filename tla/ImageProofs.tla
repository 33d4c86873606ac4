----------------------------- MODULE ImageProofs -----------------------------
(***************************************************************************)
(* The conversion of animated PNGs is right for canvases of every size and *)
(* animations of every length: the frames the chunk loop hands out are     *)
(* whole, the compositing loop shows what they ask for, and the colours    *)
(* are those the chunks say in any order.                                  *)
(*                                                                         *)
(* A picture of any size stays as it was drawn, whatever is done to it and *)
(* however many threads do it, and the frames packed from it for an        *)
(* encoder show it the way it is to be seen.                               *)
(***************************************************************************)
EXTENDS ImageFiles, TLAPS, SequenceTheorems, FiniteSetTheorems, WellFoundedInduction

-----------------------------------------------------------------------------
(* The second loop.                                                        *)

CompositingInv == CompositingTypeOK /\ ReferenceInv /\ RenderedLikeApng

LEMMA FullRectIsARect == FullRect \in Rects
  BY SizeAssumption DEF FullRect, Rects

(* What contains a rectangle covers its pixels.                            *)
LEMMA EnclosesCovers ==
    ASSUME NEW r \in Rects, NEW q \in Rects, NEW p \in Pixels, Encloses(r, q), Covers(q, p)
    PROVE  Covers(r, p)
<1>1. p[1] \in Int /\ p[2] \in Int
  BY SizeAssumption DEF Pixels
<1>2. /\ r.x0 \in Int /\ r.y0 \in Int /\ r.xsize \in Int /\ r.ysize \in Int
      /\ q.x0 \in Int /\ q.y0 \in Int /\ q.xsize \in Int /\ q.ysize \in Int
  BY SizeAssumption DEF Rects
<1> QED
  BY <1>1, <1>2 DEF Encloses, Covers

(* Leaving the crop out when it is the canvas changes nothing.             *)
DrawnOver(pixels, r, blend, old) ==
  [p \in Pixels |-> IF ~Covers(r, p) THEN old[p]
                    ELSE IF blend THEN old[p] \o pixels[p] ELSE pixels[p]]

LEMMA CropIsTheArea ==
    ASSUME NEW pixels, NEW r, NEW blend, NEW save, NEW old
    PROVE  ShownByJxl(Packed(pixels, r, blend, save), old) = DrawnOver(pixels, r, blend, old)
  BY DEF ShownByJxl, Packed, HaveCrop, DrawnOver

(* A blank frame clears the rectangle it covers.                           *)
LEMMA BlankClears ==
    ASSUME NEW r, NEW old \in [Pixels -> Seq(Nat)]
    PROVE  SavedByJxl(BlankFrame(r), old) = Cleared(r, old)
<1>1. BlankFrame(r).save_as_reference
  BY DEF BlankFrame, Packed
<1>2. ShownByJxl(BlankFrame(r), old) = Cleared(r, old)
  <2>1. ShownByJxl(Packed(Transparent, r, FALSE, TRUE), old)
          = DrawnOver(Transparent, r, FALSE, old)
    BY CropIsTheArea, Zenon
  <2>2. \A p \in Pixels : Transparent[p] = <<>>
    BY DEF Transparent
  <2> QED
    BY <2>1, <2>2 DEF BlankFrame, Cleared, DrawnOver
<1> QED
  BY <1>1, <1>2 DEF SavedByJxl

LEMMA CanvasTypes ==
    ASSUME NEW f \in FrameInfos, NEW k \in Nat, NEW old \in [Pixels -> Seq(Nat)]
    PROVE  /\ Transparent \in [Pixels -> Seq(Nat)]
           /\ Cleared(f.rect, old) \in [Pixels -> Seq(Nat)]
           /\ ShownByApng(f, k, old) \in [Pixels -> Seq(Nat)]
           /\ LeftByApng(f, k, old) \in [Pixels -> Seq(Nat)]
<1>1. <<>> \in Seq(Nat) /\ <<k>> \in Seq(Nat)
  OBVIOUS
<1>2. \A p \in Pixels : old[p] \o <<k>> \in Seq(Nat)
  BY <1>1, ConcatProperties
<1>3. Transparent \in [Pixels -> Seq(Nat)] /\ Cleared(f.rect, old) \in [Pixels -> Seq(Nat)]
  BY <1>1 DEF Transparent, Cleared
<1>4. ShownByApng(f, k, old) \in [Pixels -> Seq(Nat)]
  BY <1>1, <1>2 DEF ShownByApng
<1>5. Cleared(f.rect, ShownByApng(f, k, old)) \in [Pixels -> Seq(Nat)]
  BY <1>1, <1>4 DEF Cleared
<1> QED
  BY <1>3, <1>4, <1>5 DEF LeftByApng, FrameInfos, DisposeOps

(* The reference canvas once a blank frame, if one is needed, is saved.    *)
ReferenceBefore(f) ==
  IF NeedsBlank(f) THEN SavedByJxl(BlankFrame(previous), reference) ELSE reference

(* The heart of the matter: each of the five ways to draw a frame shows    *)
(* what an APNG viewer shows.                                              *)
LEMMA ShownAgree ==
    ASSUME CompositingInv, NEW f \in FrameInfos, NEW k \in Nat
    PROVE  ShownByJxl(PackedOf(f, k), ReferenceBefore(f)) = ShownByApng(f, k, canvas)
<1> DEFINE drawn == ShownByJxl(PackedOf(f, k), ReferenceBefore(f))
<1>1. f.rect \in Rects /\ previous \in Rects /\ f.blend_op \in BlendOps
  BY DEF CompositingInv, CompositingTypeOK, FrameInfos
<1>2. reference \in [Pixels -> Seq(Nat)] /\ canvas \in [Pixels -> Seq(Nat)]
  BY DEF CompositingInv, CompositingTypeOK
<1>3. drawn = DrawnOver(PixelsOfFrame(f, k), Crop(f), ShouldBlend(f), ReferenceBefore(f))
  BY CropIsTheArea, Zenon DEF PackedOf
<1>4. canvas = IF previous_frame_should_be_cleared THEN Cleared(previous, reference) ELSE reference
  BY DEF CompositingInv, ReferenceInv
<1>5. ASSUME ReferenceBefore(f) = canvas, Crop(f) = f.rect, ShouldBlend(f) <=> f.blend_op = "OVER"
      PROVE  drawn = ShownByApng(f, k, canvas)
  BY <1>1, <1>3, <1>5 DEF ShownByApng, PixelsOfFrame, BlendOps, DrawnOver
<1>6. CASE ~previous_frame_should_be_cleared
  BY <1>4, <1>5, <1>6 DEF ReferenceBefore, NeedsBlank, Crop, ShouldBlend
<1>7. CASE NeedsBlank(f)
  <2>1. ReferenceBefore(f) = canvas
    BY <1>2, <1>4, <1>7, BlankClears DEF ReferenceBefore, NeedsBlank
  <2> QED
    BY <1>5, <1>7, <2>1 DEF NeedsBlank, Crop, ShouldBlend
<1>8. ASSUME previous_frame_should_be_cleared, ~NeedsBlank(f)
      PROVE  drawn = ShownByApng(f, k, canvas)
  <2>1. ~ShouldBlend(f) /\ ReferenceBefore(f) = reference
    BY <1>8 DEF ShouldBlend, ReferenceBefore
  <2>2. canvas = [p \in Pixels |-> IF Covers(previous, p) THEN <<>> ELSE reference[p]]
    BY <1>4, <1>8 DEF Cleared
  <2>3. drawn = [p \in Pixels |-> IF ~Covers(Crop(f), p) THEN reference[p]
                                  ELSE IF Covers(f.rect, p) THEN <<k>> ELSE <<>>]
    BY <1>3, <2>1 DEF PixelsOfFrame, DrawnOver
  <2>4. \A p \in Pixels : Covers(f.rect, p) \/ Covers(previous, p) <=> Covers(Crop(f), p)
    BY <1>1, <1>8, EnclosesCovers
    DEF NeedsBlank, Crop, ReplacesPrevious, SameAsPrevious, InsidePrevious
  <2>5. f.blend_op = "SOURCE" \/ \A p \in Pixels : Covers(f.rect, p) => Covers(previous, p)
    BY <1>1, <1>8, EnclosesCovers
    DEF NeedsBlank, ReplacesPrevious, SameAsPrevious, InsidePrevious
  <2>6. <<>> \o <<k>> = <<k>>
    OBVIOUS
  <2>7. ASSUME NEW p \in Pixels PROVE drawn[p] = ShownByApng(f, k, canvas)[p]
    BY <2>2, <2>3, <2>4, <2>5, <2>6 DEF ShownByApng
  <2> HIDE DEF drawn
  <2> QED
    BY <2>3, <2>7 DEF ShownByApng
<1> QED
  BY <1>6, <1>7, <1>8

(* What is saved and what is still to be cleared make up the new canvas.   *)
LEMMA ReferenceKept ==
    ASSUME CompositingInv, NEW f \in FrameInfos, CompositeFrame(f)
    PROVE  ReferenceInv'
<1> DEFINE k == i + 1
           drawn == ShownByApng(f, k, canvas)
<1>1. k \in Nat /\ f.dispose_op \in DisposeOps
  BY DEF CompositingInv, CompositingTypeOK, FrameInfos
<1>2. reference' = IF UseForNextFrame(f) THEN drawn ELSE ReferenceBefore(f)
  BY <1>1, ShownAgree DEF CompositeFrame, ReferenceBefore, SavedByJxl, PackedOf, Packed
<1>3. canvas' = LeftByApng(f, k, canvas) /\ previous' = f.rect
  BY DEF CompositeFrame
<1>4. /\ has_nontrivial_background' = NontrivialWith(f)
      /\ previous_frame_should_be_cleared' = (NontrivialWith(f) /\ f.dispose_op = "BACKGROUND")
  BY DEF CompositeFrame
<1>5. reference \in [Pixels -> Seq(Nat)] /\ canvas \in [Pixels -> Seq(Nat)]
  BY DEF CompositingInv, CompositingTypeOK
<1>6. CASE UseForNextFrame(f)
  BY <1>1, <1>2, <1>3, <1>4, <1>6
  DEF UseForNextFrame, LeftByApng, DisposeOps, ReferenceInv
<1>7. CASE ~NontrivialWith(f)
  <2>1. /\ ~has_nontrivial_background /\ ~previous_frame_should_be_cleared
        /\ canvas = Transparent /\ reference = Transparent
    BY <1>7 DEF NontrivialWith, CompositingInv, ReferenceInv
  <2>2. reference' = Transparent
    BY <1>2, <1>7, <2>1 DEF UseForNextFrame, ReferenceBefore, NeedsBlank
  <2>3. Cleared(f.rect, ShownByApng(f, k, Transparent)) = Transparent
    BY DEF Cleared, ShownByApng, Transparent
  <2>4. canvas' = Transparent
    BY <1>1, <1>3, <1>7, <2>1, <2>3 DEF NontrivialWith, LeftByApng, DisposeOps
  <2> QED
    BY <1>4, <1>7, <2>2, <2>4 DEF ReferenceInv
<1>8. CASE NontrivialWith(f) /\ ~UseForNextFrame(f)
  <2>1. f.dispose_op = "PREVIOUS"
    BY <1>8 DEF UseForNextFrame
  <2>2. canvas' = canvas /\ ~previous_frame_should_be_cleared'
    BY <1>3, <1>4, <2>1 DEF LeftByApng
  <2>3. previous_frame_should_be_cleared => NeedsBlank(f)
    BY <1>8 DEF NeedsBlank, ReplacesPrevious, SameAsPrevious, InsidePrevious
  <2>4. ReferenceBefore(f) = canvas
    BY <1>5, <2>3, BlankClears DEF ReferenceBefore, NeedsBlank, CompositingInv, ReferenceInv
  <2> QED
    BY <1>2, <1>4, <1>8, <2>2, <2>4 DEF ReferenceInv
<1> QED
  BY <1>6, <1>7, <1>8

LEMMA TypeKept ==
    ASSUME CompositingInv, NEW f \in FrameInfos, CompositeFrame(f)
    PROVE  CompositingTypeOK'
<1> DEFINE k == i + 1
<1>1. k \in Nat /\ f.rect \in Rects
  BY DEF CompositingInv, CompositingTypeOK, FrameInfos
<1>2. reference \in [Pixels -> Seq(Nat)] /\ canvas \in [Pixels -> Seq(Nat)]
  BY DEF CompositingInv, CompositingTypeOK
<1>3. shown' = ShownByApng(f, k, canvas) /\ expected' = ShownByApng(f, k, canvas)
  BY <1>1, ShownAgree DEF CompositeFrame, ReferenceBefore
<1>4. canvas' \in [Pixels -> Seq(Nat)] /\ {shown', expected'} \subseteq [Pixels -> Seq(Nat)]
  BY <1>1, <1>2, <1>3, CanvasTypes DEF CompositeFrame
<1>5. ReferenceBefore(f) \in [Pixels -> Seq(Nat)]
  <2>1. Cleared(previous, reference) \in [Pixels -> Seq(Nat)]
    BY <1>2, EmptySeq DEF Cleared
  <2> QED
    BY <1>2, <2>1, BlankClears DEF ReferenceBefore
<1>6. reference' = ReferenceBefore(f) \/ reference' = shown'
  BY DEF CompositeFrame, ReferenceBefore, SavedByJxl
<1>7. reference' \in [Pixels -> Seq(Nat)]
  BY <1>4, <1>5, <1>6
<1> QED
  BY <1>1, <1>4, <1>7 DEF CompositeFrame, CompositingTypeOK, CompositingInv, NontrivialWith

LEMMA CompositingStarts == CompositingInit => CompositingInv
<1> SUFFICES ASSUME CompositingInit PROVE CompositingInv
  OBVIOUS
<1>1. Transparent \in [Pixels -> Seq(Nat)]
  BY EmptySeq DEF Transparent
<1> QED
  BY <1>1, FullRectIsARect
  DEF CompositingInit, CompositingInv, CompositingTypeOK, ReferenceInv, RenderedLikeApng

LEMMA CompositingStep ==
    ASSUME CompositingInv, NEW f \in FrameInfos, CompositeFrame(f)
    PROVE  CompositingInv'
<1>1. RenderedLikeApng'
  BY ShownAgree
  DEF CompositeFrame, ReferenceBefore, RenderedLikeApng, CompositingInv, CompositingTypeOK
<1> QED
  BY <1>1, ReferenceKept, TypeKept DEF CompositingInv

LEMMA CompositingStays ==
    ASSUME CompositingInv, UNCHANGED compositingVars
    PROVE  CompositingInv'
  BY DEF compositingVars, loopVars, viewVars, CompositingInv, CompositingTypeOK, ReferenceInv,
         RenderedLikeApng

(* Every animation is shown as its PNG asks: apng.cc:690-797.              *)
THEOREM AnimationRendered == CompositingSpec => []RenderedLikeApng
<1>1. ASSUME CompositingInv, [CompositingNext]_compositingVars PROVE CompositingInv'
  BY <1>1, CompositingStep, CompositingStays DEF CompositingNext
<1>2. CompositingInv => RenderedLikeApng
  BY DEF CompositingInv
<1> QED
  BY <1>1, <1>2, CompositingStarts, PTL DEF CompositingSpec

-----------------------------------------------------------------------------
(* The first loop: what holds between two chunks.                          *)

Readers == [image : Nat, size : Nat \X Nat, header : Nat, rows : Nat,
            stream : {"none", "open", "ended"}]

DecodedFrames == [info : FrameInfos, data : [Pixels -> Nat], size : Nat \X Nat, rows : Nat,
                  header : Nat]

Colours == [white : {"sRGB", "cHRM"}, primaries : {"sRGB", "cHRM"},
            transfer : {"sRGB", "gAMA"}, intent : {"any", "sRGB"}]

ApngTypeOK ==
    /\ pc \in {"chunks", "compositing", "ok", "failed", "aborted"}
    /\ hasInfo \in BOOLEAN /\ isAnimated \in BOOLEAN
    /\ ctl \in FrameInfos
    /\ png \in Readers
    /\ frameRaw \in [Pixels -> Nat]
    /\ chunksInfo \in Nat
    /\ frames \in Seq(DecodedFrames)
    /\ colour \in Colours
    /\ icc \in BOOLEAN /\ have_srgb \in BOOLEAN /\ have_color \in BOOLEAN
    /\ i \in 0 .. Len(frames)

(* The reader in hand is that of the next frame, at the size the last fcTL *)
(* asked for.  A pixel of the shared buffer is its image's if it has come, *)
(* else that of the last image before it that had such a row.              *)
BufferShows(buffer, fs, reader) ==
    \A p \in Pixels : IF Wrote(reader, p) THEN buffer[p] = reader.image
                      ELSE LastToWrite(fs, Len(fs), buffer[p], p)

ImageInHand ==
    pc = "chunks" =>
        /\ png.header = chunksInfo
        /\ png.image = Len(frames) + 1
        /\ png.size = IF frames = <<>> THEN SizeOf(FullRect) ELSE SizeOf(ctl.rect)
        /\ BufferShows(frameRaw, frames, png)
        /\ hasInfo => "IDAT" \in seen
        /\ ~hasInfo => frames = <<>>
        /\ "fcTL" \notin seen => frames = <<>> /\ ctl = DefaultControl

(* The frames handed out hold what the buffer held when they were finished,*)
(* whatever is in it now, and their readers saw all the chunks kept.       *)
LatestIn(fs) ==
    \A k \in 1 .. Len(fs) :
        /\ \A p \in Pixels : LastToWrite(fs, k, fs[k].data[p], p)
        /\ fs[k].size = IF k = 1 THEN SizeOf(FullRect) ELSE SizeOf(fs[k].info.rect)
        /\ fs[k].header = chunksInfo

FramesHandedOut ==
    pc \in {"chunks", "compositing", "ok"} => LatestIn(frames)

(* Once the loop is left without an error.                                 *)
FileRead ==
    pc \in {"compositing", "ok"} =>
        /\ "IEND" \in seen
        /\ frames # <<>> => "IDAT" \in seen
        /\ "fcTL" \notin seen =>
               Len(frames) <= 1 /\ (frames # <<>> => frames[1].info.rect = FullRect)
        /\ pc = "ok" => frames # <<>>

(* What the colour chunks have said so far, until Finish decides.          *)
ColourSoFar ==
    pc \in {"chunks", "compositing"} =>
        /\ colour.transfer = IF "gAMA" \in seen THEN "gAMA" ELSE "sRGB"
        /\ colour.white = IF "cHRM" \in seen THEN "cHRM" ELSE "sRGB"
        /\ colour.primaries = colour.white
        /\ have_srgb <=> "sRGB" \in seen
        /\ ~have_color => {"sRGB", "gAMA", "cHRM"} \cap seen = {}

ProfileRead == icc => "iCCP" \in seen

ApngInv ==
    /\ ApngTypeOK
    /\ ImageInHand
    /\ FramesHandedOut
    /\ FileRead
    /\ ColourSoFar
    /\ ProfileRead
    /\ ColourLikePng

-----------------------------------------------------------------------------
LEMMA FullRectSize == SizeOf(FullRect) \in Nat \X Nat /\ DefaultControl \in FrameInfos
  BY FullRectIsARect, SizeAssumption
  DEF SizeOf, FullRect, DefaultControl, FrameInfos, DisposeOps, BlendOps

LEMMA ControlSizes ==
    ASSUME NEW r \in Rects
    PROVE  SizeOf(r) \in Nat \X Nat
  BY SizeAssumption DEF SizeOf, Rects

(* Both loops begin with nothing read, also when the file is no PNG.       *)
LEMMA InitApngInv == Init \/ NotPng => ApngInv
<1> SUFFICES ASSUME NothingRead, pc \in {"chunks", "failed"} PROVE ApngInv
  BY DEF Init, NotPng
<1>1. png = NewReader(1, SizeOf(FullRect), chunksInfo) /\ png \in Readers
  BY FullRectSize DEF NothingRead, NewReader, Readers
<1>2. frames = <<>> /\ frames \in Seq(DecodedFrames) /\ Len(frames) = 0
  BY DEF NothingRead
<1>3. ApngTypeOK
  <2>1. colour \in Colours
    BY DEF NothingRead, ColourByDefault, Colours
  <2>2. frameRaw \in [Pixels -> Nat] /\ chunksInfo \in Nat /\ ctl \in FrameInfos
    BY FullRectSize DEF NothingRead
  <2>3. i \in 0..Len(frames)
    BY <1>2 DEF NothingRead, CompositingInit
  <2>4. /\ hasInfo \in BOOLEAN /\ isAnimated \in BOOLEAN /\ icc \in BOOLEAN
        /\ have_srgb \in BOOLEAN /\ have_color \in BOOLEAN
    BY DEF NothingRead
  <2> QED
    BY <1>1, <1>2, <2>1, <2>2, <2>3, <2>4 DEF ApngTypeOK
<1>4. ImageInHand /\ FramesHandedOut /\ FileRead
  <2>1. \A p \in Pixels : ~Wrote(png, p) /\ LastToWrite(<<>>, 0, frameRaw[p], p)
    BY <1>1 DEF NothingRead, NewReader, Wrote, LastToWrite, Pixels
  <2> QED
    BY <1>1, <1>2, <2>1 DEF NothingRead, NewReader, ImageInHand, BufferShows, FramesHandedOut,
                            FileRead, LatestIn
<1>5. ColourSoFar /\ ProfileRead /\ ColourLikePng
  BY DEF NothingRead, ColourByDefault, ColourSoFar, ProfileRead, ColourLikePng
<1> QED
  BY <1>3, <1>4, <1>5 DEF ApngInv

(* After break or return false, or an abort, nothing is promised.          *)
LEMMA Stopped ==
    ASSUME ApngTypeOK', ProfileRead', pc' \in {"failed", "aborted"}
    PROVE  ApngInv'
  BY DEF ApngInv, ImageInHand, FramesHandedOut, FileRead, ColourSoFar, ColourLikePng

LEMMA FailsKeeps ==
    ASSUME ApngInv, Fails, UNCHANGED i, seen' = seen \/ \E id : seen' = seen \cup {id}
    PROVE  ApngInv'
<1>1. ApngTypeOK' /\ ProfileRead' /\ pc' = "failed"
  BY DEF ApngInv, ApngTypeOK, ProfileRead, Fails, colourVars
<1> QED
  BY <1>1, Stopped

(* What a chunk that says nothing of colour leaves of the colours.         *)
LEMMA ColourKept ==
    ASSUME ApngInv, pc = "chunks", pc' \in {"chunks", "compositing"}, UNCHANGED colourVars,
           NEW id \in {"acTL", "fcTL", "IEND", "IDAT", "fdAT", "iCCP", "other", "eXIf"},
           seen' = seen \cup {id}
    PROVE  ColourSoFar' /\ ProfileRead' /\ ColourLikePng'
  BY DEF ApngInv, ColourSoFar, ProfileRead, ColourLikePng, colourVars

(* A finished image becomes a frame that shows what the buffer holds.      *)
LEMMA FinishedFrame ==
    ASSUME ApngInv, pc = "chunks"
    PROVE  /\ FramesAfterFinish \in Seq(DecodedFrames)
           /\ LatestIn(FramesAfterFinish)
           /\ Len(FramesAfterFinish) = IF hasInfo THEN Len(frames) + 1 ELSE 0
           /\ FramesAfterFinish # <<>> <=> hasInfo
           /\ hasInfo => \A p \in Pixels :
                LastToWrite(FramesAfterFinish, Len(FramesAfterFinish), frameRaw[p], p)
           /\ "fcTL" \notin seen /\ hasInfo =>
                Len(FramesAfterFinish) = 1 /\ FramesAfterFinish[1].info.rect = FullRect
<1>1. CASE ~hasInfo
  BY <1>1 DEF FramesAfterFinish, ApngInv, ApngTypeOK, ImageInHand, LatestIn
<1>2. CASE hasInfo
  <2> DEFINE fs == Append(frames, Frame)
  <2>1. FramesAfterFinish = fs
    BY <1>2 DEF FramesAfterFinish
  <2>2. frames \in Seq(DecodedFrames) /\ Frame \in DecodedFrames
    BY DEF ApngInv, ApngTypeOK, Frame, DecodedFrames, Readers
  <2>3. /\ fs \in Seq(DecodedFrames) /\ Len(fs) = Len(frames) + 1 /\ Len(frames) \in Nat
        /\ fs[Len(frames) + 1] = Frame
        /\ \A k \in 1 .. Len(frames) : fs[k] = frames[k]
    BY <2>2
  <2> HIDE DEF fs
  <2>4. /\ Frame.data = frameRaw /\ Frame.header = chunksInfo
        /\ Frame.size = IF frames = <<>> THEN SizeOf(FullRect) ELSE SizeOf(Frame.info.rect)
    BY <1>2 DEF Frame, ApngInv, ImageInHand
  <2>5. frames = <<>> <=> Len(frames) = 0
    BY <2>2
  <2>6. ASSUME NEW p \in Pixels PROVE LastToWrite(fs, Len(fs), frameRaw[p], p)
    <3>1. Wrote(fs[Len(fs)], p) <=> Wrote(png, p)
      BY <2>3 DEF Frame, Wrote
    <3>2. \A m \in 1 .. Len(frames) : Wrote(fs[m], p) <=> Wrote(frames[m], p)
      BY <2>3
    <3>3. CASE Wrote(png, p)
      <4>1. frameRaw[p] = Len(fs)
        BY <2>3, <3>3 DEF ApngInv, ImageInHand, BufferShows
      <4> QED
        BY <2>3, <3>1, <3>3, <4>1 DEF LastToWrite
    <3>4. CASE ~Wrote(png, p)
      <4>1. LastToWrite(frames, Len(frames), frameRaw[p], p)
        BY <3>4 DEF ApngInv, ImageInHand, BufferShows
      <4> QED
        BY <2>3, <3>1, <3>2, <3>4, <4>1 DEF LastToWrite
    <3> QED
      BY <3>3, <3>4
  <2>7. LatestIn(fs)
    <3> SUFFICES ASSUME NEW k \in 1 .. Len(fs)
                 PROVE  /\ \A p \in Pixels : LastToWrite(fs, k, fs[k].data[p], p)
                        /\ fs[k].size = IF k = 1 THEN SizeOf(FullRect)
                                                 ELSE SizeOf(fs[k].info.rect)
                        /\ fs[k].header = chunksInfo
      BY DEF LatestIn
    <3>1. CASE k = Len(frames) + 1
      BY <2>3, <2>4, <2>5, <2>6, <3>1
    <3>2. CASE k \in 1 .. Len(frames)
      <4>1. LatestIn(frames)
        BY DEF ApngInv, FramesHandedOut
      <4>2. ASSUME NEW p \in Pixels PROVE LastToWrite(fs, k, fs[k].data[p], p)
        <5>1. LastToWrite(frames, k, frames[k].data[p], p)
          BY <3>2, <4>1 DEF LatestIn
        <5> QED
          BY <2>3, <3>2, <5>1 DEF LastToWrite
      <4> QED
        BY <2>3, <3>2, <4>1, <4>2 DEF LatestIn
    <3> QED
      BY <2>3, <3>1, <3>2
  <2>8. "fcTL" \notin seen => Len(fs) = 1 /\ fs[1].info.rect = FullRect
    BY <2>3, <2>5 DEF ApngInv, ImageInHand, Frame, DefaultControl
  <2>9. fs # <<>>
    BY <2>3
  <2> QED
    BY <1>2, <2>1, <2>3, <2>6, <2>7, <2>8, <2>9
<1> QED
  BY <1>1, <1>2

LEMMA ImageEndStep ==
    ASSUME ApngInv, ImageEnd
    PROVE  ApngInv'
<1>1. /\ pc = "chunks" /\ seen' = seen \cup {"IEND"} /\ UNCHANGED <<i, extras>>
  BY DEF ImageEnd, Reads, compositingVars, loopVars
<1>2. CASE Fails
  BY <1>1, <1>2, FailsKeeps
<1>3. CASE /\ hasInfo => FinishSucceeds
           /\ frames' = FramesAfterFinish
           /\ pc' = "compositing"
           /\ UNCHANGED <<hasInfo, isAnimated, ctl, png, frameRaw, chunksInfo, colourVars>>
  <2>1. /\ frames' \in Seq(DecodedFrames) /\ Len(frames') >= Len(frames)
        /\ Len(frames) \in Nat /\ Len(frames') \in Nat
    BY <1>1, <1>3, FinishedFrame DEF ApngInv, ApngTypeOK, ImageInHand
  <2>2. ApngTypeOK'
    BY <1>1, <1>3, <2>1 DEF ApngInv, ApngTypeOK, colourVars
  <2>3. FramesHandedOut' /\ ImageInHand'
    BY <1>1, <1>3, FinishedFrame DEF FramesHandedOut, LatestIn, ImageInHand
  <2>4. FileRead'
    <3>1. frames' # <<>> <=> hasInfo
      BY <1>1, <1>3, FinishedFrame
    <3>2. hasInfo => "IDAT" \in seen
      BY <1>1 DEF ApngInv, ImageInHand
    <3>3. "fcTL" \notin seen' => Len(frames') <= 1 /\ (frames' # <<>> => frames'[1].info.rect = FullRect)
      <4>1. CASE hasInfo
        <5>1. "fcTL" \notin seen' => "fcTL" \notin seen
          BY <1>1
        <5>2. "fcTL" \notin seen => Len(frames') = 1 /\ frames'[1].info.rect = FullRect
          BY <1>1, <1>3, <4>1, FinishedFrame, Zenon
        <5>3. 1 <= 1
          OBVIOUS
        <5> QED
          BY <5>1, <5>2, <5>3, Zenon
      <4>2. CASE ~hasInfo
        <5>1. Len(frames') = 0 /\ frames' = <<>>
          BY <1>1, <1>3, <3>1, <4>2, FinishedFrame
        <5> QED
          BY <5>1
      <4> QED
        BY <4>1, <4>2
    <3> QED
      BY <1>1, <1>3, <3>1, <3>2, <3>3 DEF FileRead
  <2>5. ColourSoFar' /\ ProfileRead' /\ ColourLikePng'
    BY <1>1, <1>3, ColourKept
  <2> QED
    BY <2>2, <2>3, <2>4, <2>5 DEF ApngInv
<1> QED
  BY <1>2, <1>3 DEF ImageEnd

LEMMA FrameControlStep ==
    ASSUME ApngInv, FrameControl
    PROVE  ApngInv'
<1>1. /\ pc = "chunks" /\ seen' = seen \cup {"fcTL"} /\ UNCHANGED <<i, extras>>
  BY DEF FrameControl, Reads, compositingVars, loopVars
<1>2. CASE Fails
  BY <1>1, <1>2, FailsKeeps
<1>3. ASSUME NEW r \in FrameRects, NEW dop \in DisposeOps, NEW bop \in BlendOps,
             frames' = FramesAfterFinish,
             ctl' = [rect |-> r, dispose_op |-> dop, blend_op |-> bop],
             png' = IF hasInfo THEN NewReader(png.image + 1, SizeOf(r), chunksInfo) ELSE png,
             UNCHANGED <<pc, hasInfo, isAnimated, frameRaw, chunksInfo, colourVars>>
      PROVE  ApngInv'
  <2>1. /\ frames' \in Seq(DecodedFrames) /\ Len(frames') >= Len(frames)
        /\ Len(frames) \in Nat /\ Len(frames') \in Nat
    BY <1>1, <1>3, FinishedFrame DEF ApngInv, ApngTypeOK, ImageInHand
  <2>2. r \in Rects /\ ctl' \in FrameInfos /\ ctl'.rect = r
    BY <1>3, RectsAssumption DEF FrameInfos
  <2>3. png' \in Readers
    BY <1>3, <2>2, ControlSizes DEF ApngInv, ApngTypeOK, Readers, NewReader
  <2>4. ApngTypeOK'
    BY <1>1, <1>3, <2>1, <2>2, <2>3 DEF ApngInv, ApngTypeOK, colourVars
  <2>5. FramesHandedOut' /\ FileRead'
    BY <1>1, <1>3, FinishedFrame DEF FramesHandedOut, LatestIn, FileRead
  <2>6. ImageInHand'
    <3>1. CASE hasInfo
      <4>1. /\ png'.header = chunksInfo /\ png'.rows = 0 /\ png'.size = SizeOf(r)
            /\ png'.image = png.image + 1
        BY <1>3, <3>1 DEF NewReader
      <4>2. "IDAT" \in seen /\ png.image = Len(frames) + 1
        BY <1>1, <3>1 DEF ApngInv, ImageInHand
      <4>3. Len(frames') = Len(frames) + 1 /\ frames' # <<>>
        BY <1>1, <1>3, <3>1, FinishedFrame
      <4>4. \A p \in Pixels : ~Wrote(png', p)
        BY <4>1 DEF Wrote, Pixels
      <4>5. BufferShows(frameRaw', frames', png')
        BY <1>1, <1>3, <3>1, <4>4, FinishedFrame DEF BufferShows
      <4> QED
        BY <1>1, <1>3, <2>2, <3>1, <4>1, <4>2, <4>3, <4>5 DEF ImageInHand
    <3>2. CASE ~hasInfo
      <4>1. png' = png /\ frames' = frames
        BY <1>3, <3>2 DEF FramesAfterFinish
      <4> QED
        BY <1>1, <1>3, <3>2, <4>1 DEF ApngInv, ImageInHand
    <3> QED
      BY <3>1, <3>2
  <2>7. ColourSoFar' /\ ProfileRead' /\ ColourLikePng'
    BY <1>1, <1>3, ColourKept
  <2> QED
    BY <2>4, <2>5, <2>6, <2>7 DEF ApngInv
<1> QED
  BY <1>2, <1>3 DEF FrameControl

(* Rows that come are the image's, all others stay as they are.            *)
LEMMA DeliversStep ==
    ASSUME ApngInv, pc = "chunks", UNCHANGED frames, NEW n \in Nat,
           NEW stream \in {"open", "ended"}, Delivers(n, stream)
    PROVE  /\ png' \in Readers /\ frameRaw' \in [Pixels -> Nat]
           /\ png'.image = png.image /\ png'.size = png.size /\ png'.header = png.header
           /\ BufferShows(frameRaw', frames', png')
<1>1. png \in Readers /\ frameRaw \in [Pixels -> Nat]
  BY DEF ApngInv, ApngTypeOK
<1>2. /\ png' = [png EXCEPT !.rows = n, !.stream = stream] /\ n >= png.rows
      /\ frameRaw' = [p \in Pixels |->
                        IF p[1] < png.size[1] /\ png.rows <= p[2] /\ p[2] < n THEN png.image
                        ELSE frameRaw[p]]
  BY <1>1 DEF Delivers, Readers
<1>3. /\ png'.image = png.image /\ png'.size = png.size /\ png'.header = png.header
      /\ png'.rows = n /\ png' \in Readers
  BY <1>1, <1>2 DEF Readers
<1>4. frameRaw' \in [Pixels -> Nat]
  BY <1>1, <1>2 DEF Readers
<1>5. ASSUME NEW p \in Pixels
      PROVE  IF Wrote(png', p) THEN frameRaw'[p] = png'.image
             ELSE LastToWrite(frames, Len(frames), frameRaw'[p], p)
  <2>1. p[2] \in Int /\ png.rows \in Nat
    BY <1>1, SizeAssumption DEF Pixels, Readers
  <2>2. IF Wrote(png, p) THEN frameRaw[p] = png.image
        ELSE LastToWrite(frames, Len(frames), frameRaw[p], p)
    BY DEF ApngInv, ImageInHand, BufferShows
  <2>3. CASE p[1] < png.size[1] /\ png.rows <= p[2] /\ p[2] < n
    BY <1>2, <1>3, <2>3 DEF Wrote
  <2>4. CASE ~(p[1] < png.size[1] /\ png.rows <= p[2] /\ p[2] < n)
    <3>1. Wrote(png', p) <=> Wrote(png, p)
      BY <1>2, <1>3, <2>1, <2>4 DEF Wrote
    <3>2. frameRaw'[p] = frameRaw[p]
      BY <1>2, <2>4
    <3> QED
      BY <1>3, <2>2, <3>1, <3>2
  <2> QED
    BY <2>3, <2>4
<1> QED
  BY <1>3, <1>4, <1>5 DEF BufferShows

LEMMA DataStep ==
    ASSUME ApngInv, pc = "chunks", UNCHANGED frames, TakesData
    PROVE  /\ png' \in Readers /\ frameRaw' \in [Pixels -> Nat]
           /\ png'.image = png.image /\ png'.size = png.size /\ png'.header = png.header
           /\ BufferShows(frameRaw', frames', png')
<1>1. PICK n \in Nat, stream \in {"open", "ended"} : Delivers(n, stream)
  BY SizeAssumption DEF TakesData, ApngInv, ApngTypeOK, Readers
<1> QED
  BY <1>1, DeliversStep

LEMMA ImageDataStep ==
    ASSUME ApngInv, ImageData
    PROVE  ApngInv'
<1>1. /\ pc = "chunks" /\ seen' = seen \cup {"IDAT"}
      /\ UNCHANGED <<i, isAnimated, ctl, chunksInfo, frames, colourVars>>
  BY DEF ImageData, Reads, compositingVars, loopVars
<1>2. ASSUME pc' \in {"failed", "aborted"}, UNCHANGED <<png, frameRaw, hasInfo>> PROVE ApngInv'
  <2>1. ApngTypeOK' /\ ProfileRead'
    BY <1>1, <1>2 DEF ApngInv, ApngTypeOK, ProfileRead, colourVars
  <2> QED
    BY <1>2, <2>1, Stopped
<1>3. ASSUME png.size = SizeOf(FullRect), TakesData, hasInfo' = TRUE, UNCHANGED pc
      PROVE  ApngInv'
  <2>1. /\ png' \in Readers /\ frameRaw' \in [Pixels -> Nat]
        /\ png'.image = png.image /\ png'.size = png.size /\ png'.header = png.header
        /\ BufferShows(frameRaw', frames', png')
    BY <1>1, <1>3, DataStep
  <2>2. ApngTypeOK'
    BY <1>1, <1>3, <2>1 DEF ApngInv, ApngTypeOK, colourVars
  <2>3. ImageInHand'
    BY <1>1, <1>3, <2>1 DEF ApngInv, ImageInHand
  <2>4. FramesHandedOut' /\ FileRead'
    BY <1>1, <1>3 DEF ApngInv, FramesHandedOut, LatestIn, FileRead
  <2>5. ColourSoFar' /\ ProfileRead' /\ ColourLikePng'
    BY <1>1, <1>3, ColourKept
  <2> QED
    BY <2>2, <2>3, <2>4, <2>5 DEF ApngInv
<1> QED
  BY <1>2, <1>3 DEF ImageData

LEMMA FrameDataStep ==
    ASSUME ApngInv, FrameData
    PROVE  ApngInv'
<1>1. /\ pc = "chunks" /\ seen' = seen \cup {"fdAT"}
      /\ UNCHANGED <<i, hasInfo, isAnimated, ctl, chunksInfo, frames, colourVars>>
  BY DEF FrameData, Reads, compositingVars, loopVars
<1>2. ASSUME pc' \in {"failed", "aborted"}, UNCHANGED <<png, frameRaw>> PROVE ApngInv'
  <2>1. ApngTypeOK' /\ ProfileRead'
    BY <1>1, <1>2 DEF ApngInv, ApngTypeOK, ProfileRead, colourVars
  <2> QED
    BY <1>2, <2>1, Stopped
<1>3. ASSUME hasInfo, TakesData, UNCHANGED pc
      PROVE  ApngInv'
  <2>1. /\ png' \in Readers /\ frameRaw' \in [Pixels -> Nat]
        /\ png'.image = png.image /\ png'.size = png.size /\ png'.header = png.header
        /\ BufferShows(frameRaw', frames', png')
    BY <1>1, <1>3, DataStep
  <2>2. ApngTypeOK'
    BY <1>1, <1>3, <2>1 DEF ApngInv, ApngTypeOK, colourVars
  <2>3. ImageInHand'
    BY <1>1, <1>3, <2>1 DEF ApngInv, ImageInHand
  <2>4. FramesHandedOut' /\ FileRead'
    BY <1>1, <1>3 DEF ApngInv, FramesHandedOut, LatestIn, FileRead
  <2>5. ColourSoFar' /\ ProfileRead' /\ ColourLikePng'
    BY <1>1, <1>3, ColourKept
  <2> QED
    BY <2>2, <2>3, <2>4, <2>5 DEF ApngInv
<1>4. ASSUME NEW stream \in {"open", "ended"}, Delivers(0, stream), UNCHANGED pc
      PROVE  ApngInv'
  <2>1. /\ png' \in Readers /\ frameRaw' \in [Pixels -> Nat]
        /\ png'.image = png.image /\ png'.size = png.size /\ png'.header = png.header
        /\ BufferShows(frameRaw', frames', png')
    BY <1>1, <1>4, DeliversStep
  <2>2. ApngTypeOK'
    BY <1>1, <1>4, <2>1 DEF ApngInv, ApngTypeOK, colourVars
  <2>3. ImageInHand'
    BY <1>1, <1>4, <2>1 DEF ApngInv, ImageInHand
  <2>4. FramesHandedOut' /\ FileRead'
    BY <1>1, <1>4 DEF ApngInv, FramesHandedOut, LatestIn, FileRead
  <2>5. ColourSoFar' /\ ProfileRead' /\ ColourLikePng'
    BY <1>1, <1>4, ColourKept
  <2> QED
    BY <2>2, <2>3, <2>4, <2>5 DEF ApngInv
<1> QED
  BY <1>2, <1>3, <1>4 DEF FrameData

(* Chunks of colour leave the images alone.                                *)
LEMMA ImagesKept ==
    ASSUME ApngInv, pc = "chunks", UNCHANGED pc, NEW id, seen' = seen \cup {id},
           UNCHANGED <<hasInfo, isAnimated, ctl, png, frameRaw, chunksInfo, frames>>
    PROVE  ImageInHand' /\ FramesHandedOut' /\ FileRead'
  BY DEF ApngInv, ImageInHand, FramesHandedOut, LatestIn, FileRead

LEMMA ColourProfileStep ==
    ASSUME ApngInv, ColourProfile
    PROVE  ApngInv'
<1>1. /\ pc = "chunks" /\ seen' = seen \cup {"iCCP"}
      /\ UNCHANGED <<i, hasInfo, isAnimated, ctl, png, frameRaw, chunksInfo, frames>>
  BY DEF ColourProfile, ReadsExtra, Reads, compositingVars, loopVars
<1>2. CASE pc' = "failed" /\ UNCHANGED colourVars
  <2>1. ApngTypeOK' /\ ProfileRead'
    BY <1>1, <1>2 DEF ApngInv, ApngTypeOK, ProfileRead, colourVars
  <2> QED
    BY <1>2, <2>1, Stopped
<1>3. ASSUME NEW usable \in BOOLEAN, icc' = (icc \/ usable), have_color' = (have_color \/ usable),
             UNCHANGED <<pc, colour, have_srgb>>
      PROVE  ApngInv'
  <2>1. ApngTypeOK'
    BY <1>1, <1>3 DEF ApngInv, ApngTypeOK
  <2>2. ColourSoFar' /\ ProfileRead' /\ ColourLikePng'
    BY <1>1, <1>3 DEF ApngInv, ApngTypeOK, ColourSoFar, ProfileRead, ColourLikePng
  <2> QED
    BY <1>1, <1>3, <2>1, <2>2, ImagesKept DEF ApngInv
<1> QED
  BY <1>2, <1>3 DEF ColourProfile

LEMMA ColourChunkStep ==
    ASSUME ApngInv, StandardColour \/ Gamma \/ Chromaticities
    PROVE  ApngInv'
<1>1. PICK id \in {"sRGB", "gAMA", "cHRM"}, new \in Colours :
        /\ ColourChunk(id, new)
        /\ id = "sRGB" => /\ new.transfer = colour.transfer /\ new.white = colour.white
                          /\ new.primaries = colour.primaries
        /\ id = "gAMA" => /\ new.transfer = "gAMA" /\ new.white = colour.white
                          /\ new.primaries = colour.primaries
        /\ id = "cHRM" => /\ new.transfer = colour.transfer /\ new.white = "cHRM"
                          /\ new.primaries = "cHRM"
  <2>1. colour \in Colours
    BY DEF ApngInv, ApngTypeOK
  <2>2. CASE StandardColour
    <3>1. [colour EXCEPT !.intent = "sRGB"] \in Colours
      BY <2>1 DEF Colours
    <3> QED
      BY <2>1, <2>2, <3>1 DEF StandardColour, Colours
  <2>3. CASE Gamma
    <3>1. [colour EXCEPT !.transfer = "gAMA"] \in Colours
      BY <2>1 DEF Colours
    <3> QED
      BY <2>1, <2>3, <3>1 DEF Gamma, Colours
  <2>4. CASE Chromaticities
    <3>1. [colour EXCEPT !.white = "cHRM", !.primaries = "cHRM"] \in Colours
      BY <2>1 DEF Colours
    <3> QED
      BY <2>1, <2>4, <3>1 DEF Chromaticities, Colours
  <2> QED
    BY <2>2, <2>3, <2>4
<1>2. /\ pc = "chunks" /\ seen' = seen \cup {id}
      /\ UNCHANGED <<i, hasInfo, isAnimated, ctl, png, frameRaw, chunksInfo, frames>>
  BY <1>1 DEF ColourChunk, ReadsExtra, Reads, compositingVars, loopVars
<1>3. CASE pc' = "failed" /\ UNCHANGED colourVars
  <2>1. ApngTypeOK' /\ ProfileRead'
    BY <1>2, <1>3 DEF ApngInv, ApngTypeOK, ProfileRead, colourVars
  <2> QED
    BY <1>3, <2>1, Stopped
<1>4. CASE /\ colour' = new /\ have_color' = TRUE
           /\ have_srgb' = (have_srgb \/ id = "sRGB")
           /\ UNCHANGED <<pc, icc>>
  <2>1. ApngTypeOK'
    BY <1>2, <1>4 DEF ApngInv, ApngTypeOK
  <2>2. ColourSoFar'
    BY <1>1, <1>2, <1>4 DEF ApngInv, ApngTypeOK, ColourSoFar
  <2>3. ProfileRead' /\ ColourLikePng'
    BY <1>2, <1>4 DEF ApngInv, ProfileRead, ColourLikePng
  <2> QED
    BY <1>2, <1>4, <2>1, <2>2, <2>3, ImagesKept DEF ApngInv
<1> QED
  BY <1>1, <1>3, <1>4 DEF ColourChunk

LEMMA OtherChunkStep ==
    ASSUME ApngInv, OtherChunk
    PROVE  ApngInv'
<1>1. PICK id \in {"other", "acTL", "fcTL", "fdAT"} :
        /\ seen' = seen \cup {id} /\ (id = "fcTL" => hasInfo)
  BY DEF OtherChunk, ReadsExtra, Reads
<1>2. pc = "chunks" /\ UNCHANGED i
  BY DEF OtherChunk, ReadsExtra, Reads, compositingVars, loopVars
<1>3. CASE Fails
  BY <1>1, <1>2, <1>3, FailsKeeps
<1>4. CASE /\ chunksInfo' = IF hasInfo THEN chunksInfo ELSE chunksInfo + 1
           /\ png' = IF hasInfo THEN png ELSE [png EXCEPT !.header = @ + 1]
           /\ UNCHANGED <<pc, hasInfo, isAnimated, ctl, frameRaw, frames, colourVars>>
  <2>1. CASE hasInfo
    <3>1. UNCHANGED <<hasInfo, isAnimated, ctl, png, frameRaw, chunksInfo, frames>>
      BY <1>4, <2>1
    <3>2. ApngTypeOK'
      BY <1>2, <1>4, <3>1 DEF ApngInv, ApngTypeOK, colourVars
    <3>3. ColourSoFar' /\ ProfileRead' /\ ColourLikePng'
      BY <1>1, <1>2, <1>4, ColourKept
    <3> QED
      BY <1>1, <1>2, <1>4, <3>1, <3>2, <3>3, ImagesKept DEF ApngInv
  <2>2. CASE ~hasInfo
    <3>1. frames = <<>> /\ png.header = chunksInfo /\ png \in Readers /\ chunksInfo \in Nat
      BY <1>2, <2>2 DEF ApngInv, ApngTypeOK, ImageInHand
    <3>2. png' = [png EXCEPT !.header = @ + 1] /\ frames' = <<>> /\ ~hasInfo'
      BY <1>4, <2>2, <3>1
    <3>3. chunksInfo' \in Nat /\ png' \in Readers /\ png'.header = chunksInfo'
      BY <1>4, <2>2, <3>1, <3>2 DEF Readers
    <3>4. ApngTypeOK'
      BY <1>2, <1>4, <3>3 DEF ApngInv, ApngTypeOK, colourVars
    <3>5. ImageInHand'
      <4>1. png'.image = png.image /\ png'.size = png.size /\ png'.rows = png.rows
        BY <3>1, <3>2 DEF Readers
      <4>2. BufferShows(frameRaw', frames', png')
        BY <1>2, <1>4, <4>1 DEF ApngInv, ImageInHand, BufferShows, Wrote
      <4> QED
        BY <1>1, <1>2, <1>4, <2>2, <3>2, <3>3, <4>1, <4>2 DEF ApngInv, ImageInHand
    <3>6. FramesHandedOut' /\ FileRead'
      BY <1>2, <1>4, <3>2 DEF FramesHandedOut, LatestIn, FileRead
    <3>7. ColourSoFar' /\ ProfileRead' /\ ColourLikePng'
      BY <1>1, <1>2, <1>4, ColourKept
    <3> QED
      BY <3>4, <3>5, <3>6, <3>7 DEF ApngInv
  <2> QED
    BY <2>1, <2>2
<1> QED
  BY <1>3, <1>4 DEF OtherChunk

LEMMA FinishStep ==
    ASSUME ApngInv, Finish
    PROVE  ApngInv'
<1>1. /\ pc = "compositing" /\ colour' = FinalColour
      /\ pc' = IF frames = <<>> THEN "failed" ELSE "ok"
      /\ UNCHANGED <<i, seen, hasInfo, isAnimated, ctl, png, frameRaw, chunksInfo, frames,
                     icc, have_srgb, have_color>>
  BY DEF Finish, compositingVars, loopVars
<1>2. colour \in Colours
  BY DEF ApngInv, ApngTypeOK
<1>3. FinalColour \in Colours
  BY <1>2 DEF FinalColour, AllSRGB, Colours
<1>4. ApngTypeOK'
  BY <1>1, <1>3 DEF ApngInv, ApngTypeOK
<1>5. ImageInHand' /\ FramesHandedOut' /\ FileRead' /\ ColourSoFar' /\ ProfileRead'
  BY <1>1 DEF ApngInv, ImageInHand, FramesHandedOut, LatestIn, FileRead, ColourSoFar, ProfileRead
<1>6. ColourLikePng'
  <2>1. CASE have_srgb
    BY <1>1, <2>1 DEF ApngInv, ColourSoFar, ProfileRead, ColourLikePng, FinalColour, AllSRGB
  <2>2. CASE ~have_srgb /\ ~have_color
    BY <1>1, <2>2 DEF ApngInv, ColourSoFar, ProfileRead, ColourLikePng, FinalColour, AllSRGB
  <2>3. CASE ~have_srgb /\ have_color
    BY <1>1, <2>3 DEF ApngInv, ColourSoFar, ProfileRead, ColourLikePng, FinalColour
  <2> QED
    BY <2>1, <2>2, <2>3
<1> QED
  BY <1>4, <1>5, <1>6 DEF ApngInv

LEMMA ApngInductive ==
    ASSUME ApngInv, [Next]_apngVars
    PROVE  ApngInv'
<1>1. CASE EndOfFile
  BY <1>1, FailsKeeps DEF EndOfFile, compositingVars, loopVars
<1>2. CASE AnimationControl
  <2>1. /\ pc = "chunks" /\ seen' = seen \cup {"acTL"} /\ isAnimated' = TRUE
        /\ UNCHANGED <<pc, i, hasInfo, ctl, png, frameRaw, chunksInfo, frames, colourVars>>
    BY <1>2 DEF AnimationControl, Reads, compositingVars, loopVars
  <2>2. ApngTypeOK'
    BY <2>1 DEF ApngInv, ApngTypeOK, colourVars
  <2>3. ImageInHand' /\ FramesHandedOut' /\ FileRead'
    BY <2>1 DEF ApngInv, ImageInHand, FramesHandedOut, LatestIn, FileRead
  <2> QED
    BY <2>1, <2>2, <2>3, ColourKept DEF ApngInv
<1>3. CASE ExifChunk
  <2>1. /\ pc = "chunks" /\ seen' = seen \cup {"eXIf"}
        /\ UNCHANGED <<pc, i, hasInfo, isAnimated, ctl, png, frameRaw, chunksInfo, frames,
                       colourVars>>
    BY <1>3 DEF ExifChunk, ReadsExtra, Reads, compositingVars, loopVars
  <2>2. ApngTypeOK'
    BY <2>1 DEF ApngInv, ApngTypeOK, colourVars
  <2> QED
    BY <2>1, <2>2, ImagesKept, ColourKept DEF ApngInv
<1>4. CASE NotAChunk
  BY <1>4, FailsKeeps DEF NotAChunk, ReadsExtra, Reads, compositingVars, loopVars
<1>5. CASE CompositeNext
  <2>1. /\ i' = i + 1 /\ i < Len(frames) /\ UNCHANGED chunkVars
    BY <1>5 DEF CompositeNext, CompositeFrame
  <2>2. ApngTypeOK'
    BY <2>1 DEF ApngInv, ApngTypeOK, chunkVars
  <2>3. ImageInHand' /\ FramesHandedOut' /\ FileRead' /\ ColourSoFar' /\ ProfileRead'
        /\ ColourLikePng'
    BY <2>1 DEF ApngInv, chunkVars, ImageInHand, FramesHandedOut, LatestIn, FileRead, ColourSoFar,
                ProfileRead, ColourLikePng
  <2> QED
    BY <2>2, <2>3 DEF ApngInv
<1>6. CASE UNCHANGED apngVars
  BY <1>6 DEF apngVars, chunkVars, compositingVars, loopVars, ApngInv, ApngTypeOK, ImageInHand,
              FramesHandedOut, LatestIn, FileRead, ColourSoFar, ProfileRead, ColourLikePng
<1> QED
  BY <1>1, <1>2, <1>3, <1>4, <1>5, <1>6, ImageEndStep, FrameControlStep, ImageDataStep,
     FrameDataStep, ColourProfileStep, ColourChunkStep, OtherChunkStep, FinishStep
  DEF Next

LEMMA ChunksInvariant == Spec => []ApngInv
<1>1. Init => ApngInv
  BY InitApngInv
<1> QED
  BY <1>1, ApngInductive, PTL DEF Spec

(* apng.cc:452-519: a file in which chunks come in any order, images share *)
(* one buffer and headers are replayed is decoded only when its IEND came, *)
(* and then every pixel of frame k is of the last image up to k for which  *)
(* a row there had come, whatever came later: of image k if it was whole.  *)
THEOREM FramesShowLatest == Spec => []FramesShowLatestRows
<1>1. ApngInv => FramesShowLatestRows
  <2> SUFFICES ASSUME ApngInv, pc = "ok" PROVE FramesShowLatestRows
    BY DEF FramesShowLatestRows
  <2>1. frames # <<>> /\ Len(frames) \in Nat \ {0} /\ LatestIn(frames)
    BY DEF ApngInv, ApngTypeOK, FileRead, FramesHandedOut
  <2>2. frames[1].header = chunksInfo
    BY <2>1 DEF LatestIn
  <2>3. {"IDAT", "IEND"} \subseteq seen
    BY <2>1 DEF ApngInv, FileRead
  <2>4. ASSUME "fcTL" \notin seen PROVE Len(frames) = 1 /\ frames[1].info.rect = FullRect
    <3>1. Len(frames) <= 1
      BY <2>4 DEF ApngInv, FileRead
    <3>2. \A n \in Nat \ {0} : n <= 1 => n = 1
      OBVIOUS
    <3>3. Len(frames) = 1
      BY <2>1, <3>1, <3>2, Zenon
    <3> QED
      BY <2>1, <2>4, <3>3, Zenon DEF ApngInv, FileRead
  <2> QED
    BY <2>1, <2>2, <2>3, <2>4 DEF FramesShowLatestRows, LatestIn
<1> QED
  BY <1>1, ChunksInvariant, PTL

(* apng.cc:470-475, 628-675: the colour of a decoded file does not depend  *)
(* on the order of its colour chunks.                                      *)
THEOREM ColourAsChunksSay == Spec => []ColourLikePng
<1>1. ApngInv => ColourLikePng
  BY DEF ApngInv
<1> QED
  BY <1>1, ChunksInvariant, PTL

(* apng.cc:446-797: the frames the chunk loop hands out are of the kind    *)
(* the compositing loop is right for, so a PNG file's animation, as        *)
(* DecodeImageAPNG reads it, is shown as an APNG viewer shows it.          *)
THEOREM FileRenderedLikeApng == Spec => []RenderedLikeApng
<1>1. Init => CompositingInv
  BY CompositingStarts DEF Init, NothingRead
<1>2. ASSUME CompositingInv, ApngInv, [Next]_apngVars PROVE CompositingInv'
  <2>1. CASE CompositeNext
    <3>1. frames[i + 1].info \in FrameInfos
      <4>1. i + 1 \in 1 .. Len(frames) /\ frames \in Seq(DecodedFrames)
        BY <1>2, <2>1 DEF CompositeNext, ApngInv, ApngTypeOK
      <4>2. frames[i + 1] \in DecodedFrames
        BY <4>1
      <4> QED
        BY <4>2 DEF DecodedFrames
    <3> QED
      BY <1>2, <2>1, <3>1, CompositingStep DEF CompositeNext
  <2>2. CASE UNCHANGED compositingVars
    BY <1>2, <2>2, CompositingStays
  <2> QED
    BY <1>2, <2>1, <2>2
    DEF Next, apngVars, EndOfFile, AnimationControl, FrameControl, ImageEnd, ImageData, FrameData,
        ColourProfile, StandardColour, Gamma, Chromaticities, ColourChunk, OtherChunk, ExifChunk,
        NotAChunk, Finish, ReadsExtra, Reads
<1>3. CompositingInv => RenderedLikeApng
  BY DEF CompositingInv
<1> QED
  BY <1>1, <1>2, <1>3, ChunksInvariant, PTL DEF Spec

-----------------------------------------------------------------------------
(* Samples.                                                                *)

LEMMA InAnotherSpace ==
    ASSUME NEW s, "space" \in DOMAIN s, NEW power, NEW alpha, NEW from, NEW to
    PROVE  InSpace(Multiple(s, power, alpha, from), from, to) = Multiple(s, power, alpha, to)
  BY DEF InSpace, Multiple

Again(of, q, alpha) ==
  [of EXCEPT !.p = @ + q, !.a = IF of.p + q = 0 THEN NoAlpha ELSE <<alpha.n, alpha.d>>]

LEMMA MultipliedAgain ==
    ASSUME NEW s, {"p", "space"} \subseteq DOMAIN s, NEW p \in Int, NEW q \in Int,
           NEW alpha, NEW space
    PROVE  Again(Multiple(s, p, alpha, space), q, alpha) = Multiple(s, p + q, alpha, space)
  BY DEF Again, Multiple

-----------------------------------------------------------------------------
(* Pictures.                                                               *)

LEMMA DrawnSamples ==
    ASSUME NEW picture, IsPicture(picture), NEW y \in 0 .. picture.ysize - 1,
           NEW x \in 0 .. picture.xsize - 1, NEW c \in 0 .. 3
    PROVE  {"p", "space"} \subseteq DOMAIN Drawn(picture, c, x, y)
<1>1. Drawn(picture, c, x, y) \in Samples
  BY DEF IsPicture, Drawn
<1> QED
  BY <1>1 DEF Samples

LEMMA RowMultiplied ==
    ASSUME NEW picture, IsPicture(picture), NEW y \in 0 .. picture.ysize - 1,
           NEW c \in 0 .. 3, NEW p \in Int, NEW q \in Int, NEW space
    PROVE  MultipliedRow(DrawnRow(picture, p, space, c, y), DrawnAlpha(picture)[y], q)
             = DrawnRow(picture, p + q, space, c, y)
<1> DEFINE row == DrawnRow(picture, p, space, c, y)
           alpha == DrawnAlpha(picture)[y]
<1>1. DOMAIN row = 0 .. picture.xsize - 1
  BY DEF DrawnRow
<1>2. \A x \in 0 .. picture.xsize - 1 :
        /\ row[x] = Multiple(Drawn(picture, c, x, y), p, Drawn(picture, 3, x, y), space)
        /\ alpha[x] = Drawn(picture, 3, x, y)
  BY DEF DrawnRow, DrawnAlpha
<1> HIDE DEF row, alpha
<1>3. ASSUME NEW x \in 0 .. picture.xsize - 1
      PROVE  Again(row[x], q, alpha[x])
               = Multiple(Drawn(picture, c, x, y), p + q, Drawn(picture, 3, x, y), space)
  <2>1. {"p", "space"} \subseteq DOMAIN Drawn(picture, c, x, y)
    BY DrawnSamples
  <2> QED
    BY <1>2, <2>1, MultipliedAgain
<1>4. MultipliedRow(row, alpha, q)
        = [x \in 0 .. picture.xsize - 1 |-> Again(row[x], q, alpha[x])]
  BY <1>1 DEF MultipliedRow, Again
<1>5. MultipliedRow(row, alpha, q) = DrawnRow(picture, p + q, space, c, y)
  BY <1>3, <1>4 DEF DrawnRow
<1> QED
  BY <1>5 DEF row, alpha

LEMMA ColorMultiplied ==
    ASSUME NEW picture, IsPicture(picture), NEW p \in Int, NEW q \in Int, NEW space, NEW ib,
           "color" \in DOMAIN ib, ib.color = DrawnColor(picture, p, space)
    PROVE  Multiplied(ib, DrawnAlpha(picture), q)
             = [ib EXCEPT !.color = DrawnColor(picture, p + q, space)]
<1>1. ASSUME NEW c \in 1 .. 3
      PROVE  [y \in DOMAIN ib.color[c] |-> MultipliedRow(ib.color[c][y], DrawnAlpha(picture)[y], q)]
               = [y \in 0 .. picture.ysize - 1 |-> DrawnRow(picture, p + q, space, c - 1, y)]
  <2>1. /\ DOMAIN ib.color[c] = 0 .. picture.ysize - 1
        /\ \A y \in 0 .. picture.ysize - 1 : ib.color[c][y] = DrawnRow(picture, p, space, c - 1, y)
    BY DEF DrawnColor
  <2>2. c - 1 \in 0 .. 3
    OBVIOUS
  <2>3. ASSUME NEW y \in 0 .. picture.ysize - 1
        PROVE  MultipliedRow(ib.color[c][y], DrawnAlpha(picture)[y], q)
                 = DrawnRow(picture, p + q, space, c - 1, y)
    <3>1. MultipliedRow(DrawnRow(picture, p, space, c - 1, y), DrawnAlpha(picture)[y], q)
            = DrawnRow(picture, p + q, space, c - 1, y)
      BY <2>2, RowMultiplied
    <3> QED
      BY <2>1, <3>1
  <2> QED
    BY <2>1, <2>3
<1>2. [c \in 1 .. 3 |->
         [y \in DOMAIN ib.color[c] |-> MultipliedRow(ib.color[c][y], DrawnAlpha(picture)[y], q)]]
        = DrawnColor(picture, p + q, space)
  BY <1>1 DEF DrawnColor
<1> QED
  BY <1>2 DEF Multiplied

(* A row of a picture, transformed, is the row in the other space.         *)
LEMMA RowTransformed ==
    ASSUME NEW picture, IsPicture(picture), NEW y \in 0 .. picture.ysize - 1, NEW p,
           NEW ib, NEW to, ib.c_current.gray = picture.gray,
           ib.color = DrawnColor(picture, p, ib.c_current.space)
    PROVE  \A c \in 1 .. 3 :
             TransformedRow(SourceRow(ib, y), ib.c_current, to)[c]
               = DrawnRow(picture, p, to.space, c - 1, y)
<1> DEFINE from == ib.c_current.space
           rows == SourceRow(ib, y)
<1>1. \A c \in 1 .. 3 : ib.color[c][y] = DrawnRow(picture, p, from, c - 1, y)
  BY DEF DrawnColor
<1>2. ColorChannels(ib.c_current) = IF picture.gray THEN 1 ELSE 3
  BY DEF ColorChannels
<1>3. /\ Len(rows) = IF picture.gray THEN 1 ELSE 3
      /\ \A k \in 1 .. Len(rows) : rows[k] = DrawnRow(picture, p, from, k - 1, y)
  BY <1>1, <1>2 DEF SourceRow
<1> HIDE DEF rows
<1>4. ASSUME NEW c \in 1 .. 3
      PROVE  rows[IF Len(rows) = 1 THEN 1 ELSE c] = DrawnRow(picture, p, from, c - 1, y)
  <2>1. CASE picture.gray
    <3>1. rows[IF Len(rows) = 1 THEN 1 ELSE c] = DrawnRow(picture, p, from, 0, y)
      BY <1>3, <2>1
    <3>2. \A x : Drawn(picture, 0, x, y) = Drawn(picture, c - 1, x, y)
      BY <2>1 DEF Drawn
    <3> QED
      BY <3>1, <3>2 DEF DrawnRow
  <2>2. CASE ~picture.gray
    BY <1>3, <2>2
  <2> QED
    BY <2>1, <2>2
<1>5. ASSUME NEW c \in 1 .. 3
      PROVE  [x \in DOMAIN DrawnRow(picture, p, from, c - 1, y) |->
                InSpace(DrawnRow(picture, p, from, c - 1, y)[x], from, to.space)]
               = DrawnRow(picture, p, to.space, c - 1, y)
  <2>1. /\ DOMAIN DrawnRow(picture, p, from, c - 1, y) = 0 .. picture.xsize - 1
        /\ \A x \in 0 .. picture.xsize - 1 :
             DrawnRow(picture, p, from, c - 1, y)[x]
               = Multiple(Drawn(picture, c - 1, x, y), p, Drawn(picture, 3, x, y), from)
    BY DEF DrawnRow
  <2>2. ASSUME NEW x \in 0 .. picture.xsize - 1
        PROVE  InSpace(DrawnRow(picture, p, from, c - 1, y)[x], from, to.space)
                 = Multiple(Drawn(picture, c - 1, x, y), p, Drawn(picture, 3, x, y), to.space)
    <3>1. "space" \in DOMAIN Drawn(picture, c - 1, x, y)
      BY DrawnSamples
    <3> QED
      BY <2>1, <3>1, InAnotherSpace
  <2> QED
    BY <2>1, <2>2 DEF DrawnRow
<1>6. ASSUME NEW c \in 1 .. 3
      PROVE  TransformedRow(rows, ib.c_current, to)[c]
               = LET row == rows[IF Len(rows) = 1 THEN 1 ELSE c]
                 IN  [x \in DOMAIN row |-> InSpace(row[x], from, to.space)]
  BY DEF TransformedRow
<1> QED
  BY <1>4, <1>5, <1>6 DEF rows

-----------------------------------------------------------------------------
(* Metadata.                                                               *)

(* A set of numbers that is not empty has a least one.                     *)
LEMMA LeastNumber ==
    ASSUME NEW T \in SUBSET Nat, T # {}
    PROVE  \E m \in T : \A n \in T : m <= n
<1> DEFINE Below == {0 .. n : n \in T}
           R == StrictSubsetOrdering(Nat)
<1>1. IsWellFoundedOn(R, FiniteSubsetsOf(Nat))
  BY FS_StrictSubsetOrderingWellFounded
<1>2. Below \subseteq FiniteSubsetsOf(Nat)
  <2>1. \A n \in T : IsFiniteSet(0 .. n) /\ 0 .. n \in SUBSET Nat
    BY FS_Interval
  <2> QED
    BY <2>1 DEF FiniteSubsetsOf
<1>3. Below # {}
  OBVIOUS
<1> HIDE DEF R, Below
<1>4. PICK x \in Below : \A y \in Below : ~(<<y, x>> \in R)
  BY <1>1, <1>2, <1>3, WFMin
<1> USE DEF R, Below
<1>5. PICK m \in T : x = 0 .. m
  BY <1>4
<1>6. ASSUME NEW n \in T, n < m PROVE FALSE
  <2>1. 0 .. n \subseteq 0 .. m /\ m \in 0 .. m /\ m \notin 0 .. n
    BY <1>6
  <2>2. <<0 .. n, 0 .. m>> \in R
    BY <2>1 DEF StrictSubsetOrdering
  <2> QED
    BY <1>4, <1>5, <2>2
<1> QED
  BY <1>6

LEMMA MinIs ==
    ASSUME NEW T \in SUBSET Nat, NEW m \in T, \A n \in T : m <= n
    PROVE  Min(T) = m
<1>1. Min(T) \in T /\ \A n \in T : Min(T) <= n
  BY DEF Min
<1>2. Min(T) \in Nat /\ Min(T) <= m /\ m <= Min(T)
  BY <1>1
<1> QED
  BY <1>2

HasExtraInfos(m) ==
  "extra_channel_info" \in DOMAIN m /\ m.extra_channel_info \in Seq(ExtraInfos)

LEMMA FindFinds ==
    ASSUME NEW m, HasExtraInfos(m), NEW type, Find(m, type) # 0
    PROVE  /\ Find(m, type) \in 1 .. Len(m.extra_channel_info)
           /\ m.extra_channel_info[Find(m, type)].type = type
<1> DEFINE infos == m.extra_channel_info
           I == {g \in 1 .. Len(infos) : infos[g].type = type}
<1>1. Find(m, type) = IF I # {} THEN Min(I) ELSE 0
  BY DEF Find, SelectInSeq
<1>2. I \in SUBSET Nat /\ I # {}
  BY <1>1
<1> HIDE DEF I
<1>3. Min(I) \in I
  BY <1>2, LeastNumber DEF Min
<1> QED
  BY <1>1, <1>2, <1>3 DEF I

WithAssociated(m, associated) ==
  [m EXCEPT !.extra_channel_info[Find(m, "alpha")].alpha_associated = associated]

(* Whether colours are multiplied is one bit, and decides nothing else.    *)
LEMMA AssociatedSet ==
    ASSUME NEW m, HasExtraInfos(m), HasAlpha(m), NEW b \in BOOLEAN
    PROVE  LET n == WithAssociated(m, b)
           IN  /\ HasExtraInfos(n) /\ HasAlpha(n) /\ AlphaIsPremultiplied(n) = b
               /\ Find(n, "alpha") = Find(m, "alpha")
               /\ DOMAIN n = DOMAIN m
               /\ \A field \in DOMAIN m : field # "extra_channel_info" => n[field] = m[field]
<1> DEFINE n == WithAssociated(m, b)
           a == Find(m, "alpha")
           infos == m.extra_channel_info
<1>1. a \in 1 .. Len(infos) /\ infos \in Seq(ExtraInfos) /\ "extra_channel_info" \in DOMAIN m
  BY FindFinds DEF HasAlpha, HasExtraInfos
<1>2. /\ DOMAIN n = DOMAIN m
      /\ n.extra_channel_info = [infos EXCEPT ![a] = [infos[a] EXCEPT !.alpha_associated = b]]
      /\ \A field \in DOMAIN m : field # "extra_channel_info" => n[field] = m[field]
  BY <1>1 DEF WithAssociated
<1> HIDE DEF n
<1>3. infos[a] \in ExtraInfos
  BY <1>1
<1>4. /\ [infos[a] EXCEPT !.alpha_associated = b] \in ExtraInfos
      /\ [infos[a] EXCEPT !.alpha_associated = b].type = infos[a].type
      /\ [infos[a] EXCEPT !.alpha_associated = b].alpha_associated = b
  BY <1>3 DEF ExtraInfos
<1>5. /\ n.extra_channel_info \in Seq(ExtraInfos)
      /\ Len(n.extra_channel_info) = Len(infos)
      /\ \A g \in 1 .. Len(infos) : n.extra_channel_info[g].type = infos[g].type
      /\ n.extra_channel_info[a].alpha_associated = b
  BY <1>1, <1>2, <1>4
<1>6. {g \in 1 .. Len(infos) : n.extra_channel_info[g].type = "alpha"}
        = {g \in 1 .. Len(infos) : infos[g].type = "alpha"}
  BY <1>5
<1>7. Find(n, "alpha") = a
  BY <1>5, <1>6 DEF Find, SelectInSeq
<1>8. HasExtraInfos(n)
  BY <1>1, <1>2, <1>5 DEF HasExtraInfos
<1>9. HasAlpha(n) /\ AlphaIsPremultiplied(n) = b
  BY <1>1, <1>5, <1>7 DEF HasAlpha, AlphaIsPremultiplied
<1> QED
  BY <1>2, <1>7, <1>8, <1>9 DEF n

-----------------------------------------------------------------------------
(* What may be done to a picture.                                          *)

IsBundle(ib) == ib = NewBundle(ib.color, ib.c_current, ib.extra_channels, ib.duration)

IsMetadata(m) ==
  /\ HasExtraInfos(m)
  /\ {"orientation", "bits_per_sample", "color_encoding"} \subseteq DOMAIN m
  /\ m.orientation \in 1 .. 8 /\ m.bits_per_sample \in Nat
  /\ m.color_encoding.space # "alpha"

IsCodecInOut(codec) ==
  /\ codec = [m |-> codec.m, frames |-> codec.frames]
  /\ IsMetadata(codec.m)
  /\ (\E T : codec.frames \in Seq(T)) /\ Len(codec.frames) # 0
  /\ \A k \in 1 .. Len(codec.frames) :
       IsBundle(codec.frames[k]) /\ codec.frames[k].c_current.space # "alpha"

ShowsAll(picture, codec) ==
  IsCodecInOut(codec) /\ \A k \in 1 .. Len(codec.frames) : Shows(picture, codec.m, codec.frames[k])

LEMMA StillShows ==
    ASSUME NEW picture, IsPicture(picture), NEW codec, ShowsAll(picture, codec),
           HasAlpha(codec.m), NEW b \in BOOLEAN, AlphaIsPremultiplied(codec.m) # b,
           NEW power, power = (IF b THEN 1 ELSE -1)
    PROVE  ShowsAll(picture, WithAlphaAssociated(codec, b, power))
<1> DEFINE m == codec.m
           n == WithAssociated(m, b)
           Framed(k) == Multiplied(codec.frames[k], Alpha(m, codec.frames[k]), power)
           fs == [k \in 1 .. Len(codec.frames) |-> Framed(k)]
           after == WithAlphaAssociated(codec, b, power)
<1>1. IsMetadata(m) /\ HasExtraInfos(m) /\ Len(codec.frames) \in Nat \ {0} /\ DOMAIN codec.frames = 1 .. Len(codec.frames)
  BY DEF ShowsAll, IsCodecInOut, IsMetadata
<1>2. /\ IsMetadata(n) /\ HasAlpha(n) /\ AlphaIsPremultiplied(n) = b
      /\ Find(n, "alpha") = Find(m, "alpha")
  BY <1>1, AssociatedSet DEF IsMetadata
<1>3. after = [m |-> n, frames |-> fs]
  <2>1. codec = [m |-> m, frames |-> codec.frames]
    BY DEF ShowsAll, IsCodecInOut
  <2>2. after = [codec EXCEPT !.frames = fs, !.m = n]
    <3>1. after = [codec EXCEPT !.frames = fs, !.m.extra_channel_info[Find(m, "alpha")].alpha_associated = b]
      BY <1>1 DEF WithAlphaAssociated
    <3> HIDE DEF fs
    <3> QED
      BY <2>1, <3>1 DEF WithAssociated
  <2> HIDE DEF after, n, fs, m
  <2> QED
    BY <2>1, <2>2
<1> HIDE DEF n, after
<1>4. Power(picture, n) = Power(picture, m) + power /\ Power(picture, m) \in Int
  BY <1>2 DEF Power, IsPicture, AlphaIsPremultiplied
<1>5. power \in Int
  OBVIOUS
<1>6. ASSUME NEW k \in 1 .. Len(codec.frames)
      PROVE  IsBundle(Framed(k)) /\ Shows(picture, n, Framed(k)) /\ Framed(k).c_current.space # "alpha"
  <2> DEFINE ib == codec.frames[k]
             c == DrawnColor(picture, Power(picture, n), ib.c_current.space)
  <2>1. IsBundle(ib) /\ Shows(picture, m, ib) /\ ib.c_current.space # "alpha"
    BY DEF ShowsAll, IsCodecInOut
  <2>2. Alpha(m, ib) = DrawnAlpha(picture) /\ ib.color = DrawnColor(picture, Power(picture, m), ib.c_current.space)
    BY <2>1 DEF Shows
  <2>3. "color" \in DOMAIN ib
    BY <2>1 DEF IsBundle, NewBundle
  <2> HIDE DEF ib
  <2>4. Multiplied(ib, DrawnAlpha(picture), power) = [ib EXCEPT !.color = c]
    BY <1>4, <1>5, <2>2, <2>3, ColorMultiplied
  <2>5. Framed(k) = [ib EXCEPT !.color = c]
    BY <2>2, <2>4 DEF ib
  <2>6. Framed(k) = NewBundle(c, ib.c_current, ib.extra_channels, ib.duration)
    <3> HIDE DEF c
    <3> QED
      BY <2>1, <2>5 DEF IsBundle, NewBundle
  <2> HIDE DEF Framed
  <2>7. IsBundle(Framed(k))
    BY <2>6 DEF IsBundle, NewBundle
  <2>8. /\ Framed(k).color = c /\ Framed(k).c_current = ib.c_current
        /\ Framed(k).extra_channels = ib.extra_channels
    BY <2>6 DEF NewBundle
  <2>9. Alpha(n, Framed(k)) = Alpha(m, ib)
    BY <1>2, <2>8 DEF Alpha
  <2>10. Shows(picture, n, Framed(k))
    BY <1>2, <2>1, <2>8, <2>9 DEF Shows
  <2> QED
    BY <2>1, <2>7, <2>8, <2>10
<1>7. after.m = n /\ after.frames = fs
  BY <1>3
<1> HIDE DEF Framed
<1>8. /\ fs \in Seq({Framed(k) : k \in 1 .. Len(codec.frames)}) /\ Len(fs) = Len(codec.frames)
      /\ \A k \in 1 .. Len(codec.frames) : fs[k] = Framed(k)
  BY <1>1
<1> HIDE DEF fs
<1>9. IsCodecInOut(after)
  BY <1>1, <1>2, <1>3, <1>6, <1>7, <1>8 DEF IsCodecInOut
<1> QED
  BY <1>6, <1>7, <1>8, <1>9 DEF ShowsAll, after

LEMMA OperationsShow ==
    ASSUME NEW picture, IsPicture(picture), NEW codec, ShowsAll(picture, codec)
    PROVE  /\ ShowsAll(picture, PremultiplyAlpha(codec))
           /\ ShowsAll(picture, UnpremultiplyAlpha(codec))
<1>1. AlphaIsPremultiplied(codec.m) => HasAlpha(codec.m)
  BY DEF AlphaIsPremultiplied
<1>2. CASE HasAlpha(codec.m) /\ AlphaIsPremultiplied(codec.m) = FALSE
  BY <1>2, StillShows DEF PremultiplyAlpha, UnpremultiplyAlpha
<1>3. CASE HasAlpha(codec.m) /\ AlphaIsPremultiplied(codec.m) = TRUE
  BY <1>3, StillShows DEF PremultiplyAlpha, UnpremultiplyAlpha
<1>4. CASE ~HasAlpha(codec.m)
  BY <1>1, <1>4 DEF PremultiplyAlpha, UnpremultiplyAlpha
<1>5. HasAlpha(codec.m) => AlphaIsPremultiplied(codec.m) \in BOOLEAN
  <2> SUFFICES ASSUME HasAlpha(codec.m) PROVE AlphaIsPremultiplied(codec.m) \in BOOLEAN
    OBVIOUS
  <2>1. HasExtraInfos(codec.m)
    BY DEF ShowsAll, IsCodecInOut, IsMetadata
  <2>2. codec.m.extra_channel_info[Find(codec.m, "alpha")] \in ExtraInfos
    BY <2>1, FindFinds DEF HasAlpha, HasExtraInfos
  <2> QED
    BY <2>2 DEF AlphaIsPremultiplied, ExtraInfos
<1> QED
  BY <1>2, <1>3, <1>4, <1>5

-----------------------------------------------------------------------------
(* The rows of a pool.                                                     *)

RowsOK(j) ==
  /\ j.rows \in Nat /\ j.next \in 0 .. j.rows
  /\ j.at \in [PoolThreads -> Int] /\ \A t \in PoolThreads : j.at[t] \in -1 .. j.next - 1
  /\ \A t, u \in PoolThreads : j.at[t] = j.at[u] /\ j.at[t] # -1 => t = u

Handled(j, y) == y < j.next /\ \A t \in PoolThreads : j.at[t] # y

LEMMA PoolStarts ==
    /\ PoolThreads \subseteq DOMAIN NoBuffers
    /\ Idle \in [PoolThreads -> Int] /\ \A t \in PoolThreads : Idle[t] = -1
<1>1. Cardinality(PoolThreads) \in Nat
  BY PoolAssumption, FS_CardinalityType
<1>2. Cardinality(PoolThreads) <= 4 * Cardinality(PoolThreads)
  BY <1>1
<1> QED
  BY <1>1, <1>2, PoolAssumption DEF NoBuffers, Idle

TransformFields ==
  {"kind", "for", "frame", "ib", "target", "rows", "next", "at", "buffers", "ok"}

TransformForm(j) == j.kind = "transform" /\ TransformFields \subseteq DOMAIN j

\* The rows that are done are in the space they go to, the others where they were.
HalfDone(picture, power, j, from) ==
  [c \in 1 .. 3 |-> [y \in 0 .. picture.ysize - 1 |->
     DrawnRow(picture, power, IF Handled(j, y) THEN j.target.space ELSE from, c - 1, y)]]

TransformInv(picture, codec, j) ==
  LET ib == codec.frames[j.frame]
  IN  /\ TransformForm(j) /\ RowsOK(j) /\ j.rows = picture.ysize
      /\ j.frame \in 1 .. Len(codec.frames)
      /\ j.target.gray = picture.gray /\ j.target.space # "alpha"
      /\ j.ok \in BOOLEAN
      /\ PoolThreads \subseteq DOMAIN j.buffers
      /\ IsBundle(j.ib) /\ j.ib.c_current = ib.c_current /\ j.ib.extra_channels = ib.extra_channels
      /\ j.ok =>
           /\ j.ib.color = HalfDone(picture, Power(picture, codec.m), j, ib.c_current.space)
           /\ \A t \in PoolThreads : j.at[t] # -1 => j.buffers[t] = SourceRow(ib, j.at[t])

LEMMA IntervalCardinality == \A n \in Nat \ {0} : Cardinality(0 .. n - 1) = n
<1> SUFFICES ASSUME NEW n \in Nat \ {0} PROVE Cardinality(0 .. n - 1) = n
  OBVIOUS
<1>1. 0 \in Int /\ n - 1 \in Int
  OBVIOUS
<1>2. Cardinality(0 .. n - 1) = IF 0 > n - 1 THEN 0 ELSE (n - 1) - 0 + 1
  BY <1>1, FS_Interval
<1> QED
  BY <1>2

LEMMA SizeOfDrawn ==
    ASSUME NEW picture, IsPicture(picture), NEW m, NEW ib, Shows(picture, m, ib)
    PROVE  XSize(ib) = picture.xsize /\ YSize(ib) = picture.ysize
<1>1. /\ DOMAIN ib.color[1] = 0 .. picture.ysize - 1
      /\ DOMAIN ib.color[1][0] = 0 .. picture.xsize - 1
  BY DEF Shows, DrawnColor, DrawnRow, IsPicture
<1>2. /\ Cardinality(0 .. picture.ysize - 1) = picture.ysize
      /\ Cardinality(0 .. picture.xsize - 1) = picture.xsize
  BY IntervalCardinality DEF IsPicture
<1> QED
  BY <1>1, <1>2 DEF XSize, YSize, Columns, Rows

LEMMA TransformStarts ==
    ASSUME NEW picture, IsPicture(picture), NEW codec, ShowsAll(picture, codec), NEW for,
           NEW frame \in 1 .. Len(codec.frames), NEW to,
           codec.frames[frame].c_current.gray = to.gray, to.space # "alpha"
    PROVE  TransformInv(picture, codec, TransformJob(for, frame, codec.frames[frame], to))
<1> DEFINE ib == codec.frames[frame]
           j == TransformJob(for, frame, ib, to)
<1>1. IsBundle(ib) /\ Shows(picture, codec.m, ib)
  BY DEF ShowsAll, IsCodecInOut
<1>2. YSize(ib) = picture.ysize /\ picture.ysize \in Nat \ {0}
  BY <1>1, SizeOfDrawn DEF IsPicture
<1> HIDE DEF ib
<1>3. /\ TransformForm(j) /\ j.frame = frame /\ j.ib = ib /\ j.target = to /\ j.rows = picture.ysize
      /\ j.next = 0 /\ j.at = Idle /\ j.buffers = NoBuffers /\ j.ok = TRUE
  BY <1>2 DEF TransformJob, TransformForm, TransformFields
<1> HIDE DEF j
<1>4. RowsOK(j)
  BY <1>2, <1>3, PoolStarts DEF RowsOK
<1>5. \A y \in 0 .. picture.ysize - 1 : ~Handled(j, y)
  BY <1>2, <1>3 DEF Handled
<1>6. j.ib.color = HalfDone(picture, Power(picture, codec.m), j, ib.c_current.space)
  BY <1>1, <1>3, <1>5 DEF Shows, DrawnColor, HalfDone
<1>7. to.gray = picture.gray
  BY <1>1 DEF Shows, ib
<1>8. TransformInv(picture, codec, j)
  BY <1>1, <1>3, <1>4, <1>6, <1>7, PoolStarts DEF TransformInv, ib
<1> QED
  BY <1>8 DEF j, ib

LEMMA RowRead ==
    ASSUME NEW picture, IsPicture(picture), NEW codec, ShowsAll(picture, codec),
           NEW j, TransformInv(picture, codec, j), NEW t \in PoolThreads,
           j.at[t] = -1, j.next < j.rows, NEW n,
           n = [j EXCEPT !.next = @ + 1, !.at[t] = j.next,
                         !.buffers[SourceBuffer(t)] = SourceRow(j.ib, j.next)]
    PROVE  TransformInv(picture, codec, n)
<1> DEFINE ib == codec.frames[j.frame]
           y == j.next
<1>1. /\ TransformForm(j) /\ RowsOK(j) /\ j.rows = picture.ysize
      /\ PoolThreads \subseteq DOMAIN j.buffers /\ j.ok \in BOOLEAN
  BY DEF TransformInv
<1>2. /\ TransformForm(n) /\ n.frame = j.frame /\ n.ib = j.ib /\ n.target = j.target
      /\ n.rows = j.rows /\ n.ok = j.ok /\ n.next = j.next + 1
      /\ n.at = [j.at EXCEPT ![t] = y]
      /\ n.buffers = [j.buffers EXCEPT ![t] = SourceRow(j.ib, y)]
  BY <1>1 DEF TransformForm, TransformFields, SourceBuffer
<1>3. RowsOK(n)
  BY <1>1, <1>2 DEF RowsOK
<1>4. y \in 0 .. picture.ysize - 1 /\ ~Handled(j, y)
  BY <1>1 DEF RowsOK, Handled, IsPicture
<1>5. \A r \in 0 .. picture.ysize - 1 : Handled(n, r) = Handled(j, r)
  BY <1>1, <1>2, <1>4 DEF RowsOK, Handled, IsPicture
<1>6. ASSUME j.ok
      PROVE  /\ n.ib.color = HalfDone(picture, Power(picture, codec.m), n, ib.c_current.space)
             /\ \A u \in PoolThreads : n.at[u] # -1 => n.buffers[u] = SourceRow(ib, n.at[u])
  <2>1. /\ j.ib.color = HalfDone(picture, Power(picture, codec.m), j, ib.c_current.space)
        /\ \A u \in PoolThreads : j.at[u] # -1 => j.buffers[u] = SourceRow(ib, j.at[u])
        /\ j.ib.c_current = ib.c_current /\ j.frame \in 1 .. Len(codec.frames)
    BY <1>6 DEF TransformInv
  <2>2. ib.color = DrawnColor(picture, Power(picture, codec.m), ib.c_current.space)
    BY <2>1 DEF ShowsAll, Shows
  <2> HIDE DEF ib
  <2>3. HalfDone(picture, Power(picture, codec.m), n, ib.c_current.space)
          = HalfDone(picture, Power(picture, codec.m), j, ib.c_current.space)
    BY <1>2, <1>5 DEF HalfDone
  <2>4. \A c \in 1 .. 3 : j.ib.color[c][y] = ib.color[c][y]
    BY <1>4, <2>1, <2>2 DEF HalfDone, DrawnColor
  <2>5. SourceRow(j.ib, y) = SourceRow(ib, y)
    BY <2>1, <2>4 DEF SourceRow, ColorChannels
  <2>6. ASSUME NEW u \in PoolThreads, n.at[u] # -1 PROVE n.buffers[u] = SourceRow(ib, n.at[u])
    <3>1. CASE u = t
      BY <1>1, <1>2, <2>5, <3>1 DEF RowsOK
    <3>2. CASE u # t
      BY <1>1, <1>2, <2>1, <2>6, <3>2 DEF RowsOK
    <3> QED
      BY <3>1, <3>2
  <2> QED
    BY <1>2, <2>1, <2>3, <2>6
<1>7. PoolThreads \subseteq DOMAIN n.buffers
  BY <1>1, <1>2
<1> QED
  BY <1>2, <1>3, <1>6, <1>7 DEF TransformInv

LEMMA RowWritten ==
    ASSUME NEW picture, IsPicture(picture), NEW codec, ShowsAll(picture, codec),
           NEW j, TransformInv(picture, codec, j), NEW t \in PoolThreads,
           j.at[t] # -1, NEW n,
           n = [j EXCEPT !.at[t] = -1,
                         !.ib.color = WithRow(@, j.at[t],
                            TransformedRow(j.buffers[SourceBuffer(t)], j.ib.c_current, j.target))]
    PROVE  TransformInv(picture, codec, n)
<1> DEFINE ib == codec.frames[j.frame]
           y == j.at[t]
           rows == TransformedRow(j.buffers[t], j.ib.c_current, j.target)
<1>1. /\ TransformForm(j) /\ RowsOK(j) /\ j.rows = picture.ysize /\ IsBundle(j.ib)
      /\ PoolThreads \subseteq DOMAIN j.buffers /\ j.ok \in BOOLEAN
      /\ j.ib.c_current = ib.c_current /\ j.frame \in 1 .. Len(codec.frames)
  BY DEF TransformInv
<1>2. j.ib = NewBundle(j.ib.color, j.ib.c_current, j.ib.extra_channels, j.ib.duration)
  BY <1>1 DEF IsBundle
<1> HIDE DEF rows
<1>3. /\ TransformForm(n) /\ n.frame = j.frame /\ n.target = j.target
      /\ n.rows = j.rows /\ n.ok = j.ok /\ n.next = j.next /\ n.buffers = j.buffers
      /\ n.at = [j.at EXCEPT ![t] = -1]
      /\ n.ib = [j.ib EXCEPT !.color = WithRow(@, y, rows)]
  <2>1. rows = TransformedRow(j.buffers[SourceBuffer(t)], j.ib.c_current, j.target)
    BY DEF rows, SourceBuffer
  <2>2. n = [j EXCEPT !.at[t] = -1, !.ib.color = WithRow(@, y, rows)]
    BY <2>1
  <2> QED
    BY <1>1, <2>2 DEF TransformForm, TransformFields
<1>4. /\ IsBundle(n.ib) /\ n.ib.c_current = j.ib.c_current
      /\ n.ib.extra_channels = j.ib.extra_channels /\ n.ib.color = WithRow(j.ib.color, y, rows)
  BY <1>2, <1>3 DEF IsBundle, NewBundle
<1>5. RowsOK(n)
  BY <1>1, <1>3 DEF RowsOK
<1>6. y \in 0 .. picture.ysize - 1
  BY <1>1 DEF RowsOK, IsPicture
<1>7. \A r \in 0 .. picture.ysize - 1 : Handled(n, r) = (r = y \/ Handled(j, r))
  <2>1. /\ n.next = j.next /\ j.at \in [PoolThreads -> Int] /\ y < j.next
        /\ \A u \in PoolThreads : n.at[u] = IF u = t THEN -1 ELSE j.at[u]
        /\ \A u \in PoolThreads : j.at[u] = y => u = t
        /\ y # -1 /\ y = j.at[t]
    BY <1>1, <1>3, <1>6 DEF RowsOK
  <2> HIDE DEF y
  <2>2. ASSUME NEW r \in Nat
        PROVE  Handled(n, r) <=> (r = y \/ Handled(j, r))
    BY <2>1 DEF Handled
  <2>3. \A r : Handled(n, r) \in BOOLEAN /\ Handled(j, r) \in BOOLEAN
    BY DEF Handled
  <2>4. \A r \in 0 .. picture.ysize - 1 : r \in Nat
    BY DEF IsPicture
  <2> QED
    BY <2>2, <2>3, <2>4
<1>8. ASSUME j.ok
      PROVE  /\ n.ib.color = HalfDone(picture, Power(picture, codec.m), n, ib.c_current.space)
             /\ \A u \in PoolThreads : n.at[u] # -1 => n.buffers[u] = SourceRow(ib, n.at[u])
  <2>1. /\ j.ib.color = HalfDone(picture, Power(picture, codec.m), j, ib.c_current.space)
        /\ \A u \in PoolThreads : j.at[u] # -1 => j.buffers[u] = SourceRow(ib, j.at[u])
    BY <1>8 DEF TransformInv
  <2>2. Shows(picture, codec.m, ib)
    BY <1>1 DEF ShowsAll
  <2> HIDE DEF ib
  <2>3. rows = TransformedRow(SourceRow(ib, y), ib.c_current, j.target)
    BY <1>1, <2>1 DEF rows
  <2>4. ib.c_current.gray = picture.gray
        /\ ib.color = DrawnColor(picture, Power(picture, codec.m), ib.c_current.space)
    BY <2>2 DEF Shows
  <2>5. \A c \in 1 .. 3 :
          rows[c] = DrawnRow(picture, Power(picture, codec.m), j.target.space, c - 1, y)
    <3> DEFINE power == Power(picture, codec.m)
               to == j.target
    <3>1. ib.color = DrawnColor(picture, power, ib.c_current.space)
      BY <2>4
    <3> HIDE DEF power, to, y
    <3>2. \A c \in 1 .. 3 :
            TransformedRow(SourceRow(ib, y), ib.c_current, to)[c]
              = DrawnRow(picture, power, to.space, c - 1, y)
      BY <1>6, <2>4, <3>1, RowTransformed
    <3> QED
      BY <2>3, <3>2 DEF power, to
  <2>6. WithRow(j.ib.color, y, rows)
          = HalfDone(picture, Power(picture, codec.m), n, ib.c_current.space)
    <3> DEFINE Row(c, r, space) == DrawnRow(picture, Power(picture, codec.m), space, c - 1, r)
    <3>1. WithRow(j.ib.color, y, rows) = [c \in 1 .. 3 |-> [j.ib.color[c] EXCEPT ![y] = rows[c]]]
      BY DEF WithRow
    <3>2. ASSUME NEW c \in 1 .. 3
          PROVE  j.ib.color[c] = [r \in 0 .. picture.ysize - 1 |->
                                    Row(c, r, IF Handled(j, r) THEN j.target.space ELSE ib.c_current.space)]
      BY <2>1 DEF HalfDone
    <3>3. ASSUME NEW c \in 1 .. 3
          PROVE  rows[c] = Row(c, y, j.target.space)
      BY <2>5
    <3>4. HalfDone(picture, Power(picture, codec.m), n, ib.c_current.space)
            = [c \in 1 .. 3 |-> [r \in 0 .. picture.ysize - 1 |->
                 Row(c, r, IF Handled(n, r) THEN j.target.space ELSE ib.c_current.space)]]
      BY <1>3 DEF HalfDone
    <3> HIDE DEF Row
    <3>5. ASSUME NEW c \in 1 .. 3
          PROVE  [j.ib.color[c] EXCEPT ![y] = rows[c]]
                   = [r \in 0 .. picture.ysize - 1 |->
                        Row(c, r, IF Handled(n, r) THEN j.target.space ELSE ib.c_current.space)]
      <4>1. [j.ib.color[c] EXCEPT ![y] = rows[c]]
              = [r \in 0 .. picture.ysize - 1 |->
                   IF r = y THEN Row(c, y, j.target.space)
                   ELSE Row(c, r, IF Handled(j, r) THEN j.target.space ELSE ib.c_current.space)]
        BY <1>6, <3>2, <3>3
      <4>2. ASSUME NEW r \in 0 .. picture.ysize - 1
            PROVE  (IF r = y THEN Row(c, y, j.target.space)
                    ELSE Row(c, r, IF Handled(j, r) THEN j.target.space ELSE ib.c_current.space))
                     = Row(c, r, IF Handled(n, r) THEN j.target.space ELSE ib.c_current.space)
        BY <1>7
      <4> HIDE DEF y
      <4> QED
        BY <4>1, <4>2
    <3> QED
      BY <3>1, <3>4, <3>5
  <2>7. ASSUME NEW u \in PoolThreads, n.at[u] # -1 PROVE n.buffers[u] = SourceRow(ib, n.at[u])
    BY <1>1, <1>3, <2>1, <2>7 DEF RowsOK
  <2> QED
    BY <1>4, <2>6, <2>7
<1> QED
  BY <1>1, <1>3, <1>4, <1>5, <1>8 DEF TransformInv

LEMMA RowFailed ==
    ASSUME NEW picture, NEW codec, NEW j, TransformInv(picture, codec, j), NEW t \in PoolThreads,
           NEW n, n = [j EXCEPT !.at[t] = -1, !.ok = FALSE]
    PROVE  TransformInv(picture, codec, n)
<1>1. TransformForm(j) /\ RowsOK(j)
  BY DEF TransformInv
<1>2. /\ TransformForm(n) /\ n.frame = j.frame /\ n.target = j.target /\ n.ib = j.ib
      /\ n.rows = j.rows /\ n.ok = FALSE /\ n.next = j.next /\ n.buffers = j.buffers
      /\ n.at = [j.at EXCEPT ![t] = -1]
  BY <1>1 DEF TransformForm, TransformFields
<1>3. RowsOK(n)
  BY <1>1, <1>2 DEF RowsOK
<1> QED
  BY <1>2, <1>3 DEF TransformInv

(* When all rows are done the frame is in the space it was to go to.       *)
LEMMA FrameTransformed ==
    ASSUME NEW picture, IsPicture(picture), NEW codec, ShowsAll(picture, codec),
           NEW j, TransformInv(picture, codec, j), j.next = j.rows, j.at = Idle, j.ok
    PROVE  /\ IsBundle([j.ib EXCEPT !.c_current = j.target])
           /\ Shows(picture, codec.m, [j.ib EXCEPT !.c_current = j.target])
           /\ [j.ib EXCEPT !.c_current = j.target].c_current.space # "alpha"
<1> DEFINE ib == codec.frames[j.frame]
           n == [j.ib EXCEPT !.c_current = j.target]
<1>1. /\ RowsOK(j) /\ j.rows = picture.ysize /\ IsBundle(j.ib)
      /\ j.frame \in 1 .. Len(codec.frames) /\ j.target.gray = picture.gray
      /\ j.ib.extra_channels = ib.extra_channels
      /\ j.ib.color = HalfDone(picture, Power(picture, codec.m), j, ib.c_current.space)
      /\ j.target.space # "alpha"
  BY DEF TransformInv
<1>2. Shows(picture, codec.m, ib)
  BY <1>1 DEF ShowsAll
<1> HIDE DEF ib
<1>3. \A y \in 0 .. picture.ysize - 1 : Handled(j, y)
  BY <1>1, PoolStarts DEF Handled, IsPicture
<1>4. j.ib.color = DrawnColor(picture, Power(picture, codec.m), j.target.space)
  BY <1>1, <1>3 DEF HalfDone, DrawnColor
<1>5. /\ IsBundle(n) /\ n.c_current = j.target /\ n.color = j.ib.color
      /\ n.extra_channels = j.ib.extra_channels
  BY <1>1 DEF IsBundle, NewBundle
<1> HIDE DEF n
<1>6. Alpha(codec.m, n) = Alpha(codec.m, ib)
  BY <1>1, <1>5 DEF Alpha
<1>7. Shows(picture, codec.m, n)
  BY <1>1, <1>2, <1>4, <1>5, <1>6 DEF Shows
<1> QED
  BY <1>1, <1>5, <1>7 DEF n

-----------------------------------------------------------------------------
(* Bytes that are loaded.                                                  *)

Levels(bits) == 2 ^ bits

LEMMA LevelsOf ==
    ASSUME NEW bits \in 1 .. 16
    PROVE  /\ Levels(bits) \in Nat /\ 2 <= Levels(bits) /\ Levels(bits) <= 65536
           /\ bits <= 8 => Levels(bits) <= 256
<1>1. CASE bits = 1
  BY <1>1 DEF Levels
<1>2. CASE bits = 2
  BY <1>2 DEF Levels
<1>3. CASE bits = 3
  BY <1>3 DEF Levels
<1>4. CASE bits = 4
  BY <1>4 DEF Levels
<1>5. CASE bits = 5
  BY <1>5 DEF Levels
<1>6. CASE bits = 6
  BY <1>6 DEF Levels
<1>7. CASE bits = 7
  BY <1>7 DEF Levels
<1>8. CASE bits = 8
  BY <1>8 DEF Levels
<1>9. CASE bits = 9
  BY <1>9 DEF Levels
<1>10. CASE bits = 10
  BY <1>10 DEF Levels
<1>11. CASE bits = 11
  BY <1>11 DEF Levels
<1>12. CASE bits = 12
  BY <1>12 DEF Levels
<1>13. CASE bits = 13
  BY <1>13 DEF Levels
<1>14. CASE bits = 14
  BY <1>14 DEF Levels
<1>15. CASE bits = 15
  BY <1>15 DEF Levels
<1>16. CASE bits = 16
  BY <1>16 DEF Levels
<1> QED
  BY <1>1, <1>2, <1>3, <1>4, <1>5, <1>6, <1>7, <1>8, <1>9, <1>10, <1>11, <1>12, <1>13, <1>14, <1>15, <1>16

LEMMA ReverseTwice ==
    ASSUME NEW S, NEW s \in Seq(S)
    PROVE  Reverse(Reverse(s)) = s
  BY DEF Reverse

LEMMA FloatLoaded ==
    ASSUME NEW s, NEW width \in {2, 4}, NEW bits, NEW le \in BOOLEAN
    PROVE  Load(FloatBytes(s, width, le), bits, TRUE, le) = s
<1> DEFINE b == [g \in 1 .. width |-> <<"float", s, width, g>>]
<1>1. /\ b \in Seq({"float"} \X {s} \X {width} \X (1 .. width)) /\ Len(b) = width
      /\ DOMAIN b = 1 .. width
      /\ \A g \in 1 .. width : b[g] = <<"float", s, width, g>>
  OBVIOUS
<1> HIDE DEF b
<1>2. InOrder(InOrder(b, le), le) = b
  BY <1>1, ReverseTwice DEF InOrder
<1>3. LoadFloat(b) = s
  BY <1>1 DEF LoadFloat
<1> QED
  BY <1>2, <1>3 DEF Load, FloatBytes, b

LEMMA UintLoaded ==
    ASSUME NEW bits \in 1 .. 16, NEW k \in 0 .. 2 ^ bits - 1, NEW space, NEW le \in BOOLEAN
    PROVE  Load(UintBytes(k, BytesPerChannel(bits), le, space), bits, FALSE, le)
             = Sample(k, 2 ^ bits - 1, space)
<1> DEFINE width == BytesPerChannel(bits)
           b == IF width = 1 THEN <<UintByte(k % 256, space)>>
                ELSE <<UintByte(k % 256, space), UintByte(k \div 256, space)>>
<1>0. /\ Levels(bits) \in Nat /\ (bits <= 8 => Levels(bits) <= 256)
      /\ k \in 0 .. Levels(bits) - 1
  <2>1. k \in 0 .. Levels(bits) - 1
    BY DEF Levels
  <2> QED
    BY <2>1, LevelsOf
<1>1. k \in Nat /\ (width = 1 => k < 256) /\ width \in {1, 2}
  <2>1. width = (bits + 7) \div 8
    BY DEF BytesPerChannel, RoundUpDiv, kBitsPerByte
  <2> QED
    BY <1>0, <2>1
<1>2. (k % 256) + 256 * (k \div 256) = k /\ (k < 256 => k % 256 = k)
  BY <1>1
<1>3. InOrder(InOrder(b, le), le) = b
  <2>1. b \in Seq({UintByte(k % 256, space), UintByte(k \div 256, space)})
    <3> DEFINE u == UintByte(k % 256, space)
               v == UintByte(k \div 256, space)
    <3>1. b = IF width = 1 THEN <<u>> ELSE <<u, v>>
      OBVIOUS
    <3> HIDE DEF u, v, width, b
    <3>2. <<u>> \in Seq({u, v})
      OBVIOUS
    <3>3. <<u, v>> \in Seq({u, v})
      OBVIOUS
    <3> QED
      BY <3>1, <3>2, <3>3 DEF u, v
  <2> HIDE DEF b
  <2> QED
    BY <2>1, ReverseTwice DEF InOrder
<1>4. LoadUint(b, bits) = Sample(k, 2 ^ bits - 1, space)
  <2>1. CASE width = 1
    <3>1. b = <<UintByte(k, space)>>
      BY <1>1, <1>2, <2>1
    <3> QED
      BY <3>1 DEF LoadUint, UintByte
  <2>2. CASE width # 1
    <3>1. b = <<UintByte(k % 256, space), UintByte(k \div 256, space)>>
      BY <2>2
    <3> QED
      BY <1>2, <3>1 DEF LoadUint, UintByte
  <2> QED
    BY <2>1, <2>2
<1> QED
  BY <1>3, <1>4 DEF Load, UintBytes

LEMMA HeldIsLoaded ==
    ASSUME NEW s, NEW bits, NEW float \in BOOLEAN, NEW le \in BOOLEAN, NEW bytes,
           bits \in IF float THEN {16, 32} ELSE 1 .. 16, Holds(bytes, s, bits, float, le)
    PROVE  Load(bytes, bits, float, le) = s
<1>1. CASE float
  <2>1. BytesPerChannel(bits) \in {2, 4}
    BY <1>1 DEF BytesPerChannel, RoundUpDiv, kBitsPerByte
  <2> QED
    BY <1>1, <2>1, FloatLoaded DEF Holds
<1>2. CASE ~float
  <2>1. PICK k \in 0 .. 2 ^ bits - 1 :
          /\ s = Sample(k, 2 ^ bits - 1, s.space)
          /\ bytes = UintBytes(k, BytesPerChannel(bits), le, s.space)
    BY <1>2 DEF Holds
  <2> QED
    BY <1>2, <2>1, UintLoaded
<1> QED
  BY <1>1, <1>2

LEMMA AsDrawn ==
    ASSUME NEW s \in Samples, NEW alpha
    PROVE  Multiple(s, 0, alpha, s.space) = s
  BY DEF Multiple, Samples

LEMMA PlaneLoaded ==
    ASSUME NEW picture, IsPicture(picture), NEW frame, NEW bits, IsPacked(picture, frame, bits),
           NEW k \in 0 .. StoredChannels(picture) - 1
    PROVE  LoadPlane(frame.pixels, frame.xsize, frame.ysize, frame.format.num_channels, k, bits,
                     frame.format.float, LittleEndian(frame.format), 0)
             = [y \in 0 .. picture.ysize - 1 |-> [x \in 0 .. picture.xsize - 1 |->
                  Drawn(picture, ChannelAt(picture, k), x, y)]]
<1> DEFINE width == BytesPerChannel(bits)
           n == StoredChannels(picture)
           row_size == picture.xsize * n * width
           Bytes(y, x) == SubSeq(frame.pixels, row_size * y + (x * n + k) * width + 1,
                                 row_size * y + (x * n + k) * width + width)
           le == LittleEndian(frame.format)
           float == frame.format.float
<1>1. /\ frame.xsize = picture.xsize /\ frame.ysize = picture.ysize
      /\ frame.format.num_channels = n /\ float \in BOOLEAN
      /\ bits \in IF float THEN {16, 32} ELSE 1 .. 16
  BY DEF IsPacked
<1>2. RowSize(frame.xsize, frame.format.num_channels, bits, 0) = row_size
  BY <1>1 DEF RowSize
<1>3. ASSUME NEW y \in 0 .. picture.ysize - 1, NEW x \in 0 .. picture.xsize - 1
      PROVE  Load(Bytes(y, x), bits, float, le) = Drawn(picture, ChannelAt(picture, k), x, y)
  <2>1. Holds(Bytes(y, x), Drawn(picture, ChannelAt(picture, k), x, y), bits, float, le)
    BY DEF IsPacked, HoldsFrame
  <2>2. le \in BOOLEAN
    BY DEF LittleEndian
  <2> QED
    BY <1>1, <2>1, <2>2, HeldIsLoaded
<1> HIDE DEF le, float
<1>4. LoadPlane(frame.pixels, frame.xsize, frame.ysize, frame.format.num_channels, k, bits,
                float, le, 0)
        = [y \in 0 .. picture.ysize - 1 |-> [x \in 0 .. picture.xsize - 1 |->
             Load(Bytes(y, x), bits, float, le)]]
  BY <1>1, <1>2 DEF LoadPlane
<1> QED
  BY <1>3, <1>4 DEF le, float

(* The metadata of a PackedPixelFile.                                      *)
LEMMA MetadataLoaded ==
    ASSUME NEW picture, IsPicture(picture), NEW packed, Packs(picture, packed),
           AssertsHold(packed)
    PROVE  LET m == ConvertedMetadata(packed)
           IN  /\ IsMetadata(m)
               /\ m.color_encoding = MetadataEncoding(packed)
               /\ HasAlpha(m) = picture.alpha
               /\ AlphaIsPremultiplied(m) = picture.associated
               /\ HasAlpha(m) => Find(m, "alpha") = 1
<1> DEFINE m == ConvertedMetadata(packed)
           infos == m.extra_channel_info
           others == packed.extra_channels_info
           I == {g \in 1 .. Len(infos) : infos[g].type = "alpha"}
<1>1. /\ m.orientation = packed.orientation /\ m.bits_per_sample = packed.bits_per_sample
      /\ m.color_encoding = MetadataEncoding(packed)
      /\ infos = AlphaInfo(packed.alpha_bits, packed.alpha_premultiplied) \o others
      /\ {"orientation", "bits_per_sample", "color_encoding", "extra_channel_info"} \subseteq DOMAIN m
  BY DEF ConvertedMetadata, MetadataOf
<1>2. Find(m, "alpha") = IF I # {} THEN Min(I) ELSE 0
  BY DEF Find, SelectInSeq
<1> HIDE DEF m
<1>3. /\ packed.alpha_bits \in Nat /\ picture.alpha = (packed.alpha_bits # 0)
      /\ packed.alpha_premultiplied = picture.associated /\ picture.associated \in BOOLEAN
      /\ picture.associated => picture.alpha
      /\ others \in Seq(ExtraInfos) /\ packed.bits_per_sample \in Nat
      /\ \A k \in 1 .. Len(others) : others[k].type # "alpha"
  BY DEF Packs, IsPicture
<1>4. packed.orientation \in 1 .. 8
  BY DEF AssertsHold
<1>5. MetadataEncoding(packed).space # "alpha"
  <2>1. 0 \in 0 .. picture.ysize - 1 /\ 0 \in 0 .. picture.xsize - 1 /\ 0 \in 0 .. 2
    BY DEF IsPicture
  <2>2. picture.at[0][0][0].space = MetadataEncoding(packed).space
    BY <2>1 DEF Packs
  <2> QED
    BY <2>1, <2>2 DEF IsPicture
<1>6. CASE packed.alpha_bits = 0
  <2>1. infos = others
    BY <1>1, <1>3, <1>6 DEF AlphaInfo
  <2>2. I = {}
    BY <1>3, <2>1
  <2> QED
    BY <1>1, <1>2, <1>3, <1>4, <1>5, <1>6, <2>1, <2>2
    DEF IsMetadata, HasExtraInfos, HasAlpha, AlphaIsPremultiplied, m
<1>7. CASE packed.alpha_bits # 0
  <2> DEFINE first == ExtraChannelInfo("alpha", packed.alpha_bits, picture.associated)
  <2>1. infos = <<first>> \o others
    BY <1>1, <1>3, <1>7 DEF AlphaInfo
  <2>2. /\ first \in ExtraInfos /\ first.type = "alpha"
        /\ first.alpha_associated = picture.associated
    <3>1. first = [type |-> "alpha", bits_per_sample |-> packed.alpha_bits,
                   alpha_associated |-> picture.associated]
      BY DEF first, ExtraChannelInfo
    <3> HIDE DEF first
    <3> QED
      BY <1>3, <3>1 DEF ExtraInfos, ExtraChannelTypes
  <2> HIDE DEF first
  <2>3. infos \in Seq(ExtraInfos) /\ infos[1] = first /\ 1 \in 1 .. Len(infos)
    BY <1>3, <2>1, <2>2
  <2>4. 1 \in I /\ I \in SUBSET Nat /\ \A g \in I : 1 <= g
    BY <2>2, <2>3
  <2> HIDE DEF I
  <2>5. Min(I) = 1
    BY <2>4, MinIs
  <2>6. Find(m, "alpha") = 1
    BY <1>2, <2>4, <2>5
  <2>7. HasAlpha(m) /\ AlphaIsPremultiplied(m) = first.alpha_associated
    <3>1. HasAlpha(m) /\ (AlphaIsPremultiplied(m) <=> first.alpha_associated)
      BY <2>3, <2>6 DEF HasAlpha, AlphaIsPremultiplied
    <3>2. first.alpha_associated \in BOOLEAN
      BY <1>3, <2>2
    <3>3. AlphaIsPremultiplied(m) \in BOOLEAN
      BY DEF AlphaIsPremultiplied
    <3> QED
      BY <3>1, <3>2, <3>3
  <2>8. IsMetadata(m)
    BY <1>1, <1>3, <1>4, <1>5, <2>3 DEF IsMetadata, HasExtraInfos
  <2>9. HasAlpha(m) = picture.alpha
    BY <1>3, <1>7, <2>7, Zenon DEF HasAlpha
  <2> QED
    BY <1>1, <2>2, <2>6, <2>7, <2>8, <2>9 DEF m
<1> QED
  BY <1>6, <1>7

-----------------------------------------------------------------------------
(* The way of a picture through the library.                               *)

PixelStages ==
  {"elsewhere", "file", "unreadable", "packed in", "picture", "transforming", "packing",
   "packed out", "written", "failed", "aborted"}

Pictured == {"picture", "transforming", "packing", "packed out", "written"}

StoreFields ==
  {"kind", "frame", "target", "for", "bits", "channels", "packed", "rows", "next", "at", "buffers"}

StoreForm(j) == j.kind = "store" /\ StoreFields \subseteq DOMAIN j

PixelInv ==
  /\ stage \in PixelStages
  /\ stage # "elsewhere" => source \in Sources
  /\ stage = "file" => source.file # <<>>
  /\ stage = "packed in" => Packs(source.picture, ppf)
  /\ stage \in Pictured => ShowsAll(source.picture, io)
  /\ stage = "transforming" => TransformInv(source.picture, io, job)
  /\ stage = "packing" =>
       StoreForm(job) /\ job.frame \in 1 .. Len(io.frames) /\ job.target.space # "alpha"
  /\ stage \notin {"transforming", "packing"} => job.kind = "none"



LEMMA PixelInvStarts == PixelInit \/ NoPixelFile => PixelInv
<1>1. CASE PixelInit
  BY <1>1, SourcesAssumption DEF PixelInit, GivenAt, PixelInv, PixelStages, Pictured, NoJob
<1>2. CASE NoPixelFile
  BY <1>2 DEF NoPixelFile, GivenAt, PixelInv, PixelStages, Pictured, NoJob
<1> QED
  BY <1>1, <1>2

LEMMA PictureIs ==
    ASSUME FilesDecode, PixelInv, stage # "elsewhere"
    PROVE  IsPicture(source.picture)
  BY SourcesAssumption DEF PixelInv

LEMMA LoadedShows ==
    ASSUME NEW picture, IsPicture(picture), NEW packed, Packs(picture, packed),
           ConvertPackedPixelFileToCodecInOut(packed).status = "ok"
    PROVE  ShowsAll(picture, ConvertPackedPixelFileToCodecInOut(packed).io)
<1> DEFINE m == ConvertedMetadata(packed)
           fs == [k \in DOMAIN packed.frames |->
                    ConvertPackedFrameToImageBundle(packed, m, packed.frames[k])]
           codec == ConvertPackedPixelFileToCodecInOut(packed).io
<1>1. /\ AssertsHold(packed)
      /\ \A k \in DOMAIN packed.frames : GrayMatchesChannels(m, packed.frames[k])
      /\ codec = [m |-> m, frames |-> fs]
  BY DEF ConvertPackedPixelFileToCodecInOut, ConvertedWith
<1>2. /\ IsMetadata(m) /\ m.color_encoding = MetadataEncoding(packed)
      /\ HasAlpha(m) = picture.alpha /\ AlphaIsPremultiplied(m) = picture.associated
      /\ HasAlpha(m) => Find(m, "alpha") = 1
  BY <1>1, MetadataLoaded
<1>3. DOMAIN packed.frames = 1 .. Len(packed.frames) /\ Len(packed.frames) \in Nat
  BY DEF Packs
<1>4. Len(packed.frames) # 0
  BY <1>1, <1>3 DEF AssertsHold
<1> HIDE DEF m
<1>5. Power(picture, m) = 0
  BY <1>2 DEF Power, IsPicture
<1>6. ASSUME NEW k \in 1 .. Len(packed.frames)
      PROVE  /\ IsBundle(fs[k]) /\ Shows(picture, m, fs[k])
             /\ fs[k].c_current.space # "alpha"
  <2> DEFINE frame == packed.frames[k]
             bits == FrameBits(packed, frame)
             format == [frame.format EXCEPT !.align = 0]
             ib == FromExternal(m, frame, format, bits,
                                IF packed.have_animation THEN frame.duration ELSE 0)
             encoding == m.color_encoding
  <2>1. fs[k] = ib
    BY <1>3 DEF ConvertPackedFrameToImageBundle
  <2>2. IsPacked(picture, frame, bits)
    BY DEF Packs
  <2>3. encoding.gray = picture.gray
    BY <1>1, <1>3, <2>2 DEF GrayMatchesChannels, IsPacked, StoredChannels, ColorsOf, IsPicture
  <2>4. ColorChannels(encoding) = ColorsOf(picture)
    BY <2>3 DEF ColorChannels, ColorsOf
  <2>5. /\ format.num_channels = StoredChannels(picture) /\ format.float = frame.format.float
        /\ LittleEndian(format) = LittleEndian(frame.format) /\ format.align = 0
    BY <2>2 DEF IsPacked, LittleEndian
  <2> HIDE DEF format, bits
  <2>6. /\ ib.c_current = encoding /\ IsBundle(ib)
        /\ ib.color = ColorPlanes(frame.pixels, frame.xsize, frame.ysize, format,
                                  ColorChannels(encoding), bits)
        /\ ib.extra_channels = ExtraChannels(m, frame,
             AlphaPlanes(frame.pixels, frame.xsize, frame.ysize, format, HasAlpha(m), bits))
    BY DEF FromExternal, NewBundle, IsBundle
  <2>7. ASSUME NEW p \in 0 .. StoredChannels(picture) - 1
        PROVE  LoadPlane(frame.pixels, frame.xsize, frame.ysize, format.num_channels, p, bits,
                         format.float, LittleEndian(format), format.align)
                 = [y \in 0 .. picture.ysize - 1 |-> [x \in 0 .. picture.xsize - 1 |->
                      Drawn(picture, ChannelAt(picture, p), x, y)]]
    <3>1. frame.format.num_channels = StoredChannels(picture)
      BY <2>2 DEF IsPacked
    <3> QED
      BY <2>2, <2>5, <3>1, PlaneLoaded
  <2> HIDE DEF ib, frame
  <2>8. ib.color = DrawnColor(picture, 0, encoding.space)
    <3>1. ASSUME NEW c \in 1 .. 3
          PROVE  LoadPlane(frame.pixels, frame.xsize, frame.ysize, format.num_channels,
                           IF ColorChannels(encoding) = 1 THEN 0 ELSE c - 1, bits,
                           format.float, LittleEndian(format), format.align)
                   = [y \in 0 .. picture.ysize - 1 |->
                        DrawnRow(picture, 0, encoding.space, c - 1, y)]
      <4> DEFINE p == IF ColorChannels(encoding) = 1 THEN 0 ELSE c - 1
      <4>1. p \in 0 .. StoredChannels(picture) - 1 /\ ChannelAt(picture, p) = p /\ c - 1 \in 0 .. 2
        BY <2>4 DEF StoredChannels, ColorsOf, ChannelAt, IsPicture
      <4>2. \A x, y : Drawn(picture, p, x, y) = Drawn(picture, c - 1, x, y)
        BY <2>4 DEF Drawn, ColorsOf
      <4>3. ASSUME NEW y \in 0 .. picture.ysize - 1, NEW x \in 0 .. picture.xsize - 1
            PROVE  Drawn(picture, p, x, y)
                     = Multiple(Drawn(picture, c - 1, x, y), 0, Drawn(picture, 3, x, y),
                                encoding.space)
        <5> DEFINE d == IF picture.gray /\ c - 1 < 3 THEN 0 ELSE c - 1
        <5>1. d \in 0 .. 2 /\ d \in 0 .. 3 /\ Drawn(picture, c - 1, x, y) = picture.at[y][x][d]
          BY <4>1 DEF Drawn
        <5> HIDE DEF d
        <5>2. Drawn(picture, c - 1, x, y) \in Samples
          BY <5>1 DEF IsPicture
        <5>3. Drawn(picture, c - 1, x, y).space = encoding.space
          BY <1>2, <5>1 DEF Packs
        <5> QED
          BY <4>2, <5>2, <5>3, AsDrawn
      <4>4. LoadPlane(frame.pixels, frame.xsize, frame.ysize, format.num_channels, p, bits,
                      format.float, LittleEndian(format), format.align)
              = [y \in 0 .. picture.ysize - 1 |-> [x \in 0 .. picture.xsize - 1 |->
                   Drawn(picture, p, x, y)]]
        BY <2>7, <4>1
      <4> HIDE DEF p
      <4>5. [y \in 0 .. picture.ysize - 1 |-> [x \in 0 .. picture.xsize - 1 |->
               Drawn(picture, p, x, y)]]
              = [y \in 0 .. picture.ysize - 1 |-> DrawnRow(picture, 0, encoding.space, c - 1, y)]
        BY <4>3 DEF DrawnRow
      <4> QED
        BY <4>4, <4>5 DEF p
    <3> QED
      BY <2>6, <3>1 DEF ColorPlanes, DrawnColor
  <2>9. ASSUME HasAlpha(m) PROVE Alpha(m, ib) = DrawnAlpha(picture)
    <3> DEFINE n == StoredChannels(picture)
               plane == LoadPlane(frame.pixels, frame.xsize, frame.ysize, format.num_channels,
                                  n - 1, bits, format.float, LittleEndian(format), format.align)
    <3>1. /\ n \in {2, 4} /\ n - 1 \in 0 .. n - 1 /\ ChannelAt(picture, n - 1) = 3
          /\ frame.extra_channels = <<>>
      BY <1>2, <2>2, <2>9 DEF StoredChannels, ColorsOf, ChannelAt, IsPacked, frame
    <3>2. plane = DrawnAlpha(picture)
      BY <2>7, <3>1 DEF DrawnAlpha
    <3> HIDE DEF n
    <3>3. AlphaPlanes(frame.pixels, frame.xsize, frame.ysize, format, HasAlpha(m), bits) = <<plane>>
      BY <2>5, <2>9, <3>1 DEF AlphaPlanes, n
    <3> HIDE DEF plane
    <3>4. 1 \in DOMAIN m.extra_channel_info
      BY <1>2, <2>9, FindFinds DEF IsMetadata, HasExtraInfos, HasAlpha
    <3>5. ib.extra_channels[1] = plane
      BY <2>6, <3>1, <3>3, <3>4 DEF ExtraChannels
    <3> QED
      BY <1>2, <2>9, <3>2, <3>5 DEF Alpha
  <2> QED
    BY <1>2, <1>5, <2>1, <2>3, <2>6, <2>8, <2>9 DEF Shows, IsMetadata
<1>7. /\ codec.m = m /\ codec.frames = fs
  BY <1>1
<1>8. fs \in Seq({fs[k] : k \in 1 .. Len(packed.frames)}) /\ Len(fs) = Len(packed.frames)
  BY <1>3
<1> HIDE DEF fs, codec
<1>9. IsCodecInOut(codec)
  BY <1>1, <1>2, <1>4, <1>6, <1>7, <1>8 DEF IsCodecInOut
<1> QED
  BY <1>6, <1>7, <1>8, <1>9 DEF ShowsAll, codec

LEMMA LoadStep ==
    ASSUME FilesDecode, PixelInv, Read \/ Convert
    PROVE  PixelInv'
<1>1. CASE Read
  <2>1. /\ stage = "file" /\ source \in Sources /\ source.file # <<>> /\ job.kind = "none"
        /\ source' = source /\ job' = job
    BY <1>1 DEF Read, PixelInv
  <2>2. \/ /\ stage' = "packed in" /\ ppf' = DecodeBytes(source.file).ppf
           /\ DecodeBytes(source.file).status = "ok"
        \/ stage' = "unreadable"
    BY <1>1 DEF Read, ReadAs
  <2> QED
    BY <2>1, <2>2 DEF FilesDecode, PixelInv, PixelStages, Pictured
<1>2. CASE Convert
  <2> DEFINE loaded == ConvertPackedPixelFileToCodecInOut(ppf)
  <2>1. /\ stage = "packed in" /\ source \in Sources /\ job.kind = "none"
        /\ Packs(source.picture, ppf) /\ source' = source /\ job' = job
    BY <1>2 DEF Convert, PixelInv
  <2>2. \/ stage' = "picture" /\ io' = loaded.io /\ loaded.status = "ok"
        \/ stage' = loaded.status /\ loaded.status # "ok"
    BY <1>2, <2>1 DEF Convert, ConvertedTo
  <2>3. loaded.status \in {"ok", "failed", "aborted"}
    BY DEF ConvertPackedPixelFileToCodecInOut, ConvertedWith
  <2>4. loaded.status = "ok" => ShowsAll(source.picture, loaded.io)
    BY <2>1, PictureIs, LoadedShows
  <2> HIDE DEF loaded
  <2> QED
    BY <2>1, <2>2, <2>3, <2>4 DEF PixelInv, PixelStages, Pictured
<1> QED
  BY <1>1, <1>2

LEMMA OperateStep ==
    ASSUME FilesDecode, PixelInv, Premultiply \/ Unpremultiply
    PROVE  PixelInv'
<1>1. /\ stage = "picture" /\ stage' = stage /\ source' = source /\ job' = job
      /\ io' = PremultiplyAlpha(io) \/ io' = UnpremultiplyAlpha(io)
  BY DEF Premultiply, Unpremultiply, Operate
<1>2. IsPicture(source.picture) /\ ShowsAll(source.picture, io)
  BY <1>1, PictureIs DEF PixelInv, Pictured
<1>3. ShowsAll(source.picture, io')
  BY <1>1, <1>2, OperationsShow
<1> QED
  BY <1>1, <1>3 DEF PixelInv, PixelStages

(* A job that is started is one for a frame of the picture.                *)
LEMMA TransformToStarts ==
    ASSUME FilesDecode, PixelInv, stage # "elsewhere", source' = source,
           ShowsAll(source.picture, io'),
           NEW for, NEW frame \in 1 .. Len(io'.frames), NEW to, to.space # "alpha",
           TransformTo(for, frame, io'.frames[frame], to)
    PROVE  PixelInv'
<1>1. IsPicture(source.picture) /\ source \in Sources
  BY PictureIs DEF PixelInv
<1>2. CASE io'.frames[frame].c_current.gray = to.gray
  <2>1. stage' = "transforming" /\ job' = TransformJob(for, frame, io'.frames[frame], to)
    BY <1>2 DEF TransformTo
  <2>2. TransformInv(source.picture, io', job')
    BY <1>1, <1>2, <2>1, TransformStarts
  <2> QED
    BY <1>1, <2>1, <2>2 DEF PixelInv, PixelStages, Pictured
<1>3. CASE ~(io'.frames[frame].c_current.gray = to.gray)
  <2>1. stage' = "aborted" /\ job' = NoJob
    BY <1>3 DEF TransformTo
  <2> QED
    BY <1>1, <2>1 DEF PixelInv, PixelStages, Pictured, NoJob
<1> QED
  BY <1>2, <1>3

LEMMA TransformStep ==
    ASSUME FilesDecode, PixelInv, Transform
    PROVE  PixelInv'
<1>1. /\ stage = "picture" /\ source' = source /\ io' = io
  BY DEF Transform, Operate
<1>2. PICK to \in Encodings : TransformTo(NoFile, 1, io.frames[1], to)
  BY DEF Transform
<1>3. ShowsAll(source.picture, io)
  BY <1>1 DEF PixelInv, Pictured
<1>4. 1 \in 1 .. Len(io.frames)
  BY <1>3 DEF ShowsAll, IsCodecInOut
<1> QED
  BY <1>1, <1>2, <1>3, <1>4, TransformToStarts, EncodingsAssumption

(* A row of a transform.                                                   *)
LEMMA RowStep ==
    ASSUME FilesDecode, PixelInv, NEW t \in PoolThreads, ReadRow(t) \/ WriteRow(t) \/ FailRow(t)
    PROVE  PixelInv'
<1>1. job.kind = "transform" /\ stage' = stage /\ source' = source /\ io' = io
  BY DEF ReadRow, WriteRow, FailRow
<1>2. stage = "transforming"
  BY <1>1 DEF PixelInv, StoreForm
<1>3. /\ IsPicture(source.picture) /\ ShowsAll(source.picture, io)
      /\ TransformInv(source.picture, io, job)
  BY <1>2, PictureIs DEF PixelInv, Pictured
<1>5. TransformInv(source.picture, io, job')
  <2>1. CASE ReadRow(t)
    BY <1>3, <2>1, RowRead DEF ReadRow
  <2>2. CASE WriteRow(t)
    BY <1>3, <2>2, RowWritten DEF WriteRow
  <2>3. CASE FailRow(t)
    BY <1>3, <2>3, RowFailed DEF FailRow
  <2> QED
    BY <2>1, <2>2, <2>3
<1> QED
  BY <1>1, <1>2, <1>3, <1>5 DEF PixelInv, PixelStages

LEMMA TransformedStep ==
    ASSUME FilesDecode, PixelInv, Transformed
    PROVE  PixelInv'
<1> DEFINE n == [job.ib EXCEPT !.c_current = job.target]
           k == job.frame
<1>1. /\ RowsDone /\ job.kind = "transform" /\ source' = source
      /\ io' = [io EXCEPT !.frames[job.frame] =
                  IF job.ok THEN [job.ib EXCEPT !.c_current = job.target] ELSE job.ib]
  BY DEF Transformed
<1>2. stage = "transforming"
  BY <1>1 DEF PixelInv, StoreForm
<1>3. /\ IsPicture(source.picture) /\ ShowsAll(source.picture, io)
      /\ TransformInv(source.picture, io, job) /\ source \in Sources
  BY <1>2, PictureIs DEF PixelInv, Pictured
<1>4. k \in 1 .. Len(io.frames) /\ job.ok \in BOOLEAN
  BY <1>3 DEF TransformInv
<1>5. CASE ~job.ok
  <2>1. stage' = "failed" /\ job' = NoJob
    BY <1>1, <1>5 DEF Transformed
  <2> QED
    BY <1>1, <1>3, <2>1 DEF PixelInv, PixelStages, Pictured, NoJob
<1>6. CASE job.ok
  <2>1. IsBundle(n) /\ Shows(source.picture, io.m, n) /\ n.c_current.space # "alpha"
    BY <1>1, <1>3, <1>6, FrameTransformed DEF RowsDone
  <2>2. io' = [io EXCEPT !.frames[k] = n]
    BY <1>1, <1>6
  <2> HIDE DEF n, k
  <2>3. /\ "frames" \in DOMAIN io /\ io = [m |-> io.m, frames |-> io.frames] /\ IsMetadata(io.m)
        /\ Len(io.frames) # 0 /\ job.target.space # "alpha"
    BY <1>3 DEF ShowsAll, IsCodecInOut, TransformInv
  <2>4. io' = [m |-> io.m, frames |-> [io.frames EXCEPT ![k] = n]]
    BY <2>2, <2>3
  <2>5. PICK T : io.frames \in Seq(T)
    BY <1>3 DEF ShowsAll, IsCodecInOut
  <2>6. /\ [io.frames EXCEPT ![k] = n] \in Seq(T \cup {n})
        /\ Len([io.frames EXCEPT ![k] = n]) = Len(io.frames)
        /\ \A g \in 1 .. Len(io.frames) :
             [io.frames EXCEPT ![k] = n][g] = IF g = k THEN n ELSE io.frames[g]
    BY <1>4, <2>5
  <2>7. io'.m = io.m /\ io'.frames = [io.frames EXCEPT ![k] = n]
    BY <2>4
  <2>8. IsCodecInOut(io')
    BY <1>3, <2>1, <2>3, <2>4, <2>6, <2>7 DEF IsCodecInOut, ShowsAll
  <2>9. ShowsAll(source.picture, io')
    BY <1>3, <2>1, <2>6, <2>7, <2>8 DEF ShowsAll
  <2>10. CASE k = Len(io.frames)
    <3>1. stage' = "picture" /\ job' = NoJob
      BY <1>1, <1>6, <2>10 DEF Transformed, k
    <3> QED
      BY <1>1, <1>3, <2>9, <3>1 DEF PixelInv, PixelStages, Pictured, NoJob
  <2>11. CASE k # Len(io.frames)
    <3>1. TransformTo(NoFile, k + 1, io.frames[k + 1], job.target)
      BY <1>1, <1>6, <2>11 DEF Transformed, k
    <3>2. k + 1 \in 1 .. Len(io.frames) /\ k + 1 # k
      BY <1>4, <2>5, <2>11
    <3>3. k + 1 \in 1 .. Len(io'.frames) /\ io'.frames[k + 1] = io.frames[k + 1]
      BY <2>6, <2>7, <3>2
    <3> QED
      BY <1>1, <1>2, <2>3, <2>9, <3>1, <3>3, TransformToStarts
  <2> QED
    BY <2>10, <2>11
<1> QED
  BY <1>4, <1>5, <1>6

LEMMA StoreFrameStarts ==
    ASSUME PixelInv, stage # "elsewhere", source' = source, io' = io,
           ShowsAll(source.picture, io),
           NEW frame \in 1 .. Len(io.frames), NEW ib, NEW to, to.space # "alpha", NEW for,
           StoreFrame(frame, ib, to, for)
    PROVE  PixelInv'
<1> DEFINE channels == UprightChannels(io.m.orientation, ExternalChannels(io.m, ib))
           packed == NewPackedFrame(OrientedXSize(io.m, ib), OrientedYSize(io.m, ib),
                                    FrameFormat(io.m, for.format))
           j == StoreJob(frame, to, for, channels, packed)
<1>1. StartStore(j)
  BY DEF StoreFrame
<1>2. StoreForm(j) /\ j.frame = frame /\ j.target = to
  BY DEF StoreJob, StoreForm, StoreFields
<1> HIDE DEF j
<1>3. \/ stage' \in {"aborted", "failed"} /\ job' = NoJob
      \/ stage' = "packing" /\ job' = j
  BY <1>1 DEF StartStore
<1>4. source' \in Sources /\ ShowsAll(source'.picture, io')
  BY DEF PixelInv
<1>5. CASE stage' \in {"aborted", "failed"} /\ job' = NoJob
  BY <1>4, <1>5 DEF PixelInv, PixelStages, Pictured, NoJob
<1>6. CASE stage' = "packing" /\ job' = j
  BY <1>2, <1>4, <1>6 DEF PixelInv, PixelStages, Pictured
<1> QED
  BY <1>3, <1>5, <1>6

LEMMA PackFrameStarts ==
    ASSUME FilesDecode, PixelInv, stage # "elsewhere", source' = source, io' = io,
           ShowsAll(source.picture, io),
           NEW frame \in 1 .. Len(io.frames), NEW to, to.space # "alpha", NEW for,
           PackFrame(frame, to, for)
    PROVE  PixelInv'
<1>1. CASE NeedsTransform(io.m, io.frames[frame], to)
  BY <1>1, TransformToStarts DEF PackFrame
<1>2. CASE ~NeedsTransform(io.m, io.frames[frame], to)
  BY <1>2, StoreFrameStarts DEF PackFrame
<1> QED
  BY <1>1, <1>2

LEMMA EncodeStep ==
    ASSUME FilesDecode, PixelInv, Encode
    PROVE  PixelInv'
<1>1. stage = "picture" /\ source' = source /\ io' = io
  BY DEF Encode
<1>2. ShowsAll(source.picture, io) /\ source \in Sources /\ job.kind = "none"
  BY <1>1 DEF PixelInv, Pictured
<1>3. 1 \in 1 .. Len(io.frames)
  BY <1>2 DEF ShowsAll, IsCodecInOut
<1>4. CASE stage' = "failed" /\ UNCHANGED job
  BY <1>1, <1>2, <1>4 DEF PixelInv, PixelStages, Pictured
<1>5. CASE \E to \in Encodings \cup {io.m.color_encoding} : \E for : PackFrame(1, to, for)
  <2>0. PICK to \in Encodings \cup {io.m.color_encoding} : \E for : PackFrame(1, to, for)
    BY <1>5
  <2>1. PICK for : PackFrame(1, to, for)
    BY <2>0
  <2>2. to.space # "alpha"
    BY <1>2, EncodingsAssumption DEF ShowsAll, IsCodecInOut, IsMetadata
  <2> QED
    BY <1>1, <1>2, <1>3, <2>1, <2>2, PackFrameStarts
<1> QED
  BY <1>4, <1>5 DEF Encode

LEMMA CopyTransformedStep ==
    ASSUME FilesDecode, PixelInv, CopyTransformed
    PROVE  PixelInv'
<1>1. job.kind = "transform" /\ source' = source /\ io' = io
  BY DEF CopyTransformed
<1>2. stage = "transforming"
  BY <1>1 DEF PixelInv, StoreForm
<1>3. /\ ShowsAll(source.picture, io) /\ source \in Sources /\ job.frame \in 1 .. Len(io.frames)
      /\ job.target.space # "alpha"
  BY <1>2 DEF PixelInv, Pictured, TransformInv
<1>4. CASE job.ok
  <2>1. StoreFrame(job.frame, [job.ib EXCEPT !.c_current = job.target], job.target, job.for)
    BY <1>4 DEF CopyTransformed
  <2> QED
    BY <1>1, <1>2, <1>3, <2>1, StoreFrameStarts
<1>5. CASE ~job.ok
  <2>1. stage' = "failed" /\ job' = NoJob
    BY <1>5 DEF CopyTransformed
  <2> QED
    BY <1>1, <1>3, <2>1 DEF PixelInv, PixelStages, Pictured, NoJob
<1> QED
  BY <1>4, <1>5

LEMMA StoreStep ==
    ASSUME FilesDecode, PixelInv, NEW t \in PoolThreads, ConvertRow(t) \/ StoreRow(t)
    PROVE  PixelInv'
<1>1. job.kind = "store" /\ stage' = stage /\ source' = source /\ io' = io
  BY DEF ConvertRow, StoreRow
<1>2. stage = "packing"
  BY <1>1 DEF PixelInv, TransformInv, TransformForm
<1>3. StoreForm(job) /\ job.frame \in 1 .. Len(io.frames) /\ job.target.space # "alpha"
  BY <1>2 DEF PixelInv
<1>4. DOMAIN job' = DOMAIN job /\ job'.kind = job.kind /\ job'.frame = job.frame
      /\ job'.target = job.target
  BY <1>3 DEF StoreForm, StoreFields, ConvertRow, StoreRow
<1> QED
  BY <1>1, <1>2, <1>3, <1>4 DEF PixelInv, PixelStages, Pictured, StoreForm

LEMMA FrameStoredStep ==
    ASSUME FilesDecode, PixelInv, FrameStored
    PROVE  PixelInv'
<1>1. job.kind = "store" /\ source' = source /\ io' = io
  BY DEF FrameStored
<1>2. stage = "packing"
  BY <1>1 DEF PixelInv, TransformInv, TransformForm
<1>3. /\ ShowsAll(source.picture, io) /\ source \in Sources /\ job.frame \in 1 .. Len(io.frames)
      /\ job.target.space # "alpha"
  BY <1>2 DEF PixelInv, Pictured
<1>4. CASE stage' = "aborted" /\ job' = NoJob
  BY <1>1, <1>3, <1>4 DEF PixelInv, PixelStages, Pictured, NoJob
<1>5. CASE stage' = "packed out" /\ job' = [kind |-> "none", for |-> job.for]
  BY <1>1, <1>3, <1>5 DEF PixelInv, PixelStages, Pictured
<1>6. CASE job.frame # Len(io.frames) /\ PackFrame(job.frame + 1, job.target, job.for)
  <2>1. Len(io.frames) \in Nat
    BY <1>3 DEF ShowsAll, IsCodecInOut
  <2>2. job.frame + 1 \in 1 .. Len(io.frames)
    BY <1>3, <1>6, <2>1
  <2> QED
    BY <1>1, <1>2, <1>3, <1>6, <2>2, PackFrameStarts
<1> QED
  BY <1>4, <1>5, <1>6 DEF FrameStored

LEMMA WriteStep ==
    ASSUME FilesDecode, PixelInv, Write
    PROVE  PixelInv'
<1>1. /\ stage = "packed out" /\ source' = source /\ io' = io /\ job' = job
      /\ stage' \in {"failed", "aborted", "written"}
  BY DEF Write
<1> QED
  BY <1>1 DEF PixelInv, PixelStages, Pictured

LEMMA PixelStep ==
    ASSUME FilesDecode, PixelInv, [PixelNext]_pixelVars
    PROVE  PixelInv'
<1>1. CASE UNCHANGED pixelVars
  BY <1>1 DEF pixelVars, PixelInv
<1>2. CASE PixelNext
  BY <1>2, LoadStep, OperateStep, TransformStep, RowStep, TransformedStep, EncodeStep,
     CopyTransformedStep, StoreStep, FrameStoredStep, WriteStep DEF PixelNext
<1> QED
  BY <1>1, <1>2

(***************************************************************************)
(* For pictures of any size, any number of frames, any operations in any   *)
(* order and any number of threads taking rows in any order: as long as    *)
(* the parsers read from a file what it holds (FilesDecode), every plane   *)
(* of every frame shows the picture that was drawn, in the colour space    *)
(* and with the alpha the frame names.  SetFromBytes and ConvertPackedFrameToImageBundle have to  *)
(* find every sample in the bytes of the packed frame, with its type, byte *)
(* order and stride; PremultiplyAlpha and UnpremultiplyAlpha are only      *)
(* called when the metadata says so; CopyToT converts rows in the buffers  *)
(* of whichever thread takes them, all of them before the new space is     *)
(* named, and every frame before the metadata's is.                        *)
(***************************************************************************)
THEOREM PictureStaysAsDrawn ==
    ASSUME FilesDecode
    PROVE  ImageSpec => []PictureAsDrawn
<1>1. ImageInit => PixelInv
  BY PixelInvStarts DEF ImageInit
<1>2. PixelInv /\ [ImageNext]_imageVars => PixelInv'
  <2> SUFFICES ASSUME PixelInv, [ImageNext]_imageVars PROVE PixelInv'
    OBVIOUS
  <2>1. [PixelNext]_pixelVars
    BY DEF ImageNext, imageVars
  <2> QED
    BY <2>1, PixelStep
<1>3. PixelInv => PictureAsDrawn
  <2> SUFFICES ASSUME PixelInv, stage = "picture"
               PROVE  \A k \in DOMAIN io.frames : Shows(source.picture, io.m, io.frames[k])
    BY DEF PictureAsDrawn
  <2>1. ShowsAll(source.picture, io)
    BY DEF PixelInv, Pictured
  <2>2. DOMAIN io.frames = 1 .. Len(io.frames)
    BY <2>1 DEF ShowsAll, IsCodecInOut
  <2> QED
    BY <2>1, <2>2 DEF ShowsAll
<1> QED
  BY <1>1, <1>2, <1>3, PTL DEF ImageSpec

-----------------------------------------------------------------------------
(* Orientations.                                                           *)

OrientedWidth(o, xsize, ysize) == IF o > 4 THEN ysize ELSE xsize
OrientedHeight(o, xsize, ysize) == IF o > 4 THEN xsize ELSE ysize

IsPlane(plane, xsize, ysize) ==
  /\ DOMAIN plane = 0 .. ysize - 1
  /\ \A y \in 0 .. ysize - 1 : DOMAIN plane[y] = 0 .. xsize - 1

LEMMA PlacedUpright ==
    ASSUME NEW o \in 1 .. 8, NEW xsize \in Nat \ {0}, NEW ysize \in Nat \ {0},
           NEW x \in 0 .. xsize - 1, NEW y \in 0 .. ysize - 1
    PROVE  LET u == PlaceAcross(o, x, y, OrientedWidth(o, xsize, ysize))
               v == PlaceDown(o, x, y, OrientedHeight(o, xsize, ysize))
           IN  /\ u \in 0 .. OrientedWidth(o, xsize, ysize) - 1
               /\ v \in 0 .. OrientedHeight(o, xsize, ysize) - 1
               /\ Upright(o, x, y, xsize, ysize) = <<u, v>>
<1> USE DEF PlaceAcross, PlaceDown, FromSide, FirstColumn, FirstRow, OrientedWidth,
            OrientedHeight, Upright
<1>1. CASE o = 1
  BY <1>1
<1>2. CASE o = 2
  BY <1>2
<1>3. CASE o = 3
  BY <1>3
<1>4. CASE o = 4
  BY <1>4
<1>5. CASE o = 5
  BY <1>5
<1>6. CASE o = 6
  BY <1>6
<1>7. CASE o = 7
  BY <1>7
<1>8. CASE o = 8
  BY <1>8
<1> QED
  BY <1>1, <1>2, <1>3, <1>4, <1>5, <1>6, <1>7, <1>8

LEMMA UprightOnce ==
    ASSUME NEW o \in 1 .. 8, NEW xsize \in Nat, NEW ysize \in Nat,
           NEW x \in 0 .. xsize - 1, NEW y \in 0 .. ysize - 1,
           NEW p \in 0 .. xsize - 1, NEW q \in 0 .. ysize - 1,
           Upright(o, p, q, xsize, ysize) = Upright(o, x, y, xsize, ysize)
    PROVE  p = x /\ q = y
<1> USE DEF Upright
<1>1. CASE o = 1
  BY <1>1
<1>2. CASE o = 2
  BY <1>2
<1>3. CASE o = 3
  BY <1>3
<1>4. CASE o = 4
  BY <1>4
<1>5. CASE o = 5
  BY <1>5
<1>6. CASE o = 6
  BY <1>6
<1>7. CASE o = 7
  BY <1>7
<1>8. CASE o = 8
  BY <1>8
<1> QED
  BY <1>1, <1>2, <1>3, <1>4, <1>5, <1>6, <1>7, <1>8

LEMMA PlaneSize ==
    ASSUME NEW xsize \in Nat \ {0}, NEW ysize \in Nat \ {0}, NEW plane,
           IsPlane(plane, xsize, ysize)
    PROVE  Columns(plane) = xsize /\ Rows(plane) = ysize
<1>1. DOMAIN plane = 0 .. ysize - 1 /\ DOMAIN plane[0] = 0 .. xsize - 1
  BY DEF IsPlane
<1> QED
  BY <1>1, IntervalCardinality DEF Columns, Rows

LEMMA PlaneUpright ==
    ASSUME NEW o \in 1 .. 8, NEW xsize \in Nat \ {0}, NEW ysize \in Nat \ {0}, NEW plane,
           IsPlane(plane, xsize, ysize)
    PROVE  LET upright == UndoOrientation(o, plane)
               width == OrientedWidth(o, xsize, ysize)
               height == OrientedHeight(o, xsize, ysize)
           IN  /\ IsPlane(upright, width, height)
               /\ \A y \in 0 .. ysize - 1, x \in 0 .. xsize - 1 :
                    upright[PlaceDown(o, x, y, height)][PlaceAcross(o, x, y, width)] = plane[y][x]
<1> DEFINE width == OrientedWidth(o, xsize, ysize)
           height == OrientedHeight(o, xsize, ysize)
           From(u, v) == CHOOSE at \in (0 .. Columns(plane) - 1) \X (0 .. Rows(plane) - 1) :
                           Upright(o, at[1], at[2], Columns(plane), Rows(plane)) = <<u, v>>
           upright == UndoOrientation(o, plane)
<1>1. Columns(plane) = xsize /\ Rows(plane) = ysize
  BY PlaneSize
<1>2. upright = [v \in 0 .. (IF o > 4 THEN Columns(plane) ELSE Rows(plane)) - 1 |->
                   [u \in 0 .. (IF o > 4 THEN Rows(plane) ELSE Columns(plane)) - 1 |->
                      plane[From(u, v)[2]][From(u, v)[1]]]]
  BY DEF UndoOrientation, Transposes
<1>3. ASSUME NEW u, NEW v,
             NEW at \in (0 .. xsize - 1) \X (0 .. ysize - 1),
             Upright(o, at[1], at[2], xsize, ysize) = <<u, v>>
      PROVE  /\ From(u, v) \in (0 .. xsize - 1) \X (0 .. ysize - 1)
             /\ Upright(o, From(u, v)[1], From(u, v)[2], xsize, ysize) = <<u, v>>
  BY <1>1, <1>3
<1> HIDE DEF From
<1>4. upright = [v \in 0 .. height - 1 |-> [u \in 0 .. width - 1 |->
                   plane[From(u, v)[2]][From(u, v)[1]]]]
  BY <1>1, <1>2 DEF OrientedWidth, OrientedHeight
<1> HIDE DEF upright
<1>5. IsPlane(upright, width, height)
  BY <1>4 DEF IsPlane
<1>6. ASSUME NEW y \in 0 .. ysize - 1, NEW x \in 0 .. xsize - 1
      PROVE  upright[PlaceDown(o, x, y, height)][PlaceAcross(o, x, y, width)] = plane[y][x]
  <2> DEFINE u == PlaceAcross(o, x, y, width)
             v == PlaceDown(o, x, y, height)
  <2>1. /\ u \in 0 .. width - 1 /\ v \in 0 .. height - 1
        /\ Upright(o, x, y, xsize, ysize) = <<u, v>>
    BY PlacedUpright
  <2> HIDE DEF u, v, width, height
  <2>2. <<x, y>> \in (0 .. xsize - 1) \X (0 .. ysize - 1)
    OBVIOUS
  <2>3. /\ From(u, v) \in (0 .. xsize - 1) \X (0 .. ysize - 1)
        /\ Upright(o, From(u, v)[1], From(u, v)[2], xsize, ysize) = <<u, v>>
    BY <1>3, <2>1, <2>2
  <2>4. ASSUME NEW p \in 0 .. xsize - 1, NEW q \in 0 .. ysize - 1,
               Upright(o, p, q, xsize, ysize) = <<u, v>>
        PROVE  p = x /\ q = y
    <3>1. Upright(o, p, q, xsize, ysize) = Upright(o, x, y, xsize, ysize)
      BY <2>1, <2>4
    <3> QED
      BY <3>1, UprightOnce
  <2>5. From(u, v)[1] = x /\ From(u, v)[2] = y
    BY <2>3, <2>4
  <2>6. upright[v][u] = plane[From(u, v)[2]][From(u, v)[1]]
    BY <1>4, <2>1
  <2> QED
    BY <2>5, <2>6 DEF u, v, width, height
<1> QED
  BY <1>5, <1>6 DEF upright

-----------------------------------------------------------------------------
(* Samples as integers.                                                    *)

IsWorth(w) == w = <<w[1], w[2]>> /\ w[1] \in Nat /\ w[2] \in Nat \ {0}

LEMMA NearestIsNearest ==
    ASSUME NEW w, IsWorth(w), NEW bits \in 1 .. 16
    PROVE  /\ NearestUint(w, bits) \in 0 .. 2 ^ bits - 1
           /\ IsNearest(NearestUint(w, bits), 2 ^ bits - 1, w)
<1> DEFINE mul == Levels(bits) - 1
           n == w[1]
           d == w[2]
           k == NearestUint(w, bits)
<1>0. 2 ^ bits - 1 = mul
  BY DEF Levels
<1>1. n \in Nat /\ d \in Nat \ {0} /\ mul \in Nat \ {0}
  <2>1. Levels(bits) \in Nat /\ 2 <= Levels(bits)
    BY LevelsOf
  <2> QED
    BY <2>1 DEF IsWorth
<1>2. k = IF n <= 0 THEN 0 ELSE IF n >= d THEN mul ELSE IF d = mul THEN n
          ELSE (2 * n * mul + d) \div (2 * d)
  <2>1. k = CASE n <= 0 -> 0
              [] n >= d -> 2 ^ bits - 1
              [] n < d /\ d = 2 ^ bits - 1 -> n
              [] OTHER -> (2 * n * (2 ^ bits - 1) + d) \div (2 * d)
    BY DEF NearestUint
  <2>2. (n <= 0) \in BOOLEAN /\ (n >= d) \in BOOLEAN /\ (n < d <=> ~(n >= d))
    BY <1>1
  <2> HIDE DEF mul, n, d, k
  <2>3. k = CASE n <= 0 -> 0 [] n >= d -> mul [] n < d /\ d = mul -> n
              [] OTHER -> (2 * n * mul + d) \div (2 * d)
    BY <1>0, <2>1, Zenon
  <2>4. CASE n <= 0
    BY <1>1, <2>3, <2>4
  <2>5. CASE ~(n <= 0) /\ n >= d
    BY <1>1, <2>2, <2>3, <2>5
  <2>6. CASE ~(n <= 0) /\ ~(n >= d) /\ d = mul
    BY <1>1, <2>2, <2>3, <2>6
  <2>7. CASE ~(n <= 0) /\ ~(n >= d) /\ d # mul
    BY <1>1, <2>2, <2>3, <2>7
  <2> QED
    BY <2>4, <2>5, <2>6, <2>7
<1>3. IsNearest(k, mul, w) <=>
        IF n >= d THEN k = mul ELSE IF d = mul THEN k = n
        ELSE 2 * (k * d - n * mul) <= d /\ -d <= 2 * (k * d - n * mul)
  BY <1>1 DEF IsNearest
<1> HIDE DEF mul, n, d, k
<1> SUFFICES k \in 0 .. mul /\ IsNearest(k, mul, w)
  BY <1>0 DEF k
<1>4. CASE n = 0
  <2>1. k = 0
    BY <1>2, <1>4
  <2>2. 0 * d = 0 /\ 0 * mul = 0
    BY <1>1
  <2> QED
    BY <1>1, <1>3, <1>4, <2>1, <2>2
<1>5. CASE n # 0 /\ n >= d
  BY <1>1, <1>2, <1>3, <1>5
<1>6. CASE n # 0 /\ n < d /\ d = mul
  BY <1>1, <1>2, <1>3, <1>6
<1>7. CASE n # 0 /\ n < d /\ d # mul
  <2> DEFINE a == n * mul
  <2>1. a \in Nat
    BY <1>1
  <2>2. k = (2 * a + d) \div (2 * d)
    <3>1. 2 * n * mul = 2 * a
      BY <1>1
    <3> QED
      BY <1>1, <1>2, <1>7, <3>1
  <2>3. a <= d * mul
    BY <1>1, <1>7
  <2> HIDE DEF a
  <2>4. k \in Nat /\ k * (2 * d) <= 2 * a + d /\ 2 * a + d < k * (2 * d) + 2 * d
    <3> DEFINE e == 2 * d
               b == 2 * a + d
    <3>1. e \in Nat \ {0} /\ b \in Nat
      BY <1>1, <2>1
    <3>2. k = b \div e
      BY <2>2
    <3> HIDE DEF e, b
    <3>3. k \in Nat /\ b = k * e + (b % e) /\ b % e \in 0 .. e - 1
      BY <3>1, <3>2
    <3>4. k * e \in Nat
      BY <3>1, <3>3
    <3>5. k \in Nat /\ k * e <= b /\ b < k * e + e
      BY <3>1, <3>3, <3>4
    <3> QED
      BY <3>5 DEF e, b
  <2>5. k * (2 * d) = 2 * (k * d) /\ k * d \in Nat
    BY <1>1, <2>4
  <2>6. 2 * (k * d - a) <= d /\ -d <= 2 * (k * d - a)
    BY <1>1, <2>1, <2>4, <2>5
  <2>7. k <= mul
    <3> SUFFICES ASSUME mul + 1 <= k PROVE FALSE
      BY <1>1, <2>4
    <3>1. (mul + 1) * d <= k * d
      BY <1>1, <2>4
    <3>2. (mul + 1) * d = d * mul + d /\ d * mul \in Nat
      BY <1>1
    <3> QED
      BY <1>1, <2>1, <2>3, <2>5, <2>6, <3>1, <3>2
  <2> QED
    BY <1>1, <1>3, <1>7, <2>4, <2>6, <2>7 DEF a
<1> QED
  BY <1>1, <1>4, <1>5, <1>6, <1>7

-----------------------------------------------------------------------------
(* Bytes of a row.                                                         *)

IsBytes(bytes, size) == bytes = [k \in 1 .. size |-> bytes[k]]

LEMMA BytesAt ==
    ASSUME NEW size \in Nat, NEW bytes, IsBytes(bytes, size), NEW from \in Nat,
           NEW width \in Nat, from + width <= size, NEW b, IsBytes(b, width),
           \A e \in 1 .. width : bytes[from + e] = b[e]
    PROVE  SubSeq(bytes, from + 1, from + width) = b
<1> DEFINE S == {bytes[k] : k \in 1 .. size}
           s == SubSeq(bytes, from + 1, from + width)
<1>1. bytes \in Seq(S) /\ Len(bytes) = size
  <2>1. [k \in 1 .. size |-> bytes[k]] \in Seq(S) /\ Len([k \in 1 .. size |-> bytes[k]]) = size
    OBVIOUS
  <2> QED
    BY <2>1 DEF IsBytes
<1>2. s = [k \in 1 .. width |-> bytes[from + k]]
  BY <1>1, SubSeqProperties
<1>3. s = [k \in 1 .. width |-> b[k]]
  BY <1>2
<1> QED
  BY <1>3 DEF IsBytes

LEMMA StoredWidth ==
    ASSUME NEW value, NEW bits \in Nat, NEW float \in BOOLEAN, NEW le \in BOOLEAN,
           BytesPerChannel(bits) \in (IF float THEN {2, 4} ELSE {1, 2})
    PROVE  IsBytes(StoredBytes(value, bits, float, le), BytesPerChannel(bits))
<1> DEFINE width == BytesPerChannel(bits)
<1>1. ASSUME NEW S, NEW b \in Seq(S), Len(b) = width
      PROVE  IsBytes(InOrder(b, le), width)
  <2>1. InOrder(b, le) \in Seq(S) /\ Len(InOrder(b, le)) = width
    BY <1>1 DEF InOrder, Reverse
  <2> QED
    BY <2>1 DEF IsBytes
<1> HIDE DEF width
<1>2. CASE float
  <2> DEFINE b == [g \in 1 .. width |-> <<"float", value, width, g>>]
  <2>1. width \in Nat
    BY <1>2 DEF width
  <2>2. b \in Seq({"float"} \X {value} \X {width} \X (1 .. width)) /\ Len(b) = width
    BY <2>1
  <2> HIDE DEF b
  <2>3. StoredBytes(value, bits, float, le) = InOrder(b, le)
    BY <1>2 DEF StoredBytes, FloatBytes, b, width
  <2> QED
    BY <1>1, <2>2, <2>3 DEF width
<1>3. CASE ~float
  <2> DEFINE u == UintByte(value[1] % 256, value[2])
             v == UintByte(value[1] \div 256, value[2])
             b == IF width = 1 THEN <<u>> ELSE <<u, v>>
  <2>1. width \in {1, 2}
    BY <1>3 DEF width
  <2>2. StoredBytes(value, bits, float, le) = InOrder(b, le)
    BY <1>3 DEF StoredBytes, UintBytes, width
  <2> HIDE DEF u, v
  <2>3. b \in Seq({u, v}) /\ Len(b) = width
    <3>1. <<u>> \in Seq({u, v}) /\ Len(<<u>>) = 1
      OBVIOUS
    <3>2. <<u, v>> \in Seq({u, v}) /\ Len(<<u, v>>) = 2
      OBVIOUS
    <3>3. CASE width = 1
      BY <3>1, <3>3
    <3>4. CASE width = 2
      BY <3>2, <3>4
    <3> QED
      BY <2>1, <3>3, <3>4
  <2> HIDE DEF b
  <2> QED
    BY <1>1, <2>2, <2>3 DEF width
<1> QED
  BY <1>2, <1>3

LEMMA ColumnOf ==
    ASSUME NEW n \in 1 .. 4, NEW xsize \in Nat \ {0}, NEW u \in 0 .. xsize - 1,
           NEW c \in 0 .. n - 1
    PROVE  /\ u * n + c \in 0 .. xsize * n - 1 /\ xsize * n \in Nat
           /\ (u * n + c) % n = c /\ (u * n + c) \div n = u
<1>1. CASE n = 1
  BY <1>1
<1>2. CASE n = 2
  BY <1>2
<1>3. CASE n = 3
  BY <1>3
<1>4. CASE n = 4
  BY <1>4
<1> QED
  BY <1>1, <1>2, <1>3, <1>4

LEMMA PieceOf ==
    ASSUME NEW width \in {1, 2, 4}, NEW many \in Nat, NEW k \in 0 .. many - 1,
           NEW e \in 1 .. width
    PROVE  LET g == k * width + e
           IN  /\ g \in 1 .. many * width /\ many * width \in Nat
               /\ k * width \in Nat /\ k * width + width <= many * width
               /\ (g - 1) \div width = k /\ ((g - 1) % width) + 1 = e
<1>1. CASE width = 1
  BY <1>1
<1>2. CASE width = 2
  BY <1>2
<1>3. CASE width = 4
  BY <1>3
<1> QED
  BY <1>1, <1>2, <1>3

RowBytes(channels, v, xsize, bits, float, le) ==
  StoredRow([c \in 1 .. Len(channels) |-> ConvertedRow(channels[c][v], bits, float)],
            xsize, bits, float, le)

HoldsSample(channels, v, xsize, bits, float, le, u, c) ==
  \A e \in 1 .. BytesPerChannel(bits) :
    RowBytes(channels, v, xsize, bits, float, le)
      [(u * Len(channels) + c) * BytesPerChannel(bits) + e]
      = StoredBytes(ConvertedRow(channels[c + 1][v], bits, float)[u], bits, float, le)[e]

LEMMA RowByte ==
    ASSUME NEW channels, Len(channels) \in 1 .. 4, NEW xsize \in Nat \ {0}, NEW v, NEW bits \in Nat,
           NEW float \in BOOLEAN, NEW le \in BOOLEAN, BytesPerChannel(bits) \in {1, 2, 4},
           NEW u \in 0 .. xsize - 1, NEW c \in 0 .. Len(channels) - 1
    PROVE  HoldsSample(channels, v, xsize, bits, float, le, u, c)
<1> SUFFICES ASSUME NEW e \in 1 .. BytesPerChannel(bits)
             PROVE  RowBytes(channels, v, xsize, bits, float, le)
                      [(u * Len(channels) + c) * BytesPerChannel(bits) + e]
                      = StoredBytes(ConvertedRow(channels[c + 1][v], bits, float)[u],
                                    bits, float, le)[e]
  BY DEF HoldsSample
<1> DEFINE n == Len(channels)
           width == BytesPerChannel(bits)
           k == u * n + c
           g == k * width + e
           rows == [d \in 1 .. n |-> ConvertedRow(channels[d][v], bits, float)]
<1>1. k \in 0 .. xsize * n - 1 /\ xsize * n \in Nat /\ k % n = c /\ k \div n = u
  BY ColumnOf
<1> HIDE DEF k
<1>2. /\ g \in 1 .. xsize * n * width
      /\ (g - 1) \div width = k /\ ((g - 1) % width) + 1 = e
  <2> DEFINE many == xsize * n
  <2>1. many \in Nat /\ k \in 0 .. many - 1 /\ width \in {1, 2, 4} /\ e \in 1 .. width
    BY <1>1
  <2> HIDE DEF many, width
  <2>2. /\ g \in 1 .. many * width
        /\ (g - 1) \div width = k /\ ((g - 1) % width) + 1 = e
    BY <2>1, PieceOf
  <2> QED
    BY <2>2 DEF many
<1>3. Len(rows) = n /\ rows[c + 1] = ConvertedRow(channels[c + 1][v], bits, float)
  OBVIOUS
<1> HIDE DEF g, rows, n
<1>4. StoredRow(rows, xsize, bits, float, le)[g]
        = StoredBytes(rows[(((g - 1) \div width) % Len(rows)) + 1][((g - 1) \div width) \div Len(rows)],
                      bits, float, le)[((g - 1) % width) + 1]
  BY <1>2, <1>3 DEF StoredRow
<1>5. StoredRow(rows, xsize, bits, float, le)[g]
        = StoredBytes(rows[c + 1][u], bits, float, le)[e]
  BY <1>1, <1>2, <1>3, <1>4
<1> QED
  BY <1>3, <1>5 DEF RowBytes, g, k, n, rows

LEMMA RowLength ==
    ASSUME NEW channels, Len(channels) \in 1 .. 4, NEW xsize \in Nat \ {0}, NEW v, NEW bits \in Nat,
           NEW float \in BOOLEAN, NEW le \in BOOLEAN, BytesPerChannel(bits) \in {0, 1, 2, 4}
    PROVE  /\ Len(RowBytes(channels, v, xsize, bits, float, le))
                = xsize * Len(channels) * BytesPerChannel(bits)
           /\ xsize * Len(channels) * BytesPerChannel(bits) \in Nat
<1> DEFINE n == Len(channels)
           width == BytesPerChannel(bits)
           rows == [c \in 1 .. n |-> ConvertedRow(channels[c][v], bits, float)]
<1>1. Len(rows) = n
  OBVIOUS
<1>2. xsize * n * width \in Nat
  OBVIOUS
<1> HIDE DEF rows
<1>3. Len(StoredRow(rows, xsize, bits, float, le)) = xsize * n * width
  BY <1>1, <1>2 DEF StoredRow
<1> QED
  BY <1>2, <1>3 DEF RowBytes, rows

-----------------------------------------------------------------------------
(* A row that is stored, read back.                                        *)

Rounded(s, bits, float) ==
  IF float THEN IF bits = 16 THEN HalfFloat(s) ELSE s
  ELSE Sample(NearestUint(Worth(s), bits), 2 ^ bits - 1, s.space)

Converted(s, bits, float) ==
  IF float THEN IF bits = 16 THEN HalfFloat(s) ELSE s
  ELSE <<NearestUint(Worth(s), bits), s.space>>

LEMMA ConvertedSample ==
    ASSUME NEW bits, NEW float \in BOOLEAN, NEW row, NEW u \in DOMAIN row
    PROVE  ConvertedRow(row, bits, float)[u] = Converted(row[u], bits, float)
<1>1. CASE float
  BY <1>1 DEF ConvertedRow, Converted
<1>2. CASE ~float
  BY <1>2 DEF ConvertedRow, Converted
<1> QED
  BY <1>1, <1>2

LEMMA ConvertedLoads ==
    ASSUME NEW bits, NEW float \in BOOLEAN, NEW le \in BOOLEAN, NEW s,
           bits \in IF float THEN {16, 32} ELSE 1 .. 16, IsWorth(Worth(s))
    PROVE  Load(StoredBytes(Converted(s, bits, float), bits, float, le), bits, float, le)
             = Rounded(s, bits, float)
<1>1. CASE float
  <2>1. Converted(s, bits, float) = Rounded(s, bits, float)
    BY <1>1 DEF Converted, Rounded
  <2>2. BytesPerChannel(bits) \in {2, 4}
    BY <1>1 DEF BytesPerChannel, RoundUpDiv, kBitsPerByte
  <2> QED
    <3> DEFINE r == Rounded(s, bits, float)
    <3>1. StoredBytes(r, bits, float, le) = FloatBytes(r, BytesPerChannel(bits), le)
      BY <1>1 DEF StoredBytes
    <3> HIDE DEF r
    <3>2. Load(FloatBytes(r, BytesPerChannel(bits), le), bits, TRUE, le) = r
      BY <2>2, FloatLoaded
    <3>3. float = TRUE
      BY <1>1
    <3> QED
      BY <2>1, <3>1, <3>2, <3>3 DEF r
<1>2. CASE ~float
  <2> DEFINE k == NearestUint(Worth(s), bits)
  <2>1. Converted(s, bits, float) = <<k, s.space>>
    BY <1>2 DEF Converted
  <2>2. k \in 0 .. 2 ^ bits - 1
    BY <1>2, NearestIsNearest
  <2> HIDE DEF k
  <2>3. StoredBytes(<<k, s.space>>, bits, float, le)
          = UintBytes(k, BytesPerChannel(bits), le, s.space)
    BY <1>2 DEF StoredBytes
  <2>4. Load(UintBytes(k, BytesPerChannel(bits), le, s.space), bits, FALSE, le)
          = Sample(k, 2 ^ bits - 1, s.space)
    BY <1>2, <2>2, UintLoaded
  <2>5. Rounded(s, bits, float) = Sample(k, 2 ^ bits - 1, s.space)
    BY <1>2 DEF Rounded, k
  <2> QED
    BY <1>2, <2>1, <2>3, <2>4, <2>5
<1> QED
  BY <1>1, <1>2

-----------------------------------------------------------------------------
(* The channels that are stored, in the encoding that is wanted.           *)

ChannelSample(picture, m, space, c, x, y) ==
  IF c <= ColorChannels(m.color_encoding)
  THEN Multiple(Drawn(picture, c - 1, x, y), Power(picture, m), Drawn(picture, 3, x, y), space)
  ELSE Drawn(picture, 3, x, y)

Wanted(picture, m, space) ==
  SubSeq(DrawnColor(picture, Power(picture, m), space), 1, ColorChannels(m.color_encoding))
    \o (IF HasAlpha(m) THEN <<DrawnAlpha(picture)>> ELSE <<>>)

WantedPlane(picture, m, space, c) ==
  [y \in 0 .. picture.ysize - 1 |-> [x \in 0 .. picture.xsize - 1 |->
     ChannelSample(picture, m, space, c, x, y)]]

ChannelCount(m) == ColorChannels(m.color_encoding) + (IF HasAlpha(m) THEN 1 ELSE 0)

LEMMA ShownIsWanted ==
    ASSUME NEW picture, NEW m, NEW ib, Shows(picture, m, ib)
    PROVE  ExternalChannels(m, ib) = Wanted(picture, m, ib.c_current.space)
  BY DEF Shows, ExternalChannels, Wanted

LEMMA WantedChannels ==
    ASSUME NEW picture, NEW m, NEW space
    PROVE  /\ ChannelCount(m) \in 1 .. 4
           /\ Len(Wanted(picture, m, space)) = ChannelCount(m)
           /\ DOMAIN Wanted(picture, m, space) = 1 .. ChannelCount(m)
           /\ \A c \in 1 .. ChannelCount(m) :
                Wanted(picture, m, space)[c] = WantedPlane(picture, m, space, c)
<1> DEFINE color == DrawnColor(picture, Power(picture, m), space)
           colors == ColorChannels(m.color_encoding)
           S == {color[1], color[2], color[3]}
           head == SubSeq(color, 1, colors)
           tail == IF HasAlpha(m) THEN <<DrawnAlpha(picture)>> ELSE <<>>
<1>1. colors \in {1, 3}
  BY DEF ColorChannels
<1>2. color \in Seq(S) /\ Len(color) = 3
  BY DEF DrawnColor
<1>3. \A c \in 1 .. 3 : color[c] = [y \in 0 .. picture.ysize - 1 |->
                                      DrawnRow(picture, Power(picture, m), space, c - 1, y)]
  BY DEF DrawnColor
<1> HIDE DEF color, colors
<1>4. head \in Seq(S) /\ Len(head) = colors /\ \A c \in 1 .. colors : head[c] = color[c]
  <2>1. 1 \in 1 .. Len(color) + 1 /\ colors \in 0 .. Len(color)
    BY <1>1, <1>2
  <2>2. head = [c \in 1 .. colors |-> color[c]]
    BY <1>1, <1>2, <2>1
  <2> QED
    BY <1>1, <1>2, <2>2
<1> HIDE DEF S, head
<1>5. /\ head \o tail \in Seq(S \cup {DrawnAlpha(picture)})
      /\ Len(head \o tail) = colors + (IF HasAlpha(m) THEN 1 ELSE 0)
      /\ \A c \in 1 .. colors : (head \o tail)[c] = head[c]
      /\ HasAlpha(m) => (head \o tail)[colors + 1] = DrawnAlpha(picture)
  <2>1. CASE HasAlpha(m)
    <3>1. tail = <<DrawnAlpha(picture)>>
      BY <2>1
    <3> HIDE DEF tail
    <3> DEFINE d == DrawnAlpha(picture)
               T == S \cup {d}
    <3> HIDE DEF d
    <3>2. head \in Seq(T) /\ tail \in Seq(T) /\ Len(tail) = 1 /\ tail[1] = d
      <4>1. tail = <<d>> /\ d \in T
        BY <3>1 DEF d
      <4>2. \A k \in 1 .. Len(head) : head[k] \in T
        BY <1>4
      <4>3. head = [k \in 1 .. Len(head) |-> head[k]] /\ Len(head) \in Nat
        BY <1>4
      <4> HIDE DEF T
      <4>4. <<d>> \in Seq(T) /\ Len(<<d>>) = 1 /\ <<d>>[1] = d
        BY <4>1
      <4>5. [k \in 1 .. Len(head) |-> head[k]] \in Seq(T)
        BY <4>2, <4>3
      <4> QED
        BY <4>1, <4>3, <4>4, <4>5
    <3> HIDE DEF T
    <3>3. /\ head \o tail \in Seq(T) /\ Len(head \o tail) = Len(head) + Len(tail)
          /\ \A k \in 1 .. Len(head) + Len(tail) :
               (head \o tail)[k] = IF k <= Len(head) THEN head[k] ELSE tail[k - Len(head)]
      BY <3>2, ConcatProperties
    <3>4. \A c \in 1 .. colors : c \in 1 .. Len(head) + Len(tail) /\ c <= Len(head)
      BY <1>1, <1>4, <3>2
    <3>5. /\ colors + 1 \in 1 .. Len(head) + Len(tail) /\ ~(colors + 1 <= Len(head))
          /\ (colors + 1) - Len(head) = 1
      BY <1>1, <1>4, <3>2
    <3> QED
      BY <1>1, <1>4, <2>1, <3>2, <3>3, <3>4, <3>5 DEF T, d
  <2>2. CASE ~HasAlpha(m)
    <3>1. tail = <<>>
      BY <2>2
    <3> HIDE DEF tail
    <3> QED
      BY <1>1, <1>4, <2>2, <3>1
  <2> QED
    BY <2>1, <2>2
<1> HIDE DEF tail
<1>6. Wanted(picture, m, space) = head \o tail
  BY DEF Wanted, head, tail, color, colors
<1>7. ChannelCount(m) = colors + (IF HasAlpha(m) THEN 1 ELSE 0)
  BY DEF ChannelCount, colors
<1>8. ASSUME NEW c \in 1 .. ChannelCount(m)
      PROVE  (head \o tail)[c] = WantedPlane(picture, m, space, c)
  <2>1. CASE c <= colors
    <3>1. (head \o tail)[c] = [y \in 0 .. picture.ysize - 1 |->
                                 DrawnRow(picture, Power(picture, m), space, c - 1, y)]
      <4>1. c \in 1 .. colors /\ c \in 1 .. 3
        BY <1>1, <1>7, <2>1
      <4> QED
        BY <1>3, <1>4, <1>5, <4>1
    <3>2. \A x, y : ChannelSample(picture, m, space, c, x, y)
            = Multiple(Drawn(picture, c - 1, x, y), Power(picture, m), Drawn(picture, 3, x, y),
                       space)
      BY <2>1 DEF ChannelSample, colors
    <3> QED
      BY <3>1, <3>2 DEF DrawnRow, WantedPlane
  <2>2. CASE ~(c <= colors)
    <3>1. HasAlpha(m) /\ c = colors + 1
      BY <1>1, <1>7, <2>2
    <3>2. \A x, y : ChannelSample(picture, m, space, c, x, y) = Drawn(picture, 3, x, y)
      BY <2>2 DEF ChannelSample, colors
    <3>3. WantedPlane(picture, m, space, c) = DrawnAlpha(picture)
      BY <3>2 DEF DrawnAlpha, WantedPlane
    <3> QED
      BY <1>5, <3>1, <3>3
  <2> QED
    BY <2>1, <2>2
<1> QED
  BY <1>1, <1>5, <1>6, <1>7, <1>8

SampleOf(n, d, p, a, half, space) ==
  [n |-> n, d |-> d, p |-> p, a |-> a, half |-> half, space |-> space]

LEMMA SampleFields ==
    ASSUME NEW s \in Samples
    PROVE  s = SampleOf(s.n, s.d, 0, NoAlpha, FALSE, s.space) /\ s.n \in Nat /\ s.d \in Nat \ {0}
<1>1. s = [n |-> s.n, d |-> s.d, p |-> s.p, a |-> s.a, half |-> s.half, space |-> s.space]
  BY DEF Samples
<1>2. /\ s.n \in Nat /\ s.d \in Nat \ {0} /\ s.p \in {0} /\ s.a \in {NoAlpha}
      /\ s.half \in {FALSE}
  BY DEF Samples
<1>3. s.p = 0 /\ s.a = NoAlpha
  BY <1>2
<1>4. s.half = FALSE
  BY <1>2, Zenon
<1> QED
  BY <1>1, <1>2, <1>3, <1>4, Zenon DEF SampleOf

LEMMA MultipleFields ==
    ASSUME NEW n, NEW d, NEW half, NEW from, NEW power, NEW alpha, NEW space
    PROVE  Multiple(SampleOf(n, d, 0, NoAlpha, half, from), power, alpha, space)
             = SampleOf(n, d, power, IF power = 0 THEN NoAlpha ELSE <<alpha.n, alpha.d>>, half,
                        space)
<1> DEFINE a == IF power = 0 THEN NoAlpha ELSE <<alpha.n, alpha.d>>
           s == SampleOf(n, d, 0, NoAlpha, half, from)
<1>1. Multiple(s, power, alpha, space) = [s EXCEPT !.space = space, !.p = power, !.a = a]
  BY DEF Multiple
<1> HIDE DEF a
<1>2. [s EXCEPT !.space = space] = SampleOf(n, d, 0, NoAlpha, half, space)
  BY DEF SampleOf
<1>3. [SampleOf(n, d, 0, NoAlpha, half, space) EXCEPT !.p = power]
        = SampleOf(n, d, power, NoAlpha, half, space)
  BY DEF SampleOf
<1>4. [SampleOf(n, d, power, NoAlpha, half, space) EXCEPT !.a = a]
        = SampleOf(n, d, power, a, half, space)
  BY DEF SampleOf
<1>5. [s EXCEPT !.space = space, !.p = power, !.a = a]
        = [[[s EXCEPT !.space = space] EXCEPT !.p = power] EXCEPT !.a = a]
  OBVIOUS
<1> HIDE DEF s
<1>6. Multiple(s, power, alpha, space) = SampleOf(n, d, power, a, half, space)
  BY <1>1, <1>2, <1>3, <1>4, <1>5
<1> QED
  BY <1>6 DEF a, s

LEMMA RoundedRenders ==
    ASSUME NEW picture, IsPicture(picture), NEW m, NEW space, NEW from, space # "alpha",
           from # "alpha", NEW c \in 1 .. ChannelCount(m),
           NEW x \in 0 .. picture.xsize - 1, NEW y \in 0 .. picture.ysize - 1,
           NEW bits, NEW float \in BOOLEAN, bits \in IF float THEN {16, 32} ELSE 1 .. 16
    PROVE  /\ IsWorth(Worth(ChannelSample(picture, m, space, c, x, y)))
           /\ Renders(Rounded(ChannelSample(picture, m, space, c, x, y), bits, float),
                      ChannelSample(picture, m, from, c, x, y), space, bits, float)
<1> DEFINE s == ChannelSample(picture, m, from, c, x, y)
           r == ChannelSample(picture, m, space, c, x, y)
           alpha == Drawn(picture, 3, x, y)
           colors == ColorChannels(m.color_encoding)
           to == IF c <= colors THEN space ELSE "alpha"
<1>1. colors \in {1, 3} /\ c \in 1 .. 4 /\ Power(picture, m) \in {-1, 0, 1}
  <2>1. colors \in {1, 3}
    BY DEF ColorChannels
  <2>2. c \in 1 .. 4
    <3>1. ChannelCount(m) \in 1 .. 4
      BY WantedChannels
    <3> QED
      BY <3>1
  <2>3. Power(picture, m) \in {-1, 0, 1}
    BY DEF Power
  <2> QED
    BY <2>1, <2>2, <2>3
<1>2. alpha \in Samples /\ alpha.space = "alpha"
  BY DEF IsPicture, Drawn
<1>3. \E n \in Nat, d \in Nat \ {0}, p \in {-1, 0, 1}, a1 \in Nat, a2 \in Nat \ {0} :
        /\ s = SampleOf(n, d, p, <<a1, a2>>, FALSE, IF c <= colors THEN from ELSE "alpha")
        /\ r = SampleOf(n, d, p, <<a1, a2>>, FALSE, to)
  <2>1. CASE c <= colors
    <3> DEFINE t == Drawn(picture, c - 1, x, y)
               p == Power(picture, m)
               a == IF p = 0 THEN NoAlpha ELSE <<alpha.n, alpha.d>>
               a1 == IF p = 0 THEN 1 ELSE alpha.n
               a2 == IF p = 0 THEN 1 ELSE alpha.d
    <3>1. t \in Samples
      BY <1>1, <2>1 DEF IsPicture, Drawn
    <3>2. s = Multiple(t, p, alpha, from) /\ r = Multiple(t, p, alpha, space)
      BY <2>1 DEF ChannelSample
    <3>3. /\ t = SampleOf(t.n, t.d, 0, NoAlpha, FALSE, t.space)
          /\ t.n \in Nat /\ t.d \in Nat \ {0} /\ alpha.n \in Nat /\ alpha.d \in Nat \ {0}
      BY <1>2, <3>1, SampleFields
    <3> HIDE DEF s, r, t, alpha, p
    <3>4. a = <<a1, a2>> /\ a1 \in Nat /\ a2 \in Nat \ {0}
      BY <3>3 DEF NoAlpha
    <3>5. /\ Multiple(t, p, alpha, from) = SampleOf(t.n, t.d, p, a, FALSE, from)
          /\ Multiple(t, p, alpha, space) = SampleOf(t.n, t.d, p, a, FALSE, space)
      <4> DEFINE no == FALSE
      <4>1. t = SampleOf(t.n, t.d, 0, NoAlpha, no, t.space)
        BY <3>3
      <4> HIDE DEF no, a
      <4>2. ASSUME NEW to1
            PROVE  Multiple(SampleOf(t.n, t.d, 0, NoAlpha, no, t.space), p, alpha, to1)
                     = SampleOf(t.n, t.d, p, a, no, to1)
        BY MultipleFields DEF a
      <4> QED
        BY <4>1, <4>2 DEF no
    <3> HIDE DEF a, a1, a2
    <3>6. p \in {-1, 0, 1}
      BY <1>1 DEF p
    <3> QED
      BY <2>1, <3>2, <3>3, <3>4, <3>5, <3>6
  <2>2. CASE ~(c <= colors)
    <3>1. s = alpha /\ r = alpha
      BY <2>2 DEF ChannelSample
    <3>2. /\ alpha = SampleOf(alpha.n, alpha.d, 0, NoAlpha, FALSE, "alpha")
          /\ alpha.n \in Nat /\ alpha.d \in Nat \ {0}
      BY <1>2, SampleFields
    <3>3. to = "alpha"
      BY <2>2
    <3> DEFINE n == alpha.n
               d == alpha.d
    <3> HIDE DEF s, r, to
    <3>4. n \in Nat /\ d \in Nat \ {0} /\ s = SampleOf(n, d, 0, <<1, 1>>, FALSE, "alpha")
          /\ r = SampleOf(n, d, 0, <<1, 1>>, FALSE, to)
      BY <3>1, <3>2, <3>3 DEF NoAlpha
    <3> HIDE DEF n, d
    <3>5. 0 \in {-1, 0, 1} /\ 1 \in Nat /\ 1 \in Nat \ {0}
      OBVIOUS
    <3> QED
      BY <2>2, <3>4, <3>5
  <2> QED
    BY <2>1, <2>2
<1>4. PICK n \in Nat, d \in Nat \ {0}, p \in {-1, 0, 1}, a1 \in Nat, a2 \in Nat \ {0} :
        /\ s = SampleOf(n, d, p, <<a1, a2>>, FALSE, IF c <= colors THEN from ELSE "alpha")
        /\ r = SampleOf(n, d, p, <<a1, a2>>, FALSE, to)
  BY <1>3
<1> DEFINE a == <<a1, a2>>
           was == IF c <= colors THEN from ELSE "alpha"
<1>5. a = <<a[1], a[2]>> /\ a[1] \in Nat /\ a[2] \in Nat \ {0}
  OBVIOUS
<1>6. to = IF was = "alpha" THEN "alpha" ELSE space
  OBVIOUS
<1>7. s = SampleOf(n, d, p, a, FALSE, was) /\ r = SampleOf(n, d, p, a, FALSE, to)
  BY <1>4
<1> HIDE DEF s, r, to, was, a
<1>8. /\ s.n = n /\ s.d = d /\ s.p = p /\ s.a = a /\ s.space = was
      /\ r.n = n /\ r.d = d /\ r.p = p /\ r.a = a /\ r.space = to
  BY <1>7 DEF SampleOf
<1>9. Worth(r) = Worth(s) /\ IsWorth(Worth(s))
  <2>1. Worth(r) = Worth(s)
    BY <1>8 DEF Worth
  <2>2. CASE p = 0
    BY <1>8, <2>2 DEF IsWorth, Worth
  <2>3. CASE p = 1
    BY <1>5, <1>8, <2>3 DEF IsWorth, Worth
  <2>4. CASE p = -1
    BY <1>5, <1>8, <2>4 DEF IsWorth, Worth
  <2> QED
    BY <2>1, <2>2, <2>3, <2>4
<1>10. CASE float
  <2> DEFINE half == bits = 16
             loaded == Rounded(r, bits, float)
  <2>1. loaded = SampleOf(n, d, p, a, half, to)
    <3>1. CASE bits = 16
      <4>1. loaded = HalfFloat(r) /\ half = TRUE
        BY <1>10, <3>1 DEF Rounded
      <4> QED
        <5> DEFINE no == FALSE
        <5>1. r = SampleOf(n, d, p, a, no, to)
          BY <1>7
        <5> HIDE DEF no
        <5>2. [r EXCEPT !.half = half] = SampleOf(n, d, p, a, half, to)
          BY <5>1 DEF SampleOf
        <5> QED
          BY <4>1, <5>2 DEF HalfFloat
    <3>2. CASE bits # 16
      <4>1. loaded = r /\ half = FALSE
        BY <1>10, <3>2 DEF Rounded
      <4> QED
        BY <1>7, <4>1, Zenon
    <3> QED
      BY <3>1, <3>2
  <2> HIDE DEF half, loaded
  <2>2. loaded.space = to
    BY <2>1 DEF SampleOf
  <2>3. [s EXCEPT !.space = to, !.half = half] = SampleOf(n, d, p, a, half, to)
    <3> DEFINE no == FALSE
    <3>1. s = SampleOf(n, d, p, a, no, was)
      BY <1>7
    <3> HIDE DEF no
    <3>2. [s EXCEPT !.space = to] = SampleOf(n, d, p, a, no, to)
      BY <3>1 DEF SampleOf
    <3>3. [SampleOf(n, d, p, a, no, to) EXCEPT !.half = half] = SampleOf(n, d, p, a, half, to)
      BY DEF SampleOf
    <3>4. [s EXCEPT !.space = to, !.half = half] = [[s EXCEPT !.space = to] EXCEPT !.half = half]
      OBVIOUS
    <3> QED
      BY <3>2, <3>3, <3>4
  <2>4. loaded = [s EXCEPT !.space = loaded.space, !.half = half]
    BY <2>1, <2>2, <2>3
  <2>5. Renders(loaded, s, space, bits, float)
    BY <1>6, <1>8, <1>10, <2>2, <2>4 DEF Renders, half
  <2> QED
    BY <1>9, <2>5 DEF loaded, s, r
<1>11. CASE ~float
  <2> DEFINE k == NearestUint(Worth(s), bits)
             mul == 2 ^ bits - 1
             loaded == Rounded(r, bits, float)
  <2>1. k \in 0 .. mul /\ IsNearest(k, mul, Worth(s))
    BY <1>9, <1>11, NearestIsNearest
  <2>2. mul \in Nat \ {0}
    <3>1. mul = Levels(bits) - 1
      BY DEF Levels
    <3>2. Levels(bits) \in Nat /\ 2 <= Levels(bits)
      BY <1>11, LevelsOf
    <3> HIDE DEF mul
    <3> QED
      BY <3>1, <3>2
  <2>3. loaded = Sample(k, mul, to)
    BY <1>8, <1>9, <1>11 DEF Rounded
  <2> HIDE DEF k, mul, loaded
  <2>4. loaded.space = to /\ (IF loaded.d = 1 THEN loaded.n * mul ELSE loaded.n) = k
    BY <2>1, <2>2, <2>3 DEF Sample
  <2>5. Renders(loaded, s, space, bits, float)
    BY <1>6, <1>8, <1>11, <2>1, <2>4 DEF Renders, mul
  <2> QED
    BY <1>9, <2>5 DEF loaded, s, r
<1> QED
  BY <1>10, <1>11

-----------------------------------------------------------------------------
(* A frame that is packed.                                                 *)

IsFormat(count, format) ==
  \E data_type \in {"float", "uint8", "uint16"}, endianness \in {"native", "big"} :
    format = PixelFormat(count, data_type, endianness)

\* Row v of a packed frame has the bytes of row v of the channels.
HoldsRow(packed, bits, channels, v) ==
  LET row == RowBytes(channels, v, packed.xsize, bits, IsFloat(packed.format.data_type),
                      LittleEndian(packed.format))
  IN  \A k \in 1 .. Len(row) : packed.pixels[packed.stride * v + k] = row[k]

WantedUpright(picture, m, space) == UprightChannels(m.orientation, Wanted(picture, m, space))

PackedSize(picture, m, packed) ==
  /\ packed.xsize = OrientedWidth(m.orientation, picture.xsize, picture.ysize)
  /\ packed.ysize = OrientedHeight(m.orientation, picture.xsize, picture.ysize)
  /\ IsFormat(ChannelCount(m), packed.format)
  /\ packed.stride = CalcStride(packed.format, packed.xsize)
  /\ IsBytes(packed.pixels, packed.ysize * packed.stride)

Finished(picture, m, space, packed) ==
  /\ PackedSize(picture, m, packed)
  /\ \A v \in 0 .. packed.ysize - 1 :
       HoldsRow(packed, PackedBits(m, packed.format), WantedUpright(picture, m, space), v)

Fits(m, format) ==
  /\ BytesPerChannel(PackedBits(m, format)) * kBitsPerByte = BitsPerChannel(format.data_type)
  /\ IsFloat(format.data_type) = (m.bits_per_sample = 32)

LEMMA FormatFits ==
    ASSUME NEW m, IsMetadata(m), NEW format, IsFormat(ChannelCount(m), format), Fits(m, format),
           NEW xsize \in Nat
    PROVE  /\ PackedBits(m, format) \in IF IsFloat(format.data_type) THEN {16, 32} ELSE 1 .. 16
           /\ IsFloat(format.data_type) \in BOOLEAN /\ LittleEndian(format) \in BOOLEAN
           /\ format.num_channels = ChannelCount(m)
           /\ BytesPerChannel(PackedBits(m, format)) \in {1, 2, 4}
           /\ BytesPerChannel(PackedBits(m, format))
                \in IF IsFloat(format.data_type) THEN {2, 4} ELSE {1, 2}
           /\ CalcStride(format, xsize)
                = xsize * ChannelCount(m) * BytesPerChannel(PackedBits(m, format))
<1> DEFINE n == ChannelCount(m)
           bits == m.bits_per_sample
<1>1. PICK data_type \in {"float", "uint8", "uint16"}, endianness \in {"native", "big"} :
        format = PixelFormat(n, data_type, endianness)
  BY DEF IsFormat
<1>2. n \in 1 .. 4 /\ bits \in Nat
  BY WantedChannels DEF IsMetadata
<1> HIDE DEF n, bits
<1>3. /\ format.num_channels = n /\ format.data_type = data_type /\ format.endianness = endianness
      /\ format.align = 0
  BY <1>1 DEF PixelFormat
<1>4. /\ IsFloat(format.data_type) \in BOOLEAN /\ LittleEndian(format) \in BOOLEAN
  BY DEF IsFloat, LittleEndian
<1>5. BytesPerChannel(bits) = (bits + 7) \div 8 /\ BytesPerChannel(32) = 4
  BY <1>2 DEF BytesPerChannel, RoundUpDiv, kBitsPerByte
<1>6. CASE data_type = "float"
  <2>1. IsFloat(data_type) /\ BitsPerChannel(data_type) = 32
    BY <1>6 DEF IsFloat, BitsPerChannel
  <2>2. PackedBits(m, format) = 32
    BY <1>3, <2>1 DEF PackedBits
  <2>3. PixelStride(format) = n * 4
    BY <1>2, <1>3, <2>1 DEF PixelStride, kBitsPerByte
  <2>4. CalcStride(format, xsize) = xsize * n * 4
    BY <1>2, <1>3, <2>3 DEF CalcStride
  <2> QED
    BY <1>3, <1>4, <1>5, <2>1, <2>2, <2>4 DEF n
<1>7. CASE data_type = "uint8"
  <2>1. ~IsFloat(data_type) /\ BitsPerChannel(data_type) = 8
    BY <1>7 DEF IsFloat, BitsPerChannel
  <2>2. PackedBits(m, format) = bits
    BY <1>3, <2>1 DEF PackedBits, bits
  <2>3. BytesPerChannel(bits) * 8 = 8
    BY <1>3, <2>1, <2>2 DEF Fits, kBitsPerByte
  <2>4. BytesPerChannel(bits) = 1 /\ bits \in 1 .. 16
    BY <1>2, <1>5, <2>3
  <2>5. PixelStride(format) = n
    BY <1>2, <1>3, <2>1 DEF PixelStride, kBitsPerByte
  <2>6. CalcStride(format, xsize) = xsize * n * 1
    BY <1>2, <1>3, <2>5 DEF CalcStride
  <2> QED
    BY <1>3, <1>4, <2>1, <2>2, <2>4, <2>6 DEF n
<1>8. CASE data_type = "uint16"
  <2>1. ~IsFloat(data_type) /\ BitsPerChannel(data_type) = 16
    BY <1>8 DEF IsFloat, BitsPerChannel
  <2>2. PackedBits(m, format) = bits
    BY <1>3, <2>1 DEF PackedBits, bits
  <2>3. BytesPerChannel(bits) * 8 = 16
    BY <1>3, <2>1, <2>2 DEF Fits, kBitsPerByte
  <2>4. BytesPerChannel(bits) = 2 /\ bits \in 1 .. 16
    BY <1>2, <1>5, <2>3
  <2>5. PixelStride(format) = n * 2
    BY <1>2, <1>3, <2>1 DEF PixelStride, kBitsPerByte
  <2>6. CalcStride(format, xsize) = xsize * n * 2
    BY <1>2, <1>3, <2>5 DEF CalcStride
  <2> QED
    BY <1>3, <1>4, <2>1, <2>2, <2>4, <2>6 DEF n
<1> QED
  BY <1>6, <1>7, <1>8

LEMMA RowsApart ==
    ASSUME NEW many \in Nat, NEW stride \in Nat, NEW y \in 0 .. many - 1
    PROVE  /\ stride * y \in Nat /\ stride * y + stride <= many * stride /\ many * stride \in Nat
           /\ \A r \in 0 .. many - 1 : r < y => stride * r + stride <= stride * y
<1>1. ASSUME NEW r \in Int, NEW q \in Int, r < q PROVE stride * r + stride <= stride * q
  <2>1. (r + 1) * stride <= q * stride
    BY <1>1
  <2>2. (r + 1) * stride = stride * r + stride /\ q * stride = stride * q
    OBVIOUS
  <2> QED
    BY <2>1, <2>2
<1>2. stride * many = many * stride /\ stride * y \in Nat /\ many * stride \in Nat
  OBVIOUS
<1>3. stride * y + stride <= stride * many
  BY <1>1
<1>4. ASSUME NEW r \in 0 .. many - 1, r < y PROVE stride * r + stride <= stride * y
  BY <1>1, <1>4
<1> QED
  BY <1>2, <1>3, <1>4

LEMMA UprightWanted ==
    ASSUME NEW picture, IsPicture(picture), NEW m, IsMetadata(m), NEW space
    PROVE  LET o == m.orientation
               width == OrientedWidth(o, picture.xsize, picture.ysize)
               height == OrientedHeight(o, picture.xsize, picture.ysize)
               channels == WantedUpright(picture, m, space)
           IN  /\ Len(channels) = ChannelCount(m)
               /\ \A c \in 1 .. ChannelCount(m) :
                    /\ IsPlane(channels[c], width, height)
                    /\ \A y \in 0 .. picture.ysize - 1, x \in 0 .. picture.xsize - 1 :
                         channels[c][PlaceDown(o, x, y, height)][PlaceAcross(o, x, y, width)]
                           = ChannelSample(picture, m, space, c, x, y)
<1> DEFINE o == m.orientation
           width == OrientedWidth(o, picture.xsize, picture.ysize)
           height == OrientedHeight(o, picture.xsize, picture.ysize)
           channels == WantedUpright(picture, m, space)
           wanted == Wanted(picture, m, space)
           n == ChannelCount(m)
           Plane(c) == WantedPlane(picture, m, space, c)
<1>1. /\ o \in 1 .. 8 /\ picture.xsize \in Nat \ {0} /\ picture.ysize \in Nat \ {0}
  BY DEF IsMetadata, IsPicture
<1>2. /\ n \in 1 .. 4 /\ Len(wanted) = n /\ DOMAIN wanted = 1 .. n
      /\ \A c \in 1 .. n : wanted[c] = Plane(c)
  BY WantedChannels
<1>3. ASSUME NEW c \in 1 .. n
      PROVE  /\ IsPlane(Plane(c), picture.xsize, picture.ysize)
             /\ \A y \in 0 .. picture.ysize - 1, x \in 0 .. picture.xsize - 1 :
                  Plane(c)[y][x] = ChannelSample(picture, m, space, c, x, y)
  BY DEF WantedPlane, IsPlane
<1> HIDE DEF n, wanted, Plane
<1>4. ASSUME NEW c \in 1 .. n
      PROVE  /\ IsPlane(UndoOrientation(o, Plane(c)), width, height)
             /\ \A y \in 0 .. picture.ysize - 1, x \in 0 .. picture.xsize - 1 :
                  UndoOrientation(o, Plane(c))[PlaceDown(o, x, y, height)]
                                              [PlaceAcross(o, x, y, width)]
                    = Plane(c)[y][x]
  BY <1>1, <1>3, PlaneUpright
<1>5. CASE o = 1
  <2>1. channels = wanted
    BY <1>5 DEF WantedUpright, UprightChannels, wanted
  <2>2. width = picture.xsize /\ height = picture.ysize
    BY <1>5 DEF OrientedWidth, OrientedHeight
  <2>3. \A x, y : PlaceDown(o, x, y, height) = y /\ PlaceAcross(o, x, y, width) = x
    BY <1>5 DEF PlaceDown, PlaceAcross, FirstRow, FirstColumn, FromSide
  <2> HIDE DEF channels, width, height, o
  <2>4. ASSUME NEW c \in 1 .. n
        PROVE  /\ IsPlane(channels[c], width, height)
               /\ \A y \in 0 .. picture.ysize - 1, x \in 0 .. picture.xsize - 1 :
                    channels[c][PlaceDown(o, x, y, height)][PlaceAcross(o, x, y, width)]
                      = ChannelSample(picture, m, space, c, x, y)
    <3>1. channels[c] = Plane(c)
      BY <1>2, <2>1
    <3> QED
      BY <1>3, <2>2, <2>3, <3>1
  <2> QED
    BY <1>2, <2>1, <2>4 DEF n, channels, width, height, o
<1>6. CASE o # 1
  <2>1. channels = [c \in 1 .. n |-> UndoOrientation(o, wanted[c])]
    BY <1>2, <1>6 DEF WantedUpright, UprightChannels, wanted
  <2>2. Len(channels) = n /\ \A c \in 1 .. n : channels[c] = UndoOrientation(o, Plane(c))
    BY <1>2, <2>1
  <2> HIDE DEF channels, width, height, o
  <2>4. ASSUME NEW c \in 1 .. n
        PROVE  /\ IsPlane(channels[c], width, height)
               /\ \A y \in 0 .. picture.ysize - 1, x \in 0 .. picture.xsize - 1 :
                    channels[c][PlaceDown(o, x, y, height)][PlaceAcross(o, x, y, width)]
                      = ChannelSample(picture, m, space, c, x, y)
    BY <1>3, <1>4, <2>2
  <2> QED
    BY <2>2, <2>4 DEF n, channels, width, height, o
<1> QED
  BY <1>5, <1>6

LEMMA SampleLoaded ==
    ASSUME NEW picture, IsPicture(picture), NEW m, IsMetadata(m), NEW space, space # "alpha",
           NEW packed, Finished(picture, m, space, packed), Fits(m, packed.format),
           NEW c \in 0 .. ChannelCount(m) - 1,
           NEW u \in 0 .. packed.xsize - 1, NEW v \in 0 .. packed.ysize - 1,
           IsWorth(Worth(WantedUpright(picture, m, space)[c + 1][v][u]))
    PROVE  LoadPlane(packed.pixels, packed.xsize, packed.ysize, ChannelCount(m), c,
                     PackedBits(m, packed.format), IsFloat(packed.format.data_type),
                     LittleEndian(packed.format), 0)[v][u]
             = Rounded(WantedUpright(picture, m, space)[c + 1][v][u],
                       PackedBits(m, packed.format), IsFloat(packed.format.data_type))
<1> DEFINE bits == PackedBits(m, packed.format)
           float == IsFloat(packed.format.data_type)
           le == LittleEndian(packed.format)
           n == ChannelCount(m)
           width == BytesPerChannel(bits)
           channels == WantedUpright(picture, m, space)
           row == RowBytes(channels, v, packed.xsize, bits, float, le)
           k == u * n + c
           from == packed.stride * v + k * width
           b == StoredBytes(ConvertedRow(channels[c + 1][v], bits, float)[u], bits, float, le)
           xsize == packed.xsize
           ysize == packed.ysize
           stride == packed.stride
<1>1. /\ xsize \in Nat \ {0} /\ ysize \in Nat \ {0}
      /\ IsBytes(packed.pixels, ysize * stride)
      /\ stride = CalcStride(packed.format, xsize)
      /\ IsFormat(n, packed.format)
      /\ HoldsRow(packed, bits, channels, v)
  BY DEF Finished, PackedSize, OrientedWidth, OrientedHeight, IsPicture
<1>2. /\ bits \in (IF float THEN {16, 32} ELSE 1 .. 16)
      /\ float \in BOOLEAN /\ le \in BOOLEAN
      /\ width \in {1, 2, 4} /\ width \in (IF float THEN {2, 4} ELSE {1, 2})
      /\ stride = xsize * n * width
  BY <1>1, FormatFits
<1>3. n \in 1 .. 4 /\ Len(channels) = n /\ IsPlane(channels[c + 1], xsize, ysize)
  <2>1. n \in 1 .. 4
    BY WantedChannels
  <2>2. c + 1 \in 1 .. n
    BY <2>1
  <2>3. Len(channels) = n /\ IsPlane(channels[c + 1], OrientedWidth(m.orientation, picture.xsize, picture.ysize),
                 OrientedHeight(m.orientation, picture.xsize, picture.ysize))
    BY <2>2, UprightWanted
  <2> QED
    BY <2>1, <2>3 DEF Finished, PackedSize
<1>4. bits \in Nat
  BY <1>2
<1> HIDE DEF bits, float, le, n, width, channels, xsize, ysize, stride
<1>5. k \in 0 .. xsize * n - 1 /\ xsize * n \in Nat
  <2>1. c \in 0 .. n - 1 /\ u \in 0 .. xsize - 1
    BY DEF n, xsize
  <2> QED
    BY <1>1, <1>3, <2>1, ColumnOf
<1> HIDE DEF k
<1>6. ASSUME NEW e \in 1 .. width
      PROVE  /\ k * width + e \in 1 .. stride /\ k * width \in Nat /\ stride \in Nat
             /\ k * width + width <= stride
  <2> DEFINE many == xsize * n
  <2>1. many \in Nat /\ k \in 0 .. many - 1 /\ stride = many * width
    BY <1>2, <1>5
  <2> HIDE DEF many
  <2> QED
    BY <1>2, <2>1, PieceOf
<1>7. k * width \in Nat /\ stride \in Nat /\ k * width + width <= stride
  <2>1. 1 \in 1 .. width
    BY <1>2
  <2> QED
    BY <1>6, <2>1
<1>8. Len(row) = stride
  <2>1. BytesPerChannel(bits) \in {0, 1, 2, 4} /\ Len(channels) \in 1 .. 4
    BY <1>2, <1>3 DEF width
  <2>2. Len(RowBytes(channels, v, xsize, bits, float, le))
          = xsize * Len(channels) * BytesPerChannel(bits)
    BY <1>1, <1>2, <1>4, <2>1, RowLength
  <2>3. row = RowBytes(channels, v, xsize, bits, float, le)
    BY DEF xsize
  <2> HIDE DEF row
  <2> QED
    BY <1>2, <1>3, <2>2, <2>3 DEF width
<1>9. ASSUME NEW e \in 1 .. width
      PROVE  packed.pixels[from + e] = b[e]
  <2>1. packed.pixels[stride * v + (k * width + e)] = row[k * width + e]
    BY <1>1, <1>6, <1>8, <1>9 DEF HoldsRow, bits, float, le, channels, stride
  <2>2. row[k * width + e] = b[e]
    <3>1. c \in 0 .. Len(channels) - 1 /\ u \in 0 .. xsize - 1 /\ e \in 1 .. BytesPerChannel(bits)
      BY <1>3, <1>9 DEF n, width, xsize
    <3>2. RowBytes(channels, v, xsize, bits, float, le)
            [(u * Len(channels) + c) * BytesPerChannel(bits) + e]
            = StoredBytes(ConvertedRow(channels[c + 1][v], bits, float)[u], bits, float, le)[e]
      <4>1. BytesPerChannel(bits) \in {1, 2, 4} /\ Len(channels) \in 1 .. 4
        BY <1>2, <1>3 DEF width
      <4> QED
        <5>1. HoldsSample(channels, v, xsize, bits, float, le, u, c)
          BY <1>1, <1>2, <1>4, <3>1, <4>1, RowByte
        <5> QED
          BY <3>1, <5>1 DEF HoldsSample
    <3> QED
      BY <1>3, <3>2 DEF k, width, xsize
  <2>3. stride * v \in Nat
    BY <1>7 DEF ysize
  <2>4. stride * v + (k * width + e) = from + e
    <3>1. \A p, q \in Nat : p + (q + e) = (p + q) + e
      BY <1>2
    <3> QED
      BY <1>7, <2>3, <3>1 DEF stride
  <2> QED
    BY <2>1, <2>2, <2>4
<1>10. from \in Nat /\ from + width <= ysize * stride /\ ysize * stride \in Nat
  <2>1. stride * v \in Nat /\ stride * v + stride <= ysize * stride /\ ysize * stride \in Nat
    <3>1. v \in 0 .. ysize - 1 /\ ysize \in Nat
      BY <1>1 DEF ysize
    <3> QED
      BY <1>7, <3>1, RowsApart
  <2>2. from = stride * v + k * width
    BY DEF stride
  <2> DEFINE p == stride * v
             q == k * width
             total == ysize * stride
  <2>3. p \in Nat /\ q \in Nat /\ p + stride <= total /\ total \in Nat /\ q + width <= stride
        /\ from = p + q /\ stride \in Nat /\ width \in Nat
    BY <1>2, <1>7, <2>1, <2>2
  <2> HIDE DEF p, q, total, from
  <2>4. from \in Nat /\ from + width <= total /\ total \in Nat
    BY <2>3
  <2> QED
    BY <2>4 DEF total
<1>11. IsBytes(b, width)
  BY <1>2, <1>4, StoredWidth DEF width
<1>12. width \in Nat
  BY <1>2
<1> HIDE DEF from, b, row
<1>13. SubSeq(packed.pixels, from + 1, from + width) = b
  BY <1>1, <1>9, <1>10, <1>11, <1>12, BytesAt
<1>14. LoadPlane(packed.pixels, xsize, ysize, n, c, bits, float, le, 0)[v][u]
         = Load(SubSeq(packed.pixels, from + 1, from + width), bits, float, le)
  <2>1. v \in 0 .. ysize - 1 /\ u \in 0 .. xsize - 1
    BY DEF xsize, ysize
  <2>2. RowSize(xsize, n, bits, 0) = stride
    BY <1>2 DEF RowSize, width
  <2>3. from = RowSize(xsize, n, bits, 0) * v + (u * n + c) * width
    BY <2>2 DEF from, k, stride
  <2>4. LoadPlane(packed.pixels, xsize, ysize, n, c, bits, float, le, 0)[v][u]
          = Load(SubSeq(packed.pixels, RowSize(xsize, n, bits, 0) * v + (u * n + c) * width + 1,
                        RowSize(xsize, n, bits, 0) * v + (u * n + c) * width + width),
                 bits, float, le)
    BY <2>1 DEF LoadPlane, width
  <2> QED
    BY <2>3, <2>4
<1>15. Load(b, bits, float, le) = Rounded(channels[c + 1][v][u], bits, float)
  <2>1. v \in 0 .. ysize - 1 /\ u \in 0 .. xsize - 1
    BY DEF xsize, ysize
  <2>2. u \in DOMAIN channels[c + 1][v]
    BY <1>3, <2>1 DEF IsPlane
  <2>3. IsWorth(Worth(channels[c + 1][v][u]))
    BY DEF channels
  <2> QED
    <3> DEFINE plane_row == channels[c + 1][v]
    <3>1. u \in DOMAIN plane_row /\ IsWorth(Worth(plane_row[u]))
      BY <2>2, <2>3
    <3> HIDE DEF plane_row
    <3>2. Load(StoredBytes(ConvertedRow(plane_row, bits, float)[u], bits, float, le), bits, float, le)
            = Rounded(plane_row[u], bits, float)
      <4>1. Load(StoredBytes(Converted(plane_row[u], bits, float), bits, float, le),
                 bits, float, le) = Rounded(plane_row[u], bits, float)
        BY <1>2, <3>1, ConvertedLoads
      <4>2. ConvertedRow(plane_row, bits, float)[u] = Converted(plane_row[u], bits, float)
        BY <1>2, <3>1, ConvertedSample
      <4> QED
        BY <4>1, <4>2
    <3> QED
      BY <3>2 DEF b, plane_row
<1> QED
  BY <1>13, <1>14, <1>15 DEF bits, float, le, n, channels, xsize, ysize

LEMMA FrameShown ==
    ASSUME NEW picture, IsPicture(picture), NEW m, IsMetadata(m), NEW space, space # "alpha",
           NEW packed, Finished(picture, m, space, packed), Fits(m, packed.format),
           NEW ib, Shows(picture, m, ib), ib.c_current.space # "alpha",
           NEW c \in DOMAIN ExternalChannels(m, ib),
           NEW x \in 0 .. XSize(ib) - 1, NEW y \in 0 .. YSize(ib) - 1
    PROVE  LET channels == ExternalChannels(m, ib)
               bits == PackedBits(m, packed.format)
               float == IsFloat(packed.format.data_type)
               loaded == LoadPlane(packed.pixels, packed.xsize, packed.ysize, Len(channels),
                                   c - 1, bits, float, LittleEndian(packed.format), 0)
           IN  Renders(loaded[PlaceDown(m.orientation, x, y, packed.ysize)]
                             [PlaceAcross(m.orientation, x, y, packed.xsize)],
                       channels[c][y][x], space, bits, float)
<1> DEFINE o == m.orientation
           n == ChannelCount(m)
           from == ib.c_current.space
           channels == ExternalChannels(m, ib)
           wanted == WantedUpright(picture, m, space)
           bits == PackedBits(m, packed.format)
           float == IsFloat(packed.format.data_type)
           v == PlaceDown(o, x, y, packed.ysize)
           u == PlaceAcross(o, x, y, packed.xsize)
           width == OrientedWidth(o, picture.xsize, picture.ysize)
           height == OrientedHeight(o, picture.xsize, picture.ysize)
<1>1. /\ x \in 0 .. picture.xsize - 1 /\ y \in 0 .. picture.ysize - 1
      /\ picture.xsize \in Nat \ {0} /\ picture.ysize \in Nat \ {0} /\ o \in 1 .. 8
  BY SizeOfDrawn DEF IsPicture, IsMetadata
<1>2. packed.xsize = width /\ packed.ysize = height /\ IsFormat(n, packed.format)
  BY DEF Finished, PackedSize
<1>3. /\ n \in 1 .. 4 /\ Len(channels) = n /\ c \in 1 .. n
      /\ channels[c][y][x] = ChannelSample(picture, m, from, c, x, y)
  <2>1. channels = Wanted(picture, m, from)
    BY ShownIsWanted
  <2>2. n \in 1 .. 4 /\ Len(channels) = n /\ c \in 1 .. n
        /\ channels[c] = WantedPlane(picture, m, from, c)
    BY <2>1, WantedChannels
  <2> QED
    BY <1>1, <2>2 DEF WantedPlane
<1>4. u \in 0 .. packed.xsize - 1 /\ v \in 0 .. packed.ysize - 1
  BY <1>1, <1>2, PlacedUpright
<1>5. wanted[c][v][u] = ChannelSample(picture, m, space, c, x, y)
  BY <1>1, <1>2, <1>3, UprightWanted
<1>6. bits \in (IF float THEN {16, 32} ELSE 1 .. 16) /\ float \in BOOLEAN
  <2>1. packed.xsize \in Nat
    BY <1>1, <1>2 DEF OrientedWidth
  <2> QED
    BY <1>2, <2>1, FormatFits
<1>7. /\ IsWorth(Worth(ChannelSample(picture, m, space, c, x, y)))
      /\ Renders(Rounded(ChannelSample(picture, m, space, c, x, y), bits, float),
                 ChannelSample(picture, m, from, c, x, y), space, bits, float)
  BY <1>1, <1>3, <1>6, RoundedRenders
<1>8. c - 1 \in 0 .. n - 1 /\ (c - 1) + 1 = c
  BY <1>3
<1> HIDE DEF n, u, v, wanted, bits, float, channels, from
<1>9. LoadPlane(packed.pixels, packed.xsize, packed.ysize, n, c - 1, bits, float,
                LittleEndian(packed.format), 0)[v][u]
        = Rounded(wanted[c][v][u], bits, float)
  <2>1. IsWorth(Worth(WantedUpright(picture, m, space)[(c - 1) + 1][v][u]))
    BY <1>5, <1>7, <1>8 DEF wanted
  <2> QED
    BY <1>4, <1>8, <2>1, SampleLoaded DEF n, wanted, bits, float
<1>10. Renders(LoadPlane(packed.pixels, packed.xsize, packed.ysize, Len(channels), c - 1, bits,
                         float, LittleEndian(packed.format), 0)[v][u],
               channels[c][y][x], space, bits, float)
  BY <1>3, <1>5, <1>7, <1>9
<1> QED
  BY <1>10 DEF u, v, bits, float, channels

-----------------------------------------------------------------------------
(* The rows of a frame that is packed.                                     *)

IsContainer(for) ==
  \E data_type \in {"float", "uint8", "uint16"}, endianness \in {"native", "big"} :
    for.format = PixelFormat(0, data_type, endianness)

LEMMA FormatOfContainer ==
    ASSUME NEW m, NEW for, IsContainer(for)
    PROVE  LET format == FrameFormat(m, for.format)
           IN  /\ IsFormat(ChannelCount(m), format)
               /\ format.data_type = for.format.data_type
               /\ LittleEndian(format) = LittleEndian(for.format)
               /\ PackedBits(m, format) = PackedBits(m, for.format)
<1> DEFINE n == ChannelCount(m)
           format == FrameFormat(m, for.format)
<1>1. PICK data_type \in {"float", "uint8", "uint16"}, endianness \in {"native", "big"} :
        for.format = PixelFormat(0, data_type, endianness)
  BY DEF IsContainer
<1>2. format = [for.format EXCEPT !.num_channels = n]
  BY DEF FrameFormat, ChannelCount
<1> HIDE DEF n, format
<1>3. format = PixelFormat(n, data_type, endianness)
  BY <1>1, <1>2 DEF PixelFormat
<1>4. format.data_type = for.format.data_type /\ format.endianness = for.format.endianness
  BY <1>1, <1>3 DEF PixelFormat
<1>5. LittleEndian(format) = LittleEndian(for.format)
  BY <1>4 DEF LittleEndian
<1>6. PackedBits(m, format) = PackedBits(m, for.format)
  BY <1>4 DEF PackedBits
<1> QED
  BY <1>3, <1>4, <1>5, <1>6 DEF IsFormat, n, format

PackedFields == {"xsize", "ysize", "format", "stride", "pixels"}

\* What the cache has for a thread that is at row y.
Cached(j, t, y) ==
  \A c \in 0 .. Len(j.channels) - 1 :
    j.buffers[CacheRow(c, t, Len(j.channels))]
      = ConvertedRow(j.channels[1 + c][y], j.bits, IsFloat(j.packed.format.data_type))

Storing(picture, m, j) ==
  /\ StoreForm(j) /\ RowsOK(j) /\ IsContainer(j.for)
  /\ PackedFields \subseteq DOMAIN j.packed /\ PackedSize(picture, m, j.packed)
  /\ j.packed.format = FrameFormat(m, j.for.format) /\ j.rows = j.packed.ysize
  /\ j.bits = PackedBits(m, j.packed.format)
  /\ IsFloat(j.packed.format.data_type) \/ j.bits <= 16
  /\ j.channels = WantedUpright(picture, m, j.target.space)
  /\ ChannelCount(m) * BytesPerChannel(j.bits) * j.packed.xsize <= j.packed.stride
  /\ DOMAIN j.buffers = DOMAIN NoBuffers
  /\ \A t \in PoolThreads : j.at[t] # -1 => Cached(j, t, j.at[t])
  /\ \A y \in 0 .. j.rows - 1 : Handled(j, y) => HoldsRow(j.packed, j.bits, j.channels, y)

LEMMA RowTaken ==
    ASSUME NEW j, RowsOK(j), NEW t \in PoolThreads, j.at[t] = -1, j.next < j.rows, NEW g,
           g.rows = j.rows, g.next = j.next + 1, g.at = [j.at EXCEPT ![t] = j.next]
    PROVE  RowsOK(g) /\ \A y \in Nat : Handled(g, y) => Handled(j, y)
<1>1. /\ j.rows \in Nat /\ j.next \in 0 .. j.rows /\ j.at \in [PoolThreads -> Int]
      /\ \A s \in PoolThreads : j.at[s] \in -1 .. j.next - 1
      /\ \A s, u \in PoolThreads : j.at[s] = j.at[u] /\ j.at[s] # -1 => s = u
  BY DEF RowsOK
<1>2. \A s \in PoolThreads : g.at[s] = IF s = t THEN j.next ELSE j.at[s]
  BY <1>1
<1>3. g.at \in [PoolThreads -> Int] /\ \A s \in PoolThreads : g.at[s] \in -1 .. g.next - 1
  BY <1>1, <1>2
<1>4. \A s, u \in PoolThreads : g.at[s] = g.at[u] /\ g.at[s] # -1 => s = u
  BY <1>1, <1>2
<1>5. RowsOK(g)
  BY <1>1, <1>3, <1>4 DEF RowsOK
<1>6. ASSUME NEW y \in Nat, Handled(g, y) PROVE Handled(j, y)
  <2>1. y < j.next + 1 /\ \A s \in PoolThreads : g.at[s] # y
    BY <1>6 DEF Handled
  <2>2. y # j.next
    BY <1>2, <2>1
  <2>3. \A s \in PoolThreads : j.at[s] # y
    BY <1>2, <2>1
  <2> QED
    BY <1>1, <2>1, <2>2, <2>3 DEF Handled
<1> QED
  BY <1>5, <1>6

LEMMA RowGiven ==
    ASSUME NEW j, RowsOK(j), NEW t \in PoolThreads, j.at[t] # -1, NEW g,
           g.rows = j.rows, g.next = j.next, g.at = [j.at EXCEPT ![t] = -1]
    PROVE  /\ RowsOK(g) /\ j.at[t] \in 0 .. j.rows - 1
           /\ \A y \in Nat : Handled(g, y) => Handled(j, y) \/ y = j.at[t]
<1>1. /\ j.rows \in Nat /\ j.next \in 0 .. j.rows /\ j.at \in [PoolThreads -> Int]
      /\ \A s \in PoolThreads : j.at[s] \in -1 .. j.next - 1
      /\ \A s, u \in PoolThreads : j.at[s] = j.at[u] /\ j.at[s] # -1 => s = u
  BY DEF RowsOK
<1>2. \A s \in PoolThreads : g.at[s] = IF s = t THEN -1 ELSE j.at[s]
  BY <1>1
<1>3. g.at \in [PoolThreads -> Int] /\ \A s \in PoolThreads : g.at[s] \in -1 .. g.next - 1
  BY <1>1, <1>2
<1>4. \A s, u \in PoolThreads : g.at[s] = g.at[u] /\ g.at[s] # -1 => s = u
  BY <1>1, <1>2
<1>5. RowsOK(g)
  BY <1>1, <1>3, <1>4 DEF RowsOK
<1>6. ASSUME NEW y \in Nat, Handled(g, y), y # j.at[t] PROVE Handled(j, y)
  <2>1. y < j.next /\ \A s \in PoolThreads : g.at[s] # y
    BY <1>6 DEF Handled
  <2>2. \A s \in PoolThreads : j.at[s] # y
    BY <1>2, <1>6, <2>1
  <2> QED
    BY <2>1, <2>2 DEF Handled
<1>7. j.at[t] \in 0 .. j.rows - 1
  BY <1>1
<1> QED
  BY <1>5, <1>6, <1>7

(* The cache has a place for each channel of each thread.                  *)
LEMMA CachesApart ==
    ASSUME NEW n \in 1 .. 4, NEW t \in PoolThreads, NEW u \in PoolThreads,
           NEW c \in 0 .. n - 1, NEW d \in 0 .. n - 1
    PROVE  /\ CacheRow(c, t, n) \in DOMAIN NoBuffers
           /\ CacheRow(c, t, n) = CacheRow(d, u, n) => t = u /\ c = d
<1> DEFINE size == Cardinality(PoolThreads)
<1>1. size \in Nat /\ t \in 0 .. size - 1 /\ u \in 0 .. size - 1
  BY PoolAssumption, FS_CardinalityType
<1>2. DOMAIN NoBuffers = 0 .. 4 * size - 1
  BY DEF NoBuffers
<1> HIDE DEF size
<1>3. t \in Nat /\ u \in Nat /\ t <= size - 1
  BY <1>1
<1> USE <1>1, <1>2, <1>3 DEF CacheRow
<1>4. CASE n = 1
  BY <1>4
<1>5. CASE n = 2
  BY <1>5
<1>6. CASE n = 3
  BY <1>6
<1>7. CASE n = 4
  BY <1>7
<1> QED
  BY <1>4, <1>5, <1>6, <1>7

(* The facts about a job that do not change.                               *)
LEMMA StoringSizes ==
    ASSUME NEW picture, IsPicture(picture), NEW m, IsMetadata(m), NEW j, Storing(picture, m, j)
    PROVE  LET packed == j.packed
               float == IsFloat(packed.format.data_type)
           IN  /\ packed.xsize \in Nat \ {0} /\ packed.ysize \in Nat \ {0}
               /\ packed.stride \in Nat
               /\ IsBytes(packed.pixels, packed.ysize * packed.stride)
               /\ j.bits \in Nat /\ float \in BOOLEAN
               /\ LittleEndian(packed.format) \in BOOLEAN
               /\ BytesPerChannel(j.bits) \in {0, 1, 2, 4}
               /\ Len(j.channels) = ChannelCount(m) /\ Len(j.channels) \in 1 .. 4
               /\ IsFloat(j.for.format.data_type) = float
               /\ LittleEndian(j.for.format) = LittleEndian(packed.format)
               /\ \A y : Len(RowBytes(j.channels, y, packed.xsize, j.bits, float,
                                      LittleEndian(packed.format))) \in 0 .. packed.stride
<1> DEFINE packed == j.packed
           format == packed.format
           float == IsFloat(format.data_type)
           le == LittleEndian(format)
           n == ChannelCount(m)
<1>1. /\ IsContainer(j.for) /\ PackedSize(picture, m, packed)
      /\ format = FrameFormat(m, j.for.format)
      /\ j.bits = PackedBits(m, format) /\ (float \/ j.bits <= 16)
      /\ j.channels = WantedUpright(picture, m, j.target.space)
      /\ n * BytesPerChannel(j.bits) * packed.xsize <= packed.stride
  BY DEF Storing
<1>2. /\ packed.xsize \in Nat \ {0} /\ packed.ysize \in Nat \ {0}
      /\ packed.stride = CalcStride(format, packed.xsize)
      /\ IsBytes(packed.pixels, packed.ysize * packed.stride)
  BY <1>1 DEF PackedSize, OrientedWidth, OrientedHeight, IsPicture
<1>3. /\ float = IsFloat(j.for.format.data_type) /\ le = LittleEndian(j.for.format)
      /\ IsFormat(n, format)
  BY <1>1, FormatOfContainer
<1>4. n \in 1 .. 4 /\ Len(j.channels) = n
  <2>1. n \in 1 .. 4
    BY WantedChannels
  <2>2. Len(WantedUpright(picture, m, j.target.space)) = n
    BY UprightWanted
  <2> QED
    BY <1>1, <2>1, <2>2
<1>5. float \in BOOLEAN /\ le \in BOOLEAN
  BY DEF IsFloat, LittleEndian
<1>6. m.bits_per_sample \in Nat
  BY DEF IsMetadata
<1> HIDE DEF n
<1>7. PICK data_type \in {"float", "uint8", "uint16"}, endianness \in {"native", "big"} :
        format = PixelFormat(n, data_type, endianness)
  BY <1>3 DEF IsFormat
<1>8. /\ format.data_type = data_type /\ format.num_channels = n /\ format.align = 0
  BY <1>7 DEF PixelFormat
<1>9. j.bits \in Nat /\ BytesPerChannel(j.bits) \in {0, 1, 2, 4}
  <2>1. BytesPerChannel(j.bits) = (j.bits + 7) \div 8
    BY <1>1, <1>6, <1>8 DEF BytesPerChannel, RoundUpDiv, kBitsPerByte, PackedBits, IsFloat, BitsPerChannel
  <2>2. CASE data_type = "float"
    <3>1. j.bits = 32
      BY <1>1, <1>8, <2>2 DEF PackedBits, IsFloat, BitsPerChannel
    <3> QED
      BY <2>1, <3>1
  <2>3. CASE data_type # "float"
    <3>1. j.bits = m.bits_per_sample /\ ~float
      BY <1>1, <1>8, <2>3 DEF PackedBits, IsFloat
    <3>2. j.bits \in Nat /\ j.bits <= 16
      BY <1>1, <1>6, <3>1
    <3> QED
      BY <2>1, <3>2
  <2> QED
    BY <2>2, <2>3
<1>10. packed.stride \in Nat
  <2>1. PixelStride(format) \in Nat
    BY <1>4, <1>8 DEF PixelStride, BitsPerChannel, kBitsPerByte
  <2> QED
    BY <1>2, <1>8, <2>1 DEF CalcStride
<1> HIDE DEF float, le, format
<1>11. ASSUME NEW y
       PROVE  Len(RowBytes(j.channels, y, packed.xsize, j.bits, float, le)) \in 0 .. packed.stride
  <2> DEFINE size == packed.xsize
             width == BytesPerChannel(j.bits)
  <2>1. /\ Len(RowBytes(j.channels, y, size, j.bits, float, le)) = size * Len(j.channels) * width
        /\ size * Len(j.channels) * width \in Nat
    <3> DEFINE channels == j.channels
               bits == j.bits
    <3>1. /\ Len(channels) \in 1 .. 4 /\ size \in Nat \ {0} /\ bits \in Nat
          /\ BytesPerChannel(bits) \in {0, 1, 2, 4}
      BY <1>2, <1>4, <1>9
    <3> HIDE DEF channels, bits, size
    <3>2. /\ Len(RowBytes(channels, y, size, bits, float, le))
               = size * Len(channels) * BytesPerChannel(bits)
          /\ size * Len(channels) * BytesPerChannel(bits) \in Nat
      BY <1>5, <3>1, RowLength
    <3> QED
      BY <3>2 DEF channels, bits
  <2>2. size \in Nat /\ width \in Nat /\ n \in Nat /\ n * width * size <= packed.stride
    BY <1>1, <1>2, <1>4, <1>9 DEF format
  <2> HIDE DEF size, width
  <2>3. size * n * width = n * width * size
    BY <2>2
  <2> QED
    BY <1>4, <1>10, <2>1, <2>2, <2>3 DEF size
<1> QED
  BY <1>2, <1>3, <1>4, <1>5, <1>9, <1>10, <1>11 DEF float, le, format, n

\* A job with another row, other buffers and other pixels.
SameJob(g, j) ==
  /\ StoreForm(g) /\ g.frame = j.frame /\ g.target = j.target /\ g.for = j.for
  /\ g.bits = j.bits /\ g.channels = j.channels /\ g.rows = j.rows

RowConverting(j, t) ==
  [j EXCEPT !.next = @ + 1, !.at[t] = j.next,
     !.buffers = [slot \in DOMAIN @ |->
       IF \E c \in 0 .. Len(j.channels) - 1 : slot = CacheRow(c, t, Len(j.channels))
       THEN ConvertedRow(
              j.channels[1 + CHOOSE c \in 0 .. Len(j.channels) - 1 :
                               slot = CacheRow(c, t, Len(j.channels))][j.next],
              j.bits, IsFloat(j.for.format.data_type))
       ELSE @[slot]]]

RowStoring(j, t) ==
  [j EXCEPT !.at[t] = -1,
     !.packed.pixels =
       Overwritten(@, j.packed.stride * j.at[t],
         StoredRow([c \in 1 .. Len(j.channels) |-> j.buffers[CacheRow(c - 1, t, Len(j.channels))]],
                   j.packed.xsize, j.bits, IsFloat(j.for.format.data_type),
                   LittleEndian(j.for.format)))]

(* A thread has filled its rows of the cache, and none of another thread.  *)
LEMMA RowConverted ==
    ASSUME NEW picture, IsPicture(picture), NEW m, IsMetadata(m), NEW j, Storing(picture, m, j),
           NEW t \in PoolThreads, j.at[t] = -1, j.next < j.rows, NEW g,
           g = RowConverting(j, t)
    PROVE  Storing(picture, m, g) /\ SameJob(g, j)
<1> DEFINE n == Len(j.channels)
           float == IsFloat(j.packed.format.data_type)
           At(slot) == CHOOSE c \in 0 .. n - 1 : slot = CacheRow(c, t, n)
           Mine(slot) == \E c \in 0 .. n - 1 : slot = CacheRow(c, t, n)
           filled == [slot \in DOMAIN j.buffers |->
                        IF Mine(slot)
                        THEN ConvertedRow(j.channels[1 + At(slot)][j.next], j.bits, float)
                        ELSE j.buffers[slot]]
<1>1. /\ StoreForm(j) /\ RowsOK(j) /\ DOMAIN j.buffers = DOMAIN NoBuffers
      /\ \A s \in PoolThreads : j.at[s] # -1 => Cached(j, s, j.at[s])
      /\ \A y \in 0 .. j.rows - 1 : Handled(j, y) => HoldsRow(j.packed, j.bits, j.channels, y)
  BY DEF Storing
<1>2. IsFloat(j.for.format.data_type) = float /\ n \in 1 .. 4
  BY StoringSizes
<1>3. g = [j EXCEPT !.next = j.next + 1, !.at[t] = j.next, !.buffers = filled]
  BY <1>2 DEF RowConverting
<1>4. ASSUME NEW c \in 0 .. n - 1
      PROVE  Mine(CacheRow(c, t, n)) /\ At(CacheRow(c, t, n)) = c
  <2>1. ASSUME NEW d \in 0 .. n - 1, CacheRow(c, t, n) = CacheRow(d, t, n) PROVE c = d
    <3> HIDE DEF n
    <3> QED
      BY <1>2, <2>1, CachesApart
  <2> QED
    BY <2>1
<1> HIDE DEF At
<1>5. ASSUME NEW c \in 0 .. n - 1
      PROVE  filled[CacheRow(c, t, n)] = ConvertedRow(j.channels[1 + c][j.next], j.bits, float)
  <2>1. CacheRow(c, t, n) \in DOMAIN j.buffers
    <3> HIDE DEF n
    <3> QED
      BY <1>1, <1>2, CachesApart
  <2>2. Mine(CacheRow(c, t, n)) /\ At(CacheRow(c, t, n)) = c
    BY <1>4
  <2> QED
    BY <2>1, <2>2
<1>6. ASSUME NEW s \in PoolThreads, s # t, NEW c \in 0 .. n - 1
      PROVE  filled[CacheRow(c, s, n)] = j.buffers[CacheRow(c, s, n)]
  <2>1. CacheRow(c, s, n) \in DOMAIN j.buffers
    <3> HIDE DEF n
    <3> QED
      BY <1>1, <1>2, CachesApart
  <2>2. ~Mine(CacheRow(c, s, n))
    <3> SUFFICES ASSUME NEW d \in 0 .. n - 1, CacheRow(c, s, n) = CacheRow(d, t, n)
                 PROVE  FALSE
      OBVIOUS
    <3> HIDE DEF n
    <3> QED
      BY <1>2, <1>6, CachesApart
  <2> QED
    BY <2>1, <2>2
<1>7. DOMAIN filled = DOMAIN NoBuffers
  BY <1>1
<1> HIDE DEF filled, Mine, n
<1>8. /\ SameJob(g, j) /\ g.packed = j.packed /\ g.next = j.next + 1
      /\ g.at = [j.at EXCEPT ![t] = j.next] /\ g.buffers = filled
  <2>1. g = [[[j EXCEPT !.next = j.next + 1] EXCEPT !.at = [j.at EXCEPT ![t] = j.next]]
               EXCEPT !.buffers = filled]
    BY <1>1, <1>3 DEF StoreForm, StoreFields
  <2> QED
    BY <1>1, <2>1 DEF SameJob, StoreForm, StoreFields
<1> HIDE DEF float
<1>9. RowsOK(g) /\ \A y \in Nat : Handled(g, y) => Handled(j, y)
  BY <1>1, <1>8, RowTaken DEF SameJob
<1>10. ASSUME NEW s \in PoolThreads, g.at[s] # -1 PROVE Cached(g, s, g.at[s])
  <2>1. g.at[s] = IF s = t THEN j.next ELSE j.at[s]
    BY <1>1, <1>8 DEF RowsOK
  <2>2. CASE s = t
    BY <1>5, <1>8, <2>1, <2>2 DEF Cached, SameJob, n, float
  <2>3. CASE s # t
    <3>1. Cached(j, s, j.at[s]) /\ g.at[s] = j.at[s]
      BY <1>1, <1>10, <2>1, <2>3
    <3> QED
      BY <1>6, <1>8, <2>3, <3>1 DEF Cached, SameJob, n
  <2> QED
    BY <2>2, <2>3
<1>11. ASSUME NEW y \in 0 .. g.rows - 1, Handled(g, y)
       PROVE  HoldsRow(g.packed, g.bits, g.channels, y)
  <2>1. y \in 0 .. j.rows - 1 /\ y \in Nat
    BY <1>1, <1>8 DEF RowsOK, SameJob
  <2> QED
    BY <1>1, <1>8, <1>9, <1>11, <2>1 DEF SameJob
<1> QED
  BY <1>1, <1>7, <1>8, <1>9, <1>10, <1>11 DEF Storing, SameJob

(* A row is written where it belongs, and no other row is touched.         *)
RowReplaced(out, pixels, many, stride, y, row) ==
  /\ IsBytes(out, many * stride)
  /\ \A k \in 1 .. Len(row) : out[stride * y + k] = row[k]
  /\ \A r \in 0 .. many - 1, k \in 1 .. stride :
       r # y => out[stride * r + k] = pixels[stride * r + k]

LEMMA RowOverwritten ==
    ASSUME NEW many \in Nat, NEW stride \in Nat, NEW pixels, IsBytes(pixels, many * stride),
           NEW y \in 0 .. many - 1, NEW first, first = stride * y,
           NEW row, Len(row) \in 0 .. stride
    PROVE  RowReplaced(Overwritten(pixels, first, row), pixels, many, stride, y, row)
<1> DEFINE size == many * stride
           out == Overwritten(pixels, first, row)
<1>1. first \in Nat /\ first + stride <= size /\ size \in Nat
  BY RowsApart
<1>2. DOMAIN pixels = 1 .. size
  BY DEF IsBytes
<1>3. out = [k \in 1 .. size |->
               IF first < k /\ k <= first + Len(row) THEN row[k - first] ELSE pixels[k]]
  BY <1>2 DEF Overwritten
<1>4. ASSUME NEW r \in 0 .. many - 1, NEW k \in 1 .. stride
      PROVE  /\ stride * r + k \in 1 .. size
             /\ r # y => ~(first < stride * r + k /\ stride * r + k <= first + Len(row))
  <2> DEFINE at == stride * r
  <2>1. at \in Nat /\ at + stride <= size
    BY RowsApart
  <2>2. r < y => at + stride <= first
    BY RowsApart
  <2>3. y < r => first + stride <= at
    BY RowsApart
  <2> HIDE DEF at, size
  <2> QED
    BY <1>1, <2>1, <2>2, <2>3 DEF at
<1> HIDE DEF size, out
<1>5. IsBytes(out, size)
  BY <1>3 DEF IsBytes
<1>6. ASSUME NEW k \in 1 .. Len(row) PROVE out[first + k] = row[k]
  <2>1. /\ first + k \in 1 .. size /\ first < first + k /\ first + k <= first + Len(row)
        /\ (first + k) - first = k
    BY <1>1
  <2> QED
    BY <1>3, <2>1
<1>7. ASSUME NEW r \in 0 .. many - 1, NEW k \in 1 .. stride, r # y
      PROVE  out[stride * r + k] = pixels[stride * r + k]
  BY <1>3, <1>4, <1>7
<1> QED
  BY <1>5, <1>6, <1>7 DEF RowReplaced, out, size

LEMMA RowStored ==
    ASSUME NEW picture, IsPicture(picture), NEW m, IsMetadata(m), NEW j, Storing(picture, m, j),
           NEW t \in PoolThreads, j.at[t] # -1, NEW g,
           g = RowStoring(j, t)
    PROVE  Storing(picture, m, g) /\ SameJob(g, j)
<1> DEFINE n == Len(j.channels)
           packed == j.packed
           float == IsFloat(packed.format.data_type)
           le == LittleEndian(packed.format)
           y == j.at[t]
           row == RowBytes(j.channels, y, packed.xsize, j.bits, float, le)
           pixels == packed.pixels
           stride == packed.stride
           out == Overwritten(pixels, stride * y, row)
<1>1. /\ StoreForm(j) /\ RowsOK(j) /\ DOMAIN j.buffers = DOMAIN NoBuffers
      /\ PackedFields \subseteq DOMAIN packed /\ PackedSize(picture, m, packed)
      /\ packed.ysize = j.rows
      /\ \A s \in PoolThreads : j.at[s] # -1 => Cached(j, s, j.at[s])
      /\ \A v \in 0 .. j.rows - 1 : Handled(j, v) => HoldsRow(packed, j.bits, j.channels, v)
  BY DEF Storing
<1>2. /\ IsFloat(j.for.format.data_type) = float /\ LittleEndian(j.for.format) = le
      /\ n \in 1 .. 4 /\ packed.ysize \in Nat /\ stride \in Nat /\ IsBytes(pixels, packed.ysize * stride)
      /\ \A v : Len(RowBytes(j.channels, v, packed.xsize, j.bits, float, le)) \in 0 .. stride
  BY StoringSizes
<1>3. g = [j EXCEPT !.at[t] = -1, !.packed.pixels = out]
  <2>1. [c \in 1 .. n |-> j.buffers[CacheRow(c - 1, t, n)]]
          = [c \in 1 .. n |-> ConvertedRow(j.channels[c][y], j.bits, float)]
    <3>1. ASSUME NEW c \in 1 .. n
          PROVE  j.buffers[CacheRow(c - 1, t, n)] = ConvertedRow(j.channels[c][y], j.bits, float)
      <4>1. c - 1 \in 0 .. n - 1 /\ 1 + (c - 1) = c
        BY <1>2
      <4> QED
        BY <1>1, <4>1 DEF Cached
    <3> QED
      BY <3>1
  <2> QED
    BY <1>2, <2>1 DEF RowBytes, RowStoring
<1> HIDE DEF out, pixels, stride, y, float, le, packed
<1>4. /\ SameJob(g, j) /\ g.next = j.next /\ g.at = [j.at EXCEPT ![t] = -1]
      /\ g.buffers = j.buffers /\ g.packed = [packed EXCEPT !.pixels = out]
  <2>1. g = [[j EXCEPT !.at = [j.at EXCEPT ![t] = -1]]
               EXCEPT !.packed = [packed EXCEPT !.pixels = out]]
    BY <1>1, <1>3 DEF StoreForm, StoreFields, packed
  <2> QED
    BY <1>1, <2>1 DEF SameJob, StoreForm, StoreFields
<1>5. /\ PackedFields \subseteq DOMAIN g.packed /\ g.packed.xsize = packed.xsize
      /\ g.packed.ysize = packed.ysize /\ g.packed.format = packed.format
      /\ g.packed.stride = stride /\ g.packed.pixels = out
  BY <1>1, <1>4 DEF PackedFields, stride
<1>6. /\ RowsOK(g) /\ y \in 0 .. packed.ysize - 1
      /\ \A v \in Nat : Handled(g, v) => Handled(j, v) \/ v = y
  <2>1. g.rows = j.rows
    BY <1>4 DEF SameJob
  <2> QED
    BY <1>1, <1>4, <2>1, RowGiven DEF y
<1>7. Len(row) \in 0 .. stride
  BY <1>2
<1>8. /\ IsBytes(out, packed.ysize * stride)
      /\ \A k \in 1 .. Len(row) : out[stride * y + k] = row[k]
      /\ \A r \in 0 .. packed.ysize - 1, k \in 1 .. stride :
           r # y => out[stride * r + k] = pixels[stride * r + k]
  <2> DEFINE many == packed.ysize
  <2> HIDE DEF row
  <2>1. /\ many \in Nat /\ stride \in Nat /\ IsBytes(pixels, many * stride)
        /\ y \in 0 .. many - 1 /\ Len(row) \in 0 .. stride
    BY <1>2, <1>6, <1>7
  <2> DEFINE first == stride * y
  <2> HIDE DEF many, first
  <2>2. RowReplaced(Overwritten(pixels, first, row), pixels, many, stride, y, row)
    BY <2>1, RowOverwritten DEF first
  <2> QED
    BY <2>2 DEF RowReplaced, out, many, first
<1>9. PackedSize(picture, m, g.packed)
  BY <1>1, <1>5, <1>8 DEF PackedSize, stride
<1>10. ASSUME NEW v \in 0 .. g.rows - 1, Handled(g, v)
       PROVE  HoldsRow(g.packed, g.bits, g.channels, v)
  <2> DEFINE other == RowBytes(j.channels, v, packed.xsize, j.bits, float, le)
  <2>1. v \in 0 .. packed.ysize - 1 /\ v \in Nat /\ Len(other) \in 0 .. stride
    BY <1>1, <1>2, <1>4 DEF SameJob
  <2>2. HoldsRow(g.packed, g.bits, g.channels, v)
          <=> \A k \in 1 .. Len(other) : out[stride * v + k] = other[k]
    BY <1>4, <1>5 DEF HoldsRow, SameJob, float, le
  <2>3. CASE v = y
    BY <1>8, <2>2, <2>3
  <2>4. CASE v # y
    <3>1. HoldsRow(packed, j.bits, j.channels, v)
      BY <1>1, <1>6, <1>10, <2>1, <2>4
    <3>2. \A k \in 1 .. Len(other) : pixels[stride * v + k] = other[k]
      BY <3>1 DEF HoldsRow, pixels, stride, float, le
    <3> HIDE DEF other
    <3>3. \A k \in 1 .. Len(other) : k \in 1 .. stride
      BY <1>2, <2>1
    <3> QED
      BY <1>8, <2>1, <2>2, <2>4, <3>2, <3>3
  <2> QED
    BY <2>3, <2>4
<1>11. ASSUME NEW s \in PoolThreads, g.at[s] # -1 PROVE Cached(g, s, g.at[s])
  <2>1. g.at[s] = IF s = t THEN -1 ELSE j.at[s]
    BY <1>1, <1>4 DEF RowsOK
  <2>2. Cached(j, s, j.at[s]) /\ g.at[s] = j.at[s]
    BY <1>1, <1>11, <2>1
  <2> QED
    BY <1>4, <1>5, <2>2 DEF Cached, SameJob, packed
<1> QED
  BY <1>1, <1>4, <1>5, <1>6, <1>9, <1>10, <1>11 DEF Storing, SameJob, packed, stride

(* When all rows are stored the frame is finished.                         *)
LEMMA FrameFinished ==
    ASSUME NEW picture, IsPicture(picture), NEW m, IsMetadata(m), NEW j, Storing(picture, m, j),
           j.next = j.rows, j.at = Idle
    PROVE  Finished(picture, m, j.target.space, j.packed)
<1>1. /\ PackedSize(picture, m, j.packed) /\ j.rows = j.packed.ysize
      /\ j.bits = PackedBits(m, j.packed.format)
      /\ j.channels = WantedUpright(picture, m, j.target.space)
      /\ \A y \in 0 .. j.rows - 1 : Handled(j, y) => HoldsRow(j.packed, j.bits, j.channels, y)
  BY DEF Storing
<1>2. j.rows \in Nat
  BY <1>1, StoringSizes
<1>3. \A y \in 0 .. j.rows - 1 : Handled(j, y)
  BY <1>2, PoolStarts DEF Handled
<1> QED
  BY <1>1, <1>3 DEF Finished

-----------------------------------------------------------------------------
(* The frames that are packed, one after another.                          *)

PackedSoFar(picture, m, packed, count, to, for) ==
  /\ {"frames", "color_encoding"} \subseteq DOMAIN packed /\ packed.color_encoding = to
  /\ (\E T : packed.frames \in Seq(T)) /\ Len(packed.frames) = count
  /\ \A k \in 1 .. count :
       /\ Finished(picture, m, to.space, packed.frames[k])
       /\ packed.frames[k].format = FrameFormat(m, for.format)

PackInv ==
  /\ stage = "transforming" /\ job.for # NoFile =>
       /\ IsContainer(job.for)
       /\ PackedSoFar(source.picture, io.m, ppf, job.frame - 1, job.target, job.for)
  /\ stage = "packing" =>
       /\ Storing(source.picture, io.m, job)
       /\ PackedSoFar(source.picture, io.m, ppf, job.frame - 1, job.target, job.for)
  /\ stage = "packed out" =>
       /\ IsContainer(job.for) /\ ppf.color_encoding.space # "alpha"
       /\ PackedSoFar(source.picture, io.m, ppf, Len(io.frames), ppf.color_encoding, job.for)

LEMMA StoringStarts ==
    ASSUME NEW picture, IsPicture(picture), IsMetadata(io.m), NEW ib, Shows(picture, io.m, ib),
           NEW to, ib.c_current = to, NEW for, IsContainer(for), NEW frame,
           StoreFrame(frame, ib, to, for), stage' = "packing"
    PROVE  /\ Storing(picture, io.m, job')
           /\ job'.frame = frame /\ job'.target = to /\ job'.for = for
<1> DEFINE m == io.m
           channels == UprightChannels(m.orientation, ExternalChannels(m, ib))
           format == FrameFormat(m, for.format)
           packed == NewPackedFrame(OrientedXSize(m, ib), OrientedYSize(m, ib), format)
           j == StoreJob(frame, to, for, channels, packed)
           float == IsFloat(for.format.data_type)
<1>1. StartStore(j)
  BY DEF StoreFrame
<1>2. /\ XSize(ib) = picture.xsize /\ YSize(ib) = picture.ysize
      /\ picture.xsize \in Nat \ {0} /\ picture.ysize \in Nat \ {0}
  BY SizeOfDrawn DEF IsPicture
<1>3. /\ OrientedXSize(m, ib) = OrientedWidth(m.orientation, picture.xsize, picture.ysize)
      /\ OrientedYSize(m, ib) = OrientedHeight(m.orientation, picture.xsize, picture.ysize)
  BY <1>2 DEF OrientedXSize, OrientedYSize, OrientedWidth, OrientedHeight
<1>4. channels = WantedUpright(picture, m, to.space)
  BY ShownIsWanted DEF WantedUpright
<1>5. /\ IsFormat(ChannelCount(m), format) /\ format.data_type = for.format.data_type
      /\ PackedBits(m, format) = PackedBits(m, for.format)
  BY FormatOfContainer
<1> HIDE DEF format
<1>6. /\ PackedFields \subseteq DOMAIN packed /\ packed.xsize = OrientedXSize(m, ib)
      /\ packed.ysize = OrientedYSize(m, ib) /\ packed.format = format
      /\ packed.stride = CalcStride(format, packed.xsize)
      /\ packed.pixels = [k \in 1 .. packed.ysize * packed.stride |-> Unwritten]
  BY DEF NewPackedFrame, PackedFields
<1> HIDE DEF packed, channels
<1>7. /\ StoreForm(j) /\ j.frame = frame /\ j.target = to /\ j.for = for
      /\ j.bits = PackedBits(m, for.format) /\ j.channels = channels /\ j.packed = packed
      /\ j.rows = packed.ysize /\ j.next = 0 /\ j.at = Idle /\ j.buffers = NoBuffers
  BY DEF StoreJob, StoreForm, StoreFields
<1> HIDE DEF j
<1>8. /\ job' = j /\ (float \/ j.bits <= 16)
      /\ StrideFits(packed.xsize, packed.ysize, Len(channels), j.bits, packed.stride,
                    Len(packed.pixels))
  <2>1. CASE ~IsFloat(j.for.format.data_type) /\ j.bits > 16
    BY <1>1, <2>1 DEF StartStore
  <2>2. CASE /\ ~(~IsFloat(j.for.format.data_type) /\ j.bits > 16)
             /\ ~StrideFits(j.packed.xsize, j.packed.ysize, Len(j.channels), j.bits,
                            j.packed.stride, Len(j.packed.pixels))
    BY <1>1, <2>2 DEF StartStore
  <2>3. CASE /\ ~(~IsFloat(j.for.format.data_type) /\ j.bits > 16)
             /\ StrideFits(j.packed.xsize, j.packed.ysize, Len(j.channels), j.bits,
                           j.packed.stride, Len(j.packed.pixels))
    <3>1. job' = j
      BY <1>1, <2>3 DEF StartStore
    <3>2. float \/ ~(j.bits > 16)
      BY <1>7, <2>3
    <3>3. j.bits \in Int
      <4>1. m.bits_per_sample \in Nat
        BY DEF IsMetadata
      <4>2. PICK data_type \in {"float", "uint8", "uint16"}, endianness \in {"native", "big"} :
              for.format = PixelFormat(0, data_type, endianness)
        BY DEF IsContainer
      <4>3. for.format.data_type = data_type
        BY <4>2 DEF PixelFormat
      <4> QED
        BY <1>7, <4>1, <4>3 DEF PackedBits, IsFloat, BitsPerChannel
    <3> QED
      BY <1>7, <2>3, <3>1, <3>2, <3>3
  <2> QED
    BY <2>1, <2>2, <2>3
<1>9. PackedSize(picture, m, packed)
  <2>1. IsBytes(packed.pixels, packed.ysize * packed.stride)
    BY <1>6 DEF IsBytes
  <2> QED
    BY <1>3, <1>5, <1>6, <2>1 DEF PackedSize
<1>10. ChannelCount(m) * BytesPerChannel(j.bits) * packed.xsize <= packed.stride
  <2>1. Len(WantedUpright(picture, m, to.space)) = ChannelCount(m)
    BY UprightWanted
  <2> QED
    BY <1>4, <1>8, <2>1 DEF StrideFits
<1>11. RowsOK(j)
  <2>1. packed.ysize \in Nat
    BY <1>2, <1>3, <1>6 DEF OrientedHeight
  <2> QED
    BY <1>7, <2>1, PoolStarts DEF RowsOK
<1>12. \A t \in PoolThreads : j.at[t] = -1
  BY <1>7, PoolStarts
<1>13. \A y \in 0 .. j.rows - 1 : ~Handled(j, y)
  BY <1>7 DEF Handled
<1>14. Storing(picture, m, j)
  BY <1>4, <1>5, <1>6, <1>7, <1>8, <1>9, <1>10, <1>11, <1>12, <1>13 DEF Storing, format
<1> QED
  BY <1>7, <1>8, <1>14

LEMMA StoreFramePacks ==
    ASSUME NEW picture, IsPicture(picture), source.picture = picture, IsMetadata(io.m),
           source' = source, io' = io, NEW ib, Shows(picture, io.m, ib),
           NEW to, ib.c_current = to, NEW for, IsContainer(for), NEW frame,
           PackedSoFar(picture, io.m, ppf', frame - 1, to, for), StoreFrame(frame, ib, to, for)
    PROVE  PackInv'
<1>1. stage' \in {"aborted", "failed", "packing"}
  BY DEF StoreFrame, StartStore
<1>2. CASE stage' \in {"aborted", "failed"}
  BY <1>2 DEF PackInv
<1>3. CASE stage' = "packing"
  <2>1. /\ Storing(picture, io.m, job')
        /\ job'.frame = frame /\ job'.target = to /\ job'.for = for
    BY <1>3, StoringStarts
  <2> QED
    BY <1>3, <2>1 DEF PackInv
<1> QED
  BY <1>1, <1>2, <1>3

LEMMA PackFramePacks ==
    ASSUME NEW picture, IsPicture(picture), source.picture = picture, ShowsAll(picture, io),
           source' = source, io' = io, NEW to, NEW for, IsContainer(for),
           NEW frame \in 1 .. Len(io.frames),
           PackedSoFar(picture, io.m, ppf', frame - 1, to, for), PackFrame(frame, to, for)
    PROVE  PackInv'
<1> DEFINE ib == io.frames[frame]
<1>1. CASE NeedsTransform(io.m, ib, to)
  <2>1. TransformTo(for, frame, ib, to)
    BY <1>1 DEF PackFrame
  <2>2. CASE stage' = "transforming" /\ job' = TransformJob(for, frame, ib, to)
    <3>1. job'.for = for /\ job'.frame = frame /\ job'.target = to
      BY <2>2 DEF TransformJob
    <3> QED
      BY <2>2, <3>1 DEF PackInv
  <2>3. CASE stage' = "aborted"
    BY <2>3 DEF PackInv
  <2> QED
    BY <2>1, <2>2, <2>3 DEF TransformTo
<1>2. CASE ~NeedsTransform(io.m, ib, to)
  <2>1. StoreFrame(frame, ib, to, for) /\ ib.c_current = to
    BY <1>2 DEF PackFrame, NeedsTransform
  <2>2. IsMetadata(io.m) /\ Shows(picture, io.m, ib)
    BY DEF ShowsAll, IsCodecInOut
  <2> HIDE DEF ib
  <2> QED
    BY <2>1, <2>2, StoreFramePacks
<1> QED
  BY <1>1, <1>2

-----------------------------------------------------------------------------
(* Every step keeps what is packed.                                        *)

LEMMA PackInvStarts == PixelInit \/ NoPixelFile => PackInv
  BY DEF PixelInit, NoPixelFile, GivenAt, PackInv

LEMMA EncodePacks ==
    ASSUME FilesDecode, PixelInv, Encode
    PROVE  PackInv'
<1>1. stage = "picture" /\ source' = source /\ io' = io
  BY DEF Encode
<1>2. ShowsAll(source.picture, io) /\ IsPicture(source.picture)
  BY <1>1, PictureIs DEF PixelInv, Pictured
<1>3. 1 \in 1 .. Len(io.frames)
  BY <1>2 DEF ShowsAll, IsCodecInOut
<1>4. CASE stage' = "failed"
  BY <1>4 DEF PackInv
<1>5. CASE stage' # "failed"
  <2>1. PICK extension \in Extensions, to \in Encodings \cup {io.m.color_encoding} :
          /\ ppf' = PackedInfo(io, to)
          /\ PackFrame(1, to,
               [codec |-> CodecFromExtension(extension),
                format |-> EncodeFormat(io, CodecFromExtension(extension),
                             BitsForExtension(extension, io.m.bits_per_sample))])
    BY <1>5 DEF Encode
  <2> DEFINE format == EncodeFormat(io, CodecFromExtension(extension),
                         BitsForExtension(extension, io.m.bits_per_sample))
             for == [codec |-> CodecFromExtension(extension), format |-> format]
  <2>2. IsContainer(for)
    <3>1. \E data_type \in {"float", "uint8", "uint16"}, endianness \in {"native", "big"} :
            format = PixelFormat(0, data_type, endianness)
      BY DEF EncodeFormat
    <3> HIDE DEF format
    <3> QED
      BY <3>1 DEF IsContainer
  <2> HIDE DEF for
  <2>3. /\ {"frames", "color_encoding"} \subseteq DOMAIN ppf' /\ ppf'.frames = <<>>
        /\ ppf'.color_encoding = to
    BY <2>1 DEF PackedInfo, NewPackedPixelFile
  <2>4. PackedSoFar(source.picture, io.m, ppf', 1 - 1, to, for)
    <3>1. <<>> \in Seq({0}) /\ Len(<<>>) = 0 /\ 1 - 1 = 0
      OBVIOUS
    <3> QED
      BY <2>3, <3>1 DEF PackedSoFar
  <2>5. PackFrame(1, to, for)
    BY <2>1 DEF for
  <2> QED
    BY <1>1, <1>2, <1>3, <2>2, <2>4, <2>5, PackFramePacks
<1> QED
  BY <1>4, <1>5

LEMMA TransformPacks ==
    ASSUME PixelInv, PackInv, Transform \/ Transformed
    PROVE  PackInv'
<1>1. CASE stage' \in {"failed", "picture", "aborted"}
  BY <1>1 DEF PackInv
<1>2. ASSUME NEW frame, NEW ib, NEW to, TransformTo(NoFile, frame, ib, to) PROVE PackInv'
  <2>1. (stage' = "transforming" /\ job'.for = NoFile) \/ stage' = "aborted"
    BY <1>2 DEF TransformTo, TransformJob
  <2> QED
    BY <2>1 DEF PackInv
<1>3. CASE Transform
  BY <1>2, <1>3 DEF Transform
<1>4. CASE Transformed
  <2>1. CASE stage' \notin {"failed", "picture"}
    <3>1. TransformTo(NoFile, job.frame + 1, io.frames[job.frame + 1], job.target)
      BY <1>4, <2>1 DEF Transformed
    <3> QED
      BY <1>2, <3>1
  <2> QED
    BY <1>1, <2>1
<1> QED
  BY <1>3, <1>4

LEMMA RowPacks ==
    ASSUME PixelInv, PackInv, NEW t \in PoolThreads, ReadRow(t) \/ WriteRow(t) \/ FailRow(t)
    PROVE  PackInv'
<1>1. /\ job.kind = "transform" /\ stage' = stage /\ source' = source /\ io' = io /\ ppf' = ppf
  BY DEF ReadRow, WriteRow, FailRow
<1>2. stage = "transforming" /\ TransformForm(job)
  BY <1>1 DEF PixelInv, StoreForm, TransformInv
<1>3. job'.for = job.for /\ job'.frame = job.frame /\ job'.target = job.target
  <2>1. CASE ReadRow(t)
    BY <1>2, <2>1 DEF ReadRow, TransformForm, TransformFields
  <2>2. CASE WriteRow(t)
    BY <1>2, <2>2 DEF WriteRow, TransformForm, TransformFields
  <2>3. CASE FailRow(t)
    BY <1>2, <2>3 DEF FailRow, TransformForm, TransformFields
  <2> QED
    BY <2>1, <2>2, <2>3
<1> QED
  BY <1>1, <1>2, <1>3 DEF PackInv

LEMMA CopyPacks ==
    ASSUME FilesDecode, PixelInv, PackInv, CopyTransformed
    PROVE  PackInv'
<1> DEFINE n == [job.ib EXCEPT !.c_current = job.target]
<1>1. /\ RowsDone /\ job.kind = "transform" /\ job.for # NoFile
      /\ source' = source /\ io' = io /\ ppf' = ppf
  BY DEF CopyTransformed
<1>2. stage = "transforming"
  BY <1>1 DEF PixelInv, StoreForm
<1>3. /\ ShowsAll(source.picture, io) /\ IsPicture(source.picture)
      /\ TransformInv(source.picture, io, job)
  BY <1>2, PictureIs DEF PixelInv, Pictured
<1>4. /\ IsContainer(job.for)
      /\ PackedSoFar(source.picture, io.m, ppf', job.frame - 1, job.target, job.for)
  BY <1>1, <1>2 DEF PackInv
<1>5. CASE job.ok
  <2>1. StoreFrame(job.frame, n, job.target, job.for)
    BY <1>5 DEF CopyTransformed
  <2>2. Shows(source.picture, io.m, n)
    BY <1>1, <1>3, <1>5, FrameTransformed DEF RowsDone
  <2>3. n.c_current = job.target
    BY <1>3 DEF TransformInv, IsBundle, NewBundle
  <2>4. IsMetadata(io.m)
    BY <1>3 DEF ShowsAll, IsCodecInOut
  <2> HIDE DEF n
  <2> QED
    BY <1>1, <1>3, <1>4, <2>1, <2>2, <2>3, <2>4, StoreFramePacks
<1>6. CASE ~job.ok
  <2>1. stage' = "failed"
    BY <1>6 DEF CopyTransformed
  <2> QED
    BY <2>1 DEF PackInv
<1> QED
  BY <1>5, <1>6

LEMMA StorePacks ==
    ASSUME FilesDecode, PixelInv, PackInv, NEW t \in PoolThreads, ConvertRow(t) \/ StoreRow(t)
    PROVE  PackInv'
<1>1. job.kind = "store" /\ stage' = stage /\ source' = source /\ io' = io /\ ppf' = ppf
  BY DEF ConvertRow, StoreRow
<1>2. stage = "packing"
  BY <1>1 DEF PixelInv, TransformInv, TransformForm
<1>3. IsPicture(source.picture) /\ IsMetadata(io.m)
  BY <1>2, PictureIs DEF PixelInv, Pictured, ShowsAll, IsCodecInOut
<1>4. /\ Storing(source.picture, io.m, job)
      /\ PackedSoFar(source.picture, io.m, ppf, job.frame - 1, job.target, job.for)
  BY <1>2 DEF PackInv
<1>5. Storing(source.picture, io.m, job') /\ SameJob(job', job)
  <2>1. CASE ConvertRow(t)
    <3>1. job.at[t] = -1 /\ job.next < job.rows /\ job' = RowConverting(job, t)
      BY <2>1 DEF ConvertRow, RowConverting
    <3> QED
      BY <1>3, <1>4, <3>1, RowConverted
  <2>2. CASE StoreRow(t)
    <3>1. job.at[t] # -1 /\ job' = RowStoring(job, t)
      BY <2>2 DEF StoreRow, RowStoring
    <3> QED
      BY <1>3, <1>4, <3>1, RowStored
  <2> QED
    BY <2>1, <2>2
<1> QED
  BY <1>1, <1>2, <1>4, <1>5 DEF PackInv, SameJob

LEMMA FrameStoredPacks ==
    ASSUME FilesDecode, PixelInv, PackInv, FrameStored
    PROVE  PackInv'
<1> DEFINE k == job.frame
           picture == source.picture
<1>1. RowsDone /\ job.kind = "store" /\ source' = source /\ io' = io
  BY DEF FrameStored
<1>2. stage = "packing"
  BY <1>1 DEF PixelInv, TransformInv, TransformForm
<1>3. /\ ShowsAll(picture, io) /\ IsPicture(picture) /\ IsMetadata(io.m)
      /\ k \in 1 .. Len(io.frames) /\ job.target.space # "alpha" /\ Len(io.frames) \in Nat
  BY <1>2, PictureIs DEF PixelInv, Pictured, ShowsAll, IsCodecInOut
<1>4. /\ Storing(picture, io.m, job)
      /\ PackedSoFar(picture, io.m, ppf, k - 1, job.target, job.for)
  BY <1>2 DEF PackInv
<1>5. CASE stage' = "aborted"
  BY <1>5 DEF PackInv
<1>6. CASE stage' # "aborted"
  <2>1. /\ ppf' = [ppf EXCEPT !.frames = Append(@, job.packed)]
        /\ IF k = Len(io.frames)
           THEN stage' = "packed out" /\ job' = [kind |-> "none", for |-> job.for]
           ELSE PackFrame(k + 1, job.target, job.for)
    BY <1>6 DEF FrameStored
  <2>2. /\ IsContainer(job.for) /\ Finished(picture, io.m, job.target.space, job.packed)
        /\ job.packed.format = FrameFormat(io.m, job.for.format)
    BY <1>1, <1>3, <1>4, FrameFinished DEF RowsDone, Storing
  <2>3. PackedSoFar(picture, io.m, ppf', k, job.target, job.for)
    <3>1. /\ {"frames", "color_encoding"} \subseteq DOMAIN ppf'
          /\ ppf'.color_encoding = job.target /\ ppf'.frames = Append(ppf.frames, job.packed)
      BY <1>4, <2>1 DEF PackedSoFar
    <3>2. PICK T : ppf.frames \in Seq(T)
      BY <1>4 DEF PackedSoFar
    <3>3. Len(ppf.frames) = k - 1
      BY <1>4 DEF PackedSoFar
    <3> DEFINE fs == Append(ppf.frames, job.packed)
    <3>4. /\ fs \in Seq(T \cup {job.packed}) /\ Len(fs) = k /\ fs[k] = job.packed
          /\ \A g \in 1 .. k - 1 : fs[g] = ppf.frames[g]
      BY <1>3, <3>2, <3>3
    <3> HIDE DEF fs
    <3>5. ASSUME NEW g \in 1 .. k
          PROVE  /\ Finished(picture, io.m, job.target.space, fs[g])
                 /\ fs[g].format = FrameFormat(io.m, job.for.format)
      <4>1. g = k \/ g \in 1 .. k - 1
        BY <1>3
      <4> QED
        BY <1>4, <2>2, <3>4, <4>1 DEF PackedSoFar
    <3> QED
      BY <3>1, <3>4, <3>5 DEF PackedSoFar, fs
  <2>4. CASE k = Len(io.frames)
    <3>1. stage' = "packed out" /\ job'.for = job.for
      <4>1. stage' = "packed out" /\ job' = [kind |-> "none", for |-> job.for]
        BY <1>6, <2>4 DEF FrameStored
      <4> QED
        BY <4>1
    <3>2. ppf'.color_encoding = job.target
      BY <2>3 DEF PackedSoFar
    <3> QED
      BY <1>1, <1>3, <2>2, <2>3, <2>4, <3>1, <3>2 DEF PackInv
  <2>5. CASE k # Len(io.frames)
    <3>1. k + 1 \in 1 .. Len(io.frames) /\ (k + 1) - 1 = k
      BY <1>3, <2>5
    <3> HIDE DEF k
    <3> QED
      BY <1>1, <1>3, <2>1, <2>2, <2>3, <2>5, <3>1, PackFramePacks
  <2> QED
    BY <2>4, <2>5
<1> QED
  BY <1>5, <1>6

LEMMA PackStep ==
    ASSUME FilesDecode, PixelInv, PackInv, [PixelNext]_pixelVars
    PROVE  PackInv'
<1>1. CASE UNCHANGED pixelVars
  BY <1>1 DEF pixelVars, PackInv
<1>2. CASE Read \/ Convert \/ Write
  <2>1. stage' \notin {"transforming", "packing", "packed out"}
    <3>1. CASE Read
      BY <3>1 DEF Read, ReadAs
    <3>2. CASE Convert
      <4>1. ConvertPackedPixelFileToCodecInOut(ppf).status \in {"ok", "failed", "aborted"}
        BY DEF ConvertPackedPixelFileToCodecInOut, ConvertedWith
      <4> QED
        BY <3>2, <4>1 DEF Convert, ConvertedTo
    <3>3. CASE Write
      <4>1. stage' \in {"failed", "aborted", "written"}
        BY <3>3 DEF Write
      <4> QED
        BY <4>1
    <3> QED
      BY <1>2, <3>1, <3>2, <3>3
  <2> QED
    BY <2>1 DEF PackInv
<1>3. CASE Premultiply \/ Unpremultiply
  BY <1>3 DEF Premultiply, Unpremultiply, Operate, PackInv
<1> QED
  BY <1>1, <1>2, <1>3, TransformPacks, RowPacks, EncodePacks, CopyPacks, StorePacks,
     FrameStoredPacks DEF PixelNext

(***************************************************************************)
(* For pictures of any size and orientation, of any number of frames,      *)
(* after any operations on them, and for any number of threads taking rows *)
(* in any order: as long as the parsers read from a file what it holds     *)
(* (FilesDecode), each of the frames that are handed to an encoder has at  *)
(* the place EXIF says the sample the picture shows, in the encoding that  *)
(* was asked for, rounded to the nearest integer, or exact as a float.     *)
(***************************************************************************)
THEOREM FramesPackedUpright ==
    ASSUME FilesDecode
    PROVE  ImageSpec => []FrameUpright
<1> DEFINE Inv == PixelInv /\ PackInv
<1>1. ImageInit => Inv
  BY PixelInvStarts, PackInvStarts DEF ImageInit
<1>2. Inv /\ [ImageNext]_imageVars => Inv'
  <2> SUFFICES ASSUME Inv, [ImageNext]_imageVars PROVE Inv'
    OBVIOUS
  <2>1. [PixelNext]_pixelVars
    BY DEF ImageNext, imageVars
  <2> QED
    BY <2>1, PixelStep, PackStep
<1>3. Inv => FrameUpright
  <2> SUFFICES ASSUME PixelInv, PackInv PROVE FrameUpright
    OBVIOUS
  <2> SUFFICES ASSUME stage = "packed out", ContainerFits
               PROVE  /\ Len(ppf.frames) = Len(io.frames)
                      /\ \A k \in DOMAIN ppf.frames :
                           LET packed == ppf.frames[k]
                               bits == PackedBits(io.m, packed.format)
                               float == IsFloat(packed.format.data_type)
                               channels == ExternalChannels(io.m, io.frames[k])
                           IN  \A c \in DOMAIN channels :
                                 LET loaded == LoadPlane(packed.pixels, packed.xsize,
                                                 packed.ysize, Len(channels), c - 1, bits,
                                                 float, LittleEndian(packed.format), 0)
                                 IN  \A y \in 0 .. YSize(io.frames[k]) - 1,
                                        x \in 0 .. XSize(io.frames[k]) - 1 :
                                       Renders(
                                         loaded[PlaceDown(io.m.orientation, x, y, packed.ysize)]
                                               [PlaceAcross(io.m.orientation, x, y, packed.xsize)],
                                         channels[c][y][x], ppf.color_encoding.space, bits, float)
    BY DEF FrameUpright
  <2>1. /\ ShowsAll(source.picture, io) /\ IsPicture(source.picture)
    BY PictureIs DEF PixelInv, Pictured
  <2>2. /\ IsContainer(job.for) /\ ppf.color_encoding.space # "alpha"
        /\ PackedSoFar(source.picture, io.m, ppf, Len(io.frames), ppf.color_encoding, job.for)
    BY DEF PackInv
  <2>3. Len(ppf.frames) = Len(io.frames) /\ DOMAIN ppf.frames = 1 .. Len(io.frames)
    <3>1. PICK T : ppf.frames \in Seq(T)
      BY <2>2 DEF PackedSoFar
    <3>2. Len(ppf.frames) = Len(io.frames)
      BY <2>2 DEF PackedSoFar
    <3> DEFINE fs == ppf.frames
               count == Len(io.frames)
    <3>3. fs \in Seq(T) /\ Len(fs) = count
      BY <3>1, <3>2
    <3> HIDE DEF fs, count
    <3>4. DOMAIN fs = 1 .. Len(fs)
      BY <3>3, LenProperties
    <3>5. DOMAIN fs = 1 .. count
      BY <3>3, <3>4
    <3> QED
      BY <3>3, <3>5 DEF fs, count
  <2>4. ASSUME NEW k \in 1 .. Len(io.frames)
        PROVE  /\ IsMetadata(io.m) /\ Shows(source.picture, io.m, io.frames[k])
               /\ io.frames[k].c_current.space # "alpha"
               /\ Finished(source.picture, io.m, ppf.color_encoding.space, ppf.frames[k])
               /\ Fits(io.m, ppf.frames[k].format)
    <3>1. /\ Finished(source.picture, io.m, ppf.color_encoding.space, ppf.frames[k])
          /\ ppf.frames[k].format = FrameFormat(io.m, job.for.format)
      BY <2>2 DEF PackedSoFar
    <3>2. /\ ppf.frames[k].format.data_type = job.for.format.data_type
          /\ PackedBits(io.m, ppf.frames[k].format) = PackedBits(io.m, job.for.format)
      <4> DEFINE format == FrameFormat(io.m, job.for.format)
      <4>1. /\ format.data_type = job.for.format.data_type
            /\ PackedBits(io.m, format) = PackedBits(io.m, job.for.format)
        BY <2>2, FormatOfContainer
      <4>2. ppf.frames[k].format = format
        BY <3>1
      <4> HIDE DEF format
      <4> QED
        BY <4>1, <4>2
    <3>3. Fits(io.m, ppf.frames[k].format)
      BY <3>2 DEF ContainerFits, Fits
    <3> QED
      BY <2>1, <3>1, <3>3 DEF ShowsAll, IsCodecInOut
  <2>5. ASSUME NEW k \in 1 .. Len(io.frames),
               NEW c \in DOMAIN ExternalChannels(io.m, io.frames[k]),
               NEW y \in 0 .. YSize(io.frames[k]) - 1, NEW x \in 0 .. XSize(io.frames[k]) - 1
        PROVE  LET packed == ppf.frames[k]
                   channels == ExternalChannels(io.m, io.frames[k])
                   bits == PackedBits(io.m, packed.format)
                   float == IsFloat(packed.format.data_type)
                   loaded == LoadPlane(packed.pixels, packed.xsize, packed.ysize, Len(channels),
                                       c - 1, bits, float, LittleEndian(packed.format), 0)
               IN  Renders(loaded[PlaceDown(io.m.orientation, x, y, packed.ysize)]
                                 [PlaceAcross(io.m.orientation, x, y, packed.xsize)],
                           channels[c][y][x], ppf.color_encoding.space, bits, float)
    <3> DEFINE packed == ppf.frames[k]
               ib == io.frames[k]
               m == io.m
               space == ppf.color_encoding.space
    <3>1. /\ IsMetadata(m) /\ Shows(source.picture, m, ib) /\ ib.c_current.space # "alpha"
          /\ Finished(source.picture, m, space, packed) /\ Fits(m, packed.format)
          /\ space # "alpha"
      BY <2>2, <2>4
    <3>2. /\ c \in DOMAIN ExternalChannels(m, ib)
          /\ x \in 0 .. XSize(ib) - 1 /\ y \in 0 .. YSize(ib) - 1
      BY <2>5
    <3> HIDE DEF packed, ib, m, space
    <3>3. LET channels == ExternalChannels(m, ib)
              bits == PackedBits(m, packed.format)
              float == IsFloat(packed.format.data_type)
              loaded == LoadPlane(packed.pixels, packed.xsize, packed.ysize, Len(channels),
                                  c - 1, bits, float, LittleEndian(packed.format), 0)
          IN  Renders(loaded[PlaceDown(m.orientation, x, y, packed.ysize)]
                            [PlaceAcross(m.orientation, x, y, packed.xsize)],
                      channels[c][y][x], space, bits, float)
      BY <2>1, <3>1, <3>2, FrameShown
    <3> QED
      BY <3>3 DEF packed, ib, m, space
  <2> QED
    BY <2>3, <2>5
<1> QED
  BY <1>1, <1>2, <1>3, PTL DEF ImageSpec
=============================================================================
