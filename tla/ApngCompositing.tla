--------------------------- MODULE ApngCompositing ---------------------------
(***************************************************************************)
(* The second half of DecodeImageAPNG (lib/extras/dec/apng.cc): the loop   *)
(* that turns the frames of an animated PNG, each with a dispose and a     *)
(* blend operation, into the frames of a JPEG XL animation, which only     *)
(* knows a crop, a blend mode and one reference canvas that a frame is     *)
(* drawn on and may be saved to.                                           *)
(*                                                                         *)
(* What a pixel of a canvas shows is the sequence of the frames blended    *)
(* into it, bottom first: <<>> is transparent black, <<k>> is what frame k *)
(* has there, and blending appends.  Nothing else is assumed of colours.   *)
(*                                                                         *)
(* One step of Next is one iteration of the loop.  Beside the variables of *)
(* the loop the state has the two canvases the property compares: the one  *)
(* of an APNG viewer and the reference canvas of a JPEG XL one.            *)
(***************************************************************************)
EXTENDS Integers, Sequences, FiniteSets

CONSTANTS
  Width, Height,   \* the size in the IHDR chunk
  MaxFrames        \* bound: frames of an animation

ASSUME SizeAssumption == Width \in Nat \ {0} /\ Height \in Nat \ {0}

Pixels == (0 .. Width - 1) \X (0 .. Height - 1)

\* The rectangles that pass the checks of a fcTL chunk.
Rects == {r \in [x0 : 0 .. Width, y0 : 0 .. Height, xsize : 0 .. Width, ysize : 0 .. Height] :
            r.x0 + r.xsize <= Width /\ r.y0 + r.ysize <= Height}

FullRect == [x0 |-> 0, y0 |-> 0, xsize |-> Width, ysize |-> Height]

DisposeOps == {"NONE", "BACKGROUND", "PREVIOUS"}
BlendOps   == {"SOURCE", "OVER"}

FrameInfos == [rect : Rects, dispose_op : DisposeOps, blend_op : BlendOps]

\* The pixels of r.
Covers(r, p) == /\ r.x0 <= p[1] /\ p[1] < r.x0 + r.xsize
                /\ r.y0 <= p[2] /\ p[2] < r.y0 + r.ysize

\* The comparison of two rectangles the loop writes out: r contains q.
Encloses(r, q) == /\ r.x0 <= q.x0 /\ q.x0 + q.xsize <= r.x0 + r.xsize
                  /\ r.y0 <= q.y0 /\ q.y0 + q.ysize <= r.y0 + r.ysize

Transparent == [p \in Pixels |-> <<>>]

VARIABLES
  i,                                \* frames done, the number of the last one
  has_nontrivial_background,
  previous_frame_should_be_cleared,
  previous,                         \* frames[i - 1]: its rectangle
  reference,                        \* what a JPEG XL viewer has saved as reference 1
  canvas,                           \* what an APNG viewer draws the next frame on
  shown, expected                   \* what each of the two has just shown

loopVars == <<i, has_nontrivial_background, previous_frame_should_be_cleared, previous>>
viewVars == <<reference, canvas, shown, expected>>
compositingVars == <<loopVars, viewVars>>

-----------------------------------------------------------------------------
(* What an APNG viewer shows for a frame, and what is left for the next.   *)

ShownByApng(f, k, old) ==
  [p \in Pixels |-> IF ~Covers(f.rect, p) THEN old[p]
                    ELSE IF f.blend_op = "SOURCE" THEN <<k>> ELSE old[p] \o <<k>>]

Cleared(r, old) == [p \in Pixels |-> IF Covers(r, p) THEN <<>> ELSE old[p]]

LeftByApng(f, k, old) ==
  CASE f.dispose_op = "NONE"       -> ShownByApng(f, k, old)
    [] f.dispose_op = "BACKGROUND" -> Cleared(f.rect, ShownByApng(f, k, old))
    [] f.dispose_op = "PREVIOUS"   -> old

-----------------------------------------------------------------------------
(* What a JPEG XL viewer shows for a packed frame: the frame replaces the  *)
(* part of reference 1 it covers, or is blended over it.  A frame without  *)
(* a crop covers the canvas.                                               *)

ShownByJxl(packed, old) ==
  LET area == IF packed.have_crop THEN packed.crop ELSE FullRect
  IN  [p \in Pixels |-> IF ~Covers(area, p) THEN old[p]
                        ELSE IF packed.blend THEN old[p] \o packed.pixels[p]
                        ELSE packed.pixels[p]]

SavedByJxl(packed, old) == IF packed.save_as_reference THEN ShownByJxl(packed, old) ELSE old

-----------------------------------------------------------------------------
(* One iteration.  The pixels of a packed frame are those of frame k over  *)
(* its rectangle and zeros elsewhere, which is what padding puts there.    *)

PixelsOfFrame(f, k) == [p \in Pixels |-> IF Covers(f.rect, p) THEN <<k>> ELSE <<>>]

HaveCrop(r) == r # FullRect

Packed(pixels, crop, blend, save) ==
  [pixels |-> pixels, crop |-> crop, have_crop |-> HaveCrop(crop),
   blend |-> blend, save_as_reference |-> save]

BlankFrame(r) == Packed(Transparent, r, FALSE, TRUE)

\* has_nontrivial_background once frame f has been looked at.
NontrivialWith(f) == has_nontrivial_background \/ f.dispose_op = "NONE"

\* Mutant: a frame to be disposed to the previous one is saved as well.
UseAfterNontrivial(f) == NontrivialWith(f)
UseForNextFrame(f) == NontrivialWith(f) /\ f.dispose_op # "PREVIOUS"

\* The four ways to get rid of what a frame disposed to background left.
ReplacesPrevious(f) == Encloses(f.rect, previous) /\ f.blend_op = "SOURCE" /\ UseForNextFrame(f)
SameAsPrevious(f)   == f.rect = previous /\ UseForNextFrame(f)
InsidePrevious(f)   == Encloses(previous, f.rect) /\ UseForNextFrame(f)

NeedsBlank(f) == /\ previous_frame_should_be_cleared
                 /\ ~ReplacesPrevious(f) /\ ~SameAsPrevious(f) /\ ~InsidePrevious(f)

\* The crop and the blend mode of the frame that carries the pixels of f.
Crop(f) == IF /\ previous_frame_should_be_cleared /\ ~ReplacesPrevious(f)
              /\ ~SameAsPrevious(f) /\ InsidePrevious(f)
           THEN previous ELSE f.rect

ShouldBlend(f) == /\ f.blend_op = "OVER"
                  /\ previous_frame_should_be_cleared => NeedsBlank(f)

PackedOf(f, k) == Packed(PixelsOfFrame(f, k), Crop(f), ShouldBlend(f), UseForNextFrame(f))

CompositeFrame(f) ==
  LET k      == i + 1
      before == IF NeedsBlank(f) THEN SavedByJxl(BlankFrame(previous), reference) ELSE reference
  IN  /\ i' = k
      /\ has_nontrivial_background' = NontrivialWith(f)
      /\ previous_frame_should_be_cleared' = (NontrivialWith(f) /\ f.dispose_op = "BACKGROUND")
      /\ previous' = f.rect
      /\ shown' = ShownByJxl(PackedOf(f, k), before)
      /\ reference' = SavedByJxl(PackedOf(f, k), before)
      /\ expected' = ShownByApng(f, k, canvas)
      /\ canvas' = LeftByApng(f, k, canvas)

CompositingInit ==
  /\ i = 0
  /\ has_nontrivial_background = FALSE
  /\ previous_frame_should_be_cleared = FALSE
  /\ previous = FullRect
  /\ reference = Transparent /\ canvas = Transparent
  /\ shown = Transparent /\ expected = Transparent

CompositingNext == i < MaxFrames /\ \E f \in FrameInfos : CompositeFrame(f)

CompositingSpec == CompositingInit /\ [][CompositingNext]_compositingVars

-----------------------------------------------------------------------------
(* Whatever the frames are, the converted animation shows the frame that   *)
(* the dispose and blend operations of the PNG ask for.  The loop leaves   *)
(* frames out of the reference, drops blend modes, pads frames and inserts *)
(* blank ones to get there (apng.cc:690-797).                              *)
RenderedLikeApng == shown = expected

\* Why: reference 1 is the canvas but for the rectangle still to be cleared.
ReferenceInv ==
  /\ canvas = IF previous_frame_should_be_cleared THEN Cleared(previous, reference) ELSE reference
  /\ ~has_nontrivial_background => canvas = Transparent /\ ~previous_frame_should_be_cleared

CompositingTypeOK ==
  /\ i \in Nat
  /\ has_nontrivial_background \in BOOLEAN /\ previous_frame_should_be_cleared \in BOOLEAN
  /\ previous \in Rects
  /\ {reference, canvas, shown, expected} \subseteq [Pixels -> Seq(Nat)]
=============================================================================
