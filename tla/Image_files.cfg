\* PNG: four images with one chunk besides, or fewer images with more chunks.
\* Other files: two operations on a picture, and two threads.
\* Colours: two calls on an encoding and one transform.
SPECIFICATION ImageSpec
CONSTANTS
  Width = 2
  Height = 2
  MaxFrames = 3
  FrameRects <- MCRects
  MaxChunks = 8
  MaxExtras = 2
  Sources <- MCSources
  Encodings <- MCEncodings
  Extensions <- MCExtensions
  Constraints <- MCConstraints
  PoolThreads = {0, 1}
  MaxOperations = 2
  Profiles <- MCProfiles
  Externals <- MCExternals
  Hints <- MCHints
  Targets <- MCTargets
  Intensities <- MCIntensities
  Drifts <- MCDrifts
  MaxCalls = 2
INVARIANTS
  RenderedLikeApng
  FramesShowLatestRows
  ColourLikePng
  ReadsWhatIsWhole
  PictureAsDrawn
  FrameUpright
  WrittenReadsBack
  ProfileTellsFields
  DescribedAsIs
  TransformKeepsColour
\* A file that has been decoded, or not, or written, is the end.
CHECK_DEADLOCK FALSE
