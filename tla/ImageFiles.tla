----------------------------- MODULE ImageFiles -----------------------------
(***************************************************************************)
(* DecodeBytes (lib/extras/dec/decode.cc) tries its decoders one after the *)
(* other on the same bytes: that of APNG first, which takes every file     *)
(* with the signature of PNG and leaves every other to those of PixelFiles.*)
(* What they find out about the colours, a profile, a description or       *)
(* nothing, is the business of ColorManagement, whatever the pixels are.   *)
(***************************************************************************)
EXTENDS Apng, PixelFiles, ColorManagement

imageVars == <<apngVars, pixelVars, colorVars>>

\* A file that DecodeImageAPNG takes and then fails on is no other decoder's:
\* none of their signatures begins like that of PNG.
ImageInit ==
  \/ Init /\ NoPixelFile /\ NoColor
  \/ NotPng /\ PixelInit /\ NoColor
  \/ NotPng /\ NoPixelFile /\ ColorInit

ImageNext ==
  \/ Next /\ UNCHANGED <<pixelVars, colorVars>>
  \/ PixelNext /\ UNCHANGED <<apngVars, colorVars>>
  \/ ColorNext /\ UNCHANGED <<apngVars, pixelVars>>

ImageSpec == ImageInit /\ [][ImageNext]_imageVars
=============================================================================
