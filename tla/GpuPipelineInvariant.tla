------------------------ MODULE GpuPipelineInvariant ------------------------
(***************************************************************************)
(* The inductive invariants of GpuPipeline.                                *)
(***************************************************************************)
EXTENDS GpuPipeline

Places ==
    {"upload", "head", "shrink", "begin", "body", "end", "readback", "unwind",
     "drop", "leave", "gone"}

(* Where a job is, and what its earlier functions have left to it.         *)
PositionOK ==
    /\ job \in Jobs /\ cur \in DOMAIN job
    /\ pc \in Places /\ op \in Nat \ {0} /\ step \in Nat \ {0}
    /\ scale \in Nat /\ cw \in Nat /\ ch \in Nat /\ dim \in Nat \X Nat
    /\ pc = "body" => op \in DOMAIN Body(scale)
    /\ pc = "shrink" => fn \in Preps
    /\ pc = "readback" => fn \notin Preps

ChainOK ==
    /\ chain \in Seq(Seq(Nat \X Nat))
    /\ pc \notin {"leave", "gone"} => Len(chain) = cur - 1
    /\ fn \in Preps => scales \in Seq(Nat \X Nat)

(* A batch is open in a body only, until the locals are dropped.           *)
BatchInBody ==
    /\ pc \in {"body", "end"} => open
    /\ open => pc \in {"body", "end", "unwind"}

(* The operations of a kind before the one at hand.                        *)
Earlier(kind) == {i \in 1 .. op - 1 : Body(scale)[i].kind = kind}

(* Only downsampling leaves a set allocated outside of a batch.            *)
NothingKept == \A p \in Pipes \ {"downsample"} : sets[p] <= batchSets[p]

(* A batch has a set of each pool for each operation that dispatched one.  *)
Passed(s) == Running({"blur"}) /\ step >= s
BatchOfBody ==
    pc = "body" =>
        /\ \A p \in {"downsample", "xyb", "mul", "maps"} :
            batchSets[p] <= Cardinality(Earlier(p))
        /\ batchSets["blur_h"] <=
               Cardinality(Earlier("blur")) + (IF Passed(5) THEN 1 ELSE 0)
        /\ batchSets["blur_v"] <=
               Cardinality(Earlier("blur")) + (IF Passed(6) THEN 1 ELSE 0)

(* Whatever fails, a pipeline is such a client of its context.             *)
PipelineInv ==
    IInv /\ PositionOK /\ ChainOK /\ BatchInBody /\ NothingKept /\ BatchOfBody

(* What the operation at hand has created and not handed over.             *)
InHand ==
    {b \in caller :
        \/ Running({"downsample", "xyb", "mul"}) /\ step \in {2, 3} /\ b = Out
        \/ /\ Running({"blur"})
           /\ \/ step \in 2 .. 6 /\ b = Scratch("rg")
              \/ step \in 3 .. 7 /\ b = Scratch("temp")
              \/ step \in 4 .. 7 /\ b = Out}

(* Every buffer of the client will be destroyed by a guard, by its caller  *)
(* or by the operation at hand, which no failure interrupts.               *)
Accounted ==
    /\ caller \subseteq kept \cup resident \cup InHand
    /\ pc \in {"leave", "gone"} \/ (pc = "upload" /\ op = 1) => kept = {}
    /\ err => pc \in {"unwind", "drop", "leave", "gone"}

(* Failures after which something is left behind: those a call of the      *)
(* context leaks after, and those that make blur_planes return early, or   *)
(* destroy its scratch buffers but not its output.                         *)
CarelessFailures == LeakyFailures \cup {"buffer", "groups", "pipeline", "dset"}

CleanInv == PipelineInv /\ NoLeak /\ Accounted

-----------------------------------------------------------------------------
(* What the buffers of a job hold. A pair's images are those of the        *)
(* functions that made them.                                               *)
HomeOf(f, side) ==
    CASE side = "o" /\ job[f] \in {"fused", "compare"} -> 1
      [] side = "v" /\ job[f] = "compare" -> 2
      [] OTHER -> f
ImageOf(f, side) == <<side, HomeOf(f, side)>>

(* The dimensions and a linear image of scale k, as the reference has them.*)
WidthAt(k) == WidthOf(dim[1], dim[2], k)
HeightAt(k) == HeightOf(dim[1], dim[2], k)
PixelsAt(k) == WidthAt(k) * HeightAt(k)
LinearAt(img, k) == LinearOf(img, dim[1], dim[2], k)

XybAt(img, k) == XYB(LinearAt(img, k), PixelsAt(k))
BlurAt(x, k) == Blurred(x, WidthAt(k), HeightAt(k))
ProductAt(a, b, k) == Product(XybAt(a, k), XybAt(b, k), 3 * PixelsAt(k))

ValueOf(b) ==
    LET k == b[5]
        img(s) == ImageOf(b[1], s)
        x(s) == XybAt(img(s), k)
        mu(s) == BlurAt(x(s), k)
        m(s) == IF s = "p" THEN ProductAt(img("o"), img("v"), k)
                           ELSE ProductAt(img(s), img(s), k)
        sigma(s) == BlurAt(m(s), k)
    IN  CASE b[3] = "l" -> LinearAt(img(b[2]), k)
          [] b[3] = "x" -> x(b[2])
          [] b[3] = "m" -> m(b[2])
          [] b[3] = "s" -> sigma(b[2])
          [] b[3] = "mu" -> mu(b[2])
          [] b[3] = "sd" -> SSIMMap(mu("o"), mu("v"), sigma("o"), sigma("v"),
                                    sigma("p"), PixelsAt(k))
          [] b[3] = "ed" -> EdgeDiffMap(x("o"), mu("o"), x("v"), mu("v"), PixelsAt(k))

(* Every buffer holds what its name says ...                               *)
HoldsItsValue == \A b \in DOMAIN val : val[b] = ValueOf(b)

(* ... and the images that are kept or resident hold something, but for    *)
(* those only the maps are written to.                                     *)
Loaded == {b \in kept \cup resident : b[4] = "image" /\ b[3] \notin {"sd", "ed"}}
LoadedHold == pc \notin {"leave", "gone"} => Loaded \subseteq DOMAIN val

(* Unless the function fails, the images its client has are such, or are   *)
(* the output of the operation at hand. A pass over a pair that failed may *)
(* have left some behind.                                                  *)
OutInHand ==
    {b \in caller : Running({"downsample", "xyb", "mul", "blur"}) /\ step > 1 /\ b = Out}
ImagesInHand ==
    /\ \A b \in caller : b[1] \in 1 .. cur
    /\ ~err => \A b \in caller :
            b[4] = "image" /\ (IsPair => b[1] = cur) => b \in kept \cup resident \cup OutInHand

(* A function on its way to return an error goes on only to release what   *)
(* blur_planes has created. Until then the blur has something to read.     *)
FailsOK ==
    err => \/ pc \in {"unwind", "drop", "leave", "gone"}
           \/ Running({"blur"}) /\ step \in {6, 7}
BlurReads == ~err /\ Running({"blur"}) /\ step >= 5 => Reads(ThisOp) \subseteq DOMAIN val

(* How far the dimensions have got: an operation before the halving still  *)
(* has those of the scale before.                                          *)
Halved ==
    CASE pc = "shrink" -> FALSE
      [] pc = "begin" -> fn \in Preps \cup {"compare"}
      [] pc = "body" -> \A i \in op .. Len(Body(scale)) : Body(scale)[i].kind # "halve"
      [] OTHER -> TRUE
DimensionsOK ==
    ~err =>
        /\ pc = "upload" => scale = 0 /\ cw = dim[1] /\ ch = dim[2]
        /\ pc = "head" /\ fn # "compare" =>
                cw = WidthAt(Before(scale)) /\ ch = HeightAt(Before(scale))
        /\ pc = "shrink" => scale > 0
        /\ pc \in {"shrink", "begin", "body", "end", "readback"} =>
                LET k == IF Halved THEN scale ELSE Before(scale)
                IN  cw = WidthAt(k) /\ ch = HeightAt(k)

(* The scales a function has finished are the first of those the reference *)
(* reaches, the one at hand is the next, and a function that succeeds      *)
(* finishes them all.                                                      *)
ScaleAt(k) ==
    IF fn \in Preps THEN <<WidthAt(k), HeightAt(k)>>
    ELSE Scale(LinearAt(Image("o"), k), LinearAt(Image("v"), k), WidthAt(k), HeightAt(k))
ScalesOK ==
    ~err /\ pc \notin {"leave", "gone"} =>
        /\ scales = [i \in 1 .. scale |-> ScaleAt(i - 1)]
        /\ 0 .. scale - 1 \subseteq Reached(dim[1], dim[2])
        /\ pc \in {"shrink", "begin", "body", "end", "readback"} =>
                scale \in Reached(dim[1], dim[2])
        /\ pc \in {"unwind", "drop"} => Reached(dim[1], dim[2]) = 0 .. scale - 1

(* The same for the pyramids of the PrepImages.                            *)
PyramidsOK ==
    \A f \in 1 .. cur - 1 : ~IsPair /\ job[f] \in Preps /\ pc \notin {"leave", "gone"} =>
        /\ Reached(dim[1], dim[2]) = 0 .. Len(chain[f]) - 1
        /\ \A i \in 1 .. Len(chain[f]) : chain[f][i] = <<WidthAt(i - 1), HeightAt(i - 1)>>

(* The maps are the last operation of a scale.                             *)
MapsComputed ==
    ~err /\ pc \in {"end", "readback"} /\ fn \notin Preps =>
        {Here("p", "sd"), Here("p", "ed")} \subseteq DOMAIN val

(* Nothing is blurred that has no pixels, be it on the way to an error.    *)
BlursPixels == Running({"blur"}) => cw > 0 /\ ch > 0

ScoresLikeReference ==
    /\ scores \in Seq({scores[i] : i \in DOMAIN scores})
    /\ \A i \in DOMAIN scores :
        scores[i].scales =
            ComputeSSIMULACRA2(scores[i].of[1], scores[i].of[2], dim[1], dim[2])

ResultInv ==
    /\ PipelineInv
    /\ HoldsItsValue /\ LoadedHold /\ ImagesInHand /\ FailsOK /\ BlurReads
    /\ DimensionsOK /\ ScalesOK /\ PyramidsOK /\ MapsComputed /\ BlursPixels
    /\ ScoresLikeReference
=============================================================================
