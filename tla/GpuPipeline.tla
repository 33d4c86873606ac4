---------------------------- MODULE GpuPipeline ----------------------------
(***************************************************************************)
(* The GPU pipelines of gpu_pipeline.rs, with blur_planes (blur.rs) and    *)
(* xyb_convert (xyb.rs), as clients of a VkContext, and the callers that   *)
(* run them: pipeline() in main.rs, score_batch_paths, and the reference   *)
(* pair prep_gpu + compare_gpu of the tests.                               *)
(*                                                                         *)
(* A job is the sequence of pipeline functions its caller runs on one      *)
(* context. Every step is one call of a VkContext method; val tells what a *)
(* buffer holds once the commands recorded so far have run.                *)
(***************************************************************************)
EXTENDS GpuContext, Ssimulacra2, GaussBlur

CONSTANTS
    Jobs,           \* the jobs a run may be given,
    Dimensions      \*   and the <<w, h>> of their images

Preps == {"prep_o", "prep_v"}
PipelineFunctions == Preps \cup {"single", "fused", "compare"}

(* A cached original is prepared before anything is compared with it, and  *)
(* both sides are before they are compared.                                *)
ASSUME PipelineAssumption ==
    /\ {"downsample", "xyb", "mul", "blur_h", "blur_v", "maps"} \subseteq Pipes
    /\ Dimensions \subseteq Nat \X Nat
    /\ \A j \in Jobs :
        /\ j \in Seq(PipelineFunctions) /\ j # <<>>
        /\ \A i \in DOMAIN j :
            /\ j[i] = "fused" => i > 1 /\ j[1] = "prep_o"
            /\ j[i] = "compare" => i > 2 /\ j[1] = "prep_o" /\ j[2] = "prep_v"

VARIABLES
    job,            \* the functions to run, in order
    dim,            \* w and h
    cur,            \* the index of the function that runs
    pc,             \* where it is
    op, step,       \* the operation of the body, and the step in it
    scale,
    cw, ch,
    kept,           \* buffers the function's guard will destroy
    resident,       \* buffers of the PrepImages its caller holds
    chain,          \* w and h of each scale of a PrepImage, per function
    val,
    err,            \* the function is on its way to return Err
    scales,         \* the norms it has pushed
    scores          \* what each function has returned

progVars == <<job, dim>>
posVars == <<cur, pc, op, step, scale, cw, ch>>
dataVars == <<kept, resident, chain, val, scales, scores>>
pipelineVars == <<progVars, posVars, dataVars, err>>
allVars == <<vars, pipelineVars>>

fn == job[cur]

(* A buffer is named by the function that creates it, the side it belongs  *)
(* to (original, variant, or the pair), the variable that holds it or that *)
(* it helps to compute, what it is for that variable, and its scale. The   *)
(* buffers of a side that was prepped are those of the function before.    *)
Home(side) ==
    CASE side = "o" /\ fn \in {"fused", "compare"} -> 1
      [] side = "v" /\ fn = "compare" -> 2
      [] OTHER -> cur
Buf(side, var, part, k) == <<Home(side), side, var, part, k>>
Image(side) == <<side, Home(side)>>

Plane(side, var, k) == Buf(side, var, "image", k)
Here(side, var) == Plane(side, var, scale)

Variables == {"l", "x", "m", "s", "mu", "sd", "ed"}
AllBuffers ==
    (1 .. 3) \X {"o", "v", "p"} \X Variables \X
    {"image", "upload", "rg", "temp", "staging"} \X (0 .. kNumScales - 1)

InitOf(j, d) ==
    /\ Init
    /\ job = j
    /\ dim = d
    /\ cur = 1 /\ pc = "upload" /\ op = 1 /\ step = 1
    /\ scale = 0 /\ cw = d[1] /\ ch = d[2]
    /\ kept = {} /\ resident = {} /\ chain = <<>> /\ val = <<>>
    /\ err = FALSE
    /\ scales = <<>> /\ scores = <<>>

PipelineInit == \E j \in Jobs, d \in Dimensions : InitOf(j, d)

-----------------------------------------------------------------------------
(* The operations of one scale, in program order. The names are those of   *)
(* ScalePrep: the single-shot x1, m11, s11, mu1 are side "o", x2, m22,     *)
(* s22, mu2 side "v" and m12, s12 the pair's.                              *)
Op(kind, side, var) == [kind |-> kind, side |-> side, var |-> var]

Maps == <<Op("empty", "p", "sd"), Op("empty", "p", "ed"), Op("maps", "p", "sd")>>

(* Mutant: the variant is downsampled with the dimensions it gets by it.   *)
ShrinksEarly == <<Op("downsample", "o", "l"), Op("halve", "p", "l"),
                  Op("downsample", "v", "l")>>
ShrinksBoth == <<Op("downsample", "o", "l"), Op("downsample", "v", "l"),
                 Op("halve", "p", "l")>>

SingleBody(k) ==
    (IF k > 0 THEN ShrinksBoth ELSE <<>>) \o
    <<Op("xyb", "o", "x"), Op("xyb", "v", "x"),
      Op("mul", "o", "m"), Op("mul", "v", "m"), Op("mul", "p", "m"),
      Op("blur", "o", "s"), Op("blur", "v", "s"), Op("blur", "p", "s"),
      Op("blur", "o", "mu"), Op("blur", "v", "mu")>> \o Maps

PrepBody(side) ==
    <<Op("xyb", side, "x"), Op("mul", side, "m"), Op("blur", side, "s"),
      Op("blur", side, "mu")>>

ShrinksVariant == <<Op("downsample", "v", "l"), Op("halve", "p", "l")>>

FusedBody(k) ==
    (IF k > 0 THEN ShrinksVariant ELSE <<>>)
    \o PrepBody("v") \o <<Op("mul", "p", "m"), Op("blur", "p", "s")>> \o Maps

CompareBody == <<Op("mul", "p", "m"), Op("blur", "p", "s")>> \o Maps

Body(k) ==
    CASE fn = "single" -> SingleBody(k)
      [] fn = "prep_o" -> PrepBody("o")
      [] fn = "prep_v" -> PrepBody("v")
      [] fn = "fused" -> FusedBody(k)
      [] fn = "compare" -> CompareBody

(* The buffers a shader reads, and what it then leaves in its output.      *)
Inputs(o) ==
    CASE o.kind = "downsample" -> <<Plane(o.side, "l", scale - 1)>>
      [] o.kind = "xyb" -> <<Here(o.side, "l")>>
      [] o.kind = "mul" -> IF o.side = "p"
                           THEN <<Here("o", "x"), Here("v", "x")>>
                           ELSE <<Here(o.side, "x"), Here(o.side, "x")>>
      [] o.kind = "blur" -> <<Here(o.side, IF o.var = "s" THEN "m" ELSE "x")>>
      [] o.kind = "maps" -> <<Here("o", "x"), Here("v", "x"),
                              Here("o", "mu"), Here("v", "mu"),
                              Here("o", "s"), Here("v", "s"), Here("p", "s")>>

Computed(o) ==
    LET in == [i \in DOMAIN Inputs(o) |-> val[Inputs(o)[i]]]
        n == cw * ch
    IN  CASE o.kind = "downsample" -> Downsampled(in[1], cw, ch)
          [] o.kind = "xyb" -> XYB(in[1], n)
          [] o.kind = "mul" -> Product(in[1], in[2], 3 * n)
          [] o.kind = "blur" -> Blurred(in[1], cw, ch)

Holds(b, v) == [x \in DOMAIN val \cup {b} |-> IF x = b THEN v ELSE val[x]]
Reads(o) == {Inputs(o)[i] : i \in DOMAIN Inputs(o)}

-----------------------------------------------------------------------------
(* Where the function goes on after an operation; a failed one makes it    *)
(* return Err: the guards abort the batch and destroy what they keep.      *)
Position(to, o, s) == pc' = to /\ op' = o /\ step' = s
NextStep == Position(pc, op, step + 1)
NextOp ==
    IF op < Len(Body(scale)) /\ pc = "body"
    THEN Position("body", op + 1, 1)
    ELSE Position(IF pc = "body" THEN "end" ELSE "begin", 1, 1)
Fails == err' = TRUE /\ Position("unwind", 1, 1)

Keep(b) == kept' = kept \cup {b}

UploadSides == CASE fn = "single" -> <<"o", "v">>
                 [] fn = "prep_o" -> <<"o">>
                 [] fn = "compare" -> <<>>
                 [] OTHER -> <<"v">>

(* create_buffer_f32 for the linear planes, before the loop.               *)
Upload ==
    /\ pc = "upload"
    /\ IF op > Len(UploadSides)
       THEN /\ Position("head", 1, 1)
            /\ UNCHANGED <<vars, kept, val, err>>
       ELSE \E ok \in BOOLEAN :
            LET b == Plane(UploadSides[op], "l", 0)
            IN  /\ CreateBuffer(Buf(UploadSides[op], "l", "upload", 0), b, ok)
                /\ IF ok
                   THEN /\ Keep(b) /\ Position("upload", op + 1, 1)
                        /\ val' = Holds(b, Image(UploadSides[op]))
                        /\ UNCHANGED err
                   ELSE Fails /\ UNCHANGED <<kept, val>>
    /\ UNCHANGED <<progVars, cur, scale, cw, ch, resident, chain, scales, scores>>

(* The head of the loop over the scales. prep_gpu and the single shot test *)
(* the size, the others follow the pyramids they were given.               *)
PyramidEnds == scale >= kNumScales \/ TooSmall(cw, ch)

LastScale ==
    CASE fn \in Preps \cup {"single"} -> PyramidEnds
      [] fn = "fused" -> scale >= Len(chain[1])
      [] fn = "compare" -> scale >= Len(chain[1]) \/ scale >= Len(chain[2])

LoopHead ==
    /\ pc = "head"
    /\ IF LastScale
       THEN Position("unwind", 1, 1) /\ UNCHANGED <<cw, ch>>
       ELSE /\ Position(IF fn \in Preps /\ scale > 0 THEN "shrink" ELSE "begin", 1, 1)
            /\ cw' = IF fn = "compare" THEN chain[1][scale + 1][1] ELSE cw
            /\ ch' = IF fn = "compare" THEN chain[1][scale + 1][2] ELSE ch
    /\ UNCHANGED <<vars, progVars, cur, scale, dataVars, err>>

Begin ==
    /\ pc = "begin"
    /\ \E ok \in BOOLEAN :
        /\ BeginBatch(ok)
        /\ IF ok THEN Position("body", 1, 1) /\ UNCHANGED err ELSE Fails
    /\ UNCHANGED <<progVars, cur, scale, cw, ch, dataVars>>

(* The operation at hand; prep_gpu downsamples outside of the batch.       *)
ThisOp ==
    CASE pc = "body" -> Body(scale)[op]
      [] pc = "shrink" -> Op("downsample", IF fn = "prep_o" THEN "o" ELSE "v", "l")
Running(kinds) == pc \in {"body", "shrink"} /\ ThisOp.kind \in kinds
Out == Here(ThisOp.side, ThisOp.var)
Scratch(part) == Buf(ThisOp.side, ThisOp.var, part, scale)

(* (cw + 1) / 2 and (ch + 1) / 2, once the images are downsampled.         *)
Halve ==
    /\ Running({"halve"})
    /\ cw' = Half(cw) /\ ch' = Half(ch)
    /\ NextOp
    /\ UNCHANGED <<vars, progVars, cur, scale, dataVars, err>>

(* create_empty of an output: sd and ed are kept at once.                  *)
CreateOut ==
    /\ \/ Running({"downsample", "xyb", "mul", "empty"}) /\ step = 1
       \/ Running({"blur"}) /\ step = 3
    /\ \E ok \in BOOLEAN :
        /\ CreateEmpty(Out, ok)
        /\ IF ~ok THEN Fails /\ UNCHANGED kept
           ELSE IF ThisOp.kind = "empty" THEN NextOp /\ Keep(Out) /\ UNCHANGED err
           ELSE NextStep /\ UNCHANGED <<kept, err>>
    /\ UNCHANGED <<progVars, cur, scale, cw, ch, resident, chain, val, scales, scores>>

(* downsample, mul and xyb_convert: dispatch, and hand the output over.    *)
Dispatch ==
    /\ Running({"downsample", "xyb", "mul"}) /\ step = 2
    /\ \E ok \in BOOLEAN :
        /\ RunComputePush(ThisOp.kind, Reads(ThisOp) \cup {Out}, ok)
        /\ IF ok
           THEN /\ Keep(Out)
                /\ val' = Holds(Out, Computed(ThisOp))
                /\ IF pc = "shrink"
                   THEN cw' = Half(cw) /\ ch' = Half(ch)
                   ELSE UNCHANGED <<cw, ch>>
                /\ NextOp
           ELSE NextStep /\ UNCHANGED <<kept, val, cw, ch>>
    /\ UNCHANGED <<progVars, cur, scale, resident, chain, err, scales, scores>>

DispatchFailed ==
    /\ Running({"downsample", "xyb", "mul"}) /\ step = 3
    /\ DestroyBuffer(Out)
    /\ Fails
    /\ UNCHANGED <<progVars, cur, scale, cw, ch, dataVars>>

-----------------------------------------------------------------------------
(* blur_planes: the coefficients, the temporary and the output image are   *)
(* created; the two passes run; coefficients and temporary are released.   *)
(* An early return leaks what was created before it.                       *)
BlurCreate ==
    /\ Running({"blur"}) /\ step \in {1, 2}
    /\ \E ok \in BOOLEAN :
        /\ IF step = 1 THEN CreateBuffer(Scratch("upload"), Scratch("rg"), ok)
                       ELSE CreateEmpty(Scratch("temp"), ok)
        /\ IF ok THEN NextStep /\ UNCHANGED err ELSE Fails
    /\ UNCHANGED <<progVars, cur, scale, cw, ch, dataVars>>

BlurPass ==
    /\ Running({"blur"}) /\ step \in {4, 5}
    /\ \E ok \in BOOLEAN :
        /\ RunComputePush(IF step = 4 THEN "blur_h" ELSE "blur_v",
                          {Scratch("temp"), Scratch("rg")} \cup
                          (IF step = 4 THEN Reads(ThisOp) ELSE {Out}), ok)
        /\ err' = ~ok
        /\ Position(pc, op, IF ok THEN step + 1 ELSE 6)
    /\ UNCHANGED <<progVars, cur, scale, cw, ch, dataVars>>

BlurRelease ==
    /\ Running({"blur"}) /\ step = 6
    /\ DestroyBuffer(Scratch("rg"))
    /\ NextStep
    /\ UNCHANGED <<progVars, cur, scale, cw, ch, dataVars, err>>

BlurReturn ==
    /\ Running({"blur"}) /\ step = 7
    /\ DestroyBuffer(Scratch("temp"))
    /\ IF err THEN Fails /\ UNCHANGED <<kept, val>>
       ELSE /\ Keep(Out)
            /\ val' = Holds(Out, Computed(ThisOp))
            /\ NextOp
            /\ UNCHANGED err
    /\ UNCHANGED <<progVars, cur, scale, cw, ch, resident, chain, scales, scores>>

(* The maps pass writes sd and ed; a failure needs no clean-up of its own. *)
MapsPass ==
    /\ Running({"maps"})
    /\ \E ok \in BOOLEAN :
        /\ RunComputePush("maps", Reads(ThisOp) \cup {Here("p", "sd"), Here("p", "ed")},
                          ok)
        /\ IF ok
           THEN LET i(n) == val[Inputs(ThisOp)[n]]
                    ssim == SSIMMap(i(3), i(4), i(5), i(6), i(7), cw * ch)
                    edge == EdgeDiffMap(i(1), i(3), i(2), i(4), cw * ch)
                IN  /\ val' = [b \in DOMAIN val \cup {Here("p", "sd"), Here("p", "ed")} |->
                                CASE b = Here("p", "sd") -> ssim
                                  [] b = Here("p", "ed") -> edge
                                  [] OTHER -> val[b]]
                    /\ NextOp
                    /\ UNCHANGED err
           ELSE Fails /\ UNCHANGED val
    /\ UNCHANGED <<progVars, cur, scale, cw, ch, kept, resident, chain, scales, scores>>

-----------------------------------------------------------------------------
NextScale == scale' = scale + 1 /\ Position("head", 1, 1)

(* end_batch; prep_gpu then records the scale it has finished.             *)
End ==
    /\ pc = "end"
    /\ \E ok \in BOOLEAN :
        /\ FinishBatch(TRUE, ok)
        /\ IF ~ok THEN Fails /\ UNCHANGED <<scale, scales>>
           ELSE /\ UNCHANGED err
                /\ IF fn \in Preps
                   THEN NextScale /\ scales' = Append(scales, <<cw, ch>>)
                   ELSE Position("readback", 1, 1) /\ UNCHANGED <<scale, scales>>
    /\ UNCHANGED <<progVars, cur, cw, ch, kept, resident, chain, val, scores>>

(* readback_f32_all of sd and ed, and the norms of what it returned.       *)
Readback ==
    /\ pc = "readback"
    /\ \E ok \in BOOLEAN :
        /\ ReadbackAll({Here("p", "sd"), Here("p", "ed")}, 2 * cw * ch,
                       Buf("p", "sd", "staging", scale),
                       Buf("p", "ed", "staging", scale), ok)
        /\ IF ok THEN /\ NextScale
                      /\ scales' = Append(scales, Norms(val[Here("p", "sd")],
                                                        val[Here("p", "ed")], cw, ch))
                      /\ UNCHANGED err
           ELSE Fails /\ UNCHANGED <<scale, scales>>
    /\ UNCHANGED <<progVars, cur, cw, ch, kept, resident, chain, val, scores>>

(* Mutant: prep_gpu has no BatchGuard and no abort of its own.             *)
BatchLeftOpen == UNCHANGED vars
BatchAborted == \E ok \in BOOLEAN : FinishBatch(FALSE, ok)

(* The function's locals are dropped: an open batch is aborted first (a    *)
(* second abort finds none, and its error is ignored) ...                  *)
AbortOpenBatch ==
    /\ pc = "unwind" /\ open
    /\ BatchAborted
    /\ Position("drop", 1, 1)
    /\ UNCHANGED <<progVars, cur, scale, cw, ch, dataVars, err>>

ReturnsPrep == fn \in Preps /\ ~err

Dropping == pc = "drop" \/ (pc = "unwind" /\ ~open)

(* ... then the guard destroys its buffers, except those a PrepImage hands *)
(* to the caller.                                                          *)
GuardDrop ==
    /\ Dropping
    /\ ~ReturnsPrep /\ kept # {}
    /\ LET b == CHOOSE b \in kept : TRUE
       IN  DestroyBuffer(b) /\ kept' = kept \ {b}
    /\ UNCHANGED <<progVars, posVars, resident, chain, val, err, scales, scores>>

(* The function returns. The caller of a single pair computes a pass that  *)
(* failed on the CPU; the callers of a batch give up.                      *)
IsPair == \A i \in DOMAIN job : job[i] = "single"

(* Mutant: the scales a failing pass has finished are taken for its result.*)
ResultOfSome == scales
Result ==
    CASE ~err -> scales
      [] err /\ IsPair -> compute_ssimulacra2_cpu(Image("o"), Image("v"), dim[1], dim[2])
      [] OTHER -> <<>>

Return ==
    /\ Dropping
    /\ ReturnsPrep \/ kept = {}
    /\ resident' = resident \cup kept
    /\ kept' = {}
    /\ chain' = Append(chain, IF ReturnsPrep THEN scales ELSE <<>>)
    /\ scores' = IF fn \in Preps \/ Result = <<>> THEN scores
                 ELSE Append(scores, [of |-> <<Image("o"), Image("v")>>,
                                      scales |-> Result])
    /\ val' = [b \in DOMAIN val \cap resident' |-> val[b]]
    /\ scales' = <<>>
    /\ IF cur = Len(job) \/ (err /\ ~IsPair)
       THEN Position("leave", 1, 1) /\ UNCHANGED <<cur, scale, cw, ch, err>>
       ELSE /\ Position("upload", 1, 1)
            /\ cur' = cur + 1
            /\ scale' = 0 /\ cw' = dim[1] /\ ch' = dim[2]
            /\ err' = FALSE
    /\ UNCHANGED <<vars, progVars>>

(* The caller drops its PrepImages, and then the context.                  *)
PrepDrop ==
    /\ pc = "leave" /\ resident # {}
    /\ LET b == CHOOSE b \in resident : TRUE
       IN  DestroyBuffer(b) /\ resident' = resident \ {b}
    /\ val' = <<>>
    /\ UNCHANGED <<progVars, posVars, kept, chain, err, scales, scores>>

ContextDrop ==
    /\ pc = "leave" /\ resident = {}
    /\ Drop
    /\ Position("gone", 1, 1)
    /\ UNCHANGED <<progVars, cur, scale, cw, ch, dataVars, err>>

Left == pc = "gone" /\ UNCHANGED allVars

PipelineNext ==
    \/ Upload \/ LoopHead \/ Begin \/ Halve \/ CreateOut \/ Dispatch
    \/ DispatchFailed \/ BlurCreate \/ BlurPass \/ BlurRelease \/ BlurReturn
    \/ MapsPass \/ End \/ Readback \/ AbortOpenBatch \/ GuardDrop \/ Return
    \/ PrepDrop \/ ContextDrop \/ Left

PipelineSpec == PipelineInit /\ [][PipelineNext]_allVars

-----------------------------------------------------------------------------
(* The numbers of scales for which score.rs is Msssim::Score().             *)
SameWeights == {n \in 1 .. kNumScales : weighted_sum(n) = Score(n)}

(* ssimulacra2.cc, batch_parity.rs: whichever way a pair is scored (single *)
(* shot, against a cached original, from two prepped sides, or on the CPU  *)
(* after the GPU failed) the norms are those of the reference, scale by    *)
(* scale: the same stages of the same images with the same dimensions. And *)
(* the score adds up the same averages of them with the same weights, when *)
(* scales are missing too (score.rs:12).                                   *)
SameAsReference ==
    \A i \in DOMAIN scores :
        /\ scores[i].scales =
               ComputeSSIMULACRA2(scores[i].of[1], scores[i].of[2], dim[1], dim[2])
        /\ scores[i].scales # <<>> => Len(scores[i].scales) \in SameWeights

(* Every dispatch a pipeline is about to record in its batch finds room in *)
(* the descriptor pool of its shader, whatever failed in the batches and   *)
(* the passes before it (pipeline.rs:204-240, context.rs:610-681).         *)
RoomForNextDispatch ==
    LET at(kind, s) == Running({kind}) /\ step \in s
        next == {kind \in {"downsample", "xyb", "mul"} : at(kind, {2})}
                \cup (IF at("maps", Nat) THEN {"maps"} ELSE {})
                \cup (IF at("blur", {4}) THEN {"blur_h"} ELSE {})
                \cup (IF at("blur", {5}) THEN {"blur_v"} ELSE {})
    IN  open => \A p \in next : RoomInPool(p)

(* gpu_pipeline.rs:12 and :204 (F8): when a pipeline function has returned,*)
(* whether Ok or Err, only the PrepImages' buffers and the staging buffer  *)
(* are left, and no batch is open.                                         *)
NothingLeftBehind ==
    pc \in {"leave", "gone"} \/ (pc = "upload" /\ op = 1) =>
        /\ live \subseteq resident \cup {staging}
        /\ unbound = {} /\ ~open

(* Blur uses a sigma of 1.5, whose radius is 5. Coefficients are real in   *)
(* the code; the expanded ones are of the fourth degree in d1, so that     *)
(* they are right for every d1 if they are for five.                       *)
Filters == [N : {5}, n2 : {3}, d1 : -2 .. 2]

(* Bound: longer lines are not scanned.                                    *)
LongestScan == 70

(* A line of arbitrary pixels between arbitrary memory.                    *)
Memory(length) ==
    [i \in -20 .. length + 20 |-> IF i \in 0 .. length - 1 THEN ((7 * i * i + 3 * i) % 11) - 5
                                 ELSE 1000 + i]

AgreeingLengths ==
    {length \in 1 .. LongestScan : \A g \in Filters :
        LET row == Scanned("FastGaussian1D", g, Memory(length), length)
        IN  /\ Scanned("blur_1d", g, Memory(length), length) = row
            /\ \A scan \in Scans : Scanned(scan, g, Memory(length), length).out = row.out}

(* Bound: a word that holds the flat indices of these lines.               *)
Word == 1024

(* A limit of one or two groups per dimension stands for one that the      *)
(* lines of an image exceed; 65535 is the least Vulkan allows.             *)
ScannedOnceLengths ==
    {length \in 1 .. LongestScan :
        \A max_x \in {1, 2, 65535} : LinesScannedOnce(Word, length, max_x)}

(* blur.rs:1-5: a blur the GPU runs or the CPU repeats is the oracle's for *)
(* the dimensions of its scale, narrow ones that only have borders too:    *)
(* each row and column is scanned by one invocation, pixel for pixel in    *)
(* the form the oracle uses (the lanes), unrolled steps, ring buffer and   *)
(* plain recurrence are one filter, and no output depends on what lies     *)
(* around the line.                                                        *)
BlursLikeReference ==
    Running({"blur"}) =>
        \A length \in {cw, ch} : length <= LongestScan =>
            length \in AgreeingLengths \cap ScannedOnceLengths
=============================================================================
