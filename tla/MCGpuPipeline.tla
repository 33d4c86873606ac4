--------------------------- MODULE MCGpuPipeline ---------------------------
(* Instances of GpuPipeline for TLC. *)
EXTENDS GpuPipelineInvariant

MCNoBuffer == <<>>
MCPipes == {"downsample", "xyb", "mul", "blur_h", "blur_v", "maps"}
MCSizes == {}

(* What the callers run: one pair, a pair with alpha (two passes), two     *)
(* variants against a cached original, and two prepped sides.              *)
SinglePair == <<"single">>
AlphaPair == <<"single", "single">>
ScoreMany == <<"prep_o", "fused", "fused">>
Split == <<"prep_o", "prep_v", "compare">>
AllJobs == {SinglePair, AlphaPair, ScoreMany, Split}
OneOfEach == {AlphaPair, ScoreMany}
(* With every failure two passes would multiply the states by a hundred.   *)
SinglePass == {SinglePair, ScoreMany, Split}

(* Stopped by the size at once, after one scale and after two, with odd    *)
(* sides; and by kNumScales, with room for a seventh scale.                *)
SmallDimensions == {<<8, 8>>, <<9, 15>>, <<17, 33>>}
AllDimensions == SmallDimensions \cup {<<512, 515>>}
TwoScales == {<<9, 15>>}

DispatchFails == {"dset"}

(* Failures after which the device may still be in use are left out.       *)
SettledFailures == AllFailures \ {"wait", "batch_wait"}

(* The failures every helper cleans up after. *)
CleanFailures == {"map", "invalidate", "batch_cmdbuf", "batch_end",
                  "batch_fence", "batch_submit", "batch_lost", "dpool_reset"}
=============================================================================
