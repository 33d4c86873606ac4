---------------------------- MODULE Ssimulacra2 ----------------------------
(***************************************************************************)
(* The metric as a dataflow: ComputeSSIMULACRA2 of src/ssimulacra2.cc, the *)
(* reference ("oracle") of the port, and its CPU transcription in cpu.rs.  *)
(*                                                                         *)
(* An image is the term that computes it, with the dimensions each stage   *)
(* was told: that is what the engines must agree on. What a stage does to  *)
(* the pixels is abstracted. A term is a tuple headed by its stage.        *)
(***************************************************************************)
EXTENDS Naturals, Sequences

kNumScales == 6

Half(n) == (n + 1) \div 2

TooSmall(w, h) == w < 8 \/ h < 8

Downsampled(img, w, h) == <<"downsample", img, w, h>>
XYB(img, n) == <<"xyb", img, n>>
Product(a, b, n) == <<"mul", a, b, n>>
Blurred(img, w, h) == <<"blur", img, w, h>>
SSIMMap(m1, m2, s11, s22, s12, n) == <<"ssim", m1, m2, s11, s22, s12, n>>
EdgeDiffMap(img1, mu1, img2, mu2, n) == <<"edge", img1, mu1, img2, mu2, n>>
Norms(ssim, edge, w, h) == <<"norms", ssim, edge, w, h>>

(* What is computed at one scale from its two linear images.               *)
Scale(orig, dist, w, h) ==
    LET n == w * h
        img1 == XYB(orig, n)
        img2 == XYB(dist, n)
        mu1 == Blurred(img1, w, h)
        mu2 == Blurred(img2, w, h)
        sigma1_sq == Blurred(Product(img1, img1, 3 * n), w, h)
        sigma2_sq == Blurred(Product(img2, img2, 3 * n), w, h)
        sigma12 == Blurred(Product(img1, img2, 3 * n), w, h)
    IN  Norms(SSIMMap(mu1, mu2, sigma1_sq, sigma2_sq, sigma12, n),
              EdgeDiffMap(img1, mu1, img2, mu2, n), w, h)

(* The linear images and dimensions of scale k, as long as it is reached.  *)
At(orig, dist, w, h) ==
    LET at[k \in 0 .. kNumScales - 1] ==
            IF k = 0 THEN <<orig, dist, w, h>>
            ELSE LET p == at[k - 1]
                 IN  <<Downsampled(p[1], p[3], p[4]), Downsampled(p[2], p[3], p[4]),
                       Half(p[3]), Half(p[4])>>
    IN  at

(* The dimensions of scale k, what img has become there, and the scale     *)
(* whose dimensions the loop tests before it goes on to scale k.           *)
WidthOf(w, h, k) == At(<<>>, <<>>, w, h)[k][3]
HeightOf(w, h, k) == At(<<>>, <<>>, w, h)[k][4]
LinearOf(img, w, h, k) == At(img, img, w, h)[k][1]
Before(k) == IF k = 0 THEN 0 ELSE k - 1

(* The loop stops at the first scale whose predecessor is too small: its   *)
(* own dimensions are only known after the test.                           *)
Reached(w, h) ==
    LET before[k \in 0 .. kNumScales - 1] ==
            IF k <= 1 THEN <<w, h>>
            ELSE <<Half(before[k - 1][1]), Half(before[k - 1][2])>>
    IN  {k \in 0 .. kNumScales - 1 :
            \A j \in 0 .. k : ~TooSmall(before[j][1], before[j][2])}

ComputeSSIMULACRA2(orig, dist, w, h) ==
    LET at == At(orig, dist, w, h)
        scale == [k \in Reached(w, h) |->
                    Scale(at[k][1], at[k][2], at[k][3], at[k][4])]
    IN  [i \in {k + 1 : k \in DOMAIN scale} |-> scale[i - 1]]

-----------------------------------------------------------------------------
(* compute_ssimulacra2_cpu, as the loop it is: the state is lin1, lin2, cw *)
(* and ch, and the scales pushed so far.                                   *)
CpuScale(s, scale) ==
    LET small == TooSmall(s.w, s.h)
        next == IF scale > 0
                THEN [a |-> Downsampled(s.a, s.w, s.h),
                      b |-> Downsampled(s.b, s.w, s.h),
                      w |-> Half(s.w), h |-> Half(s.h)]
                ELSE [a |-> s.a, b |-> s.b, w |-> s.w, h |-> s.h]
    IN  IF s.broke \/ small
        THEN [s EXCEPT !.broke = TRUE]
        ELSE [a |-> next.a, b |-> next.b, w |-> next.w, h |-> next.h,
              broke |-> FALSE,
              scales |-> Append(s.scales, Scale(next.a, next.b, next.w, next.h))]

compute_ssimulacra2_cpu(lin1, lin2, w, h) ==
    LET after[k \in 0 .. kNumScales] ==
            IF k = 0 THEN [a |-> lin1, b |-> lin2, w |-> w, h |-> h,
                           broke |-> FALSE, scales |-> <<>>]
            ELSE CpuScale(after[k - 1], k - 1)
    IN  after[kNumScales].scales

-----------------------------------------------------------------------------
(* The score. An average is named by what it is over, its channel, and its *)
(* norm, 1 or 4; SSIMMap and EdgeDiffMap leave a scale's in two arrays.    *)
Average(of, c, norm) == [of |-> of, c |-> c, norm |-> norm]
Norm(n) == IF n = 0 THEN 1 ELSE 4

avg_ssim == [i \in 0 .. 5 |-> Average("ssim", i \div 2, Norm(i % 2))]
avg_edgediff ==
    [i \in 0 .. 11 |-> Average(IF i % 4 < 2 THEN "artifact" ELSE "detail_lost",
                               i \div 4, Norm(i % 2))]

(* What Score() adds up, in its order: the i-th weight and what it is for. *)
(* Weights are used without a gap, whatever the number of scales.          *)
Score(scales) ==
    [i \in 1 .. 18 * scales |->
        LET c == (i - 1) \div (6 * scales)
            scale == ((i - 1) \div 6) % scales
            n == ((i - 1) \div 3) % 2
            which == (i - 1) % 3
        IN  <<scale + 1, CASE which = 0 -> avg_ssim[c * 2 + n]
                           [] which = 1 -> avg_edgediff[c * 4 + n]
                           [] which = 2 -> avg_edgediff[c * 4 + n + 2]>>]

(* ssim_norms, edge_norms and the scale loop of cpu.rs: out is filled      *)
(* channel by channel.                                                     *)
ssim_norms ==
    LET out[c \in 0 .. 3] ==
            IF c = 0 THEN <<>>
            ELSE out[c - 1] \o <<Average("ssim", c - 1, 1), Average("ssim", c - 1, 4)>>
    IN  out[3]
edge_norms ==
    LET out[c \in 0 .. 3] ==
            IF c = 0 THEN <<>>
            ELSE out[c - 1] \o
                 <<Average("artifact", c - 1, 1), Average("artifact", c - 1, 4),
                   Average("detail_lost", c - 1, 1), Average("detail_lost", c - 1, 4)>>
    IN  out[3]

(* weighted_sum: three loops, one inside the other, and a running index.   *)
weighted_sum(scales) ==
    LET body(c, sc, n) == <<<<sc, ssim_norms[c * 2 + n + 1]>>,
                            <<sc, edge_norms[c * 4 + n + 1]>>,
                            <<sc, edge_norms[c * 4 + n + 2 + 1]>>>>
        ofChannel(c) ==
            LET upto[sc \in 0 .. scales] ==
                    IF sc = 0 THEN <<>>
                    ELSE upto[sc - 1] \o body(c, sc, 0) \o body(c, sc, 1)
            IN  upto[scales]
    IN  ofChannel(0) \o ofChannel(1) \o ofChannel(2)
=============================================================================
