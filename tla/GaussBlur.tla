----------------------------- MODULE GaussBlur ------------------------------
(***************************************************************************)
(* The recursive Gaussian filter: FastGaussian1D and VerticalStrip of      *)
(* lib/jxl/gauss_blur.cc, and their ports to Rust and GLSL (blur.rs,       *)
(* blur_h.comp, blur_v.comp).                                              *)
(*                                                                         *)
(* A scan along a line of pixels has phases: with and without checks of    *)
(* the borders, one output at a time and four by expanded coefficients,    *)
(* with a ring buffer or with two variables. They have to be phases of one *)
(* filter. Arithmetic is exact here, on integers; of the three terms that  *)
(* are added up in an output there is one, for the others are alike.       *)
(*                                                                         *)
(* line is the memory the line of pixels 0 .. length - 1 lies in: it has   *)
(* values outside of the line too, that no output may depend on.           *)
(***************************************************************************)
EXTENDS Dispatch

Lanes == 4                      \* JXL_GAUSS_MAX_LANES
kMod == 4
kPrefetchRows == 8

-----------------------------------------------------------------------------
(* CreateRecursiveGaussian. A filter is its radius N and the coefficients  *)
(* n2 and d1; lane l of an unrolled step has coefficients of its own for   *)
(* the two outputs before the step and for the inputs of the step.         *)
mul_prev(g, l) ==
    LET d == g.d1
    IN  CASE l = 0 -> -d
          [] l = 1 -> d * d - 1
          [] l = 2 -> -d * d * d + 2 * d
          [] l = 3 -> d * d * d * d - 3 * d * d + 1

mul_prev2(g, l) ==
    LET d == g.d1
    IN  CASE l = 0 -> -1
          [] l = 1 -> d
          [] l = 2 -> -d * d + 1
          [] l = 3 -> d * d * d - 2 * d

mul_in(g, l) ==
    LET d == g.d1
    IN  CASE l = 0 -> g.n2
          [] l = 1 -> -d * g.n2
          [] l = 2 -> d * d * g.n2 - g.n2
          [] l = 3 -> -d * d * d * g.n2 + 2 * d * g.n2

RoundUpTo(what, align) == div_ceil(what, align) * align

(* What the filter is: the sum of two pixels, beyond the line zero, and    *)
(* the two outputs before ("o0 = n*i0 - d*p - pp").                        *)
Pixel(line, length, i) == IF i \in 0 .. length - 1 THEN line[i] ELSE 0

Recurrence(g, sum, p, pp) == g.n2 * sum - g.d1 * p - pp

IsResponse(g, line, length, y) ==
    /\ \A n \in {-g.N - 1, -g.N} : y[n] = 0
    /\ \A n \in 1 - g.N .. length - 1 :
          y[n] = Recurrence(g, Pixel(line, length, n - g.N - 1)
                                 + Pixel(line, length, n + g.N - 1),
                            y[n - 1], y[n - 2])

-----------------------------------------------------------------------------
(* FastGaussian1D. lane[i] is the lane pixel i was computed in.            *)
ScanStart(g, length) ==
    [n |-> 1 - g.N, prev |-> 0, prev2 |-> 0,
     out |-> [i \in 0 .. length - 1 |-> 0], lane |-> [i \in 0 .. length - 1 |-> 0]]

LeftVal(g, line, n) == IF n - g.N - 1 >= 0 THEN line[n - g.N - 1] ELSE 0
RightVal(g, line, length, n) == IF n + g.N - 1 < length THEN line[n + g.N - 1] ELSE 0

(* Only lane 0 of a vector is used.                                        *)
SingleStep(g, line, length, s) ==
    LET sum == LeftVal(g, line, s.n) + RightVal(g, line, length, s.n)
        o == sum * mul_in(g, 0) + mul_prev2(g, 0) * s.prev2 + mul_prev(g, 0) * s.prev
    IN  [s EXCEPT !.n = @ + 1, !.prev = o, !.prev2 = s.prev,
                  !.out = IF s.n >= 0 THEN [@ EXCEPT ![s.n] = o] ELSE @]

(* Four outputs o(0) .. o(3) at once.                                      *)
StoreLanes(s, o(_)) ==
    [s EXCEPT !.n = @ + Lanes, !.prev2 = o(2), !.prev = o(3),
              !.out = [i \in DOMAIN @ |-> IF i \in s.n .. s.n + 3 THEN o(i - s.n) ELSE @[i]],
              !.lane = [i \in DOMAIN @ |-> IF i \in s.n .. s.n + 3 THEN i - s.n ELSE @[i]]]

(* Without checks: inputs are loaded wherever they are.                    *)
Unchecked(g, line, n) == line[n - g.N - 1] + line[n + g.N - 1]

UnrolledStep(g, line, s) ==
    LET in(j) == Unchecked(g, line, s.n + j)
        shifted(l, j) == IF l < j THEN 0 ELSE mul_in(g, l - j)
        o(l) == in(0) * shifted(l, 0) + shifted(l, 1) * in(1) + shifted(l, 2) * in(2)
                + shifted(l, 3) * in(3) + mul_prev2(g, l) * s.prev2 + mul_prev(g, l) * s.prev
    IN  StoreLanes(s, o)

BorderEnd(g, length) == AtMost(RoundUpTo(g.N + 1, Lanes), length)

UnrolledEnd(g, length) == length - g.N + 1 - (Lanes - 1)

FastGaussian1D(g, line, length, s) ==
    IF s.n < BorderEnd(g, length) THEN SingleStep(g, line, length, s)
    ELSE IF s.n < UnrolledEnd(g, length) THEN UnrolledStep(g, line, s)
    ELSE SingleStep(g, line, length, s)

-----------------------------------------------------------------------------
(* VerticalStrip, one column of it.                                        *)
StripStart(g, length) ==
    [n |-> 1 - g.N, ctr |-> 0, ring |-> [m \in 0 .. kMod - 1 |-> 0],
     out |-> [i \in 0 .. length - 1 |-> 0]]

VerticalBlock(g, s, sum) ==
    LET ctr == s.ctr + 1
        y == Recurrence(g, sum, s.ring[(ctr - 1) % kMod], s.ring[(ctr - 2) % kMod])
    IN  [s EXCEPT !.n = @ + 1, !.ctr = ctr, !.ring[ctr % kMod] = y,
                  !.out = IF s.n >= 0 THEN [@ EXCEPT ![s.n] = y] ELSE @]

TopEnd(g, length) == AtMost(g.N + 1, length)

InteriorEnd(g, length) == length - g.N + 1 - kPrefetchRows

VerticalStrip(g, line, length, s) ==
    IF s.n < TopEnd(g, length)
    THEN VerticalBlock(g, s, RightVal(g, line, length, s.n))
    ELSE IF s.n < InteriorEnd(g, length)
    THEN VerticalBlock(g, s, Unchecked(g, line, s.n))
    ELSE VerticalBlock(g, s, line[s.n - g.N - 1] + RightVal(g, line, length, s.n))

-----------------------------------------------------------------------------
(* blur_1d of blur.rs, and blur_h.comp: an invocation of it scans a row.   *)
first_aligned(g) == ((g.N + 1 + 3) \div 4) * 4

(* Mutant: the unrolled steps go on as long as their first pixel may.      *)
unrolled_to_the_end(g, len) == len - g.N + 1

unrolled_end(g, len) == len - g.N + 1 - 3

unrolled_step(g, line, s) ==
    LET sums(j) == Unchecked(g, line, s.n + j)
        c(l, j) == IF l >= j THEN mul_in(g, l - j) ELSE 0
        o(l) == sums(0) * mul_in(g, l) + c(l, 1) * sums(1) + c(l, 2) * sums(2)
                + c(l, 3) * sums(3) + mul_prev2(g, l) * s.prev2 + mul_prev(g, l) * s.prev
    IN  StoreLanes(s, o)

blur_1d(g, line, len, s) ==
    IF s.n < AtMost(first_aligned(g), len) THEN SingleStep(g, line, len, s)
    ELSE IF s.n < unrolled_end(g, len) THEN unrolled_step(g, line, s)
    ELSE SingleStep(g, line, len, s)

(* The vertical half of blur_planes_cpu, and blur_v.comp.                  *)
column_start(g, len) ==
    [n |-> 1 - g.N, y1 |-> 0, y2 |-> 0, out |-> [i \in 0 .. len - 1 |-> 0]]

column_step(g, line, len, s) ==
    LET top == s.n - g.N - 1
        bottom == s.n + g.N - 1
        sum == IF top < 0 THEN (IF bottom < len THEN line[bottom] ELSE 0)
               ELSE IF bottom >= len THEN line[top]
               ELSE line[top] + line[bottom]
        o == g.n2 * sum - g.d1 * s.y1 - s.y2
    IN  [s EXCEPT !.n = @ + 1, !.y2 = s.y1, !.y1 = o,
                  !.out = IF s.n >= 0 THEN [@ EXCEPT ![s.n] = o] ELSE @]

-----------------------------------------------------------------------------
(* A scan by one of these from its start to the end of the line.           *)
Scans == {"FastGaussian1D", "blur_1d", "VerticalStrip", "column_step"}

Start(scan, g, length) ==
    CASE scan \in {"FastGaussian1D", "blur_1d"} -> ScanStart(g, length)
      [] scan = "VerticalStrip" -> StripStart(g, length)
      [] scan = "column_step" -> column_start(g, length)

Advance(scan, g, line, length, s) ==
    CASE scan = "FastGaussian1D" -> FastGaussian1D(g, line, length, s)
      [] scan = "blur_1d" -> blur_1d(g, line, length, s)
      [] scan = "VerticalStrip" -> VerticalStrip(g, line, length, s)
      [] scan = "column_step" -> column_step(g, line, length, s)

Scanned(scan, g, line, length) ==
    LET after[k \in 0 .. length + g.N] ==
            IF k = 0 THEN Start(scan, g, length)
            ELSE LET s == after[k - 1]
                 IN  IF s.n < length THEN Advance(scan, g, line, length, s) ELSE s
    IN  after[length + g.N]

(* blur_planes: a row of each of three planes per invocation of blur_h, a  *)
(* column of each per invocation of blur_v; the shaders return at once     *)
(* from invocations beyond the last.                                       *)
LinesScannedOnce(word, lines, max_x) ==
    LET g == split_groups(GroupsFor(3 * lines), max_x)
    IN  \A r \in 0 .. 3 * lines - 1 : Cardinality(InvocationsOf(word, r, g)) = 1
=============================================================================
