---------------------------- MODULE CommandLine ----------------------------
(***************************************************************************)
(* The command lines of the port (src/main.rs): a pair, score-many and     *)
(* normalize, as processes that share files and may be killed, next to the *)
(* command line of the reference (src/ssimulacra2_main.cc).                *)
(*                                                                         *)
(* A picture stands for what a file decodes to.  A score is symbolic: the  *)
(* pairs of pixels it is the worst score of.  Which engine computes it is  *)
(* of no account, as they agree (GpuPipeline); on the GPU it may fail.     *)
(***************************************************************************)
EXTENDS Naturals, FiniteSets, SequencesExt

CONSTANTS
  Processes,
  Directories,
  Names,      \* the file names, all *.png, as a sequence in their order
  Pixels,     \* what pictures may show
  Scenarios   \* [files: content of every path <<dir, name>>, commands: of every process]

VARIABLES
  scenario,
  files,
  pc,        \* of each process; "done" is exit code 0 and "failed" is 1
  todo,      \* paths it has yet to take
  taken,     \* paths it has taken
  images,    \* pictures it holds
  gpu,       \* whether it has a device
  lines      \* what it has printed

vars == <<scenario, files, pc, todo, taken, images, gpu, lines>>

Paths == Directories \X Range(Names)

\* The colour is what a chunk, gAMA (or cHRM) or iCCP, says; plain is an 8-bit
\* gray, RGB or RGBA PNG.
Pictures ==
  [state : {"whole"}, plain : BOOLEAN, pixels : Pixels, w : Nat, h : Nat,
   alpha : {"none", "opaque", "real"}, colour : {"sRGB", "gAMA", "iCCP"}]

Missing == [state |-> "missing"]
Torn == [state |-> "torn"]

Contents == {Missing, Torn} \cup Pictures

Commands ==
       [mode : {"pair"}, flags : SUBSET {"--help", "--cpu", "--gpu", "--profile"},
        positional : Seq(Paths)]
  \cup [mode : {"score-many"}, orig : Paths, vars : Directories]
  \cup [mode : {"normalize"}, inputs : Seq(Paths), out : Directories]

ASSUME NamesAssumption ==
  /\ Names \in Seq(Range(Names))
  /\ \A i, j \in DOMAIN Names : Names[i] = Names[j] => i = j

ASSUME ScenariosAssumption ==
  \A s \in Scenarios : /\ s.files \in [Paths -> Contents]
                       /\ s.commands \in [Processes -> Commands]

Command(p) == scenario.commands[p]

Running(p) == pc[p] \notin {"done", "failed", "killed"}

-----------------------------------------------------------------------------

\* cpu.rs: decode_png, and decode_png_ingest, which tolerates gAMA and cHRM.
DecodesForIngest(c) == c.state = "whole" /\ c.plain /\ c.colour # "iCCP"
Decodes(c) == DecodesForIngest(c) /\ c.colour # "gAMA"

Below8x8(c) == c.w < 8 \/ c.h < 8
SameSize(a, b) == a.w = b.w /\ a.h = b.h

AlphaBlend(c, bg) == IF c.alpha = "real" THEN <<c.pixels, bg>> ELSE <<c.pixels>>

\* The port converts from sRGB whatever it is given.
Linear(c, bg) == <<"sRGB", AlphaBlend(c, bg)>>

Score(a, b, backgrounds) == {<<Linear(a, bg), Linear(b, bg)>> : bg \in backgrounds}

\* Mutant: two passes when either picture has alpha.
BackgroundsOfEither(a, b) ==
  IF a.alpha # "none" \/ b.alpha # "none" THEN {1, 9} ELSE {5}
\* The backgrounds, in tenths.
Backgrounds(a, b) == IF a.alpha # "none" THEN {1, 9} ELSE {5}

\* What normalize makes of a picture.
Normalized(c) == [c EXCEPT !.alpha = "none", !.colour = "sRGB"]

-----------------------------------------------------------------------------
(* The reference: its verdict on two files as they are.                    *)

ReferenceLoads(c) == c.state = "whole"

ReferenceRejects(a, b) ==
  \/ ~ReferenceLoads(a) \/ Below8x8(a)
  \/ ~ReferenceLoads(b) \/ ~SameSize(a, b)

\* The reference converts from the colour the file says.
ReferenceLinear(c, bg) == <<c.colour, AlphaBlend(c, bg)>>

ReferenceScore(a, b) ==
  LET pass(bg) == <<ReferenceLinear(a, bg), ReferenceLinear(b, bg)>>
  IN  IF a.alpha = "none" THEN {pass(5)} ELSE {pass(1), pass(9)}

-----------------------------------------------------------------------------
Init ==
  /\ scenario \in Scenarios
  /\ files = scenario.files
  /\ pc = [p \in Processes |-> "start"]
  /\ todo = [p \in Processes |-> <<>>]
  /\ taken = [p \in Processes |-> <<>>]
  /\ images = [p \in Processes |-> <<>>]
  /\ gpu \in [Processes -> BOOLEAN]
  /\ lines = [p \in Processes |-> <<>>]

GoTo(p, label) == pc' = [pc EXCEPT ![p] = label]

Fail(p) == GoTo(p, "failed") /\ UNCHANGED <<files, todo, taken, images, lines>>

Take(p) ==
  /\ taken' = [taken EXCEPT ![p] = Append(@, Head(todo[p]))]
  /\ todo' = [todo EXCEPT ![p] = Tail(@)]

Hold(p, c) == images' = [images EXCEPT ![p] = Append(@, c)]

Prints(p, line) == lines' = [lines EXCEPT ![p] = Append(@, line)]

Next1(p) == files[Head(todo[p])]

\* A computation on the GPU may fail, and a call on the file system.
GpuMayFail(p) == gpu[p]

-----------------------------------------------------------------------------
(* main.                                                                   *)

PairStart(p) ==
  LET c == Command(p) IN
  /\ pc[p] = "start" /\ c.mode = "pair"
  /\ IF "--help" \in c.flags THEN GoTo(p, "done") /\ UNCHANGED <<files, todo, taken, images, lines>>
     ELSE IF {"--cpu", "--gpu"} \subseteq c.flags \/ Len(c.positional) # 2 THEN Fail(p)
     ELSE /\ GoTo(p, "original")
          /\ todo' = [todo EXCEPT ![p] = c.positional]
          /\ UNCHANGED <<files, taken, images, lines>>

PairOriginal(p) ==
  /\ pc[p] = "original" /\ Command(p).mode = "pair"
  /\ LET c == Next1(p) IN
     IF ~Decodes(c) \/ Below8x8(c) THEN Fail(p)
     ELSE Take(p) /\ Hold(p, c) /\ GoTo(p, "distorted") /\ UNCHANGED <<files, lines>>

\* When the GPU fails the CPU takes over.
PairDistorted(p) ==
  /\ pc[p] = "distorted"
  /\ LET a == images[p][1]
         b == Next1(p)
     IN IF ~Decodes(b) \/ ~SameSize(a, b) THEN Fail(p)
        ELSE /\ Take(p) /\ Hold(p, b)
             /\ Prints(p, [name |-> Head(todo[p]), score |-> Score(a, b, Backgrounds(a, b))])
             /\ GoTo(p, "done")
             /\ UNCHANGED files

-----------------------------------------------------------------------------
(* run_score_many.  The cached, the uncached and the CPU path decide alike. *)

\* The positions in Names of the files there are, and what sorts them.
Present(dir) == {i \in DOMAIN Names : files[<<dir, Names[i]>>].state # "missing"}
Sortings(S) ==
  {s \in [1..Cardinality(S) -> S] : \A k, l \in 1..Cardinality(S) : k < l => s[k] < s[l]}

ManyStart(p) ==
  LET dir == Command(p).vars IN
  /\ pc[p] = "start" /\ Command(p).mode = "score-many"
  /\ IF Present(dir) = {} THEN Fail(p)
     ELSE /\ \E s \in Sortings(Present(dir)) :
               todo' = [todo EXCEPT ![p] =
                          <<Command(p).orig>> \o [k \in DOMAIN s |-> <<dir, Names[s[k]]>>]]
          /\ GoTo(p, "original")
          /\ UNCHANGED <<files, taken, images, lines>>

ManyOriginal(p) ==
  /\ pc[p] = "original" /\ Command(p).mode = "score-many"
  /\ LET c == Next1(p)
         accepted == Decodes(c) /\ ~Below8x8(c) /\ c.alpha = "none"
     IN \/ /\ accepted
           /\ Take(p) /\ Hold(p, c) /\ GoTo(p, "variants")
           /\ UNCHANGED <<files, lines>>
        \/ (GpuMayFail(p) \/ ~accepted) /\ Fail(p)

ManyVariant(p) ==
  /\ pc[p] = "variants" /\ todo[p] # <<>>
  /\ LET a == images[p][1]
         b == Next1(p)
         accepted == Decodes(b) /\ SameSize(a, b) /\ b.alpha = "none"
     IN \/ /\ accepted
           /\ Take(p) /\ Hold(p, b)
           /\ UNCHANGED <<files, pc, lines>>
        \/ (GpuMayFail(p) \/ ~accepted) /\ Fail(p)

\* Mutant: a line is printed when its variant has been scored.
OneIsScored(p) == todo[p] = <<>> \/ Len(lines[p]) + 1 < Len(taken[p])
AllAreScored(p) == todo[p] = <<>>

ManyReport(p) ==
  LET i == Len(lines[p]) + 1 IN
  /\ pc[p] = "variants" /\ AllAreScored(p)
  /\ IF i = Len(taken[p]) THEN GoTo(p, "done") /\ UNCHANGED lines
     ELSE /\ Prints(p, [name |-> taken[p][i + 1],
                       score |-> Score(images[p][1], images[p][i + 1], {5})])
          /\ UNCHANGED pc
  /\ UNCHANGED <<files, todo, taken, images>>

-----------------------------------------------------------------------------
(* run_normalize.                                                          *)

Destination(p, path) == <<Command(p).out, path[2]>>

NormalizeStart(p) ==
  /\ pc[p] = "start" /\ Command(p).mode = "normalize"
  /\ \/ /\ Command(p).inputs # <<>>
        /\ todo' = [todo EXCEPT ![p] = Command(p).inputs]
        /\ GoTo(p, "ingest")
        /\ UNCHANGED <<files, taken, images, lines>>
     \/ Fail(p)

\* Mutant: an input is refused only when it is one that was taken.
TakenTwice(p, path) == path \in {taken[p][i] : i \in DOMAIN taken[p]}
Collides(p, path) == \E i \in DOMAIN taken[p] : taken[p][i][2] = path[2]

Ingest(p) ==
  /\ pc[p] = "ingest" /\ todo[p] # <<>>
  /\ LET c == Next1(p) IN
     IF ~DecodesForIngest(c) \/ c.alpha = "real" \/ Collides(p, Head(todo[p])) THEN Fail(p)
     ELSE Take(p) /\ Hold(p, c) /\ GoTo(p, "create") /\ UNCHANGED <<files, lines>>

\* File::create truncates what was there.
Create(p) ==
  /\ pc[p] = "create"
  /\ \/ /\ files' = [files EXCEPT ![Destination(p, Last(taken[p]))] = Torn]
        /\ GoTo(p, "encode")
        /\ UNCHANGED <<todo, taken, images, lines>>
     \/ Fail(p)

Encode(p) ==
  /\ pc[p] = "encode"
  /\ \/ /\ files' = [files EXCEPT ![Destination(p, Last(taken[p]))] = Normalized(Last(images[p]))]
        /\ GoTo(p, "report")
        /\ UNCHANGED <<todo, taken, images, lines>>
     \/ Fail(p)

Report(p) ==
  /\ pc[p] = "report"
  /\ Prints(p, [name |-> Last(taken[p]), destination |-> Destination(p, Last(taken[p]))])
  /\ GoTo(p, IF todo[p] = <<>> THEN "done" ELSE "ingest")
  /\ UNCHANGED <<files, todo, taken, images>>

-----------------------------------------------------------------------------
Kill(p) ==
  /\ Running(p)
  /\ GoTo(p, "killed") /\ UNCHANGED <<files, todo, taken, images, lines>>

Step(p) ==
  \/ PairStart(p) \/ PairOriginal(p) \/ PairDistorted(p)
  \/ ManyStart(p) \/ ManyOriginal(p) \/ ManyVariant(p) \/ ManyReport(p)
  \/ NormalizeStart(p) \/ Ingest(p) \/ Create(p) \/ Encode(p) \/ Report(p)
  \/ Kill(p)

Next == \E p \in Processes : Step(p) /\ UNCHANGED <<scenario, gpu>>

Spec == Init /\ [][Next]_vars

-----------------------------------------------------------------------------
Scores(p) == Command(p).mode # "normalize"

\* The pictures the i-th line of p is about: its original and what it names.
Original(p) == images[p][1]
Compared(p, i) == images[p][CHOOSE k \in DOMAIN taken[p] : k > 1 /\ taken[p][k] = lines[p][i].name]

(* Every score that is printed is the one the reference gives the two      *)
(* pictures, which were whole, however files were rewritten meanwhile and  *)
(* whoever was killed, and never a score where the reference gives none.   *)
ScoredLikeReference ==
  \A p \in Processes : Scores(p) =>
    \A i \in DOMAIN lines[p] :
      /\ ~ReferenceRejects(Original(p), Compared(p, i))
      /\ lines[p][i].score = ReferenceScore(Original(p), Compared(p, i))

(* score-many prints nothing before all variants are scored, nothing at    *)
(* all when one cannot be, and a line for each of them, in their order,    *)
(* when it succeeds.                                                       *)
AllOrNothing ==
  \A p \in Processes : Command(p).mode = "score-many" =>
    /\ lines[p] # <<>> => todo[p] = <<>>
    /\ pc[p] = "failed" => lines[p] = <<>>
    /\ pc[p] = "done" => [i \in DOMAIN lines[p] |-> lines[p][i].name] = Tail(taken[p])

(* A line of normalize is true, whatever happens later: its output has the *)
(* pixels its input had in the beginning, even where the output directory  *)
(* is one the inputs are in, and blends with a background as the input did.*)
OutputsKeepPixels ==
  \A p \in Processes : ~Scores(p) =>
    \A i \in DOMAIN lines[p] :
      LET before == scenario.files[lines[p][i].name]
          after == files[lines[p][i].destination]
      IN /\ after.state = "whole" /\ after.pixels = before.pixels
         /\ \A bg \in {1, 5, 9} : AlphaBlend(after, bg) = AlphaBlend(before, bg)
=============================================================================
