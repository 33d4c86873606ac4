--------------------------- MODULE MCCommandLine ---------------------------
(* CommandLine with one process that scores and one that normalizes, on     *)
(* two file names in the directories "in", "src" and "out".                 *)
EXTENDS CommandLine

MCProcesses == {"scorer", "normalizer"}
MCNames == <<"a", "b">>

MCDirectories == {"in", "src", "out"}
MCPixels == {"a", "b", "c", "d", "o"}

Plain(name) == [state |-> "whole", plain |-> TRUE, pixels |-> name, alpha |-> "none",
                colour |-> "sRGB", w |-> 8, h |-> 9]

\* Every reason one of the programs has to treat a picture differently.
AllPictures(name) ==
  LET c == Plain(name)
  IN {c, [c EXCEPT !.alpha = "opaque"], [c EXCEPT !.alpha = "real"],
      [c EXCEPT !.colour = "gAMA"], [c EXCEPT !.colour = "iCCP"],
      [c EXCEPT !.h = 7], [c EXCEPT !.w = 9], [c EXCEPT !.plain = FALSE], Missing}

\* A few of them for the variants of a batch.
FewPictures(name) ==
  LET c == Plain(name) IN {c, [c EXCEPT !.alpha = "opaque"], [c EXCEPT !.w = 9], Missing}

Files(inA, inB, srcA, srcB, outB) ==
  [path \in MCDirectories \X {"a", "b"} |->
     CASE path = <<"in", "a">> -> inA
       [] path = <<"in", "b">> -> inB
       [] path = <<"src", "a">> -> srcA
       [] path = <<"src", "b">> -> srcB
       [] path = <<"out", "a">> -> Missing
       [] path = <<"out", "b">> -> outB]

Pair(flags, positional) == [mode |-> "pair", flags |-> flags, positional |-> positional]
Many(orig, dir) == [mode |-> "score-many", orig |-> orig, vars |-> dir]
Normalize(inputs, dir) == [mode |-> "normalize", inputs |-> inputs, out |-> dir]

Two == <<<<"in", "a">>, <<"in", "b">>>>

PairCommands == {Pair({}, Two), Pair({}, <<<<"in", "a">>, <<"in", "a">>>>),
                 Pair({"--help"}, Two), Pair({"--cpu", "--gpu"}, Two), Pair({"--cpu"}, Tail(Two))}

\* A pair, one of whose files is replaced by another one.
PairScenarios ==
  {[files |-> Files(a, b, Plain("c"), c, Missing),
    commands |-> [scorer |-> pair, normalizer |-> Normalize(<<<<"src", "b">>>>, "in")]] :
     a \in AllPictures("a"), b \in AllPictures("b"),
     c \in {[Plain("c") EXCEPT !.alpha = "opaque"], [Plain("c") EXCEPT !.colour = "gAMA"]},
     pair \in PairCommands}

\* Inputs with colliding names, inputs that are outputs, and none.
InputSequences == {<<>>, Two, <<<<"src", "b">>, <<"in", "b">>>>, <<<<"in", "b">>, <<"src", "b">>>>,
                   <<<<"src", "a">>, <<"in", "b">>>>, <<<<"in", "b">>, <<"src", "a">>>>}

\* A batch over a directory that is written to.
ManyScenarios ==
  {[files |-> Files(a, b, Plain("c"), d, o),
    commands |-> [scorer |-> Many(<<"in", "a">>, dir), normalizer |-> Normalize(inputs, out)]] :
     a \in FewPictures("a"), b \in FewPictures("b"), d \in {Plain("d"), [Plain("d") EXCEPT !.alpha = "real"]},
     o \in {Missing, Plain("o")},
     dir \in {"in", "out"}, out \in {"in", "out"}, inputs \in InputSequences}

MCScenarios == PairScenarios \cup ManyScenarios
=============================================================================
