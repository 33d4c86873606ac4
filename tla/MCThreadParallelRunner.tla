----------------------- MODULE MCThreadParallelRunner -----------------------
(* Instances of ThreadParallelRunner for TLC. *)
EXTENDS ThreadParallelRunnerInvariant

MCTasks == 0 .. Word - 1

(* An empty range, an invalid one, one number, and more than one chunk.    *)
FewRanges == {<<2, 2>>, <<3, 1>>, <<1, 2>>, <<0, 3>>}

(* And one long enough for a chunk of two workers to hold two tasks.       *)
ManyRanges == FewRanges \cup {<<1, 18>>}

MCInitCodes == {0, 1}
OnlySuccess == {0}
=============================================================================
