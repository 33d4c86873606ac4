---------------------- MODULE MCResizableParallelRunner ----------------------
(* Instances of ResizableParallelRunner for TLC. *)
EXTENDS ResizableParallelRunnerInvariant

MCTasks == 0 .. Word - 1
MCInitCodes == {0, 1}

(* No number, one, fewer than there are threads, and more. *)
FewRanges == {<<2, 2>>, <<1, 2>>, <<0, 2>>, <<3, 7>>}
=============================================================================
