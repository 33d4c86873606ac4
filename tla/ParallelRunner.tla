--------------------------- MODULE ParallelRunner ---------------------------
(***************************************************************************)
(* What libjxl promises its callers about a parallel runner                *)
(* (lib/include/jxl/parallel_runner.h and ThreadPool::Run in               *)
(* lib/jxl/base/data_parallel.h): between the entry and the return of one  *)
(* call, the data callback is called exactly once for every number of the  *)
(* range and for no other number; calls do not overlap.                    *)
(* Who calls the callback, and in which order, is left open: the threaded  *)
(* and the resizable runner are both shown to implement this module.       *)
(***************************************************************************)
EXTENDS Naturals

CONSTANT Tasks              \* the numbers a range may hold

VARIABLES
    running,                \* a call of the runner is in progress
    range,                  \* <<start_range, end_range>> of the latest call
    ran                     \* calls of func for each number, in that call

vars == <<running, range, ran>>

InRange(t, r) == r[1] <= t /\ t < r[2]

Init ==
    /\ running = FALSE
    /\ range = <<0, 0>>
    /\ ran = [t \in Tasks |-> 0]

(* The runner accepts a call: init() succeeded and nothing has run yet.    *)
Accept ==
    /\ ~running
    /\ running' = TRUE
    /\ range' \in Nat \X Nat
    /\ ran' = [t \in Tasks |-> 0]

(* func(opaque, t, thread_id), by any thread.                              *)
CallFunc ==
    /\ running
    /\ \E t \in Tasks :
        /\ InRange(t, range)
        /\ ran[t] = 0
        /\ ran' = [ran EXCEPT ![t] = 1]
    /\ UNCHANGED <<running, range>>

(* The call returns: no number of the range is left.                       *)
Return ==
    /\ running
    /\ \A t \in Tasks : InRange(t, range) => ran[t] = 1
    /\ running' = FALSE
    /\ UNCHANGED <<range, ran>>

Next == Accept \/ CallFunc \/ Return

Spec == Init /\ [][Next]_vars
=============================================================================
