-------------------- MODULE ThreadParallelRunnerInvariant --------------------
(***************************************************************************)
(* The inductive invariant behind WorkersReadyBetweenCalls,                *)
(* CalledOncePerNumber and ReentryReported. TLC checks it on small         *)
(* instances; ThreadParallelRunnerProofs proves it.                        *)
(***************************************************************************)
EXTENDS ThreadParallelRunner

Waiting == {w \in Workers : worker[w] = "waiting"}

(* Workers that have found no task left in this call.                      *)
Finished == {w \in Workers : worker[w] \in {"enter", "waiting"}}

Quiet == (\A w \in Workers : worker[w] = "waiting") /\ workers_ready = 0

AtBarrier == main \in {"barrier", "cvwait"}

(* The handshake: who may be where while main is in each state. A worker   *)
(* counts in workers_ready exactly while it is in the wait set.            *)
Handshake ==
    /\ main \in {"each", "idle", "finish", "sequential"} =>
        Quiet /\ command = kWorkerWait
    /\ main = "each" => op = "ctor"
    /\ main = "sequential" => op = "run" /\ NumWorkers = 0
    /\ main = "notify" =>
        /\ Quiet
        /\ op \in {"once", "run", "destroy"}
        /\ op = "once" => command = kWorkerOnce
        /\ op = "run" => command \notin {kWorkerWait, kWorkerOnce, kWorkerExit}
        /\ op = "destroy" => command = kWorkerExit
    /\ main = "spawn" =>
        /\ op = "ctor" /\ command = kWorkerWait
        /\ \A w \in Workers : worker[w] \in {"unborn", "enter", "waiting"}
    /\ AtBarrier =>
        /\ op \in {"ctor", "once", "run"}
        /\ \A w \in Workers :
            \/ op = "ctor" /\ worker[w] \in {"enter", "waiting"}
            \/ op = "once" /\ worker[w] \in {"woken", "once", "enter", "waiting"}
            \/ op = "run" /\ worker[w] \in {"woken", "load", "reserve", "tasks",
                                            "enter", "waiting"}
        /\ op = "ctor" => command = kWorkerWait
        /\ op = "once" => command = kWorkerOnce
        /\ op = "run" => command \notin {kWorkerWait, kWorkerOnce, kWorkerExit}
    /\ main = "spawn" \/ AtBarrier => workers_ready = Cardinality(Waiting)
    /\ main = "join" =>
        /\ command = kWorkerExit \/ NumWorkers = 0
        /\ \A w \in Workers : worker[w] \in {"woken", "exited"}
    /\ main = "finish" => op = "run" /\ depth > 0
    /\ op = "run" /\ main \in {"notify", "barrier", "cvwait"} => depth > 0
    /\ main = "destroyed" => \A w \in Workers : worker[w] = "exited"

-----------------------------------------------------------------------------
(* The largest chunk a worker reserves of a range.                         *)
LargestChunk(r) == AtLeast(NumTasks(r) \div (NumWorkers * 4), 1)

(* No range ends so close to 2^32 that the reservations that find nothing  *)
(* left, one of each worker, could wrap around.                            *)
NoWrap ==
    \A r \in Ranges :
        r[1] < r[2] => r[2] + LargestChunk(r) * (NumWorkers + 1) <= Word

Holds(w, t) == worker[w] = "tasks" /\ task[w] <= t /\ t < stop[w]

InRun == op = "run" /\ (AtBarrier \/ main = "notify")

(* How far reservation may be ahead of the range: one chunk for every      *)
(* worker that found nothing left, and one for the last that did not.      *)
Reservations ==
    /\ args \in Ranges /\ args[1] < args[2] /\ command = args
    /\ NumWorkers > 0
    /\ \A w \in Workers :
        /\ worker[w] \in {"load", "reserve", "tasks"} => cmd[w] = args
        /\ worker[w] = "reserve" => size[w] \in 1 .. LargestChunk(args)
    /\ main = "notify" => num_reserved = 0
    /\ AtBarrier =>
        /\ num_reserved <= NumTasks(args) - 1
                            + LargestChunk(args) * (Cardinality(Finished) + 1)
        /\ Finished # {} => num_reserved >= NumTasks(args)

ChunkBounds ==
    \A w \in Workers :
        worker[w] = "tasks" =>
            /\ args[1] <= task[w] /\ task[w] < stop[w]
            /\ stop[w] <= args[2] /\ stop[w] <= args[1] + num_reserved

ChunksDisjoint ==
    \A v, w \in Workers : \A t \in Tasks : Holds(v, t) /\ Holds(w, t) => v = w

Reserved(t) == args[1] <= t /\ t < args[2] /\ t < args[1] + num_reserved
Held(t) == \E w \in Workers : Holds(w, t)

(* What has been reserved and is not held any more has been run, once.     *)
RunOrHeld ==
    \A t \in Tasks : ran[t] = IF Reserved(t) /\ ~Held(t) THEN 1 ELSE 0

Chunks == ChunkBounds /\ ChunksDisjoint /\ RunOrHeld

RanOnce ==
    /\ main \in {"idle", "finish"} /\ op = "run" =>
        \A t \in Tasks :
            ran[t] = IF args[1] <= t /\ t < args[2] THEN 1 ELSE 0
    /\ main = "sequential" =>
        /\ args[1] <= seq_task /\ seq_task <= args[2]
        /\ \A t \in Tasks :
            ran[t] = IF args[1] <= t /\ t < seq_task THEN 1 ELSE 0

(* RunOnEachThread: a worker has called func once it is back.              *)
EachOnce ==
    op = "once" /\ (AtBarrier \/ main = "notify") =>
        /\ args = <<0, NumWorkers>>
        /\ \A t \in Tasks :
            ran[t] = IF AtBarrier /\ t \in Finished THEN 1 ELSE 0

Once == (InRun => Reservations /\ Chunks) /\ RanOnce

(* depth_ tells a Run from one whose tasks re-entered until it returns.    *)
Reentry ==
    /\ op = "run" /\ (AtBarrier \/ main \in {"notify", "finish"}) /\ reentered =>
        depth >= 2
    /\ main = "idle" /\ op = "run" /\ reentered /\ NumWorkers # 0 => ret # 0

IInv ==
    /\ TypeOK
    /\ Handshake
    /\ Reentry
    /\ EachOnce
    /\ NoWrap => Once
=============================================================================
