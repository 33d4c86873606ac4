------------------- MODULE ResizableParallelRunnerInvariant -------------------
(***************************************************************************)
(* The inductive invariant behind QuietBetweenCalls and                    *)
(* ThreadIdBelowNumThreads, and behind the refinement of ParallelRunner.   *)
(* TLC checks it on a small instance; ResizableParallelRunnerProofs proves *)
(* it.                                                                     *)
(***************************************************************************)
EXTENDS ResizableParallelRunner

CallerStates == {"idle", "resize", "single", "return", "check", "cvwait",
                 "destroyed", "dequeue", "func", "leave"}
BodyStates == {"none", "body", "waiting", "exited", "dequeue", "func", "leave"}
RunningStates == {"dequeue", "func", "leave"}

(* The threads num_running_workers_ counts.                                *)
Running == {t \in Threads : at[t] \in RunningStates}

(* The caller is between the first and the last lock of a parallel Run.    *)
InParallelRun == at[0] \in RunningStates \cup {"check", "cvwait"}

(* Who may be where: only the caller closes a call for good, so a worker   *)
(* finds work only while the caller is still inside of DequeueTasks.       *)
Membership ==
    /\ at[0] \in CallerStates
    /\ \A t \in WorkerThreads : at[t] \in BodyStates
    /\ \A t \in WorkerThreads : t > workers => at[t] = "none"
    /\ num_running_workers = Cardinality(Running)
    /\ work_available => at[0] \in RunningStates
    /\ ~InParallelRun => Running = {}
    /\ at[0] \in {"resize", "destroyed"} => op \in {"set", "destroy"}
    /\ InParallelRun \/ at[0] \in {"single", "return"} => op = "run"

(* What Run wrote for the threads that take part, and who may.             *)
CallSetUp ==
    InParallelRun =>
        /\ args \in Ranges /\ ~IsSingle(args)
        /\ end_task = args[2]
        /\ max_running_workers = WorkersNeeded(args)
        /\ num_threads = NumThreads(args)
        /\ \A t \in Running : t # 0 => t - 1 < max_running_workers

-----------------------------------------------------------------------------
(* No range begins or ends so close to 2^32 that next_task_, which every   *)
(* thread advances once past the end, could wrap around.                   *)
NoWrap ==
    \A r \in Ranges : r[1] + MaxThreads < Word /\ r[2] + MaxThreads < Word

(* The threads that may still advance next_task_ past the end.             *)
MayOvershoot ==
    {t \in Threads : \/ at[t] \in {"dequeue", "func"}
                     \/ work_available /\ at[t] # "leave"}

Bounded ==
    /\ next_task >= args[1]
    /\ next_task + Cardinality(MayOvershoot)
            <= (IF args[1] <= args[2] THEN args[2] ELSE args[1]) + MaxThreads
    /\ (~work_available \/ \E t \in Threads : at[t] = "leave")
            => next_task >= args[2]

Holds(t, n) == at[t] = "func" /\ task[t] = n
Held(n) == \E t \in Threads : Holds(t, n)
Taken(n) == args[1] <= n /\ n < args[2] /\ n < next_task

(* What has been taken and is not held any more has been run, once.        *)
TakenOnce ==
    /\ \A t \in Threads : at[t] = "func" => Taken(task[t])
    /\ \A s, t \in Threads :
        at[s] = "func" /\ at[t] = "func" /\ task[s] = task[t] => s = t
    /\ \A n \in Tasks : ran[n] = IF Taken(n) /\ ~Held(n) THEN 1 ELSE 0

Once ==
    /\ InParallelRun => Bounded /\ TakenOnce
    /\ at[0] \in {"single", "return"} =>
        /\ args \in Ranges /\ IsSingle(args)
        /\ \A n \in Tasks :
            ran[n] = IF n = args[1] /\ at[0] = "return" THEN 1 ELSE 0

IInv ==
    /\ TypeOK
    /\ Membership
    /\ CallSetUp
    /\ NoWrap => Once
=============================================================================
