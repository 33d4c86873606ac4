----------------------- MODULE ResizableParallelRunner -----------------------
(***************************************************************************)
(* The thread pool of lib/threads/resizable_parallel_runner.cc. One caller *)
(* (thread 0) resizes the pool, calls it, takes part in the work itself    *)
(* and destroys it; the worker with worker_id i is thread i + 1, which is  *)
(* also the thread_id it passes to func.                                   *)
(*                                                                         *)
(* Unlike in ThreadParallelRunner nobody waits for the workers to be ready:*)
(* a worker joins a call at any time until somebody has found the range    *)
(* exhausted. A critical section of state_mutex_ is one action; between    *)
(* two of them every access of next_task_ is one.                          *)
(***************************************************************************)
EXTENDS Integers, FiniteSets

CONSTANTS
    MaxThreads,         \* bound: the largest argument of SetNumThreads
    Word,               \* 2^32 in the code: the modulus of uint32_t
    Ranges,             \* the <<start_range, end_range>> passed to Run
    Tasks,              \* every number func may be called with
    InitCodes,          \* what the init callback may return (0 is success)
    MaxCalls            \* bound: calls the caller makes

ASSUME ResizableAssumption ==
    /\ MaxThreads \in Nat \ {0}
    /\ Word \in Nat /\ Word > MaxThreads
    /\ Tasks = 0 .. Word - 1
    /\ Ranges \subseteq Tasks \X Tasks
    /\ InitCodes \subseteq Int
    /\ MaxCalls \in Nat

VARIABLES
    at,             \* where each thread is
    task,           \* the number it calls func with
    op,             \* the call the caller is in
    args,           \* start_range and end_range of the latest Run
    ret,            \* what the latest Run returned
    calls,          \* calls made (only to bound them)
    workers,        \* workers_.size()
    num_threads,    \* what init was told in the latest Run
    next_task, end_task,
    num_desired_workers, max_running_workers, num_running_workers,
    work_available,
    ran             \* how often func was called for each number in this call

callerVars == <<op, args, ret, calls, workers, num_threads>>
rangeVars == <<next_task, end_task, max_running_workers>>
vars == <<at, task, callerVars, rangeVars, num_desired_workers,
          num_running_workers, work_available, ran>>

Threads == 0 .. MaxThreads - 1
WorkerThreads == Threads \ {0}
States == {"idle", "resize", "single", "return", "check", "cvwait", "destroyed",
           "none", "body", "waiting", "exited", "dequeue", "func", "leave"}

AtMost(a, b) == IF a <= b THEN a ELSE b
NothingRan == [t \in Tasks |-> 0]

Init ==
    /\ at = [t \in Threads |-> IF t = 0 THEN "idle" ELSE "none"]
    /\ task = [t \in Threads |-> 0]
    /\ op = "create" /\ args = <<0, 0>> /\ ret = 0 /\ calls = 0
    /\ workers = 0 /\ num_threads = 1
    /\ next_task = 0 /\ end_task = 0
    /\ num_desired_workers = 0 /\ max_running_workers = 0
    /\ num_running_workers = 0 /\ work_available = FALSE
    /\ ran = NothingRan

(* workers_can_proceed_.notify_all(), with the caller going to state s.    *)
NotifiedAndCaller(s) ==
    [t \in Threads |-> IF t = 0 THEN s
                       ELSE IF at[t] = "waiting" THEN "body" ELSE at[t]]

Goes(t, s) == at' = [at EXCEPT ![t] = s]

-----------------------------------------------------------------------------
(* The caller.                                                             *)

CallerFree == at[0] = "idle" /\ calls < MaxCalls

(* Mutant: the waiting workers are not told of the new size.               *)
ResizedSilently == Goes(0, "resize")
ResizedAndNotified == at' = NotifiedAndCaller("resize")

(* SetNumThreads, first block; num counts the calling thread.              *)
SetDesired(num) ==
    /\ num_desired_workers' = IF num > 0 THEN num - 1 ELSE num
    /\ ResizedAndNotified
    /\ UNCHANGED <<task, args, ret, workers, num_threads, rangeVars,
                   num_running_workers, work_available, ran>>

SetNumThreads ==
    /\ CallerFree
    /\ \E num \in 0 .. MaxThreads : SetDesired(num)
    /\ op' = "set"
    /\ calls' = calls + 1

Destroy ==
    /\ at[0] = "idle"
    /\ SetDesired(0)
    /\ op' = "destroy"
    /\ UNCHANGED calls

SpawnWorker ==
    /\ at[0] = "resize"
    /\ workers < num_desired_workers
    /\ Goes(workers + 1, "body")
    /\ workers' = workers + 1
    /\ UNCHANGED <<task, op, args, ret, calls, num_threads, rangeVars,
                   num_desired_workers, num_running_workers, work_available, ran>>

(* Workers num and up are joined and forgotten; SetNumThreads returns.     *)
Resized ==
    /\ at[0] = "resize"
    /\ workers >= num_desired_workers
    /\ \A t \in WorkerThreads :
        num_desired_workers < t /\ t <= workers => at[t] = "exited"
    /\ at' = [t \in Threads |->
                CASE t = 0 -> IF op = "destroy" THEN "destroyed" ELSE "idle"
                  [] t > num_desired_workers -> "none"
                  [] OTHER -> at[t]]
    /\ workers' = num_desired_workers
    /\ UNCHANGED <<task, op, args, ret, calls, num_threads, rangeVars,
                   num_desired_workers, num_running_workers, work_available, ran>>

Terminated == at[0] = "destroyed" /\ UNCHANGED vars

IsSingle(r) == (r[1] + 1) % Word = r[2]
NumThreads(r) ==
    IF IsSingle(r) THEN 1 ELSE AtMost(workers + 1, (r[2] - r[1]) % Word)

(* init is called with NumThreads(r), and its error code is returned.      *)
RunRejected ==
    /\ CallerFree
    /\ \E r \in Ranges, code \in InitCodes :
        code # 0 /\ ret' = code /\ num_threads' = NumThreads(r)
    /\ op' = "rejected"
    /\ calls' = calls + 1
    /\ UNCHANGED <<at, task, args, workers, rangeVars, num_desired_workers,
                   num_running_workers, work_available, ran>>

RunBegins(r) ==
    /\ CallerFree
    /\ 0 \in InitCodes
    /\ num_threads' = NumThreads(r)
    /\ args' = r
    /\ op' = "run"
    /\ calls' = calls + 1
    /\ ran' = NothingRan
    /\ UNCHANGED <<ret, workers, num_desired_workers>>

(* A range of one number is run by the caller alone.                       *)
RunSingle ==
    /\ \E r \in Ranges : IsSingle(r) /\ RunBegins(r)
    /\ Goes(0, "single")
    /\ UNCHANGED <<task, rangeVars, num_running_workers, work_available>>

SingleTask ==
    /\ at[0] = "single"
    /\ ran' = [ran EXCEPT ![args[1]] = @ + 1]
    /\ Goes(0, "return")
    /\ UNCHANGED <<task, callerVars, rangeVars, num_desired_workers,
                   num_running_workers, work_available>>

SingleReturns ==
    /\ at[0] = "return"
    /\ ret' = 0
    /\ Goes(0, "idle")
    /\ UNCHANGED <<task, op, args, calls, workers, num_threads, rangeVars,
                   num_desired_workers, num_running_workers, work_available, ran>>

(* Mutant: as many workers as tasks, although the caller takes part.       *)
WorkersForAll(r) == (r[2] - r[1]) % Word
WorkersNeeded(r) == (r[2] - r[1] - 1) % Word

(* Run, up to the unlock before DequeueTasks(0).                           *)
RunParallel ==
    /\ \E r \in Ranges :
        /\ ~IsSingle(r)
        /\ RunBegins(r)
        /\ max_running_workers' = WorkersNeeded(r)
        /\ next_task' = r[1]
        /\ end_task' = r[2]
    /\ work_available' = TRUE
    /\ num_running_workers' = num_running_workers + 1
    /\ at' = NotifiedAndCaller("dequeue")
    /\ UNCHANGED task

(* One turn of the loop at the end of Run.                                 *)
CheckDone ==
    /\ at[0] = "check"
    /\ IF num_running_workers = 0 THEN Goes(0, "idle") /\ ret' = 0
                                  ELSE Goes(0, "cvwait") /\ UNCHANGED ret
    /\ UNCHANGED <<task, op, args, calls, workers, num_threads, rangeVars,
                   num_desired_workers, num_running_workers, work_available, ran>>

-----------------------------------------------------------------------------
(* Mutant: a worker that joins a call is not counted.                      *)
JoinsUncounted == UNCHANGED num_running_workers
JoinsCounted == num_running_workers' = num_running_workers + 1

(* WorkerBody: one turn of its loop, under the lock.                       *)
WorkerBody(t) ==
    /\ t # 0 /\ at[t] = "body"
    /\ \/ /\ t - 1 >= num_desired_workers
          /\ Goes(t, "exited")
          /\ UNCHANGED num_running_workers
       \/ /\ t - 1 < num_desired_workers
          /\ ~work_available \/ t - 1 >= max_running_workers
          /\ Goes(t, "waiting")
          /\ UNCHANGED num_running_workers
       \/ /\ t - 1 < num_desired_workers
          /\ work_available /\ t - 1 < max_running_workers
          /\ Goes(t, "dequeue")
          /\ JoinsCounted
    /\ UNCHANGED <<task, callerVars, rangeVars, num_desired_workers,
                   work_available, ran>>

(* DequeueTasks: next_task_++ and the comparison with end_task_, which     *)
(* nobody writes while a thread is counted as running.                     *)
Dequeue(t) ==
    /\ at[t] = "dequeue"
    /\ next_task' = (next_task + 1) % Word
    /\ IF next_task >= end_task
       THEN Goes(t, "leave") /\ UNCHANGED task
       ELSE Goes(t, "func") /\ task' = [task EXCEPT ![t] = next_task]
    /\ UNCHANGED <<callerVars, end_task, max_running_workers,
                   num_desired_workers, num_running_workers, work_available, ran>>

CallFunc(t) ==
    /\ at[t] = "func"
    /\ ran' = [ran EXCEPT ![task[t]] = @ + 1]
    /\ task' = [task EXCEPT ![t] = 0]
    /\ Goes(t, "dequeue")
    /\ UNCHANGED <<callerVars, rangeVars, num_desired_workers,
                   num_running_workers, work_available>>

(* Mutant: the caller leaves the call open to workers that come late.      *)
ClosedByWorkers(t) == work_available' = (work_available /\ t = 0)
ClosedByAnyone(t) == work_available' = FALSE

(* DequeueTasks, last block: the last thread to leave wakes the caller.    *)
Leave(t) ==
    /\ at[t] = "leave"
    /\ num_running_workers' = num_running_workers - 1
    /\ ClosedByAnyone(t)
    /\ at' = [at EXCEPT
                ![0] = IF at[0] = "cvwait" /\ num_running_workers = 1
                       THEN "check" ELSE @,
                ![t] = IF t = 0 THEN "check" ELSE "body"]
    /\ UNCHANGED <<task, callerVars, rangeVars, num_desired_workers, ran>>

SpuriousWakeup(t) ==
    /\ at[t] \in {"waiting", "cvwait"}
    /\ Goes(t, IF t = 0 THEN "check" ELSE "body")
    /\ UNCHANGED <<task, callerVars, rangeVars, num_desired_workers,
                   num_running_workers, work_available, ran>>

-----------------------------------------------------------------------------
CallerStep == SpawnWorker \/ Resized \/ SingleTask \/ SingleReturns \/ CheckDone
CallerChoice == SetNumThreads \/ RunRejected \/ RunSingle \/ RunParallel \/ Destroy
ThreadStep(t) == WorkerBody(t) \/ Dequeue(t) \/ CallFunc(t) \/ Leave(t)

Next ==
    \/ CallerStep \/ CallerChoice
    \/ \E t \in Threads : ThreadStep(t) \/ SpuriousWakeup(t)
    \/ Terminated

(* The operating system schedules every thread that can run; nobody has to *)
(* call the pool and no wakeup has to be spurious.                         *)
Fairness ==
    /\ WF_vars(CallerStep)
    /\ \A t \in Threads : WF_vars(ThreadStep(t))

Spec == Init /\ [][Next]_vars
FairSpec == Spec /\ Fairness

-----------------------------------------------------------------------------
TypeOK ==
    /\ at \in [Threads -> States]
    /\ task \in [Threads -> Tasks]
    /\ op \in {"create", "set", "destroy", "rejected", "run"}
    /\ args \in Tasks \X Tasks
    /\ ret \in Int /\ calls \in Nat
    /\ workers \in 0 .. MaxThreads - 1 /\ num_threads \in Nat
    /\ next_task \in Tasks /\ end_task \in Tasks
    /\ num_desired_workers \in 0 .. MaxThreads - 1
    /\ max_running_workers \in Tasks
    /\ num_running_workers \in 0 .. MaxThreads
    /\ work_available \in BOOLEAN
    /\ ran \in [Tasks -> Nat]

(* parallel_runner.h, JxlParallelRunFunction: func is only called with a   *)
(* thread_id below the num_threads init was told, however many workers the *)
(* pool has and however late they join.                                    *)
ThreadIdBelowNumThreads ==
    \A t \in Threads : at[t] = "func" => t < num_threads

(* Between calls nobody is at work on the caller's data, and no worker     *)
(* finds work left over from the call before.                              *)
QuietBetweenCalls ==
    at[0] \in {"idle", "resize"} =>
        /\ ~work_available /\ num_running_workers = 0
        /\ \A t \in Threads : at[t] \notin {"dequeue", "func", "leave"}

(* Run returns, SetNumThreads joins the workers it removes, and so does    *)
(* the destructor.                                                         *)
CallsReturn == at[0] # "idle" ~> at[0] \in {"idle", "destroyed"}

(* The resizable pool implements the contract of a parallel runner, too.   *)
Contract == INSTANCE ParallelRunner WITH
    running <- op = "run" /\ at[0] # "idle",
    range <- args

Refinement == Contract!Spec
=============================================================================
