------------------------ MODULE ThreadParallelRunner ------------------------
(***************************************************************************)
(* The thread pool of lib/threads/thread_parallel_runner_internal.{h,cc}:  *)
(* one caller ("main") that constructs the pool, calls it and destroys it, *)
(* and num_worker_threads_ workers that sleep on worker_start_cv_ until    *)
(* they are sent a command.                                                *)
(*                                                                         *)
(* mutex_ is only ever held for a few assignments or across a condition    *)
(* variable's wait, so a critical section is one action: "waiting" and     *)
(* "cvwait" are the wait sets of the two condition variables, and a thread *)
(* that leaves a wait set still has to take the lock ("woken", "barrier"). *)
(* What runs outside of mutex_ is split at every access of an atomic.      *)
(***************************************************************************)
EXTENDS Integers, FiniteSets

CONSTANTS
    NumWorkers,         \* num_worker_threads_
    Word,               \* 2^32 in the code: the modulus of uint32_t
    Ranges,             \* the <<start_range, end_range>> main may pass to Run
    Tasks,              \* every number func may be called with
    InitCodes,          \* what the init callback may return (0 is success)
    MaxCalls,           \* bound: calls main makes
    MaxReentries        \* bound: calls of the runner made by its own tasks

ASSUME ConstantsAssumption ==
    /\ NumWorkers \in Nat
    /\ Word \in Nat /\ Word >= 4
    /\ Tasks = 0 .. Word - 1
    /\ Ranges \subseteq Tasks \X Tasks
    /\ NumWorkers < Word
    /\ InitCodes \subseteq Int
    /\ MaxCalls \in Nat
    /\ MaxReentries \in Nat

VARIABLES
    main,           \* where the calling thread is
    op,             \* the call main is in: "ctor", "once", "run", "destroy"
    args,           \* start_range and end_range of that call
    ret,            \* what the latest Run returned
    calls,          \* calls main has made (only to bound them)
    seq_task,       \* the next task of a Run without workers
    worker,         \* where each worker is
    cmd,            \* the locals of each worker's RunRange: the range it was
    size,           \*   given, my_size, the next task of its chunk, my_end
    task,
    stop,
    command,        \* worker_start_command_
    workers_ready,
    num_reserved,
    depth,          \* depth_
    reentered,      \* a task of the latest Run called the runner again
    ran             \* how often func was called for each number in this call

mainVars == <<main, op, args, ret, calls, seq_task>>
workerVars == <<worker, cmd, size, task, stop>>
sharedVars == <<command, workers_ready, num_reserved, depth>>
vars == <<mainVars, workerVars, sharedVars, reentered, ran>>

Workers == 0 .. NumWorkers - 1

(* A WorkerCommand is begin in the high and end in the low 32 bits; the    *)
(* special values ~1, ~2 and ~3 are pairs no accepted range is equal to.   *)
Commands == Tasks \X Tasks
kWorkerWait == <<Word - 1, Word - 2>>
kWorkerOnce == <<Word - 1, Word - 3>>
kWorkerExit == <<Word - 1, Word - 4>>

MainStates == {"spawn", "each", "idle", "notify", "barrier", "cvwait",
               "finish", "sequential", "join", "destroyed"}
WorkerStates == {"unborn", "enter", "waiting", "woken", "once", "load",
                 "reserve", "tasks", "exited"}

AtMost(a, b) == IF a <= b THEN a ELSE b
AtLeast(a, b) == IF a >= b THEN a ELSE b
NothingRan == [t \in Tasks |-> 0]
NoRange == <<0, 0>>

Init ==
    /\ main = "spawn"
    /\ op = "ctor"
    /\ args = NoRange
    /\ ret = 0
    /\ calls = 0
    /\ seq_task = 0
    /\ worker = [w \in Workers |-> "unborn"]
    /\ cmd = [w \in Workers |-> NoRange]
    /\ size = [w \in Workers |-> 0]
    /\ task = [w \in Workers |-> 0]
    /\ stop = [w \in Workers |-> 0]
    /\ command = kWorkerWait
    /\ workers_ready = 0
    /\ num_reserved = 0
    /\ depth = 0
    /\ reentered = FALSE
    /\ ran = NothingRan

-----------------------------------------------------------------------------
(* The calling thread.                                                     *)

(* The constructor starts the threads in order; they run at once.          *)
SpawnWorker ==
    /\ main = "spawn"
    /\ \E w \in Workers :
        /\ worker[w] = "unborn"
        /\ \A v \in Workers : v < w => worker[v] # "unborn"
        /\ worker' = [worker EXCEPT ![w] = "enter"]
    /\ UNCHANGED <<mainVars, cmd, size, task, stop, sharedVars, reentered, ran>>

(* All threads exist: wait for them, or without workers be done (the       *)
(* profiler warm-up then runs on the calling thread).                      *)
Spawned ==
    /\ main = "spawn"
    /\ \A w \in Workers : worker[w] # "unborn"
    /\ main' = IF NumWorkers = 0 THEN "idle" ELSE "barrier"
    /\ UNCHANGED <<op, args, ret, calls, seq_task, workerVars, sharedVars, reentered, ran>>

(* StartWorkers, up to the unlock: the wait set is notified only later.    *)
StartWorkers(worker_command) ==
    /\ command' = worker_command
    /\ main' = "notify"

NotifyAll ==
    /\ main = "notify"
    /\ worker' = [w \in Workers |->
                    IF worker[w] = "waiting" THEN "woken" ELSE worker[w]]
    /\ main' = IF op = "destroy" THEN "join" ELSE "barrier"
    /\ UNCHANGED <<op, args, ret, calls, seq_task, cmd, size, task, stop, sharedVars,
                   reentered, ran>>

(* Mutant: one worker is left out of the count.                            *)
AllButOneReady == workers_ready + 1 >= NumWorkers
AllReady == workers_ready = NumWorkers

(* Mutant: the reports of this command also count for the next one.        *)
ReportsKept == command' = kWorkerWait /\ UNCHANGED workers_ready
ReportsConsumed == command' = kWorkerWait /\ workers_ready' = 0

(* One evaluation of the while condition of WorkersReadyBarrier.           *)
WorkersReadyBarrier ==
    /\ main = "barrier"
    /\ IF AllReady
       THEN /\ ReportsConsumed
            /\ main' = CASE op = "ctor" -> "each"
                         [] op = "once" -> "idle"
                         [] op = "run" -> "finish"
       ELSE /\ main' = "cvwait"
            /\ UNCHANGED <<workers_ready, command>>
    /\ UNCHANGED <<op, args, ret, calls, seq_task, workerVars, num_reserved, depth,
                   reentered, ran>>

(* workers_ready_cv_.wait may return without a notification, too.          *)
MainSpuriousWakeup ==
    /\ main = "cvwait"
    /\ main' = "barrier"
    /\ UNCHANGED <<op, args, ret, calls, seq_task, workerVars, sharedVars, reentered, ran>>

(* RunOnEachThread: the constructor's last statement, and a public method. *)
RunOnEachThread ==
    /\ \/ main = "each"
       \/ main = "idle" /\ NumWorkers > 0 /\ calls < MaxCalls
    /\ calls' = IF main = "idle" THEN calls + 1 ELSE calls
    /\ op' = "once"
    /\ args' = <<0, NumWorkers>>
    /\ ran' = NothingRan
    /\ StartWorkers(kWorkerOnce)
    /\ UNCHANGED <<ret, seq_task, workerVars, workers_ready, num_reserved, depth,
                   reentered>>

DepthOnInitError == UNCHANGED depth

(* The early returns of Runner: an invalid or empty range, a failed init,  *)
(* and a pool left unusable by an earlier re-entry.                        *)
RunRejected ==
    /\ main = "idle"
    /\ calls < MaxCalls
    /\ \E r \in Ranges, code \in InitCodes :
        \/ /\ r[1] >= r[2]
           /\ ret' = IF r[1] > r[2] THEN -1 ELSE 0
           /\ UNCHANGED depth
        \/ /\ r[1] < r[2]
           /\ code # 0
           /\ ret' = code
           /\ DepthOnInitError
        \/ /\ r[1] < r[2]
           /\ code = 0
           /\ NumWorkers # 0
           /\ depth # 0
           /\ ret' = -1
           /\ depth' = depth + 1
    /\ calls' = calls + 1
    /\ op' = "rejected"
    /\ UNCHANGED <<main, args, seq_task, workerVars, command, workers_ready,
                   num_reserved, reentered, ran>>

(* Mutant: num_reserved_ still holds the previous call's count.            *)
ReservedKept == UNCHANGED num_reserved
ReservedCleared == num_reserved' = 0

(* Runner, up to the unlock in StartWorkers; without workers, up to the    *)
(* head of the sequential loop.                                            *)
RunAccepted ==
    /\ main = "idle"
    /\ calls < MaxCalls
    /\ 0 \in InitCodes
    /\ \E r \in Ranges :
        /\ r[1] < r[2]
        /\ args' = r
        /\ \/ /\ NumWorkers = 0
              /\ main' = "sequential"
              /\ seq_task' = r[1]
              /\ UNCHANGED <<command, num_reserved, depth>>
           \/ /\ NumWorkers # 0
              /\ depth = 0
              /\ depth' = 1
              /\ ReservedCleared
              /\ StartWorkers(r)
              /\ UNCHANGED seq_task
    /\ calls' = calls + 1
    /\ op' = "run"
    /\ reentered' = FALSE
    /\ ran' = NothingRan
    /\ UNCHANGED <<ret, workerVars, workers_ready>>

(* The loop of Runner when there are no workers.                           *)
SequentialTask ==
    /\ main = "sequential"
    /\ seq_task < args[2]
    /\ ran' = [ran EXCEPT ![seq_task] = @ + 1]
    /\ seq_task' = seq_task + 1
    /\ UNCHANGED <<main, op, args, ret, calls, workerVars, sharedVars, reentered>>

(* Mutant: the position of the loop belongs to the pool, like that of its  *)
(* workers.                                                                *)
IndexShared(r) == seq_task' = r[2]
IndexKept(r) == UNCHANGED seq_task

(* A task of such a Run calls the runner again. Nothing stops it: depth_   *)
(* is not looked at, and the inner Run calls its own func for all of its   *)
(* range on this thread before the task goes on.                           *)
SequentialReenter ==
    /\ main = "sequential"
    /\ seq_task < args[2]
    /\ \E r \in Ranges : r[1] < r[2] /\ IndexKept(r)
    /\ reentered' = TRUE
    /\ UNCHANGED <<main, op, args, ret, calls, workerVars, sharedVars, ran>>

SequentialReturn ==
    /\ main = "sequential"
    /\ seq_task >= args[2]
    /\ main' = "idle"
    /\ ret' = 0
    /\ UNCHANGED <<op, args, calls, seq_task, workerVars, sharedVars, reentered, ran>>

(* Mutant: depth_ is released without a look at what it was.               *)
ResultIgnoresDepth == 0
ResultOfDepth == IF depth = 1 THEN 0 ELSE -1

(* Runner after its barrier: depth_ tells whether a task re-entered.       *)
RunFinish ==
    /\ main = "finish"
    /\ depth' = depth - 1
    /\ ret' = ResultOfDepth
    /\ main' = "idle"
    /\ UNCHANGED <<op, args, calls, seq_task, workerVars, command, workers_ready,
                   num_reserved, reentered, ran>>

(* The destructor: tell the workers to exit, then join them.               *)
Destroy ==
    /\ main = "idle"
    /\ op' = "destroy"
    /\ IF NumWorkers # 0
       THEN StartWorkers(kWorkerExit)
       ELSE main' = "join" /\ UNCHANGED command
    /\ UNCHANGED <<args, ret, calls, seq_task, workerVars, workers_ready, num_reserved,
                   depth, reentered, ran>>

Join ==
    /\ main = "join"
    /\ \A w \in Workers : worker[w] = "exited"
    /\ main' = "destroyed"
    /\ UNCHANGED <<op, args, ret, calls, seq_task, workerVars, sharedVars, reentered, ran>>

Terminated == main = "destroyed" /\ UNCHANGED vars

-----------------------------------------------------------------------------
(* The workers: ThreadFunc and RunRange.                                   *)

(* Mutant: the count is compared before it is incremented.                 *)
ComparesOldCount(n) == n - 1 = AtLeast(NumWorkers, 1)
IsLastReport(n) == n = AtLeast(NumWorkers, 1)

(* Top of ThreadFunc's loop: report and wait, in one critical section. The *)
(* last one to report notifies the barrier.                                *)
Report(w) ==
    /\ worker[w] = "enter"
    /\ workers_ready' = workers_ready + 1
    /\ worker' = [worker EXCEPT ![w] = "waiting"]
    /\ main' = IF IsLastReport(workers_ready + 1) /\ main = "cvwait"
               THEN "barrier" ELSE main
    /\ UNCHANGED <<op, args, ret, calls, seq_task, cmd, size, task, stop, command,
                   num_reserved, depth, reentered, ran>>

(* worker_start_cv_.wait may return without a notification as well; only   *)
(* SpuriousSpec takes this into account.                                   *)
WorkerSpuriousWakeup(w) ==
    /\ worker[w] = "waiting"
    /\ worker' = [worker EXCEPT ![w] = "woken"]
    /\ UNCHANGED <<mainVars, cmd, size, task, stop, sharedVars, reentered, ran>>

(* The wait returns: the switch on worker_start_command_.                  *)
ReadCommand(w) ==
    /\ worker[w] = "woken"
    /\ worker' = [worker EXCEPT ![w] =
                    CASE command = kWorkerWait -> "waiting"
                      [] command = kWorkerOnce -> "once"
                      [] command = kWorkerExit -> "exited"
                      [] OTHER -> "load"]
    /\ cmd' = IF command \in {kWorkerWait, kWorkerOnce, kWorkerExit}
              THEN cmd ELSE [cmd EXCEPT ![w] = command]
    /\ UNCHANGED <<mainVars, size, task, stop, sharedVars, reentered, ran>>

CallOnce(w) ==
    /\ worker[w] = "once"
    /\ ran' = [ran EXCEPT ![w] = @ + 1]
    /\ worker' = [worker EXCEPT ![w] = "enter"]
    /\ UNCHANGED <<mainVars, cmd, size, task, stop, sharedVars, reentered>>

NumTasks(r) == r[2] - r[1]

(* RunRange: the size of the next chunk, from a count other workers may    *)
(* advance before it is used.                                              *)
LoadReserved(w) ==
    /\ worker[w] = "load"
    /\ LET num_tasks == NumTasks(cmd[w])
           remaining == num_tasks - AtMost(num_reserved, num_tasks)
       IN  size' = [size EXCEPT ![w] =
                        AtLeast(remaining \div (NumWorkers * 4), 1)]
    /\ worker' = [worker EXCEPT ![w] = "reserve"]
    /\ UNCHANGED <<mainVars, cmd, task, stop, sharedVars, reentered, ran>>

ChunkEnd(my_begin, my_size, end) == AtMost((my_begin + my_size) % Word, end)

(* RunRange: fetch_add, and the test that another thread reserved the last *)
(* task. The sums are of uint32_t.                                         *)
Reserve(w) ==
    LET my_begin == (cmd[w][1] + num_reserved) % Word
        my_end == ChunkEnd(my_begin, size[w], cmd[w][2])
    IN  /\ worker[w] = "reserve"
        /\ num_reserved' = (num_reserved + size[w]) % Word
        /\ IF my_begin >= my_end
           THEN /\ worker' = [worker EXCEPT ![w] = "enter"]
                /\ cmd' = [cmd EXCEPT ![w] = NoRange]
                /\ size' = [size EXCEPT ![w] = 0]
                /\ task' = [task EXCEPT ![w] = 0]
                /\ stop' = [stop EXCEPT ![w] = 0]
           ELSE /\ worker' = [worker EXCEPT ![w] = "tasks"]
                /\ task' = [task EXCEPT ![w] = my_begin]
                /\ stop' = [stop EXCEPT ![w] = my_end]
                /\ UNCHANGED <<cmd, size>>
        /\ UNCHANGED <<mainVars, command, workers_ready, depth,
                       reentered, ran>>

(* RunRange: one call of data_func_, and the loop's increment and test.    *)
RunTask(w) ==
    /\ worker[w] = "tasks"
    /\ ran' = [ran EXCEPT ![task[w]] = @ + 1]
    /\ task' = [task EXCEPT ![w] = @ + 1]
    /\ worker' = [worker EXCEPT ![w] =
                    IF task[w] + 1 < stop[w] THEN "tasks" ELSE "load"]
    /\ UNCHANGED <<mainVars, cmd, size, stop, sharedVars, reentered>>

(* A task calls the runner it runs on, with a range that is not empty:     *)
(* the call returns -1 and leaves depth_ incremented.                      *)
Reenter(w) ==
    /\ worker[w] = "tasks"
    /\ depth <= MaxReentries
    /\ depth # 0
    /\ depth' = depth + 1
    /\ reentered' = TRUE
    /\ UNCHANGED <<mainVars, workerVars, command, workers_ready, num_reserved,
                   ran>>

-----------------------------------------------------------------------------
(* What main does once a call has begun, and what it chooses to call.      *)
MainStep ==
    \/ SpawnWorker \/ Spawned \/ NotifyAll \/ WorkersReadyBarrier
    \/ main = "each" /\ RunOnEachThread
    \/ SequentialTask \/ SequentialReturn \/ RunFinish \/ Join

MainChoice ==
    \/ main = "idle" /\ RunOnEachThread
    \/ RunRejected \/ RunAccepted \/ Destroy \/ MainSpuriousWakeup

WorkerStep(w) ==
    \/ Report(w) \/ ReadCommand(w) \/ CallOnce(w)
    \/ LoadReserved(w) \/ Reserve(w) \/ RunTask(w)

Next ==
    \/ MainStep
    \/ MainChoice
    \/ SequentialReenter
    \/ \E w \in Workers : WorkerStep(w) \/ Reenter(w)
    \/ Terminated

(* The operating system schedules every thread that can run; nobody has to *)
(* call the pool, no wakeup has to be spurious and no task has to re-enter.*)
Fairness ==
    /\ WF_vars(MainStep)
    /\ \A w \in Workers : WF_vars(WorkerStep(w))

Spec == Init /\ [][Next]_vars
FairSpec == Spec /\ Fairness

SpuriousSpec ==
    Init /\ [][Next \/ \E w \in Workers : WorkerSpuriousWakeup(w)]_vars

-----------------------------------------------------------------------------
TypeOK ==
    /\ main \in MainStates
    /\ op \in {"ctor", "once", "run", "rejected", "destroy"}
    /\ args \in Commands
    /\ ret \in Int
    /\ calls \in Nat
    /\ seq_task \in Nat
    /\ worker \in [Workers -> WorkerStates]
    /\ cmd \in [Workers -> Commands]
    /\ size \in [Workers -> Nat]
    /\ task \in [Workers -> Nat]
    /\ stop \in [Workers -> Nat]
    /\ command \in Commands
    /\ workers_ready \in Nat
    /\ num_reserved \in Nat
    /\ depth \in Nat
    /\ reentered \in BOOLEAN
    /\ ran \in [Tasks -> Nat]

(* thread_parallel_runner_internal.h:97 and :130: whenever main is about   *)
(* to start the workers, or returns to its caller, every worker sits in    *)
(* worker_start_cv_'s wait set and none has reported for a later command.  *)
WorkersReadyBetweenCalls ==
    main \in {"each", "idle", "notify", "finish"} =>
        /\ \A w \in Workers : worker[w] = "waiting"
        /\ workers_ready = 0

(* parallel_runner.h, JxlParallelRunFunction: a Run that has returned      *)
(* success called func once for every number of its range and for no other *)
(* number.                                                                 *)
CalledOncePerNumber ==
    main = "idle" /\ op = "run" /\ ret = 0 =>
        \A t \in Tasks :
            ran[t] = IF args[1] <= t /\ t < args[2] THEN 1 ELSE 0

(* depth_: a Run one of whose tasks re-entered the runner does not report  *)
(* success; only without workers it may.                                   *)
ReentryReported ==
    main = "idle" /\ op = "run" /\ reentered /\ NumWorkers # 0 => ret # 0

(* Every call returns: the constructor's barrier, a Run, RunOnEachThread   *)
(* and the destructor's joins, under any interleaving of fair threads.     *)
CallsReturn == main # "idle" ~> main \in {"idle", "destroyed"}

(* The pool implements the contract of a parallel runner. A call runs from *)
(* StartWorkers to its return; RunOnEachThread is a call for the range of  *)
(* the worker numbers.                                                     *)
Contract == INSTANCE ParallelRunner WITH
    running <- op \in {"once", "run"} /\ main \notin {"idle"},
    range <- args

Refinement == Contract!Spec
=============================================================================
