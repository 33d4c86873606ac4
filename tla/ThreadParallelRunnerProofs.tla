--------------------- MODULE ThreadParallelRunnerProofs ---------------------
(***************************************************************************)
(* Proofs about ThreadParallelRunner, for any number of workers and any    *)
(* set of ranges. Spec has no spurious wakeups of workers (SpuriousSpec    *)
(* does): a worker leaves its wait set when it is notified, and only then. *)
(***************************************************************************)
EXTENDS ThreadParallelRunnerInvariant, FiniteSetTheorems, TLAPS

LEMMA WorkersFinite ==
    /\ IsFiniteSet(Workers)
    /\ Cardinality(Workers) = NumWorkers
<1>1. NumWorkers \in Nat /\ 0 \in Int /\ NumWorkers - 1 \in Int
  BY ConstantsAssumption
<1>2. /\ IsFiniteSet(0 .. NumWorkers - 1)
      /\ Cardinality(0 .. NumWorkers - 1) =
            IF 0 > NumWorkers - 1 THEN 0 ELSE NumWorkers - 1 - 0 + 1
  BY <1>1, FS_Interval, Zenon
<1> QED
  BY <1>1, <1>2 DEF Workers

(* The values main and the workers start from, and the special commands.   *)
LEMMA Values ==
    /\ NothingRan \in [Tasks -> Nat]
    /\ NoRange \in Commands
    /\ <<0, NumWorkers>> \in Commands
    /\ Ranges \subseteq Commands
    /\ {kWorkerWait, kWorkerOnce, kWorkerExit} \subseteq Commands
    /\ kWorkerWait # kWorkerOnce /\ kWorkerWait # kWorkerExit
    /\ kWorkerOnce # kWorkerExit
    /\ \A r \in {kWorkerWait, kWorkerOnce, kWorkerExit} : r[1] > r[2]
  BY ConstantsAssumption
     DEF NothingRan, NoRange, Commands, kWorkerWait, kWorkerOnce, kWorkerExit

LEMMA CommandIsPair ==
    ASSUME NEW r \in Commands
    PROVE  r[1] \in Nat /\ r[2] \in Nat /\ r[1] < Word /\ r[2] < Word
  BY ConstantsAssumption DEF Commands

LEMMA WordArithmetic ==
    ASSUME NEW n \in Nat
    PROVE  /\ n % Word \in Nat
           /\ n < Word => n % Word = n
  BY ConstantsAssumption

LEMMA CountOneMore ==
    ASSUME NEW S, NEW f \in [S -> Nat], NEW x
    PROVE  [f EXCEPT ![x] = @ + 1] \in [S -> Nat]
<1>1. CASE x \in S
  BY <1>1
<1>2. CASE x \notin S
  BY <1>2
<1> QED
  BY <1>1, <1>2

LEMMA ChunkSize ==
    ASSUME NEW w \in Workers, TypeOK, LoadReserved(w)
    PROVE  size' \in [Workers -> Nat] /\ size'[w] >= 1
<1> DEFINE num_tasks == cmd[w][2] - cmd[w][1]
           remaining == num_tasks - (IF num_reserved <= num_tasks
                                     THEN num_reserved ELSE num_tasks)
           share == remaining \div (NumWorkers * 4)
<1>1. remaining \in Int
  BY CommandIsPair DEF TypeOK
<1>2. NumWorkers * 4 \in Nat \ {0}
  BY ConstantsAssumption DEF Workers
<1> HIDE DEF remaining
<1>3. share \in Int
  BY <1>1, <1>2
<1>4. size' = [size EXCEPT ![w] = IF share >= 1 THEN share ELSE 1]
  BY DEF LoadReserved, AtLeast, AtMost, NumTasks, remaining
<1> HIDE DEF share
<1> QED
  BY <1>3, <1>4 DEF TypeOK

(* Every step of the specification keeps every variable in its type.       *)
LEMMA TypeStep == TypeOK /\ Handshake /\ [Next]_vars => TypeOK'
<1> SUFFICES ASSUME TypeOK, Handshake, [Next]_vars PROVE TypeOK'
  OBVIOUS
<1> USE Values DEF TypeOK, MainStates, WorkerStates, mainVars, workerVars,
                   sharedVars
<1>1. CASE SpawnWorker
  BY <1>1 DEF SpawnWorker
<1>2. CASE Spawned
  BY <1>2 DEF Spawned
<1>3. CASE NotifyAll
  BY <1>3 DEF NotifyAll
<1>4. CASE WorkersReadyBarrier
  <2>1. main' \in MainStates
    BY <1>4 DEF WorkersReadyBarrier, Handshake, AtBarrier
  <2> QED
    BY <1>4, <2>1 DEF WorkersReadyBarrier, ReportsConsumed
<1>5. CASE RunOnEachThread
  BY <1>5 DEF RunOnEachThread, StartWorkers
<1>6. CASE SequentialTask
  <2>1. ran' \in [Tasks -> Nat]
    BY <1>6, CountOneMore DEF SequentialTask
  <2> QED
    BY <1>6, <2>1 DEF SequentialTask
<1>7. CASE SequentialReturn
  BY <1>7 DEF SequentialReturn
<1>8. CASE RunFinish
  BY <1>8 DEF RunFinish, ResultOfDepth, Handshake
<1>9. CASE Join
  BY <1>9 DEF Join
<1>10. CASE RunRejected
  <2>1. InitCodes \subseteq Int
    BY ConstantsAssumption
  <2>2. ret' \in Int
    BY <1>10, <2>1 DEF RunRejected
  <2> QED
    BY <1>10, <2>2 DEF RunRejected, DepthOnInitError
<1>11. CASE RunAccepted
  <2> PICK r \in Ranges : RunAccepted!4!(r)
    BY <1>11 DEF RunAccepted
  <2>1. args' \in Commands
    OBVIOUS
  <2>2. /\ main' \in {"sequential", "notify"} /\ depth' \in Nat
        /\ command' \in Commands /\ num_reserved' \in Nat
    BY DEF StartWorkers, ReservedCleared
  <2>3. /\ calls' = calls + 1 /\ op' = "run" /\ reentered' = FALSE
        /\ ran' = NothingRan /\ UNCHANGED <<ret, workerVars, workers_ready>>
    BY <1>11 DEF RunAccepted
  <2>4. ran' \in [Tasks -> Nat] /\ calls' \in Nat
    BY <2>3
  <2>5. seq_task' \in Nat
    <3>1. r[1] \in Nat
      BY CommandIsPair
    <3> QED
      BY <3>1
  <2> QED
    BY <2>1, <2>2, <2>3, <2>4, <2>5
<1>12. CASE Destroy
  BY <1>12 DEF Destroy, StartWorkers
<1>13. CASE MainSpuriousWakeup
  BY <1>13 DEF MainSpuriousWakeup
<1>14. ASSUME NEW w \in Workers, Report(w) PROVE TypeOK'
  BY <1>14 DEF Report
<1>15. ASSUME NEW w \in Workers, ReadCommand(w) PROVE TypeOK'
  BY <1>15 DEF ReadCommand
<1>16. ASSUME NEW w \in Workers, CallOnce(w) PROVE TypeOK'
  <2>1. ran' \in [Tasks -> Nat]
    BY <1>16, CountOneMore DEF CallOnce
  <2> QED
    BY <1>16, <2>1 DEF CallOnce
<1>17. ASSUME NEW w \in Workers, LoadReserved(w) PROVE TypeOK'
  <2>1. size' \in [Workers -> Nat]
    BY <1>17, ChunkSize DEF LoadReserved
  <2> QED
    BY <1>17, <2>1 DEF LoadReserved
<1>18. ASSUME NEW w \in Workers, Reserve(w) PROVE TypeOK'
  <2> DEFINE my_begin == (cmd[w][1] + num_reserved) % Word
             my_end == ChunkEnd(my_begin, size[w], cmd[w][2])
  <2>1. cmd[w][1] \in Nat /\ cmd[w][2] \in Nat
    BY CommandIsPair
  <2>2. my_begin \in Nat /\ my_end \in Nat
    BY <2>1, WordArithmetic DEF ChunkEnd, AtMost
  <2>3. (num_reserved + size[w]) % Word \in Nat
    BY WordArithmetic
  <2> HIDE DEF my_begin, my_end
  <2> QED
    BY <1>18, <2>2, <2>3 DEF Reserve, my_begin, my_end
<1>19. ASSUME NEW w \in Workers, RunTask(w) PROVE TypeOK'
  <2>1. ran' \in [Tasks -> Nat]
    BY <1>19, CountOneMore DEF RunTask
  <2> QED
    BY <1>19, <2>1 DEF RunTask
<1>21. ASSUME NEW w \in Workers, Reenter(w) PROVE TypeOK'
  BY <1>21 DEF Reenter
<1>20. CASE SequentialReenter
  BY <1>20 DEF SequentialReenter, IndexKept
<1>22. CASE UNCHANGED vars
  BY <1>22 DEF vars
<1> QED
  BY <1>1, <1>2, <1>3, <1>4, <1>5, <1>6, <1>7, <1>8, <1>9, <1>10, <1>11,
     <1>12, <1>13, <1>14, <1>15, <1>16, <1>17, <1>18, <1>19, <1>20,
     <1>21, <1>22 DEF Next, MainStep, MainChoice, WorkerStep, Terminated

-----------------------------------------------------------------------------
LEMMA WaitingFinite ==
    /\ IsFiniteSet(Waiting)
    /\ Cardinality(Waiting) \in Nat
    /\ Cardinality(Waiting) = NumWorkers => Waiting = Workers
<1>1. Waiting \subseteq Workers
  BY DEF Waiting
<1>2. IsFiniteSet(Waiting)
  BY <1>1, WorkersFinite, FS_Subset
<1>3. Cardinality(Waiting) \in Nat
  BY <1>2, FS_CardinalityType
<1>4. ASSUME Cardinality(Waiting) = NumWorkers PROVE Waiting = Workers
  <2>1. Cardinality(Workers \ Waiting)
            = Cardinality(Workers) - Cardinality(Workers \cap Waiting)
    BY WorkersFinite, FS_Difference
  <2>2. Workers \cap Waiting = Waiting
    BY <1>1
  <2>3. Cardinality(Workers \ Waiting) = 0
    <3>1. NumWorkers \in Nat
      BY ConstantsAssumption
    <3> QED
      BY <1>4, <2>1, <2>2, <3>1, WorkersFinite
  <2>4. IsFiniteSet(Workers \ Waiting)
    BY WorkersFinite, FS_Subset
  <2>5. Workers \ Waiting = {}
    BY <2>3, <2>4, FS_EmptySet
  <2> QED
    BY <1>1, <2>5
<1> QED
  BY <1>2, <1>3, <1>4

(* Waiting is unchanged unless a worker reports, is woken or waits again.  *)
LEMMA WaitingUpdate ==
    ASSUME TypeOK, NEW w \in Workers, NEW s,
           worker' = [worker EXCEPT ![w] = s], worker[w] # "waiting"
    PROVE  Waiting' = IF s = "waiting" THEN Waiting \cup {w} ELSE Waiting
  BY DEF TypeOK, Waiting

LEMMA InitHandshake == Init => TypeOK /\ Handshake
<1> SUFFICES ASSUME Init PROVE TypeOK /\ Handshake
  OBVIOUS
<1>1. TypeOK
  <2>1. /\ main \in MainStates /\ op \in {"ctor", "once", "run", "rejected", "destroy"}
        /\ ret \in Int /\ calls \in Nat /\ workers_ready \in Nat
        /\ num_reserved \in Nat /\ depth \in Nat /\ seq_task \in Nat
    <3>1. /\ main = "spawn" /\ op = "ctor" /\ ret = 0 /\ calls = 0
          /\ workers_ready = 0 /\ num_reserved = 0 /\ depth = 0 /\ seq_task = 0
      BY DEF Init
    <3> QED
      BY <3>1 DEF MainStates
  <2>2. /\ worker \in [Workers -> WorkerStates]
        /\ size \in [Workers -> Nat]
        /\ task \in [Workers -> Nat]
        /\ stop \in [Workers -> Nat]
    BY DEF Init, WorkerStates
  <2>3. /\ args \in Commands /\ command \in Commands
        /\ cmd \in [Workers -> Commands] /\ ran \in [Tasks -> Nat]
        /\ reentered \in BOOLEAN
    BY Values DEF Init
  <2> QED
    BY <2>1, <2>2, <2>3 DEF TypeOK
<1>2. Waiting = {}
  BY DEF Init, Waiting
<1>3. workers_ready = Cardinality(Waiting)
  BY <1>2, FS_EmptySet DEF Init
<1>4. Handshake
  BY <1>3 DEF Init, Handshake, AtBarrier, Quiet
<1> QED
  BY <1>1, <1>4

LEMMA HandshakeStep ==
    ASSUME TypeOK, Handshake, [Next]_vars
    PROVE  Handshake'
<1> USE Values DEF Handshake, AtBarrier, Quiet, mainVars, workerVars, sharedVars
<1>1. CASE SpawnWorker
  <2> PICK w \in Workers : worker[w] = "unborn"
                            /\ worker' = [worker EXCEPT ![w] = "enter"]
    BY <1>1 DEF SpawnWorker
  <2>1. Waiting' = Waiting
    BY DEF Waiting, TypeOK
  <2> QED
    BY <1>1, <2>1 DEF SpawnWorker, TypeOK
<1>2. CASE Spawned
  <2>1. Waiting' = Waiting
    BY <1>2 DEF Spawned, Waiting
  <2>2. CASE NumWorkers = 0
    <3>1. Workers = {}
      BY <2>2 DEF Workers
    <3>2. Waiting = {}
      BY <3>1 DEF Waiting
    <3>3. workers_ready = 0
      BY <1>2, <3>2, FS_EmptySet DEF Spawned
    <3> QED
      BY <1>2, <2>2, <3>1, <3>3 DEF Spawned
  <2>3. CASE NumWorkers # 0
    BY <1>2, <2>1, <2>3 DEF Spawned
  <2> QED
    BY <2>2, <2>3
<1>3. CASE NotifyAll
  <2>1. Waiting' = {}
    BY <1>3 DEF NotifyAll, Waiting, TypeOK
  <2>2. Cardinality(Waiting') = 0
    BY <2>1, FS_EmptySet
  <2> QED
    BY <1>3, <2>2 DEF NotifyAll, TypeOK
<1>4. CASE WorkersReadyBarrier
  <2>1. CASE AllReady
    <3>1. Waiting = Workers
      BY <1>4, <2>1, WaitingFinite DEF WorkersReadyBarrier, AllReady
    <3>2. main' \in {"each", "idle", "finish"}
      BY <1>4, <2>1 DEF WorkersReadyBarrier
    <3>3. (main' = "finish" => op = "run") /\ UNCHANGED <<worker, op, depth>>
      BY <1>4, <2>1 DEF WorkersReadyBarrier
    <3>4. workers_ready' = 0 /\ command' = kWorkerWait
      BY <1>4, <2>1 DEF WorkersReadyBarrier, ReportsConsumed
    <3>5. \A w \in Workers : worker[w] = "waiting"
      BY <3>1 DEF Waiting
    <3> QED
      BY <1>4, <3>2, <3>3, <3>4, <3>5 DEF WorkersReadyBarrier
  <2>2. CASE ~AllReady
    <3>1. Waiting' = Waiting
      BY <1>4 DEF WorkersReadyBarrier, Waiting
    <3> QED
      BY <1>4, <2>2, <3>1 DEF WorkersReadyBarrier
  <2> QED
    BY <2>1, <2>2
<1>5. CASE RunOnEachThread
  BY <1>5 DEF RunOnEachThread, StartWorkers
<1>6. CASE SequentialTask \/ SequentialReenter
  BY <1>6 DEF SequentialTask, SequentialReenter
<1>7. CASE SequentialReturn
  BY <1>7 DEF SequentialReturn
<1>8. CASE RunFinish
  BY <1>8 DEF RunFinish
<1>9. CASE Join
  BY <1>9 DEF Join
<1>10. CASE RunRejected
  BY <1>10 DEF RunRejected
<1>11. CASE RunAccepted
  <2> PICK r \in Ranges : RunAccepted!4!(r)
    BY <1>11 DEF RunAccepted
  <2>1. r \notin {kWorkerWait, kWorkerOnce, kWorkerExit}
    BY CommandIsPair
  <2> QED
    BY <1>11, <2>1 DEF RunAccepted, StartWorkers
<1>12. CASE Destroy
  <2>1. CASE NumWorkers = 0
    <3>1. Workers = {}
      BY <2>1 DEF Workers
    <3> QED
      BY <1>12, <2>1, <3>1 DEF Destroy
  <2>2. CASE NumWorkers # 0
    BY <1>12, <2>2 DEF Destroy, StartWorkers
  <2> QED
    BY <2>1, <2>2
<1>13. CASE MainSpuriousWakeup
  <2>1. Waiting' = Waiting
    BY <1>13 DEF MainSpuriousWakeup, Waiting
  <2> QED
    BY <1>13, <2>1 DEF MainSpuriousWakeup
<1>14. ASSUME NEW w \in Workers, Report(w) PROVE Handshake'
  <2>1. Waiting' = Waiting \cup {w} /\ w \notin Waiting
    BY <1>14, WaitingUpdate DEF Report, Waiting
  <2>2. Cardinality(Waiting') = Cardinality(Waiting) + 1
    BY <2>1, WaitingFinite, FS_AddElement
  <2>3. main \in {"spawn", "barrier", "cvwait"}
    BY <1>14 DEF Report, TypeOK, MainStates
  <2>4. workers_ready' = Cardinality(Waiting')
    BY <1>14, <2>2, <2>3 DEF Report
  <2>5. main' = main \/ (main = "cvwait" /\ main' = "barrier")
    BY <1>14 DEF Report
  <2> QED
    BY <1>14, <2>3, <2>4, <2>5 DEF Report, TypeOK
<1>15. ASSUME NEW w \in Workers, ReadCommand(w) PROVE Handshake'
  <2>1. (AtBarrier /\ op \in {"once", "run"}) \/ main = "join"
    BY <1>15 DEF ReadCommand, TypeOK, MainStates
  <2>2. command # kWorkerWait
    BY <1>15, <2>1 DEF ReadCommand, Workers
  <2>3. worker' = [worker EXCEPT ![w] = IF command = kWorkerOnce THEN "once"
                        ELSE IF command = kWorkerExit THEN "exited" ELSE "load"]
    BY <1>15, <2>2 DEF ReadCommand
  <2>4. Waiting' = Waiting
    BY <1>15, <2>3 DEF ReadCommand, Waiting, TypeOK
  <2> QED
    <3>1. CASE main = "join"
      <4>1. NumWorkers # 0
        BY DEF Workers
      <4>2. command = kWorkerExit
        BY <3>1, <4>1
      <4>3. worker' = [worker EXCEPT ![w] = "exited"]
        BY <2>3, <4>2
      <4> QED
        BY <1>15, <3>1, <4>2, <4>3 DEF ReadCommand, TypeOK
    <3>2. CASE AtBarrier /\ op = "once"
      BY <1>15, <2>3, <2>4, <3>2 DEF ReadCommand, TypeOK
    <3>3. CASE AtBarrier /\ op = "run"
      BY <1>15, <2>3, <2>4, <3>3 DEF ReadCommand, TypeOK
    <3> QED
      BY <2>1, <3>1, <3>2, <3>3
<1>16. ASSUME NEW w \in Workers, CallOnce(w) PROVE Handshake'
  <2>1. Waiting' = Waiting
    BY <1>16 DEF CallOnce, Waiting, TypeOK
  <2> QED
    BY <1>16, <2>1 DEF CallOnce, TypeOK, MainStates
<1>17. ASSUME NEW w \in Workers, LoadReserved(w) PROVE Handshake'
  <2>1. Waiting' = Waiting
    BY <1>17 DEF LoadReserved, Waiting, TypeOK
  <2> QED
    BY <1>17, <2>1 DEF LoadReserved, TypeOK, MainStates
<1>18. ASSUME NEW w \in Workers, Reserve(w) PROVE Handshake'
  <2> PICK s \in {"enter", "tasks"} : worker' = [worker EXCEPT ![w] = s]
    BY <1>18 DEF Reserve
  <2>1. Waiting' = Waiting
    BY <1>18, WaitingUpdate DEF Reserve
  <2> QED
    BY <1>18, <2>1 DEF Reserve, TypeOK, MainStates
<1>19. ASSUME NEW w \in Workers, RunTask(w) PROVE Handshake'
  <2> PICK s \in {"tasks", "load"} : worker' = [worker EXCEPT ![w] = s]
    BY <1>19 DEF RunTask
  <2>1. Waiting' = Waiting
    BY <1>19, WaitingUpdate DEF RunTask
  <2> QED
    BY <1>19, <2>1 DEF RunTask, TypeOK, MainStates
<1>21. ASSUME NEW w \in Workers, Reenter(w) PROVE Handshake'
  <2>1. Waiting' = Waiting
    BY <1>21 DEF Reenter, Waiting
  <2> QED
    BY <1>21, <2>1 DEF Reenter, TypeOK
<1>22. CASE UNCHANGED vars
  <2>1. Waiting' = Waiting
    BY <1>22 DEF vars, Waiting
  <2> QED
    BY <1>22, <2>1 DEF vars
<1> QED
  BY <1>1, <1>2, <1>3, <1>4, <1>5, <1>6, <1>7, <1>8, <1>9, <1>10, <1>11,
     <1>12, <1>13, <1>14, <1>15, <1>16, <1>17, <1>18, <1>19, <1>21,
     <1>22 DEF Next, MainStep, MainChoice, WorkerStep, Terminated

(* For every number of workers, no worker is outside of its wait set when  *)
(* a call begins or returns: the precondition of StartWorkers.             *)
THEOREM WorkersReady == Spec => [](TypeOK /\ WorkersReadyBetweenCalls)
<1>1. TypeOK /\ Handshake /\ [Next]_vars => (TypeOK /\ Handshake)'
  BY TypeStep, HandshakeStep
<1>2. TypeOK /\ Handshake => WorkersReadyBetweenCalls
  BY DEF Handshake, Quiet, WorkersReadyBetweenCalls
<1> QED
  BY <1>1, <1>2, InitHandshake, PTL DEF Spec

-----------------------------------------------------------------------------
(***************************************************************************)
(* A Run calls func once for every number of its range, for all ranges     *)
(* that do not end within a chunk per worker of 2^32 (NoWrap).             *)
(***************************************************************************)

(* A worker is only at work while main waits for a Run to end.             *)
LEMMA AtWork ==
    ASSUME TypeOK, Handshake, NEW w \in Workers,
           worker[w] \in {"load", "reserve", "tasks"}
    PROVE  AtBarrier /\ op = "run" /\ InRun
  BY DEF TypeOK, MainStates, Handshake, Quiet, InRun, AtBarrier

LEMMA DivMonotone ==
    ASSUME NEW a \in Nat, NEW b \in Nat, NEW d \in Nat \ {0}, a <= b
    PROVE  a \div d <= b \div d
  BY SMTT(30)

LEMMA OneChunkMore ==
    ASSUME NEW c \in Nat, NEW f \in Nat, NEW n \in Nat, f + 2 <= n + 1
    PROVE  c * (f + 1) + c = c * (f + 2) /\ c * (f + 2) <= c * (n + 1)
<1>1. c * (f + 1) + c = c * (f + 2)
  BY SMTT(30)
<1>2. c * (f + 2) <= c * (n + 1)
  BY SMTT(30)
<1> QED
  BY <1>1, <1>2

(* A range that a Run accepts is not empty, and its largest chunk is not.  *)
LEMMA LargestChunkType ==
    ASSUME NEW r \in Ranges, r[1] < r[2], NumWorkers > 0
    PROVE  /\ NumTasks(r) \in Nat \ {0}
           /\ LargestChunk(r) \in Nat \ {0}
           /\ NumTasks(r) \div (NumWorkers * 4) <= LargestChunk(r)
<1>1. r[1] \in Nat /\ r[2] \in Nat
  BY Values, CommandIsPair
<1>2. NumWorkers * 4 \in Nat \ {0}
  BY ConstantsAssumption
<1>3. NumTasks(r) \in Nat \ {0}
  BY <1>1 DEF NumTasks
<1>4. NumTasks(r) \div (NumWorkers * 4) \in Int
  BY <1>2, <1>3
<1> HIDE DEF NumTasks
<1> QED
  BY <1>3, <1>4 DEF LargestChunk, AtLeast

(* LoadReserved computes a size between 1 and the largest chunk, however   *)
(* stale the count it reads is.                                            *)
LEMMA SizeInBounds ==
    ASSUME TypeOK, Handshake, Once, NEW w \in Workers, LoadReserved(w)
    PROVE  size' = [size EXCEPT ![w] = size'[w]]
           /\ size'[w] \in 1 .. LargestChunk(args)
<1>1. InRun /\ Reservations /\ cmd[w] = args
  BY AtWork DEF LoadReserved, Once, Reservations
<1> DEFINE num_tasks == NumTasks(args)
           remaining == num_tasks - AtMost(num_reserved, num_tasks)
           share == remaining \div (NumWorkers * 4)
<1>2. num_tasks \in Nat /\ LargestChunk(args) \in Nat \ {0}
      /\ num_tasks \div (NumWorkers * 4) <= LargestChunk(args)
  BY <1>1, LargestChunkType DEF Reservations
<1>3. remaining \in Nat /\ remaining <= num_tasks
  BY <1>2 DEF AtMost, TypeOK
<1>4. NumWorkers * 4 \in Nat \ {0}
  BY <1>1, ConstantsAssumption DEF Reservations
<1>5. size' = [size EXCEPT ![w] = AtLeast(share, 1)]
  BY <1>1 DEF LoadReserved
<1>6. size'[w] = AtLeast(share, 1)
  BY <1>5 DEF TypeOK
<1> HIDE DEF num_tasks, remaining
<1>7. share <= num_tasks \div (NumWorkers * 4) /\ share \in Int
      /\ num_tasks \div (NumWorkers * 4) \in Int
  BY <1>2, <1>3, <1>4, DivMonotone
<1> HIDE DEF share
<1>8. AtLeast(share, 1) \in 1 .. LargestChunk(args)
  BY <1>2, <1>7 DEF AtLeast
<1> QED
  BY <1>5, <1>6, <1>8

-----------------------------------------------------------------------------
LEMMA FinishedFinite ==
    /\ IsFiniteSet(Finished)
    /\ Cardinality(Finished) \in 0 .. NumWorkers
    /\ \A w \in Workers : w \notin Finished => Cardinality(Finished) < NumWorkers
<1>1. Finished \subseteq Workers
  BY DEF Finished
<1>2. IsFiniteSet(Finished) /\ Cardinality(Finished) <= NumWorkers
      /\ (Cardinality(Finished) = NumWorkers => Finished = Workers)
  BY <1>1, WorkersFinite, FS_Subset
<1>3. Cardinality(Finished) \in Nat /\ NumWorkers \in Nat
  BY <1>2, FS_CardinalityType, ConstantsAssumption
<1> QED
  BY <1>2, <1>3

(* How a step of worker w changes what is held and who has finished.       *)
LEMMA FinishedUpdate ==
    ASSUME TypeOK, NEW w \in Workers, NEW s,
           worker' = [worker EXCEPT ![w] = s]
    PROVE  Finished' = IF s \in {"enter", "waiting"}
                       THEN Finished \cup {w} ELSE Finished \ {w}
  BY DEF TypeOK, Finished

LEMMA SameChunks ==
    ASSUME TypeOK, Chunks, NEW w \in Workers, NEW s,
           worker[w] # "tasks", s # "tasks",
           worker' = [worker EXCEPT ![w] = s],
           UNCHANGED <<args, task, stop, num_reserved, ran>>
    PROVE  Chunks'
<1>1. \A v \in Workers : \A t : Holds(v, t)' = Holds(v, t)
  BY DEF Holds, TypeOK
<1>2. \A t : Held(t)' = Held(t) /\ Reserved(t)' = Reserved(t)
  BY <1>1 DEF Held, Reserved
<1>3. RunOrHeld'
  BY <1>2 DEF Chunks, RunOrHeld
<1>4. ChunksDisjoint'
  BY <1>1 DEF Chunks, ChunksDisjoint
<1>5. ChunkBounds'
  BY DEF Chunks, ChunkBounds, TypeOK
<1> QED
  BY <1>3, <1>4, <1>5 DEF Chunks

(* The arithmetic of a reservation that stays below the largest value.     *)
LEMMA BelowTheTop ==
    ASSUME NEW a \in Int, NEW b \in Int, NEW n \in Int, NEW s \in Int,
           NEW x \in Int, NEW c \in Int, NEW z \in Int, NEW top \in Int,
           n <= b - a - 1 + x, s <= c, x + c <= z, b + z <= top
    PROVE  a + n + s < top
  OBVIOUS

(* A reservation does not wrap around.                                     *)
LEMMA ReserveExact ==
    ASSUME NoWrap, TypeOK, Handshake, Once, NEW w \in Workers,
           worker[w] = "reserve"
    PROVE  /\ cmd[w] = args /\ size[w] \in 1 .. LargestChunk(args)
           /\ (args[1] + num_reserved) % Word = args[1] + num_reserved
           /\ (args[1] + num_reserved + size[w]) % Word
                    = args[1] + num_reserved + size[w]
           /\ (num_reserved + size[w]) % Word = num_reserved + size[w]
<1>1. InRun /\ AtBarrier /\ Reservations
  BY AtWork DEF Once
<1>2. size[w] \in 1 .. LargestChunk(args) /\ cmd[w] = args
  BY <1>1 DEF Reservations
<1>3. Cardinality(Finished) + 2 <= NumWorkers + 1 /\ Cardinality(Finished) \in Nat
      /\ NumWorkers \in Nat
  BY FinishedFinite, ConstantsAssumption DEF Finished
<1>4. LargestChunk(args) \in Nat \ {0} /\ NumTasks(args) \in Nat
  BY <1>1, LargestChunkType DEF Reservations
<1> DEFINE c == LargestChunk(args)
           f == Cardinality(Finished)
<1>5. num_reserved <= NumTasks(args) - 1 + c * (f + 1)
  BY <1>1 DEF Reservations
<1>6. args[2] + c * (NumWorkers + 1) <= Word
  BY <1>1 DEF Reservations, NoWrap
<1>7. args[1] \in Nat /\ args[2] \in Nat /\ num_reserved \in Nat
      /\ NumTasks(args) = args[2] - args[1]
  BY CommandIsPair DEF TypeOK, NumTasks
<1> HIDE DEF c, f
<1>8. c * (f + 1) + c = c * (f + 2) /\ c * (f + 2) <= c * (NumWorkers + 1)
  BY <1>3, <1>4, OneChunkMore DEF c, f
<1>9. size[w] <= c /\ size[w] \in Nat /\ c \in Nat
  BY <1>2, <1>4 DEF c
<1> DEFINE x == c * (f + 1)
           y == c * (f + 2)
           z == c * (NumWorkers + 1)
<1>10. x \in Int /\ y \in Int /\ z \in Int
  BY <1>3, <1>9 DEF f
<1>11. num_reserved <= NumTasks(args) - 1 + x /\ args[2] + z <= Word
       /\ x + c = y /\ y <= z
  BY <1>5, <1>6, <1>8
<1> HIDE DEF x, y, z
<1>12. args[1] + num_reserved + size[w] < Word
  <2>1. Word \in Int
    BY ConstantsAssumption
  <2>2. num_reserved <= args[2] - args[1] - 1 + x
    BY <1>7, <1>11
  <2>3. size[w] <= c /\ x + c <= z /\ args[2] + z <= Word
    BY <1>9, <1>10, <1>11
  <2> QED
    BY <2>1, <2>2, <2>3, <1>7, <1>9, <1>10, BelowTheTop
<1>13. args[1] + num_reserved \in Nat /\ args[1] + num_reserved + size[w] \in Nat
       /\ num_reserved + size[w] \in Nat
       /\ args[1] + num_reserved < Word /\ num_reserved + size[w] < Word
  <2>1. args[1] \in Nat /\ num_reserved \in Nat /\ size[w] \in Nat /\ Word \in Nat
    BY <1>7, <1>9, ConstantsAssumption
  <2> QED
    BY <1>12, <2>1
<1> QED
  BY <1>2, <1>12, <1>13, WordArithmetic

(* A worker that finds nothing left has seen the whole range reserved; one *)
(* that finds a chunk takes numbers nobody holds and none has been run.    *)
LEMMA ReserveStep ==
    ASSUME NoWrap, TypeOK, Handshake, Once, NEW w \in Workers, Reserve(w)
    PROVE  Once'
<1> DEFINE my_begin == args[1] + num_reserved
           my_end == AtMost(my_begin + size[w], args[2])
<1>1. worker[w] = "reserve" /\ UNCHANGED <<main, op, args, command, ran>>
  BY DEF Reserve, mainVars
<1>2. InRun /\ AtBarrier /\ op = "run" /\ Reservations /\ Chunks
  BY <1>1, AtWork DEF Once
<1>3. size[w] \in 1 .. LargestChunk(args) /\ cmd[w] = args
      /\ my_begin % Word = my_begin
      /\ (my_begin + size[w]) % Word = my_begin + size[w]
  BY <1>1, ReserveExact
<1>4. num_reserved' = num_reserved + size[w]
  BY <1>1, ReserveExact DEF Reserve
<1>5. args[1] \in Nat /\ args[2] \in Nat /\ args[1] < args[2]
      /\ num_reserved \in Nat /\ size[w] \in Nat \ {0}
      /\ NumTasks(args) = args[2] - args[1]
      /\ LargestChunk(args) \in Nat \ {0}
  BY <1>2, <1>3, CommandIsPair, LargestChunkType DEF Reservations, TypeOK, NumTasks
<1>6. Cardinality(Finished) \in Nat /\ IsFiniteSet(Finished) /\ w \notin Finished
  BY <1>1, FinishedFinite DEF Finished
<1>7. RanOnce'
  BY <1>1, <1>2 DEF RanOnce, AtBarrier
<1>8. my_begin \in Int /\ my_end \in Int
  BY <1>5 DEF AtMost
<1>9. CASE my_begin >= my_end
  <2>1. worker' = [worker EXCEPT ![w] = "enter"]
        /\ cmd' = [cmd EXCEPT ![w] = NoRange]
        /\ size' = [size EXCEPT ![w] = 0]
        /\ task' = [task EXCEPT ![w] = 0] /\ stop' = [stop EXCEPT ![w] = 0]
    BY <1>3, <1>9 DEF Reserve, ChunkEnd
  <2>2. my_begin >= args[2]
    BY <1>5, <1>9 DEF AtMost
  <2>3. Cardinality(Finished') = Cardinality(Finished) + 1
    BY <1>6, <2>1, FinishedUpdate, FS_AddElement
  <2>4. num_reserved' <= NumTasks(args) - 1
                + LargestChunk(args) * (Cardinality(Finished') + 1)
    <3>1. num_reserved <= NumTasks(args) - 1
                + LargestChunk(args) * (Cardinality(Finished) + 1)
      BY <1>2 DEF Reservations
    <3>2. size[w] <= LargestChunk(args)
      BY <1>3, <1>5
    <3>3. LargestChunk(args) * (Cardinality(Finished) + 1) + LargestChunk(args)
            = LargestChunk(args) * (Cardinality(Finished') + 1)
      BY <1>5, <1>6, <2>3, OneChunkMore
    <3> QED
      BY <1>4, <1>5, <1>6, <2>3, <3>1, <3>2, <3>3
  <2>5. Reservations'
    BY <1>1, <1>2, <1>4, <1>5, <2>1, <2>2, <2>4
       DEF Reservations, TypeOK, AtBarrier, LargestChunk, NumTasks, AtLeast
  <2>6. \A v \in Workers : \A t : Holds(v, t)' = Holds(v, t)
    BY <1>1, <2>1 DEF Holds, TypeOK
  <2>7. \A t \in Tasks : Reserved(t)' = Reserved(t) /\ Held(t)' = Held(t)
    <3>1. \A t \in Tasks : Held(t)' = Held(t)
      BY <2>6 DEF Held
    <3>2. args' = args /\ my_begin = args[1] + num_reserved
          /\ args[2] <= args[1] + num_reserved /\ num_reserved < num_reserved'
      BY <1>1, <1>4, <1>5, <2>2
    <3>3. ASSUME NEW t \in Tasks PROVE Reserved(t)' <=> Reserved(t)
      <4>1. t \in Int /\ num_reserved \in Int /\ num_reserved' \in Int
        BY <1>4, <1>5, ConstantsAssumption
      <4>2. t < args[2] => t < args[1] + num_reserved /\ t < args[1] + num_reserved'
        BY <4>1, <1>5, <3>2
      <4> QED
        BY <3>2, <4>2 DEF Reserved
    <3> QED
      BY <3>1, <3>3 DEF Reserved
  <2>8. Chunks'
    <3>1. RunOrHeld'
      BY <1>1, <1>2, <2>7 DEF Chunks, RunOrHeld
    <3>2. ChunksDisjoint'
      BY <1>2, <2>6 DEF Chunks, ChunksDisjoint
    <3>3. ChunkBounds'
      BY <1>1, <1>2, <1>4, <1>5, <2>1 DEF Chunks, ChunkBounds, TypeOK
    <3> QED
      BY <3>1, <3>2, <3>3 DEF Chunks
  <2> QED
    BY <1>7, <2>5, <2>8 DEF Once
<1>10. CASE my_begin < my_end
  <2>1. worker' = [worker EXCEPT ![w] = "tasks"]
        /\ task' = [task EXCEPT ![w] = my_begin]
        /\ stop' = [stop EXCEPT ![w] = my_end]
        /\ UNCHANGED <<cmd, size>>
    BY <1>3, <1>5, <1>10 DEF Reserve, ChunkEnd, AtMost
  <2>2. my_begin < args[2] /\ my_end <= args[2] /\ my_end <= my_begin + size[w]
        /\ (my_end = args[2] \/ my_end = my_begin + size[w])
    BY <1>5, <1>10 DEF AtMost
  <2>3. Finished' = Finished
    <3>1. Finished' = Finished \ {w}
      BY <2>1, FinishedUpdate
    <3> QED
      BY <1>6, <3>1
  <2>4. num_reserved' <= NumTasks(args) - 1
                + LargestChunk(args) * (Cardinality(Finished) + 1)
    <3>1. LargestChunk(args) * 1 <= LargestChunk(args) * (Cardinality(Finished) + 1)
      BY <1>5, <1>6, SMTT(30)
    <3>2. size[w] <= LargestChunk(args)
      BY <1>3, <1>5
    <3> DEFINE x == LargestChunk(args) * (Cardinality(Finished) + 1)
    <3>3. LargestChunk(args) <= x /\ x \in Int
      BY <1>5, <1>6, <3>1
    <3> HIDE DEF x
    <3>4. num_reserved + size[w] <= args[2] - args[1] - 1 + x
      BY <1>5, <2>2, <3>2, <3>3
    <3> QED
      BY <1>4, <1>5, <3>4 DEF x
  <2>5. Reservations'
    BY <1>1, <1>2, <1>4, <1>5, <2>1, <2>3, <2>4
       DEF Reservations, TypeOK, AtBarrier, LargestChunk, NumTasks, AtLeast
  <2>6. \A v \in Workers \ {w} : \A t : Holds(v, t)' = Holds(v, t)
    BY <2>1 DEF Holds, TypeOK
  <2>7. \A t : Holds(w, t)' = (my_begin <= t /\ t < my_end) /\ ~Holds(w, t)
    BY <1>1, <2>1 DEF Holds, TypeOK
  <2>8. \A t : Held(t)' = (Held(t) \/ (my_begin <= t /\ t < my_end))
    BY <2>6, <2>7 DEF Held
  <2>9. \A t \in Tasks :
            Reserved(t)' = (Reserved(t) \/ (my_begin <= t /\ t < my_end))
    <3> SUFFICES ASSUME NEW t \in Tasks
                 PROVE  Reserved(t)' <=> (Reserved(t) \/ (my_begin <= t /\ t < my_end))
      BY DEF Reserved
    <3>1. t \in Int
      BY ConstantsAssumption
    <3>2. Reserved(t)' <=> args[1] <= t /\ t < args[2] /\ t < my_begin + size[w]
      BY <1>1, <1>4, <1>5, <3>1 DEF Reserved
    <3>3. Reserved(t) <=> args[1] <= t /\ t < args[2] /\ t < my_begin
      BY DEF Reserved
    <3> QED
      BY <1>5, <1>8, <2>2, <3>1, <3>2, <3>3
  <2>10. \A v \in Workers, t \in Tasks : Holds(v, t) => t < my_begin
    <3> SUFFICES ASSUME NEW v \in Workers, NEW t \in Tasks, Holds(v, t)
                 PROVE  t < my_begin
      OBVIOUS
    <3>1. t < stop[v] /\ stop[v] <= my_begin
      BY <1>2 DEF Chunks, ChunkBounds, Holds
    <3>2. t \in Int /\ stop[v] \in Int
      BY ConstantsAssumption DEF TypeOK
    <3> QED
      BY <1>8, <3>1, <3>2
  <2>11. ChunkBounds'
    BY <1>1, <1>2, <1>4, <1>5, <1>10, <2>1, <2>2 DEF Chunks, ChunkBounds, TypeOK
  <2>12. ChunksDisjoint'
    <3>1. \A t \in Tasks : Holds(w, t)' => my_begin <= t
      BY <2>7
    <3>2. \A v \in Workers \ {w}, t \in Tasks : Holds(v, t)' => ~(my_begin <= t)
      BY <1>5, <2>6, <2>10, ConstantsAssumption
    <3>3. \A v, u \in Workers \ {w} : \A t \in Tasks :
                Holds(v, t)' /\ Holds(u, t)' => v = u
      BY <1>2, <2>6 DEF Chunks, ChunksDisjoint
    <3> QED
      BY <3>1, <3>2, <3>3 DEF ChunksDisjoint
  <2>13. RunOrHeld'
    <3>1. \A t \in Tasks : my_begin <= t => ~Reserved(t)
      BY <1>5, ConstantsAssumption DEF Reserved
    <3>2. \A t \in Tasks : (Reserved(t)' /\ ~Held(t)') = (Reserved(t) /\ ~Held(t))
      BY <2>8, <2>9, <3>1
    <3> QED
      BY <1>1, <1>2, <3>2 DEF Chunks, RunOrHeld
  <2> QED
    BY <1>7, <2>5, <2>11, <2>12, <2>13 DEF Once, Chunks
<1> QED
  BY <1>9, <1>10, <1>8

(* A call of func turns one held number into one that was run.             *)
LEMMA RunTaskStep ==
    ASSUME TypeOK, Handshake, Once, NEW w \in Workers, RunTask(w)
    PROVE  Once'
<1> PICK n \in Nat : n = task[w]
  BY DEF TypeOK
<1> DEFINE s == IF n + 1 < stop[w] THEN "tasks" ELSE "load"
<1>1. /\ worker[w] = "tasks"
      /\ UNCHANGED <<main, op, args, command, num_reserved, cmd, size, stop>>
      /\ worker' = [worker EXCEPT ![w] = s]
      /\ task' = [task EXCEPT ![w] = n + 1]
      /\ ran' = [ran EXCEPT ![n] = @ + 1]
  BY DEF RunTask, mainVars, sharedVars
<1>2. InRun /\ AtBarrier /\ op = "run" /\ Reservations /\ Chunks
  BY <1>1, AtWork DEF Once
<1>3. args[1] \in Nat /\ args[2] \in Nat /\ args[2] < Word
      /\ n \in Nat /\ stop[w] \in Nat /\ num_reserved \in Nat
  BY CommandIsPair DEF TypeOK
<1>4. args[1] <= n /\ n < stop[w] /\ stop[w] <= args[2]
      /\ stop[w] <= args[1] + num_reserved
  BY <1>1, <1>2 DEF Chunks, ChunkBounds
<1>5. n \in Tasks /\ Holds(w, n) /\ Reserved(n)
  BY <1>1, <1>3, <1>4, ConstantsAssumption DEF Holds, Reserved
<1>6. RanOnce'
  BY <1>1, <1>2 DEF RanOnce, AtBarrier
<1>7. Finished' = Finished
  <2>1. w \notin Finished /\ s \notin {"enter", "waiting"}
    BY <1>1 DEF Finished
  <2>2. Finished' = Finished \ {w}
    BY <1>1, <2>1, FinishedUpdate
  <2> QED
    BY <2>1, <2>2
<1>8. Reservations'
  BY <1>1, <1>2, <1>7
     DEF Reservations, TypeOK, AtBarrier, LargestChunk, NumTasks, AtLeast
<1>9. \A v \in Workers \ {w} : \A t : Holds(v, t)' = Holds(v, t)
  BY <1>1 DEF Holds, TypeOK
<1>10. \A t \in Tasks : Holds(w, t)' <=> Holds(w, t) /\ t # n
  <2> SUFFICES ASSUME NEW t \in Tasks
               PROVE  Holds(w, t)' <=> Holds(w, t) /\ t # n
    OBVIOUS
  <2>1. t \in Int
    BY ConstantsAssumption
  <2>2. Holds(w, t)' <=> s = "tasks" /\ n + 1 <= t /\ t < stop[w]
    BY <1>1 DEF Holds, TypeOK
  <2>3. Holds(w, t) <=> n <= t /\ t < stop[w]
    BY <1>1 DEF Holds
  <2> QED
    BY <1>3, <2>1, <2>2, <2>3
<1>11. \A t \in Tasks : Held(t)' <=> Held(t) /\ t # n
  <2>1. \A v \in Workers \ {w} : ~Holds(v, n)
    BY <1>2, <1>5 DEF Chunks, ChunksDisjoint
  <2> QED
    BY <1>5, <1>9, <1>10, <2>1 DEF Held
<1>12. \A t \in Tasks : Reserved(t)' <=> Reserved(t)
  BY <1>1 DEF Reserved
<1>13. RunOrHeld'
  <2>1. Held(n)
    BY <1>5 DEF Held
  <2>2. ran[n] = 0
    BY <1>2, <1>5, <2>1 DEF Chunks, RunOrHeld
  <2>3. ran'[n] = 1 /\ \A t \in Tasks \ {n} : ran'[t] = ran[t]
    BY <1>1, <1>5, <2>2 DEF TypeOK
  <2>4. \A t \in Tasks \ {n} : (Reserved(t)' /\ ~Held(t)') <=> (Reserved(t) /\ ~Held(t))
    BY <1>11, <1>12
  <2>5. Reserved(n)' /\ ~Held(n)'
    BY <1>5, <1>11, <1>12
  <2> QED
    BY <1>2, <2>3, <2>4, <2>5 DEF Chunks, RunOrHeld
<1>14. ChunksDisjoint'
  BY <1>2, <1>9, <1>10 DEF Chunks, ChunksDisjoint
<1>15. ChunkBounds'
  BY <1>1, <1>2, <1>3, <1>4 DEF Chunks, ChunkBounds, TypeOK
<1> QED
  BY <1>6, <1>8, <1>13, <1>14, <1>15 DEF Once, Chunks

(* The other steps of a worker neither reserve nor run anything.           *)
LEMMA WorkerOnceStep ==
    ASSUME NoWrap, TypeOK, Handshake, Once, NEW w \in Workers,
           WorkerStep(w) \/ Reenter(w)
    PROVE  Once'
<1> USE DEF mainVars, workerVars, sharedVars
<1>1. CASE Report(w)
  <2>1. /\ worker[w] = "enter" /\ worker' = [worker EXCEPT ![w] = "waiting"]
        /\ UNCHANGED <<op, args, cmd, size, task, stop, command, num_reserved, ran>>
        /\ main' = main \/ (main = "cvwait" /\ main' = "barrier")
    BY <1>1 DEF Report
  <2>2. Finished' = Finished
    BY <2>1, FinishedUpdate DEF Finished
  <2>3. main \in {"spawn", "barrier", "cvwait"}
    BY <2>1 DEF Handshake, Quiet, TypeOK, MainStates
  <2>4. RanOnce'
    BY <2>1, <2>3 DEF RanOnce
  <2>5. InRun' => InRun /\ AtBarrier
    BY <2>1, <2>3 DEF InRun, AtBarrier, Handshake
  <2>6. ASSUME InRun' PROVE Reservations' /\ Chunks'
    <3>1. Reservations'
      BY <2>1, <2>2, <2>5, <2>6
         DEF Once, Reservations, TypeOK, AtBarrier, LargestChunk, NumTasks, AtLeast
    <3> QED
      BY <2>1, <2>5, <2>6, <3>1, SameChunks DEF Once
  <2> QED
    BY <2>4, <2>6 DEF Once
<1>2. CASE ReadCommand(w)
  <2>1. worker[w] = "woken" /\ UNCHANGED <<main, op, args, size, task, stop, command,
                                           num_reserved, ran>>
    BY <1>2 DEF ReadCommand
  <2>2. AtBarrier \/ main = "join"
    BY <2>1 DEF Handshake, Quiet, AtBarrier, TypeOK, MainStates
  <2>3. RanOnce'
    BY <2>1, <2>2 DEF RanOnce, AtBarrier
  <2>4. ASSUME InRun' PROVE Reservations' /\ Chunks'
    <3>1. InRun /\ AtBarrier /\ Reservations /\ Chunks
      BY <2>1, <2>2, <2>4 DEF InRun, AtBarrier, Once
    <3>2. command = args /\ command \notin {kWorkerWait, kWorkerOnce, kWorkerExit}
      BY <3>1 DEF Reservations, Handshake, InRun
    <3>3. worker' = [worker EXCEPT ![w] = "load"] /\ cmd' = [cmd EXCEPT ![w] = args]
      BY <1>2, <3>2 DEF ReadCommand
    <3>4. Finished' = Finished
      BY <2>1, <3>3, FinishedUpdate DEF Finished
    <3>5. Reservations'
      BY <2>1, <3>1, <3>3, <3>4
         DEF Reservations, TypeOK, AtBarrier, LargestChunk, NumTasks, AtLeast
    <3> QED
      BY <2>1, <3>1, <3>3, <3>5, SameChunks
  <2> QED
    BY <2>3, <2>4 DEF Once
<1>3. CASE CallOnce(w)
  <2>1. op # "run" /\ main \in {"barrier", "cvwait"}
    BY <1>3 DEF CallOnce, Handshake, Quiet, AtBarrier, TypeOK, MainStates
  <2> QED
    BY <1>3, <2>1 DEF CallOnce, Once, InRun, RanOnce
<1>4. CASE LoadReserved(w)
  <2>1. /\ worker[w] = "load" /\ worker' = [worker EXCEPT ![w] = "reserve"]
        /\ UNCHANGED <<main, op, args, cmd, task, stop, command, num_reserved, ran>>
    BY <1>4 DEF LoadReserved
  <2>2. InRun /\ AtBarrier /\ Reservations /\ Chunks
    BY <2>1, AtWork DEF Once
  <2>3. size' = [size EXCEPT ![w] = size'[w]] /\ size'[w] \in 1 .. LargestChunk(args)
    BY <1>4, SizeInBounds
  <2>4. Finished' = Finished
    BY <2>1, FinishedUpdate DEF Finished
  <2>5. Reservations'
    BY <2>1, <2>2, <2>3, <2>4
       DEF Reservations, TypeOK, AtBarrier, LargestChunk, NumTasks, AtLeast
  <2>6. RanOnce'
    BY <2>1, <2>2 DEF RanOnce, AtBarrier
  <2> QED
    BY <2>1, <2>2, <2>5, <2>6, SameChunks DEF Once
<1>5. CASE Reserve(w)
  BY <1>5, ReserveStep
<1>6. CASE RunTask(w)
  BY <1>6, RunTaskStep
<1>7. CASE Reenter(w)
  BY <1>7 DEF Reenter, Once, InRun, AtBarrier, RanOnce, Reservations, Finished, Chunks,
              ChunkBounds, ChunksDisjoint, RunOrHeld, Reserved, Held, Holds
<1> QED
  BY <1>1, <1>2, <1>3, <1>4, <1>5, <1>6, <1>7 DEF WorkerStep

-----------------------------------------------------------------------------
LEMMA InitOnce == Init => Once
  BY DEF Init, Once, InRun, AtBarrier, RanOnce

(* The steps of the calling thread.                                        *)
LEMMA MainOnceStep ==
    ASSUME NoWrap, TypeOK, Handshake, Once, MainStep \/ MainChoice \/ SequentialReenter
    PROVE  Once'
<1> USE DEF mainVars, workerVars, sharedVars
<1>1. CASE SpawnWorker \/ Spawned
  BY <1>1 DEF SpawnWorker, Spawned, Handshake, Once, InRun, AtBarrier, RanOnce
<1>2. CASE NotifyAll
  <2>1. /\ main = "notify" /\ main' \in {"join", "barrier"}
        /\ UNCHANGED <<op, args, cmd, size, task, stop, command, num_reserved, ran>>
    BY <1>2 DEF NotifyAll
  <2>2. worker' = [w \in Workers |-> "woken"]
    BY <1>2 DEF NotifyAll, Handshake, Quiet
  <2>3. ASSUME InRun' PROVE Reservations' /\ Chunks'
    <3>1. InRun /\ Reservations /\ Chunks /\ num_reserved = 0
      BY <2>1, <2>3 DEF InRun, AtBarrier, Once, Reservations
    <3>2. Finished' = {}
      BY <2>2 DEF Finished
    <3>3. Cardinality(Finished') = 0
      BY <3>2, FS_EmptySet
    <3>4. NumTasks(args) \in Nat \ {0} /\ LargestChunk(args) \in Nat
      BY <3>1, LargestChunkType DEF Reservations
    <3>5. LargestChunk(args) * (0 + 1) = LargestChunk(args)
      BY <3>4
    <3>6. num_reserved <= NumTasks(args) - 1 + LargestChunk(args) * (0 + 1)
      BY <3>1, <3>4, <3>5
    <3>7. Reservations'
      BY <2>1, <2>2, <3>1, <3>2, <3>3, <3>6
         DEF Reservations, AtBarrier, LargestChunk, NumTasks, AtLeast
    <3>8. \A w \in Workers : \A t : ~Holds(w, t) /\ ~Holds(w, t)'
      BY <2>1, <2>2 DEF Holds, Handshake, Quiet
    <3>9. Chunks'
      BY <2>1, <2>2, <3>1, <3>8
         DEF Chunks, ChunkBounds, ChunksDisjoint, RunOrHeld, Reserved, Held
    <3> QED
      BY <3>7, <3>9
  <2>4. RanOnce'
    BY <2>1 DEF RanOnce
  <2> QED
    BY <2>3, <2>4 DEF Once
<1>3. CASE WorkersReadyBarrier
  <2>1. /\ main = "barrier"
        /\ UNCHANGED <<op, args, worker, cmd, size, task, stop, num_reserved, ran>>
    BY <1>3 DEF WorkersReadyBarrier
  <2>2. CASE AllReady
    <3>1. Waiting = Workers
      BY <2>1, <2>2, WaitingFinite DEF AllReady, Handshake, AtBarrier
    <3>2. main' = (CASE op = "ctor" -> "each" [] op = "once" -> "idle"
                     [] op = "run" -> "finish")
      BY <1>3, <2>2 DEF WorkersReadyBarrier
    <3>3. op \in {"ctor", "once", "run"}
      BY <2>1 DEF Handshake, AtBarrier
    <3>4. ~InRun'
      BY <2>1, <3>2, <3>3 DEF InRun, AtBarrier
    <3>5. ASSUME op = "run"
          PROVE  \A t \in Tasks :
                    ran[t] = IF args[1] <= t /\ t < args[2] THEN 1 ELSE 0
      <4>1. InRun /\ AtBarrier /\ Reservations /\ Chunks
        BY <2>1, <3>5 DEF InRun, AtBarrier, Once
      <4>2. 0 \in Workers /\ NumWorkers > 0
        BY <4>1, ConstantsAssumption DEF Reservations, Workers
      <4>3. Finished # {}
        BY <3>1, <4>2 DEF Waiting, Finished
      <4>4. num_reserved >= args[2] - args[1]
        BY <4>1, <4>3 DEF Reservations, NumTasks
      <4>5. \A t : ~Held(t)
        BY <3>1 DEF Held, Holds, Waiting
      <4>6. args[1] \in Nat /\ args[2] \in Nat /\ num_reserved \in Nat
        BY CommandIsPair DEF TypeOK
      <4>7. \A t \in Tasks : Reserved(t) <=> args[1] <= t /\ t < args[2]
        BY <4>4, <4>6, ConstantsAssumption DEF Reserved
      <4> QED
        BY <4>1, <4>5, <4>7 DEF Chunks, RunOrHeld
    <3>6. RanOnce'
      BY <2>1, <3>2, <3>3, <3>5 DEF RanOnce
    <3> QED
      BY <3>4, <3>6 DEF Once
  <2>3. CASE ~AllReady
    BY <1>3, <2>1, <2>3
       DEF WorkersReadyBarrier, Once, InRun, AtBarrier, RanOnce, Reservations, Finished,
           Chunks, ChunkBounds, ChunksDisjoint, RunOrHeld, Reserved, Held, Holds
  <2> QED
    BY <2>2, <2>3
<1>4. CASE RunOnEachThread \/ RunRejected \/ Destroy \/ Join
  BY <1>4 DEF RunOnEachThread, RunRejected, Destroy, Join, StartWorkers, Once, InRun,
              AtBarrier, RanOnce
<1>5. CASE RunAccepted
  <2>1. PICK r \in Ranges : RunAccepted!4!(r)
    BY <1>5 DEF RunAccepted
  <2>2. /\ main = "idle" /\ ran' = NothingRan /\ args' = r /\ r[1] < r[2]
        /\ UNCHANGED <<worker, cmd, size, task, stop, workers_ready>>
    BY <1>5, <2>1 DEF RunAccepted
  <2>3. \A t \in Tasks : ran'[t] = 0
    BY <2>2 DEF NothingRan
  <2>4. CASE NumWorkers = 0
    <3>1. main' = "sequential" /\ seq_task' = r[1]
      BY <2>1, <2>4
    <3>2. r[1] \in Nat /\ r[2] \in Nat /\ Tasks \subseteq Nat
      BY Values, CommandIsPair, ConstantsAssumption
    <3>3. RanOnce'
      BY <2>2, <2>3, <3>1, <3>2 DEF RanOnce
    <3> QED
      BY <3>1, <3>3 DEF Once, InRun, AtBarrier
  <2>5. CASE NumWorkers # 0
    <3>1. main' = "notify" /\ command' = r /\ num_reserved' = 0
      BY <2>1, <2>5 DEF StartWorkers, ReservedCleared
    <3>2. \A w \in Workers : worker'[w] = "waiting"
      BY <2>2 DEF Handshake, Quiet
    <3>3. NumWorkers > 0
      BY <2>5, ConstantsAssumption
    <3>4. Reservations'
      BY <2>2, <3>1, <3>2, <3>3 DEF Reservations, AtBarrier
    <3>5. \A w \in Workers : \A t : ~Holds(w, t)'
      BY <3>2 DEF Holds
    <3>6. r[1] \in Nat
      BY Values, CommandIsPair
    <3>7. \A t \in Tasks : ~Reserved(t)'
      BY <2>2, <3>1, <3>6, ConstantsAssumption DEF Reserved
    <3>8. Chunks'
      BY <2>3, <3>2, <3>5, <3>7 DEF Chunks, ChunkBounds, ChunksDisjoint, RunOrHeld
    <3>9. RanOnce'
      BY <3>1 DEF RanOnce
    <3> QED
      BY <3>4, <3>8, <3>9 DEF Once
  <2> QED
    BY <2>4, <2>5
<1>6. CASE SequentialTask
  <2>1. /\ main = "sequential" /\ seq_task < args[2] /\ seq_task' = seq_task + 1
        /\ ran' = [ran EXCEPT ![seq_task] = @ + 1] /\ UNCHANGED <<main, op, args>>
    BY <1>6 DEF SequentialTask
  <2>2. /\ args[1] <= seq_task
        /\ \A t \in Tasks : ran[t] = IF args[1] <= t /\ t < seq_task THEN 1 ELSE 0
    BY <2>1 DEF Once, RanOnce
  <2>3. seq_task \in Tasks /\ args[1] \in Nat /\ args[2] \in Nat /\ Tasks \subseteq Nat
    BY <2>1, CommandIsPair, ConstantsAssumption DEF TypeOK
  <2>4. ran'[seq_task] = 1 /\ \A t \in Tasks \ {seq_task} : ran'[t] = ran[t]
    BY <2>1, <2>2, <2>3 DEF TypeOK
  <2>5. ASSUME NEW t \in Tasks
        PROVE  ran'[t] = IF args[1] <= t /\ t < seq_task + 1 THEN 1 ELSE 0
    BY <2>2, <2>3, <2>4
  <2>6. RanOnce'
    BY <2>1, <2>2, <2>3, <2>5 DEF RanOnce
  <2> QED
    BY <2>1, <2>6 DEF Once, InRun, AtBarrier
<1>7. CASE SequentialReturn
  <2>1. /\ main = "sequential" /\ seq_task >= args[2] /\ main' = "idle"
        /\ UNCHANGED <<op, args, ran>>
    BY <1>7 DEF SequentialReturn
  <2>2. args[2] \in Nat
    BY CommandIsPair DEF TypeOK
  <2>3. seq_task = args[2]
    BY <2>1, <2>2 DEF Once, RanOnce, TypeOK
  <2>4. RanOnce'
    BY <2>1, <2>3 DEF Once, RanOnce
  <2> QED
    BY <2>1, <2>4 DEF Once, InRun, AtBarrier
<1>10. CASE SequentialReenter
  BY <1>10 DEF SequentialReenter, IndexKept, Once, InRun, AtBarrier, RanOnce
<1>8. CASE RunFinish
  BY <1>8 DEF RunFinish, Once, InRun, AtBarrier, RanOnce
<1>9. CASE MainSpuriousWakeup
  BY <1>9 DEF MainSpuriousWakeup, Once, InRun, AtBarrier, RanOnce, Reservations, Finished,
              Chunks, ChunkBounds, ChunksDisjoint, RunOrHeld, Reserved, Held, Holds
<1> QED
  BY <1>1, <1>2, <1>3, <1>4, <1>5, <1>6, <1>7, <1>8, <1>9, <1>10 DEF MainStep, MainChoice

LEMMA OnceStep ==
    ASSUME NoWrap, TypeOK, Handshake, Once, [Next]_vars
    PROVE  Once'
<1>1. CASE MainStep \/ MainChoice \/ SequentialReenter
  BY <1>1, MainOnceStep
<1>2. CASE \E w \in Workers : WorkerStep(w) \/ Reenter(w)
  BY <1>2, WorkerOnceStep
<1>3. CASE UNCHANGED vars
  BY <1>3 DEF vars, mainVars, workerVars, sharedVars, Once, InRun, AtBarrier, RanOnce,
              Reservations, Finished, Chunks, ChunkBounds, ChunksDisjoint, RunOrHeld,
              Reserved, Held, Holds
<1> QED
  BY <1>1, <1>2, <1>3 DEF Next, Terminated

(* parallel_runner.h: whatever the interleaving of any number of workers,  *)
(* and however stale the counts their chunk sizes come from, a Run that    *)
(* has returned success has called func once for every number of its range *)
(* and for no other, unless a range may end too close to 2^32.             *)
THEOREM CalledOnce ==
    ASSUME NoWrap
    PROVE  Spec => []CalledOncePerNumber
<1>1. TypeOK /\ Handshake /\ Once /\ [Next]_vars => (TypeOK /\ Handshake /\ Once)'
  BY TypeStep, HandshakeStep, OnceStep
<1>2. TypeOK /\ Handshake /\ Once => CalledOncePerNumber
  BY DEF Once, RanOnce, CalledOncePerNumber
<1>3. Init => TypeOK /\ Handshake /\ Once
  BY InitHandshake, InitOnce
<1> QED
  BY <1>1, <1>2, <1>3, PTL DEF Spec

-----------------------------------------------------------------------------
(***************************************************************************)
(* depth_ and what a Run reports of its tasks' re-entries.                 *)
(***************************************************************************)
LEMMA ReentryStep ==
    ASSUME TypeOK, Handshake, Reentry, [Next]_vars
    PROVE  Reentry'
<1> USE DEF Reentry, mainVars, workerVars, sharedVars
<1>1. CASE SpawnWorker \/ Spawned \/ NotifyAll \/ MainSpuriousWakeup
  BY <1>1 DEF SpawnWorker, Spawned, NotifyAll, MainSpuriousWakeup, AtBarrier, Handshake
<1>2. CASE WorkersReadyBarrier
  <2>1. main = "barrier" /\ UNCHANGED <<op, ret, depth, reentered>>
    BY <1>2 DEF WorkersReadyBarrier
  <2>2. main' \in {"each", "idle", "finish", "cvwait"} /\ (op = "run" => main' # "idle")
    BY <1>2, <2>1 DEF WorkersReadyBarrier, Handshake, AtBarrier
  <2> QED
    BY <2>1, <2>2 DEF AtBarrier
<1>3. CASE \/ RunOnEachThread \/ SequentialTask \/ SequentialReenter \/ SequentialReturn
           \/ Join \/ RunRejected \/ Destroy
  BY <1>3 DEF RunOnEachThread, StartWorkers, SequentialTask, SequentialReenter,
              SequentialReturn, Join, RunRejected, Destroy, AtBarrier, Handshake
<1>4. CASE RunAccepted
  BY <1>4 DEF RunAccepted
<1>5. CASE RunFinish
  <2>1. main' = "idle" /\ UNCHANGED <<op, reentered>>
        /\ ret' = (IF depth = 1 THEN 0 ELSE -1)
    BY <1>5 DEF RunFinish, ResultOfDepth
  <2>2. reentered => depth >= 2
    BY <1>5 DEF RunFinish, Handshake
  <2>3. reentered => ret' = -1
    BY <2>1, <2>2 DEF TypeOK
  <2> QED
    BY <2>1, <2>3 DEF AtBarrier
<1>6. ASSUME NEW w \in Workers, WorkerStep(w)
      PROVE  Reentry'
  <2>1. UNCHANGED <<op, ret, depth, reentered>> /\ (main' = main \/ (AtBarrier /\ AtBarrier'))
    BY <1>6 DEF WorkerStep, Report, ReadCommand, CallOnce, LoadReserved, Reserve, RunTask,
                AtBarrier
  <2> QED
    BY <2>1 DEF AtBarrier
<1>7. ASSUME NEW w \in Workers, Reenter(w)
      PROVE  Reentry'
  <2>1. worker[w] = "tasks" /\ depth # 0 /\ depth' = depth + 1 /\ UNCHANGED <<main, op, ret>>
    BY <1>7 DEF Reenter
  <2>2. AtBarrier /\ depth' >= 2
    BY <2>1, AtWork DEF TypeOK
  <2> QED
    BY <2>1, <2>2 DEF AtBarrier
<1>8. CASE UNCHANGED vars
  BY <1>8 DEF vars, AtBarrier
<1> QED
  BY <1>1, <1>2, <1>3, <1>4, <1>5, <1>6, <1>7, <1>8
     DEF Next, MainStep, MainChoice, Terminated

LEMMA InitReentry == Init => Reentry
  BY DEF Init, Reentry, AtBarrier

(* depth_: however many tasks of a Run call the runner again, and whenever *)
(* they do, that Run does not report success.                              *)
THEOREM ReentriesReported == Spec => []ReentryReported
<1>1. /\ TypeOK /\ Handshake /\ Reentry /\ [Next]_vars
            => (TypeOK /\ Handshake /\ Reentry)'
  BY TypeStep, HandshakeStep, ReentryStep
<1>2. Reentry => ReentryReported
  BY DEF Reentry, ReentryReported
<1> QED
  BY <1>1, <1>2, InitHandshake, InitReentry, PTL DEF Spec

-----------------------------------------------------------------------------
(***************************************************************************)
(* The pool implements ParallelRunner: every call it accepts, by Run or    *)
(* RunOnEachThread, calls func once for every number of its range before   *)
(* it returns, and never for any other number.                             *)
(***************************************************************************)

LEMMA WorkersAreTasks == Workers \subseteq Tasks
  BY ConstantsAssumption DEF Workers

LEMMA InitEachOnce == Init => EachOnce
  BY DEF Init, EachOnce, AtBarrier

LEMMA EachOnceStep ==
    ASSUME TypeOK, Handshake, EachOnce, [Next]_vars
    PROVE  EachOnce'
<1> USE DEF mainVars, workerVars, sharedVars
<1>1. CASE NotifyAll
  <2>1. worker' = [w \in Workers |-> "woken"]
    BY <1>1 DEF NotifyAll, Handshake, Quiet
  <2>2. Finished' = {}
    BY <2>1 DEF Finished
  <2> QED
    BY <1>1, <2>2 DEF NotifyAll, EachOnce, AtBarrier
<1>2. CASE RunOnEachThread
  BY <1>2 DEF RunOnEachThread, StartWorkers, EachOnce, AtBarrier, NothingRan
<1>3. CASE \/ SpawnWorker \/ Spawned \/ SequentialTask \/ SequentialReenter \/ SequentialReturn
           \/ RunFinish \/ Join \/ RunRejected \/ RunAccepted \/ Destroy
  BY <1>3 DEF SpawnWorker, Spawned, SequentialTask, SequentialReenter, SequentialReturn, RunFinish,
              Join, RunRejected, RunAccepted, Destroy, StartWorkers, EachOnce, AtBarrier, Handshake
<1>4. CASE WorkersReadyBarrier \/ MainSpuriousWakeup \/ UNCHANGED vars
  BY <1>4 DEF WorkersReadyBarrier, MainSpuriousWakeup, vars, EachOnce, AtBarrier,
              Finished, Handshake
<1>5. ASSUME NEW w \in Workers, WorkerStep(w) \/ Reenter(w)
      PROVE  EachOnce'
  <2>1. CASE Report(w)
    <3>1. worker[w] = "enter" /\ worker' = [worker EXCEPT ![w] = "waiting"]
      BY <2>1 DEF Report
    <3>2. Finished' = Finished
      BY <3>1, FinishedUpdate DEF Finished
    <3>3. main \in {"spawn", "barrier", "cvwait"}
      BY <3>1 DEF Handshake, Quiet, AtBarrier, TypeOK, MainStates
    <3> QED
      BY <2>1, <3>2, <3>3 DEF Report, EachOnce, AtBarrier, Handshake
  <2>2. CASE ReadCommand(w)
    <3>1. worker[w] = "woken" /\ UNCHANGED <<main, op, args, ran>>
      BY <2>2 DEF ReadCommand
    <3>2. AtBarrier \/ main = "join"
      BY <3>1 DEF Handshake, Quiet, AtBarrier, TypeOK, MainStates
    <3>3. ASSUME op = "once", AtBarrier PROVE Finished' = Finished
      <4>1. worker' = [worker EXCEPT ![w] = "once"]
        BY <2>2, <3>3, Values DEF ReadCommand, Handshake
      <4> QED
        BY <3>1, <4>1, FinishedUpdate DEF Finished
    <3> QED
      BY <3>1, <3>2, <3>3 DEF EachOnce, AtBarrier
  <2>3. CASE CallOnce(w)
    <3>1. worker[w] = "once" /\ worker' = [worker EXCEPT ![w] = "enter"]
          /\ ran' = [ran EXCEPT ![w] = @ + 1] /\ UNCHANGED <<main, op, args>>
      BY <2>3 DEF CallOnce
    <3>2. AtBarrier /\ op = "once"
      BY <3>1 DEF Handshake, Quiet, AtBarrier, TypeOK, MainStates
    <3>3. Finished' = Finished \cup {w} /\ w \notin Finished
      BY <3>1, FinishedUpdate DEF Finished
    <3>4. w \in Tasks /\ ran[w] = 0
      BY <3>2, <3>3, WorkersAreTasks DEF EachOnce
    <3>5. ran'[w] = 1 /\ \A t \in Tasks \ {w} : ran'[t] = ran[t]
      BY <3>1, <3>4 DEF TypeOK
    <3> QED
      BY <3>1, <3>2, <3>3, <3>5 DEF EachOnce, AtBarrier
  <2>4. CASE LoadReserved(w) \/ Reserve(w) \/ RunTask(w)
    <3>1. op = "run" /\ op' = op
      BY <2>4, AtWork DEF LoadReserved, Reserve, RunTask
    <3> QED
      BY <3>1 DEF EachOnce
  <2>5. CASE Reenter(w)
    BY <2>5 DEF Reenter, EachOnce, AtBarrier, Finished
  <2> QED
    BY <1>5, <2>1, <2>2, <2>3, <2>4, <2>5 DEF WorkerStep
<1> QED
  BY <1>1, <1>2, <1>3, <1>4, <1>5 DEF Next, MainStep, MainChoice, Terminated

(* The inductive invariant that TLC checks, for every number of workers.   *)
THEOREM PoolInvariant == Spec => []IInv
<1>1. Init => IInv
  BY InitHandshake, InitEachOnce, InitOnce, InitReentry DEF IInv
<1>2. IInv /\ [Next]_vars => IInv'
  BY TypeStep, HandshakeStep, EachOnceStep, OnceStep, ReentryStep DEF IInv, NoWrap
<1> QED
  BY <1>1, <1>2, PTL DEF Spec

-----------------------------------------------------------------------------
(* The refinement mapping of Contract.                                     *)
Calling == op \in {"once", "run"} /\ main \notin {"idle"}
InRange(n) == args[1] <= n /\ n < args[2]

LEMMA InitContract == Init => Contract!Init
  BY DEF Init, Contract!Init, NoRange, NothingRan

(* A call is accepted.                                                     *)
LEMMA AcceptStep ==
    ASSUME TypeOK, Handshake, RunOnEachThread \/ RunAccepted
    PROVE  Contract!Accept
<1>1. CASE RunOnEachThread
  <2>1. ~Calling
    BY <1>1 DEF RunOnEachThread, Handshake, Calling
  <2>2. args' \in Nat \X Nat /\ ran' = [t \in Tasks |-> 0] /\ Calling'
    BY <1>1, ConstantsAssumption
       DEF RunOnEachThread, StartWorkers, NothingRan, Calling
  <2> QED
    BY <2>1, <2>2 DEF Contract!Accept, Calling
<1>2. CASE RunAccepted
  <2> PICK r \in Ranges : RunAccepted!4!(r)
    BY <1>2 DEF RunAccepted
  <2>1. ~Calling
    BY <1>2 DEF RunAccepted, Calling
  <2>2. args' = r /\ r \in Nat \X Nat
    BY ConstantsAssumption
  <2>3. ran' = [t \in Tasks |-> 0] /\ op' = "run" /\ main' \in {"sequential", "notify"}
    BY <1>2 DEF RunAccepted, StartWorkers, NothingRan
  <2> QED
    BY <2>1, <2>2, <2>3 DEF Contract!Accept, Calling
<1> QED
  BY <1>1, <1>2

(* A number is given to func, by a worker or by the sequential loop.       *)
LEMMA CallFuncStep ==
    ASSUME TypeOK, Handshake, EachOnce, Once,
           NEW n \in Tasks, Calling, InRange(n), ran[n] = 0,
           ran' = [ran EXCEPT ![n] = @ + 1], UNCHANGED <<main, op, args>>
    PROVE  Contract!CallFunc
<1>1. ran' = [ran EXCEPT ![n] = 1]
  BY DEF TypeOK
<1> QED
  BY <1>1 DEF Contract!CallFunc, Contract!InRange, InRange, Calling

LEMMA TaskCalled ==
    ASSUME TypeOK, Handshake, EachOnce, Once, NEW w \in Workers, RunTask(w)
    PROVE  Contract!CallFunc
<1>1. /\ worker[w] = "tasks" /\ UNCHANGED <<main, op, args>>
      /\ ran' = [ran EXCEPT ![task[w]] = @ + 1]
  BY DEF RunTask, mainVars
<1>2. InRun /\ AtBarrier /\ Chunks
  BY <1>1, AtWork DEF Once
<1>3. args[1] \in Nat /\ args[2] \in Nat /\ args[2] < Word
      /\ task[w] \in Nat /\ stop[w] \in Nat /\ num_reserved \in Nat
  BY CommandIsPair DEF TypeOK
<1>4. args[1] <= task[w] /\ task[w] < stop[w] /\ stop[w] <= args[2]
      /\ stop[w] <= args[1] + num_reserved
  BY <1>1, <1>2 DEF Chunks, ChunkBounds
<1>5. task[w] \in Tasks /\ InRange(task[w]) /\ Holds(w, task[w])
  BY <1>1, <1>3, <1>4, ConstantsAssumption DEF InRange, Holds
<1>6. ran[task[w]] = 0
  BY <1>2, <1>5 DEF Chunks, RunOrHeld, Held
<1>7. Calling
  BY <1>2 DEF InRun, AtBarrier, Calling
<1> QED
  BY <1>1, <1>5, <1>6, <1>7, CallFuncStep

LEMMA WorkerNumberCalled ==
    ASSUME TypeOK, Handshake, EachOnce, Once, NEW w \in Workers, CallOnce(w)
    PROVE  Contract!CallFunc
<1>1. worker[w] = "once" /\ UNCHANGED <<main, op, args>>
      /\ ran' = [ran EXCEPT ![w] = @ + 1]
  BY DEF CallOnce, mainVars
<1>2. AtBarrier /\ op = "once"
  BY <1>1 DEF Handshake, Quiet, AtBarrier, TypeOK, MainStates
<1>3. w \in Tasks /\ w \notin Finished
  BY <1>1, WorkersAreTasks DEF Finished
<1>4. ran[w] = 0
  BY <1>2, <1>3 DEF EachOnce
<1>5. InRange(w)
  BY <1>2, ConstantsAssumption DEF EachOnce, InRange, Workers
<1>6. Calling
  BY <1>2 DEF AtBarrier, Calling
<1> QED
  BY <1>1, <1>3, <1>4, <1>5, <1>6, CallFuncStep

LEMMA SequentialCalled ==
    ASSUME TypeOK, Handshake, EachOnce, Once, SequentialTask
    PROVE  Contract!CallFunc
<1>1. /\ main = "sequential" /\ seq_task < args[2] /\ UNCHANGED <<main, op, args>>
      /\ ran' = [ran EXCEPT ![seq_task] = @ + 1]
  BY DEF SequentialTask
<1>2. seq_task \in Tasks /\ InRange(seq_task)
  <2>1. args[1] <= seq_task
    BY <1>1 DEF Once, RanOnce
  <2>2. seq_task \in Tasks
    BY <1>1, CommandIsPair, ConstantsAssumption DEF TypeOK
  <2> QED
    BY <1>1, <2>1, <2>2 DEF InRange
<1>3. ran[seq_task] = 0
  BY <1>1, <1>2 DEF Once, RanOnce, TypeOK
<1>4. Calling
  BY <1>1 DEF Handshake, Calling
<1> QED
  BY <1>1, <1>2, <1>3, <1>4, CallFuncStep

(* A call returns, with nothing of its range left.                         *)
LEMMA ReturnStep ==
    ASSUME TypeOK, Handshake, EachOnce, Once,
           \/ RunFinish \/ SequentialReturn
           \/ WorkersReadyBarrier /\ AllReady /\ op = "once"
    PROVE  Contract!Return
<1>1. SUFFICES /\ Calling /\ ~Calling' /\ UNCHANGED <<args, ran>>
               /\ \A n \in Tasks : InRange(n) => ran[n] = 1
  BY DEF Contract!Return, Contract!InRange, InRange, Calling
<1>2. CASE RunFinish
  BY <1>2 DEF RunFinish, Once, RanOnce, Handshake, Calling, InRange
<1>3. CASE SequentialReturn
  <2>1. /\ main = "sequential" /\ seq_task >= args[2] /\ main' = "idle" /\ op = "run"
        /\ UNCHANGED <<op, args, ran>>
    BY <1>3 DEF SequentialReturn, Handshake
  <2>2. args[2] \in Nat
    BY CommandIsPair DEF TypeOK
  <2>3. seq_task = args[2]
    BY <2>1, <2>2 DEF Once, RanOnce, TypeOK
  <2> QED
    BY <2>1, <2>3 DEF Once, RanOnce, Calling, InRange
<1>4. CASE WorkersReadyBarrier /\ AllReady /\ op = "once"
  <2>1. main = "barrier" /\ main' = "idle" /\ UNCHANGED <<op, args, ran>>
    BY <1>4 DEF WorkersReadyBarrier
  <2>2. Waiting = Workers
    BY <1>4, <2>1, WaitingFinite DEF AllReady, Handshake, AtBarrier
  <2>3. \A n \in Tasks : InRange(n) => n \in Finished
    BY <1>4, <2>1, <2>2, ConstantsAssumption
       DEF EachOnce, AtBarrier, InRange, Waiting, Finished, Workers
  <2> QED
    BY <1>4, <2>1, <2>3 DEF EachOnce, AtBarrier, Calling
<1> QED
  BY <1>2, <1>3, <1>4

(* Everything else happens inside of the pool.                             *)
LEMMA InternalStep ==
    ASSUME TypeOK, Handshake,
           \/ SpawnWorker \/ Spawned \/ NotifyAll \/ Join \/ RunRejected \/ Destroy
           \/ MainSpuriousWakeup \/ SequentialReenter \/ UNCHANGED vars
           \/ WorkersReadyBarrier /\ ~(AllReady /\ op = "once")
           \/ \E w \in Workers : \/ Report(w) \/ ReadCommand(w) \/ LoadReserved(w)
                                 \/ Reserve(w) \/ Reenter(w)
    PROVE  UNCHANGED <<Calling, args, ran>>
<1> USE DEF mainVars, workerVars, sharedVars, Calling
<1>1. CASE \/ SpawnWorker \/ Spawned \/ NotifyAll \/ Join \/ RunRejected \/ Destroy
           \/ MainSpuriousWakeup \/ SequentialReenter \/ UNCHANGED vars
  BY <1>1 DEF SpawnWorker, Spawned, NotifyAll, Join, RunRejected, Destroy,
              StartWorkers, MainSpuriousWakeup, SequentialReenter, vars, Handshake
<1>2. CASE WorkersReadyBarrier /\ ~(AllReady /\ op = "once")
  <2>1. main = "barrier" /\ UNCHANGED <<op, args, ran>> /\ op \in {"ctor", "once", "run"}
    BY <1>2 DEF WorkersReadyBarrier, Handshake, AtBarrier
  <2>2. main' # "idle"
    BY <1>2, <2>1 DEF WorkersReadyBarrier
  <2> QED
    BY <2>1, <2>2
<1>3. ASSUME NEW w \in Workers,
             \/ Report(w) \/ ReadCommand(w) \/ LoadReserved(w) \/ Reserve(w) \/ Reenter(w)
      PROVE  UNCHANGED <<Calling, args, ran>>
  BY <1>3 DEF Report, ReadCommand, LoadReserved, Reserve, Reenter
<1> QED
  BY <1>1, <1>2, <1>3

LEMMA ContractStep ==
    ASSUME TypeOK, Handshake, EachOnce, Once, [Next]_vars
    PROVE  [Contract!Next]_(Contract!vars)
<1>1. CASE UNCHANGED <<Calling, args, ran>>
  BY <1>1 DEF Contract!vars, Calling
<1>2. CASE Contract!Accept \/ Contract!CallFunc \/ Contract!Return
  BY <1>2 DEF Contract!Next
<1> QED
  BY <1>1, <1>2, AcceptStep, TaskCalled, WorkerNumberCalled, SequentialCalled,
     ReturnStep, InternalStep
     DEF Next, MainStep, MainChoice, WorkerStep, Terminated

(* The pool keeps the promise of parallel_runner.h, for every number of    *)
(* workers: each of its steps is a step of the contract or none.           *)
THEOREM ImplementsContract ==
    ASSUME NoWrap
    PROVE  Spec => Refinement
<1> DEFINE Inv == TypeOK /\ Handshake /\ EachOnce /\ Once
<1>1. Inv /\ [Next]_vars => Inv'
  BY TypeStep, HandshakeStep, EachOnceStep, OnceStep
<1>2. Init => Inv /\ Contract!Init
  BY InitHandshake, InitEachOnce, InitOnce, InitContract
<1>3. Inv /\ [Next]_vars => [Contract!Next]_(Contract!vars)
  BY ContractStep
<1> HIDE DEF Inv
<1> QED
  BY <1>1, <1>2, <1>3, PTL DEF Spec, Refinement, Contract!Spec
=============================================================================
