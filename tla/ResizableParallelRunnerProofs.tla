--------------------- MODULE ResizableParallelRunnerProofs ---------------------
(***************************************************************************)
(* Proofs about ResizableParallelRunner, for any number of threads and any *)
(* set of ranges.                                                          *)
(***************************************************************************)
EXTENDS ResizableParallelRunnerInvariant, FiniteSetTheorems, TLAPS

LEMMA ThreadsFinite ==
    /\ IsFiniteSet(Threads) /\ Cardinality(Threads) = MaxThreads
    /\ 0 \in Threads /\ MaxThreads \in Nat \ {0}
<1>1. MaxThreads \in Nat \ {0} /\ 0 \in Int /\ MaxThreads - 1 \in Int
  BY ResizableAssumption
<1>2. /\ IsFiniteSet(0 .. MaxThreads - 1)
      /\ Cardinality(0 .. MaxThreads - 1) =
            IF 0 > MaxThreads - 1 THEN 0 ELSE MaxThreads - 1 - 0 + 1
  BY <1>1, FS_Interval, Zenon
<1> QED
  BY <1>1, <1>2 DEF Threads

(* A set of threads can be counted.                                        *)
LEMMA ThreadCount ==
    ASSUME NEW S \in SUBSET Threads
    PROVE  /\ IsFiniteSet(S) /\ Cardinality(S) \in 0 .. MaxThreads
           /\ Cardinality(S) = 0 <=> S = {}
           /\ \A t \in Threads \ S :
                /\ Cardinality(S \cup {t}) = Cardinality(S) + 1
                /\ Cardinality(S) + 1 <= MaxThreads
           /\ \A t \in S : Cardinality(S \ {t}) = Cardinality(S) - 1
<1>1. IsFiniteSet(S) /\ Cardinality(S) <= MaxThreads
  BY ThreadsFinite, FS_Subset
<1>2. Cardinality(S) \in Nat
  BY <1>1, FS_CardinalityType
<1>3. Cardinality(S) = 0 <=> S = {}
  BY <1>1, FS_EmptySet
<1>4. ASSUME NEW t \in Threads \ S
      PROVE  /\ Cardinality(S \cup {t}) = Cardinality(S) + 1
             /\ Cardinality(S) + 1 <= MaxThreads
  <2>1. Cardinality(S \cup {t}) = Cardinality(S) + 1
    BY <1>1, FS_AddElement
  <2>2. S \cup {t} \subseteq Threads
    OBVIOUS
  <2>3. Cardinality(S \cup {t}) <= MaxThreads
    BY <2>2, ThreadsFinite, FS_Subset
  <2> QED
    BY <2>1, <2>3
<1>5. \A t \in S : Cardinality(S \ {t}) = Cardinality(S) - 1
  BY <1>1, FS_RemoveElement
<1> QED
  BY <1>1, <1>2, <1>3, <1>4, <1>5, ThreadsFinite

LEMMA Values ==
    /\ NothingRan \in [Tasks -> Nat]
    /\ 0 \in Tasks /\ <<0, 0>> \in Tasks \X Tasks
    /\ Ranges \subseteq Tasks \X Tasks
    /\ InitCodes \subseteq Int
  BY ResizableAssumption DEF NothingRan

LEMMA RangeIsPair ==
    ASSUME NEW r \in Tasks \X Tasks
    PROVE  /\ r[1] \in Nat /\ r[2] \in Nat /\ r[1] < Word /\ r[2] < Word
           /\ r = <<r[1], r[2]>>
  BY ResizableAssumption

(* Arithmetic of uint32_t.                                                 *)
LEMMA WordArithmetic ==
    ASSUME NEW n \in Int
    PROVE  /\ n % Word \in Tasks
           /\ n \in 0 .. Word - 1 => n % Word = n
<1>1. Word \in Nat /\ Word > 0 /\ Tasks = 0 .. Word - 1
  BY ResizableAssumption
<1> QED
  BY <1>1

LEMMA NumThreadsType ==
    ASSUME NEW r \in Ranges, workers \in Nat
    PROVE  NumThreads(r) \in Nat /\ WorkersNeeded(r) \in Tasks
<1>1. r[1] \in Nat /\ r[2] \in Nat /\ Tasks \subseteq Nat
  BY Values, RangeIsPair, ResizableAssumption
<1>2. WorkersNeeded(r) \in Tasks
  BY <1>1, WordArithmetic DEF WorkersNeeded
<1> DEFINE n == (r[2] - r[1]) % Word
<1>3. n \in Nat
  <2>1. r[2] - r[1] \in Int
    BY <1>1
  <2>2. n \in Tasks
    BY <2>1, WordArithmetic
  <2> HIDE DEF n
  <2> QED
    BY <1>1, <2>2
<1>4. NumThreads(r) = 1 \/ NumThreads(r) = AtMost(workers + 1, n)
  BY Zenon DEF NumThreads
<1> HIDE DEF n
<1>5. AtMost(workers + 1, n) \in Nat
  BY <1>3 DEF AtMost
<1> QED
  BY <1>2, <1>4, <1>5

LEMMA CountOneMore ==
    ASSUME NEW S, NEW f \in [S -> Nat], NEW x
    PROVE  [f EXCEPT ![x] = @ + 1] \in [S -> Nat]
<1>1. CASE x \in S
  BY <1>1
<1>2. CASE x \notin S
  BY <1>2
<1> QED
  BY <1>1, <1>2

-----------------------------------------------------------------------------
LEMMA InitMembership == Init => TypeOK /\ Membership /\ CallSetUp
<1> SUFFICES ASSUME Init PROVE TypeOK /\ Membership /\ CallSetUp
  OBVIOUS
<1>1. TypeOK
  <2>1. /\ at \in [Threads -> States] /\ task \in [Threads -> Tasks]
        /\ args \in Tasks \X Tasks /\ ran \in [Tasks -> Nat]
    BY Values DEF Init, States
  <2>2. /\ op = "create" /\ ret = 0 /\ calls = 0 /\ workers = 0 /\ num_threads = 1
        /\ next_task = 0 /\ end_task = 0 /\ num_desired_workers = 0
        /\ max_running_workers = 0 /\ num_running_workers = 0 /\ work_available = FALSE
    BY DEF Init
  <2>3. 0 \in 0 .. MaxThreads - 1 /\ 0 \in 0 .. MaxThreads
    BY ThreadsFinite
  <2>4. work_available \in BOOLEAN
    BY <2>2
  <2> QED
    BY <2>1, <2>2, <2>3, <2>4, Values DEF TypeOK
<1>2. Running = {}
  BY DEF Init, Running, RunningStates
<1>3. at[0] = "idle" /\ ~InParallelRun
  BY ThreadsFinite DEF Init, InParallelRun, RunningStates
<1>4. Membership
  BY <1>2, <1>3, FS_EmptySet
  DEF Init, Membership, CallerStates, BodyStates, WorkerThreads, Threads, RunningStates
<1> QED
  BY <1>1, <1>3, <1>4 DEF CallSetUp

(* A thread that runs is counted.                                          *)
LEMMA SomeoneCounted ==
    ASSUME Membership, NEW t \in Running
    PROVE  num_running_workers >= 1
<1>1. num_running_workers = Cardinality(Running)
  BY DEF Membership
<1>2. Running \in SUBSET Threads /\ Running # {}
  BY DEF Running
<1> QED
  BY <1>1, <1>2, ThreadCount

(* Every step of the specification keeps every variable in its type.       *)
LEMMA TypeStep ==
    ASSUME TypeOK, Membership, [Next]_vars
    PROVE  TypeOK'
<1> USE Values, ThreadsFinite
    DEF TypeOK, States, callerVars, rangeVars, Goes, CallerFree
<1>1. CASE SetNumThreads \/ Destroy
  <2>1. PICK num \in 0 .. MaxThreads : SetDesired(num) /\ op' \in {"set", "destroy"}
                                       /\ calls' \in Nat
    BY <1>1 DEF SetNumThreads, Destroy
  <2>2. num_desired_workers' \in 0 .. MaxThreads - 1
    BY <2>1 DEF SetDesired
  <2>3. at' \in [Threads -> States]
    BY <2>1 DEF SetDesired, ResizedAndNotified, NotifiedAndCaller
  <2> QED
    BY <2>1, <2>2, <2>3 DEF SetDesired
<1>2. CASE SpawnWorker
  <2>1. workers' \in 0 .. MaxThreads - 1
    BY <1>2 DEF SpawnWorker
  <2>2. at' \in [Threads -> States]
    BY <1>2 DEF SpawnWorker
  <2> QED
    BY <1>2, <2>1, <2>2 DEF SpawnWorker
<1>3. CASE Resized
  <2>1. at' \in [Threads -> States]
    BY <1>3 DEF Resized
  <2> QED
    BY <1>3, <2>1 DEF Resized
<1>4. CASE RunRejected
  <2>1. ret' \in Int /\ num_threads' \in Nat
    BY <1>4, NumThreadsType DEF RunRejected
  <2> QED
    BY <1>4, <2>1 DEF RunRejected
<1>5. CASE RunSingle
  <2>1. PICK r \in Ranges : RunBegins(r)
    BY <1>5 DEF RunSingle
  <2>2. num_threads' \in Nat /\ args' \in Tasks \X Tasks
    BY <2>1, NumThreadsType DEF RunBegins
  <2> QED
    BY <1>5, <2>1, <2>2 DEF RunSingle, RunBegins
<1>6. CASE RunParallel
  <2>1. PICK r \in Ranges : /\ RunBegins(r) /\ max_running_workers' = WorkersNeeded(r)
                            /\ next_task' = r[1] /\ end_task' = r[2]
    BY <1>6 DEF RunParallel
  <2>2. /\ num_threads' \in Nat /\ args' \in Tasks \X Tasks
        /\ max_running_workers' \in Tasks /\ next_task' \in Tasks /\ end_task' \in Tasks
    BY <2>1, NumThreadsType DEF RunBegins
  <2>3. at' \in [Threads -> States]
    BY <1>6 DEF RunParallel, NotifiedAndCaller
  <2>4. num_running_workers = 0
    BY <2>1, FS_EmptySet DEF RunBegins, Membership, InParallelRun, RunningStates
  <2>5. num_running_workers' \in 0 .. MaxThreads
    BY <1>6, <2>4 DEF RunParallel
  <2> QED
    BY <1>6, <2>1, <2>2, <2>3, <2>5 DEF RunParallel, RunBegins
<1>7. CASE SingleTask
  <2>1. ran' \in [Tasks -> Nat]
    BY <1>7, CountOneMore DEF SingleTask
  <2> QED
    BY <1>7, <2>1 DEF SingleTask
<1>8. CASE SingleReturns \/ CheckDone
  BY <1>8 DEF SingleReturns, CheckDone
<1>9. ASSUME NEW t \in Threads, WorkerBody(t) PROVE TypeOK'
  <2>1. at[t] \notin RunningStates
    BY <1>9 DEF WorkerBody, RunningStates
  <2>2. num_running_workers + 1 <= MaxThreads
    BY <2>1, ThreadCount DEF Membership, Running
  <2> QED
    BY <1>9, <2>2 DEF WorkerBody, JoinsCounted
<1>10. ASSUME NEW t \in Threads, Dequeue(t) PROVE TypeOK'
  <2>1. next_task' \in Tasks
    <3>1. next_task + 1 \in Int
      BY ResizableAssumption
    <3> QED
      BY <1>10, <3>1, WordArithmetic DEF Dequeue
  <2> QED
    BY <1>10, <2>1 DEF Dequeue
<1>11. ASSUME NEW t \in Threads, CallFunc(t) PROVE TypeOK'
  <2>1. ran' \in [Tasks -> Nat]
    BY <1>11, CountOneMore DEF CallFunc
  <2>2. at' \in [Threads -> States] /\ task' \in [Threads -> Tasks]
    BY <1>11 DEF CallFunc
  <2>3. UNCHANGED <<op, args, ret, calls, workers, num_threads>>
    BY <1>11 DEF CallFunc
  <2>4. UNCHANGED <<next_task, end_task, num_desired_workers,
                    max_running_workers, num_running_workers, work_available>>
    BY <1>11 DEF CallFunc
  <2>5. /\ op' \in {"create", "set", "destroy", "rejected", "run"}
        /\ args' \in Tasks \X Tasks /\ ret' \in Int /\ calls' \in Nat
        /\ workers' \in 0 .. MaxThreads - 1 /\ num_threads' \in Nat
    BY <2>3
  <2>6. /\ next_task' \in Tasks /\ end_task' \in Tasks
        /\ num_desired_workers' \in 0 .. MaxThreads - 1
        /\ max_running_workers' \in Tasks
        /\ num_running_workers' \in 0 .. MaxThreads
        /\ work_available' \in BOOLEAN
    BY <2>4
  <2> QED
    BY <2>1, <2>2, <2>5, <2>6
<1>12. ASSUME NEW t \in Threads, Leave(t) PROVE TypeOK'
  <2>1. t \in Running
    BY <1>12 DEF Leave, Running, RunningStates
  <2>2. num_running_workers >= 1
    BY <2>1, SomeoneCounted
  <2>3. at' \in [Threads -> States]
    BY <1>12 DEF Leave
  <2>4. num_running_workers' \in 0 .. MaxThreads
    BY <1>12, <2>2 DEF Leave
  <2>5. work_available' = FALSE
    BY <1>12 DEF Leave, ClosedByAnyone
  <2> QED
    BY <1>12, <2>3, <2>4, <2>5 DEF Leave
<1>13. ASSUME NEW t \in Threads, SpuriousWakeup(t) PROVE TypeOK'
  BY <1>13 DEF SpuriousWakeup
<1>14. CASE UNCHANGED vars
  BY <1>14 DEF vars
<1> QED
  BY <1>1, <1>2, <1>3, <1>4, <1>5, <1>6, <1>7, <1>8, <1>9, <1>10, <1>11, <1>12, <1>13,
     <1>14 DEF Next, CallerStep, CallerChoice, ThreadStep, Terminated

-----------------------------------------------------------------------------
(* How a step of thread t changes who is running.                          *)
LEMMA RunningUpdate ==
    ASSUME TypeOK, NEW t \in Threads, NEW s, at' = [at EXCEPT ![t] = s]
    PROVE  Running' = IF s \in RunningStates THEN Running \cup {t} ELSE Running \ {t}
  BY DEF TypeOK, Running

LEMMA LeaveUpdate ==
    ASSUME TypeOK, NEW t \in Threads, Leave(t)
    PROVE  /\ at'[t] = IF t = 0 THEN "check" ELSE "body"
           /\ at'[0] # at[0] => at'[0] = "check" /\ (at[0] = "cvwait" \/ t = 0)
           /\ \A u \in Threads \ {0, t} : at'[u] = at[u]
<1> DEFINE s == IF at[0] = "cvwait" /\ num_running_workers = 1 THEN "check" ELSE at[0]
<1>1. CASE t = 0
  <2>1. at[0] = "leave" /\ at' = [[at EXCEPT ![0] = s] EXCEPT ![0] = "check"]
    BY <1>1 DEF Leave
  <2> QED
    BY <1>1, <2>1, ThreadsFinite DEF TypeOK
<1>2. CASE t # 0
  <2>1. at' = [[at EXCEPT ![0] = s] EXCEPT ![t] = "body"]
    BY <1>2 DEF Leave
  <2>2. at'[0] = s /\ at'[t] = "body" /\ \A u \in Threads \ {0, t} : at'[u] = at[u]
    BY <1>2, <2>1, ThreadsFinite DEF TypeOK
  <2> QED
    BY <1>2, <2>2
<1> QED
  BY <1>1, <1>2

LEMMA MembershipStep ==
    ASSUME TypeOK, Membership, [Next]_vars
    PROVE  Membership'
<1> USE ThreadsFinite
    DEF callerVars, rangeVars, Goes, CallerFree, CallerStates, BodyStates, WorkerThreads,
        InParallelRun
<1>1. CASE SetNumThreads \/ Destroy
  <2>1. PICK num \in 0 .. MaxThreads : SetDesired(num) /\ op' \in {"set", "destroy"}
    BY <1>1 DEF SetNumThreads, Destroy
  <2>2. at[0] = "idle" /\ at' = NotifiedAndCaller("resize")
    BY <1>1, <2>1 DEF SetNumThreads, Destroy, SetDesired, ResizedAndNotified
  <2>3. Running' = {} /\ Running = {}
    BY <2>2 DEF Membership, Running, RunningStates, NotifiedAndCaller
  <2>4. at'[0] = "resize" /\ \A t \in WorkerThreads :
            at'[t] = IF at[t] = "waiting" THEN "body" ELSE at[t]
    BY <2>2 DEF NotifiedAndCaller
  <2> QED
    BY <2>1, <2>2, <2>3, <2>4 DEF SetDesired, Membership, RunningStates
<1>2. CASE SpawnWorker
  <2>1. workers + 1 \in WorkerThreads /\ workers' = workers + 1
    BY <1>2 DEF SpawnWorker, TypeOK, Threads
  <2>2. Running' = {} /\ Running = {}
    BY <1>2, <2>1 DEF SpawnWorker, Membership, Running, RunningStates, TypeOK
  <2>3. at'[0] = "resize" /\ at[0] = "resize"
    BY <1>2, <2>1 DEF SpawnWorker, TypeOK
  <2>4. \A t \in WorkerThreads : at'[t] = IF t = workers + 1 THEN "body" ELSE at[t]
    BY <1>2, <2>1 DEF SpawnWorker, TypeOK
  <2>5. \A t \in WorkerThreads : t > workers' => at'[t] = "none"
    BY <2>1, <2>4 DEF Membership, TypeOK, Threads
  <2> QED
    BY <1>2, <2>2, <2>3, <2>4, <2>5 DEF SpawnWorker, Membership, RunningStates
<1>3. CASE Resized
  <2>1. /\ at[0] = "resize" /\ workers' = num_desired_workers
        /\ at'[0] = IF op = "destroy" THEN "destroyed" ELSE "idle"
    <3>1. ~(0 > num_desired_workers)
      BY DEF TypeOK
    <3> QED
      BY <1>3, <3>1 DEF Resized
  <2>2. \A t \in WorkerThreads :
            at'[t] = IF t > num_desired_workers THEN "none" ELSE at[t]
    BY <1>3 DEF Resized
  <2>3. Running' = {} /\ Running = {}
    BY <2>1, <2>2 DEF Membership, Running, RunningStates
  <2> QED
    BY <1>3, <2>1, <2>2, <2>3 DEF Resized, Membership, RunningStates
<1>4. CASE RunRejected
  BY <1>4 DEF RunRejected, Membership, Running, RunningStates
<1>5. CASE RunSingle
  <2>1. at[0] = "idle" /\ at' = [at EXCEPT ![0] = "single"] /\ op' = "run"
        /\ UNCHANGED <<workers, num_running_workers, work_available>>
    BY <1>5 DEF RunSingle, RunBegins
  <2>2. Running' = {} /\ Running = {}
    BY <2>1, RunningUpdate DEF Membership, RunningStates
  <2> QED
    BY <2>1, <2>2 DEF Membership, RunningStates, TypeOK
<1>6. CASE RunParallel
  <2>1. /\ at[0] = "idle" /\ at' = NotifiedAndCaller("dequeue") /\ op' = "run"
        /\ UNCHANGED workers /\ num_running_workers' = num_running_workers + 1
    BY <1>6 DEF RunParallel, RunBegins
  <2>2. at'[0] = "dequeue" /\ \A t \in WorkerThreads :
            at'[t] = IF at[t] = "waiting" THEN "body" ELSE at[t]
    BY <2>1 DEF NotifiedAndCaller
  <2>3. Running = {} /\ Running' = {0}
    BY <2>1, <2>2 DEF Membership, Running, RunningStates
  <2>4. num_running_workers' = Cardinality(Running')
    <3>1. Cardinality({0}) = 1 /\ num_running_workers = 0
      BY <2>3, FS_EmptySet, FS_Singleton DEF Membership
    <3> QED
      BY <2>1, <2>3, <3>1
  <2> QED
    BY <2>1, <2>2, <2>4 DEF Membership, RunningStates
<1>7. CASE SingleTask \/ SingleReturns
  <2>1. /\ at[0] \in {"single", "return"}
        /\ \E s \in {"return", "idle"} : at' = [at EXCEPT ![0] = s]
        /\ UNCHANGED <<op, workers, num_running_workers, work_available>>
    BY <1>7 DEF SingleTask, SingleReturns
  <2>2. Running' = {} /\ Running = {}
    BY <2>1, RunningUpdate DEF Membership, RunningStates
  <2> QED
    BY <2>1, <2>2 DEF Membership, RunningStates, TypeOK
<1>8. CASE CheckDone
  <2>1. PICK s \in {"idle", "cvwait"} : /\ at' = [at EXCEPT ![0] = s]
                                        /\ s = "idle" => num_running_workers = 0
    BY <1>8 DEF CheckDone
  <2>2. at[0] = "check" /\ UNCHANGED <<op, workers, num_running_workers, work_available>>
    BY <1>8 DEF CheckDone
  <2>3. Running' = Running
    BY <2>1, <2>2, RunningUpdate DEF RunningStates, Running
  <2>4. s = "idle" => Running = {}
    BY <2>1, ThreadCount DEF Membership, Running
  <2> QED
    BY <2>1, <2>2, <2>3, <2>4 DEF Membership, RunningStates, TypeOK
<1>9. ASSUME NEW t \in Threads, WorkerBody(t) PROVE Membership'
  <2>1. t \in WorkerThreads /\ at[t] = "body" /\ t \notin Running
        /\ UNCHANGED <<op, workers, work_available>>
    BY <1>9 DEF WorkerBody, Running, RunningStates
  <2>2. CASE \E s \in {"exited", "waiting"} : at' = [at EXCEPT ![t] = s]
                                              /\ UNCHANGED num_running_workers
    <3>1. Running' = Running \ {t}
      BY <2>2, RunningUpdate DEF RunningStates
    <3>2. Running' = Running
      BY <2>1, <3>1
    <3> QED
      BY <2>1, <2>2, <3>2 DEF Membership, RunningStates, TypeOK
  <2>3. CASE /\ work_available /\ at' = [at EXCEPT ![t] = "dequeue"]
             /\ num_running_workers' = num_running_workers + 1
    <3>1. Running' = Running \cup {t}
      BY <2>1, <2>3, RunningUpdate DEF RunningStates
    <3>2. num_running_workers' = Cardinality(Running')
      BY <2>1, <2>3, <3>1, ThreadCount DEF Membership, Running
    <3> QED
      BY <2>1, <2>3, <3>2 DEF Membership, RunningStates, TypeOK
  <2> QED
    BY <1>9, <2>2, <2>3 DEF WorkerBody, JoinsCounted
<1>10. ASSUME NEW t \in Threads, Dequeue(t) \/ CallFunc(t) PROVE Membership'
  <2>1. /\ at[t] \in RunningStates
        /\ \E s \in RunningStates : at' = [at EXCEPT ![t] = s]
        /\ UNCHANGED <<op, workers, num_running_workers, work_available>>
    BY <1>10 DEF Dequeue, CallFunc, RunningStates
  <2>2. Running' = Running
    BY <2>1, RunningUpdate DEF Running
  <2> QED
    BY <2>1, <2>2 DEF Membership, RunningStates, TypeOK
<1>11. ASSUME NEW t \in Threads, Leave(t) PROVE Membership'
  <2>1. /\ at[t] = "leave" /\ work_available' = FALSE /\ t \in Running
        /\ num_running_workers' = num_running_workers - 1 /\ UNCHANGED <<op, workers>>
    BY <1>11 DEF Leave, ClosedByAnyone, Running, RunningStates
  <2>2. /\ at'[t] = IF t = 0 THEN "check" ELSE "body"
        /\ at'[0] # at[0] => at'[0] = "check" /\ (at[0] = "cvwait" \/ t = 0)
        /\ \A u \in Threads \ {0, t} : at'[u] = at[u]
    BY <1>11, LeaveUpdate
  <2>3. Running' = Running \ {t}
    <3>1. \A u \in Threads : at'[u] \in RunningStates <=> u # t /\ at[u] \in RunningStates
      BY <2>1, <2>2 DEF RunningStates
    <3> QED
      BY <3>1 DEF Running
  <2>4. num_running_workers' = Cardinality(Running')
    BY <2>1, <2>3, ThreadCount DEF Membership, Running
  <2>5. InParallelRun /\ InParallelRun'
    BY <2>1, <2>2 DEF Membership, RunningStates, Running
  <2> QED
    BY <2>1, <2>2, <2>4, <2>5 DEF Membership, RunningStates, TypeOK
<1>12. ASSUME NEW t \in Threads, SpuriousWakeup(t) PROVE Membership'
  <2>1. PICK s \in {"check", "body"} : /\ at' = [at EXCEPT ![t] = s]
                                       /\ s = IF t = 0 THEN "check" ELSE "body"
    BY <1>12 DEF SpuriousWakeup
  <2>2. at[t] \in {"waiting", "cvwait"}
        /\ UNCHANGED <<op, workers, num_running_workers, work_available>>
    BY <1>12 DEF SpuriousWakeup
  <2>3. Running' = Running
    BY <2>1, <2>2, RunningUpdate DEF RunningStates, Running
  <2> QED
    BY <2>1, <2>2, <2>3 DEF Membership, RunningStates, TypeOK
<1>13. CASE UNCHANGED vars
  BY <1>13 DEF vars, Membership, Running
<1> QED
  BY <1>1, <1>2, <1>3, <1>4, <1>5, <1>6, <1>7, <1>8, <1>9, <1>10, <1>11, <1>12, <1>13
     DEF Next, CallerStep, CallerChoice, ThreadStep, Terminated

-----------------------------------------------------------------------------
(* What Run wrote under the lock stays until it returns.                   *)
LEMMA CallSetUpKept ==
    ASSUME TypeOK, Membership, [Next]_vars, InParallelRun', ~RunParallel
    PROVE  /\ InParallelRun
           /\ UNCHANGED <<args, end_task, max_running_workers, num_threads, workers>>
<1> USE ThreadsFinite DEF callerVars, rangeVars, Goes, CallerFree, InParallelRun, RunningStates
<1>1. ~SetNumThreads /\ ~Destroy
  BY DEF SetNumThreads, Destroy, SetDesired, ResizedAndNotified, NotifiedAndCaller
<1>2. ~SpawnWorker /\ ~RunRejected /\ ~RunSingle /\ ~SingleTask /\ ~SingleReturns
  BY DEF SpawnWorker, RunRejected, RunSingle, SingleTask, SingleReturns, TypeOK, Threads
<1>3. ~Resized
  BY DEF Resized, TypeOK, Threads
<1>4. CASE CheckDone \/ UNCHANGED vars
  BY <1>4 DEF CheckDone, TypeOK, vars
<1>5. ASSUME NEW t \in Threads, WorkerBody(t) \/ Dequeue(t) \/ CallFunc(t)
                                 \/ SpuriousWakeup(t)
      PROVE  /\ InParallelRun
             /\ UNCHANGED <<args, end_task, max_running_workers, num_threads, workers>>
  BY <1>5 DEF WorkerBody, Dequeue, CallFunc, SpuriousWakeup, TypeOK, Membership, CallerStates
<1>6. ASSUME NEW t \in Threads, Leave(t)
      PROVE  /\ InParallelRun
             /\ UNCHANGED <<args, end_task, max_running_workers, num_threads, workers>>
  <2>1. InParallelRun
    BY <1>6, LeaveUpdate DEF Leave
  <2> QED
    BY <1>6, <2>1 DEF Leave
<1> QED
  BY <1>1, <1>2, <1>3, <1>4, <1>5, <1>6
     DEF Next, CallerStep, CallerChoice, ThreadStep, Terminated

(* Only WorkerBody and RunParallel make a thread run.                      *)
LEMMA Joined ==
    ASSUME TypeOK, Membership, [Next]_vars, NEW t \in WorkerThreads,
           t \in Running' \ Running
    PROVE  WorkerBody(t) /\ work_available /\ t - 1 < max_running_workers
<1> USE ThreadsFinite DEF callerVars, rangeVars, Goes, Running, RunningStates, WorkerThreads
<1>1. ~SetNumThreads /\ ~Destroy /\ ~RunParallel
  BY DEF SetNumThreads, Destroy, SetDesired, ResizedAndNotified, RunParallel, NotifiedAndCaller
<1>2. ~SpawnWorker /\ ~RunRejected /\ ~RunSingle /\ ~SingleTask /\ ~SingleReturns
      /\ ~Resized /\ ~CheckDone /\ ~UNCHANGED vars
  BY DEF SpawnWorker, RunRejected, RunSingle, SingleTask, SingleReturns, Resized, CheckDone,
         TypeOK, vars
<1>3. ASSUME NEW u \in Threads, Dequeue(u) \/ CallFunc(u) \/ SpuriousWakeup(u)
      PROVE  FALSE
  BY <1>3 DEF Dequeue, CallFunc, SpuriousWakeup, TypeOK
<1>4. ASSUME NEW u \in Threads, Leave(u) PROVE FALSE
  BY <1>4, LeaveUpdate
<1>5. ASSUME NEW u \in Threads, WorkerBody(u)
      PROVE  WorkerBody(t) /\ work_available /\ t - 1 < max_running_workers
  BY <1>5 DEF WorkerBody, TypeOK
<1> QED
  BY <1>1, <1>2, <1>3, <1>4, <1>5 DEF Next, CallerStep, CallerChoice, ThreadStep, Terminated

LEMMA CallSetUpStep ==
    ASSUME TypeOK, Membership, CallSetUp, [Next]_vars
    PROVE  CallSetUp'
<1> SUFFICES ASSUME InParallelRun' PROVE CallSetUp'
  BY DEF CallSetUp
<1>1. CASE RunParallel
  <2>1. PICK r \in Ranges : /\ ~IsSingle(r) /\ RunBegins(r)
                            /\ max_running_workers' = WorkersNeeded(r) /\ end_task' = r[2]
    BY <1>1 DEF RunParallel
  <2>2. args' = r /\ num_threads' = NumThreads(r) /\ workers' = workers
    BY <2>1 DEF RunBegins
  <2>3. \A t \in Running' : t = 0
    BY <1>1, <2>1 DEF RunBegins, CallerFree, RunParallel, NotifiedAndCaller, Membership,
                     InParallelRun, Running, RunningStates
  <2> QED
    BY <2>1, <2>2, <2>3 DEF CallSetUp, NumThreads, WorkersNeeded, IsSingle
<1>2. CASE ~RunParallel
  <2>1. /\ InParallelRun
        /\ UNCHANGED <<args, end_task, max_running_workers, num_threads, workers>>
    BY <1>2, CallSetUpKept
  <2>2. \A t \in Running' : t # 0 => t - 1 < max_running_workers
    BY <2>1, Joined DEF CallSetUp, Running, WorkerThreads
  <2> QED
    BY <2>1, <2>2 DEF CallSetUp, NumThreads, WorkersNeeded, IsSingle
<1> QED
  BY <1>1, <1>2

LEMMA MembershipInductive ==
    ASSUME TypeOK, Membership, CallSetUp, [Next]_vars
    PROVE  TypeOK' /\ Membership' /\ CallSetUp'
  BY TypeStep, MembershipStep, CallSetUpStep

(* Whenever the caller is free or resizes the pool, no worker touches the  *)
(* data of the call before, and none finds work left over from it: also of *)
(* workers that join late or are removed, and for any range.               *)
THEOREM PoolQuietBetweenCalls == Spec => [](TypeOK /\ QuietBetweenCalls)
<1>1. TypeOK /\ Membership => QuietBetweenCalls
  <2> SUFFICES ASSUME TypeOK, Membership, at[0] \in {"idle", "resize"}
               PROVE  /\ ~work_available /\ num_running_workers = 0
                      /\ \A t \in Threads : at[t] \notin RunningStates
    BY DEF QuietBetweenCalls, RunningStates
  <2>1. Running = {} /\ ~work_available
    BY DEF Membership, InParallelRun, RunningStates, TypeOK
  <2> QED
    BY <2>1, FS_EmptySet DEF Membership, Running
<1> QED
  BY <1>1, InitMembership, MembershipInductive, PTL DEF Spec

-----------------------------------------------------------------------------
(* The numbers of a call, while next_task_ does not wrap around.           *)

LEMMA BoundsOfCall ==
    ASSUME NoWrap, TypeOK, CallSetUp, InParallelRun
    PROVE  /\ args[1] \in Nat /\ args[2] \in Nat /\ next_task \in Nat
           /\ end_task = args[2]
           /\ args[1] + MaxThreads < Word /\ args[2] + MaxThreads < Word
           /\ Tasks \subseteq Nat /\ task \in [Threads -> Nat]
<1>1. args \in Ranges /\ end_task = args[2]
  BY DEF CallSetUp
<1>2. args[1] \in Nat /\ args[2] \in Nat
  <2>1. args \in Tasks \X Tasks
    BY <1>1, Values
  <2> QED
    BY <2>1, ResizableAssumption
<1>3. args[1] + MaxThreads < Word /\ args[2] + MaxThreads < Word
  BY <1>1 DEF NoWrap
<1>4. Tasks \subseteq Nat
  BY ResizableAssumption
<1>5. next_task \in Nat /\ task \in [Threads -> Nat]
  BY <1>4 DEF TypeOK
<1> QED
  BY <1>1, <1>2, <1>3, <1>4, <1>5

LEMMA OvershootType ==
    /\ MayOvershoot \in SUBSET Threads
    /\ Cardinality(MayOvershoot) \in 0 .. MaxThreads
  BY ThreadCount DEF MayOvershoot

(* next_task_ is exact while a thread may still advance it.                *)
LEMMA NextTaskExact ==
    ASSUME NoWrap, TypeOK, CallSetUp, InParallelRun, Bounded,
           NEW t \in Threads, at[t] = "dequeue"
    PROVE  (next_task + 1) % Word = next_task + 1
<1>1. t \in MayOvershoot
  BY DEF MayOvershoot
<1>2. Cardinality(MayOvershoot) \in Nat /\ Cardinality(MayOvershoot) >= 1
  BY <1>1, OvershootType, ThreadCount, ThreadsFinite
<1>3. next_task + 1 <= (IF args[1] <= args[2] THEN args[2] ELSE args[1]) + MaxThreads
  BY <1>2, BoundsOfCall, ThreadsFinite DEF Bounded
<1>4. next_task + 1 \in 0 .. Word - 1
  BY <1>3, BoundsOfCall, ThreadsFinite, ResizableAssumption
<1> QED
  BY <1>4, WordArithmetic

(* A step that leaves the range, what has been taken and who calls func    *)
(* alone.                                                                  *)
LEMMA SameOnce ==
    ASSUME TypeOK, Bounded, TakenOnce,
           UNCHANGED <<args, next_task, task, work_available, ran, MayOvershoot>>,
           \A t \in Threads : at'[t] = "func" <=> at[t] = "func",
           \A t \in Threads : at'[t] = "leave" => at[t] = "leave"
    PROVE  Bounded' /\ TakenOnce'
<1>1. Bounded'
  BY DEF Bounded
<1>2. \A n \in Tasks : Taken(n)' = Taken(n) /\ Held(n)' = Held(n)
  BY DEF Taken, Held, Holds
<1>3. (\A t \in Threads : at[t] = "func" => Taken(task[t]))'
  BY DEF TakenOnce, Taken
<1>4. TakenOnce'
  BY <1>2, <1>3 DEF TakenOnce
<1> QED
  BY <1>1, <1>4

LEMMA DequeueStep ==
    ASSUME NoWrap, TypeOK, Membership, CallSetUp, Once,
           NEW t \in Threads, Dequeue(t), InParallelRun
    PROVE  Bounded' /\ TakenOnce'
<1>1. Bounded /\ TakenOnce
  BY DEF Once
<1>2. /\ at[t] = "dequeue" /\ next_task' = next_task + 1
      /\ UNCHANGED <<args, work_available, ran>>
  BY <1>1, NextTaskExact DEF Dequeue, callerVars
<1>3. t \in MayOvershoot /\ MayOvershoot \subseteq Threads
  BY <1>2 DEF MayOvershoot
<1>4. Cardinality(MayOvershoot) \in Nat /\ Cardinality(MayOvershoot) <= MaxThreads
  BY OvershootType, ThreadsFinite
<1>5. /\ args[1] \in Nat /\ args[2] \in Nat /\ next_task \in Nat /\ end_task = args[2]
      /\ task \in [Threads -> Nat]
  BY BoundsOfCall
<1>6. CASE next_task >= end_task
  <2>1. at' = [at EXCEPT ![t] = "leave"] /\ UNCHANGED task
    BY <1>6 DEF Dequeue, Goes
  <2>2. MayOvershoot' = MayOvershoot \ {t}
    BY <1>2, <2>1 DEF MayOvershoot, TypeOK
  <2>3. Cardinality(MayOvershoot') = Cardinality(MayOvershoot) - 1
    BY <1>3, <2>2, ThreadCount
  <2>4. Bounded'
    BY <1>1, <1>2, <1>4, <1>5, <1>6, <2>3, ThreadsFinite DEF Bounded
  <2>5. \A u \in Threads : at'[u] = "func" <=> at[u] = "func"
    BY <1>2, <2>1 DEF TypeOK
  <2>6. \A n : Held(n)' <=> Held(n)
    BY <2>1, <2>5 DEF Held, Holds
  <2>7. \A n \in Tasks : Taken(n)' <=> Taken(n)
    BY <1>2, <1>5, <1>6, BoundsOfCall DEF Taken
  <2>8. \A u \in Threads : at[u] = "func" => task[u] \in Tasks
    BY DEF TypeOK
  <2>9. TakenOnce'
    BY <1>1, <1>2, <2>1, <2>5, <2>6, <2>7, <2>8 DEF TakenOnce
  <2> QED
    BY <2>4, <2>9
<1>7. CASE ~(next_task >= end_task)
  <2>1. at' = [at EXCEPT ![t] = "func"] /\ task' = [task EXCEPT ![t] = next_task]
    BY <1>7 DEF Dequeue, Goes
  <2>2. MayOvershoot' = MayOvershoot
    BY <1>2, <2>1 DEF MayOvershoot, TypeOK
  <2>3. work_available /\ \A u \in Threads : at[u] # "leave"
    BY <1>1, <1>5, <1>7 DEF Bounded, TypeOK
  <2>4. \A u \in Threads : at'[u] # "leave"
    BY <2>1, <2>3 DEF TypeOK
  <2>5. Bounded'
    BY <1>1, <1>2, <1>4, <1>5, <1>7, <2>2, <2>3, <2>4, ThreadsFinite DEF Bounded
  <2>6. \A n : Held(n)' <=> Held(n) \/ n = next_task
    BY <1>2, <2>1 DEF Held, Holds, TypeOK
  <2>7. \A n \in Tasks : Taken(n)' <=> Taken(n) \/ n = next_task
    BY <1>1, <1>2, <1>5, <1>7, BoundsOfCall DEF Taken, Bounded
  <2>8. \A n \in Tasks : Taken(n) => n # next_task
    BY <1>5, BoundsOfCall DEF Taken
  <2>9. \A n \in Tasks : ran[n] = IF Taken(n)' /\ ~Held(n)' THEN 1 ELSE 0
    BY <1>1, <2>6, <2>7, <2>8 DEF TakenOnce
  <2>10. \A u \in Threads : at'[u] = "func" =>
            IF u = t THEN task'[u] = next_task ELSE at[u] = "func" /\ task'[u] = task[u]
    BY <2>1 DEF TypeOK
  <2>11. next_task \in Tasks /\ \A u \in Threads : task[u] \in Tasks
    BY DEF TypeOK
  <2>12. (\A u \in Threads : at[u] = "func" => Taken(task[u]))'
    <3> SUFFICES ASSUME NEW u \in Threads, at'[u] = "func"
                 PROVE  Taken(task[u])'
      OBVIOUS
    <3>1. \E n \in Tasks : task'[u] = n /\ Taken(n)'
      BY <1>1, <2>7, <2>10, <2>11 DEF TakenOnce
    <3> QED
      BY <3>1 DEF Taken
  <2>13. \A u, v \in Threads :
            at'[u] = "func" /\ at'[v] = "func" /\ task'[u] = task'[v] => u = v
    BY <1>1, <2>8, <2>10, <2>11 DEF TakenOnce
  <2>14. TakenOnce'
    BY <1>2, <2>9, <2>12, <2>13 DEF TakenOnce
  <2> QED
    BY <2>5, <2>14
<1> QED
  BY <1>6, <1>7

(* A call of func turns one held number into one that was run.             *)
LEMMA CallFuncStep ==
    ASSUME TypeOK, Membership, Once, NEW t \in Threads, CallFunc(t), InParallelRun
    PROVE  /\ Bounded' /\ TakenOnce'
           /\ task[t] \in Tasks /\ Taken(task[t]) /\ ran[task[t]] = 0
<1> PICK n \in Tasks : n = task[t]
  BY DEF TypeOK
<1>1. Bounded /\ TakenOnce
  BY DEF Once
<1>2. /\ at[t] = "func" /\ at' = [at EXCEPT ![t] = "dequeue"]
      /\ task' = [task EXCEPT ![t] = 0] /\ ran' = [ran EXCEPT ![n] = @ + 1]
      /\ UNCHANGED <<args, next_task, work_available>>
  BY DEF CallFunc, Goes, callerVars, rangeVars
<1>3. MayOvershoot' = MayOvershoot
  BY <1>2 DEF MayOvershoot, TypeOK
<1>4. Bounded'
  <2>1. \A u \in Threads : at'[u] = "leave" => at[u] = "leave"
    BY <1>2 DEF TypeOK
  <2> QED
    BY <1>1, <1>2, <1>3, <2>1 DEF Bounded
<1>5. Taken(n) /\ Held(n)
  BY <1>1, <1>2 DEF TakenOnce, Held, Holds
<1>6. ran[n] = 0
  BY <1>1, <1>5 DEF TakenOnce
<1>7. ran'[n] = 1 /\ \A k \in Tasks \ {n} : ran'[k] = ran[k]
  BY <1>2, <1>6 DEF TypeOK
<1>8. \A u \in Threads : at'[u] = "func" => u # t /\ at[u] = "func" /\ task'[u] = task[u]
  BY <1>2 DEF TypeOK
<1>9. \A u \in Threads \ {t} : at[u] = "func" => at'[u] = "func" /\ task'[u] = task[u]
                                                  /\ task[u] # n
  BY <1>1, <1>2 DEF TypeOK, TakenOnce
<1>10. \A k \in Tasks : Held(k)' <=> Held(k) /\ k # n
  BY <1>2, <1>8, <1>9 DEF Held, Holds
<1>11. \A k \in Tasks : Taken(k)' <=> Taken(k)
  BY <1>2 DEF Taken
<1>12. \A k \in Tasks : ran'[k] = IF Taken(k)' /\ ~Held(k)' THEN 1 ELSE 0
  BY <1>1, <1>5, <1>7, <1>10, <1>11 DEF TakenOnce
<1>13. (\A u \in Threads : at[u] = "func" => Taken(task[u]))'
  BY <1>1, <1>2, <1>8 DEF TakenOnce, Taken
<1>14. TakenOnce'
  BY <1>1, <1>8, <1>12, <1>13 DEF TakenOnce
<1> QED
  BY <1>4, <1>5, <1>6, <1>14

LEMMA LeaveStep ==
    ASSUME TypeOK, Membership, Once, NEW t \in Threads, Leave(t), InParallelRun
    PROVE  Bounded' /\ TakenOnce'
<1>1. Bounded /\ TakenOnce
  BY DEF Once
<1>2. /\ at[t] = "leave" /\ work_available' = FALSE
      /\ UNCHANGED <<args, next_task, task, ran>>
  BY DEF Leave, ClosedByAnyone, callerVars, rangeVars
<1>3. \A u \in Threads : at'[u] \in {"dequeue", "func"} <=> at[u] \in {"dequeue", "func"}
  BY <1>2, LeaveUpdate
<1>4. \A u \in Threads : at'[u] = "func" <=> at[u] = "func"
  BY <1>2, LeaveUpdate
<1>5. MayOvershoot' \subseteq MayOvershoot
  BY <1>2, <1>3 DEF MayOvershoot
<1>6. Cardinality(MayOvershoot') <= Cardinality(MayOvershoot)
  BY <1>5, OvershootType, ThreadCount, FS_Subset
<1>7. next_task >= args[2]
  BY <1>1, <1>2 DEF Bounded
<1>8. Bounded'
  <2>1. Cardinality(MayOvershoot) \in Nat /\ Cardinality(MayOvershoot') \in Nat
    BY <1>5, OvershootType, ThreadCount, ThreadsFinite
  <2>2. args[1] \in Int /\ args[2] \in Int /\ next_task \in Int /\ MaxThreads \in Int
    BY RangeIsPair, ResizableAssumption DEF TypeOK
  <2> QED
    BY <1>1, <1>2, <1>6, <1>7, <2>1, <2>2 DEF Bounded
<1>9. \A n \in Tasks : Taken(n)' = Taken(n) /\ Held(n)' = Held(n)
  BY <1>2, <1>4 DEF Taken, Held, Holds
<1>10. (\A u \in Threads : at[u] = "func" => Taken(task[u]))'
  BY <1>1, <1>2, <1>4 DEF TakenOnce, Taken
<1>11. TakenOnce'
  BY <1>1, <1>2, <1>4, <1>9, <1>10 DEF TakenOnce
<1> QED
  BY <1>8, <1>11

LEMMA RunParallelStep ==
    ASSUME TypeOK, Membership, RunParallel
    PROVE  Bounded' /\ TakenOnce'
<1>1. PICK r \in Ranges : RunBegins(r) /\ next_task' = r[1]
  BY DEF RunParallel
<1>2. /\ args' = r /\ ran' = NothingRan /\ work_available' = TRUE
      /\ at[0] = "idle" /\ at' = NotifiedAndCaller("dequeue")
  BY <1>1 DEF RunParallel, RunBegins, CallerFree
<1>3. r[1] \in Nat /\ r[2] \in Nat
  BY Values, RangeIsPair
<1>4. \A u \in Threads : at'[u] \notin {"func", "leave"}
  BY <1>2 DEF NotifiedAndCaller, Membership, InParallelRun, Running, RunningStates
<1>5. MayOvershoot' = Threads
  BY <1>2, <1>4 DEF MayOvershoot
<1>6. Bounded'
  BY <1>1, <1>2, <1>3, <1>4, <1>5, ThreadsFinite DEF Bounded
<1>7. \A n \in Tasks : ~Taken(n)'
  BY <1>1, <1>2, <1>3, ResizableAssumption DEF Taken
<1>8. TakenOnce'
  BY <1>2, <1>4, <1>7 DEF TakenOnce, NothingRan
<1> QED
  BY <1>6, <1>8

(* The steps that only move threads.                                       *)
LEMMA MoveStep ==
    ASSUME TypeOK, Membership, Once, InParallelRun,
           \/ CheckDone \/ UNCHANGED vars
           \/ \E t \in Threads : WorkerBody(t) \/ SpuriousWakeup(t)
    PROVE  Bounded' /\ TakenOnce'
<1> USE DEF callerVars, rangeVars, Goes
<1>1. UNCHANGED <<args, next_task, task, work_available, ran>>
  BY DEF CheckDone, vars, WorkerBody, SpuriousWakeup
<1>2. \A t \in Threads :
        /\ at'[t] = "func" <=> at[t] = "func"
        /\ at'[t] = "leave" <=> at[t] = "leave"
        /\ ~work_available => (at'[t] = "dequeue" <=> at[t] = "dequeue")
        /\ at[t] = "dequeue" => at'[t] = "dequeue"
  BY DEF CheckDone, vars, WorkerBody, SpuriousWakeup, TypeOK
<1>3. MayOvershoot' = MayOvershoot
  BY <1>1, <1>2 DEF MayOvershoot
<1> QED
  BY <1>1, <1>2, <1>3, SameOnce DEF Once

LEMMA InitOnce == Init => Once
  BY ThreadsFinite DEF Init, Once, InParallelRun, RunningStates

LEMMA OnceStep ==
    ASSUME NoWrap, TypeOK, Membership, CallSetUp, Once, [Next]_vars
    PROVE  Once'
<1>1. ASSUME InParallelRun' PROVE Bounded' /\ TakenOnce'
  <2>1. CASE RunParallel
    BY <2>1, RunParallelStep
  <2>2. CASE ~RunParallel
    <3>1. InParallelRun
      BY <1>1, <2>2, CallSetUpKept
    <3>2. /\ ~SetNumThreads /\ ~Destroy /\ ~SpawnWorker /\ ~RunRejected /\ ~RunSingle
          /\ ~SingleTask /\ ~SingleReturns /\ ~Resized
      BY <3>1 DEF SetNumThreads, Destroy, SpawnWorker, RunRejected, RunSingle, SingleTask,
                  SingleReturns, Resized, RunBegins, CallerFree, InParallelRun, RunningStates
    <3> QED
      BY <2>2, <3>1, <3>2, DequeueStep, CallFuncStep, LeaveStep, MoveStep
         DEF Next, CallerStep, CallerChoice, ThreadStep, Terminated
  <2> QED
    BY <2>1, <2>2
<1>2. ASSUME at'[0] \in {"single", "return"}
      PROVE  /\ args' \in Ranges /\ IsSingle(args')
             /\ \A n \in Tasks :
                    ran'[n] = IF n = args'[1] /\ at'[0] = "return" THEN 1 ELSE 0
  <2> USE ThreadsFinite DEF callerVars, rangeVars, Goes
  <2>1. CASE RunSingle
    <3>1. PICK r \in Ranges : IsSingle(r) /\ args' = r /\ ran' = NothingRan
      BY <2>1 DEF RunSingle, RunBegins
    <3>2. at'[0] = "single"
      BY <2>1 DEF RunSingle, TypeOK
    <3> QED
      BY <3>1, <3>2 DEF NothingRan
  <2>2. CASE SingleTask
    <3>1. /\ args \in Ranges /\ IsSingle(args) /\ args' = args /\ at'[0] = "return"
          /\ \A n \in Tasks : ran[n] = 0
      BY <2>2 DEF SingleTask, Once, TypeOK
    <3>2. ran' = [ran EXCEPT ![args[1]] = @ + 1]
      BY <2>2 DEF SingleTask
    <3> QED
      BY <3>1, <3>2 DEF TypeOK
  <2>3. CASE ~RunSingle /\ ~SingleTask
    <3>1. ~SetNumThreads /\ ~Destroy /\ ~Resized /\ ~RunParallel
      BY <1>2 DEF SetNumThreads, Destroy, SetDesired, ResizedAndNotified, NotifiedAndCaller,
                  Resized, RunParallel, TypeOK, Threads
    <3>2. ~SingleReturns /\ ~CheckDone
      BY <1>2 DEF SingleReturns, CheckDone, TypeOK
    <3>3. ASSUME \/ SpawnWorker \/ RunRejected \/ UNCHANGED vars
                 \/ \E t \in Threads : WorkerBody(t) \/ Dequeue(t) \/ SpuriousWakeup(t)
          PROVE  at[0] = at'[0] /\ UNCHANGED <<args, ran>>
      BY <1>2, <3>3 DEF SpawnWorker, RunRejected, vars, WorkerBody, Dequeue, SpuriousWakeup,
                        TypeOK, Threads
    <3>4. ~\E t \in Threads : CallFunc(t) \/ Leave(t)
      <4> SUFFICES ASSUME NEW t \in Threads, CallFunc(t) \/ Leave(t) PROVE FALSE
        OBVIOUS
      <4>1. t \in Running
        BY DEF CallFunc, Leave, Running, RunningStates
      <4>2. InParallelRun
        BY <4>1 DEF Membership
      <4> QED
        BY <1>2, <4>2, LeaveUpdate DEF CallFunc, InParallelRun, RunningStates, TypeOK
    <3>5. at[0] = at'[0] /\ UNCHANGED <<args, ran>>
      BY <2>3, <3>1, <3>2, <3>3, <3>4 DEF Next, CallerStep, CallerChoice, ThreadStep, Terminated
    <3> QED
      BY <1>2, <3>5 DEF Once
  <2> QED
    BY <2>1, <2>2, <2>3
<1> QED
  BY <1>1, <1>2 DEF Once, IsSingle

(* The inductive invariant that TLC checks, for every number of threads.   *)
THEOREM PoolInvariant == Spec => []IInv
<1>1. Init => IInv
  BY InitMembership, InitOnce DEF IInv
<1>2. IInv /\ [Next]_vars => IInv'
  BY MembershipInductive, OnceStep DEF IInv, NoWrap
<1> QED
  BY <1>1, <1>2, PTL DEF Spec

(* parallel_runner.h: the thread_id func is called with is below what init *)
(* was told, whatever the size of the pool, of the range and of the call   *)
(* before it. An empty range is the delicate one: init is told 0.          *)
THEOREM ThreadIdsInBounds ==
    ASSUME NoWrap
    PROVE  Spec => []ThreadIdBelowNumThreads
<1>1. ASSUME TypeOK, Membership, CallSetUp, Once, NEW t \in Threads, at[t] = "func"
      PROVE  t < num_threads
  <2>1. t \in Running /\ InParallelRun
    BY <1>1 DEF Membership, Running, RunningStates
  <2>2. Taken(task[t])
    BY <1>1, <2>1 DEF Once, TakenOnce
  <2>3. args \in Ranges /\ ~IsSingle(args) /\ num_threads = NumThreads(args)
        /\ (t # 0 => t - 1 < WorkersNeeded(args))
    BY <1>1, <2>1 DEF CallSetUp
  <2>4. args[1] \in Nat /\ args[2] \in Nat /\ args[2] < Word /\ Word \in Nat
        /\ args[1] < args[2]
    BY <1>1, <2>1, <2>2, BoundsOfCall, RangeIsPair, ResizableAssumption DEF Taken, TypeOK
  <2>5. (args[1] + 1) % Word = args[1] + 1
    BY <2>4, WordArithmetic
  <2>6. args[2] - args[1] > 1
    BY <2>3, <2>4, <2>5 DEF IsSingle
  <2>7. (args[2] - args[1]) % Word = args[2] - args[1]
        /\ (args[2] - args[1] - 1) % Word = args[2] - args[1] - 1
    BY <2>4, <2>6, WordArithmetic
  <2>8. num_threads = AtMost(workers + 1, args[2] - args[1])
        /\ (t # 0 => t - 1 < args[2] - args[1] - 1)
    BY <2>3, <2>7 DEF NumThreads, WorkersNeeded
  <2>9. t # 0 => t <= workers
    BY <1>1 DEF Membership, WorkerThreads, TypeOK, Threads
  <2>10. t \in Nat /\ workers \in Nat
    BY <1>1, ThreadsFinite DEF Threads, TypeOK
  <2>11. AtMost(workers + 1, args[2] - args[1]) \in {workers + 1, args[2] - args[1]}
    BY DEF AtMost
  <2> QED
    BY <2>4, <2>6, <2>8, <2>9, <2>10, <2>11
<1>2. TypeOK /\ Membership /\ CallSetUp /\ Once => ThreadIdBelowNumThreads
  BY <1>1 DEF ThreadIdBelowNumThreads
<1>3. Init => TypeOK /\ Membership /\ CallSetUp /\ Once
  BY InitMembership, InitOnce
<1>4. TypeOK /\ Membership /\ CallSetUp /\ Once /\ [Next]_vars
        => (TypeOK /\ Membership /\ CallSetUp /\ Once)'
  BY MembershipInductive, OnceStep
<1> QED
  BY <1>2, <1>3, <1>4, PTL DEF Spec

-----------------------------------------------------------------------------
(* The refinement mapping of Contract.                                     *)
Calling == op = "run" /\ at[0] # "idle"
InRange(n) == args[1] <= n /\ n < args[2]

LEMMA InitContract == Init => Contract!Init
  BY DEF Init, Contract!Init, NothingRan

(* A range that the caller runs alone holds one number.                    *)
LEMMA SingleRange ==
    ASSUME NoWrap, NEW r \in Ranges, IsSingle(r)
    PROVE  r[1] \in Tasks /\ r[1] \in Nat /\ r[2] = r[1] + 1
<1>1. r[1] \in Nat /\ r[1] + 1 \in 0 .. Word - 1 /\ r[1] \in Tasks
  BY Values, RangeIsPair, ThreadsFinite, ResizableAssumption DEF NoWrap
<1>2. (r[1] + 1) % Word = r[1] + 1
  BY <1>1, WordArithmetic
<1> QED
  BY <1>1, <1>2 DEF IsSingle

LEMMA AcceptStep ==
    ASSUME TypeOK, Membership, RunSingle \/ RunParallel
    PROVE  Contract!Accept
<1>1. PICK r \in Ranges : RunBegins(r)
  BY DEF RunSingle, RunParallel
<1>2. ~Calling
  BY <1>1 DEF RunBegins, CallerFree, Calling
<1>3. at'[0] # "idle"
  BY ThreadsFinite DEF RunSingle, RunParallel, Goes, NotifiedAndCaller, TypeOK
<1>4. args' \in Nat \X Nat /\ ran' = [n \in Tasks |-> 0] /\ Calling'
  BY <1>1, <1>3, ResizableAssumption DEF RunBegins, NothingRan, Calling
<1> QED
  BY <1>2, <1>4 DEF Contract!Accept, Calling

(* A number is given to func by one of the threads, or by the caller alone.*)
LEMMA NumberCalled ==
    ASSUME NoWrap, TypeOK, Membership, CallSetUp, Once,
           SingleTask \/ \E t \in Threads : CallFunc(t)
    PROVE  Contract!CallFunc
<1>1. PICK n \in Tasks : /\ Calling /\ Calling' /\ InRange(n) /\ ran[n] = 0
                         /\ ran' = [ran EXCEPT ![n] = @ + 1] /\ UNCHANGED args
  <2>1. CASE SingleTask
    <3>1. /\ args \in Ranges /\ IsSingle(args) /\ op = "run"
          /\ \A n \in Tasks : ran[n] = 0
      BY <2>1 DEF SingleTask, Once, Membership
    <3>2. /\ ran' = [ran EXCEPT ![args[1]] = @ + 1] /\ UNCHANGED <<args, op>>
          /\ at[0] = "single" /\ at'[0] = "return"
      BY <2>1, ThreadsFinite DEF SingleTask, Goes, callerVars, TypeOK
    <3>3. args[1] \in Nat /\ args[1] \in Tasks /\ args[2] = args[1] + 1
      BY <3>1, SingleRange
    <3>4. Calling /\ Calling' /\ InRange(args[1])
      BY <3>1, <3>2, <3>3 DEF Calling, InRange
    <3> QED
      BY <3>1, <3>2, <3>3, <3>4
  <2>2. ASSUME NEW t \in Threads, CallFunc(t)
        PROVE  \E n \in Tasks : /\ Calling /\ Calling' /\ InRange(n) /\ ran[n] = 0
                                /\ ran' = [ran EXCEPT ![n] = @ + 1] /\ UNCHANGED args
    <3>1. at[t] = "func" /\ at' = [at EXCEPT ![t] = "dequeue"] /\ UNCHANGED <<op, args>>
          /\ ran' = [ran EXCEPT ![task[t]] = @ + 1]
      BY <2>2 DEF CallFunc, Goes, callerVars
    <3>2. InParallelRun
      BY <3>1 DEF Membership, Running, RunningStates
    <3>3. Calling /\ Calling'
      BY <3>1, <3>2, ThreadsFinite DEF Membership, Calling, InParallelRun, RunningStates, TypeOK
    <3>4. task[t] \in Tasks /\ InRange(task[t]) /\ ran[task[t]] = 0
      BY <2>2, <3>2, CallFuncStep DEF Taken, InRange
    <3> QED
      BY <3>1, <3>3, <3>4
  <2> QED
    BY <2>1, <2>2
<1>2. ran' = [ran EXCEPT ![n] = 1]
  BY <1>1 DEF TypeOK
<1> QED
  BY <1>1, <1>2 DEF Contract!CallFunc, Contract!InRange, InRange, Calling

LEMMA ReturnStep ==
    ASSUME NoWrap, TypeOK, Membership, CallSetUp, Once,
           SingleReturns \/ (CheckDone /\ num_running_workers = 0)
    PROVE  Contract!Return
<1>1. SUFFICES /\ Calling /\ ~Calling' /\ UNCHANGED <<args, ran>>
               /\ \A n \in Tasks : InRange(n) => ran[n] = 1
  BY DEF Contract!Return, Contract!InRange, InRange, Calling
<1>2. at[0] \in {"return", "check"} /\ at'[0] = "idle" /\ UNCHANGED <<args, ran>>
  BY ThreadsFinite DEF SingleReturns, CheckDone, Goes, TypeOK
<1>3. Calling /\ ~Calling'
  BY <1>2 DEF Membership, InParallelRun, Calling
<1>4. CASE SingleReturns
  <2>1. args \in Ranges /\ IsSingle(args)
        /\ \A n \in Tasks : ran[n] = IF n = args[1] THEN 1 ELSE 0
    BY <1>4 DEF SingleReturns, Once
  <2>2. args[1] \in Nat /\ args[2] = args[1] + 1
    BY <2>1, SingleRange
  <2>3. \A n \in Tasks : InRange(n) => n = args[1]
    BY <2>2, ResizableAssumption DEF InRange
  <2> QED
    BY <1>2, <1>3, <2>1, <2>3
<1>5. CASE CheckDone /\ num_running_workers = 0
  <2>1. at[0] = "check" /\ InParallelRun /\ Bounded /\ TakenOnce
    BY <1>5 DEF CheckDone, InParallelRun, Once
  <2>2. Running = {}
    BY <1>5, ThreadCount DEF Membership, Running
  <2>3. \A n : ~Held(n)
    BY <2>2 DEF Held, Holds, Running, RunningStates
  <2>4. next_task >= args[2]
    BY <2>1 DEF Membership, Bounded, RunningStates
  <2>5. \A n \in Tasks : InRange(n) => Taken(n)
    BY <2>1, <2>4, BoundsOfCall DEF InRange, Taken
  <2> QED
    BY <1>2, <1>3, <2>1, <2>3, <2>5 DEF TakenOnce
<1> QED
  BY <1>4, <1>5

(* Everything else happens inside of the pool or between calls.            *)
LEMMA InternalStep ==
    ASSUME TypeOK, Membership,
           \/ SetNumThreads \/ Destroy \/ SpawnWorker \/ Resized \/ RunRejected
           \/ CheckDone /\ num_running_workers # 0
           \/ \E t \in Threads : WorkerBody(t) \/ Dequeue(t) \/ Leave(t) \/ SpuriousWakeup(t)
           \/ UNCHANGED vars
    PROVE  UNCHANGED <<Calling, args, ran>>
<1> USE ThreadsFinite DEF callerVars, rangeVars, Goes, Calling
<1>1. CASE SetNumThreads \/ Destroy \/ RunRejected
  BY <1>1 DEF SetNumThreads, Destroy, SetDesired, RunRejected, CallerFree
<1>2. CASE SpawnWorker \/ Resized
  BY <1>2 DEF SpawnWorker, Resized, Membership
<1>3. CASE CheckDone /\ num_running_workers # 0
  BY <1>3 DEF CheckDone, TypeOK
<1>4. ASSUME NEW t \in Threads, WorkerBody(t) \/ Dequeue(t) \/ SpuriousWakeup(t)
      PROVE  UNCHANGED <<Calling, args, ran>>
  BY <1>4 DEF WorkerBody, Dequeue, SpuriousWakeup, TypeOK
<1>5. ASSUME NEW t \in Threads, Leave(t)
      PROVE  UNCHANGED <<Calling, args, ran>>
  BY <1>5, LeaveUpdate DEF Leave
<1> QED
  BY <1>1, <1>2, <1>3, <1>4, <1>5 DEF vars

LEMMA ContractStep ==
    ASSUME NoWrap, TypeOK, Membership, CallSetUp, Once, [Next]_vars
    PROVE  [Contract!Next]_(Contract!vars)
<1>1. CASE UNCHANGED <<Calling, args, ran>>
  BY <1>1 DEF Contract!vars, Calling
<1>2. CASE Contract!Accept \/ Contract!CallFunc \/ Contract!Return
  BY <1>2 DEF Contract!Next
<1>3. CASE CallerStep \/ CallerChoice
  <2>1. CASE RunSingle \/ RunParallel \/ SingleTask
    BY <1>2, <2>1, AcceptStep, NumberCalled
  <2>2. CASE SingleReturns \/ CheckDone
    <3>1. CASE SingleReturns \/ (CheckDone /\ num_running_workers = 0)
      BY <1>2, <3>1, ReturnStep
    <3>2. CASE CheckDone /\ num_running_workers # 0
      BY <1>1, <3>2, InternalStep
    <3> QED
      BY <2>2, <3>1, <3>2
  <2>3. CASE SetNumThreads \/ Destroy \/ SpawnWorker \/ Resized \/ RunRejected
    BY <1>1, <2>3, InternalStep
  <2> QED
    BY <1>3, <2>1, <2>2, <2>3 DEF CallerStep, CallerChoice
<1>4. ASSUME NEW t \in Threads, ThreadStep(t) \/ SpuriousWakeup(t)
      PROVE  [Contract!Next]_(Contract!vars)
  BY <1>1, <1>2, <1>4, NumberCalled, InternalStep DEF ThreadStep
<1>5. CASE UNCHANGED vars
  BY <1>1, <1>5, InternalStep
<1> QED
  BY <1>3, <1>4, <1>5 DEF Next, Terminated

(* The pool keeps the promise of parallel_runner.h, for every number of    *)
(* threads and every sequence of resizes: no number is given to func twice *)
(* or outside of its call, and a call that returns has given all of them.  *)
THEOREM PoolImplementsContract ==
    ASSUME NoWrap
    PROVE  Spec => Refinement
<1> DEFINE Inv == TypeOK /\ Membership /\ CallSetUp /\ Once
<1>1. Inv /\ [Next]_vars => Inv'
  BY MembershipInductive, OnceStep
<1>2. Init => Inv /\ Contract!Init
  BY InitMembership, InitOnce, InitContract
<1>3. Inv /\ [Next]_vars => [Contract!Next]_(Contract!vars)
  BY ContractStep
<1> HIDE DEF Inv
<1> QED
  BY <1>1, <1>2, <1>3, PTL DEF Spec, Refinement, Contract!Spec
=============================================================================
