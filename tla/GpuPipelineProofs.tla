-------------------------- MODULE GpuPipelineProofs --------------------------
(***************************************************************************)
(* Proofs about GpuContext, for any set of buffers and pipelines, any pool *)
(* size and any failures, those of the waits included, and about           *)
(* GpuPipeline, for any jobs and dimensions: what the pipelines own, and   *)
(* that what they return are the norms the reference computes, whatever    *)
(* fails.                                                                  *)
(***************************************************************************)
EXTENDS GpuPipelineInvariant, MetricProofs

-----------------------------------------------------------------------------
(* The context.                                                            *)

(* Every failure of alloc_buffer leaves a part of the new handle behind.   *)
LEMMA FailedAllocsAreFresh ==
    ASSUME NEW b \in Fresh, NEW k \in FailedAllocs(b)
    PROVE  /\ k.live \subseteq Fresh /\ k.unbound \subseteq Fresh
           /\ k.live \subseteq {b} /\ k.unbound \subseteq {b}
  BY DEF FailedAllocs

LEMMA NoSetsAreSets ==
    NoSets \in [Pipes -> 0 .. MaxSets] /\ \A p \in Pipes : NoSets[p] = 0
  BY ContextAssumption DEF NoSets

LEMMA InitIInv == Init => IInv
<1> SUFFICES ASSUME Init PROVE IInv
  OBVIOUS
<1>1. TypeOK
  BY NoSetsAreSets DEF Init, TypeOK
<1>2. Ownership
  BY ContextAssumption DEF Init, Ownership, OneOwner
<1>3. PoolsDrain
  BY NoSetsAreSets DEF Init, PoolsDrain
<1> QED
  BY <1>1, <1>2, <1>3 DEF IInv

LEMMA CreateBufferStep ==
    ASSUME IInv, NEW ok \in BOOLEAN, NEW s \in Buffers, NEW d \in Buffers,
           CreateBuffer(s, d, ok)
    PROVE  IInv'
<1> USE DEF IInv
<1>1. PoolsDrain'
  BY DEF CreateBuffer, PoolsDrain, pipeVars
<1>2. TypeOK'
  <2>1. live' \subseteq Buffers /\ unbound' \subseteq Buffers /\ caller' \subseteq Buffers
        /\ refs' \subseteq Buffers /\ trash' \subseteq Buffers
    BY FailedAllocsAreFresh DEF CreateBuffer, TypeOK, Fresh, StagingHandedOver
  <2>2. pending' \subseteq Buffers
    BY DEF CreateBuffer, TypeOK, OneShot
  <2> QED
    BY <2>1, <2>2 DEF CreateBuffer, TypeOK, stagingVars, pipeVars
<1>3. Ownership'
  BY ContextAssumption, FailedAllocsAreFresh
  DEF CreateBuffer, Ownership, OneOwner, TypeOK, Fresh, StagingHandedOver, stagingVars
<1> QED
  BY <1>1, <1>2, <1>3

LEMMA CreateEmptyStep ==
    ASSUME IInv, NEW ok \in BOOLEAN, NEW b \in Buffers, CreateEmpty(b, ok)
    PROVE  IInv'
<1> USE DEF IInv
<1>1. TypeOK'
  BY FailedAllocsAreFresh
  DEF CreateEmpty, TypeOK, Fresh, stagingVars, batchVars, pipeVars
<1>2. Ownership'
  BY ContextAssumption, FailedAllocsAreFresh
  DEF CreateEmpty, Ownership, OneOwner, TypeOK, Fresh, stagingVars, batchVars
<1>3. PoolsDrain'
  BY DEF CreateEmpty, PoolsDrain, batchVars, pipeVars
<1> QED
  BY <1>1, <1>2, <1>3

LEMMA DestroyBufferStep ==
    ASSUME IInv, NEW b \in Buffers, DestroyBuffer(b)
    PROVE  IInv'
<1> USE DEF IInv
<1>1. TypeOK'
  BY DEF DestroyBuffer, DestroyOrTrash, TypeOK, stagingVars, pipeVars
<1>2. Ownership'
  BY DEF DestroyBuffer, DestroyOrTrash, Ownership, OneOwner, TypeOK, stagingVars
<1>3. PoolsDrain'
  BY DEF DestroyBuffer, PoolsDrain, pipeVars
<1> QED
  BY <1>1, <1>2, <1>3

(* A dispatch keeps a pool and the open batch in step; the pools of the    *)
(* other pipelines are left alone.                                         *)
LEMMA RunComputePushStep ==
    ASSUME IInv, NEW ok \in BOOLEAN, NEW p \in Pipes, NEW bs \in SUBSET caller,
           RunComputePush(p, bs, ok)
    PROVE  IInv'
<1> USE DEF IInv
<1>1. MaxSets \in Nat /\ 0 \in 0 .. MaxSets /\ 1 \in 0 .. MaxSets
  <2>1. MaxSets \in Nat \ {0}
    BY ContextAssumption, Zenon
  <2> QED
    BY <2>1
<1>2. ~open => \A q \in Pipes : batchSets[q] = 0
  BY NoSetsAreSets DEF Ownership
<1>3. /\ live' \subseteq Buffers /\ unbound' \subseteq Buffers
      /\ caller' \subseteq Buffers /\ refs' \subseteq Buffers
      /\ trash' \subseteq Buffers /\ pending' \subseteq Buffers
  BY DEF RunComputePush, TypeOK, OneShot, bufferVars
<1>4. batchSets' \in [Pipes -> 0 .. MaxSets] /\ sets' \in [Pipes -> 0 .. MaxSets]
      /\ PoolsDrain'
  <2>1. CASE UNCHANGED <<sets, batchSets>>
    BY <2>1 DEF TypeOK, PoolsDrain
  <2>2. CASE ~open /\ UNCHANGED batchSets
             /\ (sets' = [sets EXCEPT ![p] = 0] \/ sets' = [sets EXCEPT ![p] = 1])
    BY <2>2, <1>1, <1>2 DEF TypeOK, PoolsDrain
  <2>3. CASE /\ sets[p] < MaxSets
             /\ sets' = [sets EXCEPT ![p] = @ + 1]
             /\ batchSets' = [batchSets EXCEPT ![p] = @ + 1]
    BY <2>3, <1>1 DEF TypeOK, PoolsDrain
  <2> QED
    BY <2>1, <2>2, <2>3 DEF RunComputePush, RoomInPool, pipeVars
<1>5. TypeOK'
  BY <1>3, <1>4 DEF RunComputePush, TypeOK, bufferVars, stagingVars, pipeVars
<1>6. Ownership'
  BY DEF RunComputePush, Ownership, OneOwner, bufferVars, stagingVars
<1> QED
  BY <1>4, <1>5, <1>6

LEMMA ReadbackStep ==
    ASSUME IInv, NEW ok \in BOOLEAN, NEW total \in Nat, NEW bs \in SUBSET caller,
           NEW s, NEW t, ReadbackAll(bs, total, s, t, ok)
    PROVE  IInv'
<1> USE DEF IInv
<1>1. /\ staging' \in Buffers \cup {NoBuffer} /\ stagingSize' \in Nat
      /\ live' \subseteq Buffers /\ unbound' \subseteq Buffers
  BY ContextAssumption, FailedAllocsAreFresh
  DEF ReadbackAll, NoStagingLeft, KeepStaging, ReplaceStaging, TypeOK, Fresh,
      stagingVars
<1>2. pending' \subseteq Buffers
  BY <1>1, ContextAssumption
  DEF ReadbackAll, NoStagingLeft, KeepStaging, ReplaceStaging, TypeOK, OneShot,
      stagingVars
<1>3. TypeOK'
  BY <1>1, <1>2 DEF ReadbackAll, TypeOK, batchVars, pipeVars
<1>4. Ownership'
  <2>1. caller \cup trash \subseteq live' /\ staging' \notin caller \cup trash
        /\ (staging' # NoBuffer => staging' \in live')
    BY ContextAssumption, FailedAllocsAreFresh
    DEF ReadbackAll, NoStagingLeft, KeepStaging, ReplaceStaging, TypeOK,
        Ownership, OneOwner, Fresh, stagingVars
  <2> QED
    BY <2>1 DEF ReadbackAll, Ownership, OneOwner, batchVars
<1>5. PoolsDrain'
  BY DEF ReadbackAll, PoolsDrain, batchVars, pipeVars
<1> QED
  BY <1>3, <1>4, <1>5

LEMMA BeginBatchStep ==
    ASSUME IInv, NEW ok \in BOOLEAN, BeginBatch(ok)
    PROVE  IInv'
<1> USE DEF IInv
<1>1. TypeOK'
  <2>1. cmdbufs' \in Nat
    BY DEF BeginBatch, TypeOK
  <2>2. open' \in BOOLEAN
    BY Zenon DEF BeginBatch, TypeOK
  <2> QED
    BY <2>1, <2>2 DEF BeginBatch, TypeOK, bufferVars, stagingVars, pipeVars
<1>2. Ownership'
  BY DEF BeginBatch, Ownership, OneOwner, TypeOK, bufferVars, stagingVars
<1>3. PoolsDrain'
  BY DEF BeginBatch, PoolsDrain, pipeVars
<1> QED
  BY <1>1, <1>2, <1>3

(* Everything the batch holds is released, and nothing else.               *)
LEMMA FinishBatchStep ==
    ASSUME IInv, NEW submit \in BOOLEAN, NEW ok \in BOOLEAN, FinishBatch(submit, ok)
    PROVE  IInv'
<1> USE DEF IInv
<1>1. cmdbufs' \in Nat
  BY DEF FinishBatch, TypeOK, Ownership
<1>2. pending' \subseteq Buffers
  BY DEF FinishBatch, TypeOK
<1>3. sets' \in [Pipes -> 0 .. MaxSets] /\ \A p \in Pipes : 0 <= sets'[p] /\ sets'[p] <= 1
  BY ContextAssumption DEF FinishBatch, BatchSetsFreed, TypeOK, PoolsDrain
<1>4. TypeOK'
  BY <1>1, <1>2, <1>3, NoSetsAreSets
  DEF FinishBatch, TrashReleased, TypeOK, stagingVars
<1>5. Ownership'
  BY DEF FinishBatch, TrashReleased, Ownership, OneOwner, stagingVars
<1>6. PoolsDrain'
  BY <1>3, NoSetsAreSets DEF FinishBatch, PoolsDrain
<1> QED
  BY <1>4, <1>5, <1>6

LEMMA DropStep ==
    ASSUME IInv, Drop
    PROVE  IInv'
<1> USE DEF IInv
<1>1. TypeOK'
  BY NoSetsAreSets, ContextAssumption DEF Drop, TypeOK, batchVars
<1>2. Ownership'
  BY ContextAssumption, NoSetsAreSets
  DEF Drop, Ownership, OneOwner, TypeOK, batchVars
<1>3. PoolsDrain'
  BY NoSetsAreSets DEF Drop, PoolsDrain, Ownership, batchVars
<1> QED
  BY <1>1, <1>2, <1>3

LEMMA IdleStep ==
    ASSUME IInv, GpuFinishes \/ UNCHANGED vars
    PROVE  IInv'
<1>1. CASE GpuFinishes
  BY <1>1 DEF GpuFinishes, IInv, TypeOK, Ownership, OneOwner, PoolsDrain,
              bufferVars, stagingVars, batchVars, pipeVars
<1>2. CASE UNCHANGED vars
  BY <1>2 DEF vars, IInv, TypeOK, Ownership, OneOwner, PoolsDrain,
              bufferVars, stagingVars, batchVars, pipeVars
<1> QED
  BY <1>1, <1>2

LEMMA Inductive == IInv /\ [Next]_vars => IInv'
<1> SUFFICES ASSUME IInv, [Next]_vars PROVE IInv'
  OBVIOUS
<1>1. ASSUME NEW ok \in BOOLEAN, NEW p \in Pipes, NEW bs \in SUBSET caller,
             RunComputePush(p, bs, ok)
      PROVE  IInv'
  BY <1>1, RunComputePushStep
<1>2. ASSUME NEW ok \in BOOLEAN, NEW total \in Sizes, NEW b \in caller,
             NEW s \in Buffers, NEW t \in Buffers,
             ReadbackAll({b}, total, s, t, ok)
      PROVE  IInv'
  <2>1. total \in Nat
    BY ContextAssumption
  <2> QED
    BY <1>2, <2>1, ReadbackStep
<1>3. CASE ClientCall
  BY <1>1, <1>2, <1>3, CreateBufferStep, CreateEmptyStep, BeginBatchStep,
     FinishBatchStep DEF ClientCall
<1>4. CASE Destroy
  BY <1>4, DestroyBufferStep DEF Destroy
<1> QED
  BY <1>3, <1>4, DropStep, IdleStep DEF Next, Gone

(* Whatever a client that keeps to the buffers it owns calls, and whatever *)
(* fails, the context knows what it owns: everything recorded commands     *)
(* refer to is the client's or the batch's trash, a closed batch holds     *)
(* nothing, and no pool has given out more sets than it will free.         *)
THEOREM ContextInvariant == Spec => []IInv
  BY InitIInv, Inductive, PTL DEF Spec

(* Whatever fails, commands that are recorded refer to live buffers only,  *)
(* no buffer has two owners who would both release it, and the descriptor  *)
(* pools are back where they were after each batch.                        *)
THEOREM BuffersOutliveTheirCommands ==
    Spec => [](TypeOK /\ RecordedAlive /\ OneOwner /\ PoolsDrain)
<1>1. IInv => TypeOK /\ RecordedAlive /\ OneOwner /\ PoolsDrain
  BY DEF IInv, Ownership, OneOwner, RecordedAlive
<1> QED
  BY <1>1, InitIInv, Inductive, PTL DEF Spec

-----------------------------------------------------------------------------
(* Without the leaky failures only a failed vkCreateBuffer fails an        *)
(* alloc_buffer, and it leaves nothing; every submission succeeds.         *)
LEMMA CleanCalls ==
    ASSUME Failures \cap LeakyFailures = {}
    PROVE  /\ \A b \in Buffers : \A k \in FailedAllocs(b) : k.live = {} /\ k.unbound = {}
           /\ \A used : ~OneShot(used, FALSE)
<1>1. /\ "memory" \notin Failures /\ "bind" \notin Failures
      /\ Failures \cap OneShotFailures = {}
  BY DEF LeakyFailures
<1> QED
  BY <1>1 DEF FailedAllocs, OneShot

(* Every call hands what it creates to an owner.                           *)
LEMMA CallsLeakNothing ==
    ASSUME Failures \cap LeakyFailures = {}, IInv, NoLeak,
           NEW ok \in BOOLEAN, NEW submit, NEW s, NEW d, NEW p, NEW bs, NEW total
    PROVE  /\ CreateBuffer(s, d, ok) => NoLeak'
           /\ CreateEmpty(d, ok) => NoLeak'
           /\ DestroyBuffer(d) => NoLeak'
           /\ RunComputePush(p, bs, ok) => NoLeak'
           /\ ReadbackAll(bs, total, s, d, ok) => NoLeak'
           /\ BeginBatch(ok) => NoLeak'
           /\ FinishBatch(submit, ok) => NoLeak'
           /\ Drop => NoLeak'
<1> USE DEF NoLeak
<1>0. /\ s \in Fresh => \A k \in FailedAllocs(s) : k.live = {} /\ k.unbound = {}
      /\ d \in Fresh => \A k \in FailedAllocs(d) : k.live = {} /\ k.unbound = {}
      /\ \A used : ~OneShot(used, FALSE)
  BY CleanCalls DEF Fresh
<1>1. ASSUME CreateBuffer(s, d, ok)
      PROVE  NoLeak'
  <2>1. CASE ok /\ open
    BY <1>1, <2>1 DEF CreateBuffer, StagingHandedOver, stagingVars
  <2>2. CASE ok /\ ~open
    BY <1>1, <2>2 DEF CreateBuffer, stagingVars
  <2>3. CASE ~ok
    BY <1>0, <1>1, <2>3 DEF CreateBuffer, stagingVars
  <2> QED
    BY <2>1, <2>2, <2>3
<1>2. ASSUME CreateEmpty(d, ok)
      PROVE  NoLeak'
  BY <1>0, <1>2 DEF CreateEmpty, stagingVars, batchVars
<1>3. ASSUME DestroyBuffer(d)
      PROVE  NoLeak'
  BY <1>3 DEF DestroyBuffer, DestroyOrTrash, stagingVars
<1>4. ASSUME RunComputePush(p, bs, ok)
      PROVE  NoLeak'
  BY <1>4 DEF RunComputePush, bufferVars, stagingVars
<1>5. ASSUME ReadbackAll(bs, total, s, d, ok)
      PROVE  NoLeak'
  BY <1>0, <1>5
  DEF ReadbackAll, NoStagingLeft, KeepStaging, ReplaceStaging, stagingVars, batchVars
<1>6. ASSUME BeginBatch(ok)
      PROVE  NoLeak'
  BY <1>6 DEF BeginBatch, bufferVars, stagingVars
<1>7. ASSUME FinishBatch(submit, ok)
      PROVE  NoLeak'
  BY <1>7 DEF FinishBatch, TrashReleased, stagingVars
<1>8. ASSUME Drop
      PROVE  NoLeak'
  BY <1>8 DEF Drop, IInv, Ownership, batchVars
<1> QED
  BY <1>1, <1>2, <1>3, <1>4, <1>5, <1>6, <1>7, <1>8

LEMMA NoLeakStep ==
    ASSUME Failures \cap LeakyFailures = {}, IInv, NoLeak, [Next]_vars
    PROVE  NoLeak'
<1>1. CASE ClientCall
  BY <1>1, CallsLeakNothing DEF ClientCall
<1>2. CASE GpuFinishes \/ UNCHANGED vars
  BY <1>2 DEF NoLeak, GpuFinishes, vars, bufferVars, stagingVars, batchVars
<1> QED
  BY <1>1, <1>2, CallsLeakNothing DEF Next, Destroy, Gone

(* As long as none of the leaky failures happens, whatever else fails,     *)
(* every buffer that exists has an owner who releases it.                  *)
THEOREM EveryBufferHasAnOwner ==
    ASSUME Failures \cap LeakyFailures = {}
    PROVE  Spec => []NoLeak
<1>1. Init => NoLeak
  BY DEF Init, NoLeak
<1>2. IInv /\ NoLeak /\ [Next]_vars => IInv' /\ NoLeak'
  BY NoLeakStep, Inductive
<1> QED
  BY <1>1, <1>2, InitIInv, PTL DEF Spec

-----------------------------------------------------------------------------
(* The bodies of the loops.                                                *)

Kinds == {"downsample", "halve", "xyb", "mul", "blur", "empty", "maps"}
Operations == [kind : Kinds, side : {"o", "v", "p"}, var : Variables]

(* A body has its operations of a kind among five consecutive ones.        *)
WellFormed(B) ==
    /\ B \in Seq(Operations) /\ Len(B) > 0
    /\ \A i \in DOMAIN B : B[i].kind = "downsample" => i \in 1 .. 3
    /\ \A K \in Kinds : \E a \in Nat :
        \A i \in DOMAIN B : B[i].kind = K => i \in a + 1 .. a + 5

LEMMA Joined ==
    ASSUME NEW p \in Seq(Operations), NEW q \in Seq(Operations)
    PROVE  /\ p \o q \in Seq(Operations)
           /\ Len(p \o q) = Len(p) + Len(q)
           /\ DOMAIN (p \o q) = 1 .. Len(p) + Len(q)
           /\ \A i \in 1 .. Len(p) + Len(q) :
                (p \o q)[i] = IF i <= Len(p) THEN p[i] ELSE q[i - Len(p)]
  BY ConcatProperties

LEMMA MapsShape ==
    /\ Maps \in Seq(Operations) /\ Len(Maps) = 3
    /\ \A i \in 1 .. 3 : Maps[i].kind = "empty" \/ (i = 3 /\ Maps[i].kind = "maps")
  BY DEF Maps, Op, Operations, Kinds, Variables

(* Before the maps of a body whose operations of a kind are close enough.  *)
LEMMA MapsFollow ==
    ASSUME NEW B \in Seq(Operations),
           \A i \in DOMAIN B : /\ B[i].kind \notin {"empty", "maps"}
                               /\ B[i].kind = "downsample" => i \in 1 .. 3,
           \A K \in Kinds : \E a \in Nat :
               \A i \in DOMAIN B : B[i].kind = K => i \in a + 1 .. a + 5
    PROVE  WellFormed(B \o Maps)
<1> DEFINE C == B \o Maps
<1> HIDE DEF C
<1>1. /\ C \in Seq(Operations) /\ Len(C) = Len(B) + 3 /\ DOMAIN C = 1 .. Len(B) + 3
      /\ \A i \in DOMAIN C : C[i] = IF i <= Len(B) THEN B[i] ELSE Maps[i - Len(B)]
  <2>1. /\ B \o Maps \in Seq(Operations) /\ Len(B \o Maps) = Len(B) + Len(Maps)
        /\ DOMAIN (B \o Maps) = 1 .. Len(B) + Len(Maps)
        /\ \A i \in 1 .. Len(B) + Len(Maps) :
             (B \o Maps)[i] = IF i <= Len(B) THEN B[i] ELSE Maps[i - Len(B)]
    BY Joined, MapsShape
  <2> QED
    BY <2>1, MapsShape DEF C
<1>2. Len(B) \in Nat /\ DOMAIN B = 1 .. Len(B)
  BY LenProperties
<1>3. Len(C) > 0
  BY <1>1, <1>2
<1>4. \A i \in DOMAIN C : i > Len(B) => C[i].kind \in {"empty", "maps"}
  <2> SUFFICES ASSUME NEW i \in DOMAIN C, i > Len(B) PROVE C[i].kind \in {"empty", "maps"}
    OBVIOUS
  <2>1. C[i] = Maps[i - Len(B)] /\ i - Len(B) \in 1 .. 3
    BY <1>1, <1>2
  <2> QED
    BY <2>1, MapsShape
<1>5. \A i \in DOMAIN C : C[i].kind \notin {"empty", "maps"} => i \in DOMAIN B /\ C[i] = B[i]
  BY <1>1, <1>2, <1>4
<1>6. \A i \in DOMAIN C : C[i].kind = "downsample" => i \in 1 .. 3
  BY <1>5
<1>7. ASSUME NEW K \in Kinds
      PROVE  \E a \in Nat : \A i \in DOMAIN C : C[i].kind = K => i \in a + 1 .. a + 5
  <2>1. CASE K \in {"empty", "maps"}
    <3>1. ASSUME NEW i \in DOMAIN C, C[i].kind = K PROVE i \in Len(B) + 1 .. Len(B) + 5
      <4>1. i \in 1 .. Len(B) + 3
        BY <1>1
      <4>2. CASE i <= Len(B)
        <5>1. i \in DOMAIN B /\ C[i] = B[i]
          BY <4>1, <4>2, <1>1, <1>2
        <5> QED
          BY <5>1, <3>1, <2>1
      <4> QED
        BY <4>1, <4>2, <1>2
    <3> QED
      BY <3>1, <1>2
  <2>2. CASE K \notin {"empty", "maps"}
    <3>1. PICK a \in Nat : \A i \in DOMAIN B : B[i].kind = K => i \in a + 1 .. a + 5
      OBVIOUS
    <3>2. \A i \in DOMAIN C : C[i].kind = K => i \in a + 1 .. a + 5
      BY <2>2, <3>1, <1>5
    <3> QED
      BY <3>2
  <2> QED
    BY <2>1, <2>2
<1> QED
  BY <1>1, <1>3, <1>6, <1>7 DEF WellFormed, C

LEMMA SingleShape == \A k \in Nat : WellFormed(SingleBody(k))
<1> DEFINE T == <<Op("xyb", "o", "x"), Op("xyb", "v", "x"),
      Op("mul", "o", "m"), Op("mul", "v", "m"), Op("mul", "p", "m"),
      Op("blur", "o", "s"), Op("blur", "v", "s"), Op("blur", "p", "s"),
      Op("blur", "o", "mu"), Op("blur", "v", "mu")>>
<1>1. /\ T \in Seq(Operations) /\ Len(T) = 10 /\ DOMAIN T = 1 .. 10
      /\ \A i \in 1 .. 10 :
            /\ T[i].kind \in {"xyb", "mul", "blur"}
            /\ T[i].kind = "xyb" => i \in 1 .. 2
            /\ T[i].kind = "mul" => i \in 3 .. 5
            /\ T[i].kind = "blur" => i \in 6 .. 10
  BY DEF Op, Operations, Kinds, Variables
<1>2. /\ ShrinksBoth \in Seq(Operations) /\ Len(ShrinksBoth) = 3
      /\ \A i \in 1 .. 3 : ShrinksBoth[i].kind \in {"downsample", "halve"}
  BY DEF ShrinksBoth, Op, Operations, Kinds, Variables
<1> HIDE DEF T
<1>3. WellFormed(T \o Maps)
  <2>2. ASSUME NEW K \in Kinds
        PROVE  \E a \in Nat : \A i \in DOMAIN T : T[i].kind = K => i \in a + 1 .. a + 5
    <3>1. CASE K = "blur"
      <4>1. \A i \in DOMAIN T : T[i].kind = K => i \in 5 + 1 .. 5 + 5
        BY <3>1, <1>1
      <4> QED
        BY <4>1
    <3>2. CASE K # "blur"
      <4>1. \A i \in DOMAIN T : T[i].kind = K => i \in 0 + 1 .. 0 + 5
        BY <3>2, <1>1
      <4> QED
        BY <4>1
    <3> QED
      BY <3>1, <3>2
  <2> QED
    BY <1>1, <2>2, MapsFollow
<1>4. WellFormed((ShrinksBoth \o T) \o Maps)
  <2> DEFINE B == ShrinksBoth \o T
  <2>1. /\ B \in Seq(Operations) /\ Len(B) = 13 /\ DOMAIN B = 1 .. 13
        /\ \A i \in 1 .. 13 : B[i] = IF i <= 3 THEN ShrinksBoth[i] ELSE T[i - 3]
    <3>1. /\ B \in Seq(Operations) /\ Len(B) = Len(ShrinksBoth) + Len(T)
          /\ DOMAIN B = 1 .. Len(ShrinksBoth) + Len(T)
          /\ \A i \in 1 .. Len(ShrinksBoth) + Len(T) :
               B[i] = IF i <= Len(ShrinksBoth) THEN ShrinksBoth[i]
                      ELSE T[i - Len(ShrinksBoth)]
      BY <1>1, <1>2, Joined
    <3>2. Len(ShrinksBoth) = 3 /\ Len(T) = 10
      BY <1>1, <1>2
    <3> HIDE DEF B
    <3> QED
      BY <3>1, <3>2
  <2> HIDE DEF B
  <2>2. \A i \in 1 .. 13 : \/ i <= 3 /\ B[i].kind \in {"downsample", "halve"}
                           \/ /\ i > 3 /\ B[i].kind \in {"xyb", "mul", "blur"}
                              /\ B[i].kind = "xyb" => i \in 4 .. 5
                              /\ B[i].kind = "mul" => i \in 6 .. 8
                              /\ B[i].kind = "blur" => i \in 9 .. 13
    BY <2>1, <1>1, <1>2
  <2>4. ASSUME NEW K \in Kinds
        PROVE  \E a \in Nat : \A i \in DOMAIN B : B[i].kind = K => i \in a + 1 .. a + 5
    <3>1. CASE K = "blur"
      <4>1. \A i \in DOMAIN B : B[i].kind = K => i \in 8 + 1 .. 8 + 5
        BY <3>1, <2>1, <2>2
      <4> QED
        BY <4>1
    <3>2. CASE K = "mul"
      <4>1. \A i \in DOMAIN B : B[i].kind = K => i \in 5 + 1 .. 5 + 5
        BY <3>2, <2>1, <2>2
      <4> QED
        BY <4>1
    <3>3. CASE K \notin {"blur", "mul"}
      <4>1. \A i \in DOMAIN B : B[i].kind = K => i \in 0 + 1 .. 0 + 5
        BY <3>3, <2>1, <2>2
      <4> QED
        BY <4>1
    <3> QED
      BY <3>1, <3>2, <3>3
  <2>5. \A i \in DOMAIN B : /\ B[i].kind \notin {"empty", "maps"}
                            /\ B[i].kind = "downsample" => i \in 1 .. 3
    BY <2>1, <2>2
  <2> QED
    BY <2>1, <2>4, <2>5, MapsFollow DEF B
<1>5. ASSUME NEW k \in Nat PROVE WellFormed(SingleBody(k))
  <2>1. CASE k > 0
    <3>1. SingleBody(k) = (ShrinksBoth \o T) \o Maps
      BY <2>1 DEF SingleBody, T
    <3> QED
      BY <3>1, <1>4
  <2>2. CASE ~(k > 0)
    <3>1. SingleBody(k) = (<<>> \o T) \o Maps
      BY <2>2 DEF SingleBody, T
    <3>2. <<>> \o T = T
      BY <1>1, ConcatEmptySeq
    <3> QED
      BY <3>1, <3>2, <1>3
  <2> QED
    BY <2>1, <2>2
<1> QED
  BY <1>5

LEMMA PrepShape ==
    ASSUME NEW side \in {"o", "v"}
    PROVE  /\ WellFormed(PrepBody(side))
           /\ PrepBody(side) \in Seq(Operations) /\ Len(PrepBody(side)) = 4
           /\ DOMAIN PrepBody(side) = 1 .. 4
           /\ \A i \in 1 .. 4 : PrepBody(side)[i].kind \in {"xyb", "mul", "blur"}
<1>1. /\ PrepBody(side) \in Seq(Operations) /\ Len(PrepBody(side)) = 4
      /\ DOMAIN PrepBody(side) = 1 .. 4
      /\ \A i \in 1 .. 4 : PrepBody(side)[i].kind \in {"xyb", "mul", "blur"}
  BY DEF PrepBody, Op, Operations, Kinds, Variables
<1>2. \A i \in 1 .. 4 : i \in 0 + 1 .. 0 + 5
  OBVIOUS
<1> QED
  BY <1>1, <1>2 DEF WellFormed

LEMMA FusedShape == \A k \in Nat : WellFormed(FusedBody(k))
<1> DEFINE T == PrepBody("v")
           U == <<Op("mul", "p", "m"), Op("blur", "p", "s")>>
           W == T \o U
<1>1. /\ U \in Seq(Operations) /\ Len(U) = 2
      /\ U[1].kind = "mul" /\ U[2].kind = "blur"
  BY DEF Op, Operations, Kinds, Variables
<1>2. /\ ShrinksVariant \in Seq(Operations) /\ Len(ShrinksVariant) = 2
      /\ \A i \in 1 .. 2 : ShrinksVariant[i].kind \in {"downsample", "halve"}
  BY DEF ShrinksVariant, Op, Operations, Kinds, Variables
<1>3. /\ T \in Seq(Operations) /\ Len(T) = 4
      /\ T[1].kind = "xyb" /\ T[2].kind = "mul" /\ T[3].kind = "blur" /\ T[4].kind = "blur"
  BY DEF PrepBody, Op, Operations, Kinds, Variables
<1> HIDE DEF T, U
<1>4. /\ W \in Seq(Operations) /\ Len(W) = 6 /\ DOMAIN W = 1 .. 6
      /\ \A i \in 1 .. 6 : W[i] = IF i <= 4 THEN T[i] ELSE U[i - 4]
  <2>1. /\ W \in Seq(Operations) /\ Len(W) = Len(T) + Len(U)
        /\ DOMAIN W = 1 .. Len(T) + Len(U)
        /\ \A i \in 1 .. Len(T) + Len(U) :
             W[i] = IF i <= Len(T) THEN T[i] ELSE U[i - Len(T)]
    BY <1>1, <1>3, Joined
  <2>2. Len(T) = 4 /\ Len(U) = 2
    BY <1>1, <1>3
  <2> HIDE DEF W
  <2> QED
    BY <2>1, <2>2
<1> HIDE DEF W
<1>5. \A i \in 1 .. 6 : /\ W[i].kind \in {"xyb", "mul", "blur"}
                        /\ W[i].kind = "mul" => i \in 2 .. 5
                        /\ W[i].kind = "blur" => i \in 3 .. 6
                        /\ W[i].kind = "xyb" => i = 1
  <2>1. /\ W[1] = T[1] /\ W[2] = T[2] /\ W[3] = T[3] /\ W[4] = T[4]
        /\ W[5] = U[1] /\ W[6] = U[2]
    BY <1>4
  <2> QED
    BY <2>1, <1>1, <1>3
<1>6. WellFormed(W \o Maps)
  <2>2. ASSUME NEW K \in Kinds
        PROVE  \E a \in Nat : \A i \in DOMAIN W : W[i].kind = K => i \in a + 1 .. a + 5
    <3>1. CASE K = "blur"
      <4>1. \A i \in DOMAIN W : W[i].kind = K => i \in 2 + 1 .. 2 + 5
        BY <3>1, <1>4, <1>5
      <4> QED
        BY <4>1
    <3>2. CASE K # "blur"
      <4>1. \A i \in DOMAIN W : W[i].kind = K => i \in 0 + 1 .. 0 + 5
        BY <3>2, <1>4, <1>5
      <4> QED
        BY <4>1
    <3> QED
      BY <3>1, <3>2
  <2> QED
    BY <1>4, <1>5, <2>2, MapsFollow
<1>7. WellFormed((ShrinksVariant \o W) \o Maps)
  <2> DEFINE B == ShrinksVariant \o W
  <2>1. /\ B \in Seq(Operations) /\ Len(B) = 8 /\ DOMAIN B = 1 .. 8
        /\ \A i \in 1 .. 8 : B[i] = IF i <= 2 THEN ShrinksVariant[i] ELSE W[i - 2]
    <3>1. /\ B \in Seq(Operations) /\ Len(B) = Len(ShrinksVariant) + Len(W)
          /\ DOMAIN B = 1 .. Len(ShrinksVariant) + Len(W)
          /\ \A i \in 1 .. Len(ShrinksVariant) + Len(W) :
               B[i] = IF i <= Len(ShrinksVariant) THEN ShrinksVariant[i]
                      ELSE W[i - Len(ShrinksVariant)]
      BY <1>2, <1>4, Joined
    <3>2. Len(ShrinksVariant) = 2 /\ Len(W) = 6
      BY <1>2, <1>4
    <3> HIDE DEF B
    <3> QED
      BY <3>1, <3>2
  <2> HIDE DEF B
  <2>2. \A i \in 1 .. 8 : \/ i <= 2 /\ B[i].kind \in {"downsample", "halve"}
                          \/ /\ i > 2 /\ B[i].kind \in {"xyb", "mul", "blur"}
                             /\ B[i].kind = "mul" => i \in 4 .. 7
                             /\ B[i].kind = "blur" => i \in 5 .. 8
                             /\ B[i].kind = "xyb" => i = 3
    BY <2>1, <1>2, <1>5
  <2>4. ASSUME NEW K \in Kinds
        PROVE  \E a \in Nat : \A i \in DOMAIN B : B[i].kind = K => i \in a + 1 .. a + 5
    <3>1. CASE K \in {"blur", "mul"}
      <4>1. \A i \in DOMAIN B : B[i].kind = K => i \in 3 + 1 .. 3 + 5
        BY <3>1, <2>1, <2>2
      <4> QED
        BY <4>1
    <3>2. CASE K \notin {"blur", "mul"}
      <4>1. \A i \in DOMAIN B : B[i].kind = K => i \in 0 + 1 .. 0 + 5
        BY <3>2, <2>1, <2>2
      <4> QED
        BY <4>1
    <3> QED
      BY <3>1, <3>2
  <2>5. \A i \in DOMAIN B : /\ B[i].kind \notin {"empty", "maps"}
                            /\ B[i].kind = "downsample" => i \in 1 .. 3
    BY <2>1, <2>2
  <2> QED
    BY <2>1, <2>4, <2>5, MapsFollow DEF B
<1>8. ASSUME NEW k \in Nat PROVE WellFormed(FusedBody(k))
  <2> DEFINE S == IF k > 0 THEN ShrinksVariant ELSE <<>>
  <2>1. FusedBody(k) = ((S \o T) \o U) \o Maps
    BY DEF FusedBody, T, U
  <2>2. S \in Seq(Operations) /\ (k > 0 => S = ShrinksVariant) /\ (~(k > 0) => S = <<>>)
    BY <1>2
  <2> HIDE DEF S
  <2>3. (S \o T) \o U = S \o W
    <3>1. T \in Seq(Operations) /\ U \in Seq(Operations)
      BY <1>1, <1>3
    <3>2. (S \o T) \o U = S \o (T \o U)
      BY <3>1, <2>2, ConcatAssociative
    <3> QED
      BY <3>2 DEF W
  <2>4. <<>> \o W = W
    BY <1>4, ConcatEmptySeq
  <2> QED
    BY <2>1, <2>2, <2>3, <2>4, <1>6, <1>7
<1> QED
  BY <1>8

LEMMA CompareShape == WellFormed(CompareBody)
<1> DEFINE U == <<Op("mul", "p", "m"), Op("blur", "p", "s")>>
<1>1. /\ U \in Seq(Operations) /\ Len(U) = 2 /\ DOMAIN U = 1 .. 2
      /\ U[1].kind = "mul" /\ U[2].kind = "blur"
  BY DEF Op, Operations, Kinds, Variables
<1>2. CompareBody = U \o Maps
  BY DEF CompareBody
<1> HIDE DEF U
<1>3. \A i \in DOMAIN U : i \in 0 + 1 .. 0 + 5 /\ U[i].kind \in {"mul", "blur"}
  BY <1>1
<1> QED
  BY <1>1, <1>2, <1>3, MapsFollow

LEMMA BodyShape ==
    ASSUME fn \in PipelineFunctions, NEW k \in Nat
    PROVE  WellFormed(Body(k))
  BY SingleShape, PrepShape, FusedShape, CompareShape
  DEF Body, PipelineFunctions, Preps

-----------------------------------------------------------------------------
(* Where a pipeline goes.                                                  *)

LEMMA InBody ==
    ASSUME PositionOK
    PROVE  /\ fn \in PipelineFunctions
           /\ WellFormed(Body(scale))
           /\ Len(Body(scale)) \in Nat /\ DOMAIN Body(scale) = 1 .. Len(Body(scale))
           /\ pc = "body" => ThisOp = Body(scale)[op]
           /\ pc = "shrink" => ThisOp.kind = "downsample"
<1>1. fn \in PipelineFunctions
  BY PipelineAssumption DEF PositionOK, fn
<1>2. WellFormed(Body(scale))
  BY <1>1, BodyShape DEF PositionOK
<1>3. Body(scale) \in Seq(Operations)
  BY <1>2 DEF WellFormed
<1>4. pc = "body" => ThisOp = Body(scale)[op]
  BY DEF ThisOp
<1>5. pc = "shrink" => ThisOp.kind = "downsample"
  BY DEF ThisOp, Op
<1> QED
  BY <1>1, <1>2, <1>3, <1>4, <1>5, LenProperties

LEMMA SameBody ==
    ASSUME UNCHANGED <<job, cur, scale>>
    PROVE  fn' = fn /\ (Body(scale))' = Body(scale)
  BY DEF fn, Body

LEMMA SameOp ==
    ASSUME UNCHANGED <<job, cur, scale, pc, op>>
    PROVE  /\ ThisOp' = ThisOp
           /\ Out' = Out
           /\ (Scratch("rg"))' = Scratch("rg") /\ (Scratch("temp"))' = Scratch("temp")
           /\ (Running({"blur"}))' = Running({"blur"})
           /\ (Running({"downsample", "xyb", "mul"}))' = Running({"downsample", "xyb", "mul"})
<1>1. fn' = fn /\ ThisOp' = ThisOp
  BY SameBody DEF ThisOp
<1>2. \A side : (Home(side))' = Home(side)
  BY <1>1 DEF Home
<1> QED
  BY <1>1, <1>2 DEF Out, Scratch, Here, Plane, Buf, Running

(* On to the next operation, or out of the body after the last.            *)
LEMMA NextOpMoves ==
    ASSUME PositionOK, pc \in {"body", "shrink"}, NextOp,
           UNCHANGED <<job, dim, cur, scale>>, cw' \in Nat, ch' \in Nat
    PROVE  /\ PositionOK'
           /\ \/ pc = "body" /\ pc' = "body" /\ op' = op + 1
              \/ pc = "body" /\ pc' = "end"
              \/ pc = "shrink" /\ pc' = "begin"
           /\ step' = 1
<1>1. fn' = fn /\ (Body(scale))' = Body(scale)
  BY SameBody
<1>2. Len(Body(scale)) \in Nat /\ DOMAIN Body(scale) = 1 .. Len(Body(scale))
  BY InBody
<1>3. CASE op < Len(Body(scale)) /\ pc = "body"
  <2>1. pc' = "body" /\ op' = op + 1 /\ step' = 1
    BY <1>3 DEF NextOp, Position
  <2>2. op' \in DOMAIN Body(scale)
    BY <1>2, <1>3, <2>1 DEF PositionOK
  <2> QED
    BY <1>1, <1>3, <2>1, <2>2 DEF PositionOK, Places
<1>4. CASE ~(op < Len(Body(scale)) /\ pc = "body")
  <2>1. pc' = (IF pc = "body" THEN "end" ELSE "begin") /\ op' = 1 /\ step' = 1
    BY <1>4 DEF NextOp, Position
  <2> QED
    BY <2>1 DEF PositionOK, Places
<1> QED
  BY <1>3, <1>4

(* On to another step of the same operation.                               *)
LEMMA StepMoves ==
    ASSUME PositionOK, NEW n \in Nat \ {0}, Position(pc, op, n),
           UNCHANGED <<job, dim, cur, scale, cw, ch>>
    PROVE  PositionOK' /\ pc' = pc /\ op' = op /\ step' = n
<1>1. fn' = fn /\ (Body(scale))' = Body(scale)
  BY SameBody
<1> QED
  BY <1>1 DEF PositionOK, Position

(* Anywhere else.                                                          *)
LEMMA PlaceMoves ==
    ASSUME PositionOK, NEW to \in Places \ {"body", "shrink", "readback"}, NEW o \in Nat \ {0},
           Position(to, o, 1), UNCHANGED <<job, dim, cur>>,
           scale' \in Nat, cw' \in Nat, ch' \in Nat
    PROVE  PositionOK' /\ pc' = to /\ op' = o /\ step' = 1
  BY DEF PositionOK, Position

LEMMA HalfIsNat == \A n \in Nat : Half(n) \in Nat
  BY DEF Half

(* Where each action leaves the pipeline.                                  *)
LEMMA PositionStep ==
    ASSUME PositionOK, ChainOK, [PipelineNext]_allVars
    PROVE  PositionOK'
<1> USE DEF progVars, posVars, dataVars
<1>0. /\ job \in Jobs /\ cur \in DOMAIN job /\ dim \in Nat \X Nat
      /\ op \in Nat \ {0} /\ step \in Nat \ {0} /\ step + 1 \in Nat \ {0}
      /\ scale \in Nat /\ scale + 1 \in Nat
      /\ cw \in Nat /\ ch \in Nat /\ Half(cw) \in Nat /\ Half(ch) \in Nat
      /\ op + 1 \in Nat \ {0} /\ 1 \in Nat \ {0} /\ 6 \in Nat \ {0}
      /\ {"unwind", "head", "upload", "end", "begin", "drop", "leave", "gone"}
         \subseteq Places \ {"body", "shrink", "readback"}
  BY HalfIsNat DEF PositionOK, Places
<1>1. ASSUME Fails, UNCHANGED <<job, dim, cur, scale, cw, ch>> PROVE PositionOK'
  BY <1>0, <1>1, PlaceMoves DEF Fails
<1>2. CASE Upload
  BY <1>0, <1>1, <1>2, PlaceMoves DEF Upload
<1>3. CASE LoopHead
  <2>1. UNCHANGED <<job, dim, cur, scale>>
    BY <1>3 DEF LoopHead
  <2>2. CASE LastScale
    BY <1>0, <1>3, <2>1, <2>2, PlaceMoves DEF LoopHead
  <2>3. CASE ~LastScale
    <3>1. cw' \in Nat /\ ch' \in Nat
      <4>1. CASE fn = "compare"
        <5>1. cw' = chain[1][scale + 1][1] /\ ch' = chain[1][scale + 1][2]
          BY <1>3, <2>3, <4>1 DEF LoopHead
        <5>2. cur > 2 /\ Len(chain) = cur - 1
          BY <1>0, <1>3, <4>1, PipelineAssumption DEF LoopHead, ChainOK, fn
        <5>3. chain[1] \in Seq(Nat \X Nat)
          <6>1. 1 \in DOMAIN chain
            BY <5>2, <1>0, PipelineAssumption DEF ChainOK
          <6> QED
            BY <6>1 DEF ChainOK
        <5>4. scale < Len(chain[1])
          <6>1. scale >= Len(chain[1]) => LastScale
            BY <4>1 DEF LastScale, Preps
          <6>2. Len(chain[1]) \in Nat
            BY <5>3
          <6> QED
            BY <6>1, <6>2, <2>3, <1>0
        <5>5. chain[1][scale + 1] \in Nat \X Nat
          <6>1. scale + 1 \in DOMAIN chain[1]
            BY <1>0, <5>3, <5>4
          <6> QED
            BY <6>1, <5>3
        <5> QED
          BY <5>1, <5>5
      <4>2. CASE fn # "compare"
        BY <1>0, <1>3, <2>3, <4>2 DEF LoopHead
      <4> QED
        BY <4>1, <4>2
    <3>2. CASE fn \in Preps /\ scale > 0
      BY <1>0, <1>3, <2>1, <2>3, <3>1, <3>2, SameBody
      DEF LoopHead, Position, PositionOK, Places
    <3>3. CASE ~(fn \in Preps /\ scale > 0)
      BY <1>0, <1>3, <2>1, <2>3, <3>1, <3>3, PlaceMoves DEF LoopHead
    <3> QED
      BY <3>2, <3>3
  <2> QED
    BY <2>2, <2>3
<1>4. CASE Begin
  <2>1. ASSUME Position("body", 1, 1), UNCHANGED <<job, dim, cur, scale, cw, ch>>
        PROVE  PositionOK'
    <3>1. 1 \in DOMAIN Body(scale)
      BY InBody DEF WellFormed
    <3> QED
      BY <2>1, <3>1, <1>0, SameBody DEF PositionOK, Position, Places
  <2> QED
    BY <1>1, <1>4, <2>1 DEF Begin
<1>5. CASE Halve
  BY <1>0, <1>5, NextOpMoves DEF Halve, Running
<1>6. CASE CreateOut
  <2>1. UNCHANGED <<job, dim, cur, scale, cw, ch>> /\ pc \in {"body", "shrink"}
    BY <1>6 DEF CreateOut, Running
  <2>2. Fails \/ NextOp \/ NextStep
    BY <1>6 DEF CreateOut
  <2> QED
    BY <1>0, <1>1, <2>1, <2>2, NextOpMoves, StepMoves DEF NextStep
<1>7. CASE Dispatch
  <2>1. UNCHANGED <<job, dim, cur, scale>> /\ pc \in {"body", "shrink"}
    BY <1>7 DEF Dispatch, Running
  <2>2. cw' \in Nat /\ ch' \in Nat
    BY <1>0, <1>7 DEF Dispatch
  <2>3. NextOp \/ (NextStep /\ UNCHANGED <<cw, ch>>)
    BY <1>7 DEF Dispatch
  <2> QED
    BY <1>0, <2>1, <2>2, <2>3, NextOpMoves, StepMoves DEF NextStep
<1>8. CASE DispatchFailed
  BY <1>1, <1>8 DEF DispatchFailed
<1>9. CASE BlurCreate
  BY <1>0, <1>1, <1>9, StepMoves DEF BlurCreate, NextStep
<1>10. CASE BlurPass
  <2>1. /\ UNCHANGED <<job, dim, cur, scale, cw, ch>>
        /\ \E n \in {step + 1, 6} : Position(pc, op, n)
    BY <1>10 DEF BlurPass
  <2> QED
    BY <1>0, <2>1, StepMoves
<1>11. CASE BlurRelease
  BY <1>0, <1>11, StepMoves DEF BlurRelease, NextStep
<1>12. CASE BlurReturn
  <2>1. UNCHANGED <<job, dim, cur, scale, cw, ch>> /\ pc \in {"body", "shrink"}
    BY <1>12 DEF BlurReturn, Running
  <2>2. Fails \/ NextOp
    BY <1>12 DEF BlurReturn
  <2> QED
    BY <1>0, <1>1, <2>1, <2>2, NextOpMoves
<1>13. CASE MapsPass
  <2>1. UNCHANGED <<job, dim, cur, scale, cw, ch>> /\ pc \in {"body", "shrink"}
    BY <1>13 DEF MapsPass, Running
  <2>2. Fails \/ NextOp
    BY <1>13 DEF MapsPass
  <2> QED
    BY <1>0, <1>1, <2>1, <2>2, NextOpMoves
<1>14. CASE End
  <2>1. UNCHANGED <<job, dim, cur, cw, ch>>
    BY <1>14 DEF End
  <2>2. \/ Fails /\ UNCHANGED scale
        \/ NextScale
        \/ fn \notin Preps /\ Position("readback", 1, 1) /\ UNCHANGED scale
    BY <1>14 DEF End
  <2>3. ASSUME fn \notin Preps, Position("readback", 1, 1), UNCHANGED scale
        PROVE  PositionOK'
    BY <1>0, <2>1, <2>3, SameBody DEF PositionOK, Position, Places
  <2> QED
    BY <1>0, <1>1, <2>1, <2>2, <2>3, PlaceMoves DEF NextScale
<1>15. CASE Readback
  <2>1. UNCHANGED <<job, dim, cur, cw, ch>>
    BY <1>15 DEF Readback
  <2>2. (Fails /\ UNCHANGED scale) \/ NextScale
    BY <1>15 DEF Readback
  <2> QED
    BY <1>0, <1>1, <2>1, <2>2, PlaceMoves DEF NextScale
<1>16. CASE AbortOpenBatch
  BY <1>0, <1>16, PlaceMoves DEF AbortOpenBatch
<1>17. CASE GuardDrop \/ PrepDrop \/ Left \/ UNCHANGED allVars
  <2>1. UNCHANGED <<job, dim, cur, pc, op, step, scale, cw, ch>>
    BY <1>17 DEF GuardDrop, PrepDrop, Left, allVars, pipelineVars
  <2> QED
    BY <2>1, SameBody DEF PositionOK
<1>18. CASE Return
  <2>1. CASE cur = Len(job) \/ (err /\ ~IsPair)
    <3>1. UNCHANGED <<job, dim, cur, scale, cw, ch>> /\ Position("leave", 1, 1)
      BY <1>18, <2>1 DEF Return
    <3> QED
      BY <1>0, <3>1, PlaceMoves
  <2>2. CASE ~(cur = Len(job) \/ (err /\ ~IsPair))
    <3>1. /\ UNCHANGED <<job, dim>> /\ Position("upload", 1, 1)
          /\ cur' = cur + 1 /\ scale' = 0 /\ cw' = dim[1] /\ ch' = dim[2]
      BY <1>18, <2>2 DEF Return
    <3>2. cur + 1 \in DOMAIN job
      <4>1. job \in Seq(PipelineFunctions)
        BY <1>0, PipelineAssumption
      <4> QED
        BY <1>0, <2>2, <4>1
    <3> QED
      BY <1>0, <3>1, <3>2 DEF PositionOK, Position, Places
  <2> QED
    BY <2>1, <2>2
<1>19. CASE ContextDrop
  BY <1>0, <1>19, PlaceMoves DEF ContextDrop
<1> QED
  BY <1>2, <1>3, <1>4, <1>5, <1>6, <1>7, <1>8, <1>9, <1>10, <1>11, <1>12, <1>13,
     <1>14, <1>15, <1>16, <1>17, <1>18, <1>19 DEF PipelineNext

(* Only Return and the growth of a pyramid change what a function is given *)
(* and what it has found; a pyramid is a sequence of dimensions.           *)
LEMMA ChainStep ==
    ASSUME PositionOK, ChainOK, [PipelineNext]_allVars
    PROVE  ChainOK'
<1> USE DEF progVars, posVars, dataVars
<1>1. ASSUME UNCHANGED <<job, cur, chain, scales>>, pc \notin {"leave", "gone"}
      PROVE  ChainOK'
  BY <1>1 DEF ChainOK, fn
<1>2. ASSUME UNCHANGED <<job, cur, chain, scales>>, pc' \in {"leave", "gone"}
      PROVE  ChainOK'
  BY <1>2 DEF ChainOK, fn
<1>3. CASE Upload \/ LoopHead \/ Begin \/ Halve \/ CreateOut \/ Dispatch
  BY <1>1, <1>3 DEF Upload, LoopHead, Begin, Halve, CreateOut, Dispatch, Running
<1>4. CASE DispatchFailed \/ BlurCreate \/ BlurPass \/ BlurRelease \/ BlurReturn \/ MapsPass
  BY <1>1, <1>4 DEF DispatchFailed, BlurCreate, BlurPass, BlurRelease, BlurReturn,
                    MapsPass, Running
<1>5. CASE AbortOpenBatch \/ GuardDrop
  BY <1>1, <1>5 DEF AbortOpenBatch, GuardDrop, Dropping
<1>6. CASE PrepDrop \/ ContextDrop \/ Left
  <2>1. UNCHANGED <<job, cur, chain, scales>> /\ pc' \in {"leave", "gone"}
    BY <1>6 DEF PrepDrop, ContextDrop, Left, allVars, pipelineVars, Position
  <2> QED
    BY <1>2, <2>1
<1>7. CASE UNCHANGED allVars
  BY <1>7 DEF allVars, pipelineVars, ChainOK, fn
<1>8. ASSUME UNCHANGED <<job, cur, chain>>, pc \notin {"leave", "gone"},
             fn \notin Preps \/ scales' \in Seq(Nat \X Nat)
      PROVE  ChainOK'
  BY <1>8 DEF ChainOK, fn
<1>9. CASE End
  <2>1. UNCHANGED <<job, cur, chain>> /\ pc = "end"
    BY <1>9 DEF End
  <2>2. fn \in Preps => scales' = scales \/ scales' = Append(scales, <<cw, ch>>)
    BY <1>9 DEF End
  <2>3. ASSUME fn \in Preps PROVE scales' \in Seq(Nat \X Nat)
    <3>1. scales \in Seq(Nat \X Nat) /\ <<cw, ch>> \in Nat \X Nat
      BY <2>3 DEF PositionOK, ChainOK
    <3>2. CASE scales' = scales
      BY <3>1, <3>2
    <3>3. CASE scales' = Append(scales, <<cw, ch>>)
      BY <3>1, <3>3, AppendProperties
    <3> QED
      BY <2>2, <2>3, <3>2, <3>3
  <2> QED
    BY <1>8, <2>1, <2>3
<1>10. CASE Readback
  <2>1. UNCHANGED <<job, cur, chain>> /\ pc = "readback"
    BY <1>10 DEF Readback
  <2> QED
    BY <1>8, <2>1 DEF PositionOK
<1>11. CASE Return
  <2>1. chain' \in Seq(Seq(Nat \X Nat)) /\ Len(chain') = Len(chain) + 1
    <3>1. (IF ReturnsPrep THEN scales ELSE <<>>) \in Seq(Nat \X Nat)
      BY DEF ReturnsPrep, ChainOK
    <3>2. chain' = Append(chain, IF ReturnsPrep THEN scales ELSE <<>>)
      BY <1>11 DEF Return
    <3> QED
      BY <3>1, <3>2 DEF ChainOK
  <2>2. pc \notin {"leave", "gone"} /\ scales' = <<>>
    BY <1>11 DEF Return, Dropping
  <2>3. pc' = "leave" \/ cur' = cur + 1
    BY <1>11 DEF Return, Position
  <2>4. cur \in Nat
    BY PipelineAssumption DEF PositionOK
  <2> QED
    BY <2>1, <2>2, <2>3, <2>4 DEF ChainOK
<1> QED
  BY <1>3, <1>4, <1>5, <1>6, <1>7, <1>9, <1>10, <1>11 DEF PipelineNext

(* What the calls of the context do to an open batch.                      *)
LEMMA CallsKeepBatch ==
    ASSUME NEW ok \in BOOLEAN, NEW s, NEW d, NEW p, NEW bs, NEW total
    PROVE  /\ CreateBuffer(s, d, ok) => UNCHANGED <<open, batchSets, sets>>
           /\ CreateEmpty(d, ok) => UNCHANGED <<open, batchSets, sets>>
           /\ DestroyBuffer(d) => UNCHANGED <<open, batchSets, sets>>
           /\ RunComputePush(p, bs, ok) => UNCHANGED open
           /\ ReadbackAll(bs, total, s, d, ok) => UNCHANGED <<open, batchSets, sets>>
           /\ BeginBatch(ok) => UNCHANGED <<batchSets, sets>>
           /\ BeginBatch(TRUE) => open'
           /\ BeginBatch(FALSE) => UNCHANGED open
           /\ FinishBatch(s, ok) => ~open'
           /\ Drop => UNCHANGED open
<1>1. /\ CreateBuffer(s, d, ok) => UNCHANGED <<open, batchSets, sets>>
      /\ CreateEmpty(d, ok) => UNCHANGED <<open, batchSets, sets>>
      /\ DestroyBuffer(d) => UNCHANGED <<open, batchSets, sets>>
  BY DEF CreateBuffer, CreateEmpty, DestroyBuffer, batchVars, pipeVars
<1>2. /\ RunComputePush(p, bs, ok) => UNCHANGED open
      /\ ReadbackAll(bs, total, s, d, ok) => UNCHANGED <<open, batchSets, sets>>
  BY DEF RunComputePush, ReadbackAll, batchVars, pipeVars
<1>3. /\ BeginBatch(ok) => UNCHANGED <<batchSets, sets>>
      /\ BeginBatch(TRUE) => open'
      /\ BeginBatch(FALSE) => UNCHANGED open
  BY DEF BeginBatch, pipeVars
<1>4. (FinishBatch(s, ok) => ~open') /\ (Drop => UNCHANGED open)
  BY DEF FinishBatch, Drop, batchVars
<1> QED
  BY <1>1, <1>2, <1>3, <1>4

(* A batch is opened by Begin only, and closed before the next scale.      *)
LEMMA BatchStep ==
    ASSUME PositionOK, BatchInBody, [PipelineNext]_allVars
    PROVE  BatchInBody'
<1>1. ASSUME open' = open, pc' = pc
      PROVE  BatchInBody'
  BY <1>1 DEF BatchInBody
<1>2. ASSUME open' = open, Fails
      PROVE  BatchInBody'
  BY <1>2 DEF BatchInBody, Fails, Position
<1>3. ASSUME open' = open, NextOp, pc \in {"body", "shrink"}
      PROVE  BatchInBody'
  <2>1. \/ pc = "body" /\ pc' \in {"body", "end"}
        \/ pc = "shrink" /\ pc' = "begin"
    BY <1>3 DEF NextOp, Position
  <2> QED
    BY <1>3, <2>1 DEF BatchInBody
<1>4. ASSUME open' = open, pc \notin {"body", "end", "unwind"},
             pc' \notin {"body", "end"}
      PROVE  BatchInBody'
  BY <1>4 DEF BatchInBody
<1>5. ASSUME ~open', pc' \notin {"body", "end"}
      PROVE  BatchInBody'
  BY <1>5 DEF BatchInBody
<1>6. CASE Upload
  <2>1. open' = open
    BY <1>6, CallsKeepBatch DEF Upload, vars, batchVars
  <2>2. pc = "upload" /\ pc' \in {"head", "upload", "unwind"}
    BY <1>6 DEF Upload, Position, Fails
  <2> QED
    BY <1>4, <2>1, <2>2
<1>7. CASE LoopHead
  BY <1>4, <1>7 DEF LoopHead, Position, vars, batchVars
<1>8. CASE Begin
  <2>1. PICK ok \in BOOLEAN :
          /\ BeginBatch(ok)
          /\ IF ok THEN Position("body", 1, 1) /\ UNCHANGED err ELSE Fails
    BY <1>8 DEF Begin
  <2>2. CASE ok
    BY <2>1, <2>2, CallsKeepBatch DEF Position, BatchInBody
  <2>3. CASE ~ok
    BY <1>2, <2>1, <2>3, CallsKeepBatch
  <2> QED
    BY <2>2, <2>3
<1>9. CASE Halve
  BY <1>3, <1>9 DEF Halve, Running, vars, batchVars
<1>10. CASE CreateOut \/ BlurCreate \/ BlurPass
  <2>1. open' = open /\ pc \in {"body", "shrink"}
    BY <1>10, CallsKeepBatch DEF CreateOut, BlurCreate, BlurPass, Running
  <2>2. Fails \/ NextOp \/ pc' = pc
    BY <1>10 DEF CreateOut, BlurCreate, BlurPass, NextStep, Position
  <2> QED
    BY <1>1, <1>2, <1>3, <2>1, <2>2
<1>11. CASE Dispatch \/ MapsPass \/ BlurReturn
  <2>1. open' = open /\ pc \in {"body", "shrink"}
    BY <1>11, CallsKeepBatch DEF Dispatch, MapsPass, BlurReturn, Running
  <2>2. Fails \/ NextOp \/ pc' = pc
    BY <1>11 DEF Dispatch, MapsPass, BlurReturn, NextStep, Position
  <2> QED
    BY <1>1, <1>2, <1>3, <2>1, <2>2
<1>12. CASE DispatchFailed
  BY <1>2, <1>12, CallsKeepBatch DEF DispatchFailed
<1>13. CASE BlurRelease
  BY <1>1, <1>13, CallsKeepBatch DEF BlurRelease, NextStep, Position
<1>14. CASE End
  <2>1. ~open'
    BY <1>14, CallsKeepBatch DEF End
  <2>2. pc' \in {"unwind", "head", "readback"}
    BY <1>14 DEF End, Fails, NextScale, Position
  <2> QED
    BY <1>5, <2>1, <2>2
<1>15. CASE Readback
  <2>1. open' = open /\ pc = "readback"
    BY <1>15, CallsKeepBatch DEF Readback
  <2>2. pc' \in {"unwind", "head"}
    BY <1>15 DEF Readback, Fails, NextScale, Position
  <2> QED
    BY <1>4, <2>1, <2>2
<1>16. CASE AbortOpenBatch
  <2>1. ~open' /\ pc' = "drop"
    BY <1>16, CallsKeepBatch DEF AbortOpenBatch, BatchAborted, Position
  <2> QED
    BY <1>5, <2>1
<1>17. CASE GuardDrop \/ PrepDrop
  BY <1>1, <1>17, CallsKeepBatch DEF GuardDrop, PrepDrop, posVars
<1>18. CASE Return
  <2>1. open' = open /\ pc' \in {"leave", "upload"}
    BY <1>18 DEF Return, Position, vars, batchVars
  <2>2. ~open
    BY <1>18 DEF Return, Dropping, BatchInBody
  <2> QED
    BY <1>5, <2>1, <2>2
<1>19. CASE ContextDrop
  <2>1. open' = open /\ pc = "leave" /\ pc' = "gone"
    BY <1>19, CallsKeepBatch DEF ContextDrop, Position
  <2> QED
    BY <1>4, <2>1
<1>20. CASE Left \/ UNCHANGED allVars
  BY <1>1, <1>20 DEF Left, allVars, vars, batchVars, pipelineVars, posVars
<1> QED
  BY <1>6, <1>7, <1>8, <1>9, <1>10, <1>11, <1>12, <1>13, <1>14, <1>15, <1>16,
     <1>17, <1>18, <1>19, <1>20 DEF PipelineNext

-----------------------------------------------------------------------------
(* What a batch takes from the descriptor pools.                           *)

LEMMA EarlierIsFinite ==
    ASSUME PositionOK, NEW K
    PROVE  IsFiniteSet(Earlier(K)) /\ Cardinality(Earlier(K)) \in Nat
<1>1. op - 1 \in Int /\ IsFiniteSet(1 .. op - 1)
  BY FS_Interval DEF PositionOK
<1>2. Earlier(K) \subseteq 1 .. op - 1
  BY DEF Earlier
<1>3. IsFiniteSet(Earlier(K))
  BY <1>1, <1>2, FS_Subset
<1> QED
  BY <1>3, FS_CardinalityType

(* Another operation is behind.                                            *)
LEMMA EarlierGrows ==
    ASSUME PositionOK, pc = "body", UNCHANGED <<job, cur, scale>>, op' = op + 1, NEW K
    PROVE  (Cardinality(Earlier(K)))' =
               Cardinality(Earlier(K)) + (IF ThisOp.kind = K THEN 1 ELSE 0)
<1>1. op \in Nat \ {0}
  BY DEF PositionOK
<1>2. ThisOp = Body(scale)[op]
  BY InBody
<1>3. (Earlier(K))' = {i \in 1 .. op : Body(scale)[i].kind = K}
  BY <1>1, SameBody DEF Earlier
<1>4. CASE ThisOp.kind = K
  <2>1. (Earlier(K))' = Earlier(K) \cup {op}
    BY <1>1, <1>2, <1>3, <1>4 DEF Earlier
  <2>2. op \notin Earlier(K)
    BY <1>1 DEF Earlier
  <2>3. Cardinality(Earlier(K) \cup {op}) = Cardinality(Earlier(K)) + 1
    BY <2>2, EarlierIsFinite, FS_AddElement
  <2>4. (Cardinality(Earlier(K)))' = Cardinality(Earlier(K) \cup {op})
    BY <2>1
  <2> QED
    BY <1>4, <2>3, <2>4
<1>5. CASE ThisOp.kind # K
  <2>1. (Earlier(K))' = Earlier(K)
    BY <1>1, <1>2, <1>3, <1>5 DEF Earlier
  <2>2. (Cardinality(Earlier(K)))' = Cardinality(Earlier(K))
    BY <2>1
  <2> QED
    BY <1>5, <2>2, EarlierIsFinite
<1> QED
  BY <1>4, <1>5

(* An operation has at most four of its kind before it.                    *)
LEMMA EarlierAreFew ==
    ASSUME PositionOK, pc = "body"
    PROVE  /\ Cardinality(Earlier(ThisOp.kind)) < 5
           /\ ThisOp.kind = "downsample" => Cardinality(Earlier("downsample")) < 3
<1> DEFINE K == ThisOp.kind
           E == Earlier(K) \cup {op}
<1>1. op \in Nat \ {0} /\ op \in DOMAIN Body(scale)
  BY DEF PositionOK
<1>2. /\ WellFormed(Body(scale)) /\ ThisOp = Body(scale)[op]
      /\ Len(Body(scale)) \in Nat /\ DOMAIN Body(scale) = 1 .. Len(Body(scale))
  BY InBody
<1>3. Body(scale)[op] \in Operations
  BY <1>1, <1>2 DEF WellFormed
<1>4. K \in Kinds
  BY <1>2, <1>3 DEF Operations
<1>5. E \subseteq DOMAIN Body(scale) /\ \A i \in E : Body(scale)[i].kind = K
  BY <1>1, <1>2 DEF Earlier
<1>6. op \notin Earlier(K)
  BY <1>1 DEF Earlier
<1>7. Cardinality(E) = Cardinality(Earlier(K)) + 1
  BY <1>6, EarlierIsFinite, FS_AddElement
<1>8. Cardinality(Earlier(K)) \in Nat
  BY EarlierIsFinite
<1> HIDE DEF E, K
<1>9. ASSUME NEW a \in Nat, NEW n \in Nat, E \subseteq a + 1 .. a + n
      PROVE  Cardinality(E) <= n
  <2>1. IsFiniteSet(a + 1 .. a + n) /\ Cardinality(a + 1 .. a + n) = n
    BY FS_Interval
  <2> QED
    BY <1>9, <2>1, FS_Subset
<1>10. Cardinality(E) <= 5
  <2>1. PICK a \in Nat : \A i \in DOMAIN Body(scale) :
                            Body(scale)[i].kind = K => i \in a + 1 .. a + 5
    BY <1>2, <1>4 DEF WellFormed
  <2>2. E \subseteq a + 1 .. a + 5
    BY <1>5, <2>1
  <2> QED
    BY <1>9, <2>2
<1>11. ASSUME K = "downsample" PROVE Cardinality(E) <= 3
  <2>1. E \subseteq 0 + 1 .. 0 + 3
    BY <1>2, <1>5, <1>11 DEF WellFormed
  <2> QED
    BY <1>9, <2>1
<1>12. Cardinality(Earlier(K)) < 5
  BY <1>7, <1>8, <1>10
<1>13. K = "downsample" => Cardinality(Earlier(K)) < 3
  BY <1>7, <1>8, <1>11
<1> QED
  BY <1>12, <1>13 DEF K

Blurs == {"blur_h", "blur_v"}
Dispatching == {"downsample", "xyb", "mul", "maps"}

LEMMA SetsAreNat ==
    ASSUME IInv
    PROVE  /\ \A p \in Pipes : batchSets[p] \in Nat /\ sets[p] \in Nat
           /\ batchSets \in [Pipes -> Nat] /\ sets \in [Pipes -> Nat]
           /\ Blurs \cup Dispatching \subseteq Pipes
           /\ ~open => \A p \in Pipes : batchSets[p] = 0
<1>1. MaxSets \in Nat
  BY ContextAssumption
<1>2. batchSets \in [Pipes -> 0 .. MaxSets] /\ sets \in [Pipes -> 0 .. MaxSets]
  BY DEF IInv, TypeOK
<1>3. ~open => \A p \in Pipes : batchSets[p] = 0
  BY NoSetsAreSets DEF IInv, Ownership
<1>4. Blurs \cup Dispatching \subseteq Pipes
  BY PipelineAssumption DEF Blurs, Dispatching
<1> QED
  BY <1>1, <1>2, <1>3, <1>4

(* A dispatch in a batch takes one set for it, one outside of it keeps one.*)
LEMMA PushTakes ==
    ASSUME NEW p, NEW bs, NEW ok \in BOOLEAN, RunComputePush(p, bs, ok)
    PROVE  \/ UNCHANGED <<sets, batchSets>>
           \/ /\ open /\ ok
              /\ sets' = [sets EXCEPT ![p] = @ + 1]
              /\ batchSets' = [batchSets EXCEPT ![p] = @ + 1]
           \/ /\ ~open /\ UNCHANGED batchSets
              /\ \/ sets' = [sets EXCEPT ![p] = 0]
                 \/ sets' = [sets EXCEPT ![p] = 1]
  BY DEF RunComputePush, pipeVars

LEMMA PushKeepsNothing ==
    ASSUME IInv, NothingKept, NEW p \in Pipes, NEW bs, NEW ok \in BOOLEAN,
           RunComputePush(p, bs, ok), open \/ p = "downsample"
    PROVE  NothingKept'
<1>1. CASE UNCHANGED <<sets, batchSets>>
  BY <1>1 DEF NothingKept
<1>2. CASE /\ sets' = [sets EXCEPT ![p] = @ + 1]
           /\ batchSets' = [batchSets EXCEPT ![p] = @ + 1]
  <2>1. ASSUME NEW q \in Pipes \ {"downsample"} PROVE sets'[q] <= batchSets'[q]
    <3>1. sets[q] <= batchSets[q] /\ sets[q] \in Nat /\ batchSets[q] \in Nat
      BY SetsAreNat DEF NothingKept
    <3>2. CASE q = p
      BY <1>2, <3>1, <3>2, SetsAreNat
    <3>3. CASE q # p
      BY <1>2, <3>1, <3>3, SetsAreNat
    <3> QED
      BY <3>2, <3>3
  <2> QED
    BY <2>1 DEF NothingKept
<1>3. CASE /\ ~open /\ UNCHANGED batchSets
           /\ \/ sets' = [sets EXCEPT ![p] = 0]
              \/ sets' = [sets EXCEPT ![p] = 1]
  <2>1. \A q \in Pipes \ {"downsample"} : sets'[q] = sets[q]
    BY <1>3, SetsAreNat
  <2> QED
    BY <1>3, <2>1 DEF NothingKept
<1> QED
  BY <1>1, <1>2, <1>3, PushTakes

(* The pipeline dispatches in its batch, except to downsample.             *)
LEMMA KeptStep ==
    ASSUME IInv, PositionOK, BatchInBody, NothingKept, [PipelineNext]_allVars
    PROVE  NothingKept'
<1>1. ASSUME UNCHANGED <<sets, batchSets>> PROVE NothingKept'
  BY <1>1 DEF NothingKept
<1>2. {"downsample", "xyb", "mul", "blur_h", "blur_v", "maps"} \subseteq Pipes
  BY PipelineAssumption
<1>3. ASSUME NEW ok \in BOOLEAN, NEW s, FinishBatch(s, ok) PROVE NothingKept'
  <2>1. ASSUME NEW p \in Pipes \ {"downsample"} PROVE sets'[p] <= batchSets'[p]
    <3>1. sets'[p] = sets[p] - batchSets[p] /\ batchSets'[p] = 0
      BY <1>3, NoSetsAreSets DEF FinishBatch, BatchSetsFreed
    <3> QED
      BY <3>1, SetsAreNat DEF NothingKept
  <2> QED
    BY <2>1 DEF NothingKept
<1>4. CASE Upload \/ LoopHead \/ Begin \/ Halve \/ CreateOut \/ DispatchFailed
  <2>1. UNCHANGED <<sets, batchSets>>
    BY <1>4, CallsKeepBatch
    DEF Upload, LoopHead, Begin, Halve, CreateOut, DispatchFailed, vars, batchVars, pipeVars
  <2> QED
    BY <1>1, <2>1
<1>5. CASE BlurCreate \/ BlurRelease \/ BlurReturn \/ Readback
  <2>1. UNCHANGED <<sets, batchSets>>
    BY <1>5, CallsKeepBatch DEF BlurCreate, BlurRelease, BlurReturn, Readback
  <2> QED
    BY <1>1, <2>1
<1>6. CASE GuardDrop \/ Return \/ PrepDrop \/ Left \/ UNCHANGED allVars
  <2>1. UNCHANGED <<sets, batchSets>>
    BY <1>6, CallsKeepBatch
    DEF GuardDrop, Return, PrepDrop, Left, allVars, vars, batchVars, pipeVars
  <2> QED
    BY <1>1, <2>1
<1>7. CASE Dispatch
  <2>1. PICK ok \in BOOLEAN : RunComputePush(ThisOp.kind, Reads(ThisOp) \cup {Out}, ok)
    BY <1>7 DEF Dispatch
  <2>2. ThisOp.kind \in {"downsample", "xyb", "mul"} /\ pc \in {"body", "shrink"}
    BY <1>7 DEF Dispatch, Running
  <2>3. open \/ ThisOp.kind = "downsample"
    BY <2>2, InBody DEF BatchInBody
  <2> QED
    BY <1>2, <2>1, <2>2, <2>3, PushKeepsNothing
<1>8. CASE BlurPass
  <2>1. PICK ok \in BOOLEAN, p \in {"blur_h", "blur_v"},
             bs \in {{Scratch("temp"), Scratch("rg")} \cup
                          (IF step = 4 THEN Reads(ThisOp) ELSE {Out})} : RunComputePush(p, bs, ok)
    BY <1>8 DEF BlurPass
  <2>2. ThisOp.kind = "blur" /\ pc \in {"body", "shrink"}
    BY <1>8 DEF BlurPass, Running
  <2>3. open
    BY <2>2, InBody DEF BatchInBody
  <2> QED
    BY <1>2, <2>1, <2>3, PushKeepsNothing
<1>9. CASE MapsPass
  <2>1. PICK ok \in BOOLEAN :
          RunComputePush("maps", Reads(ThisOp) \cup {Here("p", "sd"), Here("p", "ed")}, ok)
    BY <1>9 DEF MapsPass
  <2>2. ThisOp.kind = "maps" /\ pc \in {"body", "shrink"}
    BY <1>9 DEF MapsPass, Running
  <2>3. open
    BY <2>2, InBody DEF BatchInBody
  <2> QED
    BY <1>2, <2>1, <2>3, PushKeepsNothing
<1>10. CASE End \/ AbortOpenBatch
  BY <1>3, <1>10 DEF End, AbortOpenBatch, BatchAborted
<1>11. CASE ContextDrop
  <2>1. sets' = NoSets /\ batchSets' = batchSets
    BY <1>11 DEF ContextDrop, Drop, batchVars
  <2> QED
    BY <2>1, NoSetsAreSets, SetsAreNat DEF NothingKept
<1> QED
  BY <1>4, <1>5, <1>6, <1>7, <1>8, <1>9, <1>10, <1>11 DEF PipelineNext

(* The bound holds before the next operation, if it held with this one.    *)
LEMMA NextOpBounds ==
    ASSUME PositionOK, pc \in {"body", "shrink"}, NextOp,
           UNCHANGED <<job, dim, cur, scale>>, cw' \in Nat, ch' \in Nat,
           pc = "body" =>
               /\ \A p \in Dispatching :
                    batchSets'[p] <= Cardinality(Earlier(p))
                                     + (IF ThisOp.kind = p THEN 1 ELSE 0)
               /\ \A p \in Blurs :
                    batchSets'[p] <= Cardinality(Earlier("blur"))
                                     + (IF ThisOp.kind = "blur" THEN 1 ELSE 0)
    PROVE  BatchOfBody'
<1>1. CASE pc' # "body"
  BY <1>1 DEF BatchOfBody
<1>2. CASE pc' = "body"
  <2>1. pc = "body" /\ op' = op + 1 /\ step' = 1
    BY <1>2, NextOpMoves
  <2>2. ~(Passed(5))' /\ ~(Passed(6))'
    BY <2>1 DEF Passed
  <2>3. \A K : (Cardinality(Earlier(K)))' =
                  Cardinality(Earlier(K)) + (IF ThisOp.kind = K THEN 1 ELSE 0)
    BY <2>1, EarlierGrows
  <2>4. \A p \in Dispatching : batchSets'[p] <= (Cardinality(Earlier(p)))'
    BY <2>1, <2>3
  <2>5. \A p \in Blurs : batchSets'[p] <= (Cardinality(Earlier("blur")))'
    BY <2>1, <2>3
  <2>6. (Cardinality(Earlier("blur")))' \in Nat
    BY <2>3, EarlierIsFinite
  <2> QED
    BY <2>2, <2>4, <2>5, <2>6 DEF BatchOfBody, Dispatching, Blurs
<1> QED
  BY <1>1, <1>2

(* An operation that dispatches nothing, or has dispatched everything.     *)
LEMMA NextOpKeeps ==
    ASSUME PositionOK, IInv, BatchOfBody, pc \in {"body", "shrink"}, NextOp,
           UNCHANGED <<job, dim, cur, scale, batchSets>>, cw' \in Nat, ch' \in Nat
    PROVE  BatchOfBody'
<1>1. \A K : Cardinality(Earlier(K)) \in Nat
  BY EarlierIsFinite
<1>2. \A p \in Dispatching \cup Blurs : batchSets[p] \in Nat
  BY SetsAreNat
<1>3. ASSUME pc = "body"
      PROVE  /\ \A p \in Dispatching : batchSets[p] <= Cardinality(Earlier(p))
             /\ \A p \in Blurs :
                    batchSets[p] <= Cardinality(Earlier("blur"))
                                     + (IF ThisOp.kind = "blur" THEN 1 ELSE 0)
  <2>1. Passed(5) \/ Passed(6) => ThisOp.kind = "blur"
    BY DEF Passed, Running
  <2> QED
    BY <1>1, <1>2, <1>3, <2>1 DEF BatchOfBody, Dispatching, Blurs
<1>4. pc = "body" => \A p \in Dispatching :
        batchSets'[p] <= Cardinality(Earlier(p)) + (IF ThisOp.kind = p THEN 1 ELSE 0)
  BY <1>1, <1>2, <1>3
<1>5. pc = "body" => \A p \in Blurs :
        batchSets'[p] <= Cardinality(Earlier("blur"))
                         + (IF ThisOp.kind = "blur" THEN 1 ELSE 0)
  BY <1>3
<1> QED
  BY <1>4, <1>5, NextOpBounds

(* Another step of the same operation.                                     *)
LEMMA StepKeeps ==
    ASSUME PositionOK, IInv, BatchOfBody, NEW n \in Nat, n >= step, Position(pc, op, n),
           UNCHANGED <<job, cur, scale, batchSets>>
    PROVE  BatchOfBody'
<1>1. pc' = pc /\ op' = op /\ step' = n /\ step \in Nat
  BY DEF Position, PositionOK
<1>2. /\ (Passed(5))' <=> Running({"blur"}) /\ n >= 5
      /\ (Passed(6))' <=> Running({"blur"}) /\ n >= 6
  BY <1>1, SameOp DEF Passed
<1>3. \A K : (Earlier(K))' = Earlier(K)
  BY <1>1, SameBody DEF Earlier
<1>4. (Cardinality(Earlier("blur")))' = Cardinality(Earlier("blur"))
      /\ \A K : (Cardinality(Earlier(K)))' = Cardinality(Earlier(K))
  BY <1>3
<1>5. Cardinality(Earlier("blur")) \in Nat
  BY EarlierIsFinite
<1>6. \A p \in Dispatching \cup Blurs : batchSets[p] \in Nat
  BY SetsAreNat
<1>7. (Passed(5) => (Passed(5))') /\ (Passed(6) => (Passed(6))')
  BY <1>1, <1>2 DEF Passed
<1> QED
  BY <1>1, <1>4, <1>5, <1>6, <1>7 DEF BatchOfBody, Dispatching, Blurs

LEMMA BatchOfBodyStep ==
    ASSUME IInv, PositionOK, BatchInBody, BatchOfBody, [PipelineNext]_allVars
    PROVE  BatchOfBody'
<1> USE DEF progVars, posVars, dataVars
<1>1. ASSUME pc' # "body" PROVE BatchOfBody'
  BY <1>1 DEF BatchOfBody
<1>2. ASSUME Fails PROVE BatchOfBody'
  BY <1>1, <1>2 DEF Fails, Position
<1>3. /\ cw \in Nat /\ ch \in Nat /\ Half(cw) \in Nat /\ Half(ch) \in Nat
      /\ step \in Nat /\ step + 1 \in Nat /\ step + 1 >= step
  BY HalfIsNat DEF PositionOK
<1>4. CASE Upload \/ LoopHead \/ End \/ Readback \/ AbortOpenBatch \/ Return
  <2>1. pc' # "body"
    BY <1>4 DEF Upload, LoopHead, End, Readback, AbortOpenBatch, Return, NextScale,
                Fails, Position
  <2> QED
    BY <1>1, <2>1
<1>5. CASE DispatchFailed \/ ContextDrop
  BY <1>1, <1>2, <1>5 DEF DispatchFailed, ContextDrop, Position
<1>6. CASE GuardDrop \/ PrepDrop
  BY <1>1, <1>6 DEF GuardDrop, PrepDrop, Dropping
<1>7. CASE Left \/ UNCHANGED allVars
  <2>1. UNCHANGED <<job, cur, scale, batchSets, pc, op, step>>
    BY <1>7 DEF Left, allVars, vars, batchVars, pipelineVars
  <2>2. Position(pc, op, step) /\ step >= step
    BY <1>3, <2>1 DEF Position
  <2> QED
    BY <1>3, <2>1, <2>2, StepKeeps
<1>8. CASE Begin
  <2>1. PICK ok \in BOOLEAN :
          /\ BeginBatch(ok)
          /\ IF ok THEN Position("body", 1, 1) /\ UNCHANGED err ELSE Fails
    BY <1>8 DEF Begin
  <2>2. CASE ok
    <3>1. pc' = "body" /\ op' = 1 /\ step' = 1 /\ pc = "begin" /\ UNCHANGED batchSets
      BY <1>8, <2>1, <2>2, CallsKeepBatch DEF Position, Begin
    <3>2. \A p \in Blurs \cup Dispatching : batchSets'[p] = 0
      BY <3>1, SetsAreNat DEF BatchInBody
    <3>3. PositionOK'
      <4>1. 1 \in DOMAIN Body(scale)
        BY InBody DEF WellFormed
      <4> QED
        BY <1>8, <3>1, <4>1, SameBody DEF PositionOK, Begin, Places
    <3>4. \A K : (Earlier(K))' = {}
      BY <3>1 DEF Earlier
    <3>5. \A K : (Cardinality(Earlier(K)))' = 0
      BY <3>4, FS_EmptySet
    <3>6. ~(Passed(5))' /\ ~(Passed(6))'
      BY <3>1 DEF Passed
    <3> QED
      BY <3>2, <3>5, <3>6 DEF BatchOfBody, Blurs, Dispatching
  <2>3. CASE ~ok
    BY <1>2, <2>1, <2>3
  <2> QED
    BY <2>2, <2>3
<1>9. CASE Halve
  <2>1. UNCHANGED batchSets /\ pc \in {"body", "shrink"}
    BY <1>9 DEF Halve, Running, vars, batchVars
  <2> QED
    BY <1>3, <1>9, <2>1, NextOpKeeps DEF Halve
<1>10. CASE CreateOut
  <2>1. /\ UNCHANGED <<job, dim, cur, scale, cw, ch>> /\ pc \in {"body", "shrink"}
        /\ UNCHANGED batchSets
    BY <1>10, CallsKeepBatch DEF CreateOut, Running
  <2>2. Fails \/ NextOp \/ NextStep
    BY <1>10 DEF CreateOut
  <2> QED
    BY <1>2, <1>3, <2>1, <2>2, NextOpKeeps, StepKeeps DEF NextStep
<1>11. CASE BlurCreate \/ BlurRelease
  <2>1. UNCHANGED <<job, cur, scale, batchSets>>
    BY <1>11, CallsKeepBatch DEF BlurCreate, BlurRelease
  <2>2. Fails \/ NextStep
    BY <1>11 DEF BlurCreate, BlurRelease
  <2> QED
    BY <1>2, <1>3, <2>1, <2>2, StepKeeps DEF NextStep
<1>12. CASE BlurReturn
  <2>1. /\ UNCHANGED <<job, dim, cur, scale, cw, ch>> /\ pc \in {"body", "shrink"}
        /\ UNCHANGED batchSets
    BY <1>12, CallsKeepBatch DEF BlurReturn, Running
  <2>2. Fails \/ NextOp
    BY <1>12 DEF BlurReturn
  <2> QED
    BY <1>2, <1>3, <2>1, <2>2, NextOpKeeps
(* A dispatch that counts towards the operation it belongs to.             *)
<1>13. ASSUME NEW p \in Dispatching, NEW bs, NEW ok \in BOOLEAN, RunComputePush(p, bs, ok),
              ThisOp.kind = p, pc \in {"body", "shrink"}, NextOp,
              UNCHANGED <<job, dim, cur, scale>>, cw' \in Nat, ch' \in Nat
       PROVE  BatchOfBody'
  <2>1. \A q \in Dispatching \cup Blurs :
          /\ batchSets[q] \in Nat /\ q \in DOMAIN batchSets
    BY SetsAreNat
  <2>2. \A q \in Dispatching \cup Blurs :
          batchSets'[q] <= batchSets[q] + (IF q = p THEN 1 ELSE 0)
    <3>1. UNCHANGED batchSets \/ batchSets' = [batchSets EXCEPT ![p] = @ + 1]
      BY <1>13, PushTakes
    <3> QED
      BY <2>1, <3>1
  <2>3. p \notin Blurs /\ p # "blur"
    BY DEF Dispatching, Blurs
  <2>4. \A K : Cardinality(Earlier(K)) \in Nat
    BY EarlierIsFinite
  <2>5. pc = "body" =>
          /\ \A q \in Dispatching : batchSets[q] <= Cardinality(Earlier(q))
          /\ \A q \in Blurs : batchSets[q] <= Cardinality(Earlier("blur"))
    <3>1. ~Passed(5) /\ ~Passed(6)
      BY <1>13, <2>3 DEF Passed, Running
    <3> QED
      BY <2>4, <3>1 DEF BatchOfBody, Dispatching, Blurs
  <2>6. \A q \in Dispatching \cup Blurs : batchSets'[q] \in Int
    <3>1. UNCHANGED batchSets \/ batchSets' = [batchSets EXCEPT ![p] = @ + 1]
      BY <1>13, PushTakes
    <3> QED
      BY <2>1, <3>1
  <2>7. pc = "body" => \A q \in Dispatching :
          batchSets'[q] <= Cardinality(Earlier(q)) + (IF ThisOp.kind = q THEN 1 ELSE 0)
    BY <1>13, <2>1, <2>2, <2>4, <2>5, <2>6
  <2>8. pc = "body" => \A q \in Blurs :
          batchSets'[q] <= Cardinality(Earlier("blur"))
                           + (IF ThisOp.kind = "blur" THEN 1 ELSE 0)
    BY <1>13, <2>1, <2>2, <2>3, <2>4, <2>5, <2>6
  <2> QED
    BY <1>13, <2>7, <2>8, NextOpBounds
<1>14. CASE Dispatch
  <2>1. PICK ok \in BOOLEAN :
          /\ RunComputePush(ThisOp.kind, Reads(ThisOp) \cup {Out}, ok)
          /\ (ok /\ NextOp) \/ (~ok /\ NextStep /\ UNCHANGED <<cw, ch>>)
    BY <1>14 DEF Dispatch
  <2>2. ThisOp.kind \in Dispatching /\ pc \in {"body", "shrink"}
    BY <1>14 DEF Dispatch, Running, Dispatching
  <2>3. UNCHANGED <<job, dim, cur, scale>> /\ cw' \in Nat /\ ch' \in Nat
    BY <1>3, <1>14 DEF Dispatch
  <2>4. CASE ok
    BY <1>13, <2>1, <2>2, <2>3, <2>4
  <2>5. CASE ~ok
    <3>1. UNCHANGED batchSets
      BY <2>1, <2>5, PushTakes
    <3> QED
      BY <1>3, <2>1, <2>3, <2>5, <3>1, StepKeeps DEF NextStep
  <2> QED
    BY <2>4, <2>5
<1>15. CASE MapsPass
  <2>1. PICK ok \in BOOLEAN :
          /\ RunComputePush("maps", Reads(ThisOp) \cup {Here("p", "sd"), Here("p", "ed")}, ok)
          /\ NextOp \/ Fails
    BY <1>15 DEF MapsPass
  <2>2. ThisOp.kind = "maps" /\ "maps" \in Dispatching /\ pc \in {"body", "shrink"}
    BY <1>15 DEF MapsPass, Running, Dispatching
  <2>3. UNCHANGED <<job, dim, cur, scale>> /\ cw' \in Nat /\ ch' \in Nat
    BY <1>3, <1>15 DEF MapsPass
  <2> QED
    BY <1>2, <1>13, <2>1, <2>2, <2>3
<1>16. CASE BlurPass
  <2>1. PICK ok \in BOOLEAN :
          /\ RunComputePush(IF step = 4 THEN "blur_h" ELSE "blur_v",
                          {Scratch("temp"), Scratch("rg")} \cup
                          (IF step = 4 THEN Reads(ThisOp) ELSE {Out}), ok)
          /\ Position(pc, op, IF ok THEN step + 1 ELSE 6)
    BY <1>16 DEF BlurPass
  <2>2. /\ Running({"blur"}) /\ step \in {4, 5}
        /\ UNCHANGED <<job, dim, cur, scale, cw, ch>>
    BY <1>16 DEF BlurPass
  <2>3. CASE UNCHANGED batchSets
    BY <1>3, <2>1, <2>2, <2>3, StepKeeps
  <2>4. CASE ~(UNCHANGED batchSets)
    <3>1. /\ ok /\ step' = step + 1 /\ pc' = pc /\ op' = op
          /\ batchSets' = [batchSets EXCEPT ![IF step = 4 THEN "blur_h" ELSE "blur_v"] = @ + 1]
      BY <2>1, <2>4, PushTakes DEF Position
    <3>2. \A q \in Dispatching \cup Blurs :
            batchSets[q] \in Nat /\ q \in DOMAIN batchSets
      BY SetsAreNat
    <3>3. \A K : (Cardinality(Earlier(K)))' = Cardinality(Earlier(K))
      <4>1. \A K : (Earlier(K))' = Earlier(K)
        BY <2>2, <3>1, SameBody DEF Earlier
      <4> QED
        BY <4>1
    <3>4. \A K : Cardinality(Earlier(K)) \in Nat
      BY EarlierIsFinite
    <3>5. (Running({"blur"}))' = Running({"blur"})
      BY <2>2, <3>1, SameOp
    <3>6. \A q \in Dispatching : batchSets'[q] = batchSets[q]
      BY <3>1, <3>2 DEF Dispatching
    <3>7. CASE step = 4
      <4>1. /\ batchSets'["blur_h"] = batchSets["blur_h"] + 1
            /\ batchSets'["blur_v"] = batchSets["blur_v"]
        BY <3>1, <3>2, <3>7 DEF Blurs
      <4>2. (Passed(5))' /\ ~(Passed(6))' /\ ~Passed(5) /\ ~Passed(6)
        BY <2>2, <3>1, <3>5, <3>7 DEF Passed
      <4> QED
        BY <3>1, <3>2, <3>3, <3>4, <3>6, <4>1, <4>2 DEF BatchOfBody, Dispatching, Blurs
    <3>8. CASE step = 5
      <4>1. /\ batchSets'["blur_v"] = batchSets["blur_v"] + 1
            /\ batchSets'["blur_h"] = batchSets["blur_h"]
        BY <3>1, <3>2, <3>8 DEF Blurs
      <4>2. (Passed(5))' /\ (Passed(6))' /\ Passed(5) /\ ~Passed(6)
        BY <2>2, <3>1, <3>5, <3>8 DEF Passed
      <4> QED
        BY <3>1, <3>2, <3>3, <3>4, <3>6, <4>1, <4>2 DEF BatchOfBody, Dispatching, Blurs
    <3> QED
      BY <2>2, <3>7, <3>8
  <2> QED
    BY <2>3, <2>4
<1> QED
  BY <1>4, <1>5, <1>6, <1>7, <1>8, <1>9, <1>10, <1>11, <1>12, <1>14, <1>15, <1>16
  DEF PipelineNext

-----------------------------------------------------------------------------
(* Every step of a pipeline is one call of its context, or none.           *)
ContextCall ==
    \/ \E ok \in BOOLEAN, s \in Buffers, d \in Buffers : CreateBuffer(s, d, ok)
    \/ \E ok \in BOOLEAN, b \in Buffers : CreateEmpty(b, ok)
    \/ \E b \in Buffers : DestroyBuffer(b)
    \/ \E ok \in BOOLEAN, p \in Pipes, bs \in SUBSET caller : RunComputePush(p, bs, ok)
    \/ \E ok \in BOOLEAN, total \in Nat, bs \in SUBSET caller :
        \E s, t : ReadbackAll(bs, total, s, t, ok)
    \/ \E ok \in BOOLEAN : BeginBatch(ok)
    \/ \E submit \in BOOLEAN, ok \in BOOLEAN : FinishBatch(submit, ok)
    \/ Drop
    \/ UNCHANGED vars

LEMMA CallHandles ==
    ASSUME IInv, NEW ok \in BOOLEAN, NEW s, NEW d, NEW p, NEW bs
    PROVE  /\ CreateBuffer(s, d, ok) => s \in Buffers /\ d \in Buffers
           /\ CreateEmpty(d, ok) => d \in Buffers
           /\ DestroyBuffer(d) => d \in Buffers
           /\ RunComputePush(p, bs, ok) => bs \in SUBSET caller
  BY DEF CreateBuffer, CreateEmpty, DestroyBuffer, RunComputePush, Fresh, IInv, TypeOK

LEMMA StepCalls ==
    ASSUME IInv, PositionOK, [PipelineNext]_allVars
    PROVE  ContextCall
<1>1. {"downsample", "xyb", "mul", "blur_h", "blur_v", "maps"} \subseteq Pipes
  BY PipelineAssumption
<1>2. ASSUME NEW ok \in BOOLEAN, NEW s, NEW d, CreateBuffer(s, d, ok) PROVE ContextCall
  BY <1>2, CallHandles DEF ContextCall
<1>3. ASSUME NEW ok \in BOOLEAN, NEW d, CreateEmpty(d, ok) PROVE ContextCall
  BY <1>3, CallHandles DEF ContextCall
<1>4. ASSUME NEW d, DestroyBuffer(d) PROVE ContextCall
  BY <1>4, CallHandles DEF ContextCall
<1>5. ASSUME NEW ok \in BOOLEAN, NEW p \in Pipes, NEW bs, RunComputePush(p, bs, ok)
      PROVE  ContextCall
  BY <1>5, CallHandles DEF ContextCall
<1>6. CASE Upload
  BY <1>2, <1>6 DEF Upload, ContextCall
<1>7. CASE LoopHead \/ Halve \/ Return \/ Left \/ UNCHANGED allVars
  BY <1>7 DEF LoopHead, Halve, Return, Left, allVars, ContextCall
<1>8. CASE Begin
  BY <1>8 DEF Begin, ContextCall
<1>9. CASE CreateOut
  BY <1>3, <1>9 DEF CreateOut
<1>10. CASE Dispatch
  BY <1>1, <1>5, <1>10 DEF Dispatch, Running
<1>11. CASE DispatchFailed \/ BlurRelease \/ BlurReturn \/ GuardDrop \/ PrepDrop
  BY <1>4, <1>11 DEF DispatchFailed, BlurRelease, BlurReturn, GuardDrop, PrepDrop
<1>12. CASE BlurCreate
  BY <1>2, <1>3, <1>12 DEF BlurCreate
<1>13. CASE BlurPass
  BY <1>1, <1>5, <1>13 DEF BlurPass
<1>14. CASE MapsPass
  BY <1>1, <1>5, <1>14 DEF MapsPass
<1>15. CASE End \/ AbortOpenBatch
  BY <1>15 DEF End, AbortOpenBatch, BatchAborted, ContextCall
<1>16. CASE Readback
  <2>1. PICK ok \in BOOLEAN, s \in {Buf("p", "sd", "staging", scale)},
              t \in {Buf("p", "ed", "staging", scale)} :
          ReadbackAll({Here("p", "sd"), Here("p", "ed")}, 2 * cw * ch, s, t, ok)
    BY <1>16 DEF Readback
  <2>2. {Here("p", "sd"), Here("p", "ed")} \in SUBSET caller
    BY <2>1 DEF ReadbackAll
  <2>3. 2 * cw * ch \in Nat
    <3>1. cw \in Nat /\ ch \in Nat
      BY DEF PositionOK
    <3>2. \A m \in Nat, n \in Nat : 2 * m * n \in Nat
      OBVIOUS
    <3> QED
      BY <3>1, <3>2
  <2> QED
    BY <2>1, <2>2, <2>3 DEF ContextCall
<1>17. CASE ContextDrop
  BY <1>17 DEF ContextDrop, ContextCall
<1> QED
  BY <1>6, <1>7, <1>8, <1>9, <1>10, <1>11, <1>12, <1>13, <1>14, <1>15, <1>16, <1>17
  DEF PipelineNext

LEMMA CallKeepsIInv ==
    ASSUME IInv, ContextCall
    PROVE  IInv'
  BY CreateBufferStep, CreateEmptyStep, DestroyBufferStep, RunComputePushStep,
     ReadbackStep, BeginBatchStep, FinishBatchStep, DropStep, IdleStep DEF ContextCall

LEMMA InitPipelineInv == PipelineInit => PipelineInv
<1> SUFFICES ASSUME NEW j \in Jobs, NEW d \in Dimensions, InitOf(j, d)
             PROVE  PipelineInv
  BY DEF PipelineInit
<1>1. IInv
  BY InitIInv DEF InitOf
<1>2. j \in Seq(PipelineFunctions) /\ j # <<>> /\ d \in Nat \X Nat
  BY PipelineAssumption
<1>3. 1 \in DOMAIN j
  BY <1>2
<1>4. PositionOK
  BY <1>2, <1>3 DEF InitOf, PositionOK, Places
<1>5. ChainOK
  BY DEF InitOf, ChainOK
<1>6. ~open /\ sets = NoSets /\ batchSets = NoSets
  BY DEF InitOf, Init
<1>7. BatchInBody /\ NothingKept /\ BatchOfBody
  BY <1>6, NoSetsAreSets DEF InitOf, BatchInBody, NothingKept, BatchOfBody
<1> QED
  BY <1>1, <1>4, <1>5, <1>7 DEF PipelineInv

LEMMA PipelineInductive == PipelineInv /\ [PipelineNext]_allVars => PipelineInv'
  BY StepCalls, CallKeepsIInv, PositionStep, ChainStep, BatchStep, KeptStep,
     BatchOfBodyStep DEF PipelineInv

(* gpu_pipeline.rs, blur.rs, xyb.rs: whatever fails where, a pipeline is a *)
(* client that leaves its context with one owner for each buffer, with no  *)
(* recorded command about a buffer that is gone, and with a batch open     *)
(* only while one of its bodies runs or unwinds.                           *)
THEOREM PipelineInvariant == PipelineSpec => []PipelineInv
  BY InitPipelineInv, PipelineInductive, PTL DEF PipelineSpec

(* gpu_pipeline.rs, context.rs: so for every sequence of pipeline calls and  *)
(* failures, no buffer is held twice and no recorded command reads or      *)
(* writes one that was destroyed.                                          *)
THEOREM PipelinesOwnTheirBuffers == PipelineSpec => [](OneOwner /\ RecordedAlive)
<1>1. PipelineInv => OneOwner /\ RecordedAlive
  BY DEF PipelineInv, IInv, Ownership, OneOwner, RecordedAlive
<1> QED
  BY <1>1, PipelineInvariant, PTL

(* With five sets to a pool, the number of blurs a scale of a single shot  *)
(* records, no dispatch of a batch is refused for want of a set, however   *)
(* many batches and passes went before and whatever failed in them.        *)
LEMMA RoomInBatch ==
    ASSUME PipelineInv, MaxSets >= 5, open
    PROVE  /\ ThisOp.kind \in Dispatching /\ pc \in {"body", "shrink"}
                => RoomInPool(ThisOp.kind)
           /\ Running({"blur"}) /\ ~Passed(5) => RoomInPool("blur_h")
           /\ Running({"blur"}) /\ ~Passed(6) => RoomInPool("blur_v")
<1> USE DEF PipelineInv
<1>1. \A p \in Dispatching \cup Blurs :
        /\ p \in Pipes /\ sets[p] \in Nat /\ batchSets[p] \in Nat
        /\ sets[p] <= batchSets[p] + 1
        /\ p # "downsample" => sets[p] <= batchSets[p]
  BY SetsAreNat DEF NothingKept, IInv, PoolsDrain
<1>2. MaxSets \in Nat
  BY ContextAssumption
<1>3. \A K : Cardinality(Earlier(K)) \in Nat
  BY EarlierIsFinite
<1>4. ASSUME pc \in {"body", "shrink"}
      PROVE  /\ pc = "body"
             /\ Cardinality(Earlier(ThisOp.kind)) < 5
             /\ ThisOp.kind = "downsample" => Cardinality(Earlier("downsample")) < 3
  BY <1>4, EarlierAreFew DEF BatchInBody
<1>5. ASSUME ThisOp.kind \in Dispatching, pc \in {"body", "shrink"}
      PROVE  RoomInPool(ThisOp.kind)
  <2>1. batchSets[ThisOp.kind] <= Cardinality(Earlier(ThisOp.kind))
    BY <1>4, <1>5 DEF BatchOfBody, Dispatching
  <2>2. sets[ThisOp.kind] < MaxSets
    BY <1>1, <1>2, <1>3, <1>4, <1>5, <2>1
  <2> QED
    BY <2>2 DEF RoomInPool
<1>6. ASSUME Running({"blur"})
      PROVE  /\ ThisOp.kind = "blur" /\ pc = "body"
             /\ Cardinality(Earlier("blur")) < 5
  BY <1>4, <1>6 DEF Running
<1>7. ASSUME Running({"blur"}), ~Passed(5) PROVE RoomInPool("blur_h")
  <2>1. batchSets["blur_h"] <= Cardinality(Earlier("blur"))
    BY <1>3, <1>6, <1>7 DEF BatchOfBody
  <2> QED
    BY <1>1, <1>2, <1>3, <1>6, <1>7, <2>1 DEF RoomInPool, Blurs
<1>8. ASSUME Running({"blur"}), ~Passed(6) PROVE RoomInPool("blur_v")
  <2>1. batchSets["blur_v"] <= Cardinality(Earlier("blur"))
    BY <1>3, <1>6, <1>8 DEF BatchOfBody
  <2> QED
    BY <1>1, <1>2, <1>3, <1>6, <1>8, <2>1 DEF RoomInPool, Blurs
<1> QED
  BY <1>5, <1>7, <1>8

(* gpu_pipeline.rs, context.rs (reset_pools): so a dispatch about to be     *)
(* recorded in an open batch always finds a set left in its pool.          *)
THEOREM AlwaysRoomInPools ==
    ASSUME MaxSets >= 5
    PROVE  PipelineSpec => []RoomForNextDispatch
<1>1. PipelineInv => RoomForNextDispatch
  <2> SUFFICES ASSUME PipelineInv, open PROVE RoomForNextDispatch
    BY DEF RoomForNextDispatch
  <2>1. ASSUME NEW kind \in Dispatching, Running({kind}) PROVE RoomInPool(kind)
    BY <2>1, RoomInBatch DEF Running
  <2>2. ASSUME Running({"blur"}), step \in {4} PROVE RoomInPool("blur_h")
    BY <2>2, RoomInBatch DEF Passed
  <2>3. ASSUME Running({"blur"}), step \in {5} PROVE RoomInPool("blur_v")
    BY <2>3, RoomInBatch DEF Passed
  <2> QED
    BY <2>1, <2>2, <2>3 DEF RoomForNextDispatch, Dispatching
<1> QED
  BY <1>1, PipelineInvariant, PTL

-----------------------------------------------------------------------------
(* Who will destroy what.                                                  *)

(* What the calls of the context do to the buffers of the client.          *)
LEMMA CallsKeepClient ==
    ASSUME NEW ok \in BOOLEAN, NEW s, NEW d, NEW p, NEW bs, NEW total
    PROVE  /\ CreateBuffer(s, d, ok) => caller' = IF ok THEN caller \cup {d} ELSE caller
           /\ CreateEmpty(d, ok) => caller' = IF ok THEN caller \cup {d} ELSE caller
           /\ DestroyBuffer(d) => caller' = caller \ {d}
           /\ RunComputePush(p, bs, ok) => caller' = caller
           /\ ReadbackAll(bs, total, s, d, ok) => caller' = caller
           /\ BeginBatch(ok) => caller' = caller
           /\ FinishBatch(s, ok) => caller' = caller
           /\ Drop => caller' = caller
<1>1. CreateBuffer(s, d, ok) => caller' = IF ok THEN caller \cup {d} ELSE caller
  BY DEF CreateBuffer
<1>2. /\ CreateEmpty(d, ok) => caller' = IF ok THEN caller \cup {d} ELSE caller
      /\ DestroyBuffer(d) => caller' = caller \ {d}
  BY DEF CreateEmpty, DestroyBuffer
<1>3. /\ RunComputePush(p, bs, ok) => caller' = caller
      /\ ReadbackAll(bs, total, s, d, ok) => caller' = caller
  BY DEF RunComputePush, ReadbackAll, bufferVars
<1>4. /\ BeginBatch(ok) => caller' = caller
      /\ FinishBatch(s, ok) => caller' = caller
      /\ Drop => caller' = caller
  BY DEF BeginBatch, FinishBatch, Drop, bufferVars
<1> QED
  BY <1>1, <1>2, <1>3, <1>4

(* Without a careless failure an allocation succeeds, and so does a        *)
(* dispatch in a batch that finds room in its pool.                        *)
LEMMA CarefulCalls ==
    ASSUME Failures \cap CarelessFailures = {}, NEW ok \in BOOLEAN,
           NEW d, NEW p, NEW bs
    PROVE  /\ CreateEmpty(d, ok) => ok
           /\ open /\ RoomInPool(p) /\ RunComputePush(p, bs, ok) => ok
<1>1. /\ "buffer" \notin Failures /\ "memory" \notin Failures /\ "bind" \notin Failures
      /\ "groups" \notin Failures /\ "pipeline" \notin Failures /\ "dset" \notin Failures
  BY DEF CarelessFailures, LeakyFailures
<1>2. CreateEmpty(d, ok) => ok
  BY <1>1 DEF CreateEmpty, FailedAllocs
<1>3. open /\ RoomInPool(p) /\ RunComputePush(p, bs, ok) => ok
  BY <1>1 DEF RunComputePush
<1> QED
  BY <1>2, <1>3

LEMMA HandsEmpty ==
    /\ step = 1 => InHand = {}
    /\ pc \notin {"body", "shrink"} => InHand = {}
    /\ ThisOp.kind \notin {"downsample", "xyb", "mul", "blur"} => InHand = {}
<1>1. step = 1 => InHand = {}
  BY DEF InHand
<1>2. pc \notin {"body", "shrink"} => InHand = {}
  BY DEF InHand, Running
<1>3. ThisOp.kind \notin {"downsample", "xyb", "mul", "blur"} => InHand = {}
  BY DEF InHand, Running
<1> QED
  BY <1>1, <1>2, <1>3

LEMMA AccountedStep ==
    ASSUME Failures \cap CarelessFailures = {}, MaxSets >= 5,
           PipelineInv, Accounted, [PipelineNext]_allVars
    PROVE  Accounted'
<1> USE DEF progVars, dataVars
<1>0. /\ PositionOK /\ BatchInBody /\ IInv /\ PositionOK'
      /\ op \in Nat \ {0} /\ step \in Nat \ {0}
  BY PositionStep DEF PipelineInv, PositionOK
(* An operation is over, or the function fails.                            *)
<1>2. ASSUME NextOp, pc \in {"body", "shrink"}, ~err',
             caller' \subseteq kept' \cup resident'
      PROVE  Accounted'
  <2>1. pc' \in {"body", "end", "begin"}
    BY <1>2 DEF NextOp, Position
  <2> QED
    BY <1>2, <2>1 DEF Accounted
<1>3. ASSUME Fails, caller' \subseteq kept' \cup resident'
      PROVE  Accounted'
  BY <1>3 DEF Accounted, Fails, Position
(* The operation goes on.                                                  *)
<1>4. ASSUME pc \in {"body", "shrink"}, pc' = pc, ~err',
             caller' \subseteq kept' \cup resident' \cup InHand'
      PROVE  Accounted'
  BY <1>4 DEF Accounted
<1>5. ASSUME pc \notin {"body", "shrink"}, caller' = caller, kept' = kept,
             resident' = resident,
             pc' \notin {"leave", "gone"} /\ ~(pc' = "upload" /\ op' = 1),
             err' => pc' \in {"unwind", "drop", "leave", "gone"}
      PROVE  Accounted'
  BY <1>5, HandsEmpty DEF Accounted
<1>6. CASE Upload
  <2>1. pc = "upload" /\ resident' = resident
    BY <1>6 DEF Upload
  <2>2. ~err /\ InHand = {}
    BY <2>1, HandsEmpty DEF Accounted
  <2>3. CASE op > Len(UploadSides)
    <3>1. /\ caller' = caller /\ kept' = kept /\ err' = err /\ pc' = "head"
      BY <1>6, <2>3 DEF Upload, vars, bufferVars, Position
    <3> QED
      BY <1>5, <2>1, <2>2, <3>1
  <2>4. CASE ~(op > Len(UploadSides))
    <3> DEFINE b == Plane(UploadSides[op], "l", 0)
    <3>1. PICK ok \in BOOLEAN :
            /\ CreateBuffer(Buf(UploadSides[op], "l", "upload", 0), b, ok)
            /\ IF ok THEN Keep(b) /\ Position("upload", op + 1, 1) /\ UNCHANGED err
                     ELSE Fails /\ UNCHANGED kept
      BY <1>6, <2>4, Zenon DEF Upload
    <3> HIDE DEF b
    <3>2. CASE ok
      <4>1. /\ caller' = caller \cup {b} /\ kept' = kept \cup {b} /\ err' = err
            /\ pc' = "upload" /\ op' = op + 1
        BY <3>1, <3>2, CallsKeepClient DEF Keep, Position
      <4>2. op' # 1
        BY <1>0, <4>1
      <4> QED
        BY <2>1, <2>2, <4>1, <4>2 DEF Accounted
    <3>3. CASE ~ok
      <4>1. caller' = caller /\ kept' = kept
        BY <3>1, <3>3, CallsKeepClient
      <4> QED
        BY <1>3, <2>1, <2>2, <3>1, <3>3, <4>1 DEF Accounted
    <3> QED
      BY <3>2, <3>3
  <2> QED
    BY <2>3, <2>4
<1>7. CASE LoopHead
  <2>1. /\ pc = "head" /\ pc' \in {"unwind", "shrink", "begin"} /\ caller' = caller
        /\ kept' = kept /\ resident' = resident /\ err' = err
    BY <1>7 DEF LoopHead, Position, vars, bufferVars
  <2> QED
    BY <1>5, <2>1 DEF Accounted
<1>8. CASE Begin
  <2>1. /\ pc = "begin" /\ caller' = caller /\ kept' = kept /\ resident' = resident
    BY <1>8, CallsKeepClient DEF Begin
  <2>2. \/ pc' = "body" /\ err' = err
        \/ pc' = "unwind"
    BY <1>8 DEF Begin, Position, Fails
  <2> QED
    BY <1>5, <2>1, <2>2 DEF Accounted
<1>9. CASE Halve
  <2>1. /\ pc \in {"body", "shrink"} /\ ThisOp.kind = "halve"
        /\ caller' = caller /\ kept' = kept /\ resident' = resident /\ err' = err
    BY <1>9 DEF Halve, Running, vars, bufferVars
  <2> QED
    BY <1>2, <1>9, <2>1, HandsEmpty DEF Accounted, Halve
<1>10. CASE CreateOut
  <2>1. PICK ok \in BOOLEAN :
          /\ ok /\ CreateEmpty(Out, ok)
          /\ IF ThisOp.kind = "empty" THEN NextOp /\ Keep(Out) /\ UNCHANGED err
             ELSE NextStep /\ UNCHANGED <<kept, err>>
    BY <1>10, CarefulCalls DEF CreateOut
  <2>2. pc \in {"body", "shrink"} /\ UNCHANGED <<job, cur, scale, resident>>
    BY <1>10 DEF CreateOut, Running
  <2>3. caller' = caller \cup {Out} /\ ~err'
    BY <2>1, <2>2, CallsKeepClient DEF Accounted
  <2>4. CASE ThisOp.kind = "empty"
    BY <1>2, <2>1, <2>2, <2>3, <2>4, HandsEmpty DEF Accounted, Keep
  <2>5. CASE ThisOp.kind # "empty"
    <3>1. pc' = pc /\ op' = op /\ step' = step + 1 /\ kept' = kept
      BY <2>1, <2>5 DEF NextStep, Position
    <3>2. /\ Out' = Out /\ (Scratch("rg"))' = Scratch("rg")
          /\ (Scratch("temp"))' = Scratch("temp")
          /\ (Running({"blur"}))' = Running({"blur"})
          /\ (Running({"downsample", "xyb", "mul"}))' = Running({"downsample", "xyb", "mul"})
      BY <2>2, <3>1, SameOp
    <3>3. \/ Running({"downsample", "xyb", "mul"}) /\ step = 1
          \/ Running({"blur"}) /\ step = 3
      BY <1>10, <2>5 DEF CreateOut, Running
    <3>4. InHand \cup {Out} \subseteq InHand'
      BY <2>3, <3>1, <3>2, <3>3 DEF InHand
    <3> QED
      BY <1>4, <2>2, <2>3, <3>1, <3>4 DEF Accounted
  <2> QED
    BY <2>4, <2>5
(* The output exists, and is kept when the dispatch succeeds.              *)
<1>11. CASE Dispatch
  <2>1. PICK ok \in BOOLEAN :
          /\ RunComputePush(ThisOp.kind, Reads(ThisOp) \cup {Out}, ok)
          /\ IF ok THEN Keep(Out) /\ NextOp ELSE NextStep /\ UNCHANGED kept
    BY <1>11 DEF Dispatch
  <2>2. /\ pc \in {"body", "shrink"} /\ UNCHANGED <<job, cur, scale, resident, err>>
        /\ Running({"downsample", "xyb", "mul"}) /\ step = 2
    BY <1>11 DEF Dispatch, Running
  <2>3. caller' = caller /\ ~err'
    BY <2>1, <2>2, CallsKeepClient DEF Accounted
  <2>4. InHand \subseteq {Out}
    BY <2>2 DEF InHand, Running
  <2>5. CASE ok
    BY <1>2, <2>1, <2>2, <2>3, <2>4, <2>5 DEF Accounted, Keep
  <2>6. CASE ~ok
    <3>1. pc' = pc /\ op' = op /\ step' = 3 /\ kept' = kept
      BY <2>1, <2>2, <2>6 DEF NextStep, Position
    <3>2. /\ Out' = Out
          /\ (Running({"downsample", "xyb", "mul"}))' = Running({"downsample", "xyb", "mul"})
      BY <2>2, <3>1, SameOp
    <3>3. InHand \subseteq InHand'
      BY <2>2, <2>3, <2>4, <3>1, <3>2 DEF InHand
    <3> QED
      BY <1>4, <2>2, <2>3, <3>1, <3>3 DEF Accounted
  <2> QED
    BY <2>5, <2>6
<1>12. CASE DispatchFailed
  <2>1. /\ Running({"downsample", "xyb", "mul"}) /\ Fails
        /\ caller' = caller \ {Out} /\ kept' = kept /\ resident' = resident
    BY <1>12, CallsKeepClient DEF DispatchFailed
  <2>2. InHand \subseteq {Out}
    BY <2>1 DEF InHand, Running
  <2> QED
    BY <1>3, <2>1, <2>2 DEF Accounted
<1>13. CASE BlurCreate
  <2>1. /\ Running({"blur"}) /\ step \in {1, 2} /\ pc \in {"body", "shrink"}
        /\ UNCHANGED <<job, cur, scale, kept, resident>>
    BY <1>13 DEF BlurCreate, Running
  <2>2. PICK ok \in BOOLEAN :
          /\ IF step = 1 THEN CreateBuffer(Scratch("upload"), Scratch("rg"), ok)
                         ELSE CreateEmpty(Scratch("temp"), ok)
          /\ IF ok THEN NextStep /\ UNCHANGED err ELSE Fails
    BY <1>13 DEF BlurCreate
  <2>3. CASE ok
    <3>1. /\ pc' = pc /\ op' = op /\ step' = step + 1 /\ ~err'
          /\ caller' = caller \cup {IF step = 1 THEN Scratch("rg") ELSE Scratch("temp")}
      BY <2>1, <2>2, <2>3, CallsKeepClient DEF NextStep, Position, Accounted
    <3>2. /\ (Scratch("rg"))' = Scratch("rg") /\ (Scratch("temp"))' = Scratch("temp")
          /\ (Running({"blur"}))' = Running({"blur"})
      BY <2>1, <3>1, SameOp
    <3>3. step = 1 => InHand = {}
      BY HandsEmpty
    <3>4. step = 2 => InHand \subseteq {Scratch("rg")}
      BY <2>1 DEF InHand, Running
    <3>5. caller' \subseteq kept' \cup resident' \cup InHand'
      <4>1. CASE step = 1
        BY <2>1, <3>1, <3>2, <3>3, <4>1 DEF InHand, Accounted
      <4>2. CASE step = 2
        BY <2>1, <3>1, <3>2, <3>4, <4>2 DEF InHand, Accounted
      <4> QED
        BY <2>1, <4>1, <4>2
    <3> QED
      BY <1>4, <2>1, <3>1, <3>5
  <2>4. CASE ~ok
    <3>1. step = 1
      <4>1. step = 2 => CreateEmpty(Scratch("temp"), ok)
        BY <2>2, <2>4
      <4> QED
        BY <2>1, <2>4, <4>1, CarefulCalls
    <3>2. CreateBuffer(Scratch("upload"), Scratch("rg"), ok)
      BY <2>2, <3>1
    <3>3. caller' = caller
      BY <2>4, <3>2, CallsKeepClient
    <3> QED
      BY <1>3, <2>1, <2>2, <2>4, <3>1, <3>3, HandsEmpty DEF Accounted
  <2> QED
    BY <2>3, <2>4
(* Both passes find room for their set, so that none of them fails.        *)
<1>14. CASE BlurPass
  <2>1. /\ Running({"blur"}) /\ step \in {4, 5} /\ pc \in {"body", "shrink"}
        /\ UNCHANGED <<job, cur, scale, kept, resident>>
    BY <1>14 DEF BlurPass, Running
  <2>2. open
    BY <1>0, <2>1, InBody DEF BatchInBody, Running
  <2>3. RoomInPool(IF step = 4 THEN "blur_h" ELSE "blur_v")
    BY <2>1, <2>2, RoomInBatch DEF Passed
  <2>4. PICK ok \in BOOLEAN :
          /\ RunComputePush(IF step = 4 THEN "blur_h" ELSE "blur_v",
                            {Scratch("temp"), Scratch("rg")} \cup
                            (IF step = 4 THEN Reads(ThisOp) ELSE {Out}), ok)
          /\ err' = ~ok
          /\ Position(pc, op, IF ok THEN step + 1 ELSE 6)
    BY <1>14 DEF BlurPass
  <2>5. ok
    BY <2>2, <2>3, <2>4, CarefulCalls
  <2>6. ~err' /\ pc' = pc /\ op' = op /\ step' = step + 1 /\ caller' = caller
    BY <2>4, <2>5, CallsKeepClient DEF Position
  <2>7. /\ Out' = Out /\ (Scratch("rg"))' = Scratch("rg")
        /\ (Scratch("temp"))' = Scratch("temp")
        /\ (Running({"blur"}))' = Running({"blur"})
    BY <2>1, <2>6, SameOp
  <2>8. InHand \subseteq InHand'
    BY <2>1, <2>6, <2>7 DEF InHand, Running
  <2> QED
    BY <1>4, <2>1, <2>6, <2>8 DEF Accounted
<1>15. CASE BlurRelease
  <2>1. /\ Running({"blur"}) /\ step = 6 /\ pc \in {"body", "shrink"}
        /\ UNCHANGED <<job, cur, scale, kept, resident, err>>
        /\ pc' = pc /\ op' = op /\ step' = 7
    BY <1>15 DEF BlurRelease, Running, NextStep, Position
  <2>3. DestroyBuffer(Scratch("rg"))
    BY <1>15 DEF BlurRelease
  <2>2. /\ Out' = Out /\ (Scratch("temp"))' = Scratch("temp")
        /\ (Running({"blur"}))' = Running({"blur"})
    BY <2>1, SameOp
  <2>4. caller' = caller \ {Scratch("rg")}
    BY <2>3, CallsKeepClient
  <2>5. InHand \ {Scratch("rg")} \subseteq InHand'
    BY <2>1, <2>2, <2>4 DEF InHand, Running
  <2> QED
    BY <1>4, <2>1, <2>4, <2>5 DEF Accounted
<1>16. CASE BlurReturn
  <2>1. /\ Running({"blur"}) /\ step = 7 /\ pc \in {"body", "shrink"} /\ ~err
        /\ resident' = resident /\ caller' = caller \ {Scratch("temp")}
    BY <1>16, CallsKeepClient DEF BlurReturn, Running, Accounted
  <2>2. Keep(Out) /\ NextOp /\ err' = err
    BY <1>16, <2>1 DEF BlurReturn
  <2>3. InHand \subseteq {Scratch("temp"), Out}
    BY <2>1 DEF InHand, Running
  <2> QED
    BY <1>2, <2>1, <2>2, <2>3 DEF Accounted, Keep
<1>17. CASE MapsPass
  <2>1. /\ ThisOp.kind = "maps" /\ pc \in {"body", "shrink"}
        /\ caller' = caller /\ kept' = kept /\ resident' = resident
    BY <1>17, CallsKeepClient DEF MapsPass, Running
  <2>2. (NextOp /\ err' = err) \/ Fails
    BY <1>17 DEF MapsPass
  <2> QED
    BY <1>2, <1>3, <2>1, <2>2, HandsEmpty DEF Accounted
<1>18. CASE End \/ Readback
  <2>1. /\ pc \in {"end", "readback"}
        /\ caller' = caller /\ kept' = kept /\ resident' = resident
    BY <1>18, CallsKeepClient DEF End, Readback
  <2>2. \/ pc' \in {"head", "readback"} /\ err' = err
        \/ pc' = "unwind"
    BY <1>18 DEF End, Readback, Fails, NextScale, Position
  <2> QED
    BY <1>5, <2>1, <2>2 DEF Accounted
<1>19. CASE AbortOpenBatch
  <2>1. /\ pc = "unwind" /\ pc' = "drop" /\ caller' = caller /\ kept' = kept
        /\ resident' = resident
    BY <1>19, CallsKeepClient DEF AbortOpenBatch, BatchAborted, Position
  <2> QED
    BY <1>5, <2>1
<1>20. CASE GuardDrop
  <2>1. PICK b \in kept : DestroyBuffer(b) /\ kept' = kept \ {b}
    BY <1>20 DEF GuardDrop
  <2>2. /\ pc \in {"unwind", "drop"} /\ UNCHANGED <<posVars, resident, err>>
        /\ caller' = caller \ {b}
    BY <1>20, <2>1, CallsKeepClient DEF GuardDrop, Dropping
  <2> QED
    BY <2>1, <2>2, HandsEmpty DEF Accounted, posVars
<1>21. CASE Return
  <2>1. /\ pc \in {"unwind", "drop"} /\ caller' = caller
        /\ resident' = resident \cup kept /\ kept' = {}
    BY <1>21 DEF Return, Dropping, vars, bufferVars
  <2>2. pc' = "leave" \/ err' = FALSE
    BY <1>21 DEF Return, Position
  <2> QED
    BY <2>1, <2>2, HandsEmpty DEF Accounted
<1>22. CASE PrepDrop
  <2>1. PICK b \in resident : DestroyBuffer(b) /\ resident' = resident \ {b}
    BY <1>22 DEF PrepDrop
  <2>2. /\ pc = "leave" /\ UNCHANGED <<posVars, kept, err>> /\ caller' = caller \ {b}
    BY <1>22, <2>1, CallsKeepClient DEF PrepDrop
  <2> QED
    BY <2>1, <2>2, HandsEmpty DEF Accounted, posVars
<1>23. CASE ContextDrop
  <2>1. /\ pc = "leave" /\ pc' = "gone" /\ caller' = caller
        /\ UNCHANGED <<kept, resident, err>>
    BY <1>23, CallsKeepClient DEF ContextDrop, Position
  <2> QED
    BY <2>1, HandsEmpty DEF Accounted
<1>24. CASE Left \/ UNCHANGED allVars
  <2>1. UNCHANGED <<caller, kept, resident, err, pc, op, step, job, cur, scale>>
    BY <1>24 DEF Left, allVars, vars, bufferVars, pipelineVars, progVars, posVars, dataVars
  <2>2. InHand' = InHand
    BY <2>1, SameOp DEF InHand
  <2> QED
    BY <2>1, <2>2 DEF Accounted
<1> QED
  BY <1>6, <1>7, <1>8, <1>9, <1>10, <1>11, <1>12, <1>13, <1>14, <1>15, <1>16, <1>17,
     <1>18, <1>19, <1>20, <1>21, <1>22, <1>23, <1>24 DEF PipelineNext

LEMMA CallKeepsNoLeak ==
    ASSUME Failures \cap CarelessFailures = {}, IInv, NoLeak, ContextCall
    PROVE  NoLeak'
<1>1. Failures \cap LeakyFailures = {}
  BY DEF CarelessFailures
<1>2. CASE UNCHANGED vars
  BY <1>2 DEF NoLeak, vars, bufferVars, stagingVars, batchVars
<1> QED
  BY <1>1, <1>2, CallsLeakNothing DEF ContextCall

(* BUG_HUNT F8: as long as no failure is a careless one, and the pools     *)
(* have five sets, every buffer has an owner, and every buffer of the      *)
(* client is one that a guard, the caller or the running operation will    *)
(* destroy, whatever else fails.                                           *)
THEOREM EveryBufferAccounted ==
    ASSUME Failures \cap CarelessFailures = {}, MaxSets >= 5
    PROVE  PipelineSpec => []CleanInv
<1>1. PipelineInit => CleanInv
  <2>1. PipelineInit => NoLeak
    BY DEF PipelineInit, InitOf, Init, NoLeak
  <2>2. PipelineInit => Accounted
    BY DEF PipelineInit, InitOf, Init, Accounted
  <2> QED
    BY <2>1, <2>2, InitPipelineInv DEF CleanInv
<1>2. CleanInv /\ [PipelineNext]_allVars => CleanInv'
  <2> SUFFICES ASSUME PipelineInv, NoLeak, Accounted, [PipelineNext]_allVars
               PROVE  PipelineInv' /\ NoLeak' /\ Accounted'
    BY DEF CleanInv
  <2>1. NoLeak'
    BY StepCalls, CallKeepsNoLeak DEF PipelineInv
  <2> QED
    BY <2>1, PipelineInductive, AccountedStep
<1> QED
  BY <1>1, <1>2, PTL DEF PipelineSpec

(* gpu_pipeline.rs:12 and :204: then a pipeline function that has returned *)
(* leaves the PrepImages' buffers and the staging buffer, and no batch.    *)
THEOREM ReturnsClean ==
    ASSUME Failures \cap CarelessFailures = {}, MaxSets >= 5
    PROVE  PipelineSpec => []NothingLeftBehind
<1>1. CleanInv => NothingLeftBehind
  <2> SUFFICES ASSUME CleanInv, pc \in {"leave", "gone"} \/ (pc = "upload" /\ op = 1)
               PROVE  live \subseteq resident \cup {staging} /\ unbound = {} /\ ~open
    BY DEF NothingLeftBehind
  <2>1. ~open /\ trash = {}
    BY DEF CleanInv, PipelineInv, BatchInBody, IInv, Ownership
  <2>2. caller \subseteq resident
    BY HandsEmpty DEF CleanInv, Accounted
  <2> QED
    BY <2>1, <2>2 DEF CleanInv, NoLeak
<1> QED
  BY <1>1, EveryBufferAccounted, PTL

-----------------------------------------------------------------------------
(* The operations of the bodies.                                           *)

OpsOf(kind, sides, vars_) == {Op(kind, side, var) : side \in sides, var \in vars_}

Programs ==
    OpsOf("downsample", {"o", "v"}, {"l"}) \cup OpsOf("halve", {"p"}, {"l"})
    \cup OpsOf("xyb", {"o", "v"}, {"x"}) \cup OpsOf("mul", {"o", "v", "p"}, {"m"})
    \cup OpsOf("blur", {"o", "v", "p"}, {"s"}) \cup OpsOf("blur", {"o", "v"}, {"mu"})
    \cup OpsOf("empty", {"p"}, {"sd", "ed"}) \cup OpsOf("maps", {"p"}, {"sd"})

(* The first h operations shrink the images and then the dimensions.       *)
Shrinking(B, h) ==
    /\ B \in Seq(Programs) /\ h \in 0 .. Len(B)
    /\ \A i \in DOMAIN B : /\ B[i].kind = "halve" <=> i = h
                           /\ B[i].kind = "downsample" <=> i < h

LEMMA ProgramOps ==
    /\ \A s \in {"o", "v"} : /\ Op("downsample", s, "l") \in Programs
                             /\ Op("xyb", s, "x") \in Programs
                             /\ Op("blur", s, "mu") \in Programs
    /\ \A s \in {"o", "v", "p"} : Op("mul", s, "m") \in Programs /\ Op("blur", s, "s") \in Programs
    /\ Op("halve", "p", "l") \in Programs
    /\ Op("empty", "p", "sd") \in Programs /\ Op("empty", "p", "ed") \in Programs
    /\ Op("maps", "p", "sd") \in Programs
  BY DEF Programs, OpsOf

(* More operations may follow.                                             *)
LEMMA ShrinkingFollowed ==
    ASSUME NEW B, NEW h, Shrinking(B, h), NEW U \in Seq(Programs), Len(U) > 0,
           \A i \in DOMAIN U : U[i].kind \notin {"halve", "downsample"}
    PROVE  /\ Shrinking(B \o U, h) /\ h < Len(B \o U)
           /\ (B \o U)[Len(B \o U)] = U[Len(U)]
<1> DEFINE C == B \o U
<1>1. /\ C \in Seq(Programs) /\ Len(C) = Len(B) + Len(U)
      /\ \A i \in 1 .. Len(B) + Len(U) : C[i] = IF i <= Len(B) THEN B[i] ELSE U[i - Len(B)]
  BY ConcatProperties DEF Shrinking
<1> HIDE DEF C
<1>2. /\ Len(B) \in Nat /\ Len(U) \in Nat /\ Len(U) > 0 /\ DOMAIN B = 1 .. Len(B)
      /\ DOMAIN U = 1 .. Len(U) /\ DOMAIN C = 1 .. Len(C) /\ h \in 0 .. Len(B)
  BY <1>1, LenProperties DEF Shrinking
<1>3. ASSUME NEW i \in DOMAIN C
      PROVE  (C[i].kind = "halve" <=> i = h) /\ (C[i].kind = "downsample" <=> i < h)
  <2>1. CASE i <= Len(B)
    <3>1. i \in DOMAIN B /\ C[i] = B[i]
      BY <1>1, <1>2, <2>1
    <3> QED
      BY <3>1 DEF Shrinking
  <2>2. CASE i > Len(B)
    <3>1. i - Len(B) \in DOMAIN U /\ C[i] = U[i - Len(B)] /\ i > h
      BY <1>1, <1>2, <2>2
    <3> QED
      BY <3>1, <1>2
  <2> QED
    BY <2>1, <2>2, <1>2
<1>4. C[Len(C)] = U[Len(U)]
  <2>1. Len(C) \in 1 .. Len(B) + Len(U) /\ Len(C) > Len(B) /\ Len(C) - Len(B) = Len(U)
    BY <1>1, <1>2
  <2> QED
    BY <2>1, <1>1
<1>5. h < Len(C) /\ h \in 0 .. Len(C)
  BY <1>1, <1>2
<1> QED
  BY <1>1, <1>3, <1>4, <1>5 DEF C, Shrinking

LEMMA Shrinks ==
    /\ Shrinking(<<>>, 0) /\ Shrinking(ShrinksBoth, 3) /\ Shrinking(ShrinksVariant, 2)
<1>1. Shrinking(<<>>, 0)
  BY DEF Shrinking
<1>2. Shrinking(ShrinksBoth, 3)
  <2>1. ShrinksBoth \in Seq(Programs)
    BY ProgramOps DEF ShrinksBoth
  <2>2. /\ Len(ShrinksBoth) = 3 /\ DOMAIN ShrinksBoth = 1 .. 3
        /\ ShrinksBoth[1].kind = "downsample" /\ ShrinksBoth[2].kind = "downsample"
        /\ ShrinksBoth[3].kind = "halve"
    BY DEF ShrinksBoth, Op
  <2> QED
    BY <2>1, <2>2 DEF Shrinking
<1>3. Shrinking(ShrinksVariant, 2)
  <2>1. ShrinksVariant \in Seq(Programs)
    BY ProgramOps DEF ShrinksVariant
  <2>2. /\ Len(ShrinksVariant) = 2 /\ DOMAIN ShrinksVariant = 1 .. 2
        /\ ShrinksVariant[1].kind = "downsample" /\ ShrinksVariant[2].kind = "halve"
    BY DEF ShrinksVariant, Op
  <2> QED
    BY <2>1, <2>2 DEF Shrinking
<1> QED
  BY <1>1, <1>2, <1>3

LEMMA MapsEnd ==
    /\ Maps \in Seq(Programs) /\ Len(Maps) = 3
    /\ \A i \in DOMAIN Maps : Maps[i].kind \notin {"halve", "downsample"}
    /\ Maps[3].kind = "maps"
<1>1. Maps \in Seq(Programs)
  BY ProgramOps DEF Maps
<1>2. /\ Len(Maps) = 3 /\ DOMAIN Maps = 1 .. 3
      /\ Maps[1].kind = "empty" /\ Maps[2].kind = "empty" /\ Maps[3].kind = "maps"
  BY DEF Maps, Op
<1> QED
  BY <1>1, <1>2

LEMMA PrepEnds ==
    ASSUME NEW side \in {"o", "v"}
    PROVE  /\ PrepBody(side) \in Seq(Programs) /\ Len(PrepBody(side)) > 0
           /\ \A i \in DOMAIN PrepBody(side) :
                PrepBody(side)[i].kind \notin {"halve", "downsample"}
           /\ Shrinking(PrepBody(side), 0)
<1>1. PrepBody(side) \in Seq(Programs)
  BY ProgramOps DEF PrepBody
<1>2. /\ Len(PrepBody(side)) = 4 /\ DOMAIN PrepBody(side) = 1 .. 4
      /\ PrepBody(side)[1].kind = "xyb" /\ PrepBody(side)[2].kind = "mul"
      /\ PrepBody(side)[3].kind = "blur" /\ PrepBody(side)[4].kind = "blur"
  BY DEF PrepBody, Op
<1> QED
  BY <1>1, <1>2 DEF Shrinking

(* The scale's own work, as it follows the shrinking.                      *)
SingleWork ==
    <<Op("xyb", "o", "x"), Op("xyb", "v", "x"),
      Op("mul", "o", "m"), Op("mul", "v", "m"), Op("mul", "p", "m"),
      Op("blur", "o", "s"), Op("blur", "v", "s"), Op("blur", "p", "s"),
      Op("blur", "o", "mu"), Op("blur", "v", "mu")>>
PairWork == <<Op("mul", "p", "m"), Op("blur", "p", "s")>>

LEMMA WorkShrinksNothing ==
    /\ SingleWork \in Seq(Programs) /\ Len(SingleWork) > 0
    /\ \A i \in DOMAIN SingleWork : SingleWork[i].kind \notin {"halve", "downsample"}
    /\ PairWork \in Seq(Programs) /\ Len(PairWork) > 0
    /\ \A i \in DOMAIN PairWork : PairWork[i].kind \notin {"halve", "downsample"}
    /\ Shrinking(PairWork, 0)
<1>1. SingleWork \in Seq(Programs) /\ PairWork \in Seq(Programs)
  BY ProgramOps DEF SingleWork, PairWork
<1>2. /\ Len(SingleWork) = 10 /\ DOMAIN SingleWork = 1 .. 10
      /\ \A i \in 1 .. 10 : SingleWork[i].kind \in {"xyb", "mul", "blur"}
  BY DEF SingleWork, Op
<1>3. /\ Len(PairWork) = 2 /\ DOMAIN PairWork = 1 .. 2
      /\ \A i \in 1 .. 2 : PairWork[i].kind \in {"mul", "blur"}
  BY DEF PairWork, Op
<1> QED
  BY <1>1, <1>2, <1>3 DEF Shrinking

(* Every body shrinks first, if it does at all, and a body that is not a   *)
(* prep's ends with the maps.                                              *)
LEMMA BodyProgram ==
    ASSUME fn \in PipelineFunctions, NEW k \in Nat
    PROVE  \E h \in 0 .. Len(Body(k)) - 1 :
                /\ Shrinking(Body(k), h)
                /\ h = 0 <=> (fn \in Preps \cup {"compare"} \/ k = 0)
                /\ fn \notin Preps => Body(k)[Len(Body(k))].kind = "maps"
<1> DEFINE Good(B, h) == h \in 0 .. Len(B) - 1 /\ Shrinking(B, h)
           Mapped(B) == B[Len(B)].kind = "maps"
<1>1. \A B, h : Shrinking(B, h) => Good(B \o Maps, h) /\ Mapped(B \o Maps)
  <2> SUFFICES ASSUME NEW B, NEW h, Shrinking(B, h)
               PROVE  Good(B \o Maps, h) /\ Mapped(B \o Maps)
    OBVIOUS
  <2> DEFINE C == B \o Maps
  <2>1. Shrinking(C, h) /\ h < Len(C) /\ C[Len(C)] = Maps[3]
    <3>1. Maps \in Seq(Programs) /\ Len(Maps) > 0
      BY MapsEnd
    <3>2. /\ Shrinking(B \o Maps, h) /\ h < Len(B \o Maps)
          /\ (B \o Maps)[Len(B \o Maps)] = Maps[Len(Maps)]
      BY <3>1, MapsEnd, ShrinkingFollowed
    <3> QED
      BY <3>2, MapsEnd
  <2> HIDE DEF C
  <2>2. Len(C) \in Nat /\ h \in 0 .. Len(C)
    BY <2>1, LenProperties DEF Shrinking
  <2>3. Good(C, h) /\ Mapped(C)
    BY <2>1, <2>2, MapsEnd
  <2> QED
    BY <2>3 DEF C
<1>2. CASE fn \in Preps
  <2>1. PICK side \in {"o", "v"} : Body(k) = PrepBody(side)
    BY <1>2 DEF Body, Preps
  <2>2. Len(PrepBody(side)) \in Nat /\ Len(PrepBody(side)) > 0 /\ Shrinking(PrepBody(side), 0)
    BY PrepEnds, LenProperties
  <2> QED
    BY <1>2, <2>1, <2>2
<1>3. CASE fn = "compare"
  <2>1. Body(k) = PairWork \o Maps
    BY <1>3 DEF Body, CompareBody, PairWork
  <2>2. Good(Body(k), 0) /\ Mapped(Body(k))
    BY <1>1, <2>1, WorkShrinksNothing
  <2> QED
    BY <1>3, <2>2
<1>4. CASE fn = "single"
  <2> DEFINE S == IF k > 0 THEN ShrinksBoth ELSE <<>>
             h == IF k > 0 THEN 3 ELSE 0
  <2>1. Body(k) = (S \o SingleWork) \o Maps
    BY <1>4 DEF Body, SingleBody, SingleWork
  <2>2. Shrinking(S, h) /\ (h = 0 <=> k = 0)
    BY Shrinks
  <2> HIDE DEF S, h
  <2>3. Shrinking(S \o SingleWork, h)
    BY <2>2, WorkShrinksNothing, ShrinkingFollowed
  <2>4. Good(Body(k), h) /\ Mapped(Body(k))
    BY <1>1, <2>1, <2>3
  <2> QED
    BY <1>4, <2>2, <2>4 DEF Preps
<1>5. CASE fn = "fused"
  <2> DEFINE S == IF k > 0 THEN ShrinksVariant ELSE <<>>
             h == IF k > 0 THEN 2 ELSE 0
  <2>1. Body(k) = ((S \o PrepBody("v")) \o PairWork) \o Maps
    BY <1>5 DEF Body, FusedBody, PairWork
  <2>2. Shrinking(S, h) /\ (h = 0 <=> k = 0)
    BY Shrinks
  <2> HIDE DEF S, h
  <2>3. Shrinking(S \o PrepBody("v"), h)
    BY <2>2, PrepEnds, ShrinkingFollowed
  <2>4. Shrinking((S \o PrepBody("v")) \o PairWork, h)
    BY <2>3, WorkShrinksNothing, ShrinkingFollowed
  <2>5. Good(Body(k), h) /\ Mapped(Body(k))
    BY <1>1, <2>1, <2>4
  <2> QED
    BY <1>5, <2>2, <2>5 DEF Preps
<1> QED
  BY <1>2, <1>3, <1>4, <1>5 DEF PipelineFunctions

-----------------------------------------------------------------------------
(* What the buffers of a function hold.                                    *)

LEMMA ProgStays == [PipelineNext]_allVars => UNCHANGED <<job, dim>>
<1> USE DEF progVars
<1>1. Upload \/ LoopHead \/ Begin \/ Halve \/ CreateOut => UNCHANGED <<job, dim>>
  BY DEF Upload, LoopHead, Begin, Halve, CreateOut
<1>2. Dispatch \/ DispatchFailed \/ BlurCreate \/ BlurPass \/ BlurRelease => UNCHANGED <<job, dim>>
  BY DEF Dispatch, DispatchFailed, BlurCreate, BlurPass, BlurRelease
<1>3. BlurReturn \/ MapsPass \/ End \/ Readback \/ AbortOpenBatch => UNCHANGED <<job, dim>>
  BY DEF BlurReturn, MapsPass, End, Readback, AbortOpenBatch
<1>4. GuardDrop \/ Return \/ PrepDrop \/ ContextDrop => UNCHANGED <<job, dim>>
  BY DEF GuardDrop, Return, PrepDrop, ContextDrop
<1>5. Left \/ UNCHANGED allVars => UNCHANGED <<job, dim>>
  BY DEF Left, allVars, pipelineVars
<1> QED
  BY <1>1, <1>2, <1>3, <1>4, <1>5 DEF PipelineNext

(* None of this depends on where the function is.                          *)
LEMMA ValuesStay ==
    ASSUME UNCHANGED <<job, dim>>
    PROVE  /\ \A b : (ValueOf(b))' = ValueOf(b)
           /\ \A k : /\ (WidthAt(k))' = WidthAt(k) /\ (HeightAt(k))' = HeightAt(k)
                     /\ (PixelsAt(k))' = PixelsAt(k)
           /\ \A img, k : (LinearAt(img, k))' = LinearAt(img, k)
           /\ IsPair' = IsPair
<1>1. \A k : /\ (WidthAt(k))' = WidthAt(k) /\ (HeightAt(k))' = HeightAt(k)
             /\ (PixelsAt(k))' = PixelsAt(k)
  BY DEF WidthAt, HeightAt, PixelsAt
<1>2. \A img, k : (LinearAt(img, k))' = LinearAt(img, k)
  BY DEF LinearAt
<1>3. \A f, s : (ImageOf(f, s))' = ImageOf(f, s)
  BY DEF ImageOf, HomeOf
<1>4. \A img, k : (XybAt(img, k))' = XybAt(img, k)
  BY <1>1, <1>2 DEF XybAt
<1>5. \A x, k : (BlurAt(x, k))' = BlurAt(x, k)
  BY <1>1 DEF BlurAt
<1>6. \A a, b, k : (ProductAt(a, b, k))' = ProductAt(a, b, k)
  BY <1>1, <1>4 DEF ProductAt
<1>7. \A b : (ValueOf(b))' = ValueOf(b)
  BY <1>1, <1>2, <1>3, <1>4, <1>5, <1>6, ZenonT(40) DEF ValueOf
<1>8. IsPair' = IsPair
  BY DEF IsPair
<1> QED
  BY <1>1, <1>2, <1>7, <1>8

Sides == {"o", "v", "p"}

(* A side's buffers are at home where it was prepped.                      *)
LEMMA Homes ==
    ASSUME PositionOK, NEW side
    PROVE  /\ Home(side) \in 1 .. cur
           /\ fn = "single" \/ side = "p" => Home(side) = cur
           /\ ImageOf(Home(side), side) = Image(side)
           /\ ImageOf(cur, side) = Image(side)
<1>1. job \in Seq(PipelineFunctions) /\ cur \in 1 .. Len(job) /\ job # <<>>
  BY PipelineAssumption DEF PositionOK
<1>2. /\ fn = "fused" => cur > 1 /\ job[1] = "prep_o"
      /\ fn = "compare" => cur > 2 /\ job[1] = "prep_o" /\ job[2] = "prep_v"
  BY PipelineAssumption DEF PositionOK, fn
<1>3. Home(side) = HomeOf(cur, side)
  BY DEF Home, HomeOf, fn
<1>4. Home(side) \in 1 .. cur /\ (fn = "single" \/ side = "p" => Home(side) = cur)
  BY <1>1, <1>2 DEF Home
<1>5. HomeOf(Home(side), side) = Home(side)
  <2>1. CASE side = "o" /\ fn \in {"fused", "compare"}
    BY <1>2, <2>1 DEF Home, HomeOf
  <2>2. CASE side = "v" /\ fn = "compare"
    BY <1>2, <2>2 DEF Home, HomeOf
  <2>3. CASE ~(side = "o" /\ fn \in {"fused", "compare"}) /\ ~(side = "v" /\ fn = "compare")
    <3>1. Home(side) = cur
      BY <2>3 DEF Home
    <3> QED
      BY <1>3, <3>1
  <2> QED
    BY <2>1, <2>2, <2>3
<1> QED
  BY <1>3, <1>4, <1>5 DEF ImageOf, Image

LEMMA PlaneIs ==
    ASSUME NEW side, NEW var, NEW k
    PROVE  /\ Plane(side, var, k) = <<Home(side), side, var, "image", k>>
           /\ Plane(side, var, k)[1] = Home(side) /\ Plane(side, var, k)[2] = side
           /\ Plane(side, var, k)[3] = var /\ Plane(side, var, k)[4] = "image"
           /\ Plane(side, var, k)[5] = k
  BY DEF Plane, Buf

XybHere(side, k) == XybAt(Image(side), k)
ProductHere(side, k) ==
    IF side = "p" THEN ProductAt(Image("o"), Image("v"), k)
                  ELSE ProductAt(Image(side), Image(side), k)
SigmaHere(side, k) == BlurAt(ProductHere(side, k), k)
MuHere(side, k) == BlurAt(XybHere(side, k), k)

LEMMA PlaneValues ==
    ASSUME PositionOK, NEW side \in Sides, NEW k
    PROVE  /\ side # "p" =>
                /\ ValueOf(Plane(side, "l", k)) = LinearAt(Image(side), k)
                /\ ValueOf(Plane(side, "x", k)) = XybHere(side, k)
                /\ ValueOf(Plane(side, "mu", k)) = MuHere(side, k)
           /\ ValueOf(Plane(side, "m", k)) = ProductHere(side, k)
           /\ ValueOf(Plane(side, "s", k)) = SigmaHere(side, k)
           /\ ValueOf(Plane("p", "sd", k)) =
                SSIMMap(MuHere("o", k), MuHere("v", k), SigmaHere("o", k), SigmaHere("v", k),
                        SigmaHere("p", k), PixelsAt(k))
           /\ ValueOf(Plane("p", "ed", k)) =
                EdgeDiffMap(XybHere("o", k), MuHere("o", k), XybHere("v", k), MuHere("v", k),
                            PixelsAt(k))
<1>1. \A s : /\ ImageOf(Home(s), s) = Image(s)
             /\ ImageOf(Home("p"), s) = Image(s)
  <2>1. Home("p") = cur
    BY Homes
  <2> QED
    BY <2>1, Homes
<1> USE DEF XybHere, ProductHere, SigmaHere, MuHere, Sides
<1>2. ASSUME side # "p"
      PROVE  /\ ValueOf(Plane(side, "l", k)) = LinearAt(Image(side), k)
             /\ ValueOf(Plane(side, "x", k)) = XybHere(side, k)
             /\ ValueOf(Plane(side, "mu", k)) = MuHere(side, k)
  BY <1>1, <1>2, PlaneIs DEF ValueOf
<1>3. /\ ValueOf(Plane(side, "m", k)) = ProductHere(side, k)
      /\ ValueOf(Plane(side, "s", k)) = SigmaHere(side, k)
  BY <1>1, PlaneIs DEF ValueOf
<1>4. ValueOf(Plane("p", "sd", k)) =
        SSIMMap(MuHere("o", k), MuHere("v", k), SigmaHere("o", k), SigmaHere("v", k),
                SigmaHere("p", k), PixelsAt(k))
  BY <1>1, PlaneIs DEF ValueOf
<1>5. ValueOf(Plane("p", "ed", k)) =
        EdgeDiffMap(XybHere("o", k), MuHere("o", k), XybHere("v", k), MuHere("v", k),
                    PixelsAt(k))
  BY <1>1, PlaneIs DEF ValueOf
<1> QED
  BY <1>2, <1>3, <1>4, <1>5

-----------------------------------------------------------------------------
(* What an operation reads and computes.                                   *)

LEMMA KnownOps ==
    ASSUME NEW o \in Programs
    PROVE  /\ o.kind \in Kinds /\ o.side \in Sides
           /\ o.kind = "downsample" => o.side # "p" /\ o.var = "l"
           /\ o.kind = "halve" => o.side = "p" /\ o.var = "l"
           /\ o.kind = "xyb" => o.side # "p" /\ o.var = "x"
           /\ o.kind = "mul" => o.var = "m"
           /\ o.kind = "blur" => o.var = "s" \/ (o.var = "mu" /\ o.side # "p")
           /\ o.kind = "empty" => o.side = "p" /\ o.var \in {"sd", "ed"}
           /\ o.kind = "maps" => o.side = "p" /\ o.var = "sd"
  BY DEF Programs, OpsOf, Op, Kinds, Sides

LEMMA ThisOpKnown ==
    ASSUME PositionOK, pc \in {"body", "shrink"}
    PROVE  /\ ThisOp \in Programs
           /\ pc = "shrink" => ThisOp.kind = "downsample"
<1>1. CASE pc = "body"
  <2>1. PICK h \in 0 .. Len(Body(scale)) - 1 : Shrinking(Body(scale), h)
    BY InBody, BodyProgram DEF PositionOK
  <2>2. Body(scale) \in Seq(Programs)
    BY <2>1 DEF Shrinking
  <2> QED
    BY <1>1, <2>2 DEF ThisOp, PositionOK
<1>2. CASE pc = "shrink"
  BY <1>2, ProgramOps DEF ThisOp, Op
<1> QED
  BY <1>1, <1>2

(* A command reads images that hold linear, XYB, product and blurred data, *)
(* of a scale or a stage before the one it computes.                       *)
LEMMA ReadsAre ==
    ASSUME PositionOK, NEW o \in Programs,
           o.kind \in {"downsample", "xyb", "mul", "blur", "maps"}
    PROVE  \A b \in Reads(o) :
                /\ b[1] \in 1 .. cur /\ (fn = "single" => b[1] = cur)
                /\ b[4] = "image" /\ b[3] \notin {"sd", "ed"}
                /\ b # Here(o.side, o.var) \/ o.kind \notin {"downsample", "xyb", "mul", "blur"}
<1> DEFINE Fine(b) == /\ b[1] \in 1 .. cur /\ (fn = "single" => b[1] = cur)
                      /\ b[4] = "image" /\ b[3] \notin {"sd", "ed"}
<1>1. scale - 1 # scale
  BY DEF PositionOK
<1>2. \A side, k : \A var \in {"l", "x", "m", "s", "mu"} : Fine(Plane(side, var, k))
  <2> SUFFICES ASSUME NEW side, NEW k, NEW var \in {"l", "x", "m", "s", "mu"}
               PROVE  Fine(Plane(side, var, k))
    OBVIOUS
  <2> QED
    BY PlaneIs, Homes
<1> HIDE DEF Fine
<1>3. CASE o.kind = "downsample"
  <2>1. Reads(o) = {Plane(o.side, "l", scale - 1)}
    BY <1>3 DEF Reads, Inputs
  <2>2. Plane(o.side, "l", scale - 1) # Here(o.side, o.var)
    BY <1>1, PlaneIs DEF Here
  <2> QED
    BY <2>1, <2>2, <1>2 DEF Fine
<1>4. CASE o.kind = "xyb"
  <2>1. Reads(o) = {Plane(o.side, "l", scale)}
    BY <1>4 DEF Reads, Inputs, Here
  <2>2. Plane(o.side, "l", scale) # Here(o.side, o.var)
    BY <1>4, KnownOps, PlaneIs DEF Here
  <2> QED
    BY <2>1, <2>2, <1>2 DEF Fine
<1>5. CASE o.kind = "mul"
  <2>1. \A b \in Reads(o) : \E s : b = Plane(s, "x", scale)
    BY <1>5 DEF Reads, Inputs, Here
  <2>2. \A s : Plane(s, "x", scale) # Here(o.side, o.var)
    <3> SUFFICES ASSUME NEW s PROVE Plane(s, "x", scale) # Here(o.side, o.var)
      OBVIOUS
    <3>1. Plane(s, "x", scale)[3] = "x" /\ Plane(o.side, o.var, scale)[3] = "m"
      BY <1>5, KnownOps, PlaneIs
    <3> QED
      BY <3>1 DEF Here
  <2>3. \A s : Fine(Plane(s, "x", scale))
    BY <1>2
  <2> QED
    BY <2>1, <2>2, <2>3 DEF Fine
<1>6. CASE o.kind = "blur"
  <2>1. \A b \in Reads(o) : \E var \in {"m", "x"} : b = Plane(o.side, var, scale)
    BY <1>6 DEF Reads, Inputs, Here
  <2>2. \A var \in {"m", "x"} : Plane(o.side, var, scale) # Here(o.side, o.var)
    <3> SUFFICES ASSUME NEW var \in {"m", "x"}
                 PROVE  Plane(o.side, var, scale) # Here(o.side, o.var)
      OBVIOUS
    <3>1. Plane(o.side, var, scale)[3] = var /\ Plane(o.side, o.var, scale)[3] \in {"s", "mu"}
      BY <1>6, KnownOps, PlaneIs
    <3> QED
      BY <3>1 DEF Here
  <2>3. \A var \in {"m", "x"} : Fine(Plane(o.side, var, scale))
    BY <1>2
  <2> QED
    BY <2>1, <2>2, <2>3 DEF Fine
<1>7. CASE o.kind = "maps"
  <2>1. \A b \in Reads(o) : \E s : \E var \in {"x", "mu", "s"} : b = Plane(s, var, scale)
    BY <1>7 DEF Reads, Inputs, Here
  <2>3. \A s : \A var \in {"x", "mu", "s"} : Fine(Plane(s, var, scale))
    BY <1>2
  <2> QED
    BY <2>1, <2>3, <1>7 DEF Fine
<1> QED
  BY <1>3, <1>4, <1>5, <1>6, <1>7

(* A dispatch that the context accepts reads what earlier ones have left.  *)
LEMMA ReadsLoaded ==
    ASSUME PositionOK, LoadedHold, ImagesInHand, ~err, pc \in {"body", "shrink"},
           ThisOp.kind \in {"downsample", "xyb", "mul", "blur", "maps"},
           Reads(ThisOp) \subseteq caller
    PROVE  Reads(ThisOp) \subseteq DOMAIN val
<1> SUFFICES ASSUME NEW b \in Reads(ThisOp) PROVE b \in DOMAIN val
  OBVIOUS
<1>1. /\ b[1] \in 1 .. cur /\ (fn = "single" => b[1] = cur)
      /\ b[4] = "image" /\ b[3] \notin {"sd", "ed"}
      /\ b # Out \/ ThisOp.kind = "maps"
  BY ThisOpKnown, ReadsAre DEF Out
<1>2. IsPair => fn = "single"
  BY DEF IsPair, fn, PositionOK
<1>3. b \in kept \cup resident \cup OutInHand
  BY <1>1, <1>2 DEF ImagesInHand
<1>4. b \notin OutInHand
  BY <1>1 DEF OutInHand, Running
<1> QED
  BY <1>1, <1>3, <1>4 DEF LoadedHold, Loaded

(* With the dimensions of its scale, an operation leaves in its output     *)
(* what the name of the output says.                                       *)
LEMMA ComputedIsValue ==
    ASSUME PositionOK, HoldsItsValue, NEW o \in Programs, Reads(o) \subseteq DOMAIN val,
           o.kind \in {"xyb", "mul", "blur"}, cw = WidthAt(scale), ch = HeightAt(scale)
    PROVE  Computed(o) = ValueOf(Here(o.side, o.var))
<1>0. cw * ch = PixelsAt(scale)
  BY DEF PixelsAt
<1>1. CASE o.kind = "xyb"
  <2> DEFINE b == Plane(o.side, "l", scale)
  <2>1. Inputs(o) = <<b>>
    BY <1>1 DEF Inputs, Here
  <2> HIDE DEF b
  <2>2. b \in DOMAIN val
    BY <2>1 DEF Reads
  <2>3. val[b] = LinearAt(Image(o.side), scale)
    BY <1>1, <2>2, KnownOps, PlaneValues DEF HoldsItsValue, b
  <2>4. Computed(o) = XYB(val[b], cw * ch)
    BY <1>1, <2>1 DEF Computed
  <2>5. ValueOf(Here(o.side, o.var)) = XybHere(o.side, scale)
    BY <1>1, KnownOps, PlaneValues DEF Here
  <2> QED
    BY <1>0, <2>3, <2>4, <2>5 DEF XybHere, XybAt
<1>2. CASE o.kind = "mul"
  <2> DEFINE s == IF o.side = "p" THEN "o" ELSE o.side
             t == IF o.side = "p" THEN "v" ELSE o.side
             b == Plane(s, "x", scale)
             c == Plane(t, "x", scale)
  <2>1. Inputs(o) = <<b, c>>
    BY <1>2 DEF Inputs, Here
  <2>2. s \in Sides /\ t \in Sides /\ s # "p" /\ t # "p"
    BY KnownOps DEF Sides
  <2>3. ValueOf(Here(o.side, o.var)) = ProductAt(Image(s), Image(t), scale)
    BY <1>2, KnownOps, PlaneValues DEF Here, ProductHere
  <2> HIDE DEF b, c, s, t
  <2>4. b \in DOMAIN val /\ c \in DOMAIN val
    BY <2>1 DEF Reads
  <2>5. val[b] = XybHere(s, scale) /\ val[c] = XybHere(t, scale)
    BY <2>2, <2>4, PlaneValues DEF HoldsItsValue, b, c
  <2>6. Computed(o) = Product(val[b], val[c], 3 * (cw * ch))
    BY <1>2, <2>1 DEF Computed
  <2> QED
    BY <1>0, <2>3, <2>5, <2>6 DEF XybHere, ProductAt
<1>3. CASE o.kind = "blur"
  <2> DEFINE var == IF o.var = "s" THEN "m" ELSE "x"
             b == Plane(o.side, var, scale)
  <2>1. Inputs(o) = <<b>>
    BY <1>3 DEF Inputs, Here
  <2>2. ValueOf(Here(o.side, o.var)) = BlurAt(ValueOf(b), scale)
    BY <1>3, KnownOps, PlaneValues DEF Here, SigmaHere, MuHere
  <2> HIDE DEF b
  <2>3. b \in DOMAIN val
    BY <2>1 DEF Reads
  <2>4. Computed(o) = Blurred(val[b], cw, ch)
    BY <1>3, <2>1 DEF Computed
  <2> QED
    BY <2>2, <2>3, <2>4 DEF HoldsItsValue, BlurAt
<1> QED
  BY <1>1, <1>2, <1>3

LEMMA ShrinksToValue ==
    ASSUME PositionOK, HoldsItsValue, NEW o \in Programs, Reads(o) \subseteq DOMAIN val,
           o.kind = "downsample", scale \in 1 .. 5,
           cw = WidthAt(scale - 1), ch = HeightAt(scale - 1)
    PROVE  /\ Computed(o) = ValueOf(Here(o.side, o.var))
           /\ Half(cw) = WidthAt(scale) /\ Half(ch) = HeightAt(scale)
<1> DEFINE b == Plane(o.side, "l", scale - 1)
<1>1. Inputs(o) = <<b>>
  BY DEF Inputs
<1>2. /\ ValueOf(b) = LinearAt(Image(o.side), scale - 1)
      /\ ValueOf(Here(o.side, o.var)) = LinearAt(Image(o.side), scale)
  BY KnownOps, PlaneValues DEF Here
<1> HIDE DEF b
<1>3. b \in DOMAIN val
  BY <1>1 DEF Reads
<1>4. Computed(o) = Downsampled(val[b], cw, ch)
  BY <1>1 DEF Computed
<1>5. scale - 1 \in 0 .. 4 /\ (scale - 1) + 1 = scale
  OBVIOUS
<1>6. /\ LinearAt(Image(o.side), scale) = Downsampled(LinearAt(Image(o.side), scale - 1), cw, ch)
      /\ Half(cw) = WidthAt(scale) /\ Half(ch) = HeightAt(scale)
  BY <1>5, ScalesShrink DEF LinearAt, WidthAt, HeightAt
<1> QED
  BY <1>2, <1>3, <1>4, <1>6 DEF HoldsItsValue

(* The maps of a scale, and so the norms read back, are the reference's.   *)
LEMMA MapsAreValues ==
    ASSUME PositionOK, HoldsItsValue, NEW o \in Programs, Reads(o) \subseteq DOMAIN val,
           o.kind = "maps", cw = WidthAt(scale), ch = HeightAt(scale)
    PROVE  LET i(n) == val[Inputs(o)[n]]
           IN  /\ SSIMMap(i(3), i(4), i(5), i(6), i(7), cw * ch) = ValueOf(Here("p", "sd"))
               /\ EdgeDiffMap(i(1), i(3), i(2), i(4), cw * ch) = ValueOf(Here("p", "ed"))
<1> DEFINE x(s) == Plane(s, "x", scale)
           mu(s) == Plane(s, "mu", scale)
           sg(s) == Plane(s, "s", scale)
<1>1. Inputs(o) = <<x("o"), x("v"), mu("o"), mu("v"), sg("o"), sg("v"), sg("p")>>
  BY DEF Inputs, Here
<1>2. /\ Inputs(o)[1] = x("o") /\ Inputs(o)[2] = x("v") /\ Inputs(o)[3] = mu("o")
      /\ Inputs(o)[4] = mu("v") /\ Inputs(o)[5] = sg("o") /\ Inputs(o)[6] = sg("v")
      /\ Inputs(o)[7] = sg("p") /\ DOMAIN Inputs(o) = 1 .. 7
  BY <1>1
<1>3. /\ ValueOf(x("o")) = XybHere("o", scale) /\ ValueOf(x("v")) = XybHere("v", scale)
      /\ ValueOf(mu("o")) = MuHere("o", scale) /\ ValueOf(mu("v")) = MuHere("v", scale)
      /\ ValueOf(sg("o")) = SigmaHere("o", scale) /\ ValueOf(sg("v")) = SigmaHere("v", scale)
      /\ ValueOf(sg("p")) = SigmaHere("p", scale)
  BY PlaneValues DEF Sides
<1> HIDE DEF x, mu, sg
<1>4. \A n \in 1 .. 7 : Inputs(o)[n] \in DOMAIN val
  BY <1>2 DEF Reads
<1>5. \A n \in 1 .. 7 : val[Inputs(o)[n]] = ValueOf(Inputs(o)[n])
  BY <1>4 DEF HoldsItsValue
<1>6. /\ val[Inputs(o)[1]] = XybHere("o", scale) /\ val[Inputs(o)[2]] = XybHere("v", scale)
      /\ val[Inputs(o)[3]] = MuHere("o", scale) /\ val[Inputs(o)[4]] = MuHere("v", scale)
      /\ val[Inputs(o)[5]] = SigmaHere("o", scale) /\ val[Inputs(o)[6]] = SigmaHere("v", scale)
      /\ val[Inputs(o)[7]] = SigmaHere("p", scale)
  BY <1>2, <1>3, <1>5
<1>7. /\ ValueOf(Here("p", "sd")) =
            SSIMMap(MuHere("o", scale), MuHere("v", scale), SigmaHere("o", scale),
                    SigmaHere("v", scale), SigmaHere("p", scale), PixelsAt(scale))
      /\ ValueOf(Here("p", "ed")) =
            EdgeDiffMap(XybHere("o", scale), MuHere("o", scale), XybHere("v", scale),
                        MuHere("v", scale), PixelsAt(scale))
  BY PlaneValues DEF Here, Sides
<1>8. cw * ch = PixelsAt(scale)
  BY DEF PixelsAt
<1> QED
  BY <1>6, <1>7, <1>8

LEMMA NormsAreScale ==
    ASSUME PositionOK, HoldsItsValue, fn \notin Preps,
           Here("p", "sd") \in DOMAIN val, Here("p", "ed") \in DOMAIN val,
           cw = WidthAt(scale), ch = HeightAt(scale)
    PROVE  Norms(val[Here("p", "sd")], val[Here("p", "ed")], cw, ch) = ScaleAt(scale)
<1>1. /\ val[Here("p", "sd")] =
            SSIMMap(MuHere("o", scale), MuHere("v", scale), SigmaHere("o", scale),
                    SigmaHere("v", scale), SigmaHere("p", scale), PixelsAt(scale))
      /\ val[Here("p", "ed")] =
            EdgeDiffMap(XybHere("o", scale), MuHere("o", scale), XybHere("v", scale),
                        MuHere("v", scale), PixelsAt(scale))
  BY PlaneValues DEF Here, Sides, HoldsItsValue
<1>2. Scale(LinearAt(Image("o"), scale), LinearAt(Image("v"), scale), cw, ch) =
        Norms(SSIMMap(MuHere("o", scale), MuHere("v", scale), SigmaHere("o", scale),
                      SigmaHere("v", scale), SigmaHere("p", scale), PixelsAt(scale)),
              EdgeDiffMap(XybHere("o", scale), MuHere("o", scale), XybHere("v", scale),
                          MuHere("v", scale), PixelsAt(scale)), cw, ch)
  BY DEF Scale, MuHere, SigmaHere, XybHere, ProductHere, BlurAt, XybAt, ProductAt, PixelsAt
<1> QED
  BY <1>1, <1>2 DEF ScaleAt

-----------------------------------------------------------------------------
(* The dimensions an operation works with.                                 *)

LEMMA OpDimensions ==
    ASSUME PositionOK, DimensionsOK, ScalesOK, ~err, pc \in {"body", "shrink"}
    PROVE  /\ scale \in 0 .. 5
           /\ ThisOp.kind \notin {"downsample", "halve"} =>
                pc = "body" /\ Halved /\ cw = WidthAt(scale) /\ ch = HeightAt(scale)
           /\ ThisOp.kind \in {"downsample", "halve"} =>
                /\ ~Halved /\ scale \in 1 .. 5
                /\ cw = WidthAt(scale - 1) /\ ch = HeightAt(scale - 1)
<1>1. scale \in 0 .. 5
  BY ReachedScales, ScalesAre DEF ScalesOK
<1>2. /\ Halved => cw = WidthAt(scale) /\ ch = HeightAt(scale)
      /\ ~Halved => cw = WidthAt(Before(scale)) /\ ch = HeightAt(Before(scale))
  BY DEF DimensionsOK
<1>3. scale > 0 => Before(scale) = scale - 1 /\ scale \in 1 .. 5
  BY <1>1 DEF Before
<1>4. CASE pc = "shrink"
  BY <1>1, <1>2, <1>3, <1>4, InBody DEF Halved, DimensionsOK
<1>5. CASE pc = "body"
  <2>1. PICK h \in 0 .. Len(Body(scale)) - 1 :
          /\ Shrinking(Body(scale), h)
          /\ h = 0 <=> (fn \in Preps \cup {"compare"} \/ scale = 0)
          /\ fn \notin Preps => Body(scale)[Len(Body(scale))].kind = "maps"
    <3>1. fn \in PipelineFunctions /\ scale \in Nat
      BY InBody DEF PositionOK
    <3> QED
      BY <3>1, BodyProgram
  <2>2. /\ op \in DOMAIN Body(scale) /\ ThisOp = Body(scale)[op]
        /\ DOMAIN Body(scale) = 1 .. Len(Body(scale)) /\ Len(Body(scale)) \in Nat
        /\ \A i \in DOMAIN Body(scale) : /\ Body(scale)[i].kind = "halve" <=> i = h
                                         /\ Body(scale)[i].kind = "downsample" <=> i < h
    BY <1>5, <2>1, InBody DEF PositionOK, Shrinking
  <2>3. Halved <=> op > h
    <3>1. Halved <=> \A i \in op .. Len(Body(scale)) : Body(scale)[i].kind # "halve"
      BY <1>5 DEF Halved
    <3>2. op > h => Halved
      BY <2>1, <2>2, <3>1
    <3>3. op <= h => h \in op .. Len(Body(scale)) /\ Body(scale)[h].kind = "halve"
      BY <2>1, <2>2
    <3> QED
      BY <2>1, <2>2, <3>1, <3>2, <3>3
  <2>4. ThisOp.kind \notin {"downsample", "halve"} => op > h
    BY <2>1, <2>2
  <2>5. ThisOp.kind \in {"downsample", "halve"} => op <= h /\ h # 0
    BY <2>1, <2>2
  <2>6. h # 0 => scale > 0
    BY <1>1, <2>1
  <2> QED
    BY <1>1, <1>2, <1>3, <1>5, <2>1, <2>2, <2>3, <2>4, <2>5, <2>6
<1> QED
  BY <1>4, <1>5

(* Only the halving changes which dimensions a body has.                   *)
LEMMA NextOpHalves ==
    ASSUME PositionOK, pc \in {"body", "shrink"}, NextOp, UNCHANGED <<job, cur, scale>>
    PROVE  /\ pc = "body" /\ ThisOp.kind # "halve" => Halved' = Halved
           /\ pc = "shrink" \/ ThisOp.kind = "halve" => Halved'
           /\ pc' = "end" /\ fn \notin Preps => ThisOp.kind = "maps"
           /\ pc' \in {"body", "end", "begin"} /\ step' = 1
           /\ pc' = "end" => pc = "body"
<1>0. fn' = fn /\ (Body(scale))' = Body(scale)
  BY SameBody
<1>1. CASE pc = "shrink"
  <2>1. pc' = "begin" /\ fn \in Preps /\ step' = 1
    BY <1>1 DEF NextOp, Position, PositionOK
  <2> QED
    BY <1>0, <1>1, <2>1, InBody DEF Halved
<1>2. CASE pc = "body"
  <2> DEFINE B == Body(scale)
  <2>1. PICK h \in 0 .. Len(B) - 1 :
          /\ Shrinking(B, h)
          /\ fn \notin Preps => B[Len(B)].kind = "maps"
    BY InBody, BodyProgram DEF PositionOK
  <2>2. /\ op \in DOMAIN B /\ ThisOp = B[op] /\ DOMAIN B = 1 .. Len(B) /\ Len(B) \in Nat
        /\ \A i \in DOMAIN B : B[i].kind = "halve" <=> i = h
    BY <1>2, <2>1, InBody DEF PositionOK, Shrinking
  <2>3. B' = B
    BY <1>0
  <2>4. Halved <=> \A i \in op .. Len(B) : B[i].kind # "halve"
    BY <1>2 DEF Halved
  <2> HIDE DEF B
  <2>5. CASE op < Len(B)
    <3>1. pc' = "body" /\ op' = op + 1 /\ step' = 1
      BY <1>2, <2>5 DEF NextOp, Position, B
    <3>2. Halved' <=> \A i \in op + 1 .. Len(B) : B[i].kind # "halve"
      BY <2>3, <3>1 DEF Halved, B
    <3>3. \A i \in op .. Len(B) : i = op \/ i \in op + 1 .. Len(B)
      BY <2>2
    <3>4. ThisOp.kind # "halve" => Halved' = Halved
      <4>1. ThisOp.kind # "halve" => (Halved' <=> Halved)
        BY <2>2, <2>4, <3>2, <3>3
      <4>2. Halved \in BOOLEAN /\ Halved' \in BOOLEAN
        BY <1>2, <3>1 DEF Halved
      <4> QED
        BY <4>1, <4>2
    <3>5. ThisOp.kind = "halve" => Halved'
      BY <2>2, <3>2
    <3> QED
      BY <1>2, <3>1, <3>4, <3>5
  <2>6. CASE op = Len(B)
    <3>1. pc' = "end" /\ step' = 1
      BY <1>2, <2>2, <2>6 DEF NextOp, Position, B
    <3>2. Halved'
      BY <3>1 DEF Halved
    <3>3. ThisOp.kind # "halve" => Halved
      BY <2>2, <2>4, <2>6
    <3>4. Halved \in BOOLEAN /\ Halved' \in BOOLEAN
      BY <1>2, <3>1 DEF Halved
    <3> QED
      BY <1>2, <2>1, <2>2, <2>6, <3>1, <3>2, <3>3, <3>4
  <2> QED
    BY <2>2, <2>5, <2>6
<1> QED
  BY <1>1, <1>2

-----------------------------------------------------------------------------
(* Every buffer holds what its name says.                                  *)

LEMMA NothingComputedInError ==
    ASSUME FailsOK, err
    PROVE  /\ pc \notin {"upload", "head", "begin", "end", "readback", "shrink"}
           /\ pc = "body" => ThisOp.kind = "blur" /\ step \in {6, 7}
<1>1. pc = "shrink" => ThisOp.kind = "downsample"
  BY DEF ThisOp, Op
<1> QED
  BY <1>1 DEF FailsOK, Running

(* What a dispatch or a blur that succeeds leaves in its output.           *)
LEMMA OutIsValue ==
    ASSUME PositionOK, HoldsItsValue, DimensionsOK, ScalesOK, ~err, pc \in {"body", "shrink"},
           ThisOp.kind \in {"downsample", "xyb", "mul", "blur"},
           Reads(ThisOp) \subseteq DOMAIN val
    PROVE  Computed(ThisOp) = ValueOf(Out)
  BY OpDimensions, ThisOpKnown, ComputedIsValue, ShrinksToValue DEF Out

LEMMA HoldsStep ==
    ASSUME PositionOK, HoldsItsValue, LoadedHold, ImagesInHand, FailsOK, BlurReads,
           DimensionsOK, ScalesOK, [PipelineNext]_allVars
    PROVE  HoldsItsValue' /\ LoadedHold'
<1> USE DEF progVars, posVars, dataVars
<1>0. \A b : (ValueOf(b))' = ValueOf(b)
  BY ProgStays, ValuesStay
<1>1. ASSUME NEW b, val' = Holds(b, ValueOf(b)), kept' = kept \cup {b}, resident' = resident,
             pc \notin {"leave", "gone"}
      PROVE  HoldsItsValue' /\ LoadedHold'
  <2>1. /\ DOMAIN val' = DOMAIN val \cup {b}
        /\ \A c \in DOMAIN val' : val'[c] = IF c = b THEN ValueOf(b) ELSE val[c]
    BY <1>1 DEF Holds
  <2>2. HoldsItsValue'
    BY <1>0, <2>1 DEF HoldsItsValue
  <2>3. LoadedHold'
    BY <1>1, <2>1 DEF LoadedHold, Loaded
  <2> QED
    BY <2>2, <2>3
<1>2. ASSUME val' = val, resident' = resident,
             \A b \in kept' : b \in kept \/ b[3] \in {"sd", "ed"},
             pc \in {"leave", "gone"} => pc' \in {"leave", "gone"}
      PROVE  HoldsItsValue' /\ LoadedHold'
  BY <1>0, <1>2 DEF HoldsItsValue, LoadedHold, Loaded
<1>3. CASE Upload
  <2>1. pc = "upload" /\ resident' = resident /\ ~err /\ scale = 0
    BY <1>3, NothingComputedInError DEF Upload, DimensionsOK
  <2>2. CASE val' = val /\ kept' = kept
    BY <1>2, <2>1, <2>2
  <2>3. CASE ~(val' = val /\ kept' = kept)
    <3> DEFINE side == UploadSides[op]
               b == Plane(side, "l", 0)
    <3>1. /\ op \in Nat \ {0} /\ ~(op > Len(UploadSides))
          /\ Keep(b) /\ val' = Holds(b, Image(side))
      BY <1>3, <2>3 DEF Upload, PositionOK
    <3>2. side \in {"o", "v"}
      <4>1. fn \in PipelineFunctions
        BY InBody
      <4> QED
        BY <3>1, <4>1 DEF UploadSides, PipelineFunctions, Preps
    <3>3. ValueOf(b) = Image(side)
      <4>1. ValueOf(b) = LinearAt(Image(side), 0)
        BY <3>2, PlaneValues DEF Sides
      <4> QED
        BY <4>1, ScalesShrink DEF LinearAt
    <3> HIDE DEF b, side
    <3> QED
      BY <1>1, <2>1, <3>1, <3>3 DEF Keep
  <2> QED
    BY <2>2, <2>3
<1>4. CASE LoopHead \/ Begin \/ Halve \/ DispatchFailed \/ BlurCreate \/ BlurPass \/ BlurRelease
  <2>1. /\ val' = val /\ kept' = kept /\ resident' = resident
        /\ pc \notin {"leave", "gone"}
    BY <1>4 DEF LoopHead, Begin, Halve, DispatchFailed, BlurCreate, BlurPass, BlurRelease, Running
  <2> QED
    BY <1>2, <2>1
<1>5. CASE CreateOut
  <2>1. /\ val' = val /\ resident' = resident /\ pc \in {"body", "shrink"}
        /\ kept' = kept \/ (ThisOp.kind = "empty" /\ kept' = kept \cup {Out})
    BY <1>5 DEF CreateOut, Running, Keep
  <2>2. ThisOp.kind = "empty" => Out[3] \in {"sd", "ed"}
    BY <2>1, ThisOpKnown, KnownOps, PlaneIs DEF Out, Here
  <2> QED
    BY <1>2, <2>1, <2>2
<1>6. CASE Dispatch
  <2>1. /\ pc \in {"body", "shrink"} /\ resident' = resident
        /\ ThisOp.kind \in {"downsample", "xyb", "mul"}
    BY <1>6 DEF Dispatch, Running
  <2>2. ~err
    BY <2>1, NothingComputedInError
  <2>3. PICK ok \in BOOLEAN :
          /\ RunComputePush(ThisOp.kind, Reads(ThisOp) \cup {Out}, ok)
          /\ IF ok THEN Keep(Out) /\ val' = Holds(Out, Computed(ThisOp))
                   ELSE UNCHANGED <<kept, val>>
    BY <1>6 DEF Dispatch
  <2>4. Reads(ThisOp) \subseteq caller
    BY <2>3 DEF RunComputePush
  <2>5. Computed(ThisOp) = ValueOf(Out)
    BY <2>1, <2>2, <2>4, ReadsLoaded, OutIsValue
  <2>6. CASE ok
    BY <1>1, <2>1, <2>3, <2>5, <2>6 DEF Keep
  <2>7. CASE ~ok
    BY <1>2, <2>1, <2>3, <2>7
  <2> QED
    BY <2>6, <2>7
<1>7. CASE BlurReturn
  <2>1. /\ pc \in {"body", "shrink"} /\ resident' = resident /\ ThisOp.kind = "blur"
        /\ Running({"blur"}) /\ step = 7
    BY <1>7 DEF BlurReturn, Running
  <2>2. CASE err
    BY <1>2, <1>7, <2>1, <2>2 DEF BlurReturn
  <2>3. CASE ~err
    <3>1. kept' = kept \cup {Out} /\ val' = Holds(Out, Computed(ThisOp))
      BY <1>7, <2>3 DEF BlurReturn, Keep
    <3>2. Computed(ThisOp) = ValueOf(Out)
      BY <2>1, <2>3, OutIsValue DEF BlurReads
    <3> QED
      BY <1>1, <2>1, <3>1, <3>2
  <2> QED
    BY <2>2, <2>3
<1>8. CASE MapsPass
  <2> DEFINE sd == Here("p", "sd")
             ed == Here("p", "ed")
             ssim == SSIMMap(val[Inputs(ThisOp)[3]], val[Inputs(ThisOp)[4]],
                             val[Inputs(ThisOp)[5]], val[Inputs(ThisOp)[6]],
                             val[Inputs(ThisOp)[7]], cw * ch)
             edge == EdgeDiffMap(val[Inputs(ThisOp)[1]], val[Inputs(ThisOp)[3]],
                                 val[Inputs(ThisOp)[2]], val[Inputs(ThisOp)[4]], cw * ch)
  <2>1. /\ pc \in {"body", "shrink"} /\ kept' = kept /\ resident' = resident
        /\ ThisOp.kind = "maps"
    BY <1>8 DEF MapsPass, Running
  <2>2. ~err
    BY <2>1, NothingComputedInError
  <2>3. PICK ok \in BOOLEAN :
          /\ RunComputePush("maps", Reads(ThisOp) \cup {sd, ed}, ok)
          /\ IF ok THEN val' = [b \in DOMAIN val \cup {sd, ed} |->
                                  CASE b = sd -> ssim [] b = ed -> edge [] OTHER -> val[b]]
                   ELSE UNCHANGED val
    BY <1>8 DEF MapsPass
  <2>4. Reads(ThisOp) \subseteq caller
    BY <2>3 DEF RunComputePush
  <2>5. ssim = ValueOf(sd) /\ edge = ValueOf(ed)
    BY <2>1, <2>2, <2>4, ReadsLoaded, OpDimensions, ThisOpKnown, MapsAreValues
  <2>8. sd # ed
    BY PlaneIs DEF Here
  <2> HIDE DEF sd, ed, ssim, edge
  <2>6. CASE ok
    <3>1. /\ DOMAIN val' = DOMAIN val \cup {sd, ed}
          /\ \A b \in DOMAIN val' : val'[b] = IF b = sd THEN ssim
                                              ELSE IF b = ed THEN edge ELSE val[b]
      <4>1. val' = [b \in DOMAIN val \cup {sd, ed} |->
                      CASE b = sd -> ssim [] b = ed -> edge [] OTHER -> val[b]]
        BY <2>3, <2>6
      <4>2. DOMAIN val' = DOMAIN val \cup {sd, ed}
        BY <4>1
      <4>3. ASSUME NEW b \in DOMAIN val \cup {sd, ed}
            PROVE  val'[b] = IF b = sd THEN ssim ELSE IF b = ed THEN edge ELSE val[b]
        <5>1. val'[b] = CASE b = sd -> ssim [] b = ed -> edge [] OTHER -> val[b]
          BY <4>1
        <5> QED
          BY <2>8, <5>1
      <4> QED
        BY <4>2, <4>3
    <3> QED
      BY <1>0, <2>1, <2>5, <3>1 DEF HoldsItsValue, LoadedHold, Loaded
  <2>7. CASE ~ok
    BY <1>2, <2>1, <2>3, <2>7
  <2> QED
    BY <2>6, <2>7
<1>9. CASE End \/ Readback
  <2>1. /\ val' = val /\ kept' = kept /\ resident' = resident
        /\ pc \notin {"leave", "gone"}
    BY <1>9 DEF End, Readback
  <2> QED
    BY <1>2, <2>1
<1>10. CASE AbortOpenBatch
  <2>1. /\ val' = val /\ kept' = kept /\ resident' = resident
        /\ pc \notin {"leave", "gone"}
    BY <1>10 DEF AbortOpenBatch
  <2> QED
    BY <1>2, <2>1
<1>11. CASE GuardDrop
  <2>1. /\ val' = val /\ kept' \subseteq kept /\ resident' = resident
        /\ pc \notin {"leave", "gone"}
    BY <1>11 DEF GuardDrop, Dropping
  <2> QED
    BY <1>2, <2>1
<1>12. CASE Return
  <2>1. /\ val' = [b \in DOMAIN val \cap resident' |-> val[b]]
        /\ resident' = resident \cup kept /\ kept' = {} /\ pc \notin {"leave", "gone"}
    BY <1>12 DEF Return, Dropping
  <2> QED
    BY <1>0, <2>1 DEF HoldsItsValue, LoadedHold, Loaded
<1>13. CASE PrepDrop
  <2>1. val' = <<>> /\ pc' = "leave"
    BY <1>13 DEF PrepDrop
  <2> QED
    BY <2>1 DEF HoldsItsValue, LoadedHold
<1>14. CASE ContextDrop
  <2>1. val' = val /\ pc' = "gone"
    BY <1>14 DEF ContextDrop, Position
  <2> QED
    BY <1>0, <2>1 DEF HoldsItsValue, LoadedHold
<1>15. CASE Left \/ UNCHANGED allVars
  <2>1. val' = val /\ kept' = kept /\ resident' = resident /\ pc' = pc
    BY <1>15 DEF Left, allVars, pipelineVars
  <2> QED
    BY <1>2, <2>1
<1> QED
  BY <1>3, <1>4, <1>5, <1>6, <1>7, <1>8, <1>9, <1>10, <1>11, <1>12, <1>13, <1>14, <1>15
  DEF PipelineNext

-----------------------------------------------------------------------------
(* Where the images are, and what failures leave of them.                  *)

LEMMA BufIs ==
    ASSUME PositionOK, NEW side, NEW var, NEW part, NEW k
    PROVE  Buf(side, var, part, k)[1] \in 1 .. cur /\ Buf(side, var, part, k)[4] = part
  BY Homes DEF Buf

LEMMA NoOutInHand ==
    /\ OutInHand \subseteq caller /\ OutInHand \subseteq {Out}
    /\ step = 1 => OutInHand = {}
    /\ pc \notin {"body", "shrink"} => OutInHand = {}
    /\ ThisOp.kind \notin {"downsample", "xyb", "mul", "blur"} => OutInHand = {}
<1>1. OutInHand \subseteq caller /\ OutInHand \subseteq {Out}
  BY DEF OutInHand
<1>2. step = 1 => OutInHand = {}
  BY DEF OutInHand
<1>3. pc \notin {"body", "shrink"} => OutInHand = {}
  BY DEF OutInHand, Running
<1>4. ThisOp.kind \notin {"downsample", "xyb", "mul", "blur"} => OutInHand = {}
  BY DEF OutInHand, Running
<1> QED
  BY <1>1, <1>2, <1>3, <1>4

(* The output stays in hand as long as the operation lasts.                *)
LEMMA OutStaysInHand ==
    ASSUME UNCHANGED <<job, cur, scale, pc, op>>, pc \in {"body", "shrink"},
           ThisOp.kind \in {"downsample", "xyb", "mul", "blur"}, step' > 1
    PROVE  /\ Out \in caller' => Out \in OutInHand'
           /\ OutInHand \cap caller' \subseteq OutInHand'
<1>1. ThisOp' = ThisOp /\ Out' = Out
  BY SameOp
<1>2. Out \in caller' => Out \in OutInHand'
  BY <1>1 DEF OutInHand, Running
<1> QED
  BY <1>2 DEF OutInHand

LEMMA ImagesStep ==
    ASSUME PositionOK, ImagesInHand, FailsOK, [PipelineNext]_allVars
    PROVE  ImagesInHand'
<1> USE DEF progVars, posVars, dataVars
<1>0. IsPair' = IsPair /\ op \in Nat \ {0} /\ step \in Nat \ {0}
  BY ProgStays, ValuesStay DEF PositionOK
<1>1. ASSUME cur' = cur, \A b \in caller' : b \in caller \/ b[1] \in 1 .. cur,
             err' \/ /\ ~err
                     /\ \A b \in caller' :
                          /\ b[4] = "image" /\ b \notin caller => b \in kept' \cup OutInHand'
                          /\ b \in kept \cup resident \cup OutInHand
                                => b \in kept' \cup resident' \cup OutInHand'
      PROVE  ImagesInHand'
  BY <1>0, <1>1 DEF ImagesInHand
(* Steps that hand nothing to the client and take nothing from it.         *)
<1>2. ASSUME cur' = cur, caller' \subseteq caller, kept' = kept, resident' = resident,
             err' \/ ~err, OutInHand = {}
      PROVE  ImagesInHand'
  BY <1>1, <1>2
<1>3. CASE Upload
  <2>1. pc = "upload" /\ resident' = resident /\ cur' = cur /\ ~err
    BY <1>3, NothingComputedInError DEF Upload
  <2>2. CASE op > Len(UploadSides)
    <3>1. caller' = caller /\ kept' = kept /\ err' = err
      BY <1>3, <2>2 DEF Upload, vars, bufferVars
    <3> QED
      BY <1>2, <2>1, <3>1, NoOutInHand
  <2>3. CASE ~(op > Len(UploadSides))
    <3> DEFINE b == Plane(UploadSides[op], "l", 0)
    <3>1. PICK ok \in BOOLEAN :
            /\ CreateBuffer(Buf(UploadSides[op], "l", "upload", 0), b, ok)
            /\ IF ok THEN Keep(b) ELSE Fails /\ UNCHANGED kept
      BY <1>3, <2>3, Zenon DEF Upload
    <3>2. b[1] \in 1 .. cur
      BY BufIs DEF Plane
    <3> HIDE DEF b
    <3>3. CASE ok
      <4>1. caller' = caller \cup {b} /\ kept' = kept \cup {b}
        BY <3>1, <3>3, CallsKeepClient DEF Keep
      <4> QED
        BY <1>1, <2>1, <3>2, <4>1, NoOutInHand
    <3>4. CASE ~ok
      <4>1. caller' = caller /\ kept' = kept /\ err'
        BY <3>1, <3>4, CallsKeepClient DEF Fails
      <4> QED
        BY <1>1, <2>1, <4>1
    <3> QED
      BY <3>3, <3>4
  <2> QED
    BY <2>2, <2>3
<1>4. CASE LoopHead
  <2>1. /\ pc = "head" /\ caller' = caller /\ cur' = cur /\ kept' = kept
        /\ resident' = resident /\ err' = err
    BY <1>4 DEF LoopHead, vars, bufferVars
  <2> QED
    BY <1>2, <2>1, NothingComputedInError, NoOutInHand
<1>5. CASE Begin
  <2>1. /\ pc = "begin" /\ caller' = caller /\ cur' = cur /\ kept' = kept
        /\ resident' = resident
    BY <1>5, CallsKeepClient DEF Begin
  <2> QED
    BY <1>2, <2>1, NothingComputedInError, NoOutInHand
<1>6. CASE Halve
  <2>1. /\ pc \in {"body", "shrink"} /\ ThisOp.kind = "halve" /\ caller' = caller
        /\ cur' = cur /\ kept' = kept /\ resident' = resident /\ err' = err
    BY <1>6 DEF Halve, Running, vars, bufferVars
  <2>2. ~err
    BY <2>1, NothingComputedInError
  <2> QED
    BY <1>2, <2>1, <2>2, NoOutInHand
<1>7. CASE CreateOut
  <2>1. /\ pc \in {"body", "shrink"} /\ UNCHANGED <<job, cur, scale, resident>>
        /\ \/ ThisOp.kind \in {"downsample", "xyb", "mul", "empty"} /\ step = 1
           \/ ThisOp.kind = "blur" /\ step = 3
    BY <1>7 DEF CreateOut, Running
  <2>2. ~err
    BY <2>1, NothingComputedInError
  <2>3. PICK ok \in BOOLEAN :
          /\ CreateEmpty(Out, ok)
          /\ IF ~ok THEN Fails /\ UNCHANGED kept
             ELSE IF ThisOp.kind = "empty" THEN Keep(Out)
             ELSE NextStep /\ UNCHANGED kept
    BY <1>7 DEF CreateOut
  <2>4. Out[1] \in 1 .. cur
    BY BufIs DEF Out, Here, Plane
  <2>5. CASE ~ok
    <3>1. caller' = caller /\ err'
      BY <2>3, <2>5, CallsKeepClient DEF Fails
    <3> QED
      BY <1>1, <2>1, <3>1
  <2>6. CASE ok /\ ThisOp.kind = "empty"
    <3>1. caller' = caller \cup {Out} /\ kept' = kept \cup {Out} /\ OutInHand = {}
      BY <2>3, <2>6, CallsKeepClient, NoOutInHand DEF Keep
    <3> QED
      BY <1>1, <2>1, <2>2, <2>4, <3>1
  <2>7. CASE ok /\ ThisOp.kind # "empty"
    <3>1. caller' = caller \cup {Out} /\ kept' = kept
      BY <2>3, <2>7, CallsKeepClient
    <3>2. pc' = pc /\ op' = op /\ step' > 1
      BY <1>0, <2>3, <2>7 DEF NextStep, Position
    <3>3. /\ Out \in caller' => Out \in OutInHand'
          /\ OutInHand \cap caller' \subseteq OutInHand'
      BY <2>1, <2>7, <3>2, OutStaysInHand
    <3>4. OutInHand \subseteq caller
      BY NoOutInHand
    <3> QED
      BY <1>1, <2>1, <2>2, <2>4, <3>1, <3>3, <3>4
  <2> QED
    BY <2>5, <2>6, <2>7
<1>8. CASE Dispatch
  <2>1. /\ pc \in {"body", "shrink"} /\ UNCHANGED <<job, cur, scale, resident, err>>
        /\ ThisOp.kind \in {"downsample", "xyb", "mul"} /\ step = 2
    BY <1>8 DEF Dispatch, Running
  <2>2. ~err
    BY <2>1, NothingComputedInError
  <2>3. PICK ok \in BOOLEAN :
          /\ RunComputePush(ThisOp.kind, Reads(ThisOp) \cup {Out}, ok)
          /\ IF ok THEN Keep(Out) ELSE NextStep /\ UNCHANGED kept
    BY <1>8 DEF Dispatch
  <2>4. caller' = caller
    BY <2>3, CallsKeepClient
  <2>5. CASE ok
    <3>1. kept' = kept \cup {Out}
      BY <2>3, <2>5 DEF Keep
    <3> QED
      BY <1>1, <2>1, <2>2, <2>4, <3>1, NoOutInHand
  <2>6. CASE ~ok
    <3>1. pc' = pc /\ op' = op /\ step' > 1 /\ kept' = kept
      BY <2>1, <2>3, <2>6 DEF NextStep, Position
    <3>2. OutInHand \cap caller' \subseteq OutInHand'
      BY <2>1, <3>1, OutStaysInHand
    <3> QED
      BY <1>1, <2>1, <2>2, <2>4, <3>1, <3>2
  <2> QED
    BY <2>5, <2>6
<1>9. CASE DispatchFailed
  <2>1. caller' = caller \ {Out} /\ err' /\ cur' = cur
    BY <1>9, CallsKeepClient DEF DispatchFailed, Fails
  <2> QED
    BY <1>1, <2>1
<1>10. CASE BlurCreate
  <2>1. /\ pc \in {"body", "shrink"} /\ UNCHANGED <<job, cur, scale, kept, resident>>
        /\ ThisOp.kind = "blur" /\ step \in {1, 2}
    BY <1>10 DEF BlurCreate, Running
  <2>2. ~err
    BY <2>1, NothingComputedInError
  <2>3. PICK ok \in BOOLEAN :
          /\ IF step = 1 THEN CreateBuffer(Scratch("upload"), Scratch("rg"), ok)
                         ELSE CreateEmpty(Scratch("temp"), ok)
          /\ IF ok THEN NextStep /\ UNCHANGED err ELSE Fails
    BY <1>10 DEF BlurCreate
  <2>4. \A part \in {"rg", "temp"} : Scratch(part)[1] \in 1 .. cur /\ Scratch(part)[4] # "image"
    BY BufIs DEF Scratch
  <2>5. /\ step = 1 => caller' \subseteq caller \cup {Scratch("rg")}
        /\ step = 2 => caller' \subseteq caller \cup {Scratch("temp")}
    <3>1. CASE step = 1
      <4>1. CreateBuffer(Scratch("upload"), Scratch("rg"), ok)
        BY <2>3, <3>1
      <4>2. caller' = IF ok THEN caller \cup {Scratch("rg")} ELSE caller
        BY <4>1, CallsKeepClient
      <4> QED
        BY <3>1, <4>2
    <3>2. CASE step = 2
      <4>1. CreateEmpty(Scratch("temp"), ok)
        BY <2>3, <3>2
      <4>2. caller' = IF ok THEN caller \cup {Scratch("temp")} ELSE caller
        BY <4>1, CallsKeepClient
      <4> QED
        BY <3>2, <4>2
    <3> QED
      BY <2>1, <3>1, <3>2
  <2>6. \A b \in caller' : b \in caller \/ (b[1] \in 1 .. cur /\ b[4] # "image")
    BY <2>1, <2>4, <2>5
  <2>7. CASE ~ok
    <3>1. err'
      BY <2>3, <2>7 DEF Fails
    <3> QED
      BY <1>1, <2>1, <2>6, <3>1
  <2>8. CASE ok
    <3>1. pc' = pc /\ op' = op /\ step' > 1
      BY <2>1, <2>3, <2>8 DEF NextStep, Position
    <3>2. OutInHand \cap caller' \subseteq OutInHand'
      BY <2>1, <3>1, OutStaysInHand
    <3> QED
      BY <1>1, <2>1, <2>2, <2>6, <3>2
  <2> QED
    BY <2>7, <2>8
<1>11. CASE BlurPass \/ BlurRelease
  <2>1. /\ pc \in {"body", "shrink"} /\ UNCHANGED <<job, cur, scale, kept, resident>>
        /\ ThisOp.kind = "blur" /\ pc' = pc /\ op' = op /\ step' > 1
        /\ caller' \subseteq caller
    <3>1. CASE BlurPass
      <4>1. PICK ok \in BOOLEAN :
              /\ \E p, bs : RunComputePush(p, bs, ok)
              /\ Position(pc, op, IF ok THEN step + 1 ELSE 6)
        BY <3>1 DEF BlurPass
      <4>2. caller' = caller
        BY <4>1, CallsKeepClient
      <4> QED
        BY <3>1, <4>1, <4>2 DEF BlurPass, Position, Running
    <3>2. CASE BlurRelease
      <4>1. caller' = caller \ {Scratch("rg")}
        BY <3>2, CallsKeepClient DEF BlurRelease
      <4> QED
        BY <3>2, <4>1 DEF BlurRelease, NextStep, Position, Running
    <3> QED
      BY <1>11, <3>1, <3>2
  <2>2. err' \/ ~err
    BY <1>11, <2>1, NothingComputedInError DEF BlurPass, BlurRelease
  <2>3. OutInHand \cap caller' \subseteq OutInHand'
    BY <2>1, OutStaysInHand
  <2> QED
    BY <1>1, <2>1, <2>2, <2>3
<1>12. CASE BlurReturn
  <2>1. /\ caller' \subseteq caller /\ UNCHANGED <<cur, resident>>
        /\ err' \/ (~err /\ kept' = kept \cup {Out})
    BY <1>12, CallsKeepClient DEF BlurReturn, Fails, Keep
  <2> QED
    BY <1>1, <2>1, NoOutInHand
<1>13. CASE MapsPass
  <2>1. /\ pc \in {"body", "shrink"} /\ ThisOp.kind = "maps" /\ caller' = caller
        /\ cur' = cur /\ kept' = kept /\ resident' = resident
    BY <1>13, CallsKeepClient DEF MapsPass, Running
  <2>2. ~err
    BY <2>1, NothingComputedInError
  <2> QED
    BY <1>2, <2>1, <2>2, NoOutInHand
<1>14. CASE End \/ Readback
  <2>1. /\ pc \in {"end", "readback"} /\ caller' = caller
        /\ cur' = cur /\ kept' = kept /\ resident' = resident
    BY <1>14, CallsKeepClient DEF End, Readback
  <2> QED
    BY <1>2, <2>1, NothingComputedInError, NoOutInHand
<1>15. CASE AbortOpenBatch \/ ContextDrop
  <2>1. /\ pc \in {"unwind", "leave"} /\ caller' = caller
        /\ cur' = cur /\ kept' = kept /\ resident' = resident /\ err' = err
    BY <1>15, CallsKeepClient DEF AbortOpenBatch, ContextDrop, BatchAborted
  <2> QED
    BY <1>2, <2>1, NoOutInHand
<1>16. CASE GuardDrop
  <2>1. PICK b \in kept : DestroyBuffer(b) /\ kept' = kept \ {b}
    BY <1>16 DEF GuardDrop
  <2>2. /\ pc \in {"unwind", "drop"} /\ caller' = caller \ {b} /\ cur' = cur
        /\ resident' = resident /\ err' = err
    BY <1>16, <2>1, CallsKeepClient DEF GuardDrop, Dropping
  <2> QED
    BY <1>1, <2>1, <2>2, NoOutInHand
<1>17. CASE Return
  <2>1. /\ pc \in {"unwind", "drop"} /\ caller' = caller
        /\ resident' = resident \cup kept
    BY <1>17 DEF Return, Dropping, vars, bufferVars
  <2>2. OutInHand = {} /\ cur \in Nat
    BY <2>1, NoOutInHand, PipelineAssumption DEF PositionOK
  <2>3. CASE cur' = cur /\ err' = err
    BY <1>0, <2>1, <2>2, <2>3 DEF ImagesInHand
  <2>4. CASE ~(cur' = cur /\ err' = err)
    <3>1. cur' = cur + 1 /\ (~err \/ IsPair)
      BY <1>17, <2>4 DEF Return
    <3>2. \A b \in caller : b[1] \in 1 .. cur + 1 /\ b[1] # cur + 1
      BY <2>2 DEF ImagesInHand
    <3> QED
      BY <1>0, <2>1, <2>2, <3>1, <3>2 DEF ImagesInHand
  <2> QED
    BY <2>3, <2>4
<1>18. CASE PrepDrop
  <2>1. PICK b \in resident : DestroyBuffer(b) /\ resident' = resident \ {b}
    BY <1>18 DEF PrepDrop
  <2>2. pc = "leave" /\ UNCHANGED <<cur, kept, err>> /\ caller' = caller \ {b}
    BY <1>18, <2>1, CallsKeepClient DEF PrepDrop
  <2> QED
    BY <1>1, <2>1, <2>2, NoOutInHand
<1>19. CASE Left \/ UNCHANGED allVars
  <2>1. UNCHANGED <<caller, kept, resident, err, pc, op, step, job, cur, scale>>
    BY <1>19 DEF Left, allVars, vars, bufferVars, pipelineVars
  <2>2. ThisOp' = ThisOp /\ Out' = Out
    BY <2>1, SameOp
  <2>3. OutInHand' = OutInHand
    BY <2>1, <2>2 DEF OutInHand, Running
  <2> QED
    BY <1>0, <2>1, <2>3 DEF ImagesInHand
<1> QED
  BY <1>3, <1>4, <1>5, <1>6, <1>7, <1>8, <1>9, <1>10, <1>11, <1>12, <1>13, <1>14, <1>15,
     <1>16, <1>17, <1>18, <1>19 DEF PipelineNext

LEMMA SameReads ==
    ASSUME UNCHANGED <<job, cur, scale, pc, op>>
    PROVE  (Reads(ThisOp))' = Reads(ThisOp)
<1>1. fn' = fn /\ ThisOp' = ThisOp
  BY SameBody, SameOp
<1>2. \A side : (Home(side))' = Home(side)
  BY <1>1 DEF Home
<1>3. \A side, var, k : (Plane(side, var, k))' = Plane(side, var, k)
  BY <1>2 DEF Plane, Buf
<1>4. \A side, var : (Here(side, var))' = Here(side, var)
  BY <1>3 DEF Here
<1>5. \A o : (Inputs(o))' = Inputs(o)
  BY <1>3, <1>4 DEF Inputs
<1> QED
  BY <1>1, <1>5 DEF Reads

(* A function that fails unwinds, but for a blur's own releases.           *)
LEMMA FailsStep ==
    ASSUME FailsOK, PositionOK, [PipelineNext]_allVars
    PROVE  FailsOK'
<1> USE DEF progVars, posVars, dataVars
<1>1. ASSUME Fails PROVE FailsOK'
  BY <1>1 DEF Fails, Position, FailsOK
<1>2. ASSUME ~err, err' = err PROVE FailsOK'
  BY <1>2 DEF FailsOK
<1>3. CASE Upload \/ LoopHead \/ Begin \/ End \/ Readback
  <2>1. ~err /\ (Fails \/ err' = err)
    BY <1>3, NothingComputedInError DEF Upload, LoopHead, Begin, End, Readback
  <2> QED
    BY <1>1, <1>2, <2>1
<1>4. CASE Halve \/ CreateOut \/ Dispatch \/ BlurCreate
  <2>1. /\ pc \in {"body", "shrink"} /\ (Fails \/ err' = err)
        /\ ThisOp.kind # "blur" \/ step \in {1, 2, 3}
    BY <1>4 DEF Halve, CreateOut, Dispatch, BlurCreate, Running
  <2> QED
    BY <1>1, <1>2, <2>1, NothingComputedInError
<1>5. CASE MapsPass
  <2>1. pc \in {"body", "shrink"} /\ (Fails \/ err' = err) /\ ThisOp.kind # "blur"
    BY <1>5 DEF MapsPass, Running
  <2> QED
    BY <1>1, <1>2, <2>1, NothingComputedInError
<1>6. CASE DispatchFailed
  BY <1>1, <1>6 DEF DispatchFailed
<1>7. CASE BlurPass
  <2>1. /\ UNCHANGED <<job, cur, scale, pc, op>> /\ Running({"blur"})
        /\ err' => step' = 6
    BY <1>7 DEF BlurPass, Position
  <2> QED
    BY <2>1, SameOp DEF FailsOK
<1>8. CASE BlurRelease
  <2>1. UNCHANGED <<job, cur, scale, pc, op>> /\ Running({"blur"}) /\ step' = 7
    BY <1>8 DEF BlurRelease, NextStep, Position
  <2> QED
    BY <2>1, SameOp DEF FailsOK
<1>9. CASE BlurReturn
  <2>1. Fails \/ (~err /\ err' = err)
    BY <1>9 DEF BlurReturn
  <2> QED
    BY <1>1, <1>2, <2>1
<1>10. CASE AbortOpenBatch \/ ContextDrop \/ PrepDrop
  <2>1. pc' \in {"drop", "leave", "gone"}
    BY <1>10 DEF AbortOpenBatch, ContextDrop, PrepDrop, Position
  <2> QED
    BY <2>1 DEF FailsOK
<1>11. CASE GuardDrop
  <2>1. pc' \in {"unwind", "drop"}
    BY <1>11 DEF GuardDrop, Dropping
  <2> QED
    BY <2>1 DEF FailsOK
<1>12. CASE Return
  <2>1. pc' = "leave" \/ ~err'
    BY <1>12 DEF Return, Position
  <2> QED
    BY <2>1 DEF FailsOK
<1>13. CASE Left \/ UNCHANGED allVars
  <2>1. UNCHANGED <<job, cur, scale, pc, op, step, err>>
    BY <1>13 DEF Left, allVars, pipelineVars
  <2> QED
    BY <2>1, SameOp DEF FailsOK
<1> QED
  BY <1>3, <1>4, <1>5, <1>6, <1>7, <1>8, <1>9, <1>10, <1>11, <1>12, <1>13 DEF PipelineNext

(* When both passes of a blur are recorded, the first had something to     *)
(* read.                                                                   *)
LEMMA BlurReadsStep ==
    ASSUME BlurReads, PositionOK, LoadedHold, ImagesInHand, FailsOK, [PipelineNext]_allVars
    PROVE  BlurReads'
<1> USE DEF progVars, posVars, dataVars
<1>1. ASSUME step' \in 1 .. 4 \/ pc' \notin {"body", "shrink"} PROVE BlurReads'
  BY <1>1 DEF BlurReads, Running
<1>2. ASSUME UNCHANGED <<job, cur, scale, pc, op, val>>, err' \/ ~err, step >= 5 PROVE BlurReads'
  <2>1. (Running({"blur"}))' = Running({"blur"}) /\ (Reads(ThisOp))' = Reads(ThisOp)
    BY <1>2, SameOp, SameReads
  <2> QED
    BY <1>2, <2>1 DEF BlurReads
<1>3. ASSUME NextOp, pc \in {"body", "shrink"} PROVE BlurReads'
  BY <1>1, <1>3 DEF NextOp, Position
<1>4. ASSUME Fails PROVE BlurReads'
  BY <1>1, <1>4 DEF Fails, Position
<1>5. CASE Upload \/ LoopHead \/ Begin \/ End \/ Readback
  <2>1. Fails \/ step' = 1
    BY <1>5 DEF Upload, LoopHead, Begin, End, Readback, NextScale, Position
  <2> QED
    BY <1>1, <1>4, <2>1
<1>6. CASE Halve \/ CreateOut
  <2>1. /\ pc \in {"body", "shrink"}
        /\ Fails \/ NextOp \/ (NextStep /\ step \in {1, 3})
    BY <1>6 DEF Halve, CreateOut, Running
  <2> QED
    BY <1>1, <1>3, <1>4, <2>1 DEF NextStep, Position
<1>7. CASE Dispatch \/ BlurCreate \/ DispatchFailed \/ MapsPass \/ BlurReturn
  <2>1. /\ pc \in {"body", "shrink"}
        /\ Fails \/ NextOp \/ (NextStep /\ step \in {1, 2})
    BY <1>7 DEF Dispatch, BlurCreate, DispatchFailed, MapsPass, BlurReturn, Running
  <2> QED
    BY <1>1, <1>3, <1>4, <2>1 DEF NextStep, Position
<1>8. CASE BlurPass
  <2>1. /\ UNCHANGED <<job, cur, scale, pc, op, val>> /\ step \in {4, 5}
        /\ pc \in {"body", "shrink"} /\ ThisOp.kind = "blur"
    BY <1>8 DEF BlurPass, Running, Position
  <2>2. ~err
    BY <2>1, NothingComputedInError
  <2>3. CASE step = 5
    BY <1>2, <2>1, <2>2, <2>3
  <2>4. CASE step = 4 /\ ~err'
    <3>1. RunComputePush("blur_h", {Scratch("temp"), Scratch("rg")} \cup Reads(ThisOp), TRUE)
      BY <1>8, <2>4 DEF BlurPass
    <3>2. Reads(ThisOp) \subseteq caller
      BY <3>1 DEF RunComputePush
    <3>3. Reads(ThisOp) \subseteq DOMAIN val
      BY <2>1, <2>2, <3>2, ReadsLoaded
    <3> QED
      BY <2>1, <3>3, SameReads DEF BlurReads
  <2> QED
    BY <2>1, <2>3, <2>4 DEF BlurReads
<1>9. CASE BlurRelease
  <2>1. UNCHANGED <<job, cur, scale, pc, op, val, err>> /\ step = 6
    BY <1>9 DEF BlurRelease, NextStep, Position
  <2> QED
    BY <1>2, <2>1
<1>10. CASE AbortOpenBatch \/ ContextDrop \/ PrepDrop \/ GuardDrop \/ Return
  <2>1. pc' \notin {"body", "shrink"}
    BY <1>10 DEF AbortOpenBatch, ContextDrop, PrepDrop, GuardDrop, Dropping, Return, Position
  <2> QED
    BY <1>1, <2>1
<1>11. CASE Left \/ UNCHANGED allVars
  <2>1. UNCHANGED <<job, cur, scale, pc, op, step, val, err>>
    BY <1>11 DEF Left, allVars, pipelineVars
  <2>2. (Running({"blur"}))' = Running({"blur"}) /\ (Reads(ThisOp))' = Reads(ThisOp)
    BY <2>1, SameOp, SameReads
  <2> QED
    BY <2>1, <2>2 DEF BlurReads
<1> QED
  BY <1>5, <1>6, <1>7, <1>8, <1>9, <1>10, <1>11 DEF PipelineNext

-----------------------------------------------------------------------------
(* The loops follow the reference's.                                       *)

LEMMA LoopFollows ==
    ASSUME PositionOK, ChainOK, DimensionsOK, ScalesOK, PyramidsOK, ~err, pc = "head"
    PROVE  /\ scale \in 0 .. 6
           /\ LastScale => Reached(dim[1], dim[2]) = 0 .. scale - 1
           /\ ~LastScale => /\ scale \in Reached(dim[1], dim[2])
                            /\ 0 .. scale \subseteq Reached(dim[1], dim[2])
           /\ ~LastScale /\ fn = "compare" =>
                chain[1][scale + 1] = <<WidthAt(scale), HeightAt(scale)>>
<1> DEFINE R == Reached(dim[1], dim[2])
<1>1. 0 .. scale - 1 \subseteq R /\ R \subseteq 0 .. 5 /\ scale \in Nat
  BY ReachedScales, ScalesAre DEF ScalesOK, PositionOK
<1> HIDE DEF R
<1>2. scale \in 0 .. 6
  <2>1. ASSUME scale > 6 PROVE FALSE
    <3>1. 6 \in 0 .. scale - 1
      BY <1>1, <2>1
    <3> QED
      BY <1>1, <3>1
  <2> QED
    BY <1>1, <2>1
<1>3. \A k \in 0 .. 6 : R = 0 .. k - 1 => (scale >= k => R = 0 .. scale - 1)
  <2> SUFFICES ASSUME NEW k \in 0 .. 6, R = 0 .. k - 1, scale >= k PROVE R = 0 .. scale - 1
    OBVIOUS
  <2>1. ASSUME scale > k PROVE FALSE
    <3>1. k \in 0 .. scale - 1 /\ k \notin 0 .. k - 1
      BY <1>2, <2>1
    <3> QED
      BY <1>1, <3>1
  <2>2. scale = k
    BY <1>2, <2>1
  <2> QED
    BY <2>2
<1>4. CASE fn \in Preps \cup {"single"}
  <2>1. cw = WidthAt(Before(scale)) /\ ch = HeightAt(Before(scale))
    BY <1>4 DEF DimensionsOK, Preps
  <2>2. TooSmall(cw, ch) <=> Small(dim[1], dim[2], scale)
    BY <2>1 DEF Small, WidthAt, HeightAt
  <2>3. LastScale <=> scale >= 6 \/ TooSmall(cw, ch)
    <3>1. LastScale <=> PyramidEnds
      BY <1>4 DEF LastScale, Preps
    <3> QED
      BY <3>1 DEF PyramidEnds, kNumScales
  <2>4. /\ scale = 6 \/ Small(dim[1], dim[2], scale) => R = 0 .. scale - 1
        /\ scale < 6 /\ ~Small(dim[1], dim[2], scale) => scale \in R /\ 0 .. scale \subseteq R
    BY <1>1, <1>2, ReachedNext DEF R
  <2>5. (scale >= 6 <=> scale = 6) /\ (~(scale >= 6) <=> scale < 6)
    BY <1>2
  <2> QED
    BY <1>2, <1>4, <2>2, <2>3, <2>4, <2>5 DEF R, Preps
<1>5. CASE fn \in {"fused", "compare"}
  <2>1. /\ cur \in Nat /\ 1 \in 1 .. cur - 1 /\ job[1] \in Preps /\ ~IsPair
        /\ fn = "compare" => 2 \in 1 .. cur - 1 /\ job[2] \in Preps
    <3>1. job \in Seq(PipelineFunctions) /\ cur \in 1 .. Len(job)
      BY PipelineAssumption DEF PositionOK
    <3>2. /\ fn = "fused" => cur > 1 /\ job[1] = "prep_o"
          /\ fn = "compare" => cur > 2 /\ job[1] = "prep_o" /\ job[2] = "prep_v"
      BY PipelineAssumption DEF PositionOK, fn
    <3> QED
      BY <1>5, <3>1, <3>2 DEF Preps, IsPair
  <2>2. ASSUME NEW f \in 1 .. cur - 1, job[f] \in Preps
        PROVE  /\ Len(chain[f]) \in 0 .. 6 /\ R = 0 .. Len(chain[f]) - 1
               /\ \A i \in 1 .. Len(chain[f]) : chain[f][i] = <<WidthAt(i - 1), HeightAt(i - 1)>>
    <3>1. /\ R = 0 .. Len(chain[f]) - 1
          /\ \A i \in 1 .. Len(chain[f]) : chain[f][i] = <<WidthAt(i - 1), HeightAt(i - 1)>>
      BY <2>1, <2>2 DEF PyramidsOK, R
    <3>2. Len(chain[f]) \in Nat
      <4>1. chain \in Seq(Seq(Nat \X Nat)) /\ Len(chain) = cur - 1
        BY DEF ChainOK
      <4>2. chain[f] \in Seq(Nat \X Nat)
        BY <4>1
      <4> QED
        BY <4>2
    <3> DEFINE L == Len(chain[f])
    <3>3. R = 0 .. L - 1 /\ L \in Nat
      BY <3>1, <3>2
    <3> HIDE DEF L
    <3>4. L \in 0 .. 6
      <4>1. ASSUME L > 6 PROVE FALSE
        <5>1. 6 \in 0 .. L - 1
          BY <3>3, <4>1
        <5> QED
          BY <1>1, <3>3, <5>1
      <4> QED
        BY <3>3, <4>1
    <3> QED
      BY <3>1, <3>4 DEF L
  <2>3. scale < Len(chain[1]) => scale \in R /\ 0 .. scale \subseteq R
    <3> SUFFICES ASSUME scale < Len(chain[1]) PROVE scale \in R /\ 0 .. scale \subseteq R
      OBVIOUS
    <3>1. Len(chain[1]) \in 0 .. 6 /\ R = 0 .. Len(chain[1]) - 1
      BY <2>1, <2>2
    <3> QED
      BY <1>2, <3>1
  <2>4. scale < Len(chain[1]) => chain[1][scale + 1] = <<WidthAt(scale), HeightAt(scale)>>
    <3> SUFFICES ASSUME scale < Len(chain[1])
                 PROVE  chain[1][scale + 1] = <<WidthAt(scale), HeightAt(scale)>>
      OBVIOUS
    <3>1. /\ Len(chain[1]) \in 0 .. 6
          /\ \A i \in 1 .. Len(chain[1]) : chain[1][i] = <<WidthAt(i - 1), HeightAt(i - 1)>>
      BY <2>1, <2>2
    <3>2. scale + 1 \in 1 .. Len(chain[1]) /\ (scale + 1) - 1 = scale
      BY <1>2, <3>1
    <3> QED
      BY <3>1, <3>2
  <2>5. LastScale <=> \/ scale >= Len(chain[1])
                      \/ fn = "compare" /\ scale >= Len(chain[2])
    BY <1>5 DEF LastScale, Preps
  <2>6. /\ Len(chain[1]) \in 0 .. 6 /\ R = 0 .. Len(chain[1]) - 1
        /\ fn = "compare" => Len(chain[2]) \in 0 .. 6 /\ R = 0 .. Len(chain[2]) - 1
    BY <2>1, <2>2
  <2>7. LastScale => R = 0 .. scale - 1
    BY <1>3, <2>5, <2>6
  <2>8. ~LastScale => scale < Len(chain[1])
    BY <1>2, <2>5, <2>6
  <2> QED
    BY <1>2, <2>3, <2>4, <2>7, <2>8 DEF R
<1>6. fn \in PipelineFunctions
  BY InBody
<1> QED
  BY <1>4, <1>5, <1>6 DEF PipelineFunctions

LEMMA DimensionsStep ==
    ASSUME PositionOK, PositionOK', ChainOK, DimensionsOK, ScalesOK, PyramidsOK, FailsOK,
           [PipelineNext]_allVars
    PROVE  DimensionsOK'
<1> USE DEF progVars, posVars, dataVars
<1>0. /\ dim' = dim /\ job' = job
      /\ \A k : (WidthAt(k))' = WidthAt(k) /\ (HeightAt(k))' = HeightAt(k)
      /\ WidthAt(0) = dim[1] /\ HeightAt(0) = dim[2]
  BY ProgStays, ValuesStay, ScalesShrink DEF WidthAt, HeightAt
<1>1. ASSUME err' \/ pc' \in {"unwind", "drop", "leave", "gone"} PROVE DimensionsOK'
  BY <1>1 DEF DimensionsOK
<1>2. ASSUME Fails PROVE DimensionsOK'
  BY <1>1, <1>2 DEF Fails
<1>3. ASSUME pc' \in {"begin", "body", "end", "readback"},
             Halved' => cw' = WidthAt(scale') /\ ch' = HeightAt(scale'),
             ~Halved' => cw' = WidthAt(Before(scale')) /\ ch' = HeightAt(Before(scale'))
      PROVE  DimensionsOK'
  <2>1. (WidthAt(scale))' = WidthAt(scale') /\ (HeightAt(scale))' = HeightAt(scale')
    BY <1>0 DEF WidthAt, HeightAt
  <2>2. /\ (WidthAt(Before(scale)))' = WidthAt(Before(scale'))
        /\ (HeightAt(Before(scale)))' = HeightAt(Before(scale'))
    BY <1>0 DEF WidthAt, HeightAt, Before
  <2> QED
    BY <1>3, <2>1, <2>2 DEF DimensionsOK
(* What the dimensions are in a body before the step.                      *)
<1>4. ASSUME ~err, pc \in {"shrink", "begin", "body", "end", "readback"}
      PROVE  /\ Halved => cw = WidthAt(scale) /\ ch = HeightAt(scale)
             /\ ~Halved => cw = WidthAt(Before(scale)) /\ ch = HeightAt(Before(scale))
  BY <1>4 DEF DimensionsOK
(* An operation but the halving is over, or goes on.                       *)
<1>5. ASSUME NextOp, ~err, pc = "body", ThisOp.kind # "halve", UNCHANGED <<cur, scale, cw, ch>>
      PROVE  DimensionsOK'
  <2>1. Halved' = Halved /\ pc' \in {"body", "end"}
    BY <1>0, <1>5, NextOpHalves DEF NextOp, Position
  <2> QED
    BY <1>3, <1>4, <1>5, <2>1
<1>6. ASSUME UNCHANGED <<cur, scale, cw, ch, pc, op>>, err' \/ ~err \/ err' = err PROVE DimensionsOK'
  <2>1. fn' = fn /\ (Body(scale))' = Body(scale)
    BY <1>0, <1>6, SameBody
  <2>2. Halved' = Halved
    BY <1>6, <2>1 DEF Halved
  <2>3. /\ (WidthAt(scale))' = WidthAt(scale) /\ (HeightAt(scale))' = HeightAt(scale)
        /\ (WidthAt(Before(scale)))' = WidthAt(Before(scale))
        /\ (HeightAt(Before(scale)))' = HeightAt(Before(scale))
    BY <1>0, <1>6 DEF WidthAt, HeightAt, Before
  <2> QED
    BY <1>0, <1>6, <2>1, <2>2, <2>3 DEF DimensionsOK
<1>7. CASE Upload
  <2>1. /\ pc = "upload" /\ UNCHANGED <<scale, cw, ch>>
        /\ Fails \/ pc' \in {"upload", "head"}
    BY <1>7 DEF Upload, Position
  <2>2. scale = 0 /\ cw = dim[1] /\ ch = dim[2]
    BY <2>1, NothingComputedInError DEF DimensionsOK
  <2>3. ASSUME pc' \in {"upload", "head"} PROVE DimensionsOK'
    <3>1. /\ (WidthAt(Before(scale)))' = WidthAt(0)
          /\ (HeightAt(Before(scale)))' = HeightAt(0)
      BY <1>0, <2>1, <2>2 DEF WidthAt, HeightAt, Before
    <3> QED
      BY <1>0, <2>1, <2>2, <2>3, <3>1 DEF DimensionsOK
  <2> QED
    BY <1>2, <2>1, <2>3
<1>8. CASE LoopHead
  <2>1. pc = "head" /\ UNCHANGED <<cur, scale, err>> /\ ~err
    BY <1>8, NothingComputedInError DEF LoopHead
  <2>2. CASE LastScale
    BY <1>1, <1>8, <2>2 DEF LoopHead, Position
  <2>3. CASE ~LastScale
    <3>1. /\ pc' = IF fn \in Preps /\ scale > 0 THEN "shrink" ELSE "begin"
          /\ cw' = IF fn = "compare" THEN chain[1][scale + 1][1] ELSE cw
          /\ ch' = IF fn = "compare" THEN chain[1][scale + 1][2] ELSE ch
      BY <1>8, <2>3 DEF LoopHead, Position
    <3>2. fn' = fn
      BY <1>0, <2>1, SameBody
    <3>3. CASE fn = "compare"
      <4>1. cw' = WidthAt(scale) /\ ch' = HeightAt(scale) /\ pc' = "begin"
        BY <2>1, <2>3, <3>1, <3>3, LoopFollows DEF Preps
      <4>2. Halved'
        BY <3>2, <3>3, <4>1 DEF Halved
      <4> QED
        BY <1>3, <2>1, <4>1, <4>2
    <3>4. CASE fn # "compare"
      <4>1. cw' = WidthAt(Before(scale)) /\ ch' = HeightAt(Before(scale))
        BY <2>1, <3>1, <3>4 DEF DimensionsOK
      <4>2. CASE pc' = "shrink"
        <5>1. ~Halved' /\ scale' > 0
          BY <2>1, <3>1, <4>2 DEF Halved
        <5>2. /\ (WidthAt(Before(scale)))' = WidthAt(Before(scale))
              /\ (HeightAt(Before(scale)))' = HeightAt(Before(scale))
          BY <1>0, <2>1 DEF WidthAt, HeightAt, Before
        <5> QED
          BY <4>1, <4>2, <5>1, <5>2 DEF DimensionsOK
      <4>3. CASE pc' = "begin"
        <5>1. Halved' = (fn \in Preps \cup {"compare"})
          BY <3>2, <4>3 DEF Halved
        <5>2. fn \in Preps => scale = 0 /\ Before(scale) = scale
          BY <3>1, <4>3 DEF PositionOK, Before
        <5> QED
          BY <1>3, <2>1, <3>4, <4>1, <4>3, <5>1, <5>2
      <4> QED
        BY <3>1, <4>2, <4>3
    <3> QED
      BY <3>3, <3>4
  <2> QED
    BY <2>2, <2>3
<1>9. CASE Begin
  <2>1. /\ pc = "begin" /\ UNCHANGED <<cur, scale, cw, ch>>
        /\ Fails \/ (pc' = "body" /\ op' = 1 /\ err' = err)
    BY <1>9 DEF Begin, Position
  <2>2. ~err
    BY <2>1, NothingComputedInError
  <2>3. ASSUME pc' = "body", op' = 1 PROVE DimensionsOK'
    <3> DEFINE B == Body(scale)
    <3>1. fn' = fn /\ B' = B /\ fn \in PipelineFunctions /\ scale \in Nat
      BY <1>0, <2>1, SameBody, InBody DEF PositionOK
    <3>2. PICK h \in 0 .. Len(B) - 1 :
            /\ Shrinking(B, h)
            /\ h = 0 <=> (fn \in Preps \cup {"compare"} \/ scale = 0)
            /\ fn \notin Preps => B[Len(B)].kind = "maps"
      BY <3>1, BodyProgram
    <3>3. /\ DOMAIN B = 1 .. Len(B) /\ Len(B) \in Nat
          /\ \A i \in DOMAIN B : B[i].kind = "halve" <=> i = h
      BY <3>2, InBody DEF Shrinking
    <3>4. Halved' <=> \A i \in 1 .. Len(B) : B[i].kind # "halve"
      BY <2>3, <3>1 DEF Halved
    <3>5. Halved <=> fn \in Preps \cup {"compare"}
      BY <2>1 DEF Halved
    <3> HIDE DEF B
    <3>6. Halved' <=> h = 0
      BY <3>2, <3>3, <3>4
    <3>7. scale = 0 => Before(scale) = scale
      BY DEF Before
    <3> QED
      BY <1>3, <1>4, <2>1, <2>2, <2>3, <3>2, <3>5, <3>6, <3>7
  <2> QED
    BY <1>2, <2>1, <2>3
<1>10. CASE Halve
  <2>1. /\ pc \in {"body", "shrink"} /\ ThisOp.kind = "halve" /\ NextOp
        /\ UNCHANGED <<cur, scale>> /\ cw' = Half(cw) /\ ch' = Half(ch)
    BY <1>10 DEF Halve, Running
  <2>2. ~err
    BY <2>1, NothingComputedInError
  <2>3. scale \in 1 .. 5 /\ cw = WidthAt(scale - 1) /\ ch = HeightAt(scale - 1)
    BY <2>1, <2>2, OpDimensions
  <2>4. cw' = WidthAt(scale) /\ ch' = HeightAt(scale)
    <3>1. scale - 1 \in 0 .. 4 /\ (scale - 1) + 1 = scale
      BY <2>3
    <3> QED
      BY <2>1, <2>3, <3>1, ScalesShrink DEF WidthAt, HeightAt
  <2>5. Halved' /\ pc' \in {"body", "end", "begin"}
    BY <1>0, <2>1, NextOpHalves
  <2> QED
    BY <1>3, <2>1, <2>4, <2>5
<1>11. CASE CreateOut
  <2>1. /\ pc \in {"body", "shrink"} /\ UNCHANGED <<cur, scale, cw, ch>>
        /\ \/ Fails
           \/ ThisOp.kind = "empty" /\ NextOp
           \/ NextStep /\ err' = err
    BY <1>11 DEF CreateOut, Running
  <2>2. ThisOp.kind = "empty" => ~err /\ pc = "body"
    BY <2>1, NothingComputedInError, InBody
  <2> QED
    BY <1>2, <1>5, <1>6, <2>1, <2>2 DEF NextStep, Position
<1>12. CASE Dispatch
  <2>1. /\ pc \in {"body", "shrink"} /\ UNCHANGED <<cur, scale, err>>
        /\ ThisOp.kind \in {"downsample", "xyb", "mul"}
        /\ \/ NextStep /\ UNCHANGED <<cw, ch>>
           \/ NextOp /\ pc = "body" /\ UNCHANGED <<cw, ch>>
           \/ NextOp /\ pc = "shrink" /\ cw' = Half(cw) /\ ch' = Half(ch)
    BY <1>12 DEF Dispatch, Running
  <2>2. ~err
    BY <2>1, NothingComputedInError
  <2>3. ASSUME NextOp, pc = "shrink", cw' = Half(cw), ch' = Half(ch)
        PROVE  DimensionsOK'
    <3>1. ThisOp.kind = "downsample"
      BY <2>3, InBody
    <3>2. scale \in 1 .. 5 /\ cw = WidthAt(scale - 1) /\ ch = HeightAt(scale - 1)
      BY <2>1, <2>2, <3>1, OpDimensions
    <3>3. cw' = WidthAt(scale) /\ ch' = HeightAt(scale)
      <4>1. scale - 1 \in 0 .. 4 /\ (scale - 1) + 1 = scale
        BY <3>2
      <4> QED
        BY <2>3, <3>2, <4>1, ScalesShrink DEF WidthAt, HeightAt
    <3>4. Halved' /\ pc' \in {"body", "end", "begin"}
      BY <1>0, <2>1, <2>3, NextOpHalves
    <3> QED
      BY <1>3, <2>1, <3>3, <3>4
  <2> QED
    BY <1>5, <1>6, <2>1, <2>2, <2>3 DEF NextStep, Position
<1>13. CASE DispatchFailed
  BY <1>2, <1>13 DEF DispatchFailed
<1>14. CASE BlurCreate
  <2>1. UNCHANGED <<cur, scale, cw, ch>> /\ (Fails \/ (NextStep /\ err' = err))
    BY <1>14 DEF BlurCreate
  <2> QED
    BY <1>2, <1>6, <2>1 DEF NextStep, Position
<1>15. CASE BlurPass \/ BlurRelease
  <2>1. /\ UNCHANGED <<cur, scale, cw, ch, pc, op>>
        /\ pc \in {"body", "shrink"} /\ (BlurPass => step \in {4, 5}) /\ (BlurRelease => err' = err)
    BY <1>15 DEF BlurPass, BlurRelease, NextStep, Position, Running
  <2>2. ~err \/ err' = err
    BY <1>15, <2>1, NothingComputedInError
  <2> QED
    BY <1>1, <1>6, <2>1, <2>2
<1>16. CASE BlurReturn
  <2>1. /\ UNCHANGED <<cur, scale, cw, ch>> /\ pc \in {"body", "shrink"}
        /\ (Fails \/ (NextOp /\ ~err)) /\ ThisOp.kind = "blur"
    BY <1>16 DEF BlurReturn, Running
  <2>2. pc = "body"
    BY <1>16, <2>1, InBody DEF BlurReturn, Running
  <2> QED
    BY <1>2, <1>5, <2>1, <2>2
<1>17. CASE MapsPass
  <2>1. /\ UNCHANGED <<cur, scale, cw, ch>> /\ pc \in {"body", "shrink"}
        /\ ThisOp.kind = "maps" /\ (Fails \/ NextOp)
    BY <1>17 DEF MapsPass, Running
  <2>2. pc = "body" /\ ~err
    BY <2>1, InBody, NothingComputedInError
  <2> QED
    BY <1>2, <1>5, <2>1, <2>2
<1>18. CASE End \/ Readback
  <2>1. /\ pc \in {"end", "readback"} /\ UNCHANGED <<cur, cw, ch>>
        /\ \/ Fails
           \/ NextScale
           \/ pc' = "readback" /\ scale' = scale
    BY <1>18 DEF End, Readback, Position
  <2>2. ~err /\ Halved
    BY <2>1, NothingComputedInError DEF Halved
  <2>3. cw = WidthAt(scale) /\ ch = HeightAt(scale)
    BY <1>4, <2>1, <2>2
  <2>4. ASSUME pc' = "readback", scale' = scale PROVE DimensionsOK'
    <3>1. Halved'
      BY <2>4 DEF Halved
    <3> QED
      BY <1>3, <2>1, <2>3, <2>4, <3>1
  <2>5. ASSUME NextScale PROVE DimensionsOK'
    <3>1. pc' = "head" /\ Before(scale') = scale
      BY <2>5 DEF NextScale, Position, PositionOK, Before
    <3>2. /\ (WidthAt(Before(scale)))' = WidthAt(scale)
          /\ (HeightAt(Before(scale)))' = HeightAt(scale)
      BY <1>0, <3>1 DEF WidthAt, HeightAt, Before
    <3> QED
      BY <2>1, <2>3, <3>1, <3>2 DEF DimensionsOK
  <2> QED
    BY <1>2, <2>1, <2>4, <2>5
<1>19. CASE AbortOpenBatch \/ GuardDrop \/ PrepDrop \/ ContextDrop
  <2>1. pc' \in {"unwind", "drop", "leave", "gone"}
    BY <1>19 DEF AbortOpenBatch, GuardDrop, Dropping, PrepDrop, ContextDrop, Position
  <2> QED
    BY <1>1, <2>1
<1>20. CASE Return
  <2>1. pc' = "leave" \/ (pc' = "upload" /\ scale' = 0 /\ cw' = dim[1] /\ ch' = dim[2])
    BY <1>20 DEF Return, Position
  <2> QED
    BY <1>0, <1>1, <2>1 DEF DimensionsOK
<1>21. CASE Left \/ UNCHANGED allVars
  <2>1. UNCHANGED <<cur, scale, cw, ch, pc, op, err>>
    BY <1>21 DEF Left, allVars, pipelineVars
  <2> QED
    BY <1>6, <2>1
<1> QED
  BY <1>7, <1>8, <1>9, <1>10, <1>11, <1>12, <1>13, <1>14, <1>15, <1>16, <1>17, <1>18,
     <1>19, <1>20, <1>21 DEF PipelineNext

LEMMA SameScaleAt ==
    ASSUME UNCHANGED <<job, dim, cur>>
    PROVE  \A k : (ScaleAt(k))' = ScaleAt(k)
<1>1. fn' = fn
  BY DEF fn
<1>2. \A side : (Image(side))' = Image(side)
  BY <1>1 DEF Image, Home
<1>3. /\ \A k : (WidthAt(k))' = WidthAt(k) /\ (HeightAt(k))' = HeightAt(k)
      /\ \A img, k : (LinearAt(img, k))' = LinearAt(img, k)
  BY ValuesStay
<1> QED
  BY <1>1, <1>2, <1>3 DEF ScaleAt

(* One more scale is like the reference's.                                 *)
LEMMA OneMoreScale ==
    ASSUME scale \in Nat, scales = [i \in 1 .. scale |-> ScaleAt(i - 1)]
    PROVE  Append(scales, ScaleAt(scale)) = [i \in 1 .. scale + 1 |-> ScaleAt(i - 1)]
<1> DEFINE f == [i \in 1 .. scale + 1 |-> ScaleAt(i - 1)]
<1>1. f[scale + 1] = ScaleAt(scale)
  <2>1. scale + 1 \in 1 .. scale + 1 /\ (scale + 1) - 1 = scale
    OBVIOUS
  <2> QED
    BY <2>1
<1>2. [i \in 1 .. scale |-> f[i]] = scales
  <2>1. \A i \in 1 .. scale : f[i] = ScaleAt(i - 1)
    OBVIOUS
  <2> QED
    BY <2>1
<1>3. [i \in 1 .. scale + 1 |-> f[i]] = f
  OBVIOUS
<1> HIDE DEF f
<1>4. Append([i \in 1 .. scale |-> f[i]], f[scale + 1]) = [i \in 1 .. scale + 1 |-> f[i]]
  BY Appended
<1>5. Append(scales, ScaleAt(scale)) = f
  BY <1>1, <1>2, <1>3, <1>4
<1> QED
  BY <1>5 DEF f

LEMMA ScalesStep ==
    ASSUME PositionOK, ChainOK, HoldsItsValue, DimensionsOK, ScalesOK, PyramidsOK, FailsOK,
           MapsComputed, [PipelineNext]_allVars
    PROVE  ScalesOK'
<1> USE DEF progVars, posVars, dataVars
<1> DEFINE R == Reached(dim[1], dim[2])
<1>0. dim' = dim /\ job' = job /\ R' = R
  BY ProgStays
<1>1. ASSUME err' \/ pc' \in {"leave", "gone"} PROVE ScalesOK'
  BY <1>1 DEF ScalesOK
<1>2. ASSUME Fails PROVE ScalesOK'
  BY <1>1, <1>2 DEF Fails
<1>3. ASSUME ~err, pc \notin {"leave", "gone"}
      PROVE  /\ scales = [i \in 1 .. scale |-> ScaleAt(i - 1)] /\ 0 .. scale - 1 \subseteq R
             /\ pc \in {"shrink", "begin", "body", "end", "readback"} => scale \in R
             /\ pc \in {"unwind", "drop"} => R = 0 .. scale - 1
  BY <1>3 DEF ScalesOK
<1> HIDE DEF R
<1>4. ASSUME UNCHANGED <<cur, scale, scales>>, scales = [i \in 1 .. scale |-> ScaleAt(i - 1)],
             0 .. scale - 1 \subseteq R,
             pc' \in {"shrink", "begin", "body", "end", "readback"} => scale \in R,
             pc' \in {"unwind", "drop"} => R = 0 .. scale - 1
      PROVE  ScalesOK'
  <2>1. \A k : (ScaleAt(k))' = ScaleAt(k)
    BY <1>0, <1>4, SameScaleAt
  <2>2. [i \in 1 .. scale |-> ScaleAt(i - 1)]' = [i \in 1 .. scale |-> ScaleAt(i - 1)]
    BY <1>4, <2>1
  <2> QED
    BY <1>0, <1>4, <2>2 DEF ScalesOK, R
(* The scale at hand goes on.                                              *)
<1>5. ASSUME UNCHANGED <<cur, scale, scales>>, ~err,
             pc \in {"shrink", "begin", "body", "end", "readback"},
             pc' \in {"shrink", "begin", "body", "end", "readback"}
      PROVE  ScalesOK'
  BY <1>3, <1>4, <1>5
<1>6. ASSUME NextOp, ~err, pc \in {"body", "shrink"}, UNCHANGED <<cur, scale, scales>>
      PROVE  ScalesOK'
  <2>1. pc' \in {"body", "end", "begin"}
    BY <1>6 DEF NextOp, Position
  <2> QED
    BY <1>5, <1>6, <2>1
<1>7. ASSUME pc' = pc, UNCHANGED <<cur, scale, scales>>, err' \/ ~err \/ err' = err
      PROVE  ScalesOK'
  <2>1. CASE err' \/ pc' \in {"leave", "gone"}
    BY <1>1, <2>1
  <2>2. CASE ~err' /\ pc' \notin {"leave", "gone"}
    BY <1>3, <1>4, <1>7, <2>2
  <2> QED
    BY <2>1, <2>2
<1>8. CASE Upload
  <2>1. /\ pc = "upload" /\ UNCHANGED <<cur, scale, scales>>
        /\ Fails \/ pc' \in {"upload", "head"}
    BY <1>8 DEF Upload, Position
  <2>2. ~err
    BY <2>1, NothingComputedInError
  <2> QED
    BY <1>2, <1>3, <1>4, <2>1, <2>2
<1>9. CASE LoopHead
  <2>1. pc = "head" /\ UNCHANGED <<cur, scale, scales>> /\ ~err
    BY <1>9, NothingComputedInError DEF LoopHead
  <2>2. CASE LastScale
    <3>1. pc' = "unwind" /\ R = 0 .. scale - 1
      BY <1>9, <2>1, <2>2, LoopFollows DEF LoopHead, Position, R
    <3> QED
      BY <1>3, <1>4, <2>1, <3>1
  <2>3. CASE ~LastScale
    <3>1. pc' \in {"shrink", "begin"} /\ scale \in R
      BY <1>9, <2>1, <2>3, LoopFollows DEF LoopHead, Position, R
    <3> QED
      BY <1>3, <1>4, <2>1, <3>1
  <2> QED
    BY <2>2, <2>3
<1>10. CASE Begin
  <2>1. /\ pc = "begin" /\ UNCHANGED <<cur, scale, scales>>
        /\ Fails \/ pc' = "body"
    BY <1>10 DEF Begin, Position
  <2> QED
    BY <1>2, <1>5, <2>1, NothingComputedInError
<1>11. CASE Halve \/ CreateOut \/ Dispatch \/ BlurCreate \/ MapsPass
  <2>1. /\ pc \in {"body", "shrink"} /\ UNCHANGED <<cur, scale, scales>>
        /\ ThisOp.kind = "blur" => step \in {1, 2, 3}
        /\ Fails \/ NextOp \/ NextStep
    BY <1>11 DEF Halve, CreateOut, Dispatch, BlurCreate, MapsPass, Running
  <2>2. ~err
    BY <2>1, NothingComputedInError
  <2> QED
    BY <1>2, <1>6, <1>7, <2>1, <2>2 DEF NextStep, Position
<1>12. CASE DispatchFailed
  BY <1>2, <1>12 DEF DispatchFailed
<1>13. CASE BlurPass \/ BlurRelease
  <2>1. /\ pc' = pc /\ UNCHANGED <<cur, scale, scales>> /\ pc \in {"body", "shrink"}
        /\ BlurPass => step \in {4, 5}
        /\ BlurRelease => err' = err
    BY <1>13 DEF BlurPass, BlurRelease, NextStep, Position, Running
  <2>2. ~err \/ err' = err
    BY <1>13, <2>1, NothingComputedInError
  <2> QED
    BY <1>7, <2>1, <2>2
<1>14. CASE BlurReturn
  <2>1. /\ UNCHANGED <<cur, scale, scales>> /\ pc \in {"body", "shrink"}
        /\ Fails \/ (NextOp /\ ~err)
    BY <1>14 DEF BlurReturn, Running
  <2> QED
    BY <1>2, <1>6, <2>1
<1>15. CASE End \/ Readback
  <2>1. /\ pc \in {"end", "readback"} /\ UNCHANGED <<cur, cw, ch, val>>
        /\ \/ Fails
           \/ pc' = "readback" /\ scale' = scale /\ scales' = scales
           \/ /\ NextScale
              /\ \/ pc = "end" /\ fn \in Preps /\ scales' = Append(scales, <<cw, ch>>)
                 \/ /\ pc = "readback"
                    /\ scales' = Append(scales, Norms(val[Here("p", "sd")],
                                                      val[Here("p", "ed")], cw, ch))
    BY <1>15 DEF End, Readback, Position
  <2>2. ~err
    BY <2>1, NothingComputedInError
  <2>3. cw = WidthAt(scale) /\ ch = HeightAt(scale)
    BY <2>1, <2>2 DEF DimensionsOK, Halved
  <2>4. ASSUME NextScale, scales' = Append(scales, ScaleAt(scale)) PROVE ScalesOK'
    <3>1. pc' = "head" /\ scale' = scale + 1 /\ scale \in Nat
      BY <2>4 DEF NextScale, Position, PositionOK
    <3>2. /\ scales = [i \in 1 .. scale |-> ScaleAt(i - 1)] /\ 0 .. scale - 1 \subseteq R
          /\ scale \in R
      BY <1>3, <2>1, <2>2
    <3>3. scales' = [i \in 1 .. scale + 1 |-> ScaleAt(i - 1)]
      BY <2>4, <3>1, <3>2, OneMoreScale
    <3>4. 0 .. scale' - 1 \subseteq R
      <4>1. \A k \in 0 .. scale' - 1 : k \in 0 .. scale - 1 \/ k = scale
        BY <3>1
      <4> QED
        BY <3>2, <4>1
    <3>5. \A k : (ScaleAt(k))' = ScaleAt(k)
      BY <1>0, <2>1, SameScaleAt
    <3>6. [i \in 1 .. scale |-> ScaleAt(i - 1)]' = [i \in 1 .. scale + 1 |-> ScaleAt(i - 1)]
      BY <3>1, <3>5
    <3> QED
      BY <1>0, <3>1, <3>3, <3>4, <3>6 DEF ScalesOK, R
  <2>5. fn \in Preps => <<cw, ch>> = ScaleAt(scale)
    BY <2>3 DEF ScaleAt
  <2>6. pc = "readback" =>
            Norms(val[Here("p", "sd")], val[Here("p", "ed")], cw, ch) = ScaleAt(scale)
    <3> SUFFICES ASSUME pc = "readback"
                 PROVE  Norms(val[Here("p", "sd")], val[Here("p", "ed")], cw, ch)
                            = ScaleAt(scale)
      OBVIOUS
    <3>1. fn \notin Preps
      BY DEF PositionOK
    <3>2. Here("p", "sd") \in DOMAIN val /\ Here("p", "ed") \in DOMAIN val
      BY <2>2, <3>1 DEF MapsComputed
    <3> QED
      BY <2>3, <3>1, <3>2, NormsAreScale
  <2> QED
    BY <1>2, <1>5, <2>1, <2>2, <2>4, <2>5, <2>6
<1>16. CASE AbortOpenBatch
  <2>1. pc = "unwind" /\ pc' = "drop" /\ UNCHANGED <<cur, scale, scales, err>>
    BY <1>16 DEF AbortOpenBatch, Position
  <2> QED
    BY <1>1, <1>3, <1>4, <2>1
<1>17. CASE GuardDrop
  <2>1. pc' = pc /\ UNCHANGED <<cur, scale, scales, err>>
    BY <1>17 DEF GuardDrop
  <2> QED
    BY <1>7, <2>1
<1>18. CASE Return
  <2>1. CASE pc' = "leave"
    BY <1>1, <2>1
  <2>2. CASE pc' # "leave"
    <3>1. pc' = "upload" /\ scale' = 0 /\ scales' = <<>>
      BY <1>18, <2>2 DEF Return, Position
    <3>2. 0 .. scale' - 1 = {} /\ 1 .. scale' = {}
      BY <3>1
    <3>3. [i \in 1 .. scale |-> ScaleAt(i - 1)]' = <<>>
      BY <3>2
    <3> QED
      BY <3>1, <3>2, <3>3 DEF ScalesOK
  <2> QED
    BY <2>1, <2>2
<1>19. CASE PrepDrop \/ ContextDrop
  <2>1. pc' \in {"leave", "gone"}
    BY <1>19 DEF PrepDrop, ContextDrop, Position
  <2> QED
    BY <1>1, <2>1
<1>20. CASE Left \/ UNCHANGED allVars
  <2>1. UNCHANGED <<pc, cur, scale, scales, err>>
    BY <1>20 DEF Left, allVars, pipelineVars
  <2> QED
    BY <1>7, <2>1
<1> QED
  BY <1>8, <1>9, <1>10, <1>11, <1>12, <1>13, <1>14, <1>15, <1>16, <1>17, <1>18, <1>19,
     <1>20 DEF PipelineNext

-----------------------------------------------------------------------------
(* What functions hand on and return.                                      *)

LEMMA OnlyReturnsPassOn ==
    ASSUME [PipelineNext]_allVars
    PROVE  \/ Return
           \/ /\ UNCHANGED <<cur, chain, scores>>
              /\ pc' \in {"leave", "gone"} \/ pc \notin {"leave", "gone"} \/ pc' = pc
<1> USE DEF progVars, posVars, dataVars
<1>1. ASSUME Upload \/ LoopHead \/ Begin \/ Halve \/ CreateOut
      PROVE  UNCHANGED <<cur, chain, scores>> /\ pc \notin {"leave", "gone"}
  BY <1>1 DEF Upload, LoopHead, Begin, Halve, CreateOut, Running
<1>2. ASSUME Dispatch \/ DispatchFailed \/ BlurCreate \/ BlurPass \/ BlurRelease
      PROVE  UNCHANGED <<cur, chain, scores>> /\ pc \notin {"leave", "gone"}
  BY <1>2 DEF Dispatch, DispatchFailed, BlurCreate, BlurPass, BlurRelease, Running
<1>3. ASSUME BlurReturn \/ MapsPass \/ End \/ Readback \/ AbortOpenBatch
      PROVE  UNCHANGED <<cur, chain, scores>> /\ pc \notin {"leave", "gone"}
  BY <1>3 DEF BlurReturn, MapsPass, End, Readback, AbortOpenBatch, Running
<1>4. ASSUME GuardDrop \/ PrepDrop \/ ContextDrop
      PROVE  /\ UNCHANGED <<cur, chain, scores>>
             /\ pc' \in {"leave", "gone"} \/ pc \notin {"leave", "gone"}
  BY <1>4 DEF GuardDrop, Dropping, PrepDrop, ContextDrop, Position
<1>5. ASSUME Left \/ UNCHANGED allVars
      PROVE  UNCHANGED <<cur, chain, scores>> /\ pc' = pc
  BY <1>5 DEF Left, allVars, pipelineVars
<1> QED
  BY <1>1, <1>2, <1>3, <1>4, <1>5 DEF PipelineNext

(* A PrepImage has the scales the reference reaches.                       *)
LEMMA PyramidsStep ==
    ASSUME PositionOK, ChainOK, ScalesOK, PyramidsOK, [PipelineNext]_allVars
    PROVE  PyramidsOK'
<1> DEFINE R == Reached(dim[1], dim[2])
<1>0. /\ dim' = dim /\ job' = job /\ R' = R /\ IsPair' = IsPair
      /\ \A k : (WidthAt(k))' = WidthAt(k) /\ (HeightAt(k))' = HeightAt(k)
  BY ProgStays, ValuesStay
<1>1. CASE UNCHANGED <<cur, chain>> /\ (pc' \in {"leave", "gone"} \/ pc \notin {"leave", "gone"} \/ pc' = pc)
  <2>1. ASSUME pc' \notin {"leave", "gone"} PROVE pc \notin {"leave", "gone"}
    BY <1>1, <2>1
  <2> QED
    BY <1>0, <1>1, <2>1 DEF PyramidsOK
<1>2. CASE Return
  <2>1. /\ pc \in {"unwind", "drop"}
        /\ chain' = Append(chain, IF ReturnsPrep THEN scales ELSE <<>>)
        /\ \/ pc' = "leave"
           \/ cur' = cur + 1 /\ (~err \/ IsPair)
    BY <1>2 DEF Return, Dropping, Position
  <2>2. /\ chain \in Seq(Seq(Nat \X Nat)) /\ Len(chain) = cur - 1
        /\ fn \in Preps => scales \in Seq(Nat \X Nat)
    BY <2>1 DEF ChainOK
  <2>3. cur \in Nat \ {0}
    BY PipelineAssumption DEF PositionOK
  <2> DEFINE s == IF ReturnsPrep THEN scales ELSE <<>>
  <2>4. s \in Seq(Nat \X Nat)
    BY <2>2 DEF ReturnsPrep
  <2>5. /\ \A f \in 1 .. cur - 1 : chain'[f] = chain[f]
        /\ chain'[cur] = s
    <3> HIDE DEF s
    <3>1. Append(chain, s)[Len(chain) + 1] = s /\ \A f \in 1 .. Len(chain) : Append(chain, s)[f] = chain[f]
      BY <2>2, <2>4, AppendProperties
    <3>2. Len(chain) + 1 = cur /\ 1 .. Len(chain) = 1 .. cur - 1
      BY <2>2, <2>3
    <3>3. chain' = Append(chain, s)
      BY <2>1 DEF s
    <3> QED
      BY <3>1, <3>2, <3>3
  <2>6. CASE pc' = "leave"
    BY <2>6 DEF PyramidsOK
  <2>7. CASE cur' = cur + 1 /\ (~err \/ IsPair)
    <3>1. ASSUME NEW f \in 1 .. cur, ~IsPair, job[f] \in Preps
          PROVE  /\ R = 0 .. Len(chain'[f]) - 1
                 /\ \A i \in 1 .. Len(chain'[f]) :
                        chain'[f][i] = <<WidthAt(i - 1), HeightAt(i - 1)>>
      <4>1. CASE f \in 1 .. cur - 1
        BY <2>1, <2>5, <3>1, <4>1 DEF PyramidsOK
      <4>2. CASE f = cur
        <5>1. ~err /\ fn \in Preps /\ chain'[f] = scales
          BY <2>5, <2>7, <3>1, <4>2 DEF ReturnsPrep, fn
        <5>2. scales = [i \in 1 .. scale |-> ScaleAt(i - 1)] /\ R = 0 .. scale - 1 /\ scale \in Nat
          BY <2>1, <5>1 DEF ScalesOK, PositionOK
        <5>3. Len(scales) = scale
          <6>1. scales \in Seq(Nat \X Nat) /\ DOMAIN scales = 1 .. scale
            BY <2>2, <5>1, <5>2
          <6> QED
            BY <5>2, <6>1, LenProperties
        <5>4. \A i \in 1 .. scale : scales[i] = <<WidthAt(i - 1), HeightAt(i - 1)>>
          BY <5>1, <5>2 DEF ScaleAt
        <5> QED
          BY <5>1, <5>2, <5>3, <5>4
      <4> QED
        BY <2>3, <4>1, <4>2
    <3>2. 1 .. cur' - 1 = 1 .. cur
      BY <2>3, <2>7
    <3> HIDE DEF s
    <3> QED
      BY <1>0, <3>1, <3>2 DEF PyramidsOK
  <2> QED
    BY <2>1, <2>6, <2>7
<1> QED
  BY <1>1, <1>2, OnlyReturnsPassOn

(* A body that maps does not end before they are computed.                 *)
LEMMA MapsStep ==
    ASSUME PositionOK, FailsOK, MapsComputed, [PipelineNext]_allVars
    PROVE  MapsComputed'
<1> USE DEF progVars, posVars, dataVars
<1>0. job' = job
  BY ProgStays
<1>1. ASSUME err' \/ pc' \notin {"end", "readback"} PROVE MapsComputed'
  BY <1>1 DEF MapsComputed
<1>2. ASSUME Fails PROVE MapsComputed'
  BY <1>1, <1>2 DEF Fails, Position
<1>3. ASSUME NextOp, pc \in {"body", "shrink"}, UNCHANGED <<cur, scale>>, ThisOp.kind # "maps"
      PROVE  MapsComputed'
  <2>1. pc' # "end" \/ fn \in Preps
    BY <1>0, <1>3, NextOpHalves
  <2>2. pc' # "readback" /\ fn' = fn
    BY <1>0, <1>3, NextOpHalves, SameBody
  <2> QED
    BY <2>1, <2>2 DEF MapsComputed
<1>4. ASSUME UNCHANGED <<cur, scale, val>>, pc \in {"end", "readback"}, ~err \/ err' = err
      PROVE  MapsComputed'
  <2>1. fn' = fn /\ (Here("p", "sd"))' = Here("p", "sd") /\ (Here("p", "ed"))' = Here("p", "ed")
    BY <1>0, <1>4, SameBody DEF Here, Plane, Buf, Home
  <2> QED
    BY <1>4, <2>1 DEF MapsComputed
<1>5. CASE Upload \/ LoopHead \/ Begin
  <2>1. pc' \notin {"end", "readback"}
    BY <1>5 DEF Upload, LoopHead, Begin, Fails, Position
  <2> QED
    BY <1>1, <2>1
<1>6. CASE Halve \/ CreateOut \/ Dispatch \/ BlurCreate \/ BlurReturn
  <2>1. /\ pc \in {"body", "shrink"} /\ UNCHANGED <<cur, scale>> /\ ThisOp.kind # "maps"
        /\ Fails \/ NextOp \/ NextStep
    BY <1>6 DEF Halve, CreateOut, Dispatch, BlurCreate, BlurReturn, Running
  <2> QED
    BY <1>1, <1>2, <1>3, <2>1 DEF NextStep, Position
<1>7. CASE DispatchFailed \/ BlurPass \/ BlurRelease
  <2>1. pc' \notin {"end", "readback"}
    BY <1>7 DEF DispatchFailed, BlurPass, BlurRelease, Running, Fails, NextStep, Position
  <2> QED
    BY <1>1, <2>1
<1>8. CASE MapsPass
  <2>1. /\ UNCHANGED <<cur, scale>>
        /\ \/ Fails
           \/ {Here("p", "sd"), Here("p", "ed")} \subseteq DOMAIN val'
    BY <1>8 DEF MapsPass
  <2>2. fn' = fn /\ (Here("p", "sd"))' = Here("p", "sd") /\ (Here("p", "ed"))' = Here("p", "ed")
    BY <1>0, <2>1, SameBody DEF Here, Plane, Buf, Home
  <2> QED
    BY <1>2, <2>1, <2>2 DEF MapsComputed
<1>9. CASE End
  <2>1. /\ pc = "end" /\ UNCHANGED <<cur, val>>
        /\ Fails \/ pc' = "head" \/ UNCHANGED <<scale, err>>
    BY <1>9 DEF End, NextScale, Position
  <2> QED
    BY <1>1, <1>2, <1>4, <2>1
<1>10. CASE Readback
  <2>1. pc' \notin {"end", "readback"}
    BY <1>10 DEF Readback, NextScale, Fails, Position
  <2> QED
    BY <1>1, <2>1
<1>11. CASE AbortOpenBatch \/ GuardDrop \/ Return \/ PrepDrop \/ ContextDrop
  <2>1. pc' \notin {"end", "readback"}
    BY <1>11 DEF AbortOpenBatch, GuardDrop, Dropping, Return, PrepDrop, ContextDrop, Position
  <2> QED
    BY <1>1, <2>1
<1>12. CASE Left \/ UNCHANGED allVars
  <2>1. UNCHANGED <<cur, scale, val, pc, err>>
    BY <1>12 DEF Left, allVars, pipelineVars
  <2> QED
    BY <1>1, <1>4, <2>1
<1> QED
  BY <1>5, <1>6, <1>7, <1>8, <1>9, <1>10, <1>11, <1>12 DEF PipelineNext

(* What a function returns are the norms of the reference.                 *)
LEMMA ScoresStep ==
    ASSUME PositionOK, FailsOK, ScalesOK, ScoresLikeReference, [PipelineNext]_allVars
    PROVE  ScoresLikeReference'
<1>0. dim' = dim /\ job' = job
  BY ProgStays
<1>1. CASE scores' = scores
  BY <1>0, <1>1 DEF ScoresLikeReference
<1>2. CASE Return /\ scores' # scores
  <2> DEFINE new == [of |-> <<Image("o"), Image("v")>>, scales |-> Result]
             T == {scores[i] : i \in DOMAIN scores} \cup {new}
             t == Append(scores, new)
  <2>1. /\ pc \in {"unwind", "drop"} /\ fn \notin Preps /\ Result # <<>>
        /\ scores' = t
    BY <1>2 DEF Return, Dropping
  <2>2. Result = ComputeSSIMULACRA2(Image("o"), Image("v"), dim[1], dim[2])
    <3>1. CASE err
      <4>1. IsPair
        BY <2>1, <3>1 DEF Result
      <4>2. Result = compute_ssimulacra2_cpu(Image("o"), Image("v"), dim[1], dim[2])
        BY <3>1, <4>1 DEF Result
      <4> QED
        BY <4>2, CpuIsReference
    <3>2. CASE ~err
      <4>1. /\ Result = scales /\ scales = [i \in 1 .. scale |-> ScaleAt(i - 1)]
            /\ Reached(dim[1], dim[2]) = 0 .. scale - 1 /\ scale \in Nat
        BY <2>1, <3>2 DEF Result, ScalesOK, PositionOK
      <4>2. scale \in 0 .. 6
        <5>1. Reached(dim[1], dim[2]) \subseteq 0 .. 5
          BY ReachedScales, ScalesAre
        <5>2. ASSUME scale > 6 PROVE FALSE
          <6>1. 6 \in 0 .. scale - 1
            BY <4>1, <5>2
          <6> QED
            BY <4>1, <5>1, <6>1
        <5> QED
          BY <4>1, <5>2
      <4>3. ComputeSSIMULACRA2(Image("o"), Image("v"), dim[1], dim[2])
              = ScalesOf(Image("o"), Image("v"), dim[1], dim[2], scale)
        BY <4>1, <4>2, ReferenceScales
      <4>4. \A k : ScaleAt(k) = ScaleOf(Image("o"), Image("v"), dim[1], dim[2], k)
        BY <2>1 DEF ScaleAt, ScaleOf, WidthAt, HeightAt, LinearAt
      <4>5. scales = ScalesOf(Image("o"), Image("v"), dim[1], dim[2], scale)
        BY <4>1, <4>4 DEF ScalesOf
      <4> QED
        BY <4>1, <4>3, <4>5
    <3> QED
      BY <3>1, <3>2
  <2>3. new.of[1] = Image("o") /\ new.of[2] = Image("v") /\ new.scales = Result
    OBVIOUS
  <2>4. scores \in Seq(T) /\ new \in T /\ DOMAIN scores = 1 .. Len(scores) /\ Len(scores) \in Nat
    BY LenProperties DEF ScoresLikeReference
  <2> HIDE DEF new, T, t
  <2>5. /\ t \in Seq(T) /\ Len(t) = Len(scores) + 1
        /\ \A i \in 1 .. Len(scores) : t[i] = scores[i]
        /\ t[Len(scores) + 1] = new
    BY <2>4, AppendProperties DEF t
  <2>6. DOMAIN t = 1 .. Len(t) /\ t \in Seq({t[i] : i \in DOMAIN t})
    <3>1. DOMAIN t = 1 .. Len(t) /\ t \in [1 .. Len(t) -> T] /\ Len(t) \in Nat
      BY <2>4, <2>5, LenProperties
    <3>2. t \in [1 .. Len(t) -> {t[i] : i \in DOMAIN t}]
      BY <3>1
    <3> QED
      BY <3>1, <3>2
  <2>7. ASSUME NEW i \in DOMAIN t
        PROVE  t[i].scales = ComputeSSIMULACRA2(t[i].of[1], t[i].of[2], dim[1], dim[2])
    <3>1. CASE i = Len(scores) + 1
      BY <2>2, <2>3, <2>5, <3>1
    <3>2. CASE i # Len(scores) + 1
      <4>1. i \in DOMAIN scores /\ t[i] = scores[i]
        BY <2>4, <2>5, <2>6, <3>2
      <4> QED
        BY <4>1 DEF ScoresLikeReference
    <3> QED
      BY <3>1, <3>2
  <2> QED
    BY <1>0, <2>1, <2>6, <2>7 DEF ScoresLikeReference
<1> QED
  BY <1>1, <1>2, OnlyReturnsPassOn

(* An error does not change the dimensions.                                *)
LEMMA PixelsStep ==
    ASSUME BlursPixels, FailsOK, FailsOK', PositionOK, PositionOK', DimensionsOK', ScalesOK',
           [PipelineNext]_allVars
    PROVE  BlursPixels'
<1> USE DEF progVars, posVars, dataVars
<1> SUFFICES ASSUME (Running({"blur"}))'
             PROVE  cw' > 0 /\ ch' > 0
  BY DEF BlursPixels
<1>1. pc' \in {"body", "shrink"}
  BY DEF Running
<1>2. CASE ~err'
  <2>1. scale' \in Reached(dim'[1], dim'[2]) /\ dim'[1] \in Nat /\ dim'[2] \in Nat
    BY <1>1, <1>2 DEF ScalesOK, PositionOK
  <2>2. \/ cw' = (WidthAt(scale))' /\ ch' = (HeightAt(scale))'
        \/ cw' = (WidthAt(Before(scale)))' /\ ch' = (HeightAt(Before(scale)))'
    BY <1>1, <1>2 DEF DimensionsOK
  <2> QED
    BY <2>1, <2>2, ReachedHasPixels DEF WidthAt, HeightAt, Before
<1>3. CASE err'
  <2>1. step' \in {6, 7}
    BY <1>1, <1>3 DEF FailsOK
  <2>2. CASE Upload \/ LoopHead \/ Begin \/ End \/ Readback
    <3>1. Fails \/ step' = 1
      BY <2>2 DEF Upload, LoopHead, Begin, End, Readback, NextScale, Position
    <3> QED
      BY <2>1, <3>1 DEF Fails, Position
  <2>3. CASE \/ Halve \/ CreateOut \/ Dispatch \/ BlurCreate \/ DispatchFailed \/ MapsPass
             \/ BlurReturn
    <3>1. Fails \/ NextOp \/ (NextStep /\ step \in {1, 2, 3})
      BY <2>3 DEF Halve, CreateOut, Dispatch, BlurCreate, DispatchFailed, MapsPass, BlurReturn
    <3> QED
      BY <2>1, <3>1 DEF Fails, NextOp, NextStep, Position
  <2>4. CASE BlurPass \/ BlurRelease
    <3>1. Running({"blur"}) /\ cw' = cw /\ ch' = ch
      BY <2>4 DEF BlurPass, BlurRelease
    <3> QED
      BY <3>1 DEF BlursPixels
  <2>5. CASE AbortOpenBatch \/ GuardDrop \/ Return \/ PrepDrop \/ ContextDrop
    <3>1. pc' \notin {"body", "shrink"}
      BY <2>5 DEF AbortOpenBatch, ContextDrop, PrepDrop, GuardDrop, Dropping, Return, Position
    <3> QED
      BY <1>1, <3>1
  <2>6. CASE Left \/ UNCHANGED allVars
    <3>1. UNCHANGED <<job, cur, scale, pc, op, cw, ch>>
      BY <2>6 DEF Left, allVars, pipelineVars
    <3>2. Running({"blur"})
      BY <3>1, SameOp DEF Running
    <3> QED
      BY <3>1, <3>2 DEF BlursPixels
  <2> QED
    BY <2>2, <2>3, <2>4, <2>5, <2>6 DEF PipelineNext
<1> QED
  BY <1>2, <1>3

(* Which is what the step of each action gives.                            *)
LEMMA InitResultInv == PipelineInit => ResultInv
<1> SUFFICES ASSUME NEW j \in Jobs, NEW d \in Dimensions, InitOf(j, d)
             PROVE  ResultInv
  BY DEF PipelineInit
<1>1. PipelineInv
  BY InitPipelineInv DEF PipelineInit
<1>2. /\ caller = {} /\ kept = {} /\ resident = {} /\ val = <<>> /\ chain = <<>>
      /\ scales = <<>> /\ scores = <<>> /\ ~err
      /\ pc = "upload" /\ cur = 1 /\ scale = 0 /\ dim = d /\ cw = d[1] /\ ch = d[2]
  BY DEF InitOf, Init
<1>3. /\ HoldsItsValue /\ LoadedHold /\ ImagesInHand /\ FailsOK /\ BlurReads
      /\ MapsComputed /\ BlursPixels
  BY <1>2 DEF HoldsItsValue, LoadedHold, Loaded, ImagesInHand, FailsOK, BlurReads,
     MapsComputed, BlursPixels, Running
<1>4. DimensionsOK
  BY <1>2 DEF DimensionsOK
<1>5. ScalesOK
  <2>1. 1 .. scale = {} /\ 0 .. scale - 1 = {}
    BY <1>2
  <2>2. scales = [i \in 1 .. scale |-> ScaleAt(i - 1)]
    BY <1>2, <2>1
  <2> QED
    BY <1>2, <2>1, <2>2 DEF ScalesOK
<1>6. PyramidsOK
  BY <1>2 DEF PyramidsOK
<1>7. ScoresLikeReference
  BY <1>2 DEF ScoresLikeReference
<1> QED
  BY <1>1, <1>3, <1>4, <1>5, <1>6, <1>7 DEF ResultInv

LEMMA ResultInductive == ResultInv /\ [PipelineNext]_allVars => ResultInv'
<1> SUFFICES ASSUME ResultInv, [PipelineNext]_allVars PROVE ResultInv'
  OBVIOUS
<1>1. /\ PipelineInv /\ PositionOK /\ ChainOK /\ HoldsItsValue /\ LoadedHold
      /\ ImagesInHand /\ FailsOK /\ BlurReads /\ DimensionsOK /\ ScalesOK
      /\ PyramidsOK /\ MapsComputed /\ BlursPixels /\ ScoresLikeReference
  BY DEF ResultInv, PipelineInv
<1>2. PipelineInv' /\ PositionOK'
  BY <1>1, PipelineInductive DEF PipelineInv
<1>3. HoldsItsValue' /\ LoadedHold'
  BY <1>1, HoldsStep
<1>4. ImagesInHand' /\ FailsOK' /\ BlurReads'
  BY <1>1, ImagesStep, FailsStep, BlurReadsStep
<1>5. DimensionsOK'
  BY <1>1, <1>2, DimensionsStep
<1>6. ScalesOK' /\ PyramidsOK'
  BY <1>1, ScalesStep, PyramidsStep
<1>7. MapsComputed' /\ ScoresLikeReference'
  BY <1>1, MapsStep, ScoresStep
<1>8. BlursPixels'
  BY <1>1, <1>2, <1>4, <1>5, <1>6, PixelsStep
<1> QED
  BY <1>2, <1>3, <1>4, <1>5, <1>6, <1>7, <1>8 DEF ResultInv

(* gpu_pipeline.rs: for any jobs and dimensions, and whatever fails, every *)
(* buffer of a pipeline holds the stage its name stands for of the images  *)
(* its function was given, with the dimensions the reference has at that   *)
(* scale; a function is at the scale the reference would be at, and one    *)
(* that succeeds has finished all of them.                                 *)
THEOREM ResultInvariant == PipelineSpec => []ResultInv
  BY InitResultInv, ResultInductive, PTL DEF PipelineSpec

LEMMA ReferenceLength ==
    ASSUME NEW o, NEW d, NEW w, NEW h
    PROVE  \E n \in 0 .. 6 : /\ DOMAIN ComputeSSIMULACRA2(o, d, w, h) = 1 .. n
                             /\ ComputeSSIMULACRA2(o, d, w, h) = ScalesOf(o, d, w, h, n)
<1>1. PICK n \in 0 .. 6 : Reached(w, h) = 0 .. n - 1
  BY ReachedPrefix
<1>2. ComputeSSIMULACRA2(o, d, w, h) = ScalesOf(o, d, w, h, n)
  BY <1>1, ReferenceScales
<1> QED
  BY <1>2 DEF ScalesOf

(* gpu_pipeline.rs, cpu.rs, score.rs: so whichever way a pair is scored, a *)
(* score that is returned is that of ssimulacra2.cc, from the same norms   *)
(* with the same weights.                                                  *)
THEOREM AlwaysLikeReference == PipelineSpec => []SameAsReference
<1>1. ASSUME ResultInv PROVE SameAsReference
  <2> SUFFICES ASSUME NEW i \in DOMAIN scores
               PROVE  /\ scores[i].scales =
                            ComputeSSIMULACRA2(scores[i].of[1], scores[i].of[2], dim[1], dim[2])
                      /\ scores[i].scales # <<>> => Len(scores[i].scales) \in SameWeights
    BY DEF SameAsReference
  <2>1. scores[i].scales =
            ComputeSSIMULACRA2(scores[i].of[1], scores[i].of[2], dim[1], dim[2])
    BY <1>1 DEF ResultInv, ScoresLikeReference
  <2>2. PICK n \in 0 .. 6 :
            /\ DOMAIN scores[i].scales = 1 .. n
            /\ scores[i].scales = ScalesOf(scores[i].of[1], scores[i].of[2], dim[1], dim[2], n)
    BY <2>1, ReferenceLength
  <2>3. ASSUME scores[i].scales # <<>> PROVE Len(scores[i].scales) \in SameWeights
    <3> DEFINE r == scores[i].scales
    <3>1. r = [k \in 1 .. n |-> r[k]]
      BY <2>2 DEF ScalesOf
    <3> HIDE DEF r
    <3>2. Len(r) = n
      BY <3>1
    <3>3. n # 0
      <4>1. n = 0 => r = <<>>
        BY <3>1
      <4> QED
        BY <4>1, <2>3 DEF r
    <3>4. n \in 1 .. 6 /\ weighted_sum(n) = Score(n)
      BY <3>3, WeightsAreScores
    <3> QED
      BY <3>2, <3>4 DEF r, SameWeights, kNumScales
  <2> QED
    BY <2>1, <2>3
<1> QED
  BY <1>1, ResultInvariant, PTL

(* blur.rs, blur_h.comp, blur_v.comp: so in every blur of every scale the  *)
(* scans of the port and of the reference agree on the lines of its        *)
(* dimensions, and each line is scanned by one invocation.                 *)
THEOREM BlursAlwaysAgree == PipelineSpec => []BlursLikeReference
<1>1. ASSUME NEW length \in 1 .. LongestScan
      PROVE  length \in AgreeingLengths \cap ScannedOnceLengths
  <2>1. length \in Nat \ {0} /\ length <= 70
    BY DEF LongestScan
  <2>2. ASSUME NEW g \in Filters
        PROVE  LET row == Scanned("FastGaussian1D", g, Memory(length), length)
               IN  /\ Scanned("blur_1d", g, Memory(length), length) = row
                   /\ \A sc \in Scans : Scanned(sc, g, Memory(length), length).out = row.out
    <3>1. g \in FiltersOf
      BY DEF Filters, FiltersOf
    <3>2. IsLine(Memory(length), length)
      <4>1. ASSUME NEW i \in 0 .. length - 1 PROVE Memory(length)[i] \in Int
        <5>1. Memory(length)[i] = ((7 * i * i + 3 * i) % 11) - 5
          BY <2>1 DEF Memory
        <5>2. 7 * i * i + 3 * i \in Nat
          BY <2>1
        <5> QED
          BY <5>1, <5>2
      <4> QED
        BY <4>1 DEF IsLine
    <3> QED
      BY <2>1, <3>1, <3>2, ScansAgree
  <2>3. length \in AgreeingLengths
    BY <2>2 DEF AgreeingLengths
  <2>4. \A max_x \in {1, 2, 65535} : LinesScannedOnce(Word, length, max_x)
    BY <2>1, EveryLineOnce DEF Word
  <2>5. length \in ScannedOnceLengths
    BY <2>4 DEF ScannedOnceLengths
  <2> QED
    BY <2>3, <2>5
<1>2. ASSUME ResultInv PROVE BlursLikeReference
  <2> SUFFICES ASSUME Running({"blur"}), NEW length \in {cw, ch}, length <= LongestScan
               PROVE  length \in AgreeingLengths \cap ScannedOnceLengths
    BY DEF BlursLikeReference
  <2>1. cw \in Nat /\ ch \in Nat /\ cw > 0 /\ ch > 0
    BY <1>2 DEF ResultInv, PipelineInv, PositionOK, BlursPixels
  <2>2. length \in 1 .. LongestScan
    BY <2>1 DEF LongestScan
  <2> QED
    BY <1>1, <2>2
<1> QED
  BY <1>2, ResultInvariant, PTL
=============================================================================
