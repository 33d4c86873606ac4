----------------------------- MODULE GpuContext -----------------------------
(***************************************************************************)
(* Ownership of Vulkan objects in ssimulacra2-vulkan: VkContext            *)
(* (context.rs) and its compute dispatch (pipeline.rs), driven by any      *)
(* client that passes only buffers it owns.                                *)
(*                                                                         *)
(* A VkContext is used by one thread at a time, so a method is one action; *)
(* ok tells whether it returned Ok. What makes it hard is that every       *)
(* Vulkan call in it may fail, that an open batch defers both the work and *)
(* the release of what the work refers to, and that the GPU runs what was  *)
(* submitted on its own.                                                   *)
(*                                                                         *)
(* A GpuBuffer is a VkBuffer with its VkDeviceMemory. Handles come from    *)
(* Buffers and are reused once released, as drivers do.                    *)
(***************************************************************************)
EXTENDS Naturals, FiniteSets

CONSTANTS
    Buffers,        \* buffer handles
    NoBuffer,       \* the absence of one
    Pipes,          \* the keys of the object cache: one per shader used
    MaxSets,        \* max_sets of a descriptor pool (64 in the code)
    Sizes,          \* byte counts a readback may ask for
    Failures,       \* the error paths that may be taken, by the call that fails
    MaxCmdbufs      \* bound: command buffers allocated at the same time

OneShotFailures == {"cmdbuf", "begin", "end", "fence", "submit", "lost", "wait"}
FinishFailures == {"batch_end", "batch_fence", "batch_submit", "batch_lost",
                   "batch_wait"}
AllFailures ==
    OneShotFailures \cup FinishFailures \cup
    {"buffer", "memory", "bind", "map", "invalidate", "batch_cmdbuf",
     "batch_begin", "groups", "pipeline", "dpool_reset", "dset"}

ASSUME ContextAssumption ==
    /\ NoBuffer \notin Buffers
    /\ MaxSets \in Nat \ {0}
    /\ Sizes \subseteq Nat
    /\ Failures \subseteq AllFailures
    /\ MaxCmdbufs \in Nat

VARIABLES
    live,           \* buffers that exist with their memory
    unbound,        \* VkBuffers that exist without memory
    caller,         \* buffers the clients of the context own
    staging,        \* the cached readback buffer,
    stagingSize,    \*   and its size
    open,           \* a batch is open
    refs,           \* buffers its recorded commands refer to
    trash,          \* buffers to release when it is finished
    batchSets,      \* descriptor sets to free then, per pool
    built,          \* keys of pipes.objs
    sets,           \* descriptor sets allocated from each pool
    cmdbufs,        \* command buffers allocated from cmd_pool
    pending,        \* buffers that submitted, unfinished work refers to
    dropped         \* the context is gone, with its device and instance

bufferVars == <<live, unbound, caller>>
stagingVars == <<staging, stagingSize>>
batchVars == <<open, refs, trash, batchSets>>
pipeVars == <<built, sets>>
vars == <<bufferVars, stagingVars, batchVars, pipeVars, cmdbufs, pending, dropped>>

NoSets == [p \in Pipes |-> 0]

Init ==
    /\ live = {} /\ unbound = {} /\ caller = {}
    /\ staging = NoBuffer /\ stagingSize = 0
    /\ open = FALSE /\ refs = {} /\ trash = {} /\ batchSets = NoSets
    /\ built = {} /\ sets = NoSets
    /\ cmdbufs = 0
    /\ pending = {}
    /\ dropped = FALSE

-----------------------------------------------------------------------------
(* alloc_buffer and one_shot, by the changes they make.                    *)

(* Handles alloc_buffer may return.                                        *)
Fresh == Buffers \ (live \cup unbound)

(* What an alloc_buffer of handle b that fails leaves behind.              *)
FailedAllocs(b) ==
    {k \in {[at |-> "buffer", live |-> {}, unbound |-> {}],
            [at |-> "memory", live |-> {}, unbound |-> {b}],
            [at |-> "bind", live |-> {b}, unbound |-> {}]} : k.at \in Failures}

(* one_shot of commands that refer to used: fence and command buffer are   *)
(* released on every path. The wait may fail with the device lost, when    *)
(* nothing runs any more, or for want of memory, when the work goes on.    *)
OneShot(used, ok) ==
    \/ ok /\ UNCHANGED pending
    \/ /\ ~ok
       /\ \E f \in Failures \cap OneShotFailures :
            pending' = IF f = "wait" THEN pending \cup used ELSE pending

-----------------------------------------------------------------------------
(* Mutant: create_buffer_f32 frees its staging buffer in an open batch too.*)
StagingFreed(s) == live \ {s}
StagingHandedOver(s) == live \cup {s}

(* create_buffer_f32: s is its staging buffer and d the buffer it returns. *)
CreateBuffer(s, d, ok) ==
    /\ s \in Fresh /\ d \in Fresh /\ s # d
    /\ \/ /\ ~ok                            \* no staging buffer
          /\ \E k \in FailedAllocs(s) :
                live' = live \cup k.live /\ unbound' = unbound \cup k.unbound
          /\ UNCHANGED <<caller, refs, trash, pending>>
       \/ /\ ~ok                            \* staging buffer not mapped
          /\ "map" \in Failures
          /\ UNCHANGED <<live, unbound, caller, refs, trash, pending>>
       \/ /\ ~ok                            \* no device buffer
          /\ \E k \in FailedAllocs(d) :
                live' = live \cup k.live /\ unbound' = unbound \cup k.unbound
          /\ UNCHANGED <<caller, refs, trash, pending>>
       \/ /\ ok /\ open                     \* copy recorded, staging handed over
          /\ live' = StagingHandedOver(s) \cup {d}
          /\ caller' = caller \cup {d}
          /\ refs' = refs \cup {s, d}
          /\ trash' = trash \cup {s}
          /\ UNCHANGED <<unbound, pending>>
       \/ /\ ~open                          \* copy submitted and waited for
          /\ OneShot({s, d}, ok)
          /\ live' = live \cup {d}
          /\ caller' = IF ok THEN caller \cup {d} ELSE caller
          /\ UNCHANGED <<unbound, refs, trash>>
    /\ UNCHANGED <<stagingVars, open, batchSets, pipeVars, cmdbufs, dropped>>

CreateEmpty(b, ok) ==
    /\ b \in Fresh
    /\ \/ /\ ok
          /\ live' = live \cup {b}
          /\ caller' = caller \cup {b}
          /\ UNCHANGED unbound
       \/ /\ ~ok
          /\ \E k \in FailedAllocs(b) :
                live' = live \cup k.live /\ unbound' = unbound \cup k.unbound
          /\ UNCHANGED caller
    /\ UNCHANGED <<stagingVars, batchVars, pipeVars, cmdbufs, pending, dropped>>

(* Mutant: destroy_buffer does not look for an open batch.                 *)
DestroyNow(b) == live' = live \ {b} /\ UNCHANGED trash
DestroyOrTrash(b) ==
    IF open THEN trash' = trash \cup {b} /\ UNCHANGED live
            ELSE live' = live \ {b} /\ UNCHANGED trash

DestroyBuffer(b) ==
    /\ b \in caller
    /\ caller' = caller \ {b}
    /\ DestroyOrTrash(b)
    /\ UNCHANGED <<unbound, stagingVars, open, refs, batchSets, pipeVars, cmdbufs,
                   pending, dropped>>

(* Mutant: the pool gives out sets without a limit.                        *)
RoomWithoutLimit(p) == TRUE
RoomInPool(p) == sets[p] < MaxSets

(* run_compute_push with a shader of key p over the buffers bs. In an open *)
(* batch the set it allocates is freed by finish_batch; otherwise it stays *)
(* allocated until the pool is reset by the next use of the key.           *)
RunComputePush(p, bs, ok) ==
    /\ bs \subseteq caller
    /\ \/ /\ ~ok
          /\ \/ "groups" \in Failures
             \/ p \notin built /\ "pipeline" \in Failures
          /\ UNCHANGED <<pipeVars, refs, batchSets, pending>>
       \/ /\ ~ok /\ ~open
          /\ built' = built \cup {p}
          /\ \/ "dpool_reset" \in Failures /\ UNCHANGED sets
             \/ "dset" \in Failures /\ sets' = [sets EXCEPT ![p] = 0]
          /\ UNCHANGED <<refs, batchSets, pending>>
       \/ /\ ~open
          /\ built' = built \cup {p}
          /\ sets' = [sets EXCEPT ![p] = 1]
          /\ OneShot(bs, ok)
          /\ UNCHANGED <<refs, batchSets>>
       \/ /\ ~ok /\ open
          /\ "dset" \in Failures \/ ~RoomInPool(p)
          /\ built' = built \cup {p}
          /\ UNCHANGED <<sets, refs, batchSets, pending>>
       \/ /\ ok /\ open
          /\ RoomInPool(p)
          /\ built' = built \cup {p}
          /\ sets' = [sets EXCEPT ![p] = @ + 1]
          /\ batchSets' = [batchSets EXCEPT ![p] = @ + 1]
          /\ refs' = refs \cup bs
          /\ UNCHANGED pending
    /\ UNCHANGED <<bufferVars, stagingVars, open, trash, cmdbufs, dropped>>

-----------------------------------------------------------------------------
(* The staging buffer a readback of total bytes needs is there: the cached *)
(* one when it is large enough, otherwise a new one in its place, of       *)
(* HOST_CACHED memory (handle s) or else HOST_COHERENT (handle t).         *)
KeepStaging(total) ==
    /\ staging # NoBuffer /\ stagingSize >= total
    /\ UNCHANGED <<live, unbound, stagingVars>>

Replaceable(total) == staging = NoBuffer \/ stagingSize < total

ReplaceStaging(total, s, t) ==
    /\ Replaceable(total)
    /\ s \in Fresh /\ t \in Fresh /\ s # t
    /\ \/ /\ live' = (live \ {staging}) \cup {s}
          /\ staging' = s
          /\ UNCHANGED unbound
       \/ \E k \in FailedAllocs(s) :
            /\ live' = (live \ {staging}) \cup k.live \cup {t}
            /\ unbound' = unbound \cup k.unbound
            /\ staging' = t
    /\ stagingSize' = total

NoStagingLeft(total, s, t) ==
    /\ Replaceable(total)
    /\ s \in Fresh /\ t \in Fresh /\ s # t
    /\ \E k \in FailedAllocs(s), l \in FailedAllocs(t) :
        /\ live' = (live \ {staging}) \cup k.live \cup l.live
        /\ unbound' = unbound \cup k.unbound \cup l.unbound
    /\ staging' = NoBuffer
    /\ stagingSize' = 0

(* readback_f32_all: copy, map the whole allocation, invalidate, unmap.    *)
ReadbackAll(bs, total, s, t, ok) ==
    /\ bs \subseteq caller
    /\ \/ /\ ~ok
          /\ NoStagingLeft(total, s, t)
          /\ UNCHANGED pending
       \/ /\ KeepStaging(total) \/ ReplaceStaging(total, s, t)
          /\ \/ OneShot(bs \cup {staging'}, ok)
             \/ ~ok /\ {"map", "invalidate"} \cap Failures # {} /\ UNCHANGED pending
    /\ UNCHANGED <<caller, batchVars, pipeVars, cmdbufs, dropped>>

-----------------------------------------------------------------------------
(* begin_batch: the command buffer is allocated and begun before the check *)
(* for a batch that is open already, and is not freed when that fails.     *)
BeginBatch(ok) ==
    /\ \/ /\ ~ok
          /\ "batch_cmdbuf" \in Failures
          /\ UNCHANGED <<open, cmdbufs>>
       \/ /\ ~ok
          /\ open \/ "batch_begin" \in Failures
          /\ cmdbufs' = cmdbufs + 1
          /\ UNCHANGED open
       \/ /\ ok
          /\ ~open
          /\ open' = TRUE
          /\ cmdbufs' = cmdbufs + 1
    /\ UNCHANGED <<bufferVars, stagingVars, refs, trash, batchSets, pipeVars,
                   pending, dropped>>

(* Mutant: the batch's descriptor sets stay allocated.                     *)
BatchSetsKept == UNCHANGED sets
BatchSetsFreed == sets' = [p \in Pipes |-> sets[p] - batchSets[p]]

(* Mutant: an aborted batch forgets the buffers it was handed.             *)
TrashForgotten(submit) == live' = IF submit THEN live \ trash ELSE live
TrashReleased(submit) == live' = live \ trash

(* finish_batch, for end_batch (submit) and abort_batch (not submit). The  *)
(* batch is taken first, and everything it holds is released whatever      *)
(* happens to the submission.                                              *)
FinishBatch(submit, ok) ==
    /\ open
    /\ \/ ok /\ UNCHANGED pending
       \/ /\ ~ok
          /\ \E f \in Failures \cap FinishFailures :
                /\ submit \/ f = "batch_end"
                /\ pending' = IF f = "batch_wait" THEN pending \cup refs ELSE pending
    /\ TrashReleased(submit)
    /\ BatchSetsFreed
    /\ open' = FALSE
    /\ refs' = {} /\ trash' = {} /\ batchSets' = NoSets
    /\ cmdbufs' = cmdbufs - 1
    /\ UNCHANGED <<unbound, caller, stagingVars, built, dropped>>

(* VkContext::drop waits for the device and releases what it keeps. The    *)
(* borrow checker lets no guard outlive the context, but a GpuBuffer is a  *)
(* plain handle: one that nobody destroyed is left behind.                 *)
Drop ==
    /\ ~dropped /\ ~open
    /\ pending' = {}
    /\ built' = {} /\ sets' = NoSets
    /\ live' = live \ {staging}
    /\ staging' = NoBuffer /\ stagingSize' = 0
    /\ cmdbufs' = 0
    /\ dropped' = TRUE
    /\ UNCHANGED <<unbound, caller, batchVars>>

(* Submitted work that nobody waits for any more runs to its end.          *)
GpuFinishes ==
    /\ pending # {}
    /\ pending' = {}
    /\ UNCHANGED <<bufferVars, stagingVars, batchVars, pipeVars, cmdbufs, dropped>>

-----------------------------------------------------------------------------
(* Any client: it passes buffers it owns and nests no guard.               *)
ClientCall ==
    \E ok \in BOOLEAN :
        \/ \E s, d \in Buffers : CreateBuffer(s, d, ok)
        \/ \E b \in Buffers : CreateEmpty(b, ok)
        \/ \E p \in Pipes : \E bs \in SUBSET caller :
            bs # {} /\ RunComputePush(p, bs, ok)
        \/ \E total \in Sizes, b \in caller, s, t \in Buffers :
            ReadbackAll({b}, total, s, t, ok)
        \/ cmdbufs < MaxCmdbufs /\ BeginBatch(ok)
        \/ \E submit \in BOOLEAN : FinishBatch(submit, ok)

Destroy == \E b \in Buffers : DestroyBuffer(b)

Gone == dropped /\ UNCHANGED vars

Next == (~dropped /\ (ClientCall \/ Destroy \/ GpuFinishes)) \/ Drop \/ Gone

Spec == Init /\ [][Next]_vars

-----------------------------------------------------------------------------
TypeOK ==
    /\ live \subseteq Buffers /\ unbound \subseteq Buffers
    /\ caller \subseteq Buffers
    /\ staging \in Buffers \cup {NoBuffer} /\ stagingSize \in Nat
    /\ open \in BOOLEAN
    /\ refs \subseteq Buffers /\ trash \subseteq Buffers
    /\ batchSets \in [Pipes -> 0 .. MaxSets]
    /\ built \subseteq Pipes /\ sets \in [Pipes -> 0 .. MaxSets]
    /\ cmdbufs \in Nat
    /\ pending \subseteq Buffers
    /\ dropped \in BOOLEAN

(* A buffer that recorded commands refer to exists until the batch is      *)
(* finished (destroy_buffer and create_buffer_f32 defer to the batch).     *)
RecordedAlive == refs \subseteq live

(* A buffer that submitted work refers to exists until the work is done    *)
(* (finish_batch: "all in-use resources outlive the submit").              *)
InFlightAlive == pending \subseteq live

(* No buffer is released twice: a live buffer has at most one owner, and   *)
(* every owner's buffers are live.                                         *)
OneOwner ==
    /\ caller \cap trash = {}
    /\ staging \notin caller \cup trash
    /\ caller \cup trash \cup ({staging} \ {NoBuffer}) \subseteq live

(* At most one set of a pool outlives a batch or a dispatch, so what a     *)
(* batch can allocate does not shrink from one batch to the next.          *)
PoolsDrain ==
    \A p \in Pipes : batchSets[p] <= sets[p] /\ sets[p] <= batchSets[p] + 1

(* Failures after which a helper returns without what it has created: of   *)
(* the steps of alloc_buffer, and of a submission for create_buffer_f32.   *)
LeakyFailures == {"memory", "bind"} \cup OneShotFailures

(* Every buffer that exists has an owner who will release it (the leaks    *)
(* BUG_HUNT F8 is about), as long as none of these failures happens.       *)
NoLeak ==
    /\ live \subseteq caller \cup trash \cup {staging}
    /\ unbound = {}

(* The inductive invariant behind them: who owns what recorded commands    *)
(* refer to, and that a batch that is closed holds nothing.                *)
Ownership ==
    /\ OneOwner
    /\ refs \subseteq caller \cup trash
    /\ ~open => refs = {} /\ trash = {} /\ batchSets = NoSets
    /\ open => cmdbufs > 0

IInv == TypeOK /\ Ownership /\ PoolsDrain
=============================================================================
