---------------------------- MODULE MCGpuContext ----------------------------
(* Instances of GpuContext for TLC. *)
EXTENDS GpuContext, TLC

(* Every error path but the waits that leave work running.                 *)
SettledFailures == AllFailures \ {"wait", "batch_wait"}

WaitFails == {"batch_wait"}

MCSizes == {1, 2}

Symmetry == Permutations(Buffers)
=============================================================================
