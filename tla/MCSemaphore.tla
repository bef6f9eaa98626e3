---------------------------- MODULE MCSemaphore -----------------------------
(***************************************************************************)
(* Instances of Semaphore for TLC: one semaphore, the id Lock.             *)
(***************************************************************************)
EXTENDS Semaphore, KernelProps

ASSUME OneSemaphore == Sems = {Lock}
=============================================================================
