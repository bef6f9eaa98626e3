----------------------------- MODULE Semaphore ------------------------------
(***************************************************************************)
(* Kernel/ipc/semaphore.c on top of the kernel: the table of semaphores    *)
(* and programs that use a semaphore as a lock, the way tests/test_sync.c  *)
(* and programs/phylo.c do (wait, work, post).                             *)
(*                                                                         *)
(* The spin lock of a semaphore is taken and released inside one handler   *)
(* with interrupts off, on one CPU: nobody ever finds it taken.            *)
(***************************************************************************)
EXTENDS Sleep, SemTable, FiniteSets

CONSTANTS
  Sems,      \* the ids in use, a subset of 0..MAX_SEMAPHORES - 1
  SemValue,  \* the value the programs create a semaphore with
  Lock       \* one of the ids, the one compared with AbstractSemaphore

ASSUME SemaphoreAssumption == SemValue \in Nat

VARIABLES
  sems,  \* semaphore_table: in_use, value, waiting_process_queue
  uses   \* uses[p]: the semaphores process p has called wait on, not yet post

semVars == <<k, sems, uses>>

-----------------------------------------------------------------------------
sem_post_kernel(kn, s) ==
  IF s.waiting # << >> THEN proc_ready(kn, dequeue_value(s.waiting)) ELSE kn

sem_wait_kernel(kn, s) ==
  IF s.value > 0 THEN kn ELSE block_current(kn, "SEMAPHORE", "resource")

-----------------------------------------------------------------------------
SemInit ==
  /\ Init
  /\ sems = [id \in Sems |-> Closed]
  /\ uses = [p \in Pids |-> {}]

\* A live program calls; a killed one that still has the CPU is left out.
Caller(call) == Program(call) /\ k.current # NULL

SemCreate ==
  /\ Caller("sem_create")
  /\ \E id \in Sems : sems' = [sems EXCEPT ![id] = my_sem_create(@, SemValue)]
  /\ UNCHANGED <<k, uses>>

\* The programs close a semaphore when nobody uses it any more (test_sync.c:123).
SemClose ==
  /\ Caller("sem_close")
  /\ \E id \in Sems :
       /\ sems[id].in_use
       /\ \A p \in Pids : id \notin uses[p]
       /\ sems' = [sems EXCEPT ![id] = my_sem_destroy(@)]
  /\ UNCHANGED <<k, uses>>

\* block_current switches away; my_sem_wait returns when the process runs again.
SemWait ==
  /\ Caller("sem_wait")
  /\ \E id \in Sems \ uses[k.current] :
       /\ sems[id].in_use
       /\ sems' = [sems EXCEPT ![id] = sem_wait_table(@, k.current)]
       /\ k' = sem_wait_kernel(k, sems[id])
       /\ uses' = [uses EXCEPT ![k.current] = @ \cup {id}]

SemTryWait ==
  /\ Caller("sem_trywait")
  /\ \E id \in Sems \ uses[k.current] :
       /\ sems[id].in_use /\ sems[id].value > 0
       /\ sems' = [sems EXCEPT ![id].value = @ - 1]
       /\ uses' = [uses EXCEPT ![k.current] = @ \cup {id}]
  /\ UNCHANGED k

SemPost(p) ==
  /\ Caller("sem_post") /\ k.current = p
  /\ \E id \in uses[p] :
       /\ sems[id].in_use
       /\ sems' = [sems EXCEPT ![id] = sem_post_table(@)]
       /\ k' = sem_post_kernel(k, sems[id])
       /\ uses' = [uses EXCEPT ![p] = @ \ {id}]

\* proc_kill knows nothing of semaphores (pcb.waiting_on is a semaphore_t there,
\* and what it takes for the head of a queue is null).
SemsUntouched ==
  /\ uses' = [p \in Pids |-> IF k'.status[p] \in {"FREE", "ZOMBIE"} THEN {} ELSE uses[p]]
  /\ UNCHANGED sems

\* Everything else, sleeping included.
KernelStep == (Next \/ SleepCall) /\ SemsUntouched

SemNext ==
  \/ SemCreate \/ SemClose \/ SemWait \/ SemTryWait \/ KernelStep
  \/ \E p \in Pids : SemPost(p)

SemSpec == SemInit /\ [][SemNext]_semVars

\* As for FairSpec; and a program that holds a semaphore and gets the CPU again
\* and again posts it some time, as the loops of test_sync and phylo do.
SemFairSpec ==
  /\ SemSpec
  /\ SF_semVars(TimerTick /\ SemsUntouched) /\ WF_semVars(Resume /\ SemsUntouched)
  /\ \A p \in Pids : SF_semVars(SemPost(p))

-----------------------------------------------------------------------------
Waiting(p) == k.status[p] = "BLOCKED" /\ k.block_reason[p] = "SEMAPHORE"

\* Process p is past its wait on id.
Holds(p, id) == id \in uses[p] /\ ~ Waiting(p)

\* The queues of the semaphores and the scheduler agree: who is in the queue of
\* a semaphore is blocked on it, once, and who is blocked on a semaphore is in
\* the queue of one; my_sem_post unlinks before proc_ready, my_sem_wait enqueues
\* before block.
WaitersQueued ==
  /\ \A id \in Sems :
       /\ NoDuplicates(sems[id].waiting)
       /\ \A p \in Pids : InQueue(sems[id].waiting, p) => Waiting(p) /\ id \in uses[p]
  /\ \A p \in Pids : Waiting(p) => \E id \in Sems : InQueue(sems[id].waiting, p)

\* A semaphore created with value n admits n processes between wait and post.
\* test_sync.c:137 ("TEST FAILED: Expected global = 0 with semaphores") relies
\* on it with n = 1.
MutualExclusion ==
  \A id \in Sems :
    sems[id].in_use =>
      Cardinality({p \in Pids : Holds(p, id)}) + sems[id].value <= SemValue

\* process.c:133, "Mata un proceso. Cambia su estado a ZOMBIE": a dead process
\* is never scheduled again.
DeadStayDead ==
  [][\A p \in Pids : k.status[p] = "ZOMBIE" => k'.status[p] \in {"ZOMBIE", "FREE"}]_semVars

\* Every process that waits gets its turn: the queue is first in first out.
WaiterServed == \A p \in Pids : Waiting(p) ~> ~ Waiting(p) \/ k.machine # "up"

\* Whoever sleeps wakes up, however the others use the CPU meanwhile.
SleeperWakes == \A p \in Pids : Sleeping(p) ~> ~ Sleeping(p) \/ k.machine # "up"

-----------------------------------------------------------------------------
\* The semaphore as a refinement of AbstractSemaphore, when Lock is the only
\* one: what the abstract one calls waiting is what the scheduler has blocked.
Abstract == INSTANCE AbstractSemaphore WITH
  Procs <- Pids,
  InitialValue <- SemValue,
  is_open <- sems[Lock].in_use,
  units <- IF sems[Lock].in_use THEN sems[Lock].value ELSE 0,
  waiters <- {p \in Pids : Waiting(p)}

\* Whatever the scheduler does in between, the semaphore behaves like a counter
\* with a set of waiters: post wakes one waiter or counts, never both, and no
\* other call or interrupt lets a waiter go on.
ImplementsSemaphore == Abstract!Spec
=============================================================================
