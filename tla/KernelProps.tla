----------------------------- MODULE KernelProps ----------------------------
(***************************************************************************)
(* The properties of module Kernel.                                        *)
(***************************************************************************)
EXTENDS Kernel

\* The fields of the kernel state.
Fields ==
  {"status", "block_reason", "waiting_on", "has_quantum", "priority", "mode",
   "parent", "children", "waitpid", "ready", "current", "blocked", "sleepers",
   "foreground", "process_count", "shell_pid", "machine"}

\* Type of the part of the state that the scheduler works on.
SchedulerTypeOK ==
  /\ k = [f \in Fields |-> k[f]]
  /\ k.status \in [Pids -> Statuses]
  /\ k.block_reason \in [Pids -> BlockReasons]
  /\ k.waiting_on \in [Pids -> WaitingOn]
  /\ k.has_quantum \in [Pids -> 0..QUANTUM_MAX]
  /\ k.priority \in [Pids -> Priorities]
  /\ k.ready \in Seq(Pids)
  /\ k.blocked \in [Pids -> Nat]
  /\ k.current \in Pids \cup {NULL}
  /\ k.foreground \in Pids \cup {NULL}
  /\ k.parent \in [Pids -> Pids \cup {NULL}]
  /\ k.machine \in {"up", "panic", "fault"}

\* The state of the kernel has the type its C declarations give it: every
\* field of the PCBs and of the globals of scheduler.c, process.c and tty.c.
TypeOK ==
  /\ SchedulerTypeOK
  /\ k.mode \in [Pids -> {"BG", "FG"}]
  /\ k.children \in [Pids -> Seq(Pids)]
  /\ \A p \in Pids : Len(k.children[p]) <= MAX_PROCESSES
  /\ k.waitpid \in [Pids -> Pids \cup {NoWait, WAIT_ANY}]
  /\ k.sleepers = << >>
  /\ k.shell_pid \in Pids \cup {NULL}
  /\ k.process_count \in Int /\ k.process_count <= 0

\* The ready queue, the status fields and current_process agree: a process is
\* queued exactly when it is READY, and once; RUNNING is the status of the
\* running process and of no other; a BLOCKED process is in the blocked queue.
\* proc_ready, block, schedule and proc_kill each touch only some of them.
SchedulerConsistent ==
  /\ NoDuplicates(k.ready)
  /\ \A p \in Pids :
       /\ k.status[p] = "READY" <=> InQueue(k.ready, p)
       /\ k.status[p] = "RUNNING" <=> k.current = p
       /\ k.status[p] = "BLOCKED" => k.blocked[p] > 0

\* schedule and enqueue_next_process never find the ready queue empty without
\* a running process: whatever dies or blocks, idle is there to run.
NeverPanics == k.machine # "panic"

\* Parent pointers and child lists are each other's inverse for processes that
\* have not died, and no list names a child twice: spawn, reparenting at death
\* and collection by wait_pid keep two copies of the process tree in step.
FamilyConsistent ==
  \A p \in Pids :
    /\ NoDuplicates(k.children[p])
    /\ k.status[p] \notin {"FREE", "ZOMBIE"} =>
         \A c \in Pids : InQueue(k.children[p], c) <=> c \in Alive(k) /\ k.parent[c] = p

\* A program blocked in wait_pid has nothing to collect and something to wait
\* for: no death of a child is missed between the test and the block.
NoLostChildWakeup ==
  \A p \in Pids \ {1} :
    k.status[p] = "BLOCKED" /\ k.block_reason[p] = "CHILD" =>
      /\ collectable(k, p, k.waitpid[p]) = 0
      /\ ~ hopeless(k, p, k.waitpid[p])

-----------------------------------------------------------------------------
\* Nobody starves: a READY process gets the CPU, unless another process blocks
\* or kills it first.  schedule is round robin, proc_ready always enqueues at
\* the tail, and every quantum ends.
ReadyRuns ==
  \A p \in Pids :
    k.status[p] = "READY" ~> k.status[p] # "READY" \/ k.machine # "up"

\* A program inside wait_pid that has a child to collect returns from the call
\* or dies: proc_kill wakes it, it runs again and finds the child.
WaitReturns ==
  \A p \in Pids \ {1} :
    k.waitpid[p] # NoWait /\ collectable(k, p, k.waitpid[p]) # 0
      ~> k.waitpid[p] = NoWait \/ k.machine # "up"

-----------------------------------------------------------------------------
\* process.c:192-193: proc_reap is for the one who collects the result.  A
\* slot is freed by its parent, or at death by a process without parent.
ReapedByParent ==
  [][\A p \in Pids :
       k.status[p] = "ZOMBIE" /\ k'.status[p] = "FREE" =>
         k.parent[p] \in {NULL, k.current}]_k
=============================================================================
