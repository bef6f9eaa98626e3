----------------------------- MODULE Scheduler ------------------------------
(***************************************************************************)
(* Kernel/proc/scheduler.c and the part of Kernel/interrupts/time_rtc.c    *)
(* that the timer interrupt runs.                                          *)
(*                                                                         *)
(* Every function of the C file is an operator that takes the kernel state *)
(* k and returns the state after the call; a handler is a composition of   *)
(* such operators.  Interrupt gates keep IF = 0 inside the kernel, so a    *)
(* handler is one atomic step of the state machines that use this module.  *)
(*                                                                         *)
(* k is a record.  Per PCB (indexed by pid, which identifies the PCB):     *)
(*   status, block_reason, waiting_on, has_quantum, priority, mode, parent,*)
(*   children (children[0..child_count-1] as a sequence), and waitpid, the *)
(*   argument of the wait_pid call the process is inside of, if any.       *)
(* Global: ready and current (scheduler.c), blocked (the multiset of PCBs  *)
(*   in blocked_processes, whose order nothing reads), sleepers            *)
(*   (time_rtc.c, with the ticks LEFT instead of the absolute wake-up      *)
(*   tick), foreground (tty.c), process_count (process.c), shell_pid (the  *)
(*   local of init_main) and machine: "up", "panic" (the kernel spins with *)
(*   interrupts off) or "fault" (it followed a null pointer).              *)
(***************************************************************************)
EXTENDS KQueue

Seqs == INSTANCE SequencesExt

CONSTANTS MAX_PROCESSES, QUANTUM_DEFAULT, QUANTUM_MAX

ASSUME ConstantsAssumption ==
  /\ MAX_PROCESSES \in Nat /\ MAX_PROCESSES >= 2
  /\ QUANTUM_DEFAULT \in Nat /\ QUANTUM_DEFAULT > 0
  /\ QUANTUM_MAX \in Nat /\ QUANTUM_MAX >= QUANTUM_DEFAULT

Pids == 0..(MAX_PROCESSES - 1)

\* A null PCB pointer, an empty return of get_running().
NULL == -1

\* waitpid values that are not pids: not inside wait_pid; wait for any child.
NoWait == -2
WAIT_ANY == -1

\* "FREE" is a null entry of process_table; the other names are proc_state_t.
Statuses == {"FREE", "READY", "RUNNING", "BLOCKED", "ZOMBIE"}

\* block_reason_t (BLK_KEYBOARD is never used).
BlockReasons ==
  {"NONE", "CHILD", "ARBITRARY", "SLEEP", "SEMAPHORE", "PIPE_READ", "PIPE_WRITE", "TERMINAL"}

\* What pcb.waiting_on may point to: nothing, the ready queue, or a resource
\* from which proc_kill cannot unlink the process (the queue of sleepers holds
\* other values; a semaphore is not a queue).
WaitingOn == {"null", "ready", "resource"}

Priorities == 1..QUANTUM_MAX

-----------------------------------------------------------------------------
panic(k) == [k EXCEPT !.machine = "panic"]

\* The kernel follows a null pointer; nothing is known of what comes next.
fault(k) == [k EXCEPT !.machine = "fault"]

proc_ready(k, p) ==
  IF p = NULL THEN k
  ELSE [k EXCEPT !.status[p] = "READY",
                 !.block_reason[p] = "NONE",
                 !.waiting_on[p] = "ready",
                 !.ready = enqueue(k.ready, p),
                 !.blocked[p] = IF k.blocked[p] > 0 THEN k.blocked[p] - 1 ELSE 0]

\* Mutant: a queue with one process left is taken for an empty one.
enqueue_next_process_short(k) ==
  IF Len(k.ready) <= 1 THEN panic([k EXCEPT !.current = NULL])
  ELSE LET p == dequeue_value(k.ready)
       IN [k EXCEPT !.ready = dequeue(k.ready),
                    !.current = p,
                    !.status[p] = "RUNNING",
                    !.has_quantum[p] = k.priority[p]]

enqueue_next_process(k) ==
  IF k.ready = << >> THEN panic([k EXCEPT !.current = NULL])
  ELSE LET p == dequeue_value(k.ready)
       IN [k EXCEPT !.ready = dequeue(k.ready),
                    !.current = p,
                    !.status[p] = "RUNNING",
                    !.has_quantum[p] = k.priority[p]]

\* Mutant: the quantum is not decremented.
use_quantum_never(k) == k

\* One quantum unit of the running process is used up.
use_quantum(k) ==
  [k EXCEPT !.has_quantum[k.current] =
              IF k.has_quantum[k.current] > 0
              THEN k.has_quantum[k.current] - 1 ELSE 0]

\* The running process has no quantum left: back to the ready queue unless it
\* blocked or died, then the next one runs.
switch(k) ==
  enqueue_next_process(
    IF k.status[k.current] \in {"BLOCKED", "ZOMBIE", "FREE"} THEN k
    ELSE proc_ready(k, k.current))

\* Nobody else is ready.
keep_running(k) ==
  IF k.current = NULL THEN panic(k)
  ELSE IF k.status[k.current] # "RUNNING" THEN panic(k)
  ELSE [k EXCEPT !.has_quantum[k.current] = k.priority[k.current]]

schedule(k) ==
  IF k.ready = << >> THEN keep_running(k)
  ELSE IF k.current = NULL THEN enqueue_next_process(k)
  ELSE LET used == use_quantum(k)
       IN IF used.has_quantum[k.current] = 0 THEN switch(used) ELSE used

-----------------------------------------------------------------------------
unblock_process_by_pid(k, p) ==
  IF k.status[p] = "BLOCKED" THEN proc_ready(k, p) ELSE k

\* Mutant: the walk ends the sleep of nobody but the first one of the queue.
timer_handler_first(k) ==
  IF k.sleepers = << >> THEN k
  ELSE LET first == [Head(k.sleepers) EXCEPT !.left = @ - 1]
       IN IF first.left > 0 THEN [k EXCEPT !.sleepers[1] = first]
          ELSE [unblock_process_by_pid(k, first.pid) EXCEPT !.sleepers = << >>]

\* timer_handler: every sleeper has one tick less to wait; those whose time
\* has come are unblocked by pid, in queue order, and leave the queue.
timer_handler(k) ==
  IF k.sleepers = << >> THEN k
  ELSE LET counted == [i \in DOMAIN k.sleepers |->
                         [k.sleepers[i] EXCEPT !.left = @ - 1]]
           due(s) == s.left <= 0
           wake(st, s) == IF due(s) THEN unblock_process_by_pid(st, s.pid) ELSE st
       IN [Seqs!FoldLeft(wake, k, counted)
             EXCEPT !.sleepers = SelectSeq(counted, LAMBDA s : ~ due(s))]

\* int 20h, raised by the PIT and by call_timer_tick alike.
timer_interrupt(k) == schedule(timer_handler(k))

\* Without a running process the 0 is written through a null pointer, to a byte of
\* the interrupt table that is 0 already (gate 15h), and the interrupt follows.
yield(k) ==
  timer_interrupt(IF k.current = NULL THEN k
                  ELSE [k EXCEPT !.has_quantum[k.current] = 0])

\* Mutant: the process stays in the ready queue.
mark_blocked_queued(k, p, reason, resource) ==
  [k EXCEPT !.status[p] = "BLOCKED",
            !.block_reason[p] = reason,
            !.waiting_on[p] = resource,
            !.blocked[p] = k.blocked[p] + 1]

mark_blocked(k, p, reason, resource) ==
  [k EXCEPT !.status[p] = "BLOCKED",
            !.block_reason[p] = reason,
            !.waiting_on[p] = resource,
            !.ready = queue_remove(k.ready, p),
            !.blocked[p] = k.blocked[p] + 1]

block(k, p, reason, resource) ==
  LET marked == mark_blocked(k, p, reason, resource)
  IN IF k.current = p THEN yield(marked) ELSE marked

block_current(k, reason, resource) ==
  IF k.current = NULL THEN k ELSE block(k, k.current, reason, resource)

block_process_by_pid(k, p) ==
  IF k.status[p] \in {"FREE", "ZOMBIE", "BLOCKED"} THEN k
  ELSE block(k, p, "ARBITRARY", "null")

sched_rm_current(k) == [k EXCEPT !.current = NULL]
=============================================================================
