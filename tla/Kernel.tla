------------------------------- MODULE Kernel -------------------------------
(***************************************************************************)
(* Process management of the kernel as a state machine: one action per     *)
(* system call (Kernel/interrupts/syscall_dispatcher.c) or interrupt.      *)
(*                                                                         *)
(* There is one CPU, and handlers run with interrupts disabled, so an      *)
(* action is a whole handler.  The exception is a handler that blocks: the *)
(* switch inside block() ends the action, and what the call does when its  *)
(* process runs again is the action Resume, with interrupts still off.     *)
(*                                                                         *)
(* The programs (pids 2..) are arbitrary: they issue any call of the set   *)
(* Calls in any order.  idle (pid 0) only halts; init (pid 1) runs         *)
(* init_main.  k.current = NULL means that the code of a process that has  *)
(* just been killed keeps the CPU until the next timer interrupt.          *)
(***************************************************************************)
EXTENDS Process

CONSTANTS
  Calls,         \* the system calls the programs use
  Killable,      \* the statuses of the processes they kill
  PriorityArgs,  \* the values they pass to change_priority
  MaxReaps       \* bound: no process is created after that many were reaped

ASSUME KernelAssumption ==
  /\ Killable \subseteq Statuses \ {"FREE"}
  /\ PriorityArgs \subseteq Int
  /\ MaxReaps \in Nat

VARIABLE k

-----------------------------------------------------------------------------
\* kernel.c: main() spawns idle and init, then raises the first timer
\* interrupt.  It passes no "background" argument: what init gets is whatever
\* the register save area holds.
PowerOn ==
  [status       |-> [p \in Pids |-> "FREE"],
   block_reason |-> [p \in Pids |-> "NONE"],
   waiting_on   |-> [p \in Pids |-> "null"],
   has_quantum  |-> [p \in Pids |-> 0],
   priority     |-> [p \in Pids |-> QUANTUM_DEFAULT],
   mode         |-> [p \in Pids |-> "BG"],
   parent       |-> [p \in Pids |-> NULL],
   children     |-> [p \in Pids |-> << >>],
   waitpid      |-> [p \in Pids |-> NoWait],
   ready |-> << >>, current |-> NULL, blocked |-> [p \in Pids |-> 0],
   sleepers |-> << >>, foreground |-> NULL, process_count |-> 0,
   shell_pid |-> NULL, machine |-> "up"]

main(background) ==
  timer_interrupt(sys_spawn_process(sys_spawn_process(PowerOn, TRUE), background))

Init == \E background \in BOOLEAN : k = main(background)

-----------------------------------------------------------------------------
\* Interrupts are enabled: the CPU runs the code of a process.
UserMode ==
  /\ k.machine = "up"
  /\ k.current # NULL => k.waitpid[k.current] = NoWait

\* A program (or what is left of one) makes a call.
Program(call) == UserMode /\ k.current \notin {0, 1} /\ call \in Calls

MayCreate == k.process_count > - MaxReaps

\* The PIT interrupt.
Tick == UserMode /\ k' = timer_interrupt(k)

Yield == Program("yield") /\ k' = yield(k)

Spawn ==
  /\ Program("spawn") /\ MayCreate
  /\ \E background \in BOOLEAN : k' = sys_spawn_process(k, background)

\* Also what proc_wrapper does when the main function of a program returns.
Exit == Program("exit") /\ k' = timer_interrupt(proc_kill(k, k.current))

Kill ==
  /\ Program("kill")
  /\ \E p \in Pids \ {0, 1} : k.status[p] \in Killable /\ k' = proc_kill(k, p)

\* The keyboard interrupt for Ctrl-C: handle_ctrl_c, signal_kill_tty.
CtrlC ==
  /\ UserMode /\ "ctrl_c" \in Calls
  /\ k.foreground \notin {NULL, 0, 1}
  /\ k' = proc_kill(k, k.foreground)

\* programs/block.c refuses pid 0; test_processes and test_prio pass the pids of
\* their own children.
Block ==
  /\ Program("block")
  /\ \E p \in Pids \ {0} : k' = block_process_by_pid(k, p)

Unblock ==
  /\ Program("unblock")
  /\ \E p \in Pids \ {0} : k' = unblock_process_by_pid(k, p)

ChangePriority ==
  /\ Program("nice")
  /\ \E p \in Pids, v \in PriorityArgs : k' = change_priority(k, p, v % 256)

\* Without a running process wait_pid takes its children from a null PCB.
Wait ==
  /\ Program("wait")
  /\ \E pid \in (Pids \ {0, 1}) \cup {WAIT_ANY} :
       k' = IF k.current = NULL THEN fault(k) ELSE wait_pid(k, pid)

-----------------------------------------------------------------------------
\* init_main: start the shell, then collect children until it is the shell.
shell_gone(s) ==
  IF s.waitpid[1] = NoWait /\ ~ InQueue(s.children[1], s.shell_pid)
  THEN [s EXCEPT !.shell_pid = NULL] ELSE s

InitSpawn ==
  /\ UserMode /\ k.current = 1 /\ k.shell_pid = NULL /\ MayCreate
  /\ k' = [sys_spawn_process(k, FALSE) EXCEPT !.shell_pid = proc_pid_alloc(k)]

InitWait ==
  /\ UserMode /\ k.current = 1 /\ k.shell_pid # NULL
  /\ k' = shell_gone(wait_pid(k, WAIT_ANY))

\* The running process (idle makes no calls) was switched to inside wait_pid:
\* another pass of its loop.
Resume ==
  /\ k.machine = "up" /\ k.current \notin {NULL, 0}
  /\ k.waitpid[k.current] # NoWait
  /\ k' = IF k.current = 1 THEN shell_gone(wait_pass(k)) ELSE wait_pass(k)

\* while (1) with interrupts off, or a fault in the kernel.
Halted == k.machine # "up" /\ UNCHANGED k

Next ==
  \/ Tick \/ Yield \/ Spawn \/ Exit \/ Kill \/ CtrlC \/ Block \/ Unblock
  \/ ChangePriority \/ Wait \/ InitSpawn \/ InitWait \/ Resume \/ Halted

Spec == Init /\ [][Next]_k

\* The PIT interrupts for ever and the PIC keeps a pending interrupt, so Tick
\* happens if interrupts are enabled again and again; kernel code progresses.
FairSpec == Spec /\ SF_k(Tick) /\ WF_k(Resume)
=============================================================================
