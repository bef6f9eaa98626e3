------------------------------ MODULE Process -------------------------------
(***************************************************************************)
(* Kernel/proc/process.c, and set_foreground_process of Kernel/drivers/    *)
(* tty.c, as operators on the kernel state of module Scheduler.            *)
(*                                                                         *)
(* A PCB is identified by its pid: process_table maps pids to PCBs one to  *)
(* one, and a slot is "FREE" when its entry is null.  The fields of a free *)
(* slot have the values proc_new gives a fresh PCB (memset 0).  The        *)
(* allocations of a PCB, of its stack and of queue nodes succeed.          *)
(***************************************************************************)
EXTENDS Scheduler

\* The processes in process_table, and those of them that wait to be reaped.
Alive(k) == {p \in Pids : k.status[p] # "FREE"}

Zombies(k) == {p \in Pids : k.status[p] = "ZOMBIE"}

Least(S) == CHOOSE i \in S : \A j \in S : i <= j

\* proc_pid_alloc: the first free slot.
proc_pid_alloc(k) ==
  IF Alive(k) = Pids THEN NULL ELSE Least(Pids \ Alive(k))

-----------------------------------------------------------------------------
\* set_foreground_process(proc, caller): caller cedes the terminal to proc.
set_foreground_process(k, proc, caller) ==
  IF proc = NULL THEN k
  ELSE IF proc = 1 THEN [k EXCEPT !.foreground = 1, !.mode[1] = "FG"]
  ELSE IF caller = NULL THEN k
  ELSE IF k.mode[caller] # "FG" THEN k
  ELSE [k EXCEPT !.mode[caller] = "BG",
                 !.mode[proc] = "FG",
                 !.foreground = proc]

-----------------------------------------------------------------------------
\* The PCB that proc_new allocates and proc_init fills in; the caller is the
\* parent.  A parent with a full child list does not get the child, and that
\* error is ignored by sys_spawn_process.
fill_pcb(k, p, parent) ==
  [k EXCEPT !.parent[p] = parent,
            !.priority[p] = QUANTUM_DEFAULT,
            !.status[p] = "READY",
            !.block_reason[p] = "NONE",
            !.waiting_on[p] = "null"]

add_child(k, parent, p) ==
  IF parent = NULL THEN k
  ELSE IF Len(k.children[parent]) >= MAX_PROCESSES THEN k
  ELSE [k EXCEPT !.children[parent] = Append(k.children[parent], p)]

proc_init(k, p, background) ==
  LET parent == k.current
      ceded == IF background THEN k ELSE set_foreground_process(k, p, parent)
  IN add_child(fill_pcb(ceded, p, parent), parent, p)

\* sys_spawn_process.  process_count is never incremented, so the first guard
\* cannot hold.  When no pid is left proc_init fails, nobody looks at its
\* result, and execv writes the first frame below the null stack pointer.
sys_spawn_process(k, background) ==
  IF k.process_count >= MAX_PROCESSES THEN k
  ELSE LET p == proc_pid_alloc(k)
       IN IF p = NULL THEN fault(k)
          ELSE proc_ready(proc_init(k, p, background), p)

-----------------------------------------------------------------------------
\* proc_reap: the slot is null again, the PCB is freed.
clear_scheduling(k, p) ==
  [k EXCEPT !.status[p] = "FREE",
            !.block_reason[p] = "NONE",
            !.waiting_on[p] = "null",
            !.has_quantum[p] = 0,
            !.priority[p] = QUANTUM_DEFAULT]

proc_reap(k, p) ==
  [clear_scheduling(k, p) EXCEPT
     !.mode[p] = "BG",
     !.parent[p] = NULL,
     !.children[p] = << >>,
     !.waitpid[p] = NoWait,
     !.process_count = k.process_count - 1]

\* reparent_to_init for every child of p still in the table, in list order.
\* Once the list of init is full a child gets no parent at all.
\* All of them are, unless p is a zombie that is killed again.
orphans(k, p) ==
  LET list == k.children[p]
  IN IF \A i \in 1..Len(list) : list[i] \in Alive(k) THEN list
     ELSE SelectSeq(list, LAMBDA c : c \in Alive(k))

\* Mutant: the orphans join the list of init and keep their parent pointer.
reparent_children_one_way(k, p) ==
  [k EXCEPT !.children[1] = k.children[1] \o orphans(k, p)]

reparent_children(k, p) ==
  LET new    == orphans(k, p)
      list   == k.children[1] \o new
      turned_away(c) == \E i \in (MAX_PROCESSES + 1)..Len(list) : list[i] = c
  IN [k EXCEPT
        !.children[1] = IF Len(list) <= MAX_PROCESSES THEN list
                        ELSE SubSeq(list, 1, MAX_PROCESSES),
        !.parent = [c \in Pids |-> IF ~ InQueue(new, c) THEN k.parent[c]
                                   ELSE IF turned_away(c) THEN NULL ELSE 1]]

\* Mutant: the terminal is not given back.
stop_keeps_terminal(k, p) ==
  LET off == IF k.status[p] = "RUNNING" THEN sched_rm_current(k) ELSE k
  IN [off EXCEPT !.ready = IF k.waiting_on[p] = "ready"
                           THEN queue_remove(k.ready, p) ELSE k.ready,
                 !.status[p] = "ZOMBIE",
                 !.waitpid[p] = NoWait]

\* The first half of proc_kill: the terminal goes back to the parent, and the
\* scheduler forgets the process, if pcb.waiting_on is a queue that holds it.
stop(k, p) ==
  LET ceded == set_foreground_process(k, k.parent[p], p)
      off   == IF k.status[p] = "RUNNING" THEN sched_rm_current(ceded) ELSE ceded
  IN [off EXCEPT !.ready = IF k.waiting_on[p] = "ready"
                           THEN queue_remove(k.ready, p) ELSE k.ready,
                 !.status[p] = "ZOMBIE",
                 !.waitpid[p] = NoWait]

\* Mutant: nobody wakes the parent.
bury_silently(k, p) ==
  LET left == reparent_children(k, p)
  IN IF left.parent[p] = NULL THEN proc_reap(left, p) ELSE left

\* Mutant: the dead children of the dead process are reaped with it.
bury_with_children(k, p) ==
  LET dead   == SelectSeq(k.children[p], LAMBDA c : c \in Zombies(k))
      left   == reparent_children(Seqs!FoldLeft(proc_reap, k, dead), p)
      parent == left.parent[p]
  IN IF parent = NULL THEN proc_reap(left, p)
     ELSE IF left.status[parent] = "BLOCKED" /\ left.block_reason[parent] = "CHILD"
          THEN proc_ready(left, parent)
          ELSE left

\* The second half: orphans go to init, a parent inside wait_pid is woken, a
\* process without parent is reaped at once.
bury(k, p) ==
  LET left   == reparent_children(k, p)
      parent == left.parent[p]
  IN IF parent = NULL THEN proc_reap(left, p)
     ELSE IF left.status[parent] = "BLOCKED" /\ left.block_reason[parent] = "CHILD"
          THEN proc_ready(left, parent)
          ELSE left

proc_kill(k, p) ==
  IF p \in {NULL, 0, 1} THEN k ELSE bury(stop(k, p), p)

-----------------------------------------------------------------------------
\* The child that one pass of wait_pid's loop collects, as an index of the
\* list of children of p: the first zombie, or the first entry equal to pid if
\* that is a zombie; 0 if there is none.
collectable(k, p, pid) ==
  LET list == k.children[p]
      hits == {i \in 1..Len(list) : pid = WAIT_ANY \/ list[i] = pid}
      dead == {i \in hits : list[i] \in Zombies(k)}
  IN IF dead = {} THEN 0 ELSE Least(dead)

\* wait_pid(pid) gives up when pid is not a child (any more).
hopeless(k, p, pid) ==
  /\ pid # WAIT_ANY
  /\ ~ \E i \in 1..Len(k.children[p]) : k.children[p][i] = pid /\ pid \in Alive(k)

\* The entries after the i-th one move up.
close_gap(list, i) ==
  [j \in 1..(Len(list) - 1) |-> IF j < i THEN list[j] ELSE list[j + 1]]

\* One pass of the loop of wait_pid, run by the current process.
wait_pass(k) ==
  LET p   == k.current
      pid == k.waitpid[p]
      i   == collectable(k, p, pid)
      returned == [k EXCEPT !.waitpid[p] = NoWait]
  IN IF hopeless(k, p, pid) THEN returned
     ELSE IF i = 0 THEN block_current(k, "CHILD", "null")
     ELSE [proc_reap(returned, k.children[p][i])
             EXCEPT !.children[p] = close_gap(k.children[p], i)]

wait_pid(k, pid) ==
  IF k.children[k.current] = << >> THEN k
  ELSE wait_pass([k EXCEPT !.waitpid[k.current] = pid])

-----------------------------------------------------------------------------
\* Mutant: the new priority is not checked.
change_priority_unchecked(k, child, new_priority) ==
  IF child \in Alive(k) /\ k.parent[child] = k.current
  THEN [k EXCEPT !.priority[child] = new_priority,
                 !.has_quantum[child] = new_priority]
  ELSE k

\* change_priority, called with the argument of sys_change_priority cast to
\* uint8_t.  Only the parent may do it.
change_priority(k, child, new_priority) ==
  IF child \in Alive(k) /\ k.parent[child] = k.current /\ new_priority \in Priorities
  THEN [k EXCEPT !.priority[child] = new_priority,
                 !.has_quantum[child] = new_priority]
  ELSE k
=============================================================================
