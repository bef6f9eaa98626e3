# TLA+ verification of the kernel and its user land

The repository is a small 64-bit operating system: a preemptive scheduler for
one CPU, processes with parents and children, a terminal with a foreground
process, semaphores, pipes, a keyboard, a text console, two memory managers, and
a shell with programs. This directory models it in TLA+, checks the models with
TLC and proves theorems about them with TLAPS.

## 1. The system

| component | state | operations | used by |
|---|---|---|---|
| queue (`Kernel/include/ds/queue.h`) | doubly linked list | `enqueue`, `dequeue`, `queue_remove` | everything below |
| scheduler (`proc/scheduler.c`) | `ready_processes`, `blocked_processes`, `current_process`; `status`, `has_quantum`, `priority`, `waiting_on` of every PCB | `proc_ready`, `schedule`, `yield`, `block*`, `unblock*` | interrupts, processes, IPC |
| processes (`proc/process.c`, `proc/exec.c`, `proc/fs.c`) | `process_table`, `process_count`, parent and children, initial stack; table of programs | spawn, kill, exit, reap, wait, change priority | system calls, init, shell |
| terminal (`drivers/tty.c`) | `foreground_process`, `mode` of every PCB | cede the foreground, Ctrl-C, read | spawn, `proc_kill`, keyboard |
| timer (`lib/time_rtc.c`, `asm/interrupts.asm`) | tick counter, queue of sleepers | int 20h: wake sleepers, `schedule`; `usleep` | PIT, `yield`, `block`, `exit` |
| semaphores (`ipc/semaphore.c`) | table of value and queue | create, close, wait, trywait, post | programs (`test_sync`, `phylo`) |
| ring buffer (`include/ds/ringbuf.h`) | array, head, tail | read, write, overwrite, unwrite, find | pipes, keyboard, log |
| pipes, descriptors (`ipc/pipe.c`, `ipc/filedesc.c`) | ring buffer, counts of readers and writers, two queues; `fds` of every PCB | create, open, read, write, close, inherit | processes, shell |
| keyboard (`drivers/keyboardDriver.c`) | line buffer, mode, modifier flags, queue of one reader | key press, read a line, Ctrl-D | terminal |
| console (`drivers/videoDriver.c`) | cursor in pixels, text log with a cursor of its own, size, colours | print, scroll, clear, zoom, change colour | terminal |
| kernel log (`lib/logger.c`) | ring buffer | `printk`, `read_kmsg` | everything |
| memory (`memory/my_mm.c`, `memory/buddy.c`) | block table; free lists | malloc, free, dump | everything |
| init, shell (`core/init.c`, `core/shell.c`) | `shell_pid`; locals of a command or a pipeline | start and restart the shell; prompt, parse, run | user |
| philosophers (`programs/phylo.c`) | states, number, pids, semaphores | take and leave forks, add, remove, quit | user |

How they interact. A system call or an interrupt enters through an interrupt
gate, so a handler runs with interrupts off and nothing preempts it. The
exception is a handler that blocks: `block` raises int 20h, the scheduler
switches away in the middle of the call, and the rest of the handler runs when
the process is scheduled again (`wait_pid`, `pipe_read` and `read_line` test
again in a loop, `my_sem_wait` returns). Processes share the queues of the
scheduler through their PCB; `proc_kill` changes the scheduler, the terminal,
the process tree, the descriptors and the parent in one handler, and finds the
queue to unlink from in `pcb.waiting_on`.

What is hard here: a process that dies while it runs (its code keeps the CPU
with `current_process == NULL`), while it is blocked, or while it waits for a
semaphore; two copies of the process tree and two of the screen; wake-ups that
race with blocking; a terminal that changes hands at every spawn and death;
pipe ends that are counted apart from the descriptors that hold them; ring
buffer indices that wrap late; a dinner table that shrinks while others eat.
`PROJECT.json` lists these hazards with the lines where they bite and the
properties that cover them.

## 2. The modules

Kernel:

* `KQueue`: the queue as a sequence.
* `Scheduler`: `scheduler.c` and the timer interrupt. Every C function is an
  operator from kernel state to kernel state with the name it has in C; a
  handler is a composition of such operators.
* `Process`: `process.c` and `set_foreground_process`, in the same style.
* `Kernel`: the state machine. One variable, the record `k`; one action for
  each system call, the timer (`Tick`), the keyboard's Ctrl-C (`CtrlC`), the
  loop of `init_main` (`InitSpawn`, `InitWait`), and `Resume`, the part of a
  `wait_pid` that runs after a switch.
* `KernelProps`: the properties of `Kernel`. `MCKernel`: its instances.
  `KernelProofs`: proofs, of the scheduler and of the process tree.
* `Sleep`: `usleep`, `sleep` and the timer's queue of sleepers.
* `SemTable`: the table of `semaphore.c` as operators. `Semaphore`: the same
  composed with `Kernel` and `Sleep`. `AbstractSemaphore`: a counter and a set
  of waiters, which `Semaphore` refines. `MCSemaphore`: instances.
  `SemaphoreProofs`: proofs.

Data structures:

* `RingBuf`: `ringbuf.h`. `ByteFifo`: a bounded FIFO. `RingBufProofs`: one
  implements the other. `MCRingBuf`: instance. `KernelLog`: the log on top;
  `ServiceProofs`: proofs about the log, the table of programs and the console.
* `Heap`: what a memory manager promises, a set of disjoint regions.
  `BlockHeap` (`my_mm.c`) and `Buddy` (`buddy.c`) implement it; `MCMemory` runs
  both, `MemoryProofs` proves it of both.

Devices and programs, on top of the kernel:

* `Pipe`: `pipe.c`, `filedesc.c` and the calls on descriptors. Its operators
  work on a record of kernel state, pipes and descriptors. `Shell`: `shell.c`
  as a process between them, one action per system call it makes. `MCShell`.
  `ShellProofs`: proofs about pipes and shell.
* `Keyboard`: `keyboardDriver.c` and the reading side of `tty.c`. `MCKeyboard`.
  `KeyboardProofs`: proofs.
* `Console`: `videoDriver.c`. `MCConsole`. Proofs in `ServiceProofs`.
* `Phylo`: `phylo.c` on `SemTable`. `MCPhylo`. `PhyloProofs`: proofs.
* `Strings`, `Numbers`, `CommandLine`, `Format`, `Programs`: the functions
  without behaviour over time (string functions, conversions, the shell's
  parser and the stack of a new process, `printf` and `printk`, the table of
  programs). `Library`, `MCLibrary`: one specification that enumerates their
  inputs, and the definitions they are compared with.

Definitions that start with "Mutant" in their comment, and variants named after
the definition below them (`X_hasty`, `X_silent`, ...), are faulty versions of
it; no specification uses them. They show that each property depends on the
code it is about.

### Correspondence and abstractions

* A PCB is identified with its slot in `process_table`. A free slot has the
  field values `proc_new` gives a new PCB, so freeing loses nothing the code
  reads later. That a killed process' code runs on a freed stack for a while is
  modelled; that the stack could be handed out again in that time is not.
* `blocked_processes` is a multiset (a function to counts): nothing reads its
  order, and the code can put a process in twice.
* Sleepers store the ticks left, not the absolute tick. `timer_handler` frees
  the entry it stands on and reads its `next` afterwards; `kmm_free` does not
  clear memory, so the walk goes on, as in the model.
* `k.current = NULL` is the time between the death of the running process and
  the next int 20h, in which its code still runs ("ghost"). A ghost may make
  any call: `yield` and `exit` reduce to the timer interrupt (the 0 that `yield`
  first writes through the null pointer, `scheduler.c:107`, falls with the
  layout of `pcb.h` on a byte of gate 15h of the interrupt table, which lies at
  address 0, and is 0 there already), `wait` follows
  a null PCB (`k.machine = "fault"`), and `change_priority` succeeds on
  processes without parent, as in C (`parent != get_running()` with both null).
* `main` in `kernel.c` passes no `background` argument to the spawn of init;
  `Init` has both outcomes. The runs of the shell and the keyboard take the one
  that gives init the terminal; after the other nobody can read.
* `process_count` starts at 0, is decremented by `proc_reap` and never
  incremented. It falls without bound; `MaxReaps` stops the creation of
  processes after that many reaps, and only that.
* The programs (pids from 2 on) make any call of the constant `Calls` at any
  time. Restrictions: `Block` and `Unblock` leave out pid 0 (`programs/block.c`
  refuses it, and `test_processes.c` and `test_prio.c` block and unblock their
  own children); `Killable` gives the statuses of the processes
  that are killed.
* `change_priority` gets its argument modulo 256, the cast to `priority_t`.
* Memory allocation inside the kernel succeeds. Register contents, names and
  exit codes are left out.
* The spin locks of semaphores and pipes are never contended, on one CPU with
  interrupts off, and are left out. When `proc_kill` runs `queue_remove` on
  `pcb.waiting_on` for a process that waits for a semaphore, the pointer is
  to a `semaphore_t`; the field it takes for the list head is null, and
  nothing is removed.
* In `Semaphore` the programs keep the discipline of `test_sync`: they post
  only what they waited for, do not wait twice for the same semaphore, and
  close one that nobody uses. Ghosts make no semaphore calls.
* In `RingBuf` a step is one turn of a loop, one byte. The calls run with
  interrupts off, so their intermediate states are seen by nobody, but the
  properties hold in them too.
* In `Pipe` every pipe has the one name the shell uses. A freed entry of
  `pipes_table` is never reused and keeps being read; the model assumes that
  `in_use` stays false there. Bytes are numbered as they are accepted.
* In `Shell` the line that is typed is what it asks for (`Commands`): a
  command in the foreground or background, a pipeline, a pipeline with a name
  that is no program. The parser is `CommandLine`.
* In `Keyboard` a key is what its scan code does; printable bytes are one
  value. Any program may change the mode at any time, as `sys_set_canonical`
  lets it: `phylo &` does so while the shell waits for a line. In `Console` a cell of the screen is one value, and lengths are
  counted in characters of size 1. `aligned` is a ghost that falls at the two
  steps named in section 6.
* In `Phylo` the scheduler is any interleaving between system calls, and the
  code between wait and post of the table's semaphore is one step. A killed
  philosopher stays in the queue of that semaphore, and its pid in the queue of
  sleepers. In C a post makes it READY and it runs on, through its freed PCB, in
  `take_pedals` or `leave_pedals`; and a philosopher that is created with its pid
  can be woken by the old entry, which in the end lets it past a semaphore. What
  happens to the table after that is not modelled. The ghost `stuck` becomes TRUE
  at that post, and at the creation of a philosopher after one was killed in its
  sleep (`overslept`; or does not, when the entry has run out by then), and also
  when `new_phylo` returns with the table held. The properties of `Phylo` speak of
  the time before. Entries that other programs left behind are not considered.
* Numbers have `INT_BITS` bits and wrap around; addresses and pointers of the
  stack built by `execv` take `POINTER` cells.

## 3. The runs

| run | instance | shows |
|---|---|---|
| `kernel` | 5 slots (idle, init, 3 programs), all calls but those for priorities and sleeping, one pid reused; 1 million states | `SchedulerConsistent`: ready queue, status and current process agree; `NeverPanics`; `FamilyConsistent`: parents and child lists are inverse; `NoLostChildWakeup`; `ReapedByParent` |
| `kernel_live` | 4 slots, priorities 1 and 2, without the block call, which may stop a process for ever | `TypeOK`; `ReadyRuns`: no starvation; `WaitReturns`: a wait for a dead child returns |
| `semaphore` | 3 programs, one binary semaphore, created and closed | `MutualExclusion`, `WaitersQueued`, and the refinement `ImplementsSemaphore` (no post is lost, none counts twice) |
| `semaphore_live` | the same, programs sleep and do not exit | `WaiterServed`: the queue is fair; `SleeperWakes` |
| `ring` | 4 slots, 2 bytes, as a pipe uses it | `IsFifo`: the buffer implements `ByteFifo` |
| `memory` | 6 blocks of 2 bytes; buddy orders 3 to 6 with requests at the edges of a block | `SimpleAccounts`, `BuddyPartition` (every byte is in exactly one free or held block), `BuddyNoFragments` (free buddies never stay apart), both implement `Heap` |
| `pipeline` | shell and two programs, a pipe of 3 bytes, one slot for pipes, Ctrl-C | `PipeCounts`, `NoDangling`, `PipeFifo`, `NoLostPipeWakeup`, `ShellHasTerminal`, `PipelineFinishes` |
| `keyboard` | a buffer of 5 bytes, a reader's buffer of 2, two kinds of user, mode changes by any program, two reaps, so that a second shell starts while a reader waits; 4.1 million states | `KeyboardLines`: the reader gets the lines as edited; `TerminalWaiter`; `NoLostLine` |
| `console` | 8 x 8 cells, 7 characters, all sizes; 1.4 million states | `DrawsInside`; `ScreenShowsLog` |
| `phylo` | 3 to 4 philosophers, 2 keys, so that one joins and leaves, or the program quits, a spawn that may fail | `NeighboursExclusive`, `NeverForgotten`, `QuitEnds` |
| `library` | all texts up to 5 characters over two alphabets, numbers to 300, 3 programs, a log of 4 bytes | `WordsParsed`, `ArgumentsOnStack`, `CountsIndependentOfReads`, `NumbersReadBack`, `FormatsStayInside`, `ProgramsAreMap`, `LogIsSuffix` |
| `semaphore_kill` | a waiter is killed | `DeadStayDead` does not hold: post makes a dead waiter READY (see `findings`) |

Preconditions of the passing runs, each because of an observation in section 6:
in `kernel` no zombie is killed; in the semaphore runs nobody kills or unblocks
a waiter or a sleeper, and who sleeps does so for two ticks or more; in `pipeline` the shell has no children when it is
interrupted and every command is a program; in `keyboard` Ctrl-D comes at the
start of a line, and who edits does not go round the buffer; in `phylo`
the properties hold until `stuck`; in `memory` a
request to the block table has between 1 byte and the size of the heap; in
`library` a format does not end in the middle of a directive.

Bounds. Three programs make a parent, a child and a grandchild possible, or two
waiters and a holder; `MaxReaps` lets the pid of the first process that is
reaped be used again, which makes stale pids visible. Two quantum values tell a
process with quantum left from one without. Four ring slots allow every
relative position of head and tail, equal to SIZE included; a pipe of 3 bytes
and 4 bytes in writes of 2 make it full, empty and wrapped. One slot for pipes
makes the table full at the second pipeline. The keyboard's first user starts
two bytes before the end of the buffer, so lines and Ctrl-D lie across the
wrap. Four orders of blocks allow three splits and merges in a row. A screen of
8 cells has lines of 8, 4 and 2 characters for the three sizes, so seven
characters wrap and scroll at the largest one. Three philosophers are all
neighbours of one another, four are not; liveness keeps the keys at two, and
`NeighboursExclusive`, which the proofs show for every number of keys, also holds
in TLC with four, when a philosopher joins again after one left (`MaxKeys = 4`,
`PhyloSpec`, 1.2 million states).

Deadlock is checked except in `console`, `phylo` and `library`, which end when
the characters are printed, the program quit, the inputs enumerated. A machine
that panicked or faulted stutters (`Halted`).

Fairness. The PIT interrupts for ever and the PIC holds a pending interrupt
until interrupts are enabled: strong fairness of `Tick` (`TimerTick`,
`PipeTick`). Kernel code inside a call goes on when its process runs: weak
fairness of `Resume`. In `semaphore_live` a process that holds the semaphore
and keeps getting the CPU posts it, as the loops of `test_sync` and `phylo` do.
In `pipeline` whoever gets the CPU again and again makes its next step, a
program that reads a pipe reads on to its end (`cat`, `wc`, `filter`), and
nothing is assumed of the user or of how much is written. In `phylo` every
process that is not blocked moves on, which `ReadyRuns` shows of the scheduler;
the user need not press a key.

## 4. The proofs

All for arbitrary constants that satisfy the named assumptions.

* `KernelProofs!Invariance`: `Inv(k)` is an inductive invariant of `Kernel`.
  `SchedulerConsistent` alone is not inductive: `proc_kill` unlinks a READY
  process only if its `waiting_on` is the ready queue, so `Inv` says that it
  is; `schedule` finds something to run because idle is READY or RUNNING, so
  `Inv` says that too. `Inv` is a predicate on a kernel state instead of on
  the variable, so that it, or its weaker form `Switching`, can be stated of the
  states between two C functions of one handler: there is one lemma for each
  C function, and `NextLemma` combines them, one case per action.
  `TypeCorrect`, `Consistency` (`SchedulerConsistent`) and `PanicFree`
  (`NeverPanics`) follow. Assumed: at least two slots, positive quanta,
  killable statuses other than "FREE" (zombies included), integer priorities.
* `KernelProofs!FamilyInvariance`: `Family(k)` is inductive together with
  `Inv(k)`. `Kin`: for a living parent its list and the parent fields are
  inverse, lists have no repetition, nobody has a dead parent, and who has the
  terminal is alive. `Root`: init lives and has no parent. `WaitCalls`: who is
  blocked in `wait_pid` has the child it waits for, and none to collect.
  `FamilyConsistent` alone is not inductive: the list of a zombie is stale
  (`reparent_children` does not clear it), and a ghost can spawn processes
  without a parent. None of these nor their descendants may ever have the
  terminal, or it would be left with the dead; `Detached` is the set of them.
  `FamilyAgrees` (`FamilyConsistent`), `NoChildMissed` (`NoLostChildWakeup`),
  `KernelTypes` (`TypeOK`; a list of distinct processes never outgrows its
  array) and the action property `ReapingIsParental` (`ReapedByParent`)
  follow. Hypothesis: no zombie is killed again (`"ZOMBIE" \notin Killable`);
  section 6 says what happens otherwise. The last section of the module is
  about waits for semaphores, pipes and the terminal, for the modules that
  build on the kernel: `NextWaits` says that under `Orderly` (programs neither
  kill nor unblock a blocked process, the kernel model itself has no Ctrl-C,
  and nobody sleeps) no call of the kernel starts or ends one.
* `SemaphoreProofs!SemInvariance`: `SemInv` is inductive: the kernel's
  invariants, and queue, value and users of every semaphore account for its
  units. `MutualExclusion` speaks of the processes that hold a semaphore, those
  not blocked; with several semaphores that is not inductive, since a holder of
  one may wait for another, so `SemInv` bounds `Admitted`, which counts it.
  `QueuesAgree` (`WaitersQueued`), `AdmitsNoMore` (`MutualExclusion`) and, for
  a single semaphore, the refinement `SemaphoreRefines`
  (`ImplementsSemaphore`) follow. Hypothesis `Orderly`, of which the
  part about killing is needed, as the run `semaphore_kill` shows.
* `PhyloProofs!PhyloInvariance`: as long as `stuck` is FALSE, `PhyloInv` holds,
  for every table size and number of keys, with or without failures of spawn.
  The condition is part of the theorem: from the post on that makes a killed
  philosopher READY the model does not follow the program. `Seats`: who is in a
  queue sleeps there, once, or was killed there; `phylo_states` follows from
  where a philosopher is in its loop; a unit of its own semaphore is a turn it
  has not taken. `Seated`: neighbours do not eat together and the philosophers
  are those below `phylos_count`; while `remove_all` clears the table, when the
  first need not hold, they are those from its index on. `NeighboursExclusive` alone is not inductive: a
  philosopher that is told to eat by its neighbour's `leave_pedals` must be one
  that still waits, a post to the table must wake somebody who waits for it
  and not somebody removed, and the one that is added or removed changes who
  its neighbours are. `NeighboursNeverMeet` (`NeighboursExclusive`, with the same
  condition) follows.
* `KeyboardProofs!KeyboardInvariance`: `KbInv` is inductive: the kernel's
  invariants; the queue of the driver holds at most one process, exactly the
  one that is blocked for the terminal; and its `pcb.waiting_on` names that
  queue. `TerminalWaiter` alone is not inductive, since without the last part
  `proc_kill` would leave the reader in the queue when Ctrl-C kills it. For
  every buffer size, every user and every number of processes; hypothesis
  `Orderly` for the programs, while the Ctrl-C of the keyboard may kill
  whoever has the terminal, the waiting reader included. `OneReaderWaits`
  (`TerminalWaiter`) follows.
* `KeyboardProofs!LineInvariance`: `LineInv` is inductive: the ring buffer
  satisfies `RingInv` and holds the bytes that were typed and not read; the
  length the driver keeps is at least that of the line, and equal to it for a
  user who edits. `KeyboardLines` alone is not inductive: a backspace is allowed
  as long as `current_line_len` is positive, and the driver counts bytes there
  that found no room. Hypothesis `Discreet`, one part for each observation of
  section 6: Ctrl-D ends no line that has begun, and who uses the backspace stays
  in front of the end of the buffer (lines that are not edited may go round it).
  Nothing is assumed of the programs. `LinesAsTyped` (`KeyboardLines`) and
  `NoLineMissed` (`NoLostLine`: nobody waits while the end of a line is in the
  buffer, in both modes and whoever changes the mode) follow. For bytes that end
  no line there is no such property: in raw mode a tab wakes nobody, and a change
  to raw mode wakes nobody either (section 6).
* `ShellProofs!PipeInvariance`: `PipeInv` is inductive, without hypotheses: the
  kernel's invariants; the counts of a pipe are the numbers of descriptors that
  hold its ends; its ring buffer satisfies `RingInv` and holds the bytes between
  `received` and `sent`; who is in the queue of a pipe is blocked there, once;
  and the dead hold no descriptor and are in no call. `PipeCounts` alone is not
  inductive: `proc_kill` closes what the descriptors of the dying process say,
  so the rest of the kernel must leave those of the dead empty. `EndsCounted`
  (`PipeCounts`) and `BytesInOrder` (`PipeFifo`) follow, for every pipe size, size
  of a call, number of processes and set of commands, typing errors included.
* `ShellProofs!PipelineInvariance`: `PipelineInv` says in addition, for every
  place in the code of a pipeline, which ends the shell and its two children
  hold, and that a sleeping reader has an empty pipe with a writer. `NoEndDangles`
  (`NoDangling`) and `NoReaderForgotten` (`NoLostPipeWakeup`) follow.
  `sys_pipe_close` frees the pipe whatever its counts say, so `NoDangling` needs
  all of it: that both children were collected when the shell gets there.
  `TerminalInv` adds where the terminal is at each of these places;
  `TerminalComesBack` (`ShellHasTerminal`) follows. Hypothesis `Careful`: no
  name in a pipeline is mistyped and a shell with children is not interrupted;
  both leave ends open or move the terminal, as section 6 says.
* `RingBufProofs!RingSafe`: for a ring of at least two slots that is read and
  written, `RingInv` (at most SIZE - 1 bytes; tail = 0 only with head = 0) is
  inductive and implies that the two tests for emptiness agree
  (`EmptyIsEmpty`). The second part is what `ringbuf_unwrite` breaks.
  `RingImplementsFifo`: such a ring implements `ByteFifo` under the mapping
  `Contents` (`IsFifo`). `StoreLemma`, `ReadLemma` and `UnwriteLemma` say what
  one store, one read and one unwrite in front of the end of the buffer do to
  the contents; pipes and keyboard use them.
* `ServiceProofs`: `LogInv` (head never leaves 0, and the bytes in front of tail
  are the last that were logged) gives `LogShowsEnd` (`LogIsSuffix`).
  `ProgramsInv` (no name is in the table twice, and the table holds what was
  loaded) gives `ProgramsFound` (`ProgramsAreMap`), which alone is not
  inductive: `fs_rm` takes out one entry, and a second one of that name would
  come to light. `ConInv` (both cursors are on the screen or at the place behind
  its last character, and nothing was drawn outside) gives `NothingDrawnOutside`
  (`DrawsInside`). `DrawsInside` says nothing of the cursor in pixels and is not
  inductive; and `scroll_down` draws without looking for the end of the screen,
  so the proof counts cells (`AtCell`): the lines it draws have at most
  width times height characters. For every size of the screen, the log and the
  table.
* `MemoryProofs!HeapInvariance`: `HeapInv` is inductive for the block
  table: an allocation begins at the one block that carries its count, all its
  blocks are in use, distinct allocations share no block, and every used block
  belongs to one. `SimpleAccounts` is not inductive alone, because `my_kmm_free`
  trusts the count in the table. `FitLemma` says what the first-fit search
  finds, `FreeAgainLemma` that a pointer freed twice meets a count of 0.
  `AccountsAgree` (`SimpleAccounts`) and `BlocksImplementHeap`
  (`SimpleImplementsHeap`: every step of the table is a step of `Heap` or none)
  follow, for every block size, number of blocks and set of request sizes that
  the assumptions allow.
* `MemoryProofs!BuddyInvariance`: `BuddyOK` is inductive for `buddy.c`. The
  blocks in the lists and in use tile the heap (`Tiles`: every byte is in one of
  them and in no other); a block in a list has the header of a free block of
  that order, a block in use that of a used one; every other header is free or
  overwritten (`Stale`, why freeing a pointer again changes nothing); and no
  block is in a list whose buddy is in it too (`Whole`). None of the three
  properties is inductive alone: `free_block` trusts the order in a header that
  lies in memory it gave away. `merged(x, o)` is the block of order o around the
  byte x, and the argument is about these: they nest (`MergedFiner`,
  `MergedCoarser`), two buddies are the halves of one (`BuddyLemma`), and a block
  with the halves cut off around it fills the block it came from (`ChainFills`,
  `ChainApart`), so that cutting (`Divided`) and merging (`Joined`) keep the
  tiling. `MallocStep` and `FreeStep` are the two steps. It gives
  `BuddyRefinesHeap` (`BuddyImplementsHeap`), `BuddyMergesAll`
  (`BuddyNoFragments`: in a piece without a block in use the smallest free block
  would lie beside its free buddy, `FreePiece`) and `BuddyPartitions`
  (`BuddyPartition`; its last part counts the places of the blocks, list by list
  as `buddy_kmm_mem_info` does, `FreeBytesIs`). For every `MIN_ORDER` and
  `MAX_ORDER`, every header smaller than the smallest block and every set of
  request sizes.

The loops of the code are recursive functions in these modules. What they
compute is proved with a set in place of the formula of an induction (`NatSet`:
a set of naturals with 0 and closed under successor has them all, from the
well-foundedness theorem of the library).

Only model-checked: liveness and fairness; `ScreenShowsLog`; everything that reaches the recursive operators of
`Library` (`WordsParsed`, `ArgumentsOnStack`, `CountsIndependentOfReads`,
`NumbersReadBack`, `FormatsStayInside`).

## 5. Not modelled

* Boot loader, BMFS, tool chain, module loader, the unit-test framework: third
  party or build time.
* Sound, fonts, the VGA console `naiveConsole.c`, the exception handlers and the
  reading of the clock: device output and input without state the rest depends
  on.
* Of the user land: `to_lower`, the pseudo-random generator, the text the
  commands print, and `ps`, `nice`, `block`, `loop`, `lazy`, whose system calls
  are actions of `Kernel` and `Semaphore`.
* Closing a semaphore with waiters in the semaphore runs, and `my_ksem_init`,
  which has no caller.

## 6. Observations

Found while modelling; each is why a run above has a precondition or a property
a condition, unless a run shows it.

* `process.c:47`, `syscall_dispatcher.c:360`: `process_count` is never
  incremented and the result of `proc_init` is ignored. With a full table the
  kernel goes on with a PCB that has no stack.
* `syscall_dispatcher.c:381`: a zombie can be killed again; its list still names
  its former children, and init gets them twice.
* `process.c:363`: a zombie moved to init while init waits wakes nobody; init
  collects it at its next wake-up.
* `process.c:155`: a process killed while it is blocked stays in
  `blocked_processes`; only `queue_remove` looks there.
* `tty.c:40`: a background child of init that dies gives init the terminal of
  the process that has it (after the shell was killed with jobs, `Orphans`).
* `keyboardDriver.c:229`, `syscall_dispatcher.c:506`: any process may change the
  mode, whoever has the terminal and whoever waits. After a change to raw mode a
  reader sleeps on although the half of a line is there, until the next key that
  wakes. `NoLostLine` speaks of lines for this reason.
* `tty.c:40`: a process that is blocked at the terminal loses it when its parent,
  the shell, ends and init starts another.
* `semaphore.c:82`, `:108`, `:59`: post revives a dead waiter (run
  `semaphore_kill`); the unblock call lets a waiter past; closing frees a queue
  with waiters in it.
* `time_rtc.c:46`: a sleeper is known by pid only, and a new process with that
  pid can be woken by the old entry; `:45`: a sleep of one tick, or `sleep(0)`, is
  due in the interrupt that its own block raises, and the process is put into the
  ready queue twice, by `timer_handler` and by `schedule`.
* `ringbuf.h:187`: after the indices wrapped, `ringbuf_unwrite` can leave head
  at SIZE and tail at 0; the buffer counts 0 bytes but does not test as empty.
* `ringbuf.h:129`: the test for a full log is never true. When the log wraps,
  all but its last byte is gone; what is read stays an end of what was written.
* `pipe.c:151`: a full pipe gives a short count instead of blocking the writer;
  `pipe.c:172`: the last reader wakes no writer, which is harmless for that
  reason. `pipe.c:113`: a freed entry of the table is never used again.
* `shell.c:245`: a name that is no program ends a pipeline with both ends left
  open; `shell.c:239`: arguments of piped commands are dropped.
* `keyboardDriver.c:211`: Ctrl-D within a line does not reset its length, and a
  later backspace reaches into the line before; `:188`: a full buffer refuses
  the newline too; `:178`: a tab in raw mode does not wake the reader; `:139`:
  an arrow swallows the key after it; `:66`: the rest of a long line is read
  into 128 bytes with a limit of 8192.
* `videoDriver.c:230`: the first scroll that a full line causes does not move
  the top of the log; `:252`: a backspace at column 0 moves log and screen
  apart.
* `my_mm.c:37`: the difference is unsigned, so a request beyond the heap reads
  outside the table; a request of 0 bytes returns a block that is not reserved.
* `phylo.c:127`: a philosopher killed while it waits for the table stays in the
  queue. The post that reaches it makes it READY; it runs on beside a table that
  no longer counts it, and its `leave_pedals` can give a turn next to one who
  eats. `:100`: a failed create returns with the table held; `:140`: `remove_all`
  removes from index 0, so neighbours are computed modulo a number that no
  longer covers the rest. With four at the table two neighbours can take turns
  so that one philosopher never eats.
* `stdLibrary.c:184`, `:206`: a format that ends in `%` or a backslash is read
  past its end; `logger.c:123`: `%lu` is not known; `stdLibrary.c:31`: the
  smallest int prints as `-` in `itoa`; `:254`: `put_hex` prints 15 digits;
  `:237`: the first `get_random` passes a null pointer to the clock call.

## 7. Plan

1. `ScreenShowsLog`: what a scroll draws, cell by cell; `ConInv` and `AtCell` are
   the start of it.
2. `Phylo` composed with `Kernel` and `Sleep`, to follow a philosopher that was
   removed and runs again.
