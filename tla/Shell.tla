------------------------------- MODULE Shell --------------------------------
(***************************************************************************)
(* Userland core/shell.c on top of the kernel and its pipes: the prompt, a *)
(* command in the foreground or in the background, and a pipeline of two   *)
(* commands.  Every system call of the shell is a step; anything may       *)
(* happen between two of them.                                             *)
(*                                                                         *)
(* The line is abstracted to what it asks for (see module Library for the  *)
(* parser), the keyboard to the interrupt that completes a line (module    *)
(* Keyboard).  Ctrl-C kills the foreground process, the shell included.    *)
(***************************************************************************)
EXTENDS Pipe, FiniteSets

CONSTANTS
  Commands,  \* what the user asks for
  Orphans    \* TRUE: the user interrupts the shell also while it has children

ASSUME ShellAssumption == Orphans \in BOOLEAN

VARIABLE shell  \* the locals of shell_main and execute_pipe_commands

shellVars == <<k, pipes, fds, io, shell>>

-----------------------------------------------------------------------------
NewShell ==
  [pc |-> "prompt", command |-> "none",
   read_fd |-> -1, write_fd |-> -1, left |-> NULL, right |-> NULL]

\* The boot that gave init the terminal; after the other one no shell ever
\* gets past its first prompt.
ShellInit ==
  /\ Init /\ k.foreground = 1
  /\ pipes = [i \in 1..MAX_PIPES |-> EmptySlot]
  /\ fds = [p \in Pids |-> [fd \in 0..(FD_MAX - 1) |->
              IF p \in {0, 1} /\ fd <= 2 THEN Terminal ELSE NoFd]]
  /\ io = [p \in Pids |-> NoIo]
  /\ shell = NewShell

me == k.shell_pid

\* The shell runs and is about to make the call pc.
ShellAt(pc) == PipeUserMode /\ k.current # NULL /\ k.current = me /\ shell.pc = pc

GoesTo(pc) == shell' = [shell EXCEPT !.pc = pc]

\* get_input: read_from_keyboard refuses a process that has not got the
\* terminal, and the shell then loops for ever.
Prompt ==
  /\ ShellAt("prompt")
  /\ IF k.foreground = me
     THEN k' = block_current(k, "TERMINAL", "resource") /\ GoesTo("reading")
     ELSE GoesTo("loop") /\ UNCHANGED k
  /\ UNCHANGED <<pipes, fds, io>>

\* The keyboard interrupt that ends the line.
Enter ==
  /\ PipeUserMode /\ MayCreate
  /\ me # NULL /\ shell.pc = "reading" /\ k.status[me] = "BLOCKED"
  /\ \E c \in Commands :
       shell' = [shell EXCEPT !.command = c, !.pc = IF c \in {"fg", "bg"} THEN c ELSE "create"]
  /\ k' = proc_ready(k, me)
  /\ UNCHANGED <<pipes, fds, io>>

\* execute_command.  The shell waits for a foreground command only.
RunForeground ==
  /\ ShellAt("fg")
  /\ Becomes(spawn_default(world, FALSE))
  /\ shell' = [shell EXCEPT !.pc = "wait_right", !.right = proc_pid_alloc(k)]
  /\ UNCHANGED io

RunBackground ==
  /\ ShellAt("bg") /\ GoesTo("prompt")
  /\ Becomes(spawn_default(world, TRUE))
  /\ UNCHANGED io

\* execute_pipe_commands.
Create ==
  /\ ShellAt("create") /\ GoesTo("open_read")
  /\ Becomes(create_pipe(world)) /\ UNCHANGED io

OpenRead ==
  /\ ShellAt("open_read")
  /\ shell' = [shell EXCEPT !.pc = "open_write", !.read_fd = opened_fd(world, me)]
  /\ Becomes(sys_pipe_open(world, me, "readers")) /\ UNCHANGED io

OpenWrite ==
  /\ ShellAt("open_write")
  /\ shell' = [shell EXCEPT !.pc = "spawn_left", !.write_fd = opened_fd(world, me)]
  /\ Becomes(sys_pipe_open(world, me, "writers")) /\ UNCHANGED io

\* When there is no program with that name execute_pipe_commands returns as it
\* is: nothing is closed, and nobody waits for a left program already started.
SpawnLeft ==
  /\ ShellAt("spawn_left") /\ UNCHANGED io
  /\ IF shell.command = "typo_left" THEN GoesTo("prompt") /\ UNCHANGED <<k, pipes, fds>>
     ELSE /\ Becomes(spawn_with(world, <<0, shell.write_fd, -1>>, FALSE))
          /\ shell' = [shell EXCEPT !.pc = "spawn_right", !.left = proc_pid_alloc(k)]

SpawnRight ==
  /\ ShellAt("spawn_right") /\ UNCHANGED io
  /\ IF shell.command = "typo_right" THEN GoesTo("prompt") /\ UNCHANGED <<k, pipes, fds>>
     ELSE /\ Becomes(spawn_with(world, <<shell.read_fd, 1, -1>>, TRUE))
          /\ shell' = [shell EXCEPT !.pc = "close_write", !.right = proc_pid_alloc(k)]

\* Mutant: the shell forgets to close its end.
CloseWrite_forgotten ==
  ShellAt("close_write") /\ GoesTo("close_read") /\ UNCHANGED <<k, pipes, fds, io>>

CloseWrite ==
  /\ ShellAt("close_write") /\ GoesTo("close_read")
  /\ Becomes(sys_close_fd(world, me, shell.write_fd)) /\ UNCHANGED io

CloseRead ==
  /\ ShellAt("close_read") /\ GoesTo("wait_left")
  /\ Becomes(sys_close_fd(world, me, shell.read_fd)) /\ UNCHANGED io

\* Mutant: the shell does not wait for the left program.
WaitLeft_skipped ==
  ShellAt("wait_left") /\ GoesTo("wait_right") /\ UNCHANGED <<k, pipes, fds, io>>

WaitLeft ==
  /\ ShellAt("wait_left") /\ GoesTo("wait_right")
  /\ k' = wait_pid(k, shell.left) /\ UNCHANGED <<pipes, fds, io>>

WaitRight ==
  /\ ShellAt("wait_right")
  /\ GoesTo(IF shell.command = "fg" THEN "prompt" ELSE "pipe_close")
  /\ k' = wait_pid(k, shell.right) /\ UNCHANGED <<pipes, fds, io>>

PipeClose ==
  /\ ShellAt("pipe_close") /\ shell' = NewShell
  /\ Becomes(sys_pipe_close(world)) /\ UNCHANGED io

ShellStep ==
  \/ Prompt \/ RunForeground \/ RunBackground \/ Create \/ OpenRead \/ OpenWrite
  \/ SpawnLeft \/ SpawnRight \/ CloseWrite \/ CloseRead
  \/ WaitLeft \/ WaitRight \/ PipeClose

-----------------------------------------------------------------------------
\* init starts the shell again when it died.
StartShell ==
  /\ PipeUserMode /\ k.current = 1 /\ k.shell_pid = NULL /\ MayCreate
  /\ LET started == spawn_default(world, FALSE)
     IN Becomes([started EXCEPT !.k.shell_pid = proc_pid_alloc(k)])
  /\ shell' = NewShell /\ UNCHANGED io

\* Ctrl-C.
Interrupt ==
  /\ PipeUserMode /\ k.foreground \notin {NULL, 0, 1}
  /\ k.foreground = me => Orphans \/ k.children[me] = << >>
  /\ Killed(k.foreground, LAMBDA s : s)
  /\ UNCHANGED shell

\* The steps of the kernel that concern no pipe.
KernelOnly(step) == step /\ UNCHANGED <<pipes, fds, io, shell>>

PipeTick == PipeUserMode /\ KernelOnly(Tick)

PipeStep ==
  /\ PipeResume \/ \E p \in Pids : PipeRead(p) \/ PipeWrite(p) \/ Return(p) \/ Quit(p)
  /\ UNCHANGED shell

ShellNext ==
  \/ ShellStep \/ Enter \/ StartShell \/ Interrupt \/ PipeStep \/ PipeTick
  \/ KernelOnly(InitWait) \/ KernelOnly(Resume) \/ KernelOnly(Halted)

ShellSpec == ShellInit /\ [][ShellNext]_shellVars

\* Process p has the CPU and goes on: inside the kernel, or with the next call
\* of the shell or of a program that reads its input to the end.
Runs(p) ==
  /\ k.current = p
  /\ \/ KernelOnly(Resume) \/ ShellStep
     \/ (PipeResume \/ PipeRead(p) \/ Return(p)) /\ UNCHANGED shell

\* The timer ticks, and whoever gets the CPU again and again goes on.  Nothing
\* is assumed of the user.
ShellFairSpec ==
  ShellSpec /\ SF_shellVars(PipeTick) /\ \A p \in Pids \ {0} : SF_shellVars(Runs(p))

-----------------------------------------------------------------------------
Descriptors == {<<p, fd>> : p \in Pids, fd \in 0..(FD_MAX - 1)}

\* The descriptors that refer to an end of pipe i.
Holders(i, end) == {d \in Descriptors : fds[d[1]][d[2]] = PipeEnd(i, end)}

\* The counts of a pipe are the descriptors that refer to its ends, over all
\* processes: opening, inheriting at spawn, close_fd and the death of a process
\* at any moment count each end once.
PipeCounts ==
  \A i \in 1..MAX_PIPES :
    pipes[i].table = "used" =>
      /\ pipes[i].readers = Cardinality(Holders(i, "readers"))
      /\ pipes[i].writers = Cardinality(Holders(i, "writers"))

\* No descriptor outlives its pipe: pipe_close at the end of a pipeline, which
\* looks at no count, never frees a pipe that a process still has open.
NoDangling ==
  \A d \in Descriptors :
    LET e == fds[d[1]][d[2]] IN e.type = "PIPE" => pipes[e.pipe].table = "used"

\* A pipe hands out the bytes it accepted, in order, each once, across blocked
\* readers, short counts and the wrap of its buffer.
PipeFifo ==
  \A i \in 1..MAX_PIPES :
    Buf!Contents(pipes[i].ring) =
      [j \in 1..(pipes[i].sent - pipes[i].received) |-> pipes[i].received + j]

\* A reader sleeps only while there is nothing to read and someone could write,
\* and it is in the queue of its pipe: a write or the last close between its
\* test and its block is not lost, whoever dies.
NoLostPipeWakeup ==
  \A p \in Pids :
    k.status[p] = "BLOCKED" /\ k.block_reason[p] = "PIPE_READ" =>
      LET i == io[p].pipe
      IN /\ pipes[i].table = "used" /\ pipes[i].writers > 0 /\ available(world, i) = 0
         /\ InQueue(pipes[i].readers_wait, p)

\* When the shell reads its next line it has got the terminal back, whatever
\* happened to the programs it started.
ShellHasTerminal == shell.pc # "loop"

\* A pipeline comes to an end: the right program gets its end of file when the
\* left one is gone, both are collected, and the shell reads the next line,
\* unless the user kills it.
PipelineFinishes ==
  shell.pc = "create" ~>
    \/ shell.pc = "reading"
    \/ me = NULL \/ k.status[me] = "ZOMBIE"
    \/ k.machine # "up"
=============================================================================
