------------------------------- MODULE Pipe ---------------------------------
(***************************************************************************)
(* Kernel/ipc/pipe.c and Kernel/ipc/filedesc.c on top of the kernel: the   *)
(* table of pipes, the descriptors of the processes, the calls read,       *)
(* write, pipe_create, pipe_open, pipe_close, close_fd, and what spawn and *)
(* proc_kill do to descriptors.                                            *)
(*                                                                         *)
(* Functions of the C files are operators on w, a record of k, pipes and   *)
(* fds.  Every pipe has the same id, the "pipe_cmd" of the shell.  Bytes   *)
(* are numbered in the order in which the pipe accepted them.              *)
(*                                                                         *)
(* pipe_free leaves its entry in pipes_table: the slot is never used again,*)
(* and find_pipe_by_id goes on reading the freed memory; the model assumes *)
(* that it finds in_use = false there.                                     *)
(***************************************************************************)
EXTENDS Kernel

CONSTANTS
  MAX_PIPES, PIPE_BUFFER_SIZE, FD_MAX,
  ReadSize,    \* the size of the buffer the programs read into
  WriteSizes,  \* how many bytes they write at once
  MaxBytes     \* bound: the bytes written to one pipe

ASSUME PipeAssumption ==
  /\ MAX_PIPES \in Nat /\ PIPE_BUFFER_SIZE \in Nat /\ PIPE_BUFFER_SIZE >= 2
  /\ FD_MAX \in Nat /\ FD_MAX >= 3
  /\ ReadSize \in Nat /\ WriteSizes \subseteq Nat /\ MaxBytes \in Nat

VARIABLES
  pipes,  \* pipes_table
  fds,    \* fds[p]: the descriptors of process p
  io      \* io[p]: the read or write that p is inside of, or "eof" once a read of p returned 0

pipeVars == <<k, pipes, fds, io>>

Buf == INSTANCE RingBuf WITH
  SIZE <- PIPE_BUFFER_SIZE, Bytes <- 0..MaxBytes, None <- NULL,
  ring <- pipes, got <- pipes

-----------------------------------------------------------------------------
NoFd == [type |-> "NONE", pipe |-> 0, end |-> "none"]
Terminal == [type |-> "TERMINAL", pipe |-> 0, end |-> "none"]

\* The two file_ops_t of a pipe are named after the count that they change.
PipeEnd(i, end) == [type |-> "PIPE", pipe |-> i, end |-> end]

NoIo == [op |-> "none", pipe |-> 0, size |-> 0]
Eof == [NoIo EXCEPT !.op = "eof"]

NewPipe ==
  [table |-> "used", readers |-> 0, writers |-> 0,
   ring |-> [buf |-> [s \in 0..(PIPE_BUFFER_SIZE - 1) |-> 0], head |-> 0, tail |-> 0],
   readers_wait |-> << >>, writers_wait |-> << >>, sent |-> 0, received |-> 0]

EmptySlot == [NewPipe EXCEPT !.table = "null"]

available(w, i) == Buf!ringbuf_available(w.pipes[i].ring)

find_pipe_by_id(w) ==
  LET found == {i \in 1..MAX_PIPES : w.pipes[i].table = "used"}
  IN IF found = {} THEN 0 ELSE Least(found)

create_pipe(w) ==
  LET free == {i \in 1..MAX_PIPES : w.pipes[i].table = "null"}
  IN IF free = {} THEN w ELSE [w EXCEPT !.pipes[Least(free)] = NewPipe]

find_free_fd(w, p) ==
  LET free == {fd \in 0..(FD_MAX - 1) : w.fds[p][fd].type = "NONE"}
  IN IF free = {} THEN -1 ELSE Least(free)

\* open_pipe creates the pipe if there is none (any more).
open_pipe(w, p, fd, end) ==
  LET made == IF find_pipe_by_id(w) = 0 THEN create_pipe(w) ELSE w
      i    == find_pipe_by_id(made)
  IN IF i = 0 THEN w
     ELSE [made EXCEPT !.fds[p][fd] = PipeEnd(i, end), !.pipes[i][end] = @ + 1]

\* What sys_pipe_open returns for the state w and leaves behind.
opened_fd(w, p) ==
  IF find_pipe_by_id(w) = 0 /\ find_pipe_by_id(create_pipe(w)) = 0
  THEN -1 ELSE find_free_fd(w, p)

sys_pipe_open(w, p, end) ==
  IF find_free_fd(w, p) < 0 THEN w ELSE open_pipe(w, p, find_free_fd(w, p), end)

\* queue_free drops the nodes: whoever waits stays blocked.
pipe_free(w, i) ==
  [w EXCEPT !.pipes[i].table = "freed",
            !.pipes[i].readers_wait = << >>, !.pipes[i].writers_wait = << >>]

\* sys_pipe_close frees the pipe whatever its counts say.
sys_pipe_close(w) ==
  IF find_pipe_by_id(w) = 0 THEN w ELSE pipe_free(w, find_pipe_by_id(w))

-----------------------------------------------------------------------------
unused(pipe) == pipe.readers = 0 /\ pipe.writers = 0

release_end(w, i, end) ==
  [w EXCEPT !.pipes[i][end] = IF @ > 0 THEN @ - 1 ELSE 0]

pipe_close_read(w, i) ==
  LET left == release_end(w, i, "readers")
  IN IF unused(left.pipes[i]) THEN pipe_free(left, i) ELSE left

\* Mutant: the readers are not told that there are no writers left.
pipe_close_write_silent(w, i) ==
  LET left == release_end(w, i, "writers")
  IN IF unused(left.pipes[i]) THEN pipe_free(left, i) ELSE left

\* proc_ready for every process of a queue, in order.
wake_all(s, q) ==
  LET woken[n \in 0..Len(q)] == IF n = 0 THEN s ELSE proc_ready(woken[n - 1], q[n])
  IN woken[Len(q)]

\* The last writer wakes all readers.
pipe_close_write(w, i) ==
  LET left  == release_end(w, i, "writers")
      pipe  == left.pipes[i]
      woken == IF pipe.writers > 0 THEN left
               ELSE [left EXCEPT !.k = wake_all(w.k, pipe.readers_wait),
                                 !.pipes[i].readers_wait = << >>]
  IN IF unused(pipe) THEN pipe_free(woken, i) ELSE woken

close(w, e) ==
  CASE e.type # "PIPE" -> w
    [] e.end = "readers" -> pipe_close_read(w, e.pipe)
    [] e.end = "writers" -> pipe_close_write(w, e.pipe)

\* The close function of the entry, if it has one; then it is FD_NONE.
close_fd(w, p, fd) == [close(w, w.fds[p][fd]) EXCEPT !.fds[p][fd] = NoFd]

sys_close_fd(w, p, fd) == IF fd < 0 THEN w ELSE close_fd(w, p, fd)

-----------------------------------------------------------------------------
\* The descriptors of a new PCB (memset 0).
NoFds == [fd \in 0..(FD_MAX - 1) |-> NoFd]

set_default_fds(w, p) ==
  [w EXCEPT !.fds[p] = [fd \in 0..(FD_MAX - 1) |-> IF fd <= 2 THEN Terminal ELSE NoFd]]

add_ref(w, e) ==
  IF e.type = "PIPE" THEN [w EXCEPT !.pipes[e.pipe][e.end] = @ + 1] ELSE w

\* Mutant: the descriptors are copied, the ends are not counted.
inherit_fd_uncounted(w, p, fd, e) == [w EXCEPT !.fds[p][fd] = e]

inherit_fd(w, p, fd, e) == [add_ref(w, e) EXCEPT !.fds[p][fd] = e]

\* The list ends with the first descriptor that is not one.
inherit_fds(w, p, source, list) ==
  LET n == Least({i \in 1..Len(list) : list[i] < 0}) - 1
      given[i \in 0..n] ==
        IF i = 0 THEN [w EXCEPT !.fds[p] = NoFds]
        ELSE inherit_fd(given[i - 1], p, i - 1, w.fds[source][list[i]])
  IN given[n]

\* sys_spawn_process with and without a list of descriptors.
spawn_default(w, background) ==
  LET p == proc_pid_alloc(w.k)
      spawned == sys_spawn_process(w.k, background)
  IN IF p = NULL THEN [w EXCEPT !.k = spawned]
     ELSE [set_default_fds(w, p) EXCEPT !.k = spawned]

spawn_with(w, list, background) ==
  LET p == proc_pid_alloc(w.k)
      spawned == sys_spawn_process(w.k, background)
  IN IF p = NULL THEN [w EXCEPT !.k = spawned]
     ELSE [inherit_fds(w, p, w.k.current, list) EXCEPT !.k = spawned]

\* queue_remove(proc->waiting_on, proc) when that is the queue of a pipe.
unlink_from_pipe(w, p) ==
  IF w.k.waiting_on[p] # "resource" THEN w
  ELSE [w EXCEPT !.pipes = [i \in 1..MAX_PIPES |->
          [w.pipes[i] EXCEPT !.readers_wait = queue_remove(@, p),
                             !.writers_wait = queue_remove(@, p)]]]

\* proc_kill closes every descriptor, in order.
close_all(w, p) ==
  LET closed[n \in 0..FD_MAX] == IF n = 0 THEN w ELSE close_fd(closed[n - 1], p, n - 1)
  IN closed[FD_MAX]

\* The first part of proc_kill, up to the descriptors; bury is the rest.
terminate(w, p) ==
  close_all([unlink_from_pipe(w, p) EXCEPT !.k = stop(w.k, p)], p)

-----------------------------------------------------------------------------
\* The loops of ringbuf_read and ringbuf_write for n bytes.
read_bytes(r, n) ==
  LET read[j \in 0..n] == IF j = 0 THEN r ELSE Buf!ringbuf_read(read[j - 1])
  IN read[n]

take_bytes(pipe, n) ==
  LET m == IF Buf!ringbuf_available(pipe.ring) < n
           THEN Buf!ringbuf_available(pipe.ring) ELSE n
  IN [pipe EXCEPT !.ring = read_bytes(@, m), !.received = @ + m]

\* Mutant: a byte that the buffer refused is counted as written.
put_byte_counted(pipe) ==
  [pipe EXCEPT !.ring = Buf!ringbuf_write(@, pipe.sent + 1), !.sent = @ + 1]

put_byte(pipe) ==
  IF Buf!is_full(pipe.ring) THEN pipe
  ELSE [pipe EXCEPT !.ring = Buf!ringbuf_write(@, pipe.sent + 1), !.sent = @ + 1]

put_bytes(pipe, n) ==
  LET put[j \in 0..n] == IF j = 0 THEN pipe ELSE put_byte(put[j - 1])
  IN put[n]

\* proc_ready(dequeue(queue)), which does nothing on an empty queue.
wake_one(w, i, queue) ==
  LET q == w.pipes[i][queue]
  IN IF q = << >> THEN w
     ELSE [w EXCEPT !.k = proc_ready(w.k, dequeue_value(q)),
                    !.pipes[i][queue] = dequeue(q)]

\* The process queues up and blocks, in the middle of its call.
wait_on(w, i, queue, reason) ==
  [w EXCEPT !.pipes[i][queue] = enqueue(@, w.k.current),
            !.k = block_current(w.k, reason, "resource")]

\* One pass of the loop of pipe_read: wait, or return what there is.
read_waits(w, i) == available(w, i) = 0 /\ w.pipes[i].writers > 0

pipe_read(w, i) ==
  IF read_waits(w, i) THEN wait_on(w, i, "readers_wait", "PIPE_READ")
  ELSE IF available(w, i) = 0 THEN w
  ELSE wake_one([w EXCEPT !.pipes[i] = take_bytes(@, ReadSize)], i, "writers_wait")

after_read(w, i) ==
  IF read_waits(w, i) THEN [op |-> "read", pipe |-> i, size |-> ReadSize]
  ELSE IF available(w, i) = 0 THEN Eof ELSE NoIo

\* A ring buffer of PIPE_BUFFER_SIZE bytes holds one less: a writer never
\* waits, it gets a short count.
write_waits(w, i) == available(w, i) >= PIPE_BUFFER_SIZE /\ w.pipes[i].readers > 0

pipe_write(w, i, n) ==
  IF write_waits(w, i) THEN wait_on(w, i, "writers_wait", "PIPE_WRITE")
  ELSE IF available(w, i) >= PIPE_BUFFER_SIZE THEN w
  ELSE wake_one([w EXCEPT !.pipes[i] = put_bytes(@, n)], i, "readers_wait")

after_write(w, i, n) ==
  IF write_waits(w, i) THEN [op |-> "write", pipe |-> i, size |-> n] ELSE NoIo

-----------------------------------------------------------------------------
world == [k |-> k, pipes |-> pipes, fds |-> fds]

Becomes(next) == \E w \in {next} : k' = w.k /\ pipes' = w.pipes /\ fds' = w.fds

\* As UserMode; a process switched to inside a read is still in the kernel.
PipeUserMode ==
  /\ UserMode
  /\ k.current # NULL => io[k.current].op \in {"none", "eof"}

\* A program, not the shell, whose input or output is a pipe.
PipeProgram(p) ==
  PipeUserMode /\ k.current = p /\ p \notin {NULL, 0, 1, k.shell_pid}

\* programs/cat.c, wc.c, filter.c: read standard input until it ends.
PipeRead(p) ==
  /\ PipeProgram(p) /\ fds[p][0].end = "readers" /\ io[p] # Eof
  /\ Becomes(pipe_read(world, fds[p][0].pipe))
  /\ io' = [io EXCEPT ![p] = after_read(world, fds[p][0].pipe)]

PipeWrite(p) ==
  /\ PipeProgram(p) /\ fds[p][1].end = "writers"
  /\ \E n \in WriteSizes :
       /\ pipes[fds[p][1].pipe].sent + n <= MaxBytes
       /\ Becomes(pipe_write(world, fds[p][1].pipe, n))
       /\ io' = [io EXCEPT ![p] = after_write(world, fds[p][1].pipe, n)]

\* The process runs again inside pipe_read or pipe_write: the loop tests again.
PipeResume ==
  /\ k.machine = "up" /\ k.current # NULL /\ io[k.current].op \in {"read", "write"}
  /\ LET call == io[k.current]
         reads == call.op = "read"
     IN /\ Becomes(IF reads THEN pipe_read(world, call.pipe)
                            ELSE pipe_write(world, call.pipe, call.size))
        /\ io' = [io EXCEPT ![k.current] =
                    IF reads THEN after_read(world, call.pipe)
                             ELSE after_write(world, call.pipe, call.size)]

\* proc_kill of p, and what the caller does next; the calls of p are over.
Killed(p, next(_)) ==
  /\ \E w \in {terminate(world, p)} : \E dead \in {bury(w.k, p)} :
       k' = next(dead) /\ pipes' = w.pipes /\ fds' = w.fds
  /\ io' = [io EXCEPT ![p] = NoIo]

\* The program returns: it has read all its input, if that is a pipe ...
Return(p) ==
  /\ PipeProgram(p) /\ (fds[p][0].end = "readers" => io[p] = Eof)
  /\ Killed(p, timer_interrupt)

\* ... or gives up earlier.
Quit(p) ==
  /\ PipeProgram(p) /\ fds[p][0].end = "readers" /\ io[p] # Eof
  /\ Killed(p, timer_interrupt)
=============================================================================
