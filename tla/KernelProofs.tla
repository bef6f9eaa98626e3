---------------------------- MODULE KernelProofs ----------------------------
(***************************************************************************)
(* Proofs about module Kernel, for every number of processes, every set of *)
(* calls and every bound.  First the scheduler: its data stay consistent   *)
(* and the kernel never panics for lack of a process to run.  Then what    *)
(* the scheduler does not see: the process tree, the terminal and the      *)
(* calls to wait_pid, starting from the invariant Inv of the scheduler.    *)
(***************************************************************************)
EXTENDS KernelProps, FiniteSetTheorems, WellFoundedInduction, TLAPS

-----------------------------------------------------------------------------
(***************************************************************************)
(* The queue.                                                              *)
(***************************************************************************)

\* enqueue adds v at the end and nothing else changes (queue.h, enqueue).
LEMMA EnqueueLemma ==
  ASSUME NEW S, NEW q \in Seq(S), NEW v \in S
  PROVE  /\ enqueue(q, v) \in Seq(S)
         /\ enqueue(q, v) # << >>
         /\ \A u : InQueue(enqueue(q, v), u) <=> InQueue(q, u) \/ u = v
         /\ NoDuplicates(q) /\ ~ InQueue(q, v) => NoDuplicates(enqueue(q, v))
BY DEF enqueue, InQueue, NoDuplicates

\* dequeue removes the head, and only it when nothing is queued twice.
LEMMA DequeueLemma ==
  ASSUME NEW S, NEW q \in Seq(S), q # << >>, NoDuplicates(q)
  PROVE  /\ dequeue_value(q) \in S
         /\ InQueue(q, dequeue_value(q))
         /\ dequeue(q) \in Seq(S)
         /\ \A u : InQueue(dequeue(q), u) <=> InQueue(q, u) /\ u # dequeue_value(q)
         /\ NoDuplicates(dequeue(q))
<1>. DEFINE t == dequeue(q)
<1>1. /\ dequeue_value(q) \in S /\ t \in Seq(S) /\ Len(t) = Len(q) - 1
      /\ dequeue_value(q) = q[1] /\ Len(q) \in Nat \ {0}
      /\ \A i \in 1..Len(t) : t[i] = q[i + 1]
  BY DEF dequeue_value, dequeue
<1>2. \A u : InQueue(t, u) <=> InQueue(q, u) /\ u # q[1]
  <2>. SUFFICES ASSUME NEW u PROVE InQueue(t, u) <=> InQueue(q, u) /\ u # q[1]
    OBVIOUS
  <2>1. ASSUME InQueue(t, u) PROVE InQueue(q, u) /\ u # q[1]
    BY <1>1, <2>1 DEF InQueue, NoDuplicates
  <2>2. ASSUME InQueue(q, u), u # q[1] PROVE InQueue(t, u)
    <3>1. PICK i \in 1..Len(q) : q[i] = u
      BY <2>2 DEF InQueue
    <3>2. i - 1 \in 1..Len(t) /\ t[i - 1] = u
      BY <1>1, <2>2, <3>1
    <3>. QED BY <3>2 DEF InQueue
  <2>. QED BY <2>1, <2>2
<1>3. NoDuplicates(t)
  BY <1>1 DEF NoDuplicates
<1>. QED BY <1>1, <1>2, <1>3 DEF InQueue

\* queue_remove takes v out and keeps everything else, when nothing is queued
\* twice (queue.h, queue_remove).
LEMMA QueueRemoveLemma ==
  ASSUME NEW S, NEW q \in Seq(S), NEW v, NoDuplicates(q)
  PROVE  /\ queue_remove(q, v) \in Seq(S)
         /\ \A u : InQueue(queue_remove(q, v), u) <=> InQueue(q, u) /\ u # v
         /\ NoDuplicates(queue_remove(q, v))
<1>1. CASE ~ InQueue(q, v)
  BY <1>1 DEF queue_remove, InQueue
<1>2. CASE InQueue(q, v)
  <2>. DEFINE r == queue_remove(q, v)
              At(i) == IF \E j \in 1..i : q[j] = v THEN q[i + 1] ELSE q[i]
  <2>1. PICK n \in 1..Len(q) : q[n] = v
    BY <1>2 DEF InQueue
  <2>2. r = [i \in 1..(Len(q) - 1) |-> At(i)]
    BY <1>2 DEF queue_remove, InQueue
  <2>3. \A i \in 1..(Len(q) - 1) : At(i) = IF n <= i THEN q[i + 1] ELSE q[i]
    BY <2>1 DEF NoDuplicates
  <2>4. \A i \in 1..(Len(q) - 1) : At(i) \in S
    BY <2>3, <2>1
  <2>5. r \in Seq(S) /\ Len(r) = Len(q) - 1
        /\ \A i \in 1..Len(r) : r[i] = IF n <= i THEN q[i + 1] ELSE q[i]
    <3>. HIDE DEF At
    <3>. QED BY <2>1, <2>2, <2>3, <2>4
  <2>. HIDE DEF r, At
  <2>6. NoDuplicates(r)
    BY <2>1, <2>5 DEF NoDuplicates
  <2>7. \A u : InQueue(r, u) => InQueue(q, u) /\ u # v
    BY <2>1, <2>5 DEF InQueue, NoDuplicates
  <2>8. ASSUME NEW u, InQueue(q, u), u # v PROVE InQueue(r, u)
    <3>1. PICK i \in 1..Len(q) : q[i] = u
      BY <2>8 DEF InQueue
    <3>2. CASE i < n
      <4>1. i \in 1..Len(r) /\ r[i] = u
        BY <2>1, <2>5, <3>1, <3>2
      <4>. QED BY <4>1 DEF InQueue
    <3>3. CASE i > n
      <4>1. i - 1 \in 1..Len(r) /\ r[i - 1] = u
        BY <2>1, <2>5, <3>1, <3>3
      <4>. QED BY <4>1 DEF InQueue
    <3>. QED BY <2>1, <2>8, <3>1, <3>2, <3>3
  <2>. QED BY <2>5, <2>6, <2>7, <2>8 DEF r
<1>. QED BY <1>1, <1>2

\* Every non-empty set of naturals has a least element: the for loops of the
\* kernel (proc_pid_alloc, wait_pid) that find something find the first one.
LEMMA LeastNatural ==
  ASSUME NEW T \in SUBSET Nat, T # {}
  PROVE  \E n \in T : \A m \in T : n <= m
<1>1. PICK n \in T : \A m \in T : <<m, n>> \notin OpToRel(<, Nat)
  BY WFMin, NatLessThanWellFounded, Zenon
<1>2. ASSUME NEW m \in T, m < n PROVE FALSE
  <2>1. <<m, n>> \in Nat \X Nat /\ <<m, n>>[1] < <<m, n>>[2]
    BY <1>2
  <2>2. <<m, n>> \in OpToRel(<, Nat)
    BY <2>1, Zenon DEF OpToRel
  <2>. QED BY <1>1, <2>2
<1>. QED BY <1>2

\* Induction over the naturals for a set: the loops that a handler runs for the
\* members of a queue, the bytes of a buffer or the descriptors of a process.
LEMMA NatSet ==
  ASSUME NEW T, 0 \in T, \A n \in Nat : n \in T => n + 1 \in T
  PROVE  Nat \subseteq T
<1>. SUFFICES ASSUME Nat \ T # {} PROVE FALSE
  OBVIOUS
<1>1. PICK n \in Nat \ T : \A m \in Nat \ T : n <= m
  BY LeastNatural
<1>2. n - 1 \in Nat /\ n - 1 \in T
  BY <1>1
<1>. QED BY <1>1, <1>2

\* A non-empty set of naturals has a least element: what proc_pid_alloc and
\* the loops of wait_pid find is in the set they search.
LEMMA LeastLemma ==
  ASSUME NEW T \in SUBSET Nat, T # {}
  PROVE  Least(T) \in T
BY LeastNatural DEF Least

-----------------------------------------------------------------------------
(***************************************************************************)
(* The inductive invariant, as a predicate on a kernel state s, so that it *)
(* can also be stated for the states between two calls inside a handler.   *)
(***************************************************************************)

Shape(s) == s = [f \in Fields |-> s[f]]

Types(s) ==
  /\ Shape(s)
  /\ s.status \in [Pids -> Statuses]
  /\ s.block_reason \in [Pids -> BlockReasons]
  /\ s.waiting_on \in [Pids -> WaitingOn]
  /\ s.has_quantum \in [Pids -> 0..QUANTUM_MAX]
  /\ s.priority \in [Pids -> Priorities]
  /\ s.ready \in Seq(Pids)
  /\ s.blocked \in [Pids -> Nat]
  /\ s.current \in Pids \cup {NULL}
  /\ s.foreground \in Pids \cup {NULL}
  /\ s.parent \in [Pids -> Pids \cup {NULL}]
  /\ s.machine \in {"up", "panic", "fault"}

\* What holds of the queues even while current_process is being replaced.  A
\* READY process is unlinked by proc_kill only if waiting_on says so.
Queues(s) ==
  /\ Types(s)
  /\ NoDuplicates(s.ready)
  /\ \A p \in Pids : s.status[p] = "READY" <=> InQueue(s.ready, p)
  /\ \A p \in Pids : s.status[p] = "READY" => s.waiting_on[p] = "ready"
  /\ \A p \in Pids : s.status[p] = "BLOCKED" => s.blocked[p] > 0
  /\ s.sleepers = << >>
  /\ s.machine # "panic"

Core(s) ==
  /\ Queues(s)
  /\ \A p \in Pids : s.status[p] = "RUNNING" <=> s.current = p

\* idle can run: no handler takes it out of the scheduler.
Idle(s) == s.status[0] \in {"READY", "RUNNING"}

Inv(s) == Core(s) /\ Idle(s)

\* As Inv, but the running process may just have blocked itself with no
\* quantum left: the state in which block() raises int 20h.
Switching(s) ==
  /\ Queues(s)
  /\ Idle(s)
  /\ \A p \in Pids : s.status[p] = "RUNNING" => s.current = p
  /\ s.current # NULL =>
       \/ s.status[s.current] = "RUNNING"
       \/ s.status[s.current] = "BLOCKED" /\ s.has_quantum[s.current] = 0

-----------------------------------------------------------------------------
(***************************************************************************)
(* scheduler.c.                                                            *)
(***************************************************************************)

\* What the assumption on the constants says of pids, priorities and quanta.
LEMMA PidsLemma ==
  /\ 0 \in Pids /\ 1 \in Pids /\ NULL \notin Pids /\ Pids \subseteq Nat
  /\ QUANTUM_DEFAULT \in Priorities
  /\ Priorities \subseteq 0..QUANTUM_MAX
  /\ 0 \in 0..QUANTUM_MAX
BY ConstantsAssumption DEF Pids, NULL, Priorities

\* proc_ready keeps the queues consistent when the process is not queued yet.
LEMMA ProcReadyLemma ==
  ASSUME NEW s, Types(s), NEW p \in Pids,
         NoDuplicates(s.ready), ~ InQueue(s.ready, p),
         \A u \in Pids \ {p} :
           /\ s.status[u] = "READY" <=> InQueue(s.ready, u)
           /\ s.status[u] = "READY" => s.waiting_on[u] = "ready"
           /\ s.status[u] = "BLOCKED" => s.blocked[u] > 0,
         s.sleepers = << >>, s.machine # "panic"
  PROVE  LET t == proc_ready(s, p)
         IN  /\ Queues(t)
             /\ t.status = [s.status EXCEPT ![p] = "READY"]
             /\ t.current = s.current
             /\ t.ready # << >>
             /\ t.parent = s.parent /\ t.has_quantum = s.has_quantum
             /\ t.priority = s.priority
<1>. DEFINE t == proc_ready(s, p)
            q == enqueue(s.ready, p)
<1>1. /\ q \in Seq(Pids) /\ q # << >> /\ NoDuplicates(q)
      /\ \A u : InQueue(q, u) <=> InQueue(s.ready, u) \/ u = p
  BY EnqueueLemma DEF Types
<1>. HIDE DEF q
<1>2. t = [s EXCEPT !.status = [s.status EXCEPT ![p] = "READY"],
                    !.block_reason = [s.block_reason EXCEPT ![p] = "NONE"],
                    !.waiting_on = [s.waiting_on EXCEPT ![p] = "ready"],
                    !.ready = q,
                    !.blocked = [s.blocked EXCEPT ![p] =
                      IF s.blocked[p] > 0 THEN s.blocked[p] - 1 ELSE 0]]
  BY PidsLemma DEF proc_ready, q
<1>3. /\ Shape(t)
      /\ t.status = [s.status EXCEPT ![p] = "READY"]
      /\ t.block_reason = [s.block_reason EXCEPT ![p] = "NONE"]
      /\ t.waiting_on = [s.waiting_on EXCEPT ![p] = "ready"]
      /\ t.ready = q
      /\ t.blocked = [s.blocked EXCEPT ![p] =
                        IF s.blocked[p] > 0 THEN s.blocked[p] - 1 ELSE 0]
      /\ t.has_quantum = s.has_quantum /\ t.priority = s.priority
      /\ t.current = s.current /\ t.parent = s.parent
      /\ t.machine = s.machine /\ t.sleepers = s.sleepers /\ t.foreground = s.foreground
  <2>1. Shape(s)
    BY DEF Types
  <2>. QED BY ONLY <1>2, <2>1, ZenonT(60) DEF Shape, Fields
<1>. HIDE DEF t
<1>4. Types(t)
  <2>1. t.blocked \in [Pids -> Nat]
    <3>1. s.blocked \in [Pids -> Nat]
      BY DEF Types
    <3>. QED BY <1>3, <3>1
  <2>2. /\ t.status \in [Pids -> Statuses]
        /\ t.block_reason \in [Pids -> BlockReasons]
        /\ t.waiting_on \in [Pids -> WaitingOn]
    BY <1>3 DEF Types, Statuses, BlockReasons, WaitingOn
  <2>. QED BY <1>1, <1>3, <2>1, <2>2 DEF Types
<1>5. Queues(t)
  <2>1. /\ s.status \in [Pids -> Statuses] /\ s.waiting_on \in [Pids -> WaitingOn]
        /\ s.blocked \in [Pids -> Nat]
    BY DEF Types
  <2>2. /\ NoDuplicates(t.ready)
        /\ \A u \in Pids : t.status[u] = "READY" <=> InQueue(t.ready, u)
    BY <1>1, <1>3, <2>1 DEF Queues
  <2>3. /\ \A u \in Pids : t.status[u] = "READY" => t.waiting_on[u] = "ready"
        /\ \A u \in Pids : t.status[u] = "BLOCKED" => t.blocked[u] > 0
    BY <1>1, <1>3, <2>1 DEF Queues
  <2>4. t.sleepers = << >> /\ t.machine # "panic"
    BY <1>1, <1>3 DEF Queues
  <2>. QED BY <1>4, <2>2, <2>3, <2>4 DEF Queues
<1>. QED BY <1>1, <1>3, <1>5 DEF t

\* enqueue_next_process runs the head of the queue and nothing else, given
\* that no process has the status RUNNING at that point.
LEMMA EnqueueNextLemma ==
  ASSUME NEW s, Queues(s), s.ready # << >>,
         \A p \in Pids : s.status[p] # "RUNNING"
  PROVE  LET t == enqueue_next_process(s)
         IN  /\ Core(t)
             /\ \A p \in Pids : s.status[p] = "READY" => t.status[p] \in {"READY", "RUNNING"}
<1>. DEFINE t == enqueue_next_process(s)
            h == dequeue_value(s.ready)
            q == dequeue(s.ready)
<1>1. /\ h \in Pids /\ InQueue(s.ready, h) /\ q \in Seq(Pids) /\ NoDuplicates(q)
      /\ \A u : InQueue(q, u) <=> InQueue(s.ready, u) /\ u # h
  BY DequeueLemma DEF Queues, Types
<1>2. /\ Shape(t)
      /\ t.status = [s.status EXCEPT ![h] = "RUNNING"]
      /\ t.has_quantum = [s.has_quantum EXCEPT ![h] = s.priority[h]]
      /\ t.ready = q /\ t.current = h
      /\ t.block_reason = s.block_reason /\ t.waiting_on = s.waiting_on
      /\ t.blocked = s.blocked /\ t.priority = s.priority
      /\ t.parent = s.parent /\ t.machine = s.machine /\ t.sleepers = s.sleepers /\ t.foreground = s.foreground
  <2>1. Shape(s)
    BY DEF Queues, Types
  <2>. HIDE DEF h, q
  <2>2. t = [s EXCEPT !.ready = q, !.current = h,
                      !.status = [s.status EXCEPT ![h] = "RUNNING"],
                      !.has_quantum = [s.has_quantum EXCEPT ![h] = s.priority[h]]]
    BY DEF enqueue_next_process, h, q
  <2>. QED BY ONLY <2>1, <2>2, ZenonT(60) DEF Shape, Fields
<1>. HIDE DEF t, h, q
<1>3. Types(t)
  <2>1. Types(s)
    BY DEF Queues
  <2>2. t.has_quantum \in [Pids -> 0..QUANTUM_MAX]
    <3>1. s.priority[h] \in 0..QUANTUM_MAX /\ s.has_quantum \in [Pids -> 0..QUANTUM_MAX]
      BY <1>1, <2>1, PidsLemma DEF Types
    <3>. QED BY <1>2, <3>1
  <2>. QED BY <1>1, <1>2, <2>1, <2>2, SMTT(30) DEF Types, Statuses
<1>4. Queues(t)
  <2>1. /\ s.status \in [Pids -> Statuses] /\ s.waiting_on \in [Pids -> WaitingOn]
        /\ s.blocked \in [Pids -> Nat]
    BY DEF Queues, Types
  <2>2. /\ NoDuplicates(t.ready)
        /\ \A u \in Pids : t.status[u] = "READY" <=> InQueue(t.ready, u)
    BY <1>1, <1>2, <2>1 DEF Queues
  <2>3. /\ \A u \in Pids : t.status[u] = "READY" => t.waiting_on[u] = "ready"
        /\ \A u \in Pids : t.status[u] = "BLOCKED" => t.blocked[u] > 0
    BY <1>1, <1>2, <2>1 DEF Queues
  <2>4. t.sleepers = << >> /\ t.machine # "panic"
    BY <1>1, <1>2 DEF Queues
  <2>. QED BY <1>3, <2>2, <2>3, <2>4 DEF Queues
<1>5. \A p \in Pids : t.status[p] = "RUNNING" <=> t.current = p
  BY <1>1, <1>2 DEF Queues, Types
<1>. QED BY <1>1, <1>2, <1>4, <1>5 DEF Core, Queues, Types, t

\* The queue is not empty as long as idle waits in it.
LEMMA IdleWaits ==
  ASSUME NEW s, Queues(s), s.status[0] = "READY"
  PROVE  s.ready # << >>
BY PidsLemma DEF Queues, InQueue, Types

\* use_quantum counts one process's quantum down and changes nothing else.
LEMMA UseQuantumLemma ==
  ASSUME NEW s, Queues(s), s.current \in Pids
  PROVE  LET u == use_quantum(s)
             c == s.current
         IN  /\ Queues(u)
             /\ u.has_quantum = [s.has_quantum EXCEPT ![c] =
                  IF s.has_quantum[c] > 0 THEN s.has_quantum[c] - 1 ELSE 0]
             /\ u.status = s.status /\ u.ready = s.ready /\ u.current = c
<1>. DEFINE c == s.current
            u == use_quantum(s)
<1>1. Types(s) /\ Shape(s) /\ c \in Pids
  BY DEF Queues, Types
<1>2. /\ Shape(u)
      /\ u.has_quantum = [s.has_quantum EXCEPT ![c] =
           IF s.has_quantum[c] > 0 THEN s.has_quantum[c] - 1 ELSE 0]
      /\ u.status = s.status /\ u.ready = s.ready /\ u.current = c
      /\ u.block_reason = s.block_reason /\ u.waiting_on = s.waiting_on
      /\ u.blocked = s.blocked /\ u.priority = s.priority
      /\ u.parent = s.parent /\ u.machine = s.machine
      /\ u.sleepers = s.sleepers /\ u.foreground = s.foreground
  BY ONLY <1>1 DEF use_quantum, Shape, Fields
<1>. HIDE DEF u
<1>3. s.has_quantum[c] \in Nat /\ s.has_quantum[c] <= QUANTUM_MAX
  BY <1>1, ConstantsAssumption DEF Types
<1>4. u.has_quantum[c] \in 0..QUANTUM_MAX
  BY <1>1, <1>2, <1>3, ConstantsAssumption DEF Types
<1>5. u.has_quantum \in [Pids -> 0..QUANTUM_MAX]
  BY <1>1, <1>2, <1>4 DEF Types
<1>6. Types(u)
  BY <1>1, <1>2, <1>5 DEF Types
<1>7. Queues(u)
  BY <1>2, <1>6 DEF Queues
<1>. QED BY <1>2, <1>7 DEF u

\* schedule restores the invariant: idle is READY, or it is the running
\* process, so that neither of its two loops for ever is reached.
LEMMA ScheduleLemma ==
  ASSUME NEW s, Switching(s)
  PROVE  Inv(schedule(s))
<1>. DEFINE c == s.current
            u == use_quantum(s)
            kept == [s EXCEPT !.has_quantum[c] = s.priority[c]]
<1>1. Queues(s) /\ Types(s) /\ Shape(s) /\ Idle(s) /\ c \in Pids \cup {NULL}
  BY DEF Switching, Queues, Types
<1>2. CASE s.ready = << >>
  <2>1. s.status[0] = "RUNNING" /\ c = 0
    BY <1>1, <1>2, IdleWaits, PidsLemma DEF Idle, Switching
  <2>2. schedule(s) = kept
    BY <1>2, <2>1, PidsLemma DEF schedule, keep_running
  <2>3. /\ Shape(kept)
        /\ kept.has_quantum = [s.has_quantum EXCEPT ![c] = s.priority[c]]
        /\ kept.status = s.status /\ kept.ready = s.ready /\ kept.current = c
        /\ kept.block_reason = s.block_reason /\ kept.waiting_on = s.waiting_on
        /\ kept.blocked = s.blocked /\ kept.priority = s.priority
        /\ kept.parent = s.parent /\ kept.machine = s.machine
        /\ kept.sleepers = s.sleepers /\ kept.foreground = s.foreground
    BY ONLY <1>1 DEF Shape, Fields
  <2>. HIDE DEF kept
  <2>4. Types(kept)
    <3>1. /\ s.has_quantum \in [Pids -> 0..QUANTUM_MAX] /\ c \in Pids
          /\ s.priority[c] \in 0..QUANTUM_MAX
      BY <1>1, <2>1, PidsLemma DEF Types
    <3>2. kept.has_quantum \in [Pids -> 0..QUANTUM_MAX]
      BY <2>3, <3>1
    <3>. QED BY <1>1, <2>1, <2>3, <3>2, PidsLemma DEF Types
  <2>5. \A p \in Pids : s.status[p] = "RUNNING" <=> c = p
    BY <2>1 DEF Switching
  <2>. QED BY <1>1, <2>2, <2>3, <2>4, <2>5 DEF Inv, Core, Queues, Idle
<1>3. CASE s.ready # << >> /\ c = NULL
  <2>1. schedule(s) = enqueue_next_process(s)
    BY <1>3 DEF schedule
  <2>2. \A p \in Pids : s.status[p] # "RUNNING"
    BY <1>3, PidsLemma DEF Switching
  <2>. QED BY <1>1, <1>3, <2>1, <2>2, EnqueueNextLemma, PidsLemma DEF Inv, Idle
<1>4. CASE s.ready # << >> /\ c # NULL
  <2>1. c \in Pids
    BY <1>1, <1>4
  <2>2. /\ Queues(u)
        /\ u.has_quantum = [s.has_quantum EXCEPT ![c] =
             IF s.has_quantum[c] > 0 THEN s.has_quantum[c] - 1 ELSE 0]
        /\ u.status = s.status /\ u.ready = s.ready /\ u.current = c
    BY <1>1, <2>1, UseQuantumLemma
  <2>3. schedule(s) = IF u.has_quantum[c] = 0 THEN switch(u) ELSE u
    BY <1>4 DEF schedule
  <2>. HIDE DEF u
  <2>4. Types(u)
    BY <2>2 DEF Queues
  <2>5. Queues(u)
    BY <2>2
  <2>6. CASE u.has_quantum[c] # 0
    <3>1. s.has_quantum[c] # 0
      BY <1>1, <2>1, <2>2, <2>6 DEF Types
    <3>2. \A p \in Pids : u.status[p] = "RUNNING" <=> u.current = p
      BY <1>4, <2>1, <2>2, <3>1 DEF Switching
    <3>. QED BY <1>1, <2>2, <2>3, <2>5, <2>6, <3>2 DEF Inv, Core, Idle
  <2>7. CASE u.has_quantum[c] = 0 /\ s.status[c] = "BLOCKED"
    <3>1. schedule(s) = enqueue_next_process(u)
      BY <2>2, <2>3, <2>7 DEF switch
    <3>2. \A p \in Pids : u.status[p] # "RUNNING"
      BY <2>2, <2>7 DEF Switching
    <3>3. u.status[0] = "READY"
      BY <1>1, <2>2, <3>2, PidsLemma DEF Idle
    <3>. QED
      BY <1>4, <2>2, <2>5, <3>1, <3>2, <3>3, EnqueueNextLemma, PidsLemma DEF Inv, Idle
  <2>8. CASE u.has_quantum[c] = 0 /\ s.status[c] = "RUNNING"
    <3>. DEFINE r == proc_ready(u, c)
    <3>1. schedule(s) = enqueue_next_process(r)
      BY <2>2, <2>3, <2>8 DEF switch
    <3>2. ~ InQueue(u.ready, c)
      BY <2>1, <2>2, <2>5, <2>8 DEF Queues
    <3>3. /\ Queues(r) /\ r.ready # << >>
          /\ r.status = [u.status EXCEPT ![c] = "READY"]
      BY <2>1, <2>4, <2>5, <3>2, ProcReadyLemma DEF Queues
    <3>. HIDE DEF r
    <3>4. \A p \in Pids : r.status[p] # "RUNNING"
      BY <2>1, <2>2, <2>4, <3>3 DEF Switching, Types
    <3>5. r.status[0] = "READY"
      BY <1>1, <2>1, <2>2, <2>4, <3>3, <3>4, PidsLemma DEF Idle, Types
    <3>. QED
      BY <3>1, <3>3, <3>4, <3>5, EnqueueNextLemma, PidsLemma DEF Inv, Idle
  <2>. QED BY <1>4, <2>6, <2>7, <2>8 DEF Switching
<1>. QED BY <1>2, <1>3, <1>4

\* Outside a switch the invariant is all that schedule needs.
LEMMA InvSwitching ==
  ASSUME NEW s, Inv(s)
  PROVE  Switching(s)
BY DEF Inv, Core, Switching, Queues, Types

\* The timer interrupt, when no process sleeps.
LEMMA TimerLemma ==
  ASSUME NEW s, Switching(s)
  PROVE  Inv(timer_interrupt(s))
<1>1. timer_handler(s) = s
  BY DEF timer_handler, Switching, Queues
<1>. QED BY <1>1, ScheduleLemma DEF timer_interrupt

\* yield, from a state in which the running process may be blocked already.
LEMMA YieldLemma ==
  ASSUME NEW s, Queues(s), Idle(s), s.current \in Pids,
         \A p \in Pids : s.status[p] = "RUNNING" => s.current = p,
         s.status[s.current] \in {"RUNNING", "BLOCKED"}
  PROVE  Inv(yield(s))
<1>. DEFINE c == s.current
            t == [s EXCEPT !.has_quantum[c] = 0]
<1>1. Shape(s) /\ Types(s)
  BY DEF Queues, Types
<1>2. /\ Shape(t)
      /\ t.has_quantum = [s.has_quantum EXCEPT ![c] = 0]
      /\ t.status = s.status /\ t.ready = s.ready /\ t.current = c
      /\ t.block_reason = s.block_reason /\ t.waiting_on = s.waiting_on
      /\ t.blocked = s.blocked /\ t.priority = s.priority
      /\ t.parent = s.parent /\ t.machine = s.machine /\ t.sleepers = s.sleepers /\ t.foreground = s.foreground
  BY ONLY <1>1 DEF Shape, Fields
<1>3. yield(s) = timer_interrupt(t)
  BY PidsLemma DEF yield
<1>. HIDE DEF t
<1>4. Types(t)
  BY <1>1, <1>2, PidsLemma DEF Types
<1>5. Queues(t)
  BY <1>2, <1>4 DEF Queues
<1>6. Switching(t)
  BY <1>1, <1>2, <1>5 DEF Switching, Idle, Types
<1>. QED BY <1>3, <1>6, TimerLemma

\* The first half of block: the process leaves the ready queue.  idle is never
\* blocked.
LEMMA MarkBlockedLemma ==
  ASSUME NEW s, Inv(s), NEW p \in Pids \ {0}, NEW reason \in BlockReasons,
         NEW resource \in WaitingOn
  PROVE  LET t == mark_blocked(s, p, reason, resource)
         IN  /\ Queues(t) /\ Idle(t) /\ t.current = s.current
             /\ t.status = [s.status EXCEPT ![p] = "BLOCKED"]
<1>. DEFINE t == mark_blocked(s, p, reason, resource)
            q == queue_remove(s.ready, p)
<1>1. /\ q \in Seq(Pids) /\ NoDuplicates(q)
      /\ \A u : InQueue(q, u) <=> InQueue(s.ready, u) /\ u # p
  BY QueueRemoveLemma DEF Inv, Core, Queues, Types
<1>. HIDE DEF q
<1>2. /\ Shape(t)
      /\ t.status = [s.status EXCEPT ![p] = "BLOCKED"]
      /\ t.block_reason = [s.block_reason EXCEPT ![p] = reason]
      /\ t.waiting_on = [s.waiting_on EXCEPT ![p] = resource]
      /\ t.ready = q
      /\ t.blocked = [s.blocked EXCEPT ![p] = s.blocked[p] + 1]
      /\ t.has_quantum = s.has_quantum /\ t.priority = s.priority
      /\ t.current = s.current /\ t.parent = s.parent
      /\ t.machine = s.machine /\ t.sleepers = s.sleepers /\ t.foreground = s.foreground
  <2>1. Shape(s)
    BY DEF Inv, Core, Queues, Types
  <2>. QED BY ONLY <2>1 DEF mark_blocked, q, Shape, Fields
<1>. HIDE DEF t
<1>3. Types(s)
  BY DEF Inv, Core, Queues
<1>4. Types(t)
  BY <1>1, <1>2, <1>3 DEF Types, Statuses
<1>5. Queues(t)
  <2>1. /\ s.status \in [Pids -> Statuses] /\ s.waiting_on \in [Pids -> WaitingOn]
        /\ s.blocked \in [Pids -> Nat]
    BY <1>3 DEF Types
  <2>2. /\ NoDuplicates(t.ready)
        /\ \A u \in Pids : t.status[u] = "READY" <=> InQueue(t.ready, u)
    BY <1>1, <1>2, <2>1 DEF Inv, Core, Queues
  <2>3. /\ \A u \in Pids : t.status[u] = "READY" => t.waiting_on[u] = "ready"
        /\ \A u \in Pids : t.status[u] = "BLOCKED" => t.blocked[u] > 0
    BY <1>1, <1>2, <2>1 DEF Inv, Core, Queues
  <2>4. t.sleepers = << >> /\ t.machine # "panic"
    BY <1>1, <1>2 DEF Inv, Core, Queues
  <2>. QED BY <1>4, <2>2, <2>3, <2>4 DEF Queues
<1>6. Idle(t)
  BY <1>2, <1>3, PidsLemma DEF Idle, Inv, Types
<1>. QED BY <1>2, <1>5, <1>6 DEF t

\* block: if the process is the running one, the CPU goes to another.
LEMMA BlockLemma ==
  ASSUME NEW s, Inv(s), NEW p \in Pids \ {0}, NEW reason \in BlockReasons,
         NEW resource \in WaitingOn
  PROVE  Inv(block(s, p, reason, resource))
<1>. DEFINE t == mark_blocked(s, p, reason, resource)
<1>1. /\ Queues(t) /\ Idle(t) /\ t.current = s.current
      /\ t.status = [s.status EXCEPT ![p] = "BLOCKED"]
  BY MarkBlockedLemma
<1>2. Types(s)
  BY DEF Inv, Core, Queues
<1>3. block(s, p, reason, resource) = IF s.current = p THEN yield(t) ELSE t
  BY DEF block
<1>. HIDE DEF t
<1>4. CASE s.current = p
  <2>1. \A u \in Pids : t.status[u] = "RUNNING" => t.current = u
    BY <1>1, <1>2 DEF Inv, Core, Types
  <2>2. t.status[t.current] = "BLOCKED" /\ t.current \in Pids
    BY <1>1, <1>2, <1>4 DEF Types
  <2>. QED BY <1>1, <1>3, <1>4, <2>1, <2>2, YieldLemma, ZenonT(60)
<1>5. CASE s.current # p
  <2>1. \A u \in Pids : t.status[u] = "RUNNING" <=> t.current = u
    BY <1>1, <1>2, <1>5 DEF Inv, Core, Types
  <2>. QED BY <1>1, <1>3, <1>5, <2>1 DEF Inv, Core
<1>. QED BY <1>4, <1>5

\* proc_ready on a process that is neither queued nor running.
LEMMA WakeLemma ==
  ASSUME NEW s, Inv(s), NEW p \in Pids, s.status[p] = "BLOCKED"
  PROVE  Inv(proc_ready(s, p))
<1>. DEFINE t == proc_ready(s, p)
<1>1. Types(s) /\ ~ InQueue(s.ready, p) /\ s.current # p
  BY DEF Inv, Core, Queues
<1>2. /\ Queues(t) /\ t.status = [s.status EXCEPT ![p] = "READY"]
      /\ t.current = s.current
  BY <1>1, ProcReadyLemma DEF Inv, Core, Queues
<1>. HIDE DEF t
<1>3. Core(t)
  BY <1>1, <1>2 DEF Inv, Core, Types
<1>4. Idle(t)
  BY <1>1, <1>2, PidsLemma DEF Inv, Idle, Types
<1>. QED BY <1>3, <1>4 DEF Inv, t

-----------------------------------------------------------------------------
(***************************************************************************)
(* process.c and tty.c.                                                    *)
(***************************************************************************)

\* s and t differ at most in what the scheduler does not look at.
SameScheduler(s, t) ==
  /\ Shape(t)
  /\ t.status = s.status /\ t.ready = s.ready /\ t.current = s.current
  /\ t.block_reason = s.block_reason /\ t.waiting_on = s.waiting_on
  /\ t.has_quantum = s.has_quantum /\ t.priority = s.priority
  /\ t.blocked = s.blocked /\ t.sleepers = s.sleepers
  /\ t.machine = s.machine
  /\ t.parent \in [Pids -> Pids \cup {NULL}]
  /\ t.foreground \in Pids \cup {NULL}

\* A call that leaves the scheduler's data alone preserves the invariant.
LEMMA FrameLemma ==
  ASSUME NEW s, NEW t, Core(s), SameScheduler(s, t)
  PROVE  Core(t) /\ (Idle(s) => Idle(t))
<1>1. Types(t)
  BY DEF Core, Queues, Types, SameScheduler
<1>. QED BY <1>1 DEF Core, Queues, Idle, SameScheduler

\* set_foreground_process only touches the terminal.
LEMMA ForegroundLemma ==
  ASSUME NEW s, Types(s), NEW proc \in Pids \cup {NULL}, NEW caller
  PROVE  LET t == set_foreground_process(s, proc, caller)
         IN  SameScheduler(s, t) /\ t.parent = s.parent
<1>1. Shape(s) /\ s.parent \in [Pids -> Pids \cup {NULL}]
      /\ s.foreground \in Pids \cup {NULL}
  BY DEF Types
<1>. QED BY ONLY <1>1 DEF set_foreground_process, SameScheduler, Shape, Fields

\* Reparenting changes the family only, and every parent stays a process.
LEMMA ReparentLemma ==
  ASSUME NEW s, Types(s), NEW p \in Pids
  PROVE  SameScheduler(s, reparent_children(s, p))
<1>. DEFINE t == reparent_children(s, p)
<1>1. Shape(s) /\ s.parent \in [Pids -> Pids \cup {NULL}]
      /\ s.foreground \in Pids \cup {NULL}
  BY DEF Types
<1>. DEFINE new == orphans(s, p)
            list == s.children[1] \o new
            kept == [s.children EXCEPT ![1] =
                       IF Len(list) <= MAX_PROCESSES THEN list
                       ELSE SubSeq(list, 1, MAX_PROCESSES)]
            stays(c) == ~ InQueue(new, c)
            away(c) == \E i \in (MAX_PROCESSES + 1)..Len(list) : list[i] = c
            fathers == [c \in Pids |-> IF stays(c) THEN s.parent[c]
                                       ELSE IF away(c) THEN NULL ELSE 1]
<1>2. t = [s EXCEPT !.children = kept, !.parent = fathers]
  BY DEF reparent_children
<1>. HIDE DEF stays, away, kept, t
<1>3. fathers \in [Pids -> Pids \cup {NULL}]
  BY <1>1, PidsLemma
<1>. HIDE DEF fathers
<1>. QED BY ONLY <1>1, <1>2, <1>3 DEF SameScheduler, Shape, Fields, t

\* The first half of proc_kill: the dead process leaves the ready queue or the
\* CPU, whichever it was in.
LEMMA StopLemma ==
  ASSUME NEW s, Inv(s), NEW p \in Pids \ {0}
  PROVE  Inv(stop(s, p)) /\ stop(s, p).status[p] = "ZOMBIE"
<1>. DEFINE a == set_foreground_process(s, s.parent[p], p)
            b == IF s.status[p] = "RUNNING" THEN sched_rm_current(a) ELSE a
            q == IF s.waiting_on[p] = "ready" THEN queue_remove(s.ready, p) ELSE s.ready
            t == stop(s, p)
<1>1. Core(s) /\ Queues(s) /\ Types(s)
  BY DEF Inv, Core, Queues
<1>2. SameScheduler(s, a) /\ a.parent = s.parent
  <2>1. s.parent[p] \in Pids \cup {NULL}
    BY <1>1 DEF Types
  <2>. QED BY <1>1, <2>1, ForegroundLemma
<1>3. /\ q \in Seq(Pids) /\ NoDuplicates(q)
      /\ \A u \in Pids : InQueue(q, u) <=> InQueue(s.ready, u) /\ u # p
  <2>1. CASE s.waiting_on[p] = "ready"
    BY <1>1, <2>1, QueueRemoveLemma DEF Queues, Types
  <2>2. CASE s.waiting_on[p] # "ready"
    BY <1>1, <2>2 DEF Queues, Types
  <2>. QED BY <2>1, <2>2
<1>. HIDE DEF a, q
<1>4. /\ Shape(t)
      /\ t.status = [s.status EXCEPT ![p] = "ZOMBIE"]
      /\ t.ready = q
      /\ t.current = IF s.status[p] = "RUNNING" THEN NULL ELSE s.current
      /\ t.block_reason = s.block_reason /\ t.waiting_on = s.waiting_on
      /\ t.has_quantum = s.has_quantum /\ t.priority = s.priority
      /\ t.blocked = s.blocked /\ t.parent = s.parent
      /\ t.machine = s.machine /\ t.sleepers = s.sleepers
      /\ t.foreground \in Pids \cup {NULL}
  <2>1. t = [b EXCEPT !.ready = q,
                      !.status = [b.status EXCEPT ![p] = "ZOMBIE"],
                      !.waitpid = [b.waitpid EXCEPT ![p] = NoWait]]
    BY DEF stop, a, q
  <2>2. b = IF s.status[p] = "RUNNING" THEN [a EXCEPT !.current = NULL] ELSE a
    BY DEF sched_rm_current
  <2>3. /\ Shape(b)
        /\ b.status = a.status /\ b.waiting_on = a.waiting_on
        /\ b.current = IF s.status[p] = "RUNNING" THEN NULL ELSE a.current
        /\ b.block_reason = a.block_reason /\ b.has_quantum = a.has_quantum
        /\ b.priority = a.priority /\ b.blocked = a.blocked
        /\ b.parent = a.parent /\ b.machine = a.machine /\ b.sleepers = a.sleepers /\ b.foreground = a.foreground
    <3>1. Shape(a)
      BY <1>2 DEF SameScheduler
    <3>. QED BY ONLY <2>2, <3>1 DEF Shape, Fields
  <2>. HIDE DEF b
  <2>4. /\ Shape(t)
        /\ t.status = [b.status EXCEPT ![p] = "ZOMBIE"] /\ t.ready = q
        /\ t.current = b.current /\ t.waiting_on = b.waiting_on
        /\ t.block_reason = b.block_reason /\ t.has_quantum = b.has_quantum
        /\ t.priority = b.priority /\ t.blocked = b.blocked
        /\ t.parent = b.parent /\ t.machine = b.machine /\ t.sleepers = b.sleepers /\ t.foreground = b.foreground
    BY ONLY <2>1, <2>3, ZenonT(60) DEF Shape, Fields
  <2>. QED BY <1>2, <2>3, <2>4 DEF SameScheduler
<1>. HIDE DEF b, t
<1>5. Types(t)
  BY <1>1, <1>3, <1>4 DEF Types, Statuses
<1>6. Queues(t)
  <2>1. /\ s.status \in [Pids -> Statuses] /\ s.waiting_on \in [Pids -> WaitingOn]
        /\ s.blocked \in [Pids -> Nat]
    BY <1>1 DEF Types
  <2>2. /\ NoDuplicates(t.ready)
        /\ \A u \in Pids : t.status[u] = "READY" <=> InQueue(t.ready, u)
    BY <1>1, <1>3, <1>4, <2>1 DEF Queues
  <2>3. /\ \A u \in Pids : t.status[u] = "READY" => t.waiting_on[u] = "ready"
        /\ \A u \in Pids : t.status[u] = "BLOCKED" => t.blocked[u] > 0
    BY <1>1, <1>3, <1>4, <2>1 DEF Queues
  <2>4. t.sleepers = << >> /\ t.machine # "panic"
    BY <1>1, <1>3, <1>4 DEF Queues
  <2>. QED BY <1>5, <2>2, <2>3, <2>4 DEF Queues
<1>7. \A u \in Pids : t.status[u] = "RUNNING" <=> t.current = u
  BY <1>1, <1>4, PidsLemma DEF Core, Types
<1>8. Idle(t)
  BY <1>1, <1>4, PidsLemma DEF Idle, Inv, Types
<1>9. t.status[p] = "ZOMBIE"
  BY <1>1, <1>4 DEF Types
<1>. QED BY <1>6, <1>7, <1>8, <1>9 DEF Inv, Core, t

\* proc_reap of a zombie.
LEMMA ReapLemma ==
  ASSUME NEW s, Inv(s), NEW p \in Pids, s.status[p] = "ZOMBIE"
  PROVE  Inv(proc_reap(s, p))
<1>. DEFINE t == proc_reap(s, p)
<1>1. Core(s) /\ Queues(s) /\ Types(s) /\ Shape(s)
  BY DEF Inv, Core, Queues, Types
<1>2. /\ Shape(t)
      /\ t.status = [s.status EXCEPT ![p] = "FREE"]
      /\ t.block_reason = [s.block_reason EXCEPT ![p] = "NONE"]
      /\ t.waiting_on = [s.waiting_on EXCEPT ![p] = "null"]
      /\ t.has_quantum = [s.has_quantum EXCEPT ![p] = 0]
      /\ t.priority = [s.priority EXCEPT ![p] = QUANTUM_DEFAULT]
      /\ t.parent = [s.parent EXCEPT ![p] = NULL]
      /\ t.ready = s.ready /\ t.current = s.current /\ t.blocked = s.blocked
      /\ t.machine = s.machine /\ t.sleepers = s.sleepers /\ t.foreground = s.foreground
  <2>. DEFINE a == clear_scheduling(s, p)
              md == [a.mode EXCEPT ![p] = "BG"]
              pa == [a.parent EXCEPT ![p] = NULL]
              ch == [a.children EXCEPT ![p] = << >>]
              wp == [a.waitpid EXCEPT ![p] = NoWait]
              pc == s.process_count - 1
  <2>1. a = [s EXCEPT !.status = [s.status EXCEPT ![p] = "FREE"],
                      !.block_reason = [s.block_reason EXCEPT ![p] = "NONE"],
                      !.waiting_on = [s.waiting_on EXCEPT ![p] = "null"],
                      !.has_quantum = [s.has_quantum EXCEPT ![p] = 0],
                      !.priority = [s.priority EXCEPT ![p] = QUANTUM_DEFAULT]]
    BY ONLY DEF clear_scheduling
  <2>2. t = [a EXCEPT !.mode = md, !.parent = pa, !.children = ch,
                      !.waitpid = wp, !.process_count = pc]
    BY ONLY DEF proc_reap
  <2>. HIDE DEF a, t
  <2>3. /\ Shape(a)
        /\ a.status = [s.status EXCEPT ![p] = "FREE"]
        /\ a.block_reason = [s.block_reason EXCEPT ![p] = "NONE"]
        /\ a.waiting_on = [s.waiting_on EXCEPT ![p] = "null"]
        /\ a.has_quantum = [s.has_quantum EXCEPT ![p] = 0]
        /\ a.priority = [s.priority EXCEPT ![p] = QUANTUM_DEFAULT]
        /\ a.parent = s.parent /\ a.ready = s.ready /\ a.current = s.current
        /\ a.blocked = s.blocked /\ a.machine = s.machine
        /\ a.sleepers = s.sleepers /\ a.foreground = s.foreground
    BY ONLY <1>1, <2>1 DEF Shape, Fields
  <2>. HIDE DEF md, pa, ch, wp, pc
  <2>4. /\ Shape(t)
        /\ t.status = a.status /\ t.block_reason = a.block_reason
        /\ t.waiting_on = a.waiting_on /\ t.has_quantum = a.has_quantum
        /\ t.priority = a.priority /\ t.parent = pa
        /\ t.ready = a.ready /\ t.current = a.current /\ t.blocked = a.blocked
        /\ t.machine = a.machine /\ t.sleepers = a.sleepers
        /\ t.foreground = a.foreground
    BY ONLY <2>3, <2>2 DEF Shape, Fields
  <2>. QED BY ONLY <2>3, <2>4 DEF pa
<1>. HIDE DEF t
<1>3. Types(t)
  <2>1. /\ t.has_quantum \in [Pids -> 0..QUANTUM_MAX]
        /\ t.priority \in [Pids -> Priorities]
    BY <1>1, <1>2, PidsLemma DEF Types
  <2>. QED BY <1>1, <1>2, <2>1 DEF Types, Statuses, BlockReasons, WaitingOn
<1>4. Queues(t)
  BY <1>1, <1>2, <1>3, SMTT(30) DEF Queues, Types
<1>5. Core(t)
  BY <1>1, <1>2, <1>4 DEF Core, Types
<1>6. Idle(t)
  BY <1>1, <1>2, PidsLemma DEF Idle, Inv, Types
<1>. QED BY <1>5, <1>6 DEF Inv, t

\* proc_kill, of a process in any state.
LEMMA KillLemma ==
  ASSUME NEW s, Inv(s), NEW p \in Pids \cup {NULL}
  PROVE  Inv(proc_kill(s, p))
<1>1. CASE p \in {NULL, 0, 1}
  BY <1>1 DEF proc_kill
<1>2. CASE p \notin {NULL, 0, 1}
  <2>. DEFINE a == stop(s, p)
              b == reparent_children(a, p)
              m == b.parent[p]
  <2>1. p \in Pids \ {0}
    BY <1>2
  <2>2. Inv(a) /\ a.status[p] = "ZOMBIE" /\ Types(a)
    BY <2>1, StopLemma DEF Inv, Core, Queues
  <2>. HIDE DEF a
  <2>3. SameScheduler(a, b)
    BY <2>1, <2>2, ReparentLemma
  <2>4. Inv(b) /\ b.status[p] = "ZOMBIE" /\ m \in Pids \cup {NULL}
    BY <2>1, <2>2, <2>3, FrameLemma DEF Inv, SameScheduler
  <2>5. proc_kill(s, p) =
          IF m = NULL THEN proc_reap(b, p)
          ELSE IF b.status[m] = "BLOCKED" /\ b.block_reason[m] = "CHILD"
               THEN proc_ready(b, m) ELSE b
    BY <1>2 DEF proc_kill, bury, a
  <2>. HIDE DEF b
  <2>. QED BY <2>1, <2>4, <2>5, ReapLemma, WakeLemma
<1>. QED BY <1>1, <1>2

\* A pass of wait_pid's loop: it returns, collects a zombie or blocks.
LEMMA WaitPassLemma ==
  ASSUME NEW s, Inv(s), s.current \in Pids \ {0}
  PROVE  Inv(wait_pass(s))
<1>. DEFINE p == s.current
            i == collectable(s, p, s.waitpid[p])
            z == s.children[p][i]
            r == [s EXCEPT !.waitpid[p] = NoWait]
<1>1. Types(s) /\ Shape(s) /\ Core(s)
  BY DEF Inv, Core, Queues, Types
<1>2. Inv(r) /\ r.status = s.status
  <2>1. SameScheduler(s, r)
    <3>1. s.parent \in [Pids -> Pids \cup {NULL}] /\ s.foreground \in Pids \cup {NULL}
      BY <1>1 DEF Types
    <3>. QED BY ONLY <1>1, <3>1 DEF SameScheduler, Shape, Fields
  <2>. QED BY <1>1, <2>1, FrameLemma, ZenonT(60) DEF Inv, SameScheduler
<1>3. CASE hopeless(s, p, s.waitpid[p])
  BY <1>2, <1>3 DEF wait_pass
<1>4. CASE ~ hopeless(s, p, s.waitpid[p]) /\ i = 0
  <2>1. wait_pass(s) = block(s, p, "CHILD", "null")
    BY <1>4, PidsLemma DEF wait_pass, block_current
  <2>. QED BY <2>1, BlockLemma DEF BlockReasons, WaitingOn
<1>5. CASE ~ hopeless(s, p, s.waitpid[p]) /\ i # 0
  <2>. DEFINE dead == {j \in {h \in 1..Len(s.children[p]) :
                              s.waitpid[p] = WAIT_ANY \/ s.children[p][h] = s.waitpid[p]} :
                         s.children[p][j] \in Zombies(s)}
  <2>1. i = IF dead = {} THEN 0 ELSE Least(dead)
    BY DEF collectable
  <2>2. dead \in SUBSET Nat /\ dead # {}
    <3>1. dead \subseteq 1..Len(s.children[p])
      OBVIOUS
    <3>2. dead # {}
      <4>. HIDE DEF dead
      <4>. QED BY <1>5, <2>1
    <3>. QED BY <3>1, <3>2
  <2>3. i \in dead
    BY <2>1, <2>2, LeastLemma
  <2>4. z \in Pids /\ s.status[z] = "ZOMBIE"
    BY <2>3 DEF Zombies
  <2>. HIDE DEF i, dead, z
  <2>5. Inv(proc_reap(r, z))
    BY <1>2, <2>4, ReapLemma
  <2>. DEFINE w == proc_reap(r, z)
              cs == close_gap(s.children[p], i)
              t == [w EXCEPT !.children = [w.children EXCEPT ![p] = cs]]
  <2>6. wait_pass(s) = t
    BY <1>5 DEF wait_pass, i, z
  <2>. HIDE DEF w, r, cs
  <2>7. SameScheduler(w, t)
    <3>1. Shape(w) /\ w.parent \in [Pids -> Pids \cup {NULL}]
          /\ w.foreground \in Pids \cup {NULL}
      BY <2>5 DEF Inv, Core, Queues, Types, w
    <3>. QED BY ONLY <3>1 DEF SameScheduler, Shape, Fields
  <2>. HIDE DEF t
  <2>. QED BY <2>5, <2>6, <2>7, FrameLemma DEF Inv, w
<1>. QED BY <1>3, <1>4, <1>5

\* wait_pid from its entry: no children, or a first pass of the loop.
LEMMA WaitPidLemma ==
  ASSUME NEW s, Inv(s), s.current \in Pids \ {0}, NEW pid
  PROVE  Inv(wait_pid(s, pid))
<1>. DEFINE t == [s EXCEPT !.waitpid[s.current] = pid]
<1>1. Types(s) /\ Shape(s) /\ Core(s)
  BY DEF Inv, Core, Queues, Types
<1>2. SameScheduler(s, t)
  <2>1. s.parent \in [Pids -> Pids \cup {NULL}] /\ s.foreground \in Pids \cup {NULL}
    BY <1>1 DEF Types
  <2>. QED BY ONLY <1>1, <2>1 DEF SameScheduler, Shape, Fields
<1>3. wait_pid(s, pid) = IF s.children[s.current] = << >> THEN s ELSE wait_pass(t)
  BY DEF wait_pid
<1>. HIDE DEF t
<1>4. Inv(t) /\ t.current = s.current
  BY <1>1, <1>2, FrameLemma DEF Inv, SameScheduler
<1>. QED BY <1>3, <1>4, WaitPassLemma

\* A fault leaves the scheduler's data alone.
LEMMA FaultLemma ==
  ASSUME NEW s, Core(s)
  PROVE  Core(fault(s)) /\ (Idle(s) => Idle(fault(s)))
<1>. DEFINE t == fault(s)
<1>1. Types(s) /\ Shape(s) /\ Queues(s)
  BY DEF Core, Queues, Types
<1>2. /\ Shape(t)
      /\ t.status = s.status /\ t.ready = s.ready /\ t.current = s.current
      /\ t.block_reason = s.block_reason /\ t.waiting_on = s.waiting_on
      /\ t.has_quantum = s.has_quantum /\ t.priority = s.priority
      /\ t.blocked = s.blocked /\ t.sleepers = s.sleepers
      /\ t.foreground = s.foreground
      /\ t.parent = s.parent /\ t.machine = "fault"
  BY ONLY <1>1 DEF Shape, Fields, fault
<1>. HIDE DEF t
<1>3. Types(t)
  BY <1>1, <1>2 DEF Types
<1>4. Core(t) /\ (Idle(s) => Idle(t))
  BY <1>1, <1>2, <1>3 DEF Core, Queues, Idle
<1>. QED BY <1>4 DEF t

\* The new process is in the table and READY, and in the queue once.
LEMMA SpawnLemma ==
  ASSUME NEW s, Core(s), NEW background
  PROVE  LET t == sys_spawn_process(s, background)
         IN  /\ Core(t)
             /\ Idle(s) => Idle(t)
             /\ /\ ~ s.process_count >= MAX_PROCESSES
                /\ \A u \in Pids : s.status[u] = "FREE"
                => t.status[0] = "READY"
<1>. DEFINE t == sys_spawn_process(s, background)
            p == proc_pid_alloc(s)
            c == s.current
<1>1. Types(s) /\ Shape(s) /\ Queues(s)
  BY DEF Core, Queues, Types
<1>2. CASE s.process_count >= MAX_PROCESSES
  BY <1>2 DEF sys_spawn_process
<1>3. CASE ~ s.process_count >= MAX_PROCESSES /\ p = NULL
  <2>1. t = fault(s)
    BY <1>3 DEF sys_spawn_process
  <2>4. Core(t) /\ (Idle(s) => Idle(t))
    BY <2>1, FaultLemma
  <2>5. ~ \A u \in Pids : s.status[u] = "FREE"
    BY <1>3, LeastLemma, PidsLemma DEF proc_pid_alloc, Alive
  <2>. QED BY <2>4, <2>5 DEF t
<1>4. CASE ~ s.process_count >= MAX_PROCESSES /\ p # NULL
  <2>1. p = Least(Pids \ Alive(s)) /\ Pids \ Alive(s) # {}
    BY <1>4 DEF proc_pid_alloc, Alive
  <2>2. p \in Pids /\ s.status[p] = "FREE"
    BY <2>1, LeastLemma, PidsLemma DEF Alive
  <2>3. (\A u \in Pids : s.status[u] = "FREE") => p = 0
    <3>. SUFFICES ASSUME \A u \in Pids : s.status[u] = "FREE" PROVE p = 0
      OBVIOUS
    <3>1. p = Least(Pids)
      BY <2>1 DEF Alive
    <3>2. \A j \in Pids : 0 <= j
      BY PidsLemma
    <3>3. \E i \in Pids : \A j \in Pids : i <= j
      BY <3>2, PidsLemma
    <3>4. p \in Pids /\ p <= 0
      BY <3>1, <3>3, PidsLemma DEF Least
    <3>. HIDE DEF p
    <3>5. p \in Nat
      BY <3>4, PidsLemma
    <3>. QED BY <3>4, <3>5
  <2>. DEFINE a == IF background THEN s ELSE set_foreground_process(s, p, c)
              b == fill_pcb(a, p, c)
              g == add_child(b, c, p)
  <2>4. t = proc_ready(g, p)
    BY <1>4 DEF sys_spawn_process, proc_init
  <2>5. SameScheduler(s, a)
    <3>1. SameScheduler(s, s)
      BY <1>1 DEF SameScheduler, Types
    <3>. QED BY <1>1, <2>2, <3>1, ForegroundLemma
  <2>. HIDE DEF p, c, a
  <2>6. Types(a)
    BY <1>1, <2>5 DEF Types, SameScheduler
  <2>7. /\ Shape(b)
        /\ b.parent = [a.parent EXCEPT ![p] = c]
        /\ b.priority = [a.priority EXCEPT ![p] = QUANTUM_DEFAULT]
        /\ b.status = [a.status EXCEPT ![p] = "READY"]
        /\ b.block_reason = [a.block_reason EXCEPT ![p] = "NONE"]
        /\ b.waiting_on = [a.waiting_on EXCEPT ![p] = "null"]
        /\ b.has_quantum = a.has_quantum /\ b.ready = a.ready
        /\ b.current = a.current /\ b.blocked = a.blocked
        /\ b.machine = a.machine /\ b.sleepers = a.sleepers /\ b.foreground = a.foreground
    <3>1. Shape(a)
      BY <2>5 DEF SameScheduler
    <3>. QED BY ONLY <3>1, ZenonT(60) DEF fill_pcb, Shape, Fields
  <2>. HIDE DEF b
  <2>8. Types(b)
    <3>1. c \in Pids \cup {NULL}
      BY <1>1 DEF Types, c
    <3>2. b.priority \in [Pids -> Priorities]
      <4>1. a.priority \in [Pids -> Priorities]
        BY <2>6 DEF Types
      <4>2. b.priority = [a.priority EXCEPT ![p] = QUANTUM_DEFAULT]
        BY <2>7
      <4>3. QUANTUM_DEFAULT \in Priorities
        BY PidsLemma
      <4>. QED BY ONLY <4>1, <4>2, <4>3
    <3>3. b.parent \in [Pids -> Pids \cup {NULL}]
      <4>1. a.parent \in [Pids -> Pids \cup {NULL}]
        BY <2>6 DEF Types
      <4>2. b.parent = [a.parent EXCEPT ![p] = c]
        BY <2>7
      <4>. QED BY ONLY <4>1, <4>2, <3>1
    <3>. QED BY <2>2, <2>6, <2>7, <3>2, <3>3 DEF Types, Statuses, BlockReasons, WaitingOn
  <2>9. SameScheduler(b, g)
    <3>1. Shape(b) /\ b.parent \in [Pids -> Pids \cup {NULL}]
          /\ b.foreground \in Pids \cup {NULL}
      BY <2>8 DEF Types
    <3>. QED BY ONLY <3>1 DEF add_child, SameScheduler, Shape, Fields
  <2>. HIDE DEF g
  <2>10. Types(g)
    BY <2>8, <2>9 DEF Types, SameScheduler
  <2>11. /\ g.status = [s.status EXCEPT ![p] = "READY"] /\ g.ready = s.ready
         /\ g.waiting_on = [s.waiting_on EXCEPT ![p] = "null"]
         /\ g.current = s.current /\ g.blocked = s.blocked
         /\ g.machine = s.machine /\ g.sleepers = s.sleepers
    BY <2>5, <2>7, <2>9 DEF SameScheduler
  <2>12. ~ InQueue(s.ready, p)
    BY <1>1, <2>2 DEF Queues
  <2>13. /\ Queues(t) /\ t.status = [g.status EXCEPT ![p] = "READY"]
         /\ t.current = g.current
    <3>1. NoDuplicates(g.ready) /\ ~ InQueue(g.ready, p)
          /\ g.sleepers = << >> /\ g.machine # "panic"
      BY <1>1, <2>11, <2>12 DEF Queues
    <3>2. \A u \in Pids \ {p} :
            /\ g.status[u] = "READY" <=> InQueue(g.ready, u)
            /\ g.status[u] = "READY" => g.waiting_on[u] = "ready"
            /\ g.status[u] = "BLOCKED" => g.blocked[u] > 0
      BY <1>1, <2>2, <2>11 DEF Queues, Types
    <3>. HIDE DEF t
    <3>. QED BY <2>2, <2>4, <2>10, <3>1, <3>2, ProcReadyLemma
  <2>. HIDE DEF t
  <2>14. t.status = [s.status EXCEPT ![p] = "READY"]
    BY <1>1, <2>2, <2>11, <2>13 DEF Types
  <2>15. Core(t)
    BY <1>1, <2>2, <2>11, <2>13, <2>14 DEF Core, Types
  <2>16. Idle(s) => Idle(t)
    BY <1>1, <2>14, PidsLemma DEF Idle, Types
  <2>. QED BY <1>1, <2>2, <2>3, <2>14, <2>15, <2>16 DEF Types, t
<1>. QED BY <1>2, <1>3, <1>4

\* change_priority gives a quantum in the range of the priorities.
LEMMA PriorityLemma ==
  ASSUME NEW s, Inv(s), NEW p \in Pids, NEW v
  PROVE  Inv(change_priority(s, p, v))
<1>1. CASE change_priority(s, p, v) = s
  BY <1>1
<1>2. CASE change_priority(s, p, v) # s
  <2>. DEFINE t == [s EXCEPT !.priority[p] = v, !.has_quantum[p] = v]
  <2>1. change_priority(s, p, v) = t /\ v \in Priorities
    BY <1>2 DEF change_priority
  <2>2. Types(s) /\ Shape(s) /\ Core(s) /\ Queues(s)
    BY DEF Inv, Core, Queues, Types
  <2>3. /\ Shape(t)
        /\ t.priority = [s.priority EXCEPT ![p] = v]
        /\ t.has_quantum = [s.has_quantum EXCEPT ![p] = v]
        /\ t.status = s.status /\ t.ready = s.ready /\ t.current = s.current
        /\ t.block_reason = s.block_reason /\ t.waiting_on = s.waiting_on
        /\ t.blocked = s.blocked /\ t.sleepers = s.sleepers /\ t.foreground = s.foreground
        /\ t.parent = s.parent /\ t.machine = s.machine
    BY ONLY <2>2 DEF Shape, Fields
  <2>. HIDE DEF t
  <2>4. /\ t.has_quantum \in [Pids -> 0..QUANTUM_MAX]
        /\ t.priority \in [Pids -> Priorities]
    <3>1. /\ s.has_quantum \in [Pids -> 0..QUANTUM_MAX]
          /\ s.priority \in [Pids -> Priorities]
      BY <2>2 DEF Types
    <3>2. v \in 0..QUANTUM_MAX
      BY <2>1, PidsLemma
    <3>. QED BY <2>1, <2>3, <3>1, <3>2
  <2>5. Types(t)
    BY <2>2, <2>3, <2>4 DEF Types
  <2>. QED BY <2>1, <2>2, <2>3, <2>5 DEF Inv, Core, Queues, Idle
<1>. QED BY <1>1, <1>2

-----------------------------------------------------------------------------
(***************************************************************************)
(* The state machine.                                                      *)
(***************************************************************************)

\* The queues are empty when the machine starts.
LEMMA PowerOnLemma == Core(PowerOn)
<1>1. Types(PowerOn)
  <2>1. Shape(PowerOn)
    BY DEF PowerOn, Shape, Fields
  <2>2. /\ PowerOn.has_quantum \in [Pids -> 0..QUANTUM_MAX]
        /\ PowerOn.priority \in [Pids -> Priorities]
    BY PidsLemma DEF PowerOn
  <2>. QED BY <2>1, <2>2 DEF PowerOn, Types, Statuses, BlockReasons, WaitingOn
<1>2. Queues(PowerOn)
  <2>1. \A p \in Pids : ~ InQueue(PowerOn.ready, p) /\ PowerOn.status[p] = "FREE"
    BY DEF PowerOn, InQueue
  <2>2. NoDuplicates(PowerOn.ready) /\ PowerOn.sleepers = << >> /\ PowerOn.machine = "up"
    BY DEF PowerOn, NoDuplicates
  <2>. QED BY <1>1, <2>1, <2>2 DEF Queues
<1>. QED BY <1>2, PidsLemma DEF Core, PowerOn

\* main: idle gets pid 0, so that the first timer interrupt finds it.
LEMMA BootLemma ==
  ASSUME NEW background
  PROVE  Inv(main(background))
<1>. DEFINE a == sys_spawn_process(PowerOn, TRUE)
            b == sys_spawn_process(a, background)
<1>1. ~ PowerOn.process_count >= MAX_PROCESSES /\ \A u \in Pids : PowerOn.status[u] = "FREE"
  BY ConstantsAssumption DEF PowerOn
<1>2. Core(a) /\ a.status[0] = "READY"
  BY <1>1, PowerOnLemma, SpawnLemma
<1>. HIDE DEF a
<1>3. Inv(b)
  BY <1>2, SpawnLemma DEF Inv, Idle
<1>. HIDE DEF b
<1>4. Inv(timer_interrupt(b))
  BY <1>3, InvSwitching, TimerLemma
<1>. QED BY <1>4 DEF main, a, b

\* init_main's bookkeeping is invisible to the scheduler.
LEMMA ShellLemma ==
  ASSUME NEW s, Inv(s), NEW v
  PROVE  Inv([s EXCEPT !.shell_pid = v]) /\ Inv(shell_gone(s))
<1>. DEFINE t(x) == [s EXCEPT !.shell_pid = x]
<1>1. Core(s) /\ Shape(s) /\ s.parent \in [Pids -> Pids \cup {NULL}]
      /\ s.foreground \in Pids \cup {NULL}
  BY DEF Inv, Core, Queues, Types
<1>2. ASSUME NEW x PROVE SameScheduler(s, t(x))
  BY ONLY <1>1 DEF SameScheduler, Shape, Fields
<1>3. ASSUME NEW x PROVE Inv(t(x))
  <2>1. SameScheduler(s, t(x))
    BY <1>2
  <2>. HIDE DEF t
  <2>. QED BY <1>1, <2>1, FrameLemma DEF Inv
<1>4. shell_gone(s) \in {t(NULL), s}
  BY DEF shell_gone
<1>. QED BY <1>3, <1>4

\* Every system call and interrupt preserves the invariant.
LEMMA NextLemma ==
  ASSUME Inv(k), [Next]_k
  PROVE  Inv(k')
<1>0. k.current \in Pids \cup {NULL} /\ Switching(k)
  BY InvSwitching DEF Inv, Core, Queues, Types
<1>1. CASE Tick
  BY <1>0, <1>1, TimerLemma DEF Tick
<1>2. CASE Yield
  <2>1. CASE k.current = NULL
    BY <1>0, <1>2, <2>1, TimerLemma DEF Yield, yield
  <2>2. CASE k.current # NULL
    <3>1. k.current \in Pids /\ k.status[k.current] = "RUNNING"
      BY <1>0, <2>2 DEF Inv, Core
    <3>. QED BY <1>2, <3>1, YieldLemma DEF Yield, Inv, Core
  <2>. QED BY <2>1, <2>2
<1>3. CASE Spawn
  BY <1>3, SpawnLemma DEF Spawn, Inv
<1>4. CASE Exit
  <2>1. Inv(proc_kill(k, k.current))
    BY <1>0, KillLemma
  <2>. QED BY <1>4, <2>1, InvSwitching, TimerLemma DEF Exit
<1>5. CASE Kill
  BY <1>5, KillLemma DEF Kill
<1>6. CASE CtrlC
  <2>1. k.foreground \in Pids \cup {NULL}
    BY DEF Inv, Core, Queues, Types
  <2>. QED BY <1>6, <2>1, KillLemma DEF CtrlC
<1>7. CASE Block
  <2>1. PICK p \in Pids \ {0} : k' = block_process_by_pid(k, p)
    BY <1>7 DEF Block
  <2>2. k' \in {k, block(k, p, "ARBITRARY", "null")}
    BY <2>1 DEF block_process_by_pid
  <2>3. Inv(block(k, p, "ARBITRARY", "null"))
    BY BlockLemma DEF BlockReasons, WaitingOn
  <2>. QED BY <2>2, <2>3
<1>8. CASE Unblock
  BY <1>8, WakeLemma DEF Unblock, unblock_process_by_pid
<1>9. CASE ChangePriority
  BY <1>9, PriorityLemma DEF ChangePriority
<1>10. CASE Wait
  <2>1. CASE k.current = NULL
    BY <1>10, <2>1, FaultLemma DEF Wait, Inv
  <2>2. CASE k.current # NULL
    <3>1. k.current \in Pids \ {0}
      BY <1>0, <1>10, <2>2 DEF Wait, Program
    <3>. QED BY <1>10, <2>2, <3>1, WaitPidLemma DEF Wait
  <2>. QED BY <2>1, <2>2
<1>11. CASE InitSpawn
  <2>1. Inv(sys_spawn_process(k, FALSE))
    BY SpawnLemma DEF Inv
  <2>. QED BY <1>11, <2>1, ShellLemma DEF InitSpawn
<1>12. CASE InitWait
  <2>1. k.current \in Pids \ {0}
    BY <1>12, PidsLemma DEF InitWait
  <2>2. Inv(wait_pid(k, WAIT_ANY))
    BY <2>1, WaitPidLemma
  <2>. QED BY <1>12, <2>2, ShellLemma DEF InitWait
<1>13. CASE Resume
  <2>1. Inv(wait_pass(k))
    BY <1>0, <1>13, WaitPassLemma DEF Resume
  <2>. QED BY <1>13, <2>1, ShellLemma DEF Resume
<1>14. CASE Halted \/ UNCHANGED k
  BY <1>14 DEF Halted
<1>. QED BY <1>1, <1>2, <1>3, <1>4, <1>5, <1>6, <1>7, <1>8, <1>9, <1>10,
            <1>11, <1>12, <1>13, <1>14 DEF Next

\* The inductive invariant holds in every reachable state of the kernel.
THEOREM Invariance == Spec => []Inv(k)
<1>1. Init => Inv(k)
  BY BootLemma DEF Init
<1>2. Inv(k) /\ [Next]_k => Inv(k)'
  BY NextLemma
<1>. QED BY <1>1, <1>2, PTL DEF Spec

\* The part of the state the scheduler works on keeps its type, whatever the
\* number of processes and whatever the programs call.
THEOREM TypeCorrect == Spec => []SchedulerTypeOK
<1>1. Inv(k) => SchedulerTypeOK
  BY DEF Inv, Core, Queues, Types, Shape, SchedulerTypeOK
<1>. QED BY <1>1, Invariance, PTL

\* The ready queue, the status fields, the blocked queue and current_process
\* agree in every reachable state: no process is queued twice, lost, or queued
\* while it runs, sleeps or is dead.
THEOREM Consistency == Spec => []SchedulerConsistent
<1>1. Inv(k) => SchedulerConsistent
  BY DEF Inv, Core, Queues, SchedulerConsistent
<1>. QED BY <1>1, Invariance, PTL

\* The loops for ever of schedule and enqueue_next_process are not reachable:
\* idle is always READY or RUNNING.
THEOREM PanicFree == Spec => []NeverPanics
<1>1. Inv(k) => NeverPanics
  BY DEF Inv, Core, Queues, NeverPanics
<1>. QED BY <1>1, Invariance, PTL

-----------------------------------------------------------------------------
(***************************************************************************)
(* What the functions of scheduler.c leave alone.                          *)
(***************************************************************************)

\* The tree, the terminal and the calls to wait_pid are the same in s and t.
SameTree(s, t) ==
  /\ t.children = s.children /\ t.parent = s.parent
  /\ t.mode = s.mode /\ t.foreground = s.foreground
  /\ t.waitpid = s.waitpid /\ t.process_count = s.process_count
  /\ t.shell_pid = s.shell_pid

Stopped == {"FREE", "ZOMBIE", "BLOCKED"}

\* A process that the scheduler may not run stays as it is, the others may run.
SameStatus(s, t, p) ==
  IF s.status[p] \in Stopped
  THEN /\ t.status[p] = s.status[p] /\ t.block_reason[p] = s.block_reason[p]
       /\ t.waiting_on[p] = s.waiting_on[p]
  ELSE t.status[p] \in {"READY", "RUNNING"}

\* A switch of processes and nothing else happened between s and t.
OnlySwitched(s, t) == SameTree(s, t) /\ \A p \in Pids : SameStatus(s, t, p)

\* proc_ready changes the status and the reason of one process.
LEMMA ReadyFrame ==
  ASSUME NEW s, Types(s), NEW p \in Pids
  PROVE  LET t == proc_ready(s, p)
         IN  /\ SameTree(s, t)
             /\ t.status = [s.status EXCEPT ![p] = "READY"]
             /\ t.block_reason = [s.block_reason EXCEPT ![p] = "NONE"]
             /\ t.waiting_on = [s.waiting_on EXCEPT ![p] = "ready"]
<1>1. Shape(s) /\ p # NULL
  BY PidsLemma DEF Types
<1>. QED BY ONLY <1>1 DEF proc_ready, SameTree, Shape, Fields

\* enqueue_next_process changes the status of the process that was READY.
LEMMA NextFrame ==
  ASSUME NEW s, Queues(s), s.ready # << >>
  PROVE  OnlySwitched(s, enqueue_next_process(s))
<1>. DEFINE t == enqueue_next_process(s)
            h == dequeue_value(s.ready)
<1>1. h \in Pids /\ s.status[h] = "READY" /\ Types(s)
  BY DequeueLemma DEF Queues, Types
<1>2. /\ SameTree(s, t)
      /\ t.status = [s.status EXCEPT ![h] = "RUNNING"]
      /\ t.block_reason = s.block_reason /\ t.waiting_on = s.waiting_on
  <2>1. Shape(s)
    BY <1>1 DEF Types
  <2>. QED BY ONLY <2>1, s.ready # << >> DEF enqueue_next_process, SameTree, Shape, Fields
<1>. HIDE DEF t, h
<1>3. ASSUME NEW p \in Pids PROVE SameStatus(s, t, p)
  BY <1>1, <1>2 DEF SameStatus, Types, Statuses, Stopped
<1>. QED BY <1>2, <1>3 DEF OnlySwitched, t

\* What happens between s and u and then between u and t.
LEMMA SwitchedTwice ==
  ASSUME NEW s, NEW u, NEW t, OnlySwitched(s, u), OnlySwitched(u, t)
  PROVE  OnlySwitched(s, t)
BY DEF OnlySwitched, SameTree, SameStatus, Stopped

\* schedule makes a switch at most.
LEMMA ScheduleFrame ==
  ASSUME NEW s, Switching(s)
  PROVE  OnlySwitched(s, schedule(s))
<1>. DEFINE c == s.current
            u == use_quantum(s)
<1>1. Queues(s) /\ Types(s) /\ Shape(s) /\ Idle(s) /\ c \in Pids \cup {NULL}
  BY DEF Switching, Queues, Types
<1>2. CASE s.ready = << >>
  <2>1. s.status[0] = "RUNNING" /\ c = 0
    BY <1>1, <1>2, IdleWaits, PidsLemma DEF Idle, Switching
  <2>2. schedule(s) = [s EXCEPT !.has_quantum[c] = s.priority[c]]
    BY <1>2, <2>1, PidsLemma DEF schedule, keep_running
  <2>3. /\ SameTree(s, schedule(s)) /\ schedule(s).status = s.status
        /\ schedule(s).block_reason = s.block_reason
        /\ schedule(s).waiting_on = s.waiting_on
    BY ONLY <1>1, <2>2 DEF SameTree, Shape, Fields
  <2>. QED BY <1>1, <2>3 DEF OnlySwitched, SameStatus, Types, Statuses, Stopped
<1>3. CASE s.ready # << >> /\ c = NULL
  BY <1>1, <1>3, NextFrame DEF schedule
<1>4. CASE s.ready # << >> /\ c # NULL
  <2>1. c \in Pids
    BY <1>1, <1>4
  <2>2. /\ SameTree(s, u) /\ u.status = s.status /\ u.block_reason = s.block_reason
        /\ u.waiting_on = s.waiting_on /\ u.ready = s.ready /\ u.current = c
        /\ u.sleepers = s.sleepers /\ u.machine = s.machine
    BY ONLY <1>1 DEF use_quantum, SameTree, Shape, Fields
  <2>3. schedule(s) = IF u.has_quantum[c] = 0 THEN switch(u) ELSE u
    BY <1>4 DEF schedule
  <2>4. OnlySwitched(s, u)
    BY <1>1, <2>2 DEF OnlySwitched, SameStatus, Types, Statuses, Stopped
  <2>5. Queues(u)
    BY <1>1, <2>1, UseQuantumLemma
  <2>. HIDE DEF u
  <2>6. CASE u.has_quantum[c] # 0
    BY <2>3, <2>4, <2>6
  <2>7. CASE u.has_quantum[c] = 0 /\ s.status[c] = "BLOCKED"
    <3>1. schedule(s) = enqueue_next_process(u)
      BY <2>2, <2>3, <2>7 DEF switch
    <3>. QED BY <1>4, <2>2, <2>4, <2>5, <3>1, NextFrame, SwitchedTwice
  <2>8. CASE u.has_quantum[c] = 0 /\ s.status[c] = "RUNNING"
    <3>. DEFINE r == proc_ready(u, c)
    <3>1. schedule(s) = enqueue_next_process(r)
      BY <2>2, <2>3, <2>8 DEF switch
    <3>2. ~ InQueue(u.ready, c) /\ Types(u)
      BY <2>1, <2>2, <2>5, <2>8 DEF Queues
    <3>3. /\ Queues(r) /\ r.ready # << >>
          /\ r.status = [u.status EXCEPT ![c] = "READY"]
      <4>. HIDE DEF c
      <4>. QED BY <2>1, <2>5, <3>2, ProcReadyLemma DEF Queues
    <3>4. /\ SameTree(u, r) /\ r.status = [u.status EXCEPT ![c] = "READY"]
          /\ r.block_reason = [u.block_reason EXCEPT ![c] = "NONE"]
          /\ r.waiting_on = [u.waiting_on EXCEPT ![c] = "ready"]
      BY <2>1, <3>2, ReadyFrame
    <3>. HIDE DEF r
    <3>5. OnlySwitched(u, r)
      BY <2>1, <2>2, <2>8, <3>2, <3>4
      DEF OnlySwitched, SameStatus, Types, Statuses, Stopped
    <3>6. OnlySwitched(r, schedule(s))
      BY <3>1, <3>3, NextFrame
    <3>. QED BY <2>4, <3>5, <3>6, SwitchedTwice
  <2>. QED BY <1>4, <2>6, <2>7, <2>8 DEF Switching
<1>. QED BY <1>2, <1>3, <1>4

\* The timer interrupt, when no process sleeps.
LEMMA TimerFrame ==
  ASSUME NEW s, Switching(s)
  PROVE  OnlySwitched(s, timer_interrupt(s))
<1>1. timer_handler(s) = s
  BY DEF timer_handler, Switching, Queues
<1>. QED BY <1>1, ScheduleFrame DEF timer_interrupt

\* yield, from a state in which the running process may be blocked already.
LEMMA YieldFrame ==
  ASSUME NEW s, Queues(s), Idle(s), s.current \in Pids,
         \A p \in Pids : s.status[p] = "RUNNING" => s.current = p,
         s.status[s.current] \in {"RUNNING", "BLOCKED"}
  PROVE  OnlySwitched(s, yield(s))
<1>. DEFINE c == s.current
            t == [s EXCEPT !.has_quantum[c] = 0]
<1>1. Shape(s) /\ Types(s)
  BY DEF Queues, Types
<1>2. /\ Shape(t) /\ SameTree(s, t)
      /\ t.has_quantum = [s.has_quantum EXCEPT ![c] = 0]
      /\ t.status = s.status /\ t.ready = s.ready /\ t.current = c
      /\ t.block_reason = s.block_reason /\ t.waiting_on = s.waiting_on
      /\ t.blocked = s.blocked /\ t.priority = s.priority
      /\ t.machine = s.machine /\ t.sleepers = s.sleepers
  BY ONLY <1>1 DEF Shape, Fields, SameTree
<1>3. yield(s) = timer_interrupt(t)
  BY PidsLemma DEF yield
<1>. HIDE DEF t
<1>4. Types(t)
  BY <1>1, <1>2, PidsLemma DEF Types, SameTree
<1>5. Switching(t)
  BY <1>1, <1>2, <1>4 DEF Queues, Switching, Idle, Types
<1>6. OnlySwitched(s, t)
  BY <1>1, <1>2 DEF OnlySwitched, SameStatus, Types, Statuses, Stopped
<1>. QED BY <1>3, <1>5, <1>6, TimerFrame, SwitchedTwice

\* block stops one process, for the given reason; the others may be switched.
LEMMA BlockFrame ==
  ASSUME NEW s, Inv(s), NEW p \in Pids \ {0}, NEW reason \in BlockReasons,
         NEW resource \in WaitingOn
  PROVE  LET t == block(s, p, reason, resource)
         IN  /\ SameTree(s, t)
             /\ t.status[p] = "BLOCKED" /\ t.block_reason[p] = reason
             /\ t.waiting_on[p] = resource
             /\ \A u \in Pids \ {p} : SameStatus(s, t, u)
<1>. DEFINE m == mark_blocked(s, p, reason, resource)
            t == block(s, p, reason, resource)
<1>1. Types(s) /\ Shape(s)
  BY DEF Inv, Core, Queues, Types
<1>2. /\ SameTree(s, m) /\ m.current = s.current
      /\ m.status = [s.status EXCEPT ![p] = "BLOCKED"]
      /\ m.block_reason = [s.block_reason EXCEPT ![p] = reason]
      /\ m.waiting_on = [s.waiting_on EXCEPT ![p] = resource]
  BY ONLY <1>1 DEF mark_blocked, SameTree, Shape, Fields
<1>3. t = IF s.current = p THEN yield(m) ELSE m
  BY DEF block
<1>4. Queues(m) /\ Idle(m)
  BY MarkBlockedLemma
<1>. HIDE DEF m, t
<1>5. \A u \in Pids : IF u = p THEN /\ m.status[u] = "BLOCKED" /\ m.block_reason[u] = reason
                                     /\ m.waiting_on[u] = resource
                      ELSE SameStatus(s, m, u)
  BY <1>1, <1>2 DEF SameStatus, Types, Statuses, Stopped
<1>6. CASE s.current = p
  <2>1. /\ m.current \in Pids /\ m.status[m.current] = "BLOCKED"
        /\ \A u \in Pids : m.status[u] = "RUNNING" => m.current = u
    BY <1>1, <1>2, <1>6 DEF Inv, Core, Types
  <2>2. OnlySwitched(m, t)
    BY <1>3, <1>4, <1>6, <2>1, YieldFrame
  <2>. QED BY <1>2, <1>5, <2>2 DEF OnlySwitched, SameStatus, SameTree, Stopped, t
<1>7. CASE s.current # p
  BY <1>2, <1>3, <1>5, <1>7 DEF t
<1>. QED BY <1>6, <1>7

-----------------------------------------------------------------------------
(***************************************************************************)
(* The inductive invariant.                                                *)
(***************************************************************************)

Living(s) == {p \in Pids : s.status[p] \notin {"FREE", "ZOMBIE"}}

TreeTypes(s) ==
  /\ s.mode \in [Pids -> {"BG", "FG"}]
  /\ s.children \in [Pids -> Seq(Pids)]
  /\ s.waitpid \in [Pids -> Pids \cup {NoWait, WAIT_ANY}]
  /\ s.shell_pid \in Pids \cup {NULL}
  /\ s.process_count \in Int /\ s.process_count <= 0

\* The lists of the dead are stale, and nobody has a dead parent: proc_kill hands
\* the children to init before anyone can look.  A slot that is not used has
\* no list.
Tree(s) ==
  /\ \A p \in Pids : NoDuplicates(s.children[p])
  /\ \A p \in Living(s), c \in Pids :
       InQueue(s.children[p], c) <=> c \in Alive(s) /\ s.parent[c] = p
  /\ \A c \in Alive(s) : s.parent[c] # NULL => s.parent[c] \in Living(s) \ {c}
  /\ \A p \in Pids \ Alive(s) : s.children[p] = << >> /\ s.mode[p] = "BG"

\* D holds the processes that were started by a program already dead, and
\* whatever descends from them: none of them ever gets the terminal.
Detached(s, D) ==
  /\ \A p \in Alive(s) \ {0, 1} : s.parent[p] \in D \cup {NULL} => p \in D
  /\ \A p \in D : p \notin {0, 1} /\ s.mode[p] = "BG"

\* The process that owns the terminal is alive, and gives it back when it dies.
TerminalOwner(s) ==
  /\ s.foreground # NULL => s.foreground \in Living(s) /\ s.mode[s.foreground] = "FG"
  /\ \E D \in SUBSET Pids : Detached(s, D)

BlockedInWait(s, p) == s.status[p] = "BLOCKED" /\ s.block_reason[p] = "CHILD"

\* Process p, inside wait_pid, has a child to wait for and none to collect.
Expecting(s, p) ==
  /\ \A c \in Pids :
       /\ c \in Alive(s) /\ s.parent[c] = p
       /\ s.waitpid[p] \in {WAIT_ANY, c}
       => s.status[c] # "ZOMBIE"
  /\ s.waitpid[p] # WAIT_ANY =>
       s.waitpid[p] \in Alive(s) /\ s.parent[s.waitpid[p]] = p

WaitCalls(s) == \A p \in Pids \ {1} : BlockedInWait(s, p) => Expecting(s, p)

Root(s) == 1 \in Living(s) /\ s.parent[1] = NULL

Kin(s) == TreeTypes(s) /\ Tree(s) /\ TerminalOwner(s)

Family(s) == Kin(s) /\ Root(s) /\ WaitCalls(s)

-----------------------------------------------------------------------------
(***************************************************************************)
(* Lists of children.                                                      *)
(***************************************************************************)

\* A list that names nobody twice has room for whoever it does not name.
LEMMA RoomLemma ==
  ASSUME NEW q \in Seq(Pids), NoDuplicates(q)
  PROVE  /\ Len(q) <= MAX_PROCESSES
         /\ \A c \in Pids : ~ InQueue(q, c) => Len(q) < MAX_PROCESSES
<1>1. ASSUME NEW r \in Seq(Pids), NoDuplicates(r) PROVE Len(r) <= MAX_PROCESSES
  <2>1. IsFiniteSet(Pids) /\ Cardinality(Pids) = MAX_PROCESSES
    <3>1. 0 \in Int /\ MAX_PROCESSES - 1 \in Int /\ ~ 0 > MAX_PROCESSES - 1
          /\ (MAX_PROCESSES - 1) - 0 + 1 = MAX_PROCESSES
      BY ConstantsAssumption
    <3>2. /\ IsFiniteSet(0..(MAX_PROCESSES - 1))
          /\ Cardinality(0..(MAX_PROCESSES - 1)) =
               IF 0 > MAX_PROCESSES - 1 THEN 0 ELSE (MAX_PROCESSES - 1) - 0 + 1
      BY <3>1, FS_Interval, ZenonT(30)
    <3>. QED BY <3>1, <3>2, Zenon DEF Pids
  <2>2. IsFiniteSet(1..Len(r)) /\ Cardinality(1..Len(r)) = Len(r)
    <3>1. 1 \in Int /\ Len(r) \in Int /\ (IF 1 > Len(r) THEN 0 ELSE Len(r) - 1 + 1) = Len(r)
      BY <1>1
    <3>2. /\ IsFiniteSet(1..Len(r))
          /\ Cardinality(1..Len(r)) = IF 1 > Len(r) THEN 0 ELSE Len(r) - 1 + 1
      BY <3>1, FS_Interval, ZenonT(30)
    <3>. QED BY <3>1, <3>2
  <2>3. r \in [1..Len(r) -> Pids]
    BY <1>1
  <2>4. \A x, y \in 1..Len(r) : r[x] = r[y] => x = y
    BY <1>1 DEF NoDuplicates
  <2>5. Len(r) \in Nat /\ MAX_PROCESSES \in Nat
    BY <1>1, ConstantsAssumption
  <2>6. ~ (MAX_PROCESSES < Len(r))
    <3>. SUFFICES ASSUME MAX_PROCESSES < Len(r) PROVE FALSE
      OBVIOUS
    <3>1. Cardinality(Pids) < Cardinality(1..Len(r))
      BY <2>1, <2>2
    <3>2. \E x, y \in 1..Len(r) : x # y /\ r[x] = r[y]
      BY ONLY <2>1, <2>2, <2>3, <3>1, FS_PigeonHole, ZenonT(30)
    <3>. QED BY <2>4, <3>2
  <2>. QED BY <2>5, <2>6
<1>2. ASSUME NEW c \in Pids, ~ InQueue(q, c) PROVE Len(q) < MAX_PROCESSES
  <2>1. enqueue(q, c) \in Seq(Pids) /\ NoDuplicates(enqueue(q, c))
    BY <1>2, EnqueueLemma
  <2>2. Len(enqueue(q, c)) <= MAX_PROCESSES
    BY <1>1, <2>1
  <2>3. Len(enqueue(q, c)) = Len(q) + 1 /\ Len(q) \in Nat
    BY DEF enqueue
  <2>. QED BY <2>2, <2>3, ConstantsAssumption
<1>. QED BY <1>1, <1>2

\* Two lists one after the other (proc_kill, the loop of reparent_to_init).
LEMMA ConcatLemma ==
  ASSUME NEW S, NEW q \in Seq(S), NEW r \in Seq(S),
         NoDuplicates(q), NoDuplicates(r),
         \A u : ~ (InQueue(q, u) /\ InQueue(r, u))
  PROVE  /\ q \o r \in Seq(S)
         /\ NoDuplicates(q \o r)
         /\ \A u : InQueue(q \o r, u) <=> InQueue(q, u) \/ InQueue(r, u)
<1>. DEFINE l == q \o r
<1>1. /\ l \in Seq(S) /\ Len(l) = Len(q) + Len(r)
      /\ Len(q) \in Nat /\ Len(r) \in Nat
      /\ \A i \in 1..Len(l) : l[i] = IF i <= Len(q) THEN q[i] ELSE r[i - Len(q)]
  OBVIOUS
<1>. HIDE DEF l
<1>2. ASSUME NEW i \in 1..Len(l), NEW j \in 1..Len(l), l[i] = l[j] PROVE i = j
  <2>1. CASE i <= Len(q) /\ j <= Len(q)
    BY <1>1, <1>2, <2>1 DEF NoDuplicates
  <2>2. CASE i > Len(q) /\ j > Len(q)
    <3>1. /\ i - Len(q) \in 1..Len(r) /\ j - Len(q) \in 1..Len(r)
          /\ r[i - Len(q)] = r[j - Len(q)]
      BY <1>1, <1>2, <2>2
    <3>2. i - Len(q) = j - Len(q)
      BY <3>1 DEF NoDuplicates
    <3>. QED BY <1>1, <3>2
  <2>3. CASE i <= Len(q) /\ j > Len(q)
    <3>1. i \in 1..Len(q) /\ j - Len(q) \in 1..Len(r) /\ q[i] = r[j - Len(q)]
      BY <1>1, <1>2, <2>3
    <3>. QED BY <3>1 DEF InQueue
  <2>4. CASE i > Len(q) /\ j <= Len(q)
    <3>1. j \in 1..Len(q) /\ i - Len(q) \in 1..Len(r) /\ q[j] = r[i - Len(q)]
      BY <1>1, <1>2, <2>4
    <3>. QED BY <3>1 DEF InQueue
  <2>. QED BY <1>1, <2>1, <2>2, <2>3, <2>4
<1>3. ASSUME NEW u, InQueue(l, u) PROVE InQueue(q, u) \/ InQueue(r, u)
  <2>1. PICK i \in 1..Len(l) : l[i] = u
    BY <1>3 DEF InQueue
  <2>2. CASE i <= Len(q)
    BY <1>1, <2>1, <2>2 DEF InQueue
  <2>3. CASE i > Len(q)
    <3>1. i - Len(q) \in 1..Len(r) /\ r[i - Len(q)] = u
      BY <1>1, <2>1, <2>3
    <3>. QED BY <3>1 DEF InQueue
  <2>. QED BY <1>1, <2>2, <2>3
<1>4. ASSUME NEW u, InQueue(q, u) PROVE InQueue(l, u)
  <2>1. PICK i \in 1..Len(q) : q[i] = u
    BY <1>4 DEF InQueue
  <2>2. i \in 1..Len(l) /\ l[i] = u
    BY <1>1, <2>1
  <2>. QED BY <2>2 DEF InQueue
<1>5. ASSUME NEW u, InQueue(r, u) PROVE InQueue(l, u)
  <2>1. PICK i \in 1..Len(r) : r[i] = u
    BY <1>5 DEF InQueue
  <2>2. /\ i + Len(q) \in 1..Len(l) /\ ~ i + Len(q) <= Len(q)
        /\ (i + Len(q)) - Len(q) = i
    BY <1>1, <2>1
  <2>3. l[i + Len(q)] = u
    BY <1>1, <2>1, <2>2
  <2>. QED BY <2>2, <2>3 DEF InQueue
<1>6. NoDuplicates(l)
  BY <1>2 DEF NoDuplicates
<1>. QED BY <1>1, <1>3, <1>4, <1>5, <1>6 DEF l

\* wait_pid takes the i-th child out of the list and keeps the others.
LEMMA CloseGapLemma ==
  ASSUME NEW S, NEW q \in Seq(S), NoDuplicates(q), NEW n \in 1..Len(q)
  PROVE  /\ close_gap(q, n) \in Seq(S)
         /\ NoDuplicates(close_gap(q, n))
         /\ \A u : InQueue(close_gap(q, n), u) <=> InQueue(q, u) /\ u # q[n]
<1>. DEFINE r == close_gap(q, n)
<1>1. \A i \in 1..(Len(q) - 1) : (IF i < n THEN q[i] ELSE q[i + 1]) \in S
  OBVIOUS
<1>2. /\ r \in Seq(S) /\ Len(r) = Len(q) - 1
      /\ \A i \in 1..Len(r) : r[i] = IF i < n THEN q[i] ELSE q[i + 1]
  BY <1>1 DEF close_gap
<1>. HIDE DEF r
<1>3. NoDuplicates(r)
  BY <1>2 DEF NoDuplicates
<1>4. \A u : InQueue(r, u) => InQueue(q, u) /\ u # q[n]
  BY <1>2 DEF InQueue, NoDuplicates
<1>5. ASSUME NEW u, InQueue(q, u), u # q[n] PROVE InQueue(r, u)
  <2>1. PICK i \in 1..Len(q) : q[i] = u
    BY <1>5 DEF InQueue
  <2>2. CASE i < n
    <3>1. i \in 1..Len(r) /\ r[i] = u
      BY <1>2, <2>1, <2>2
    <3>. QED BY <3>1 DEF InQueue
  <2>3. CASE i > n
    <3>1. i - 1 \in 1..Len(r) /\ r[i - 1] = u
      BY <1>2, <2>1, <2>3
    <3>. QED BY <3>1 DEF InQueue
  <2>. QED BY <1>5, <2>1, <2>2, <2>3
<1>. QED BY <1>2, <1>3, <1>4, <1>5 DEF r

-----------------------------------------------------------------------------
(***************************************************************************)
(* What the functions of process.c and tty.c do to the tree.               *)
(***************************************************************************)

\* As SameTree, but for the terminal.
SameKin(s, t) ==
  /\ t.children = s.children /\ t.parent = s.parent
  /\ t.waitpid = s.waitpid /\ t.process_count = s.process_count
  /\ t.shell_pid = s.shell_pid

\* The three ways set_foreground_process ends: nothing changes, init takes the
\* terminal, or the caller had it and gives it to proc.
Ceded(s, t, proc, caller) ==
  \/ /\ t.mode = s.mode /\ t.foreground = s.foreground
     /\ proc = NULL \/ (proc # 1 /\ (caller = NULL \/ s.mode[caller] # "FG"))
  \/ /\ proc = 1
     /\ t.mode = [s.mode EXCEPT ![1] = "FG"] /\ t.foreground = 1
  \/ /\ proc \notin {NULL, 1} /\ caller # NULL /\ s.mode[caller] = "FG"
     /\ t.mode = [[s.mode EXCEPT ![caller] = "BG"] EXCEPT ![proc] = "FG"]
     /\ t.foreground = proc

LEMMA ForegroundFrame ==
  ASSUME NEW s, Shape(s), NEW proc, NEW caller
  PROVE  LET t == set_foreground_process(s, proc, caller)
         IN  SameKin(s, t) /\ Ceded(s, t, proc, caller)
<1>. DEFINE t == set_foreground_process(s, proc, caller)
<1>1. CASE proc = NULL \/ (proc # 1 /\ (caller = NULL \/ s.mode[caller] # "FG"))
  <2>1. t = s
    BY <1>1 DEF set_foreground_process, NULL
  <2>. QED BY <1>1, <2>1 DEF SameKin, Ceded
<1>2. CASE proc = 1
  <2>1. t = [s EXCEPT !.foreground = 1, !.mode = [s.mode EXCEPT ![1] = "FG"]]
    BY <1>2 DEF set_foreground_process, NULL
  <2>2. /\ SameKin(s, t) /\ t.mode = [s.mode EXCEPT ![1] = "FG"] /\ t.foreground = 1
    BY ONLY Shape(s), <2>1 DEF SameKin, Shape, Fields
  <2>. QED BY <1>2, <2>2 DEF Ceded
<1>3. CASE proc \notin {NULL, 1} /\ caller # NULL /\ s.mode[caller] = "FG"
  <2>. DEFINE md == [[s.mode EXCEPT ![caller] = "BG"] EXCEPT ![proc] = "FG"]
  <2>1. t = [s EXCEPT !.mode = md, !.foreground = proc]
    <3>1. t = [s EXCEPT !.mode[caller] = "BG", !.mode[proc] = "FG", !.foreground = proc]
      BY <1>3 DEF set_foreground_process
    <3>. QED BY ONLY <3>1, Shape(s) DEF Shape, Fields
  <2>2. SameKin(s, t) /\ t.mode = md /\ t.foreground = proc
    BY ONLY Shape(s), <2>1 DEF SameKin, Shape, Fields
  <2>. QED BY <1>3, <2>2 DEF Ceded
<1>. QED BY <1>1, <1>2, <1>3

\* The first half of proc_kill.
LEMMA StopFrame ==
  ASSUME NEW s, Types(s), NEW p \in Pids
  PROVE  LET t == stop(s, p)
         IN  /\ Ceded(s, t, s.parent[p], p)
             /\ t.children = s.children /\ t.parent = s.parent
             /\ t.process_count = s.process_count /\ t.shell_pid = s.shell_pid
             /\ t.waitpid = [s.waitpid EXCEPT ![p] = NoWait]
             /\ t.status = [s.status EXCEPT ![p] = "ZOMBIE"]
             /\ t.block_reason = s.block_reason /\ t.waiting_on = s.waiting_on
             /\ t.current = IF s.status[p] = "RUNNING" THEN NULL ELSE s.current
<1>. DEFINE a == set_foreground_process(s, s.parent[p], p)
            b == IF s.status[p] = "RUNNING" THEN [a EXCEPT !.current = NULL] ELSE a
            q == IF s.waiting_on[p] = "ready" THEN queue_remove(s.ready, p) ELSE s.ready
            t == stop(s, p)
<1>1. Shape(s) /\ s.parent[p] \in Pids \cup {NULL}
  BY DEF Types
<1>2. SameKin(s, a) /\ Ceded(s, a, s.parent[p], p)
  BY <1>1, ForegroundFrame
<1>3. SameScheduler(s, a)
  BY <1>1, ForegroundLemma
<1>4. t = [b EXCEPT !.ready = q,
                    !.status = [b.status EXCEPT ![p] = "ZOMBIE"],
                    !.waitpid = [b.waitpid EXCEPT ![p] = NoWait]]
  BY DEF stop, sched_rm_current
<1>. HIDE DEF a, q, t
<1>5. /\ Shape(b) /\ SameKin(a, b) /\ b.mode = a.mode /\ b.foreground = a.foreground
      /\ b.status = a.status /\ b.block_reason = a.block_reason
      /\ b.waiting_on = a.waiting_on
      /\ b.current = IF s.status[p] = "RUNNING" THEN NULL ELSE a.current
  <2>1. Shape(a)
    BY <1>3 DEF SameScheduler
  <2>. QED BY ONLY <2>1 DEF SameKin, Shape, Fields
<1>. HIDE DEF b
<1>6. /\ t.children = b.children /\ t.parent = b.parent /\ t.mode = b.mode
      /\ t.foreground = b.foreground /\ t.current = b.current
      /\ t.process_count = b.process_count /\ t.shell_pid = b.shell_pid
      /\ t.waitpid = [b.waitpid EXCEPT ![p] = NoWait]
      /\ t.status = [b.status EXCEPT ![p] = "ZOMBIE"]
      /\ t.block_reason = b.block_reason /\ t.waiting_on = b.waiting_on
  BY ONLY <1>4, <1>5 DEF Shape, Fields
<1>. QED BY <1>2, <1>3, <1>5, <1>6 DEF SameKin, SameScheduler, Ceded, t

\* proc_reap empties the slot.
LEMMA ReapFrame ==
  ASSUME NEW s, Shape(s), NEW p
  PROVE  LET t == proc_reap(s, p)
         IN  /\ t.children = [s.children EXCEPT ![p] = << >>]
             /\ t.parent = [s.parent EXCEPT ![p] = NULL]
             /\ t.mode = [s.mode EXCEPT ![p] = "BG"]
             /\ t.waitpid = [s.waitpid EXCEPT ![p] = NoWait]
             /\ t.process_count = s.process_count - 1
             /\ t.foreground = s.foreground /\ t.shell_pid = s.shell_pid
             /\ t.status = [s.status EXCEPT ![p] = "FREE"]
             /\ t.block_reason = [s.block_reason EXCEPT ![p] = "NONE"]
             /\ t.waiting_on = [s.waiting_on EXCEPT ![p] = "null"]
             /\ t.current = s.current
<1>. DEFINE a == clear_scheduling(s, p)
            t == proc_reap(s, p)
<1>1. /\ Shape(a) /\ SameTree(s, a) /\ a.current = s.current
      /\ a.status = [s.status EXCEPT ![p] = "FREE"]
      /\ a.block_reason = [s.block_reason EXCEPT ![p] = "NONE"]
      /\ a.waiting_on = [s.waiting_on EXCEPT ![p] = "null"]
  BY ONLY Shape(s), ZenonT(60) DEF clear_scheduling, SameTree, Shape, Fields
<1>2. t = [a EXCEPT !.mode = [a.mode EXCEPT ![p] = "BG"],
                    !.parent = [a.parent EXCEPT ![p] = NULL],
                    !.children = [a.children EXCEPT ![p] = << >>],
                    !.waitpid = [a.waitpid EXCEPT ![p] = NoWait],
                    !.process_count = s.process_count - 1]
  BY ONLY DEF proc_reap
<1>. HIDE DEF a, t
<1>3. /\ t.mode = [a.mode EXCEPT ![p] = "BG"]
      /\ t.parent = [a.parent EXCEPT ![p] = NULL]
      /\ t.children = [a.children EXCEPT ![p] = << >>]
      /\ t.waitpid = [a.waitpid EXCEPT ![p] = NoWait]
      /\ t.process_count = s.process_count - 1
      /\ t.foreground = a.foreground /\ t.shell_pid = a.shell_pid
      /\ t.status = a.status /\ t.block_reason = a.block_reason
      /\ t.waiting_on = a.waiting_on /\ t.current = a.current
  BY ONLY <1>1, <1>2 DEF Shape, Fields
<1>. QED BY <1>1, <1>3 DEF SameTree, t

\* The children of p, all of them in the table, go to init, whose list has room.
LEMMA ReparentFrame ==
  ASSUME NEW s, Types(s), NEW p \in Pids \ {1}, TreeTypes(s),
         NoDuplicates(s.children[1]), NoDuplicates(s.children[p]),
         \A c \in Pids : ~ (InQueue(s.children[1], c) /\ InQueue(s.children[p], c)),
         \A c \in Pids : InQueue(s.children[p], c) => c \in Alive(s)
  PROVE  LET t == reparent_children(s, p)
             l == s.children[1] \o s.children[p]
         IN  /\ t.children = [s.children EXCEPT ![1] = l]
             /\ l \in Seq(Pids) /\ NoDuplicates(l)
             /\ \A c \in Pids : InQueue(l, c) <=>
                  InQueue(s.children[1], c) \/ InQueue(s.children[p], c)
             /\ t.parent = [c \in Pids |-> IF InQueue(s.children[p], c) THEN 1
                                           ELSE s.parent[c]]
             /\ t.mode = s.mode /\ t.foreground = s.foreground
             /\ t.waitpid = s.waitpid /\ t.process_count = s.process_count
             /\ t.shell_pid = s.shell_pid
<1>. DEFINE t == reparent_children(s, p)
            a == s.children[1]
            b == s.children[p]
            l == a \o b
<1>1. a \in Seq(Pids) /\ b \in Seq(Pids)
  BY PidsLemma DEF TreeTypes
<1>2. \A u : InQueue(b, u) => u \in Pids
  BY <1>1 DEF InQueue
<1>3. /\ l \in Seq(Pids) /\ NoDuplicates(l)
      /\ \A u : InQueue(l, u) <=> InQueue(a, u) \/ InQueue(b, u)
  BY <1>1, <1>2, ConcatLemma
<1>4. Len(l) <= MAX_PROCESSES /\ Len(l) \in Nat
  <2>. HIDE DEF l
  <2>. QED BY <1>3, RoomLemma
<1>5. orphans(s, p) = b
  <2>1. \A i \in 1..Len(b) : b[i] \in Alive(s)
    <3>. SUFFICES ASSUME NEW i \in 1..Len(b) PROVE b[i] \in Alive(s)
      OBVIOUS
    <3>1. b[i] \in Pids /\ InQueue(b, b[i])
      BY <1>1 DEF InQueue
    <3>. QED BY <3>1
  <2>. QED BY <2>1 DEF orphans
<1>. DEFINE away(c) == \E i \in (MAX_PROCESSES + 1)..Len(l) : l[i] = c
            fathers == [c \in Pids |-> IF InQueue(b, c) THEN 1 ELSE s.parent[c]]
            kin == [s.children EXCEPT ![1] = l]
<1>6. t = [s EXCEPT !.children = kin, !.parent = fathers]
  <2>1. \A c : ~ away(c)
    <3>1. (MAX_PROCESSES + 1)..Len(l) = {}
      <4>. HIDE DEF l
      <4>. QED BY <1>4, ConstantsAssumption
    <3>. QED BY <3>1
  <2>2. t = [s EXCEPT
               !.children[1] = IF Len(l) <= MAX_PROCESSES THEN l
                               ELSE SubSeq(l, 1, MAX_PROCESSES),
               !.parent = [c \in Pids |-> IF ~ InQueue(b, c) THEN s.parent[c]
                                          ELSE IF away(c) THEN NULL ELSE 1]]
    BY <1>5 DEF reparent_children
  <2>. HIDE DEF away, l, a, b
  <2>3. [c \in Pids |-> IF ~ InQueue(b, c) THEN s.parent[c]
                        ELSE IF away(c) THEN NULL ELSE 1] = fathers
    BY <2>1
  <2>. HIDE DEF fathers
  <2>. QED BY <1>4, <2>2, <2>3
<1>7. /\ t.children = kin /\ t.parent = fathers
      /\ t.mode = s.mode /\ t.foreground = s.foreground
      /\ t.waitpid = s.waitpid /\ t.process_count = s.process_count
      /\ t.shell_pid = s.shell_pid
  <2>1. Shape(s)
    BY DEF Types
  <2>. HIDE DEF kin, fathers, t
  <2>. QED BY ONLY <1>6, <2>1 DEF Shape, Fields
<1>. QED BY <1>3, <1>7

-----------------------------------------------------------------------------
(***************************************************************************)
(* The invariant, call by call.                                            *)
(***************************************************************************)

\* Between s and t only those slots became free that nobody but the running
\* process, or nobody at all, is the parent of.
ReapsOwn(s, t) ==
  \A p \in Pids : s.status[p] = "ZOMBIE" /\ t.status[p] = "FREE" =>
                    s.parent[p] \in {NULL, s.current}

\* A handler that leaves the tree and the dead alone, and after which only such
\* processes wait for a child as may.
LEMMA FamilyFrame ==
  ASSUME NEW s, NEW t, Kin(s), Root(s), SameTree(s, t),
         \A p \in Pids : /\ t.status[p] = "FREE" <=> s.status[p] = "FREE"
                         /\ t.status[p] = "ZOMBIE" <=> s.status[p] = "ZOMBIE",
         \A p \in Pids \ {1} : BlockedInWait(t, p) => Expecting(s, p)
  PROVE  Family(t) /\ ReapsOwn(s, t)
<1>1. Living(t) = Living(s) /\ Alive(t) = Alive(s)
  BY DEF Living, Alive
<1>2. TreeTypes(t)
  BY DEF Kin, TreeTypes, SameTree
<1>3. Tree(t)
  BY <1>1 DEF Kin, Tree, SameTree
<1>4. TerminalOwner(t)
  <2>1. PICK D \in SUBSET Pids : Detached(s, D)
    BY DEF Kin, TerminalOwner
  <2>2. Detached(t, D)
    BY <1>1, <2>1 DEF Detached, SameTree
  <2>. QED BY <1>1, <2>2 DEF Kin, TerminalOwner, SameTree
<1>5. WaitCalls(t)
  BY <1>1 DEF WaitCalls, Expecting, SameTree
<1>. QED BY <1>1, <1>2, <1>3, <1>4, <1>5 DEF Family, Kin, Root, SameTree, ReapsOwn

\* A switch of processes.
LEMMA FamilySwitch ==
  ASSUME NEW s, NEW t, Family(s), Types(s), OnlySwitched(s, t)
  PROVE  Family(t) /\ ReapsOwn(s, t)
<1>1. \A p \in Pids : /\ t.status[p] = "FREE" <=> s.status[p] = "FREE"
                      /\ t.status[p] = "ZOMBIE" <=> s.status[p] = "ZOMBIE"
  BY DEF OnlySwitched, SameStatus, Stopped, Types, Statuses
<1>2. \A p \in Pids : BlockedInWait(t, p) => BlockedInWait(s, p)
  BY DEF OnlySwitched, SameStatus, Stopped, Types, Statuses, BlockedInWait
<1>. QED BY <1>1, <1>2, FamilyFrame DEF OnlySwitched, Family, WaitCalls

\* A process is woken.
LEMMA FamilyWake ==
  ASSUME NEW s, Family(s), Inv(s), NEW p \in Pids, s.status[p] = "BLOCKED"
  PROVE  Family(proc_ready(s, p)) /\ ReapsOwn(s, proc_ready(s, p))
<1>. DEFINE t == proc_ready(s, p)
<1>1. Types(s)
  BY DEF Inv, Core, Queues
<1>2. /\ SameTree(s, t) /\ t.status = [s.status EXCEPT ![p] = "READY"]
      /\ t.block_reason = [s.block_reason EXCEPT ![p] = "NONE"]
  BY <1>1, ReadyFrame
<1>. HIDE DEF t
<1>3. \A u \in Pids : /\ t.status[u] = "FREE" <=> s.status[u] = "FREE"
                      /\ t.status[u] = "ZOMBIE" <=> s.status[u] = "ZOMBIE"
                      /\ BlockedInWait(t, u) => BlockedInWait(s, u)
  BY <1>1, <1>2 DEF Types, BlockedInWait
<1>4. Family(t) /\ ReapsOwn(s, t)
  BY <1>2, <1>3, FamilyFrame DEF Family, WaitCalls
<1>. QED BY <1>4 DEF t

\* A living process is blocked, for its own call to wait_pid only if that has
\* something to wait for.
LEMMA FamilyBlock ==
  ASSUME NEW s, Family(s), Inv(s), NEW p \in Living(s) \ {0},
         NEW reason \in BlockReasons, NEW resource \in WaitingOn,
         p = 1 \/ reason # "CHILD" \/ Expecting(s, p)
  PROVE  LET t == block(s, p, reason, resource)
         IN  Family(t) /\ ReapsOwn(s, t)
<1>. DEFINE t == block(s, p, reason, resource)
<1>1. Types(s) /\ p \in Pids \ {0}
  BY DEF Inv, Core, Queues, Living
<1>2. /\ SameTree(s, t)
      /\ t.status[p] = "BLOCKED" /\ t.block_reason[p] = reason
      /\ \A u \in Pids \ {p} : SameStatus(s, t, u)
  BY <1>1, BlockFrame
<1>. HIDE DEF t
<1>3. \A u \in Pids : /\ t.status[u] = "FREE" <=> s.status[u] = "FREE"
                      /\ t.status[u] = "ZOMBIE" <=> s.status[u] = "ZOMBIE"
                      /\ u # p /\ BlockedInWait(t, u) => BlockedInWait(s, u)
  <2>. SUFFICES ASSUME NEW u \in Pids
                PROVE  /\ t.status[u] = "FREE" <=> s.status[u] = "FREE"
                       /\ t.status[u] = "ZOMBIE" <=> s.status[u] = "ZOMBIE"
                       /\ u # p /\ BlockedInWait(t, u) => BlockedInWait(s, u)
    OBVIOUS
  <2>1. CASE u = p
    BY <1>1, <1>2, <2>1 DEF Living
  <2>2. CASE u # p
    BY <1>1, <1>2, <2>2 DEF SameStatus, Stopped, BlockedInWait, Types, Statuses
  <2>. QED BY <2>1, <2>2
<1>4. \A u \in Pids \ {1} : BlockedInWait(t, u) => Expecting(s, u)
  BY <1>2, <1>3 DEF Family, WaitCalls, BlockedInWait
<1>5. Family(t) /\ ReapsOwn(s, t)
  BY <1>2, <1>3, <1>4, FamilyFrame DEF Family
<1>. QED BY <1>5 DEF t

\* A dead process z leaves the table and the list it was in, if it has no parent
\* or the running process is its parent.
LEMMA FamilyReap ==
  ASSUME NEW s, NEW t, Family(s), Inv(s), Inv(t),
         NEW z \in Pids, s.status[z] = "ZOMBIE", s.parent[z] \in {NULL, s.current},
         t.status = [s.status EXCEPT ![z] = "FREE"],
         t.block_reason = [s.block_reason EXCEPT ![z] = "NONE"],
         t.parent = [s.parent EXCEPT ![z] = NULL],
         t.mode = [s.mode EXCEPT ![z] = "BG"],
         t.foreground = s.foreground, t.shell_pid = s.shell_pid,
         t.process_count = s.process_count - 1,
         TreeTypes(t),
         \A u \in Pids : BlockedInWait(t, u) => t.waitpid[u] = s.waitpid[u],
         t.children[z] = << >>,
         \A p \in Pids \ {z} :
           /\ NoDuplicates(t.children[p])
           /\ p \notin Alive(s) => t.children[p] = s.children[p]
           /\ p \in Living(s) =>
                \A c \in Pids : InQueue(t.children[p], c) <=> InQueue(s.children[p], c) /\ c # z
  PROVE  Family(t) /\ ReapsOwn(s, t)
<1>1. Types(s) /\ s.parent \in [Pids -> Pids \cup {NULL}] /\ s.status \in [Pids -> Statuses]
      /\ s.block_reason \in [Pids -> BlockReasons] /\ s.mode \in [Pids -> {"BG", "FG"}]
  BY DEF Inv, Core, Queues, Types, Family, Kin, TreeTypes
<1>2. Living(t) = Living(s) /\ Alive(t) = Alive(s) \ {z} /\ z \notin Living(s)
  BY <1>1 DEF Living, Alive
<1>3. Tree(t)
  <2>1. \A p \in Pids : NoDuplicates(t.children[p])
    BY DEF NoDuplicates
  <2>2. \A p \in Living(t), c \in Pids :
          InQueue(t.children[p], c) <=> c \in Alive(t) /\ t.parent[c] = p
    <3>. SUFFICES ASSUME NEW p \in Living(t), NEW c \in Pids
                  PROVE  InQueue(t.children[p], c) <=> c \in Alive(t) /\ t.parent[c] = p
      OBVIOUS
    <3>1. p \in Living(s) /\ p # z /\ p \in Pids
      BY <1>2 DEF Living
    <3>2. InQueue(s.children[p], c) <=> c \in Alive(s) /\ s.parent[c] = p
      BY <3>1 DEF Family, Kin, Tree
    <3>3. InQueue(t.children[p], c) <=> InQueue(s.children[p], c) /\ c # z
      BY <3>1
    <3>. QED BY <1>1, <1>2, <3>2, <3>3
  <2>3. \A c \in Alive(t) : t.parent[c] # NULL => t.parent[c] \in Living(t) \ {c}
    BY <1>1, <1>2 DEF Family, Kin, Tree, Alive
  <2>4. \A p \in Pids \ Alive(t) : t.children[p] = << >> /\ t.mode[p] = "BG"
    BY <1>1, <1>2 DEF Family, Kin, Tree
  <2>. QED BY <2>1, <2>2, <2>3, <2>4 DEF Tree
<1>4. TerminalOwner(t)
  <2>1. PICK D \in SUBSET Pids : Detached(s, D)
    BY DEF Family, Kin, TerminalOwner
  <2>2. Detached(t, D)
    BY <1>1, <1>2, <2>1 DEF Detached, Alive
  <2>3. t.foreground # NULL => t.foreground \in Living(t) /\ t.mode[t.foreground] = "FG"
    BY <1>1, <1>2 DEF Family, Kin, TerminalOwner, Living
  <2>. QED BY <2>2, <2>3 DEF TerminalOwner
<1>5. WaitCalls(t)
  <2>. SUFFICES ASSUME NEW u \in Pids \ {1}, BlockedInWait(t, u) PROVE Expecting(t, u)
    BY DEF WaitCalls
  <2>1. u # z /\ BlockedInWait(s, u) /\ s.status[u] = "BLOCKED"
    BY <1>1 DEF BlockedInWait
  <2>2. Expecting(s, u)
    BY <2>1 DEF Family, WaitCalls
  <2>3. s.parent[z] # u
    BY <2>1, PidsLemma DEF Inv, Core
  <2>. QED BY <1>1, <1>2, <2>2, <2>3 DEF Expecting, Alive
<1>6. Root(t)
  BY <1>1, <1>2 DEF Family, Root, Living
<1>7. ReapsOwn(s, t)
  BY <1>1 DEF ReapsOwn
<1>. QED BY <1>3, <1>4, <1>5, <1>6, <1>7 DEF Family, Kin

\* p has given the terminal back, and its children have got a new parent.
Orphaned(s, b, p) ==
  /\ Ceded(s, b, s.parent[p], p) /\ b.shell_pid = s.shell_pid
  /\ b.waitpid = [s.waitpid EXCEPT ![p] = NoWait]
  /\ \A c \in Pids : b.parent[c] = IF c \in Alive(s) /\ s.parent[c] = p THEN 1
                                    ELSE s.parent[c]

\* The state of proc_kill after the children have gone to init: all is well but
\* for the parent, which may wait for the process that has just died.
LEMMA OrphansLemma ==
  ASSUME NEW s, Family(s), Inv(s), NEW p \in Living(s) \ {0, 1}
  PROVE  LET b == reparent_children(stop(s, p), p)
         IN  /\ Inv(b) /\ Kin(b) /\ Root(b)
             /\ b.status = [s.status EXCEPT ![p] = "ZOMBIE"]
             /\ b.parent[p] = s.parent[p]
             /\ \A u \in Pids \ {1, s.parent[p]} :
                  BlockedInWait(b, u) => Expecting(b, u)
             /\ Orphaned(s, b, p)
<1>. DEFINE a == stop(s, p)
            b == reparent_children(a, p)
            m == s.parent[p]
            l == s.children[1] \o s.children[p]
<1>1. p \in Pids \ {0, 1} /\ p \in Alive(s) /\ Types(s)
      /\ s.parent \in [Pids -> Pids \cup {NULL}] /\ s.status \in [Pids -> Statuses]
      /\ s.block_reason \in [Pids -> BlockReasons] /\ s.mode \in [Pids -> {"BG", "FG"}]
      /\ TreeTypes(s) /\ Tree(s) /\ 1 \in Living(s) /\ 1 \in Pids
  BY PidsLemma DEF Inv, Core, Queues, Types, Family, Kin, Root, TreeTypes, Living, Alive
<1>2. Inv(a) /\ a.status[p] = "ZOMBIE" /\ Types(a)
  BY <1>1, StopLemma DEF Inv, Core, Queues
<1>3. /\ Ceded(s, a, m, p)
      /\ a.children = s.children /\ a.parent = s.parent
      /\ a.process_count = s.process_count /\ a.shell_pid = s.shell_pid
      /\ a.waitpid = [s.waitpid EXCEPT ![p] = NoWait]
      /\ a.status = [s.status EXCEPT ![p] = "ZOMBIE"]
      /\ a.block_reason = s.block_reason
  BY <1>1, StopFrame
<1>. HIDE DEF a
<1>4. a.mode \in [Pids -> {"BG", "FG"}]
  BY <1>1, <1>3 DEF Ceded
<1>5. TreeTypes(a)
  BY <1>1, <1>3, <1>4 DEF TreeTypes
<1>6. \A c \in Pids :
        /\ InQueue(s.children[p], c) <=> c \in Alive(s) /\ s.parent[c] = p
        /\ InQueue(s.children[1], c) <=> c \in Alive(s) /\ s.parent[c] = 1
  BY <1>1 DEF Tree
<1>7. Alive(a) = Alive(s)
  BY <1>1, <1>3 DEF Alive
<1>8. /\ b.children = [s.children EXCEPT ![1] = l]
      /\ l \in Seq(Pids) /\ NoDuplicates(l)
      /\ \A c \in Pids : InQueue(l, c) <=>
           InQueue(s.children[1], c) \/ InQueue(s.children[p], c)
      /\ b.parent = [c \in Pids |-> IF InQueue(s.children[p], c) THEN 1
                                    ELSE s.parent[c]]
      /\ b.mode = a.mode /\ b.foreground = a.foreground
      /\ b.waitpid = a.waitpid /\ b.process_count = a.process_count
      /\ b.shell_pid = a.shell_pid
  <2>1. /\ NoDuplicates(a.children[1]) /\ NoDuplicates(a.children[p])
        /\ \A c \in Pids : ~ (InQueue(a.children[1], c) /\ InQueue(a.children[p], c))
        /\ \A c \in Pids : InQueue(a.children[p], c) => c \in Alive(a)
    BY <1>1, <1>3, <1>6, <1>7 DEF Tree
  <2>2. p \in Pids \ {1}
    BY <1>1
  <2>3. /\ b.children = [a.children EXCEPT ![1] = a.children[1] \o a.children[p]]
        /\ a.children[1] \o a.children[p] \in Seq(Pids)
        /\ NoDuplicates(a.children[1] \o a.children[p])
        /\ \A c \in Pids : InQueue(a.children[1] \o a.children[p], c) <=>
             InQueue(a.children[1], c) \/ InQueue(a.children[p], c)
        /\ b.parent = [c \in Pids |-> IF InQueue(a.children[p], c) THEN 1
                                      ELSE a.parent[c]]
        /\ b.mode = a.mode /\ b.foreground = a.foreground
        /\ b.waitpid = a.waitpid /\ b.process_count = a.process_count
        /\ b.shell_pid = a.shell_pid
    BY <1>2, <1>5, <2>1, <2>2, ReparentFrame
  <2>. HIDE DEF b
  <2>. QED BY ONLY <1>3, <2>3
<1>9. SameScheduler(a, b) /\ Inv(b)
  <2>1. SameScheduler(a, b)
    BY <1>1, <1>2, ReparentLemma
  <2>. QED BY <1>2, <2>1, FrameLemma DEF Inv
<1>. HIDE DEF b, l
<1>10. /\ b.status = [s.status EXCEPT ![p] = "ZOMBIE"] /\ b.block_reason = s.block_reason
       /\ Ceded(s, b, m, p)
       /\ b.waitpid = [s.waitpid EXCEPT ![p] = NoWait]
  BY <1>3, <1>8, <1>9 DEF SameScheduler, Ceded
<1>11. Living(b) = Living(s) \ {p} /\ Alive(b) = Alive(s)
  BY <1>1, <1>10 DEF Living, Alive
<1>12. \A c \in Pids : b.parent[c] = IF c \in Alive(s) /\ s.parent[c] = p THEN 1
                                     ELSE s.parent[c]
  BY <1>6, <1>8
<1>13. m # p /\ b.parent[p] = m
  BY <1>1, <1>12, PidsLemma DEF Tree
<1>14. TreeTypes(b)
  BY <1>1, <1>5, <1>8 DEF TreeTypes
<1>15. Tree(b)
  <2>1. \A u \in Pids : NoDuplicates(b.children[u])
    BY <1>1, <1>8 DEF Tree, TreeTypes
  <2>2. ASSUME NEW u \in Living(b), NEW c \in Pids
        PROVE  InQueue(b.children[u], c) <=> c \in Alive(b) /\ b.parent[c] = u
    <3>1. u \in Living(s) /\ u # p /\ u \in Pids
      BY <1>11 DEF Living
    <3>2. InQueue(s.children[u], c) <=> c \in Alive(s) /\ s.parent[c] = u
      BY <1>1, <3>1 DEF Tree
    <3>3. CASE u = 1
      BY <1>1, <1>6, <1>8, <1>11, <1>12, <3>3 DEF TreeTypes
    <3>4. CASE u # 1
      BY <1>1, <1>8, <1>11, <1>12, <3>1, <3>2, <3>4 DEF TreeTypes
    <3>. QED BY <3>3, <3>4
  <2>3. ASSUME NEW c \in Alive(b), b.parent[c] # NULL
        PROVE  b.parent[c] \in Living(b) \ {c}
    <3>1. c \in Alive(s) /\ c \in Pids
      BY <1>11 DEF Alive
    <3>2. CASE s.parent[c] = p
      <4>1. c # 1
        BY <1>1, <3>2, PidsLemma DEF Family, Root
      <4>. QED BY <1>1, <1>11, <1>12, <3>1, <3>2, <4>1
    <3>3. CASE s.parent[c] # p
      BY <1>1, <1>11, <1>12, <2>3, <3>1, <3>3 DEF Tree
    <3>. QED BY <3>2, <3>3
  <2>4. ASSUME NEW u \in Pids \ Alive(b) PROVE b.children[u] = << >> /\ b.mode[u] = "BG"
    <3>1. u \notin Alive(s) /\ u # p /\ u # 1 /\ m # u
      <4>1. u \in Pids /\ u \notin Alive(s) /\ u # p
        BY <1>1, <1>11
      <4>2. u # 1
        BY <1>1, <4>1 DEF Living, Alive
      <4>3. m \in Pids => m \in Alive(s)
        <5>1. m # NULL => m \in Living(s)
          BY <1>1 DEF Tree
        <5>. QED BY <5>1, PidsLemma DEF Living, Alive
      <4>. QED BY <4>1, <4>2, <4>3
    <3>2. s.children[u] = << >> /\ s.mode[u] = "BG"
      BY <1>1, <3>1 DEF Tree
    <3>3. b.children[u] = << >>
      BY <1>1, <1>8, <3>1, <3>2 DEF TreeTypes
    <3>4. b.mode[u] = "BG"
      BY <1>1, <1>10, <3>1, <3>2 DEF Ceded
    <3>. QED BY <3>3, <3>4
  <2>. QED BY <2>1, <2>2, <2>3, <2>4 DEF Tree
<1>16. TerminalOwner(b)
  <2>1. PICK D \in SUBSET Pids : Detached(s, D)
    BY DEF Family, Kin, TerminalOwner
  <2>2. m = NULL => s.mode[p] = "BG"
    BY <1>1, <2>1 DEF Detached
  <2>3. s.mode[p] = "FG" => m \notin D
    BY <1>1, <2>1 DEF Detached
  <2>4. m # NULL => m \in Living(s) /\ m \in Pids
    BY <1>1 DEF Tree, Living
  <2>5. Detached(b, D)
    <3>1. \A u \in Alive(b) \ {0, 1} : b.parent[u] \in D \cup {NULL} => u \in D
      <4>. SUFFICES ASSUME NEW u \in Alive(b) \ {0, 1}, b.parent[u] \in D \cup {NULL}
                    PROVE  u \in D
        OBVIOUS
      <4>1. u \in Alive(s) \ {0, 1} /\ u \in Pids
        BY <1>11 DEF Alive
      <4>2. b.parent[u] # 1
        BY <2>1, PidsLemma DEF Detached
      <4>3. b.parent[u] = s.parent[u]
        BY <1>12, <4>1, <4>2
      <4>. QED BY <2>1, <4>1, <4>3 DEF Detached
    <3>2. \A u \in D : u \notin {0, 1} /\ b.mode[u] = "BG"
      BY <1>1, <1>10, <1>13, <2>1, <2>3 DEF Detached, Ceded
    <3>. QED BY <3>1, <3>2 DEF Detached
  <2>6. b.foreground # NULL => b.foreground \in Living(b) /\ b.mode[b.foreground] = "FG"
    <3>1. s.foreground # NULL => s.foreground \in Living(s) /\ s.mode[s.foreground] = "FG"
      BY DEF Family, Kin, TerminalOwner
    <3>2. CASE b.mode = s.mode /\ b.foreground = s.foreground
               /\ (m = NULL \/ (m # 1 /\ (p = NULL \/ s.mode[p] # "FG")))
      BY <1>1, <1>11, <2>2, <3>1, <3>2, PidsLemma
    <3>3. CASE m = 1 /\ b.mode = [s.mode EXCEPT ![1] = "FG"] /\ b.foreground = 1
      BY <1>1, <1>11, <3>3
    <3>4. CASE /\ m \notin {NULL, 1} /\ s.mode[p] = "FG"
               /\ b.mode = [[s.mode EXCEPT ![p] = "BG"] EXCEPT ![m] = "FG"]
               /\ b.foreground = m
      BY <1>1, <1>11, <1>13, <2>4, <3>4
    <3>. QED BY <1>10, <3>2, <3>3, <3>4 DEF Ceded
  <2>. QED BY <2>5, <2>6 DEF TerminalOwner
<1>17. Root(b)
  <2>1. s.parent[1] = NULL
    BY DEF Family, Root
  <2>. QED BY <1>1, <1>11, <1>12, <2>1, PidsLemma DEF Root
<1>18. ASSUME NEW u \in Pids \ {1, m}, BlockedInWait(b, u) PROVE Expecting(b, u)
  <2>1. u # p /\ BlockedInWait(s, u)
    BY <1>1, <1>10, <1>18 DEF BlockedInWait
  <2>2. Expecting(s, u)
    BY <2>1, <1>18 DEF Family, WaitCalls
  <2>3. b.waitpid[u] = s.waitpid[u]
    BY <1>1, <1>10, <2>1 DEF TreeTypes
  <2>4. \A c \in Pids : c \in Alive(b) /\ b.parent[c] = u => s.parent[c] = u /\ c # p
    BY <1>12, <1>13, <1>18
  <2>5. \A c \in Pids : c \in Alive(s) /\ s.parent[c] = u => b.parent[c] = u
    BY <1>12, <2>1
  <2>. QED BY <1>1, <1>10, <1>11, <2>2, <2>3, <2>4, <2>5 DEF Expecting, Alive
<1>19. Orphaned(s, b, p)
  BY <1>3, <1>8, <1>10, <1>12 DEF Orphaned
<1>. QED BY <1>9, <1>10, <1>13, <1>14, <1>15, <1>16, <1>17, <1>18, <1>19 DEF Kin, b, a

\* proc_kill of a living process: its children go to init, the terminal to its
\* parent, which stops waiting, and it stays in the list of its parent.
\* What the others see of the death of p: its children get another parent, its
\* own parent gets the terminal if p had it.
Died(s, t, p) ==
  /\ Living(t) = Living(s) \ {p} /\ t.shell_pid = s.shell_pid
  /\ Alive(t) = IF s.parent[p] = NULL THEN Alive(s) \ {p} ELSE Alive(s)
  /\ \A u \in Pids \ {p} :
       /\ t.parent[u] = IF u \in Alive(s) /\ s.parent[u] = p THEN 1 ELSE s.parent[u]
       /\ t.waitpid[u] = s.waitpid[u]
  /\ s.parent[p] # NULL => t.parent[p] = s.parent[p] /\ Ceded(s, t, s.parent[p], p)

LEMMA FamilyKill ==
  ASSUME NEW s, Family(s), Inv(s), NEW p \in Living(s) \ {0, 1}
  PROVE  /\ Family(proc_kill(s, p)) /\ ReapsOwn(s, proc_kill(s, p))
         /\ Died(s, proc_kill(s, p), p)
<1>. DEFINE b == reparent_children(stop(s, p), p)
            m == s.parent[p]
            t == proc_kill(s, p)
<1>1. /\ Inv(b) /\ Kin(b) /\ Root(b)
      /\ b.status = [s.status EXCEPT ![p] = "ZOMBIE"]
      /\ b.parent[p] = m
      /\ \A u \in Pids \ {1, m} : BlockedInWait(b, u) => Expecting(b, u)
  BY OrphansLemma
<1>0. /\ Ceded(s, b, m, p) /\ b.shell_pid = s.shell_pid
      /\ b.waitpid = [s.waitpid EXCEPT ![p] = NoWait]
      /\ \A c \in Pids : b.parent[c] = IF c \in Alive(s) /\ s.parent[c] = p THEN 1
                                        ELSE s.parent[c]
  <2>1. Orphaned(s, b, p)
    BY OrphansLemma
  <2>. HIDE DEF b
  <2>. QED BY <2>1 DEF Orphaned
<1>2. p \in Pids \ {0, 1} /\ p # NULL /\ m \in Pids \cup {NULL} /\ s.status \in [Pids -> Statuses]
  BY PidsLemma DEF Living, Inv, Core, Queues, Types
<1>3. t = IF m = NULL THEN proc_reap(b, p)
          ELSE IF BlockedInWait(b, m) THEN proc_ready(b, m) ELSE b
  BY <1>1, <1>2 DEF proc_kill, bury, BlockedInWait
<1>4. Inv(t)
  BY <1>2, KillLemma
<1>5. s.status[p] # "ZOMBIE" /\ Types(b) /\ Shape(b)
  BY <1>1 DEF Living, Inv, Core, Queues, Types
<1>. HIDE DEF b, t
<1>9. /\ Living(b) = Living(s) \ {p} /\ Alive(b) = Alive(s)
      /\ s.waitpid \in [Pids -> Pids \cup {NoWait, WAIT_ANY}]
      /\ b.parent \in [Pids -> Pids \cup {NULL}]
  <2>1. s.status[p] # "FREE"
    BY DEF Living
  <2>2. b.parent \in [Pids -> Pids \cup {NULL}]
    BY <1>5 DEF Types
  <2>. QED BY <1>1, <1>2, <1>5, <2>1, <2>2 DEF Living, Alive, Family, Kin, TreeTypes
<1>6. CASE m = NULL
  <2>1. Family(b)
    BY <1>1, <1>6, PidsLemma DEF Family, WaitCalls
  <2>2. /\ t.children = [b.children EXCEPT ![p] = << >>]
        /\ t.parent = [b.parent EXCEPT ![p] = NULL]
        /\ t.mode = [b.mode EXCEPT ![p] = "BG"]
        /\ t.waitpid = [b.waitpid EXCEPT ![p] = NoWait]
        /\ t.process_count = b.process_count - 1
        /\ t.foreground = b.foreground /\ t.shell_pid = b.shell_pid
        /\ t.status = [b.status EXCEPT ![p] = "FREE"]
        /\ t.block_reason = [b.block_reason EXCEPT ![p] = "NONE"]
    BY <1>3, <1>5, <1>6, ReapFrame, ZenonT(60)
  <2>3. /\ b.children \in [Pids -> Seq(Pids)] /\ b.mode \in [Pids -> {"BG", "FG"}]
        /\ b.waitpid \in [Pids -> Pids \cup {NoWait, WAIT_ANY}]
        /\ b.process_count \in Int /\ b.process_count <= 0
        /\ b.shell_pid \in Pids \cup {NULL}
    BY <1>1 DEF Kin, TreeTypes
  <2>4. TreeTypes(t)
    <3>1. t.children \in [Pids -> Seq(Pids)] /\ t.mode \in [Pids -> {"BG", "FG"}]
          /\ t.waitpid \in [Pids -> Pids \cup {NoWait, WAIT_ANY}]
      <4>1. << >> \in Seq(Pids) /\ p \in Pids
        BY <1>2
      <4>. QED BY ONLY <2>2, <2>3, <4>1
    <3>2. t.process_count \in Int /\ t.process_count <= 0
      BY <2>2, <2>3
    <3>. QED BY <2>2, <2>3, <3>1, <3>2 DEF TreeTypes
  <2>5. b.status[p] = "ZOMBIE" /\ b.parent[p] = NULL
    BY <1>1, <1>2, <1>6
  <2>6. \A u \in Pids \ {p} :
          /\ t.children[u] = b.children[u]
          /\ NoDuplicates(t.children[u])
          /\ u \in Living(b) =>
               \A c \in Pids : InQueue(t.children[u], c) <=> InQueue(b.children[u], c) /\ c # p
    BY <1>1, <1>2, <2>2, <2>3, <2>5, PidsLemma DEF Kin, Tree
  <2>7. \A u \in Pids : BlockedInWait(t, u) => t.waitpid[u] = b.waitpid[u]
    BY <1>2, <1>5, <2>2, <2>3 DEF BlockedInWait, Types
  <2>8. t.children[p] = << >>
    BY <1>2, <2>2, <2>3
  <2>9. Family(t)
    BY <1>1, <1>2, <1>4, <2>1, <2>2, <2>4, <2>5, <2>6, <2>7, <2>8, FamilyReap
  <2>10. ReapsOwn(s, t)
    BY <1>1, <1>2, <1>5, <2>2 DEF ReapsOwn
  <2>11. Died(s, t, p)
    <3>1. Living(t) = Living(s) \ {p} /\ Alive(t) = Alive(s) \ {p}
      <4>1. b.status \in [Pids -> Statuses]
        BY <1>5 DEF Types
      <4>2. \A u \in Pids : t.status[u] = IF u = p THEN "FREE" ELSE b.status[u]
        BY <1>2, <2>2, <4>1
      <4>. QED BY <1>9, <4>2 DEF Living, Alive
    <3>2. ASSUME NEW u \in Pids \ {p}
          PROVE  t.parent[u] = b.parent[u] /\ t.waitpid[u] = b.waitpid[u]
                 /\ b.waitpid[u] = s.waitpid[u]
      BY <1>0, <1>9, <2>2, <2>3
    <3>. QED BY <1>0, <1>6, <2>2, <3>1, <3>2 DEF Died
  <2>. QED BY <2>9, <2>10, <2>11 DEF t
<1>7. CASE m # NULL /\ BlockedInWait(b, m)
  <2>1. m \in Pids /\ t = proc_ready(b, m)
    BY <1>2, <1>3, <1>7
  <2>2. /\ SameTree(b, t) /\ t.status = [b.status EXCEPT ![m] = "READY"]
        /\ t.block_reason = [b.block_reason EXCEPT ![m] = "NONE"]
    BY <1>5, <2>1, ReadyFrame
  <2>3. \A u \in Pids : /\ t.status[u] = "FREE" <=> b.status[u] = "FREE"
                        /\ t.status[u] = "ZOMBIE" <=> b.status[u] = "ZOMBIE"
                        /\ BlockedInWait(t, u) => u # m /\ BlockedInWait(b, u)
    BY <1>5, <1>7, <2>1, <2>2 DEF Types, BlockedInWait
  <2>4. Family(t)
    BY <1>1, <2>2, <2>3, FamilyFrame
  <2>5. ReapsOwn(s, t)
    BY <1>1, <1>2, <2>3 DEF ReapsOwn
  <2>6. Died(s, t, p)
    <3>1. Living(t) = Living(b) /\ Alive(t) = Alive(b)
      BY <2>3 DEF Living, Alive
    <3>2. Ceded(s, t, m, p)
      BY <1>0, <2>2 DEF Ceded, SameTree
    <3>3. \A u \in Pids \ {p} : t.waitpid[u] = s.waitpid[u]
      BY <1>0, <1>9, <2>2 DEF SameTree
    <3>. QED BY <1>0, <1>1, <1>7, <1>9, <2>2, <3>1, <3>2, <3>3 DEF Died, SameTree
  <2>. QED BY <2>4, <2>5, <2>6 DEF t
<1>8. CASE m # NULL /\ ~ BlockedInWait(b, m)
  <2>1. t = b
    BY <1>3, <1>8
  <2>2. ReapsOwn(s, t)
    BY <1>1, <1>2, <2>1 DEF ReapsOwn
  <2>3. Family(t)
    BY <1>1, <1>8, <2>1 DEF Family, WaitCalls
  <2>4. Died(s, t, p)
    <3>1. \A u \in Pids \ {p} : t.waitpid[u] = s.waitpid[u]
      BY <1>0, <1>9, <2>1
    <3>. QED BY <1>0, <1>1, <1>8, <1>9, <2>1, <3>1 DEF Died
  <2>. QED BY <2>2, <2>3, <2>4 DEF t
<1>. QED BY <1>6, <1>7, <1>8

\* What sys_spawn_process does to the tree when there is a slot left: the new
\* process is a child of the running one, if any.
Spawned(s, t, p) ==
  /\ t.status = [s.status EXCEPT ![p] = "READY"]
  /\ t.block_reason = [s.block_reason EXCEPT ![p] = "NONE"]
  /\ t.waiting_on = [s.waiting_on EXCEPT ![p] = "ready"]
  /\ t.parent = [s.parent EXCEPT ![p] = s.current]
  /\ t.children = IF s.current = NULL THEN s.children
                  ELSE [s.children EXCEPT ![s.current] = Append(s.children[s.current], p)]
  /\ t.waitpid = s.waitpid /\ t.process_count = s.process_count
  /\ t.shell_pid = s.shell_pid
  /\ \/ t.mode = s.mode /\ t.foreground = s.foreground
     \/ Ceded(s, t, p, s.current)

LEMMA SpawnFrame ==
  ASSUME NEW s, Core(s), Kin(s), NEW background
  PROVE  LET t == sys_spawn_process(s, background)
             p == proc_pid_alloc(s)
         IN  IF Alive(s) = Pids THEN t = fault(s)
             ELSE /\ p \in Pids \ Alive(s) /\ Spawned(s, t, p)
                  /\ \A q \in Pids \ Alive(s) : p <= q
                  /\ t.current = s.current
                  /\ IF background THEN t.mode = s.mode /\ t.foreground = s.foreground
                     ELSE Ceded(s, t, p, s.current)
<1>. DEFINE t == sys_spawn_process(s, background)
            p == proc_pid_alloc(s)
            c == s.current
<1>1. Types(s) /\ Shape(s) /\ TreeTypes(s) /\ Tree(s)
  BY DEF Core, Queues, Types, Kin
<1>2. ~ s.process_count >= MAX_PROCESSES
  BY <1>1, ConstantsAssumption DEF TreeTypes
<1>3. CASE Alive(s) = Pids
  BY <1>2, <1>3 DEF sys_spawn_process, proc_pid_alloc
<1>4. CASE Alive(s) # Pids
  <2>1. p = Least(Pids \ Alive(s)) /\ Pids \ Alive(s) # {}
    BY <1>4 DEF proc_pid_alloc, Alive
  <2>2. p \in Pids \ Alive(s) /\ \A q \in Pids \ Alive(s) : p <= q
    <3>1. Pids \ Alive(s) \in SUBSET Nat
      BY PidsLemma
    <3>2. \E i \in Pids \ Alive(s) : \A j \in Pids \ Alive(s) : i <= j
      BY <2>1, <3>1, LeastNatural
    <3>. QED BY <2>1, <3>2 DEF Least
  <2>3. c = NULL \/ (c \in Pids /\ c \in Living(s) /\ c # p)
    BY <1>1, <2>2 DEF Core, Types, Living, Alive
  <2>. DEFINE a == IF background THEN s ELSE set_foreground_process(s, p, c)
              b == fill_pcb(a, p, c)
              g == add_child(b, c, p)
  <2>4. t = proc_ready(g, p)
    BY <1>2, <2>2, PidsLemma DEF sys_spawn_process, proc_init
  <2>5. /\ SameKin(s, a) /\ Shape(a)
        /\ a.status = s.status /\ a.block_reason = s.block_reason
        /\ a.waiting_on = s.waiting_on /\ a.current = s.current
        /\ IF background THEN a.mode = s.mode /\ a.foreground = s.foreground
           ELSE Ceded(s, a, p, c)
    <3>1. SameKin(s, s)
      BY DEF SameKin
    <3>2. SameKin(s, set_foreground_process(s, p, c))
          /\ Ceded(s, set_foreground_process(s, p, c), p, c)
      BY <1>1, ForegroundFrame
    <3>3. SameScheduler(s, set_foreground_process(s, p, c))
      BY <1>1, <2>2, ForegroundLemma
    <3>. HIDE DEF p, c
    <3>. QED BY <1>1, <3>1, <3>2, <3>3 DEF SameScheduler
  <2>. HIDE DEF p, c, a
  <2>6. /\ Shape(b)
        /\ b.parent = [a.parent EXCEPT ![p] = c]
        /\ b.status = [a.status EXCEPT ![p] = "READY"]
        /\ b.block_reason = [a.block_reason EXCEPT ![p] = "NONE"]
        /\ b.waiting_on = [a.waiting_on EXCEPT ![p] = "null"]
        /\ b.children = a.children /\ b.waitpid = a.waitpid
        /\ b.process_count = a.process_count /\ b.shell_pid = a.shell_pid
        /\ b.mode = a.mode /\ b.foreground = a.foreground /\ b.current = a.current
    BY ONLY <2>5, ZenonT(60) DEF fill_pcb, Shape, Fields
  <2>. HIDE DEF b
  <2>7. c # NULL => Len(s.children[c]) < MAX_PROCESSES /\ Len(s.children[c]) \in Nat
    <3>. SUFFICES ASSUME c # NULL
                  PROVE  Len(s.children[c]) < MAX_PROCESSES /\ Len(s.children[c]) \in Nat
      OBVIOUS
    <3>1. s.children[c] \in Seq(Pids) /\ NoDuplicates(s.children[c])
      BY <1>1, <2>3 DEF TreeTypes, Tree
    <3>2. ~ InQueue(s.children[c], p)
      BY <1>1, <2>2, <2>3 DEF Tree
    <3>. QED BY <2>2, <3>1, <3>2, RoomLemma
  <2>8. g = IF c = NULL THEN b
            ELSE [b EXCEPT !.children = [b.children EXCEPT ![c] = Append(b.children[c], p)]]
    <3>1. c # NULL => ~ Len(b.children[c]) >= MAX_PROCESSES
      BY <2>5, <2>6, <2>7, ConstantsAssumption DEF SameKin
    <3>. QED BY <3>1 DEF add_child
  <2>. HIDE DEF g
  <2>9. /\ Shape(g)
        /\ g.children = IF c = NULL THEN b.children
                        ELSE [b.children EXCEPT ![c] = Append(b.children[c], p)]
        /\ g.status = b.status /\ g.block_reason = b.block_reason
        /\ g.waiting_on = b.waiting_on
        /\ g.parent = b.parent /\ g.waitpid = b.waitpid
        /\ g.process_count = b.process_count /\ g.shell_pid = b.shell_pid
        /\ g.mode = b.mode /\ g.foreground = b.foreground /\ g.current = b.current
    BY ONLY <2>6, <2>8 DEF Shape, Fields
  <2>10. /\ SameTree(g, t) /\ t.current = g.current
         /\ t.status = [g.status EXCEPT ![p] = "READY"]
         /\ t.block_reason = [g.block_reason EXCEPT ![p] = "NONE"]
         /\ t.waiting_on = [g.waiting_on EXCEPT ![p] = "ready"]
    <3>1. p # NULL
      BY <2>2, PidsLemma
    <3>. QED BY ONLY <2>4, <2>9, <3>1 DEF proc_ready, SameTree, Shape, Fields
  <2>. HIDE DEF t
  <2>11. /\ t.status = [s.status EXCEPT ![p] = "READY"]
         /\ t.block_reason = [s.block_reason EXCEPT ![p] = "NONE"]
         /\ t.waiting_on = [s.waiting_on EXCEPT ![p] = "ready"]
    <3>1. /\ s.status \in [Pids -> Statuses] /\ s.block_reason \in [Pids -> BlockReasons]
          /\ s.waiting_on \in [Pids -> WaitingOn]
      BY <1>1 DEF Types
    <3>. QED BY ONLY <3>1, <2>5, <2>6, <2>9, <2>10
  <2>12. /\ Spawned(s, t, p) /\ t.current = s.current
         /\ IF background THEN t.mode = s.mode /\ t.foreground = s.foreground
            ELSE Ceded(s, t, p, c)
    BY <2>5, <2>6, <2>9, <2>10, <2>11 DEF Spawned, SameKin, SameTree, Ceded, c
  <2>. QED BY <1>4, <2>2, <2>12 DEF p, t, c
<1>. QED BY <1>3, <1>4

\* The new process takes its place in the tree, and in D if nobody who can give
\* it the terminal is its parent.
LEMMA KinSpawn ==
  ASSUME NEW s, NEW t, Core(s), Kin(s), WaitCalls(s),
         NEW p \in Pids \ Alive(s), Spawned(s, t, p)
  PROVE  /\ Kin(t) /\ WaitCalls(t) /\ ReapsOwn(s, t)
         /\ Root(s) \/ (p = 1 /\ s.current = NULL) => Root(t)
<1>. DEFINE c == s.current
<1>1. Types(s) /\ s.parent \in [Pids -> Pids \cup {NULL}] /\ s.status \in [Pids -> Statuses]
      /\ s.block_reason \in [Pids -> BlockReasons] /\ s.mode \in [Pids -> {"BG", "FG"}]
      /\ s.children \in [Pids -> Seq(Pids)]
      /\ TreeTypes(s) /\ Tree(s) /\ p \in Pids /\ p \notin Alive(s) /\ p # NULL
      /\ c \in Pids \cup {NULL}
  BY PidsLemma DEF Core, Queues, Types, Kin, TreeTypes
<1>2. c = NULL \/ (c \in Pids /\ c \in Living(s) /\ c # p)
  BY <1>1 DEF Core, Living, Alive
<1>3. /\ t.status = [s.status EXCEPT ![p] = "READY"]
      /\ t.block_reason = [s.block_reason EXCEPT ![p] = "NONE"]
      /\ t.parent = [s.parent EXCEPT ![p] = c]
      /\ t.children = IF c = NULL THEN s.children
                      ELSE [s.children EXCEPT ![c] = Append(s.children[c], p)]
      /\ t.waitpid = s.waitpid /\ t.process_count = s.process_count
      /\ t.shell_pid = s.shell_pid
      /\ (t.mode = s.mode /\ t.foreground = s.foreground) \/ Ceded(s, t, p, c)
  BY DEF Spawned
<1>. HIDE DEF c
<1>4. Living(t) = Living(s) \cup {p} /\ Alive(t) = Alive(s) \cup {p}
      /\ Living(s) \subseteq Pids /\ Alive(s) \subseteq Pids /\ p \notin Living(s)
  BY <1>1, <1>3 DEF Living, Alive
<1>5. \A u \in Pids :
        /\ t.parent[u] = IF u = p THEN c ELSE s.parent[u]
        /\ u = c => t.children[u] = Append(s.children[u], p)
        /\ u # c => t.children[u] = s.children[u]
  <2>. SUFFICES ASSUME NEW u \in Pids
                PROVE  /\ t.parent[u] = IF u = p THEN c ELSE s.parent[u]
                       /\ u = c => t.children[u] = Append(s.children[u], p)
                       /\ u # c => t.children[u] = s.children[u]
    OBVIOUS
  <2>1. u # NULL
    BY PidsLemma
  <2>2. s.children \in [Pids -> Seq(Pids)] /\ s.parent \in [Pids -> Pids \cup {NULL}]
    BY <1>1
  <2>. QED BY ONLY <1>3, <2>1, <2>2, u \in Pids
<1>6. \A u \in Pids : s.children[u] \in Seq(Pids) /\ NoDuplicates(s.children[u])
  BY <1>1 DEF Tree
<1>7. c # NULL => /\ ~ InQueue(s.children[c], p)
                  /\ t.children[c] \in Seq(Pids) /\ NoDuplicates(t.children[c])
                  /\ \A u : InQueue(t.children[c], u) <=> InQueue(s.children[c], u) \/ u = p
  <2>. SUFFICES ASSUME c # NULL
                PROVE  /\ ~ InQueue(s.children[c], p)
                       /\ t.children[c] \in Seq(Pids) /\ NoDuplicates(t.children[c])
                       /\ \A u : InQueue(t.children[c], u) <=> InQueue(s.children[c], u) \/ u = p
    OBVIOUS
  <2>1. ~ InQueue(s.children[c], p)
    BY <1>1, <1>2 DEF Tree
  <2>2. t.children[c] = enqueue(s.children[c], p) /\ c \in Pids
    BY <1>2, <1>5 DEF enqueue
  <2>3. s.children[c] \in Seq(Pids) /\ NoDuplicates(s.children[c])
    BY <1>6, <2>2
  <2>4. /\ enqueue(s.children[c], p) \in Seq(Pids) /\ NoDuplicates(enqueue(s.children[c], p))
        /\ \A u : InQueue(enqueue(s.children[c], p), u) <=> InQueue(s.children[c], u) \/ u = p
    BY <1>1, <2>1, <2>3, EnqueueLemma
  <2>. QED BY <2>1, <2>2, <2>4
<1>8. \A u \in Alive(s) : u \in Pids /\ s.parent[u] # p
  BY <1>1, <1>4 DEF Tree
<1>9. TreeTypes(t)
  <2>1. t.children \in [Pids -> Seq(Pids)]
    <3>1. CASE c = NULL
      BY <1>1, <1>3, <3>1
    <3>2. CASE c # NULL
      <4>1. Append(s.children[c], p) \in Seq(Pids) /\ c \in Pids
        BY <1>2, <1>5, <1>7, <3>2
      <4>2. t.children = [s.children EXCEPT ![c] = Append(s.children[c], p)]
        BY <1>3, <3>2
      <4>3. s.children \in [Pids -> Seq(Pids)]
        BY <1>1
      <4>. QED BY ONLY <4>1, <4>2, <4>3
    <3>. QED BY <3>1, <3>2
  <2>2. t.mode \in [Pids -> {"BG", "FG"}]
    <3>1. \/ t.mode = s.mode
          \/ t.mode = [s.mode EXCEPT ![1] = "FG"]
          \/ t.mode = [[s.mode EXCEPT ![c] = "BG"] EXCEPT ![p] = "FG"]
      BY <1>3 DEF Ceded
    <3>2. s.mode \in [Pids -> {"BG", "FG"}]
      BY <1>1
    <3>. QED BY ONLY <3>1, <3>2
  <2>. QED BY <1>1, <1>3, <2>1, <2>2 DEF TreeTypes
<1>10. Tree(t)
  <2>1. \A u \in Pids : NoDuplicates(t.children[u])
    BY <1>5, <1>6, <1>7, PidsLemma
  <2>2. ASSUME NEW u \in Living(t), NEW x \in Pids
        PROVE  InQueue(t.children[u], x) <=> x \in Alive(t) /\ t.parent[x] = u
    <3>1. CASE u = p
      <4>1. t.children[u] = << >>
        BY <1>1, <1>2, <1>5, <3>1, PidsLemma DEF Tree
      <4>2. ~ InQueue(t.children[u], x)
        BY <4>1 DEF InQueue
      <4>3. ~ (x \in Alive(t) /\ t.parent[x] = u)
        BY <1>2, <1>4, <1>5, <1>8, <3>1, PidsLemma
      <4>. QED BY <4>2, <4>3
    <3>2. CASE u # p
      <4>1. u \in Living(s) /\ u \in Pids
        BY <1>4, <3>2
      <4>2. InQueue(s.children[u], x) <=> x \in Alive(s) /\ s.parent[x] = u
        BY <1>1, <4>1 DEF Tree
      <4>3. u # NULL
        BY <4>1, PidsLemma
      <4>. QED BY <1>1, <1>4, <1>5, <1>7, <4>1, <4>2, <4>3
    <3>. QED BY <3>1, <3>2
  <2>3. ASSUME NEW x \in Alive(t), t.parent[x] # NULL
        PROVE  t.parent[x] \in Living(t) \ {x}
    <3>1. x \in Pids
      BY <1>1, <1>4
    <3>2. CASE x = p
      BY <1>2, <1>4, <1>5, <2>3, <3>1, <3>2
    <3>3. CASE x # p
      BY <1>1, <1>4, <1>5, <2>3, <3>1, <3>3 DEF Tree
    <3>. QED BY <3>2, <3>3
  <2>4. ASSUME NEW u \in Pids \ Alive(t) PROVE t.children[u] = << >> /\ t.mode[u] = "BG"
    <3>1. u \notin Alive(s) /\ u # p /\ u # c
      BY <1>2, <1>4, PidsLemma DEF Living, Alive
    <3>2. s.children[u] = << >> /\ s.mode[u] = "BG"
      BY <1>1, <3>1 DEF Tree
    <3>3. t.mode[u] = "BG"
      BY <1>1, <1>3, <3>1, <3>2 DEF Ceded
    <3>. QED BY <1>5, <3>1, <3>2, <3>3
  <2>. QED BY <2>1, <2>2, <2>3, <2>4 DEF Tree
<1>11. TerminalOwner(t)
  <2>1. PICK D \in SUBSET Pids : Detached(s, D)
    BY DEF Kin, TerminalOwner
  <2>. DEFINE E == (D \ {p}) \cup {x \in {p} \ {0, 1} : c \in D \cup {NULL}}
  <2>2. E \in SUBSET Pids
    BY <1>1
  <2>3. ASSUME NEW u \in Alive(t) \ {0, 1}, t.parent[u] \in E \cup {NULL} PROVE u \in E
    <3>1. CASE u = p
      <4>1. c \in D \cup {NULL}
        BY <1>1, <1>2, <1>5, <2>3, <3>1
      <4>. QED BY <2>3, <3>1, <4>1
    <3>2. CASE u # p
      <4>1. u \in Alive(s) \ {0, 1} /\ u \in Pids /\ t.parent[u] = s.parent[u]
        BY <1>4, <1>5, <2>3, <3>2
      <4>2. s.parent[u] \in D \cup {NULL}
        BY <1>8, <2>3, <4>1
      <4>. QED BY <2>1, <3>2, <4>1, <4>2 DEF Detached
    <3>. QED BY <3>1, <3>2
  <2>4. ASSUME NEW x \in E PROVE x \notin {0, 1} /\ t.mode[x] = "BG"
    <3>1. CASE x = p
      <4>1. p \notin {0, 1} /\ c \in D \cup {NULL} /\ s.mode[p] = "BG"
        BY <1>1, <2>4, <3>1 DEF Tree
      <4>2. c # NULL => s.mode[c] = "BG"
        BY <2>1, <4>1 DEF Detached
      <4>. QED BY <1>3, <3>1, <4>1, <4>2 DEF Ceded
    <3>2. CASE x # p
      <4>1. x \in D /\ x \in Pids /\ x \notin {0, 1} /\ s.mode[x] = "BG"
        BY <2>1, <2>4, <3>2 DEF Detached
      <4>2. t.mode[x] = "BG"
        BY <1>1, <1>2, <1>3, <3>2, <4>1 DEF Ceded
      <4>. QED BY <4>1, <4>2
    <3>. QED BY <3>1, <3>2
  <2>5. Detached(t, E)
    <3>. HIDE DEF E
    <3>. QED BY <2>3, <2>4 DEF Detached
  <2>6. t.foreground # NULL => t.foreground \in Living(t) /\ t.mode[t.foreground] = "FG"
    <3>1. s.foreground # NULL => s.foreground \in Living(s) /\ s.mode[s.foreground] = "FG"
      BY DEF Kin, TerminalOwner
    <3>2. CASE t.mode = s.mode /\ t.foreground = s.foreground
      BY <1>4, <3>1, <3>2
    <3>3. CASE p = 1 /\ t.mode = [s.mode EXCEPT ![1] = "FG"] /\ t.foreground = 1
      BY <1>1, <1>4, <3>3
    <3>4. CASE /\ t.mode = [[s.mode EXCEPT ![c] = "BG"] EXCEPT ![p] = "FG"]
               /\ t.foreground = p
      BY <1>1, <1>4, <3>4
    <3>. QED BY <1>3, <3>2, <3>3, <3>4 DEF Ceded
  <2>. HIDE DEF E
  <2>. QED BY <2>2, <2>5, <2>6 DEF TerminalOwner
<1>12. WaitCalls(t)
  <2>. SUFFICES ASSUME NEW u \in Pids \ {1}, BlockedInWait(t, u) PROVE Expecting(t, u)
    BY DEF WaitCalls
  <2>1. u # p /\ BlockedInWait(s, u)
    BY <1>1, <1>3 DEF BlockedInWait
  <2>2. Expecting(s, u)
    BY <2>1 DEF WaitCalls
  <2>3. \A x \in Pids : x \in Alive(t) /\ t.status[x] = "ZOMBIE" =>
          x \in Alive(s) /\ s.status[x] = "ZOMBIE" /\ t.parent[x] = s.parent[x]
    BY <1>1, <1>3, <1>4, <1>5
  <2>4. \A x \in Alive(s) : x \in Alive(t) /\ t.parent[x] = s.parent[x]
    BY <1>1, <1>4, <1>5
  <2>. QED BY <1>3, <2>2, <2>3, <2>4 DEF Expecting
<1>13. ReapsOwn(s, t)
  BY <1>1, <1>3 DEF ReapsOwn
<1>14. Root(s) \/ (p = 1 /\ c = NULL) => Root(t)
  BY <1>4, <1>5, PidsLemma DEF Root
<1>. QED BY <1>9, <1>10, <1>11, <1>12, <1>13, <1>14 DEF Kin, c

\* fault leaves the tree as it is.
LEMMA FamilyFault ==
  ASSUME NEW s, Family(s), Inv(s)
  PROVE  Family(fault(s)) /\ ReapsOwn(s, fault(s))
<1>. DEFINE t == fault(s)
<1>1. Shape(s)
  BY DEF Inv, Core, Queues, Types
<1>2. SameTree(s, t) /\ t.status = s.status /\ t.block_reason = s.block_reason
  BY ONLY <1>1 DEF fault, SameTree, Shape, Fields
<1>. HIDE DEF t
<1>3. \A p \in Pids : BlockedInWait(t, p) => BlockedInWait(s, p)
  BY <1>2 DEF BlockedInWait
<1>4. Family(t) /\ ReapsOwn(s, t)
  BY <1>2, <1>3, FamilyFrame DEF Family, WaitCalls
<1>. QED BY <1>4 DEF t

LEMMA FamilySpawn ==
  ASSUME NEW s, Family(s), Inv(s), NEW background
  PROVE  LET t == sys_spawn_process(s, background)
         IN  Family(t) /\ ReapsOwn(s, t)
<1>. DEFINE t == sys_spawn_process(s, background)
            p == proc_pid_alloc(s)
<1>1. Core(s) /\ Kin(s) /\ Root(s) /\ WaitCalls(s)
  BY DEF Inv, Family
<1>2. IF Alive(s) = Pids THEN t = fault(s)
      ELSE p \in Pids \ Alive(s) /\ Spawned(s, t, p)
  BY <1>1, SpawnFrame
<1>. HIDE DEF t, p
<1>3. Family(t) /\ ReapsOwn(s, t)
  BY <1>1, <1>2, FamilyFault, KinSpawn DEF Family
<1>. QED BY <1>3 DEF t

\* main: init gets pid 1, so that there is somebody to give orphans to, and
\* nobody is blocked yet.
LEMMA FamilyBoot ==
  ASSUME NEW background
  PROVE  /\ Family(main(background))
         /\ \A p \in Pids : main(background).status[p] # "BLOCKED"
         /\ Alive(main(background)) = {0, 1} /\ main(background).shell_pid = NULL
         /\ main(background).mode[0] = "BG"
<1>. DEFINE a == sys_spawn_process(PowerOn, TRUE)
            b == sys_spawn_process(a, background)
            p == proc_pid_alloc(PowerOn)
            q == proc_pid_alloc(a)
<1>1. /\ Core(PowerOn) /\ Kin(PowerOn) /\ WaitCalls(PowerOn)
      /\ Alive(PowerOn) = {} /\ PowerOn.current = NULL
      /\ PowerOn.status \in [Pids -> Statuses]
  <2>1. /\ \A u \in Pids : /\ PowerOn.status[u] = "FREE"
                           /\ PowerOn.children[u] = << >> /\ PowerOn.mode[u] = "BG"
        /\ PowerOn.foreground = NULL /\ PowerOn.current = NULL
    BY DEF PowerOn
  <2>2. Alive(PowerOn) = {} /\ Living(PowerOn) = {}
    BY <2>1 DEF Alive, Living
  <2>3. TreeTypes(PowerOn)
    BY DEF PowerOn, TreeTypes
  <2>4. Tree(PowerOn)
    BY <2>1, <2>2 DEF Tree, NoDuplicates
  <2>5. TerminalOwner(PowerOn)
    <3>1. Detached(PowerOn, {})
      BY <2>2 DEF Detached
    <3>. QED BY <2>1, <3>1 DEF TerminalOwner
  <2>6. WaitCalls(PowerOn)
    BY <2>1 DEF WaitCalls, BlockedInWait
  <2>7. PowerOn.status \in [Pids -> Statuses]
    BY DEF PowerOn, Statuses
  <2>. QED BY <2>1, <2>2, <2>3, <2>4, <2>5, <2>6, <2>7, PowerOnLemma DEF Kin
<1>2. /\ p \in Pids /\ Spawned(PowerOn, a, p) /\ \A u \in Pids : p <= u
  BY <1>1, SpawnFrame, PidsLemma
<1>3. p = 0
  <2>. HIDE DEF p
  <2>1. p \in Nat /\ p <= 0
    BY <1>2, PidsLemma
  <2>. QED BY <2>1
<1>4. Core(a) /\ Kin(a) /\ WaitCalls(a) /\ a.status = [PowerOn.status EXCEPT ![0] = "READY"]
  <2>1. p \in Pids \ Alive(PowerOn)
    BY <1>1, <1>2
  <2>2. Core(a)
    BY <1>1, SpawnLemma
  <2>. HIDE DEF a, p
  <2>. QED BY <1>1, <1>2, <1>3, <2>1, <2>2, KinSpawn DEF Spawned
<1>5. Alive(a) = {0} /\ a.current = NULL
  <2>1. \A u \in Pids : a.status[u] = "FREE" <=> u # 0
    BY <1>1, <1>4, PidsLemma DEF Alive
  <2>2. \A u \in Pids : a.status[u] # "RUNNING"
    BY <1>1, <1>4, PidsLemma DEF Alive
  <2>3. a.current \in Pids \cup {NULL}
    BY <1>4 DEF Core, Queues, Types
  <2>. QED BY <1>4, <2>1, <2>2, <2>3, PidsLemma, ZenonT(60) DEF Alive, Core
<1>. HIDE DEF a
<1>6. q \in Pids \ Alive(a) /\ Spawned(a, b, q) /\ \A u \in Pids \ Alive(a) : q <= u
  BY <1>4, <1>5, SpawnFrame, PidsLemma
<1>7. q = 1
  <2>. HIDE DEF q
  <2>1. q \in Nat /\ q # 0 /\ q <= 1
    BY <1>5, <1>6, PidsLemma
  <2>. QED BY <2>1
<1>8. Inv(b)
  <2>1. Idle(a)
    BY <1>1, <1>4, PidsLemma DEF Idle
  <2>. QED BY <1>4, <2>1, SpawnLemma DEF Inv
<1>. HIDE DEF b, q
<1>9. Family(b)
  BY <1>4, <1>5, <1>6, <1>7, KinSpawn DEF Family
<1>10. OnlySwitched(b, timer_interrupt(b)) /\ Types(b)
  BY <1>8, InvSwitching, TimerFrame DEF Inv, Core, Queues
<1>11. Family(timer_interrupt(b))
  BY <1>9, <1>10, FamilySwitch
<1>12. ASSUME NEW u \in Pids PROVE timer_interrupt(b).status[u] # "BLOCKED"
  <2>1. a.status = [PowerOn.status EXCEPT ![0] = "READY"]
        /\ b.status = [a.status EXCEPT ![1] = "READY"]
    BY <1>4, <1>6, <1>7 DEF Spawned
  <2>2. PowerOn.status[u] = "FREE"
    BY <1>1 DEF Alive
  <2>3. b.status[u] # "BLOCKED"
    BY <1>1, <2>1, <2>2
  <2>. QED BY <1>10, <2>3 DEF OnlySwitched, SameStatus, Stopped
<1>13. Alive(timer_interrupt(b)) = {0, 1}
  <2>1. a.status = [PowerOn.status EXCEPT ![0] = "READY"]
        /\ b.status = [a.status EXCEPT ![1] = "READY"]
    BY <1>4, <1>6, <1>7 DEF Spawned
  <2>2. \A u \in Pids : b.status[u] = IF u \in {0, 1} THEN "READY" ELSE "FREE"
    BY <1>1, <2>1, PidsLemma DEF Alive
  <2>3. \A u \in Pids : timer_interrupt(b).status[u] = "FREE" <=> u \notin {0, 1}
    BY <1>10, <2>2 DEF OnlySwitched, SameStatus, Stopped
  <2>. QED BY <2>3, PidsLemma DEF Alive
<1>14. timer_interrupt(b).shell_pid = NULL /\ timer_interrupt(b).mode[0] = "BG"
  <2>1. PowerOn.shell_pid = NULL /\ PowerOn.mode = [u \in Pids |-> "BG"]
    BY DEF PowerOn
  <2>2. a.shell_pid = NULL /\ a.mode[0] = "BG" /\ a.mode \in [Pids -> {"BG", "FG"}]
    BY <1>1, <1>2, <1>3, <1>4, <2>1, PidsLemma DEF Spawned, Ceded, Kin, TreeTypes
  <2>3. b.shell_pid = NULL /\ b.mode[0] = "BG"
    BY <1>5, <1>6, <1>7, <2>2, PidsLemma DEF Spawned, Ceded
  <2>. QED BY <1>10, <2>3 DEF OnlySwitched, SameTree
<1>. QED BY <1>11, <1>12, <1>13, <1>14 DEF main, a, b

-----------------------------------------------------------------------------
(***************************************************************************)
(* wait_pid.                                                               *)
(***************************************************************************)

\* What a pass of the loop looks for, and what it finds.
LEMMA CollectableLemma ==
  ASSUME NEW s, NEW p, s.children[p] \in Seq(Pids), NEW pid
  PROVE  LET q == s.children[p]
             i == collectable(s, p, pid)
         IN  /\ i = 0 <=> \A c \in Pids : InQueue(q, c) /\ pid \in {WAIT_ANY, c}
                                            => s.status[c] # "ZOMBIE"
             /\ i # 0 => /\ i \in 1..Len(q) /\ q[i] \in Pids /\ s.status[q[i]] = "ZOMBIE"
                         /\ pid \in {WAIT_ANY, q[i]}
<1>. DEFINE q == s.children[p]
            i == collectable(s, p, pid)
            dead == {j \in {h \in 1..Len(q) : pid = WAIT_ANY \/ q[h] = pid} :
                       q[j] \in Zombies(s)}
<1>1. i = IF dead = {} THEN 0 ELSE Least(dead)
  BY DEF collectable
<1>2. dead \in SUBSET Nat /\ dead \subseteq 1..Len(q)
  OBVIOUS
<1>3. dead # {} => Least(dead) \in dead
  <2>. HIDE DEF dead
  <2>. QED BY <1>2, LeastLemma
<1>4. dead = {} <=> i = 0
  <2>. HIDE DEF dead, i
  <2>. QED BY <1>1, <1>2, <1>3
<1>5. dead = {} <=> \A c \in Pids : InQueue(q, c) /\ pid \in {WAIT_ANY, c}
                                      => s.status[c] # "ZOMBIE"
  <2>1. ASSUME dead = {}, NEW c \in Pids, InQueue(q, c), pid \in {WAIT_ANY, c}
        PROVE  s.status[c] # "ZOMBIE"
    <3>1. PICK j \in 1..Len(q) : q[j] = c
      BY <2>1 DEF InQueue
    <3>2. j \notin dead
      BY <2>1
    <3>. QED BY <2>1, <3>1, <3>2 DEF Zombies
  <2>2. ASSUME dead # {},
               \A c \in Pids : InQueue(q, c) /\ pid \in {WAIT_ANY, c} => s.status[c] # "ZOMBIE"
        PROVE  FALSE
    <3>1. PICK j \in dead : TRUE
      BY <2>2
    <3>2. j \in 1..Len(q) /\ q[j] \in Pids /\ s.status[q[j]] = "ZOMBIE"
          /\ pid \in {WAIT_ANY, q[j]}
      BY <3>1 DEF Zombies
    <3>3. InQueue(q, q[j])
      BY <3>2 DEF InQueue
    <3>. QED BY <2>2, <3>2, <3>3
  <2>. HIDE DEF dead, q
  <2>. QED BY <2>1, <2>2
<1>6. i # 0 => i \in dead
  <2>. HIDE DEF dead, i
  <2>. QED BY <1>1, <1>3
<1>7. \A j \in dead : /\ j \in 1..Len(q) /\ q[j] \in Pids /\ s.status[q[j]] = "ZOMBIE"
                     /\ pid \in {WAIT_ANY, q[j]}
  BY DEF Zombies
<1>. HIDE DEF dead, i
<1>. QED BY <1>4, <1>5, <1>6, <1>7 DEF i

LEMMA HopelessLemma ==
  ASSUME NEW s, NEW p, NEW pid
  PROVE  hopeless(s, p, pid) <=>
           pid # WAIT_ANY /\ ~ (pid \in Alive(s) /\ InQueue(s.children[p], pid))
BY DEF hopeless, InQueue

\* The running process enters or leaves a call, or init_main notes a pid.
LEMMA FamilyCall ==
  ASSUME NEW s, NEW t, Family(s), NEW p \in Pids, s.status[p] # "BLOCKED",
         t.status = s.status, t.block_reason = s.block_reason,
         t.children = s.children, t.parent = s.parent, t.mode = s.mode,
         t.foreground = s.foreground, t.process_count = s.process_count,
         TreeTypes(t), \A u \in Pids \ {p} : t.waitpid[u] = s.waitpid[u]
  PROVE  Family(t)
<1>1. Living(t) = Living(s) /\ Alive(t) = Alive(s)
  BY DEF Living, Alive
<1>2. Tree(t)
  BY <1>1 DEF Family, Kin, Tree
<1>3. TerminalOwner(t)
  <2>1. PICK D \in SUBSET Pids : Detached(s, D)
    BY DEF Family, Kin, TerminalOwner
  <2>2. Detached(t, D)
    BY <1>1, <2>1 DEF Detached
  <2>. QED BY <1>1, <2>2 DEF Family, Kin, TerminalOwner
<1>4. WaitCalls(t)
  <2>. SUFFICES ASSUME NEW u \in Pids \ {1}, BlockedInWait(t, u) PROVE Expecting(t, u)
    BY DEF WaitCalls
  <2>1. u # p /\ BlockedInWait(s, u)
    BY DEF BlockedInWait
  <2>2. Expecting(s, u)
    BY <2>1 DEF Family, WaitCalls
  <2>. QED BY <1>1, <2>1, <2>2 DEF Expecting
<1>. QED BY <1>1, <1>2, <1>3, <1>4 DEF Family, Kin, Root

\* init_main changes nothing but its local variable.
LEMMA FamilyShell ==
  ASSUME NEW s, Family(s), Inv(s), NEW v \in Pids \cup {NULL}
  PROVE  /\ Family([s EXCEPT !.shell_pid = v]) /\ Family(shell_gone(s))
         /\ [s EXCEPT !.shell_pid = v].status = s.status
         /\ shell_gone(s).status = s.status
<1>. DEFINE t(x) == [s EXCEPT !.shell_pid = x]
<1>1. Shape(s) /\ TreeTypes(s) /\ s.status[0] # "BLOCKED"
  BY DEF Inv, Core, Queues, Types, Family, Kin, Idle
<1>2. ASSUME NEW x \in Pids \cup {NULL} PROVE Family(t(x)) /\ t(x).status = s.status
  <2>1. /\ t(x).status = s.status /\ t(x).block_reason = s.block_reason
        /\ t(x).children = s.children /\ t(x).parent = s.parent /\ t(x).mode = s.mode
        /\ t(x).foreground = s.foreground /\ t(x).process_count = s.process_count
        /\ t(x).waitpid = s.waitpid /\ t(x).shell_pid = x
    BY ONLY <1>1 DEF Shape, Fields
  <2>. HIDE DEF t
  <2>2. TreeTypes(t(x))
    BY <1>1, <1>2, <2>1 DEF TreeTypes
  <2>. QED BY <1>1, <2>1, <2>2, FamilyCall, PidsLemma
<1>3. shell_gone(s) \in {t(NULL), s}
  BY DEF shell_gone
<1>4. Family(t(v)) /\ Family(t(NULL)) /\ t(v).status = s.status /\ t(NULL).status = s.status
  BY <1>2
<1>. QED BY <1>3, <1>4

\* The running process enters wait_pid, or returns from it.
LEMMA FamilyEnter ==
  ASSUME NEW s, Family(s), Inv(s), s.current \in Pids,
         NEW v \in Pids \cup {NoWait, WAIT_ANY}
  PROVE  LET t == [s EXCEPT !.waitpid[s.current] = v]
         IN  /\ Family(t) /\ Inv(t)
             /\ t.status = s.status /\ t.parent = s.parent /\ t.current = s.current
<1>. DEFINE p == s.current
            t == [s EXCEPT !.waitpid[p] = v]
<1>1. /\ Shape(s) /\ TreeTypes(s) /\ s.status[p] # "BLOCKED" /\ Core(s) /\ Idle(s)
      /\ s.parent \in [Pids -> Pids \cup {NULL}] /\ s.foreground \in Pids \cup {NULL}
  BY DEF Inv, Core, Queues, Types, Family, Kin
<1>2. /\ t.children = s.children /\ t.mode = s.mode /\ t.parent = s.parent
      /\ t.process_count = s.process_count /\ t.shell_pid = s.shell_pid
      /\ t.waitpid = [s.waitpid EXCEPT ![p] = v]
  BY ONLY <1>1 DEF Shape, Fields
<1>3. SameScheduler(s, t) /\ t.foreground = s.foreground
  BY ONLY <1>1 DEF SameScheduler, Shape, Fields
<1>. HIDE DEF t
<1>4. Inv(t)
  BY <1>1, <1>3, FrameLemma DEF Inv
<1>5. TreeTypes(t) /\ \A u \in Pids \ {p} : t.waitpid[u] = s.waitpid[u]
  BY <1>1, <1>2 DEF TreeTypes
<1>6. Family(t)
  <2>1. t.status = s.status /\ t.block_reason = s.block_reason /\ p \in Pids
    BY <1>3 DEF SameScheduler
  <2>. HIDE DEF p
  <2>. QED BY <1>1, <1>2, <1>3, <1>5, <2>1, FamilyCall, ZenonT(60)
<1>. QED BY <1>2, <1>3, <1>4, <1>6 DEF t, SameScheduler

\* A pass of wait_pid's loop: it returns, collects a child or blocks.
\* What the call of c waits for, pid, does to the others.  When it returns, no
\* process pid lives that is a child of c.
Waited(s, t, c, pid) ==
  /\ Living(t) = Living(s) /\ Alive(t) \subseteq Alive(s)
  /\ t.shell_pid = s.shell_pid /\ t.foreground = s.foreground
  /\ \A u \in Alive(t) : t.parent[u] = s.parent[u] /\ t.mode[u] = s.mode[u]
  /\ \A u \in Living(s) \ {c} : t.waitpid[u] = s.waitpid[u]
  /\ \A u \in Alive(s) \ Alive(t) : s.parent[u] = c
  /\ \/ t.waitpid[c] = pid /\ Alive(t) = Alive(s)
     \/ /\ t.waitpid[c] = NoWait
        /\ pid # WAIT_ANY => ~ (pid \in Living(s) /\ s.parent[pid] = c)

LEMMA FamilyWaitPass ==
  ASSUME NEW s, Family(s), Inv(s), s.current \in Pids \ {0}
  PROVE  /\ Family(wait_pass(s)) /\ ReapsOwn(s, wait_pass(s))
         /\ Waited(s, wait_pass(s), s.current, s.waitpid[s.current])
<1>. DEFINE p == s.current
            pid == s.waitpid[p]
            q == s.children[p]
            i == collectable(s, p, pid)
            z == q[i]
            r == [s EXCEPT !.waitpid[p] = NoWait]
<1>1. /\ Types(s) /\ Tree(s) /\ TreeTypes(s) /\ p \in Pids \ {0}
      /\ s.status[p] = "RUNNING" /\ p \in Living(s) /\ q \in Seq(Pids) /\ NoDuplicates(q)
  BY DEF Inv, Core, Queues, Types, Family, Kin, TreeTypes, Tree, Living
<1>2. \A c \in Pids : InQueue(q, c) <=> c \in Alive(s) /\ s.parent[c] = p
  BY <1>1 DEF Tree
<1>3. Family(r) /\ Inv(r) /\ r.status = s.status /\ r.parent = s.parent
  BY <1>1, FamilyEnter
<1>4. CASE hopeless(s, p, pid)
  <2>1. wait_pass(s) = r
    BY <1>4 DEF wait_pass
  <2>2. /\ r.children = s.children /\ r.mode = s.mode /\ r.shell_pid = s.shell_pid
        /\ r.foreground = s.foreground /\ r.waitpid = [s.waitpid EXCEPT ![p] = NoWait]
    <3>1. Shape(s)
      BY <1>1 DEF Types
    <3>. HIDE DEF p
    <3>. QED BY ONLY <3>1 DEF Shape, Fields
  <2>3. pid # WAIT_ANY => ~ (pid \in Living(s) /\ s.parent[pid] = p)
    <3>. HIDE DEF pid, p, q
    <3>1. pid # WAIT_ANY /\ ~ (pid \in Alive(s) /\ InQueue(q, pid))
      BY <1>4, HopelessLemma DEF q
    <3>. QED BY <1>2, <3>1 DEF Living, Alive
  <2>. HIDE DEF r
  <2>4. Living(r) = Living(s) /\ Alive(r) = Alive(s)
    BY <1>3 DEF Living, Alive
  <2>5. Waited(s, r, p, pid)
    <3>1. s.waitpid \in [Pids -> Pids \cup {NoWait, WAIT_ANY}] /\ Living(s) \subseteq Pids
      BY <1>1 DEF TreeTypes, Living
    <3>2. r.waitpid[p] = NoWait /\ \A u \in Living(s) \ {p} : r.waitpid[u] = s.waitpid[u]
      BY <1>1, <2>2, <3>1
    <3>. HIDE DEF p, pid
    <3>. QED BY <1>3, <2>2, <2>3, <2>4, <3>2 DEF Waited
  <2>. QED BY <1>3, <2>1, <2>5 DEF ReapsOwn
<1>5. CASE ~ hopeless(s, p, pid) /\ i = 0
  <2>1. wait_pass(s) = block(s, p, "CHILD", "null")
    BY <1>1, <1>5, PidsLemma DEF wait_pass, block_current
  <2>2. Expecting(s, p)
    <3>. HIDE DEF i, pid, q, p
    <3>1. \A c \in Pids : InQueue(q, c) /\ pid \in {WAIT_ANY, c} => s.status[c] # "ZOMBIE"
      BY <1>1, <1>5, CollectableLemma DEF i, q
    <3>2. pid # WAIT_ANY => pid \in Alive(s) /\ InQueue(q, pid)
      BY <1>5, HopelessLemma DEF q
    <3>3. pid \in Alive(s) => pid \in Pids
      BY DEF Alive
    <3>. QED BY <1>2, <3>1, <3>2, <3>3 DEF Expecting, pid
  <2>3. p \in Living(s) \ {0} /\ "CHILD" \in BlockReasons /\ "null" \in WaitingOn
    BY <1>1 DEF BlockReasons, WaitingOn
  <2>. DEFINE t == block(s, p, "CHILD", "null")
  <2>4. /\ SameTree(s, t) /\ t.status[p] = "BLOCKED"
        /\ \A u \in Pids \ {p} : SameStatus(s, t, u)
    BY <1>1, <2>3, BlockFrame
  <2>. HIDE DEF t
  <2>5. Living(t) = Living(s) /\ Alive(t) = Alive(s)
    <3>1. s.status \in [Pids -> Statuses]
      BY <1>1 DEF Types
    <3>2. \A u \in Pids : /\ t.status[u] = "FREE" <=> s.status[u] = "FREE"
                          /\ t.status[u] = "ZOMBIE" <=> s.status[u] = "ZOMBIE"
      BY <1>1, <2>4, <3>1 DEF SameStatus, Stopped, Statuses
    <3>. QED BY <3>2 DEF Living, Alive
  <2>6. Waited(s, t, p, pid)
    BY <2>4, <2>5 DEF Waited, SameTree
  <2>7. Family(t) /\ ReapsOwn(s, t)
    <3>. HIDE DEF p
    <3>. QED BY <2>2, <2>3, FamilyBlock DEF t
  <2>. QED BY <2>1, <2>6, <2>7 DEF t
<1>6. CASE ~ hopeless(s, p, pid) /\ i # 0
  <2>1. i \in 1..Len(q) /\ z \in Pids /\ s.status[z] = "ZOMBIE"
    <3>. HIDE DEF i, pid, p
    <3>. QED BY <1>1, <1>6, CollectableLemma DEF i
  <2>2. InQueue(q, z) /\ z \in Alive(s) /\ s.parent[z] = p /\ z # p
    <3>1. InQueue(q, z)
      BY <2>1 DEF InQueue
    <3>. QED BY <1>1, <1>2, <2>1, <3>1
  <2>. DEFINE w == proc_reap(r, z)
              cs == close_gap(q, i)
              t == [w EXCEPT !.children = [w.children EXCEPT ![p] = cs]]
  <2>3. wait_pass(s) = t
    BY <1>6 DEF wait_pass
  <2>4. /\ cs \in Seq(Pids) /\ NoDuplicates(cs)
        /\ \A u : InQueue(cs, u) <=> InQueue(q, u) /\ u # z
    <3>. HIDE DEF q, i
    <3>. QED BY <1>1, <2>1, CloseGapLemma
  <2>5. Inv(t)
    BY <1>1, <2>3, WaitPassLemma
  <2>6. Shape(r) /\ r.children = s.children /\ r.mode = s.mode
        /\ r.process_count = s.process_count /\ r.shell_pid = s.shell_pid
        /\ r.foreground = s.foreground /\ r.block_reason = s.block_reason
        /\ r.waitpid = [s.waitpid EXCEPT ![p] = NoWait]
    <3>1. Shape(s)
      BY <1>1 DEF Types
    <3>. HIDE DEF p
    <3>. QED BY ONLY <3>1 DEF Shape, Fields
  <2>. HIDE DEF r, z, cs, p
  <2>7. /\ Shape(w)
        /\ w.children = [r.children EXCEPT ![z] = << >>]
        /\ w.parent = [r.parent EXCEPT ![z] = NULL]
        /\ w.mode = [r.mode EXCEPT ![z] = "BG"]
        /\ w.waitpid = [r.waitpid EXCEPT ![z] = NoWait]
        /\ w.process_count = r.process_count - 1
        /\ w.foreground = r.foreground /\ w.shell_pid = r.shell_pid
        /\ w.status = [r.status EXCEPT ![z] = "FREE"]
        /\ w.block_reason = [r.block_reason EXCEPT ![z] = "NONE"]
    <3>1. Inv(w)
      BY <1>3, <2>1, ReapLemma
    <3>2. Shape(w)
      BY <3>1 DEF Inv, Core, Queues, Types
    <3>3. Shape(r)
      BY <2>6
    <3>. QED BY ONLY <3>2, <3>3, ReapFrame, ZenonT(60)
  <2>. HIDE DEF w
  <2>8. /\ t.children = [w.children EXCEPT ![p] = cs] /\ t.parent = w.parent
        /\ t.mode = w.mode /\ t.waitpid = w.waitpid /\ t.process_count = w.process_count
        /\ t.foreground = w.foreground /\ t.shell_pid = w.shell_pid
        /\ t.status = w.status /\ t.block_reason = w.block_reason
    BY ONLY <2>7 DEF Shape, Fields
  <2>. HIDE DEF t
  <2>9. /\ t.children = [[s.children EXCEPT ![z] = << >>] EXCEPT ![p] = cs]
        /\ t.parent = [s.parent EXCEPT ![z] = NULL]
        /\ t.mode = [s.mode EXCEPT ![z] = "BG"]
        /\ t.waitpid = [[s.waitpid EXCEPT ![p] = NoWait] EXCEPT ![z] = NoWait]
        /\ t.process_count = s.process_count - 1
        /\ t.foreground = s.foreground /\ t.shell_pid = s.shell_pid
        /\ t.status = [s.status EXCEPT ![z] = "FREE"]
        /\ t.block_reason = [s.block_reason EXCEPT ![z] = "NONE"]
    BY <1>3, <2>6, <2>7, <2>8
  <2>10. /\ s.children \in [Pids -> Seq(Pids)] /\ s.mode \in [Pids -> {"BG", "FG"}]
         /\ s.waitpid \in [Pids -> Pids \cup {NoWait, WAIT_ANY}]
         /\ s.process_count \in Int /\ s.process_count <= 0
         /\ s.shell_pid \in Pids \cup {NULL}
    BY <1>1 DEF TreeTypes
  <2>11. TreeTypes(t)
    <3>1. << >> \in Seq(Pids) /\ p \in Pids
      BY <1>1
    <3>2. t.children \in [Pids -> Seq(Pids)] /\ t.mode \in [Pids -> {"BG", "FG"}]
          /\ t.waitpid \in [Pids -> Pids \cup {NoWait, WAIT_ANY}]
      <4>. DEFINE kin == [s.children EXCEPT ![z] = << >>]
                  calls == [s.waitpid EXCEPT ![p] = NoWait]
      <4>1. /\ kin \in [Pids -> Seq(Pids)] /\ t.mode \in [Pids -> {"BG", "FG"}]
            /\ calls \in [Pids -> Pids \cup {NoWait, WAIT_ANY}]
        BY ONLY <2>9, <2>10, <3>1, ZenonT(60)
      <4>2. t.children = [kin EXCEPT ![p] = cs] /\ t.waitpid = [calls EXCEPT ![z] = NoWait]
        BY <2>9
      <4>. HIDE DEF kin, calls
      <4>. QED BY ONLY <2>4, <4>1, <4>2
    <3>3. t.process_count \in Int /\ t.process_count <= 0
      BY <2>9, <2>10
    <3>. QED BY <2>9, <2>10, <3>2, <3>3 DEF TreeTypes
  <2>12. ASSUME NEW u \in Pids, BlockedInWait(t, u) PROVE t.waitpid[u] = s.waitpid[u]
    <3>1. u # z /\ u # p
      BY <1>1, <2>9, <2>12 DEF BlockedInWait, Types
    <3>. QED BY <2>9, <2>10, <3>1
  <2>13. \A u \in Pids : t.children[u] = IF u = p THEN cs
                                         ELSE IF u = z THEN << >> ELSE s.children[u]
    BY <1>1, <2>9, <2>10
  <2>14. ASSUME NEW u \in Pids \ {z}
         PROVE  /\ NoDuplicates(t.children[u])
                /\ u \notin Alive(s) => t.children[u] = s.children[u]
                /\ u \in Living(s) =>
                     \A c \in Pids : InQueue(t.children[u], c) <=>
                                       InQueue(s.children[u], c) /\ c # z
    <3>1. CASE u = p
      BY <1>1, <2>4, <2>13, <3>1 DEF Living, Alive
    <3>2. CASE u # p
      <4>1. t.children[u] = s.children[u] /\ NoDuplicates(s.children[u])
        BY <1>1, <2>13, <3>2 DEF Tree
      <4>2. u \in Living(s) => ~ InQueue(s.children[u], z)
        BY <1>1, <2>1, <2>2, <3>2 DEF Tree
      <4>. QED BY <4>1, <4>2
    <3>. QED BY <3>1, <3>2
  <2>15. t.children[z] = << >> /\ s.parent[z] \in {NULL, s.current}
    BY <2>1, <2>2, <2>13 DEF p
  <2>16. Family(t) /\ ReapsOwn(s, t)
    BY <2>1, <2>5, <2>9, <2>11, <2>12, <2>14, <2>15, FamilyReap
  <2>17. Living(t) = Living(s) /\ Alive(t) = Alive(s) \ {z}
    <3>1. s.status \in [Pids -> Statuses]
      BY <1>1 DEF Types
    <3>2. \A u \in Pids : t.status[u] = IF u = z THEN "FREE" ELSE s.status[u]
      BY <2>1, <2>9, <3>1
    <3>. QED BY <2>1, <3>2 DEF Living, Alive
  <2>18. t.waitpid[p] = NoWait /\ \A u \in Living(s) \ {p} : t.waitpid[u] = s.waitpid[u]
    <3>1. z \notin Living(s) /\ Living(s) \subseteq Pids /\ p \in Pids
      BY <1>1, <2>1 DEF Living
    <3>. DEFINE calls == [s.waitpid EXCEPT ![p] = NoWait]
    <3>2. calls \in [Pids -> Pids \cup {NoWait, WAIT_ANY}]
      BY <2>10, <3>1
    <3>3. calls[p] = NoWait /\ \A u \in Pids \ {p} : calls[u] = s.waitpid[u]
      BY <2>10, <3>1
    <3>. HIDE DEF calls
    <3>4. \A u \in Pids : t.waitpid[u] = IF u = z THEN NoWait ELSE calls[u]
      <4>1. t.waitpid = [calls EXCEPT ![z] = NoWait]
        BY <2>9 DEF calls
      <4>. QED BY <2>1, <3>2, <4>1
    <3>. QED BY <3>1, <3>3, <3>4
  <2>19. \A u \in Alive(s) \ {z} : t.parent[u] = s.parent[u] /\ t.mode[u] = s.mode[u]
    <3>1. s.parent \in [Pids -> Pids \cup {NULL}] /\ Alive(s) \subseteq Pids
      BY <1>1 DEF Types, Alive
    <3>. QED BY <2>9, <2>10, <3>1
  <2>20. pid # WAIT_ANY => ~ (pid \in Living(s) /\ s.parent[pid] = p)
    <3>1. pid \in {WAIT_ANY, z}
      <4>. HIDE DEF pid, p
      <4>. QED BY <1>1, <1>6, CollectableLemma DEF i, z
    <3>2. z \notin Living(s)
      BY <2>1 DEF Living
    <3>. QED BY <3>1, <3>2
  <2>21. Waited(s, t, p, pid)
    <3>. HIDE DEF pid
    <3>. QED BY <2>2, <2>9, <2>17, <2>18, <2>19, <2>20 DEF Waited
  <2>. QED BY <2>3, <2>16, <2>21 DEF p
<1>. QED BY <1>4, <1>5, <1>6

LEMMA FamilyWaitPid ==
  ASSUME NEW s, Family(s), Inv(s), s.current \in Pids \ {0},
         NEW pid \in Pids \cup {WAIT_ANY}
  PROVE  Family(wait_pid(s, pid)) /\ ReapsOwn(s, wait_pid(s, pid))
<1>. DEFINE t == [s EXCEPT !.waitpid[s.current] = pid]
<1>1. wait_pid(s, pid) = IF s.children[s.current] = << >> THEN s ELSE wait_pass(t)
  BY DEF wait_pid
<1>2. Family(t) /\ Inv(t) /\ t.status = s.status /\ t.parent = s.parent
      /\ t.current = s.current
  BY FamilyEnter
<1>. HIDE DEF t
<1>3. Family(wait_pass(t)) /\ ReapsOwn(t, wait_pass(t))
  BY <1>2, FamilyWaitPass
<1>4. ReapsOwn(s, wait_pass(t)) /\ ReapsOwn(s, s)
  BY <1>2, <1>3 DEF ReapsOwn
<1>. QED BY <1>1, <1>3, <1>4

-----------------------------------------------------------------------------
(***************************************************************************)
(* The state machine.  The hypothesis is that no program kills a zombie:   *)
(* proc_kill of a zombie moves children that it has handed to init already.*)
(***************************************************************************)

LEMMA FamilyPriority ==
  ASSUME NEW s, Family(s), Inv(s), NEW p \in Pids, NEW v
  PROVE  LET t == change_priority(s, p, v)
         IN  Family(t) /\ ReapsOwn(s, t)
<1>. DEFINE t == change_priority(s, p, v)
<1>1. Shape(s)
  BY DEF Inv, Core, Queues, Types
<1>2. SameTree(s, t) /\ t.status = s.status /\ t.block_reason = s.block_reason
  <2>1. t \in {s, [s EXCEPT !.priority[p] = v, !.has_quantum[p] = v]}
    BY DEF change_priority
  <2>. HIDE DEF t
  <2>. QED BY ONLY <1>1, <2>1 DEF SameTree, Shape, Fields
<1>. HIDE DEF t
<1>3. \A u \in Pids : BlockedInWait(t, u) => BlockedInWait(s, u)
  BY <1>2 DEF BlockedInWait
<1>4. Family(t) /\ ReapsOwn(s, t)
  BY <1>2, <1>3, FamilyFrame DEF Family, WaitCalls
<1>. QED BY <1>4 DEF t

\* Every system call and interrupt keeps the tree, and frees a slot only for
\* the parent of the process that had it.
LEMMA FamilyNext ==
  ASSUME "ZOMBIE" \notin Killable, Family(k), Inv(k), [Next]_k
  PROVE  Family(k') /\ ReapsOwn(k, k')
<1>0. /\ k.current \in Pids \cup {NULL} /\ Switching(k) /\ Types(k)
      /\ k.status \in [Pids -> Statuses]
      /\ \A p \in Pids : k.status[p] = "RUNNING" <=> k.current = p
  BY InvSwitching DEF Inv, Core, Queues, Types
<1>1. CASE Tick
  <2>1. OnlySwitched(k, k')
    BY <1>0, <1>1, TimerFrame DEF Tick
  <2>. QED BY <1>0, <2>1, FamilySwitch
<1>2. CASE Yield
  <2>1. CASE k.current = NULL
    <3>1. OnlySwitched(k, k')
      BY <1>0, <1>2, <2>1, TimerFrame DEF Yield, yield
    <3>. QED BY <1>0, <3>1, FamilySwitch
  <2>2. CASE k.current # NULL
    <3>1. k.current \in Pids /\ k.status[k.current] = "RUNNING" /\ Queues(k) /\ Idle(k)
      BY <1>0, <2>2 DEF Inv, Core
    <3>2. OnlySwitched(k, k')
      BY <1>0, <1>2, <3>1, YieldFrame DEF Yield
    <3>. QED BY <1>0, <3>2, FamilySwitch
  <2>. QED BY <2>1, <2>2
<1>3. CASE Spawn
  BY <1>3, FamilySpawn DEF Spawn
<1>4. CASE Exit
  <2>. DEFINE t == proc_kill(k, k.current)
  <2>1. Family(t) /\ ReapsOwn(k, t)
    <3>1. CASE k.current = NULL
      <4>1. t = k
        BY <3>1 DEF proc_kill
      <4>. QED BY <4>1 DEF ReapsOwn
    <3>2. CASE k.current # NULL
      <4>1. k.current \in Living(k) \ {0, 1}
        BY <1>0, <1>4, <3>2 DEF Exit, Program, Living
      <4>. QED BY <4>1, FamilyKill
    <3>. QED BY <3>1, <3>2
  <2>2. Inv(t)
    BY <1>0, KillLemma
  <2>3. k' = timer_interrupt(t)
    BY <1>4 DEF Exit
  <2>. HIDE DEF t
  <2>4. Types(t) /\ OnlySwitched(t, k')
    BY <2>2, <2>3, InvSwitching, TimerFrame DEF Inv, Core, Queues
  <2>5. Family(k')
    BY <2>1, <2>4, FamilySwitch
  <2>6. \A p \in Pids : k'.status[p] = "FREE" => t.status[p] = "FREE"
    BY <2>4 DEF OnlySwitched, SameStatus, Stopped, Types, Statuses
  <2>7. ReapsOwn(k, k')
    BY <2>1, <2>6 DEF ReapsOwn
  <2>. QED BY <2>5, <2>7
<1>5. CASE Kill
  <2>1. PICK p \in Pids \ {0, 1} : k.status[p] \in Killable /\ k' = proc_kill(k, p)
    BY <1>5 DEF Kill
  <2>2. p \in Living(k) \ {0, 1}
    BY <2>1, KernelAssumption DEF Living
  <2>. QED BY <2>1, <2>2, FamilyKill
<1>6. CASE CtrlC
  <2>1. k.foreground \in Living(k) \ {0, 1}
    BY <1>6 DEF CtrlC, Family, Kin, TerminalOwner
  <2>. QED BY <1>6, <2>1, FamilyKill DEF CtrlC
<1>7. CASE Block
  <2>1. PICK p \in Pids \ {0} : k' = block_process_by_pid(k, p)
    BY <1>7 DEF Block
  <2>2. CASE p \notin Living(k) \/ k.status[p] = "BLOCKED"
    <3>1. k' = k
      BY <2>1, <2>2 DEF block_process_by_pid, Living
    <3>. QED BY <3>1 DEF ReapsOwn
  <2>3. CASE p \in Living(k) /\ k.status[p] # "BLOCKED"
    <3>1. k' = block(k, p, "ARBITRARY", "null")
      BY <2>1, <2>3 DEF block_process_by_pid, Living
    <3>2. "ARBITRARY" \in BlockReasons /\ "null" \in WaitingOn /\ "ARBITRARY" # "CHILD"
      BY DEF BlockReasons, WaitingOn
    <3>3. p \in Living(k) \ {0}
      BY <2>1, <2>3
    <3>. QED BY <3>1, <3>2, <3>3, FamilyBlock
  <2>. QED BY <2>2, <2>3
<1>8. CASE Unblock
  <2>1. PICK p \in Pids \ {0} : k' = unblock_process_by_pid(k, p)
    BY <1>8 DEF Unblock
  <2>2. CASE k.status[p] = "BLOCKED"
    BY <2>1, <2>2, FamilyWake DEF unblock_process_by_pid
  <2>3. CASE k.status[p] # "BLOCKED"
    <3>1. k' = k
      BY <2>1, <2>3 DEF unblock_process_by_pid
    <3>. QED BY <3>1 DEF ReapsOwn
  <2>. QED BY <2>2, <2>3
<1>9. CASE ChangePriority
  BY <1>9, FamilyPriority DEF ChangePriority
<1>10. CASE Wait
  <2>1. CASE k.current = NULL
    BY <1>10, <2>1, FamilyFault DEF Wait
  <2>2. CASE k.current # NULL
    <3>1. k.current \in Pids \ {0}
      BY <1>0, <1>10, <2>2 DEF Wait, Program
    <3>2. PICK pid \in (Pids \ {0, 1}) \cup {WAIT_ANY} : k' = wait_pid(k, pid)
      BY <1>10, <2>2 DEF Wait
    <3>3. pid \in Pids \cup {WAIT_ANY}
      OBVIOUS
    <3>. QED BY <3>1, <3>2, <3>3, FamilyWaitPid
  <2>. QED BY <2>1, <2>2
<1>11. CASE InitSpawn
  <2>. DEFINE t == sys_spawn_process(k, FALSE)
              p == proc_pid_alloc(k)
  <2>1. Family(t) /\ ReapsOwn(k, t) /\ Inv(t)
    BY FamilySpawn, SpawnLemma DEF Inv
  <2>2. p \in Pids \cup {NULL}
    BY LeastLemma, PidsLemma DEF proc_pid_alloc, Alive
  <2>3. k' = [t EXCEPT !.shell_pid = p]
    BY <1>11 DEF InitSpawn
  <2>. HIDE DEF t, p
  <2>4. Family(k') /\ k'.status = t.status
    BY <2>1, <2>2, <2>3, FamilyShell
  <2>. QED BY <2>1, <2>4 DEF ReapsOwn
<1>12. CASE InitWait
  <2>. DEFINE t == wait_pid(k, WAIT_ANY)
  <2>1. k.current \in Pids \ {0}
    BY <1>12, PidsLemma DEF InitWait
  <2>2. Family(t) /\ ReapsOwn(k, t) /\ Inv(t)
    BY <2>1, FamilyWaitPid, WaitPidLemma
  <2>3. k' = shell_gone(t)
    BY <1>12 DEF InitWait
  <2>. HIDE DEF t
  <2>4. Family(k') /\ k'.status = t.status
    BY <2>2, <2>3, FamilyShell, PidsLemma
  <2>. QED BY <2>2, <2>4 DEF ReapsOwn
<1>13. CASE Resume
  <2>. DEFINE t == wait_pass(k)
  <2>1. k.current \in Pids \ {0}
    BY <1>0, <1>13 DEF Resume
  <2>2. Family(t) /\ ReapsOwn(k, t) /\ Inv(t)
    BY <2>1, FamilyWaitPass, WaitPassLemma
  <2>3. k' = t \/ k' = shell_gone(t)
    BY <1>13 DEF Resume
  <2>. HIDE DEF t
  <2>4. Family(k') /\ k'.status = t.status
    BY <2>2, <2>3, FamilyShell, PidsLemma
  <2>. QED BY <2>2, <2>4 DEF ReapsOwn
<1>14. CASE Halted \/ UNCHANGED k
  <2>1. k' = k
    BY <1>14 DEF Halted
  <2>. QED BY <2>1 DEF ReapsOwn
<1>. QED BY <1>1, <1>2, <1>3, <1>4, <1>5, <1>6, <1>7, <1>8, <1>9, <1>10,
            <1>11, <1>12, <1>13, <1>14 DEF Next

\* Unless a zombie is killed again, the invariant of the process tree holds in
\* every reachable state of the kernel.
THEOREM FamilyInvariance ==
  ASSUME "ZOMBIE" \notin Killable
  PROVE  Spec => [](Inv(k) /\ Family(k))
<1>1. Init => Inv(k) /\ Family(k)
  BY BootLemma, FamilyBoot DEF Init
<1>2. Inv(k) /\ Family(k) /\ [Next]_k => (Inv(k) /\ Family(k))'
  BY NextLemma, FamilyNext
<1>. QED BY <1>1, <1>2, PTL DEF Spec

\* The two copies of the process tree, parent pointers and lists of children,
\* agree for every process that has not died, whatever is spawned, killed,
\* orphaned and collected, and for every number of processes.
THEOREM FamilyAgrees ==
  ASSUME "ZOMBIE" \notin Killable
  PROVE  Spec => []FamilyConsistent
<1>1. Inv(k) /\ Family(k) => FamilyConsistent
  BY DEF Family, Kin, Tree, FamilyConsistent, Living
<1>. QED BY <1>1, FamilyInvariance, PTL

\* No program sleeps in wait_pid while a child it could collect is dead, or
\* after the child it waits for has gone: proc_kill wakes the parent, and the
\* test and the block of wait_pid are one step.
THEOREM NoChildMissed ==
  ASSUME "ZOMBIE" \notin Killable
  PROVE  Spec => []NoLostChildWakeup
<1>1. ASSUME Inv(k), Family(k) PROVE NoLostChildWakeup
  <2>. SUFFICES ASSUME NEW p \in Pids \ {1}, BlockedInWait(k, p)
                PROVE  /\ collectable(k, p, k.waitpid[p]) = 0
                       /\ ~ hopeless(k, p, k.waitpid[p])
    BY DEF NoLostChildWakeup, BlockedInWait
  <2>1. Expecting(k, p) /\ p \in Living(k) /\ Tree(k) /\ k.children[p] \in Seq(Pids)
    BY <1>1 DEF Family, WaitCalls, BlockedInWait, Living, Kin, TreeTypes
  <2>2. \A c \in Pids : InQueue(k.children[p], c) <=> c \in Alive(k) /\ k.parent[c] = p
    BY <2>1 DEF Tree
  <2>3. collectable(k, p, k.waitpid[p]) = 0
    BY <2>1, <2>2, CollectableLemma DEF Expecting
  <2>4. Alive(k) \subseteq Pids
    BY DEF Alive
  <2>5. ~ hopeless(k, p, k.waitpid[p])
    BY <2>1, <2>2, <2>4, HopelessLemma DEF Expecting
  <2>. QED BY <2>3, <2>5
<1>. QED BY <1>1, FamilyInvariance, PTL

\* The state of the kernel keeps its type.  That no list of children outgrows
\* the array of the PCB is the pigeonhole principle: it names nobody twice.
THEOREM KernelTypes ==
  ASSUME "ZOMBIE" \notin Killable
  PROVE  Spec => []TypeOK
<1>1. ASSUME Inv(k), Family(k) PROVE TypeOK
  <2>1. SchedulerTypeOK /\ k.sleepers = << >>
    BY <1>1 DEF Inv, Core, Queues, Types, Shape, SchedulerTypeOK
  <2>2. \A p \in Pids : Len(k.children[p]) <= MAX_PROCESSES
    BY <1>1, RoomLemma DEF Family, Kin, TreeTypes, Tree
  <2>. QED BY <1>1, <2>1, <2>2 DEF TypeOK, Family, Kin, TreeTypes
<1>. QED BY <1>1, FamilyInvariance, PTL

\* A slot of the process table is freed by the parent of the process, inside
\* its call to wait_pid, or at the death of a process that has no parent.
THEOREM ReapingIsParental ==
  ASSUME "ZOMBIE" \notin Killable
  PROVE  Spec => ReapedByParent
<1>1. ASSUME Inv(k), Family(k), [Next]_k
      PROVE  [\A p \in Pids :
                k.status[p] = "ZOMBIE" /\ k'.status[p] = "FREE" =>
                  k.parent[p] \in {NULL, k.current}]_k
  BY <1>1, FamilyNext DEF ReapsOwn
<1>. QED BY <1>1, FamilyInvariance, PTL DEF Spec, ReapedByParent

-----------------------------------------------------------------------------
(***************************************************************************)
(* Waits for what other modules build on the kernel.  No call of the       *)
(* kernel itself starts or ends one, if nobody forces a process out of it. *)
(***************************************************************************)

\* Programs kill only processes that could run, and send no signal by keyboard.
Orderly ==
  /\ Killable \subseteq {"READY", "RUNNING"}
  /\ Calls \cap {"ctrl_c", "unblock", "sleep"} = {}

Resources == {"SEMAPHORE", "PIPE_READ", "PIPE_WRITE", "TERMINAL"}

OnResource(s, p) == s.status[p] = "BLOCKED" /\ s.block_reason[p] \in Resources

SameWait(s, t, p) ==
  OnResource(s, p) \/ OnResource(t, p) =>
    /\ t.status[p] = s.status[p] /\ t.block_reason[p] = s.block_reason[p]
    /\ t.waiting_on[p] = s.waiting_on[p]

SameWaits(s, t) == \A p \in Pids : SameWait(s, t, p)

LEMMA SwitchWaits ==
  ASSUME NEW s, NEW t, OnlySwitched(s, t)
  PROVE  SameWaits(s, t)
BY DEF OnlySwitched, SameStatus, Stopped, SameWaits, SameWait, OnResource

LEMMA BlockWaits ==
  ASSUME NEW s, Inv(s), NEW p \in Pids \ {0}, s.status[p] # "BLOCKED",
         NEW reason \in BlockReasons, reason \notin Resources, NEW resource \in WaitingOn
  PROVE  SameWaits(s, block(s, p, reason, resource))
<1>. DEFINE t == block(s, p, reason, resource)
<1>1. /\ t.status[p] = "BLOCKED" /\ t.block_reason[p] = reason
      /\ \A u \in Pids \ {p} : SameStatus(s, t, u)
  BY BlockFrame
<1>. HIDE DEF t
<1>2. SameWaits(s, t)
  BY <1>1 DEF SameStatus, Stopped, OnResource, SameWaits, SameWait
<1>. QED BY <1>2 DEF t

LEMMA KillWaits ==
  ASSUME NEW s, Inv(s), NEW p \in Pids \ {0, 1}
  PROVE  LET t == proc_kill(s, p)
         IN  /\ ~ OnResource(t, p)
             /\ \A u \in Pids \ {p} : SameWait(s, t, u)
             /\ s.status[p] # "BLOCKED" => SameWaits(s, t)
<1>. DEFINE a == stop(s, p)
            b == reparent_children(a, p)
            m == b.parent[p]
            t == proc_kill(s, p)
<1>1. Types(s) /\ s.status \in [Pids -> Statuses] /\ s.block_reason \in [Pids -> BlockReasons]
      /\ p # NULL /\ p \in Pids
  BY PidsLemma DEF Inv, Core, Queues, Types
<1>2. Inv(a) /\ Types(a)
  BY StopLemma DEF Inv, Core, Queues
<1>3. /\ a.status = [s.status EXCEPT ![p] = "ZOMBIE"] /\ a.block_reason = s.block_reason
      /\ a.waiting_on = s.waiting_on
  BY <1>1, StopFrame
<1>. HIDE DEF a
<1>4. SameScheduler(a, b)
  BY <1>1, <1>2, ReparentLemma
<1>5. t = IF m = NULL THEN proc_reap(b, p)
          ELSE IF b.status[m] = "BLOCKED" /\ b.block_reason[m] = "CHILD"
               THEN proc_ready(b, m) ELSE b
  BY <1>1 DEF proc_kill, bury, a
<1>6. /\ Shape(b) /\ Types(b) /\ m \in Pids \cup {NULL}
      /\ b.status = [s.status EXCEPT ![p] = "ZOMBIE"] /\ b.block_reason = s.block_reason
      /\ b.waiting_on = s.waiting_on
  <2>1. Inv(b)
    BY <1>2, <1>4, FrameLemma DEF Inv
  <2>2. Types(b)
    BY <2>1 DEF Inv, Core, Queues
  <2>. QED BY <1>1, <1>3, <1>4, <2>2 DEF Types, SameScheduler
<1>. HIDE DEF b, m, t
<1>7. CASE m = NULL
  <2>1. /\ t.status = [b.status EXCEPT ![p] = "FREE"]
        /\ t.block_reason = [b.block_reason EXCEPT ![p] = "NONE"]
        /\ t.waiting_on = [b.waiting_on EXCEPT ![p] = "null"]
    BY <1>5, <1>6, <1>7, ReapFrame, ZenonT(60)
  <2>. QED BY <1>1, <1>6, <2>1 DEF SameWaits, SameWait, OnResource, Types, t
<1>8. CASE m # NULL /\ b.status[m] = "BLOCKED" /\ b.block_reason[m] = "CHILD"
  <2>1. m \in Pids /\ t = proc_ready(b, m)
    BY <1>5, <1>6, <1>8
  <2>2. /\ t.status = [b.status EXCEPT ![m] = "READY"]
        /\ t.block_reason = [b.block_reason EXCEPT ![m] = "NONE"]
        /\ t.waiting_on = [b.waiting_on EXCEPT ![m] = "ready"]
    BY <1>6, <2>1, ReadyFrame
  <2>3. m # p /\ s.block_reason[m] \notin Resources
    BY <1>1, <1>6, <1>8, <2>1 DEF Resources
  <2>4. /\ t.status[m] = "READY" /\ t.status[p] = "ZOMBIE"
        /\ \A u \in Pids \ {m, p} :
             /\ t.status[u] = s.status[u] /\ t.block_reason[u] = s.block_reason[u]
             /\ t.waiting_on[u] = s.waiting_on[u]
    <3>1. s.waiting_on \in [Pids -> WaitingOn] /\ p \in Pids
      BY <1>1 DEF Types
    <3>. QED BY ONLY <1>1, <1>6, <2>1, <2>2, <2>3, <3>1
  <2>5. ~ OnResource(s, m) /\ ~ OnResource(t, m) /\ ~ OnResource(t, p)
    BY <2>3, <2>4 DEF OnResource
  <2>6. \A u \in Pids \ {p} : SameWait(s, t, u)
    BY <2>4, <2>5 DEF SameWait
  <2>7. s.status[p] # "BLOCKED" => SameWaits(s, t)
    BY <2>5, <2>6 DEF SameWaits, SameWait, OnResource
  <2>. QED BY <2>5, <2>6, <2>7 DEF t
<1>9. CASE m # NULL /\ ~ (b.status[m] = "BLOCKED" /\ b.block_reason[m] = "CHILD")
  <2>1. t = b
    BY <1>5, <1>9
  <2>. QED BY <1>1, <1>6, <2>1 DEF SameWaits, SameWait, OnResource, Types, t
<1>. QED BY <1>7, <1>8, <1>9

LEMMA FaultWaits ==
  ASSUME NEW s, Inv(s)
  PROVE  SameWaits(s, fault(s))
<1>1. Shape(s)
  BY DEF Inv, Core, Queues, Types
<1>2. /\ fault(s).status = s.status /\ fault(s).block_reason = s.block_reason
      /\ fault(s).waiting_on = s.waiting_on
  BY ONLY <1>1 DEF fault, Shape, Fields
<1>. QED BY <1>2 DEF SameWaits, SameWait, OnResource

LEMMA SpawnWaits ==
  ASSUME NEW s, Inv(s), Family(s), NEW background
  PROVE  SameWaits(s, sys_spawn_process(s, background))
<1>. DEFINE t == sys_spawn_process(s, background)
            p == proc_pid_alloc(s)
<1>1. Core(s) /\ Kin(s) /\ Types(s)
  BY DEF Inv, Core, Queues, Family
<1>2. IF Alive(s) = Pids THEN t = fault(s)
      ELSE p \in Pids \ Alive(s) /\ Spawned(s, t, p)
  BY <1>1, SpawnFrame
<1>. HIDE DEF p, t
<1>3. CASE Alive(s) = Pids
  BY <1>2, <1>3, FaultWaits DEF t
<1>4. CASE Alive(s) # Pids
  <2>1. /\ p \in Pids /\ s.status[p] = "FREE"
        /\ t.status = [s.status EXCEPT ![p] = "READY"]
        /\ t.block_reason = [s.block_reason EXCEPT ![p] = "NONE"]
        /\ t.waiting_on = [s.waiting_on EXCEPT ![p] = "ready"]
    BY <1>2, <1>4 DEF Spawned, Alive
  <2>. QED BY <1>1, <2>1 DEF SameWaits, SameWait, OnResource, Types, t
<1>. QED BY <1>3, <1>4

LEMMA WaitPassWaits ==
  ASSUME NEW s, Inv(s), Family(s), s.current \in Pids \ {0}
  PROVE  SameWaits(s, wait_pass(s))
<1>. DEFINE p == s.current
            pid == s.waitpid[p]
            q == s.children[p]
            i == collectable(s, p, pid)
            z == q[i]
            r == [s EXCEPT !.waitpid[p] = NoWait]
            w == proc_reap(r, z)
<1>1. /\ Types(s) /\ Shape(s) /\ q \in Seq(Pids) /\ s.status[p] = "RUNNING"
      /\ s.status \in [Pids -> Statuses] /\ s.block_reason \in [Pids -> BlockReasons]
      /\ s.waiting_on \in [Pids -> WaitingOn] /\ p \in Pids \ {0}
  BY DEF Inv, Core, Queues, Types, Family, Kin, TreeTypes
<1>2. Shape(r) /\ r.status = s.status /\ r.block_reason = s.block_reason
      /\ r.waiting_on = s.waiting_on
  BY ONLY <1>1 DEF Shape, Fields
<1>3. CASE hopeless(s, p, pid)
  <2>1. wait_pass(s) = r
    BY <1>3 DEF wait_pass
  <2>. QED BY <1>2, <2>1 DEF SameWaits, SameWait, OnResource
<1>4. CASE ~ hopeless(s, p, pid) /\ i = 0
  <2>1. wait_pass(s) = block(s, p, "CHILD", "null")
    BY <1>1, <1>4, PidsLemma DEF wait_pass, block_current
  <2>2. /\ "CHILD" \in BlockReasons \ Resources /\ "null" \in WaitingOn
        /\ s.status[p] # "BLOCKED"
    BY <1>1 DEF BlockReasons, Resources, WaitingOn
  <2>. HIDE DEF p
  <2>. QED BY <1>1, <2>1, <2>2, BlockWaits
<1>5. CASE ~ hopeless(s, p, pid) /\ i # 0
  <2>1. z \in Pids /\ s.status[z] = "ZOMBIE"
    <3>. HIDE DEF i, pid, p
    <3>. QED BY <1>1, <1>5, CollectableLemma DEF i
  <2>. DEFINE kin == [w.children EXCEPT ![p] = close_gap(q, i)]
              t == [w EXCEPT !.children = kin]
  <2>2. wait_pass(s) = t
    BY <1>5 DEF wait_pass
  <2>. HIDE DEF r, z, kin
  <2>3. /\ w.status = [s.status EXCEPT ![z] = "FREE"]
        /\ w.block_reason = [s.block_reason EXCEPT ![z] = "NONE"]
        /\ w.waiting_on = [s.waiting_on EXCEPT ![z] = "null"]
    <3>1. Shape(r)
      BY <1>2
    <3>2. /\ w.status = [r.status EXCEPT ![z] = "FREE"]
          /\ w.block_reason = [r.block_reason EXCEPT ![z] = "NONE"]
          /\ w.waiting_on = [r.waiting_on EXCEPT ![z] = "null"]
      BY ONLY <3>1, ReapFrame
    <3>. QED BY <1>2, <3>2
  <2>4. Shape(w)
    <3>1. Shape(clear_scheduling(r, z))
      BY ONLY <1>2, ZenonT(60) DEF clear_scheduling, Shape, Fields
    <3>. QED BY ONLY <3>1 DEF proc_reap, Shape, Fields
  <2>. HIDE DEF w
  <2>5. t.status = w.status /\ t.block_reason = w.block_reason /\ t.waiting_on = w.waiting_on
    BY ONLY <2>4 DEF Shape, Fields
  <2>. HIDE DEF t
  <2>6. SameWaits(s, t)
    BY <1>1, <2>1, <2>3, <2>5 DEF SameWaits, SameWait, OnResource
  <2>. QED BY <2>2, <2>6
<1>. QED BY <1>3, <1>4, <1>5

LEMMA WaitPidWaits ==
  ASSUME NEW s, Inv(s), Family(s), s.current \in Pids \ {0},
         NEW pid \in Pids \cup {WAIT_ANY}
  PROVE  SameWaits(s, wait_pid(s, pid))
<1>. DEFINE t == [s EXCEPT !.waitpid[s.current] = pid]
<1>1. wait_pid(s, pid) = IF s.children[s.current] = << >> THEN s ELSE wait_pass(t)
  BY DEF wait_pid
<1>2. Family(t) /\ Inv(t) /\ t.current = s.current
  BY FamilyEnter
<1>3. Shape(s)
  BY DEF Inv, Core, Queues, Types
<1>4. t.status = s.status /\ t.block_reason = s.block_reason /\ t.waiting_on = s.waiting_on
  BY ONLY <1>3 DEF Shape, Fields
<1>. HIDE DEF t
<1>5. SameWaits(t, wait_pass(t))
  BY <1>2, WaitPassWaits
<1>. QED BY <1>1, <1>4, <1>5 DEF SameWaits, SameWait, OnResource

LEMMA ShellWaits ==
  ASSUME NEW s, Inv(s), NEW v
  PROVE  SameWaits(s, [s EXCEPT !.shell_pid = v]) /\ SameWaits(s, shell_gone(s))
<1>. DEFINE t(x) == [s EXCEPT !.shell_pid = x]
<1>1. Shape(s)
  BY DEF Inv, Core, Queues, Types
<1>2. ASSUME NEW x
      PROVE  /\ t(x).status = s.status /\ t(x).block_reason = s.block_reason
             /\ t(x).waiting_on = s.waiting_on
  BY ONLY <1>1 DEF Shape, Fields
<1>3. ASSUME NEW x PROVE SameWaits(s, t(x))
  <2>. HIDE DEF t
  <2>. QED BY <1>2 DEF SameWaits, SameWait, OnResource
<1>4. shell_gone(s) \in {t(NULL), s} /\ SameWaits(s, s)
  BY DEF shell_gone, SameWaits, SameWait
<1>. QED BY <1>3, <1>4

\* Every step of an orderly kernel leaves the waits on resources as they are.
LEMMA NextWaits ==
  ASSUME Orderly, Inv(k), Family(k), [Next]_k
  PROVE  SameWaits(k, k')
<1>0. /\ k.current \in Pids \cup {NULL} /\ Switching(k)
      /\ \A p \in Pids : k.status[p] = "RUNNING" <=> k.current = p
      /\ "unblock" \notin Calls /\ "ctrl_c" \notin Calls
  BY InvSwitching DEF Inv, Core, Queues, Types, Orderly
<1>1. CASE Tick
  BY <1>0, <1>1, TimerFrame, SwitchWaits DEF Tick
<1>2. CASE Yield
  <2>1. CASE k.current = NULL
    BY <1>0, <1>2, <2>1, TimerFrame, SwitchWaits DEF Yield, yield
  <2>2. CASE k.current # NULL
    <3>1. k.current \in Pids /\ k.status[k.current] = "RUNNING" /\ Queues(k) /\ Idle(k)
      BY <1>0, <2>2 DEF Inv, Core
    <3>2. OnlySwitched(k, k')
      BY <1>0, <1>2, <3>1, YieldFrame DEF Yield
    <3>. QED BY <3>2, SwitchWaits
  <2>. QED BY <2>1, <2>2
<1>3. CASE Spawn
  BY <1>3, SpawnWaits DEF Spawn
<1>4. CASE Exit
  <2>. DEFINE t == proc_kill(k, k.current)
  <2>1. SameWaits(k, t)
    <3>1. CASE k.current = NULL
      BY <3>1 DEF proc_kill, SameWaits, SameWait
    <3>2. CASE k.current # NULL
      <4>1. k.current \in Pids \ {0, 1} /\ k.status[k.current] # "BLOCKED"
        BY <1>0, <1>4, <3>2 DEF Exit, Program
      <4>. QED BY <4>1, KillWaits
    <3>. QED BY <3>1, <3>2
  <2>2. Inv(t)
    BY <1>0, KillLemma
  <2>3. k' = timer_interrupt(t)
    BY <1>4 DEF Exit
  <2>. HIDE DEF t
  <2>4. SameWaits(t, k')
    BY <2>2, <2>3, InvSwitching, TimerFrame, SwitchWaits
  <2>. QED BY <2>1, <2>4 DEF SameWaits, SameWait, OnResource
<1>5. CASE Kill
  <2>1. PICK p \in Pids \ {0, 1} : k.status[p] \in Killable /\ k' = proc_kill(k, p)
    BY <1>5 DEF Kill
  <2>2. k.status[p] # "BLOCKED"
    BY <2>1 DEF Orderly
  <2>. QED BY <2>1, <2>2, KillWaits
<1>6. CASE CtrlC \/ Unblock
  BY <1>0, <1>6 DEF CtrlC, Unblock, Program
<1>7. CASE Block
  <2>1. PICK p \in Pids \ {0} : k' = block_process_by_pid(k, p)
    BY <1>7 DEF Block
  <2>2. CASE k.status[p] \in {"FREE", "ZOMBIE", "BLOCKED"}
    BY <2>1, <2>2 DEF block_process_by_pid, SameWaits, SameWait
  <2>3. CASE k.status[p] \notin {"FREE", "ZOMBIE", "BLOCKED"}
    <3>1. k' = block(k, p, "ARBITRARY", "null") /\ k.status[p] # "BLOCKED"
      BY <2>1, <2>3 DEF block_process_by_pid
    <3>2. "ARBITRARY" \in BlockReasons \ Resources /\ "null" \in WaitingOn
      BY DEF BlockReasons, Resources, WaitingOn
    <3>. QED BY <3>1, <3>2, BlockWaits
  <2>. QED BY <2>2, <2>3
<1>8. CASE ChangePriority
  <2>1. PICK p \in Pids, v \in PriorityArgs : k' = change_priority(k, p, v % 256)
    BY <1>8 DEF ChangePriority
  <2>2. \/ k' = k
        \/ k' = [k EXCEPT !.priority[p] = v % 256, !.has_quantum[p] = v % 256]
    BY <2>1 DEF change_priority
  <2>3. Shape(k)
    BY DEF Inv, Core, Queues, Types
  <2>4. /\ k'.status = k.status /\ k'.block_reason = k.block_reason
        /\ k'.waiting_on = k.waiting_on
    BY ONLY <2>2, <2>3, ZenonT(60) DEF Shape, Fields
  <2>. QED BY <2>4 DEF SameWaits, SameWait, OnResource
<1>9. CASE Wait
  <2>1. CASE k.current = NULL
    BY <1>9, <2>1, FaultWaits DEF Wait
  <2>2. CASE k.current # NULL
    <3>1. k.current \in Pids \ {0}
      BY <1>0, <1>9, <2>2 DEF Wait, Program
    <3>2. PICK pid \in (Pids \ {0, 1}) \cup {WAIT_ANY} : k' = wait_pid(k, pid)
      BY <1>9, <2>2 DEF Wait
    <3>3. pid \in Pids \cup {WAIT_ANY}
      OBVIOUS
    <3>. QED BY <3>1, <3>2, <3>3, WaitPidWaits
  <2>. QED BY <2>1, <2>2
<1>10. CASE InitSpawn
  <2>. DEFINE t == sys_spawn_process(k, FALSE)
              p == proc_pid_alloc(k)
  <2>1. SameWaits(k, t) /\ Inv(t)
    BY SpawnWaits, SpawnLemma DEF Inv
  <2>2. k' = [t EXCEPT !.shell_pid = p]
    BY <1>10 DEF InitSpawn
  <2>. HIDE DEF t, p
  <2>3. SameWaits(t, k')
    BY <2>1, <2>2, ShellWaits
  <2>. QED BY <2>1, <2>3 DEF SameWaits, SameWait, OnResource
<1>11. CASE InitWait
  <2>. DEFINE t == wait_pid(k, WAIT_ANY)
  <2>1. k.current \in Pids \ {0}
    BY <1>11, PidsLemma DEF InitWait
  <2>2. SameWaits(k, t) /\ Inv(t)
    BY <2>1, WaitPidWaits, WaitPidLemma
  <2>3. k' = shell_gone(t)
    BY <1>11 DEF InitWait
  <2>. HIDE DEF t
  <2>4. SameWaits(t, k')
    BY <2>2, <2>3, ShellWaits
  <2>. QED BY <2>2, <2>4 DEF SameWaits, SameWait, OnResource
<1>12. CASE Resume
  <2>. DEFINE t == wait_pass(k)
  <2>1. k.current \in Pids \ {0}
    BY <1>0, <1>12 DEF Resume
  <2>2. SameWaits(k, t) /\ Inv(t)
    BY <2>1, WaitPassWaits, WaitPassLemma
  <2>3. k' = t \/ k' = shell_gone(t)
    BY <1>12 DEF Resume
  <2>. HIDE DEF t
  <2>4. SameWaits(t, k')
    BY <2>2, <2>3, ShellWaits DEF SameWaits, SameWait, OnResource
  <2>. QED BY <2>2, <2>4 DEF SameWaits, SameWait, OnResource
<1>13. CASE Halted \/ UNCHANGED k
  BY <1>13 DEF Halted, SameWaits, SameWait
<1>. QED BY <1>1, <1>2, <1>3, <1>4, <1>5, <1>6, <1>7, <1>8, <1>9, <1>10,
            <1>11, <1>12, <1>13 DEF Next
=============================================================================
