---------------------------- MODULE ShellProofs -----------------------------
(***************************************************************************)
(* Proofs about the pipes and the shell, for every number of processes,    *)
(* pipes and descriptors, every buffer size and every sequence of commands.*)
(* KernelProofs gives the invariants of the kernel below.                  *)
(***************************************************************************)
EXTENDS Shell, KernelProofs

-----------------------------------------------------------------------------
(***************************************************************************)
(* The kernel while the descriptors of a dying process are closed.         *)
(***************************************************************************)

\* The loop of pipe_close_write, step by step.
LEMMA WakeSteps ==
  ASSUME NEW s, NEW q \in Seq(Pids)
  PROVE  \E f : /\ f[0] = s /\ wake_all(s, q) = f[Len(q)]
                /\ \A n \in 1..Len(q) : f[n] = proc_ready(f[n - 1], q[n])
<1>. DEFINE G(f, m) == f = [n \in 0..m |-> IF n = 0 THEN s ELSE proc_ready(f[n - 1], q[n])]
            T == {m \in Nat : \E f : G(f, m)}
<1>1. 0 \in T
  <2>1. G([n \in 0..0 |-> s], 0)
    OBVIOUS
  <2>. QED BY <2>1
<1>2. ASSUME NEW m \in Nat, m \in T PROVE m + 1 \in T
  <2>1. PICK f : G(f, m)
    BY <1>2
  <2>. DEFINE g == [n \in 0..(m + 1) |-> IF n = m + 1 THEN proc_ready(f[m], q[m + 1]) ELSE f[n]]
  <2>2. ASSUME NEW n \in 0..(m + 1)
        PROVE  g[n] = IF n = 0 THEN s ELSE proc_ready(g[n - 1], q[n])
    BY <2>1
  <2>3. G(g, m + 1)
    <3>1. g = [n \in 0..(m + 1) |-> g[n]]
      OBVIOUS
    <3>. HIDE DEF g
    <3>. QED BY <2>2, <3>1
  <2>. HIDE DEF g, G
  <2>. QED BY <2>3
<1>3. Len(q) \in T
  <2>. HIDE DEF T
  <2>1. Nat \subseteq T
    BY <1>1, <1>2, NatSet
  <2>. QED BY <2>1
<1>. DEFINE w == CHOOSE f : G(f, Len(q))
<1>4. G(w, Len(q))
  <2>1. \E f : G(f, Len(q))
    BY <1>3
  <2>. HIDE DEF G
  <2>. QED BY <2>1
<1>5. wake_all(s, q) = w[Len(q)]
  BY DEF wake_all
<1>. HIDE DEF w
<1>6. w[0] = s /\ \A n \in 1..Len(q) : w[n] = proc_ready(w[n - 1], q[n])
  BY <1>4
<1>. QED BY <1>5, <1>6

\* queue_remove and enqueue of two different values commute.
LEMMA RemoveEnqueue ==
  ASSUME NEW S, NEW q \in Seq(S), NEW u \in S, NEW p, u # p
  PROVE  queue_remove(enqueue(q, u), p) = enqueue(queue_remove(q, p), u)
<1>. DEFINE a == Append(q, u)
<1>1. /\ a \in Seq(S) /\ Len(a) = Len(q) + 1 /\ a[Len(q) + 1] = u /\ Len(q) \in Nat
      /\ \A i \in 1..Len(q) : a[i] = q[i]
  OBVIOUS
<1>. HIDE DEF a
<1>2. InQueue(a, p) <=> InQueue(q, p)
  BY <1>1 DEF InQueue
<1>3. CASE ~ InQueue(q, p)
  BY <1>2, <1>3 DEF queue_remove, enqueue, InQueue, a
<1>4. CASE InQueue(q, p)
  <2>. DEFINE After(r, i) == \E j \in 1..i : r[j] = p
              r == [i \in 1..(Len(q) - 1) |-> IF After(q, i) THEN q[i + 1] ELSE q[i]]
              t == [i \in 1..(Len(a) - 1) |-> IF After(a, i) THEN a[i + 1] ELSE a[i]]
  <2>1. Len(q) > 0 /\ queue_remove(q, p) = r /\ queue_remove(a, p) = t
    BY <1>1, <1>2, <1>4 DEF queue_remove, InQueue
  <2>2. \A i \in 1..Len(q) : After(a, i) <=> After(q, i)
    BY <1>1
  <2>3. After(q, Len(q))
    BY <1>4 DEF InQueue
  <2>. HIDE DEF After
  <2>4. r \in Seq(S) /\ Len(r) = Len(q) - 1 /\ \A i \in 1..Len(r) :
          r[i] = IF After(q, i) THEN q[i + 1] ELSE q[i]
    BY <1>1, <2>1
  <2>5. t \in Seq(S) /\ Len(t) = Len(q) /\ \A i \in 1..Len(t) :
          t[i] = IF After(a, i) THEN a[i + 1] ELSE a[i]
    BY <1>1, <2>1
  <2>. HIDE DEF r, t
  <2>6. t = Append(r, u)
    <3>1. /\ Append(r, u) \in Seq(S) /\ Len(Append(r, u)) = Len(q)
          /\ \A i \in 1..(Len(q) - 1) : Append(r, u)[i] = r[i]
          /\ Append(r, u)[Len(q)] = u
      BY <2>1, <2>4
    <3>2. ASSUME NEW i \in 1..Len(q) PROVE t[i] = Append(r, u)[i]
      <4>1. CASE i = Len(q)
        BY <1>1, <2>1, <2>2, <2>3, <2>5, <3>1, <4>1
      <4>2. CASE i # Len(q)
        <5>1. i \in 1..(Len(q) - 1) /\ i + 1 \in 1..Len(q)
          BY <1>1, <4>2
        <5>2. t[i] = IF After(q, i) THEN q[i + 1] ELSE q[i]
          <6>1. After(a, i) <=> After(q, i)
            BY <2>2
          <6>2. a[i + 1] = q[i + 1] /\ a[i] = q[i]
            BY <1>1, <5>1
          <6>. QED BY ONLY <2>5, <3>2, <6>1, <6>2
        <5>3. Append(r, u)[i] = IF After(q, i) THEN q[i + 1] ELSE q[i]
          BY ONLY <2>4, <3>1, <5>1
        <5>. QED BY ONLY <5>2, <5>3
      <4>. QED BY <4>1, <4>2
    <3>. QED BY <2>5, <3>1, <3>2
  <2>. QED BY <2>1, <2>6 DEF enqueue, a
<1>. QED BY <1>3, <1>4

\* Two kernel states with the same fields are the same.
LEMMA SameFields ==
  ASSUME NEW s, NEW t, Shape(s), Shape(t),
         t.status = s.status, t.block_reason = s.block_reason,
         t.waiting_on = s.waiting_on, t.has_quantum = s.has_quantum,
         t.priority = s.priority, t.mode = s.mode, t.parent = s.parent,
         t.children = s.children, t.waitpid = s.waitpid, t.ready = s.ready,
         t.current = s.current, t.blocked = s.blocked, t.sleepers = s.sleepers,
         t.foreground = s.foreground, t.process_count = s.process_count,
         t.shell_pid = s.shell_pid, t.machine = s.machine
  PROVE  t = s
<1>1. \A f \in Fields : t[f] = s[f]
  BY DEF Fields
<1>2. [f \in Fields |-> t[f]] = [f \in Fields |-> s[f]]
  BY <1>1, Zenon
<1>. QED BY <1>2, Zenon DEF Shape

\* The fields after proc_ready.
Readied(s, t, u) ==
  /\ Shape(t)
  /\ t.status = [s.status EXCEPT ![u] = "READY"]
  /\ t.block_reason = [s.block_reason EXCEPT ![u] = "NONE"]
  /\ t.waiting_on = [s.waiting_on EXCEPT ![u] = "ready"]
  /\ t.ready = enqueue(s.ready, u)
  /\ t.blocked = [s.blocked EXCEPT ![u] =
                   IF s.blocked[u] > 0 THEN s.blocked[u] - 1 ELSE 0]
  /\ t.has_quantum = s.has_quantum /\ t.priority = s.priority
  /\ t.mode = s.mode /\ t.parent = s.parent /\ t.children = s.children
  /\ t.waitpid = s.waitpid /\ t.current = s.current
  /\ t.sleepers = s.sleepers /\ t.foreground = s.foreground
  /\ t.process_count = s.process_count
  /\ t.shell_pid = s.shell_pid /\ t.machine = s.machine

LEMMA ReadyFields ==
  ASSUME NEW s, Shape(s), NEW u, u # NULL
  PROVE  Readied(s, proc_ready(s, u), u)
BY DEF proc_ready, Readied, Shape, Fields

\* The fields after stop.
StoppedBy(s, t, p) ==
  LET m == s.parent[p]
  IN  /\ Shape(t)
      /\ t.status = [s.status EXCEPT ![p] = "ZOMBIE"]
      /\ t.waitpid = [s.waitpid EXCEPT ![p] = NoWait]
      /\ t.ready = IF s.waiting_on[p] = "ready" THEN queue_remove(s.ready, p)
                   ELSE s.ready
      /\ t.current = IF s.status[p] = "RUNNING" THEN NULL ELSE s.current
      /\ t.mode = IF m = NULL THEN s.mode
                  ELSE IF m = 1 THEN [s.mode EXCEPT ![1] = "FG"]
                  ELSE IF p = NULL \/ s.mode[p] # "FG" THEN s.mode
                  ELSE [[s.mode EXCEPT ![p] = "BG"] EXCEPT ![m] = "FG"]
      /\ t.foreground = IF m = NULL THEN s.foreground
                  ELSE IF m = 1 THEN 1
                  ELSE IF p = NULL \/ s.mode[p] # "FG" THEN s.foreground
                  ELSE m
      /\ t.block_reason = s.block_reason /\ t.waiting_on = s.waiting_on
      /\ t.blocked = s.blocked
      /\ t.has_quantum = s.has_quantum /\ t.priority = s.priority
      /\ t.parent = s.parent /\ t.children = s.children
      /\ t.sleepers = s.sleepers
      /\ t.process_count = s.process_count
      /\ t.shell_pid = s.shell_pid /\ t.machine = s.machine

LEMMA StopFields ==
  ASSUME NEW s, Shape(s), NEW p
  PROVE  StoppedBy(s, stop(s, p), p)
<1>. DEFINE m == s.parent[p]
            a == set_foreground_process(s, m, p)
            b == IF s.status[p] = "RUNNING" THEN sched_rm_current(a) ELSE a
            q == IF s.waiting_on[p] = "ready" THEN queue_remove(s.ready, p) ELSE s.ready
            t == stop(s, p)
<1>1. t = [b EXCEPT !.ready = q, !.status[p] = "ZOMBIE", !.waitpid[p] = NoWait]
  BY DEF stop
<1>2. /\ Shape(a)
      /\ a.mode = IF m = NULL THEN s.mode
                  ELSE IF m = 1 THEN [s.mode EXCEPT ![1] = "FG"]
                  ELSE IF p = NULL \/ s.mode[p] # "FG" THEN s.mode
                  ELSE [[s.mode EXCEPT ![p] = "BG"] EXCEPT ![m] = "FG"]
      /\ a.foreground = IF m = NULL THEN s.foreground
                  ELSE IF m = 1 THEN 1
                  ELSE IF p = NULL \/ s.mode[p] # "FG" THEN s.foreground
                  ELSE m
      /\ a.status = s.status /\ a.waitpid = s.waitpid /\ a.current = s.current
      /\ a.block_reason = s.block_reason /\ a.waiting_on = s.waiting_on
      /\ a.blocked = s.blocked
      /\ a.has_quantum = s.has_quantum /\ a.priority = s.priority
      /\ a.parent = s.parent /\ a.children = s.children
      /\ a.sleepers = s.sleepers
      /\ a.process_count = s.process_count
      /\ a.shell_pid = s.shell_pid /\ a.machine = s.machine
  <2>. HIDE DEF m
  <2>. QED BY ONLY Shape(s) DEF set_foreground_process, Shape, Fields, a
<1>. HIDE DEF a, m
<1>3. /\ Shape(b) /\ b.mode = a.mode /\ b.foreground = a.foreground
      /\ b.current = IF s.status[p] = "RUNNING" THEN NULL ELSE a.current
      /\ b.status = a.status /\ b.waitpid = a.waitpid
      /\ b.block_reason = a.block_reason /\ b.waiting_on = a.waiting_on
      /\ b.blocked = a.blocked
      /\ b.has_quantum = a.has_quantum /\ b.priority = a.priority
      /\ b.parent = a.parent /\ b.children = a.children
      /\ b.sleepers = a.sleepers
      /\ b.process_count = a.process_count
      /\ b.shell_pid = a.shell_pid /\ b.machine = a.machine
  BY ONLY <1>2 DEF sched_rm_current, Shape, Fields
<1>. HIDE DEF b, q, t
<1>4. /\ Shape(t) /\ t.mode = b.mode /\ t.foreground = b.foreground
      /\ t.current = b.current /\ t.ready = q
      /\ t.status = [b.status EXCEPT ![p] = "ZOMBIE"]
      /\ t.waitpid = [b.waitpid EXCEPT ![p] = NoWait]
      /\ t.block_reason = b.block_reason /\ t.waiting_on = b.waiting_on
      /\ t.blocked = b.blocked
      /\ t.has_quantum = b.has_quantum /\ t.priority = b.priority
      /\ t.parent = b.parent /\ t.children = b.children
      /\ t.sleepers = b.sleepers
      /\ t.process_count = b.process_count
      /\ t.shell_pid = b.shell_pid /\ t.machine = b.machine
  BY ONLY <1>1, <1>3 DEF Shape, Fields
<1>. QED BY <1>2, <1>3, <1>4 DEF q, t, m, StoppedBy

\* Waking u and stopping another process p commute.
LEMMA ReadyStop ==
  ASSUME NEW s, Types(s), NEW u \in Pids, NEW p \in Pids, u # p
  PROVE  stop(proc_ready(s, u), p) = proc_ready(stop(s, p), u)
<1>. DEFINE r == proc_ready(s, u)
            a == stop(r, p)
            t == stop(s, p)
            b == proc_ready(t, u)
<1>1. /\ Shape(s) /\ u # NULL
      /\ s.ready \in Seq(Pids) /\ s.status \in [Pids -> Statuses]
      /\ s.waiting_on \in [Pids -> WaitingOn]
  BY PidsLemma DEF Types
<1>2. Readied(s, r, u)
  BY <1>1, ReadyFields
<1>3. StoppedBy(r, a, p) /\ StoppedBy(s, t, p)
  <2>1. Shape(r)
    BY <1>2 DEF Readied
  <2>. QED BY <1>1, <2>1, StopFields
<1>4. Readied(t, b, u)
  <2>1. Shape(t)
    BY <1>3 DEF StoppedBy
  <2>. QED BY <1>1, <2>1, ReadyFields
<1>5. queue_remove(enqueue(s.ready, u), p) = enqueue(queue_remove(s.ready, p), u)
  BY <1>1, RemoveEnqueue
<1>. HIDE DEF r, a, t, b
<1>6. r.status[p] = s.status[p] /\ r.waiting_on[p] = s.waiting_on[p]
  BY <1>1, <1>2 DEF Readied
<1>7. a.ready = b.ready
  BY ONLY <1>2, <1>3, <1>4, <1>5, <1>6 DEF Readied, StoppedBy
<1>8. a.status = b.status
  BY ONLY <1>1, <1>2, <1>3, <1>4, u # p DEF Readied, StoppedBy
<1>9. /\ a.parent = b.parent /\ a.waitpid = b.waitpid /\ a.has_quantum = b.has_quantum
      /\ a.priority = b.priority /\ a.children = b.children /\ a.sleepers = b.sleepers
      /\ a.process_count = b.process_count /\ a.shell_pid = b.shell_pid
      /\ a.machine = b.machine /\ a.block_reason = b.block_reason
      /\ a.waiting_on = b.waiting_on /\ a.blocked = b.blocked
  BY ONLY <1>2, <1>3, <1>4 DEF Readied, StoppedBy
<1>10. a.current = b.current /\ a.mode = b.mode /\ a.foreground = b.foreground
  BY ONLY <1>2, <1>3, <1>4, <1>6 DEF Readied, StoppedBy
<1>11. a = b
  <2>1. Shape(a) /\ Shape(b)
    BY <1>3, <1>4 DEF Readied, StoppedBy
  <2>. QED BY <1>7, <1>8, <1>9, <1>10, <2>1, SameFields
<1>. QED BY <1>11 DEF a, b, t, r
\* The processes at the first n places of q were woken between s and t.
Woken(s, t, q, n) ==
  /\ Inv(t) /\ Family(t) /\ SameTree(s, t)
  /\ \A u \in Pids :
       IF \E i \in 1..n : q[i] = u THEN t.status[u] = "READY"
       ELSE /\ t.status[u] = s.status[u] /\ t.block_reason[u] = s.block_reason[u]
            /\ t.waiting_on[u] = s.waiting_on[u]

\* The last writer wakes every reader that waits, and nothing else happens; it
\* makes no difference whether a process that does not wait is stopped before
\* or after that.
LEMMA WakeAllLemma ==
  ASSUME NEW s, Inv(s), Family(s), NEW q \in Seq(Pids), NoDuplicates(q),
         \A u \in Pids : InQueue(q, u) => s.status[u] = "BLOCKED"
  PROVE  /\ Woken(s, wake_all(s, q), q, Len(q))
         /\ \A p \in Pids : ~ InQueue(q, p) =>
              wake_all(stop(s, p), q) = stop(wake_all(s, q), p)
<1>1. PICK f : /\ f[0] = s /\ wake_all(s, q) = f[Len(q)]
               /\ \A n \in 1..Len(q) : f[n] = proc_ready(f[n - 1], q[n])
  BY WakeSteps
<1>. DEFINE T == {n \in Nat : n <= Len(q) => Woken(s, f[n], q, n)}
<1>2. 0 \in T
  BY <1>1 DEF Woken, SameTree
<1>3. ASSUME NEW n \in Nat, n \in T PROVE n + 1 \in T
  <2>. SUFFICES ASSUME n + 1 <= Len(q) PROVE Woken(s, f[n + 1], q, n + 1)
    OBVIOUS
  <2>. DEFINE a == f[n]
              u == q[n + 1]
              t == f[n + 1]
  <2>1. Woken(s, a, q, n) /\ u \in Pids /\ t = proc_ready(a, u)
    <3>1. n + 1 \in 1..Len(q) /\ (n + 1) - 1 = n
      OBVIOUS
    <3>. QED BY <1>1, <1>3, <3>1
  <2>2. ~ \E i \in 1..n : q[i] = u
    BY DEF NoDuplicates
  <2>3. InQueue(q, u)
    BY DEF InQueue
  <2>. HIDE DEF a, u, t
  <2>4. a.status[u] = "BLOCKED" /\ Inv(a) /\ Family(a) /\ Types(a)
    BY <2>1, <2>2, <2>3 DEF Woken, Inv, Core, Queues
  <2>5. Inv(t) /\ Family(t)
    BY <2>1, <2>4, WakeLemma, FamilyWake
  <2>6. /\ SameTree(a, t)
        /\ t.status = [a.status EXCEPT ![u] = "READY"]
        /\ t.block_reason = [a.block_reason EXCEPT ![u] = "NONE"]
        /\ t.waiting_on = [a.waiting_on EXCEPT ![u] = "ready"]
    BY <2>1, <2>4, ReadyFrame
  <2>7. \A v : (\E i \in 1..(n + 1) : q[i] = v) <=> (\E i \in 1..n : q[i] = v) \/ v = u
    BY DEF u
  <2>8. /\ a.status \in [Pids -> Statuses] /\ a.block_reason \in [Pids -> BlockReasons]
        /\ a.waiting_on \in [Pids -> WaitingOn]
    BY <2>4 DEF Types
  <2>9. SameTree(s, t)
    BY <2>1, <2>6 DEF Woken, SameTree
  <2>10. ASSUME NEW v \in Pids
         PROVE  IF \E i \in 1..(n + 1) : q[i] = v THEN t.status[v] = "READY"
                ELSE /\ t.status[v] = s.status[v] /\ t.block_reason[v] = s.block_reason[v]
                     /\ t.waiting_on[v] = s.waiting_on[v]
    <3>. DEFINE E == \E i \in 1..n : q[i] = v
    <3>1. IF E THEN a.status[v] = "READY"
          ELSE /\ a.status[v] = s.status[v] /\ a.block_reason[v] = s.block_reason[v]
               /\ a.waiting_on[v] = s.waiting_on[v]
      BY <2>1 DEF Woken
    <3>2. (\E i \in 1..(n + 1) : q[i] = v) <=> E \/ v = u
      BY <2>7
    <3>. HIDE DEF E
    <3>. QED BY <2>6, <2>8, <3>1, <3>2
  <2>. QED BY <2>5, <2>9, <2>10 DEF Woken, t
<1>4. \A n \in 0..Len(q) : Woken(s, f[n], q, n)
  <2>1. Nat \subseteq T
    <3>. HIDE DEF T
    <3>. QED BY <1>2, <1>3, NatSet
  <2>. QED BY <2>1
<1>5. ASSUME NEW p \in Pids, ~ InQueue(q, p)
      PROVE  wake_all(stop(s, p), q) = stop(wake_all(s, q), p)
  <2>1. PICK g : /\ g[0] = stop(s, p) /\ wake_all(stop(s, p), q) = g[Len(q)]
                 /\ \A n \in 1..Len(q) : g[n] = proc_ready(g[n - 1], q[n])
    BY WakeSteps
  <2>. DEFINE U == {n \in Nat : n <= Len(q) => g[n] = stop(f[n], p)}
  <2>2. 0 \in U
    BY <1>1, <2>1
  <2>3. ASSUME NEW n \in Nat, n \in U PROVE n + 1 \in U
    <3>. SUFFICES ASSUME n + 1 <= Len(q) PROVE g[n + 1] = stop(f[n + 1], p)
      OBVIOUS
    <3>1. /\ n + 1 \in 1..Len(q) /\ (n + 1) - 1 = n /\ n \in 0..Len(q)
          /\ q[n + 1] \in Pids /\ q[n + 1] # p
      BY <1>5 DEF InQueue
    <3>2. f[n + 1] = proc_ready(f[n], q[n + 1]) /\ g[n + 1] = proc_ready(g[n], q[n + 1])
      BY <1>1, <2>1, <3>1
    <3>3. g[n] = stop(f[n], p) /\ Types(f[n])
      BY <1>4, <2>3, <3>1 DEF Woken, Inv, Core, Queues
    <3>. QED BY <3>1, <3>2, <3>3, ReadyStop
  <2>4. Len(q) \in U
    <3>. HIDE DEF U
    <3>1. Nat \subseteq U
      BY <2>2, <2>3, NatSet
    <3>. QED BY <3>1
  <2>. QED BY <1>1, <2>1, <2>4
<1>. QED BY <1>1, <1>4, <1>5

\* wait_pid called by the shell.
LEMMA WaitPidFrame ==
  ASSUME NEW s, Family(s), Inv(s), s.current \in Pids \ {0},
         s.waitpid[s.current] = NoWait, NEW pid \in Pids \cup {WAIT_ANY}
  PROVE  Waited(s, wait_pid(s, pid), s.current, pid)
<1>. DEFINE c == s.current
            r == [s EXCEPT !.waitpid[c] = pid]
            t == wait_pass(r)
<1>1. wait_pid(s, pid) = IF s.children[c] = << >> THEN s ELSE t
  BY DEF wait_pid
<1>2. /\ Family(r) /\ Inv(r) /\ r.status = s.status /\ r.parent = s.parent /\ r.current = c
  BY FamilyEnter
<1>3. /\ Shape(s) /\ s.waitpid \in [Pids -> Pids \cup {NoWait, WAIT_ANY}] /\ Tree(s)
      /\ c \in Living(s) /\ c \in Pids
  BY DEF Inv, Core, Queues, Types, Family, Kin, TreeTypes, Living
<1>4. /\ r.waitpid = [s.waitpid EXCEPT ![c] = pid] /\ r.mode = s.mode
      /\ r.foreground = s.foreground /\ r.shell_pid = s.shell_pid
  <2>. HIDE DEF c
  <2>. QED BY ONLY <1>3 DEF Shape, Fields
<1>. HIDE DEF r
<1>5. Waited(r, t, c, pid)
  <2>1. r.waitpid[c] = pid
    BY <1>3, <1>4
  <2>. QED BY <1>2, <2>1, FamilyWaitPass
<1>6. Living(r) = Living(s) /\ Alive(r) = Alive(s) /\ Living(s) \subseteq Pids
  BY <1>2 DEF Living, Alive
<1>7. \A u \in Living(s) \ {c} : r.waitpid[u] = s.waitpid[u]
  BY <1>3, <1>4, <1>6
<1>. HIDE DEF c, t
<1>8. Waited(s, t, c, pid)
  BY <1>2, <1>4, <1>5, <1>6, <1>7 DEF Waited
<1>9. CASE s.children[c] = << >>
  <2>1. \A u \in Pids : ~ (u \in Alive(s) /\ s.parent[u] = c)
    BY <1>3, <1>9 DEF Tree, InQueue
  <2>2. Waited(s, s, c, pid)
    BY <2>1 DEF Waited, c, Living, Alive
  <2>. QED BY <1>1, <1>9, <2>2 DEF c
<1>. QED BY <1>1, <1>8, <1>9 DEF c

-----------------------------------------------------------------------------
(***************************************************************************)
(* The bytes of a pipe.                                                    *)
(***************************************************************************)

Ring == INSTANCE RingBufProofs WITH
  SIZE <- PIPE_BUFFER_SIZE, Bytes <- 0..MaxBytes, None <- NULL,
  ring <- pipes, got <- pipes

LEMMA RingHolds ==
  PIPE_BUFFER_SIZE \in Nat /\ PIPE_BUFFER_SIZE >= 2 /\ NULL \notin 0..MaxBytes
BY PipeAssumption DEF NULL

\* A byte that fits is added, one that is there can be taken (ringbuf.h).
LEMMA RingSteps ==
  ASSUME NEW r, Ring!RingInv(r)
  PROVE  /\ Buf!ringbuf_available(r) \in 0..(PIPE_BUFFER_SIZE - 1)
         /\ \A c \in 0..MaxBytes : ~ Buf!is_full(r) =>
              /\ Ring!RingInv(Buf!ringbuf_write(r, c))
              /\ Buf!Contents(Buf!ringbuf_write(r, c)) = Append(Buf!Contents(r), c)
         /\ Buf!ringbuf_available(r) > 0 =>
              /\ Ring!RingInv(Buf!ringbuf_read(r))
              /\ Buf!Contents(Buf!ringbuf_read(r)) = Tail(Buf!Contents(r))
<1>1. /\ Ring!is_full(r) <=> Buf!is_full(r)
      /\ Ring!ringbuf_available(r) = Buf!ringbuf_available(r)
  BY DEF Buf!is_full, Ring!is_full, Buf!RING_INDEX, Ring!RING_INDEX,
         Ring!ringbuf_available, Buf!ringbuf_available
<1>2. Buf!ringbuf_available(r) \in 0..(PIPE_BUFFER_SIZE - 1)
  <2>1. Ring!ringbuf_available(r) \in Nat /\ Ring!ringbuf_available(r) <= PIPE_BUFFER_SIZE - 1
    BY RingHolds, Ring!FullLemma DEF Ring!RingInv
  <2>. QED BY <1>1, <2>1, RingHolds
<1>3. ASSUME NEW c \in 0..MaxBytes, ~ Buf!is_full(r)
      PROVE  /\ Ring!RingInv(Buf!ringbuf_write(r, c))
             /\ Buf!Contents(Buf!ringbuf_write(r, c)) = Append(Buf!Contents(r), c)
  <2>1. /\ Ring!RingInv(Ring!store(r, c))
        /\ Ring!Contents(Ring!store(r, c)) = Append(Ring!Contents(r), c)
    BY <1>1, <1>3, RingHolds, Ring!StoreLemma
  <2>2. Buf!ringbuf_write(r, c) = Buf!store(r, c)
    BY <1>3 DEF Buf!ringbuf_write
  <2>. QED BY <2>1, <2>2, Zenon DEF Ring!Contents, Buf!Contents, Ring!store, Buf!store,
           Ring!wrap, Buf!wrap, Ring!ringbuf_available, Buf!ringbuf_available,
           Buf!RING_INDEX, Ring!RING_INDEX
<1>4. ASSUME Buf!ringbuf_available(r) > 0
      PROVE  /\ Ring!RingInv(Buf!ringbuf_read(r))
             /\ Buf!Contents(Buf!ringbuf_read(r)) = Tail(Buf!Contents(r))
  <2>1. ~ Ring!is_empty(r)
    BY <1>1, <1>2, <1>4, RingHolds, Ring!FullLemma
  <2>2. /\ Ring!RingInv(Ring!ringbuf_read(r))
        /\ Ring!Contents(Ring!ringbuf_read(r)) = Tail(Ring!Contents(r))
    BY <2>1, RingHolds, Ring!ReadLemma
  <2>. QED BY <2>2, Zenon DEF Ring!Contents, Buf!Contents, Ring!ringbuf_read,
           Buf!ringbuf_read, Ring!wrap, Buf!wrap, Ring!ringbuf_available,
           Buf!ringbuf_available, Buf!RING_INDEX, Ring!RING_INDEX
<1>. QED BY <1>2, <1>3, <1>4

PipeFields ==
  {"table", "readers", "writers", "ring", "readers_wait", "writers_wait",
   "sent", "received"}

PipeShape(x) == x = [f \in PipeFields |-> x[f]]

\* The buffer of pipe x holds the bytes from received + 1 to sent, in order.
FifoOK(x) ==
  /\ Ring!RingInv(x.ring)
  /\ x.sent \in Nat /\ x.received \in Nat /\ x.received <= x.sent /\ x.sent <= MaxBytes
  /\ Buf!Contents(x.ring) = [j \in 1..(x.sent - x.received) |-> x.received + j]

\* The ends and the queues of a pipe are the same in x and y.
SameEnds(x, y) ==
  /\ y.table = x.table /\ y.readers = x.readers /\ y.writers = x.writers
  /\ y.readers_wait = x.readers_wait /\ y.writers_wait = x.writers_wait

\* What is available is what was sent and not received.
LEMMA AvailableLemma ==
  ASSUME NEW x, FifoOK(x)
  PROVE  /\ Buf!ringbuf_available(x.ring) = x.sent - x.received
         /\ Buf!ringbuf_available(x.ring) \in 0..(PIPE_BUFFER_SIZE - 1)
<1>. DEFINE a == Buf!ringbuf_available(x.ring)
            d == x.sent - x.received
<1>1. a \in 0..(PIPE_BUFFER_SIZE - 1) /\ a \in Nat
  <2>1. a \in 0..(PIPE_BUFFER_SIZE - 1)
    BY RingSteps DEF FifoOK
  <2>. QED BY <2>1, RingHolds
<1>2. DOMAIN Buf!Contents(x.ring) = 1..a
  BY DEF Buf!Contents
<1>3. DOMAIN Buf!Contents(x.ring) = 1..d /\ d \in Nat
  BY DEF FifoOK
<1>. HIDE DEF a, d
<1>4. a = d
  BY <1>1, <1>2, <1>3
<1>. QED BY <1>1, <1>4 DEF a, d

\* One byte of a write.
LEMMA PutByteLemma ==
  ASSUME NEW x, PipeShape(x), FifoOK(x), x.sent + 1 <= MaxBytes
  PROVE  LET y == put_byte(x)
         IN  /\ PipeShape(y) /\ FifoOK(y) /\ SameEnds(x, y)
             /\ y.sent <= x.sent + 1
<1>. DEFINE y == put_byte(x)
            r == Buf!ringbuf_write(x.ring, x.sent + 1)
            q == Buf!Contents(x.ring)
<1>0. x.sent \in Nat /\ x.received \in Nat /\ x.received <= x.sent /\ Ring!RingInv(x.ring)
      /\ q = [j \in 1..(x.sent - x.received) |-> x.received + j]
  BY DEF FifoOK
<1>1. CASE Buf!is_full(x.ring)
  <2>1. y = x
    BY <1>1 DEF put_byte
  <2>. QED BY <1>0, <2>1 DEF SameEnds
<1>2. CASE ~ Buf!is_full(x.ring)
  <2>1. y = [x EXCEPT !.ring = r, !.sent = x.sent + 1]
    BY <1>2 DEF put_byte
  <2>2. x.sent + 1 \in 0..MaxBytes
    BY <1>0, PipeAssumption
  <2>3. Ring!RingInv(r) /\ Buf!Contents(r) = Append(q, x.sent + 1)
    BY <1>0, <1>2, <2>2, RingSteps
  <2>. HIDE DEF r, y, q
  <2>4. PipeShape(y) /\ SameEnds(x, y) /\ y.ring = r /\ y.sent = x.sent + 1
        /\ y.received = x.received
    BY ONLY <2>1, PipeShape(x) DEF PipeShape, PipeFields, SameEnds
  <2>5. Append(q, x.sent + 1) =
          [j \in 1..(x.sent + 1 - x.received) |-> x.received + j]
    BY <1>0
  <2>6. FifoOK(y)
    <3>1. y.sent - y.received = x.sent + 1 - x.received
      BY <1>0, <2>4
    <3>2. [j \in 1..(y.sent - y.received) |-> y.received + j] =
            [j \in 1..(x.sent + 1 - x.received) |-> x.received + j]
      <4>1. y.received = x.received
        BY <2>4
      <4>. QED BY ONLY <3>1, <4>1
    <3>3. Buf!Contents(y.ring) = [j \in 1..(y.sent - y.received) |-> y.received + j]
      BY ONLY <2>3, <2>4, <2>5, <3>2
    <3>. QED BY <1>0, <2>3, <2>4, <3>3 DEF FifoOK
  <2>. QED BY <1>0, <2>4, <2>6 DEF y
<1>. QED BY <1>1, <1>2

\* The loop of ringbuf_write, step by step.
LEMMA PutSteps ==
  ASSUME NEW x, NEW c \in Nat
  PROVE  \E f : /\ f[0] = x /\ put_bytes(x, c) = f[c]
                /\ \A n \in 1..c : f[n] = put_byte(f[n - 1])
<1>. DEFINE G(f, m) == f = [n \in 0..m |-> IF n = 0 THEN x ELSE put_byte(f[n - 1])]
            T == {m \in Nat : \E f : G(f, m)}
<1>1. 0 \in T
  <2>1. G([n \in 0..0 |-> x], 0)
    OBVIOUS
  <2>. QED BY <2>1
<1>2. ASSUME NEW m \in Nat, m \in T PROVE m + 1 \in T
  <2>1. PICK f : G(f, m)
    BY <1>2
  <2>. DEFINE g == [n \in 0..(m + 1) |-> IF n = m + 1 THEN put_byte(f[m]) ELSE f[n]]
  <2>2. ASSUME NEW n \in 0..(m + 1)
        PROVE  g[n] = IF n = 0 THEN x ELSE put_byte(g[n - 1])
    BY <2>1
  <2>3. G(g, m + 1)
    <3>1. g = [n \in 0..(m + 1) |-> g[n]]
      OBVIOUS
    <3>. HIDE DEF g
    <3>. QED BY <2>2, <3>1
  <2>. HIDE DEF g, G
  <2>. QED BY <2>3
<1>3. c \in T
  <2>. HIDE DEF T
  <2>1. Nat \subseteq T
    BY <1>1, <1>2, NatSet
  <2>. QED BY <2>1
<1>. DEFINE w == CHOOSE f : G(f, c)
<1>4. G(w, c)
  <2>1. \E f : G(f, c)
    BY <1>3
  <2>. HIDE DEF G
  <2>. QED BY <2>1
<1>5. put_bytes(x, c) = w[c]
  BY DEF put_bytes
<1>. HIDE DEF w
<1>6. w[0] = x /\ \A n \in 1..c : w[n] = put_byte(w[n - 1])
  BY <1>4
<1>. QED BY <1>5, <1>6

\* A write adds the next bytes, as many as fit.
LEMMA PutLemma ==
  ASSUME NEW x, PipeShape(x), FifoOK(x), NEW c \in Nat, x.sent + c <= MaxBytes
  PROVE  LET y == put_bytes(x, c)
         IN  PipeShape(y) /\ FifoOK(y) /\ SameEnds(x, y)
<1>1. PICK f : /\ f[0] = x /\ put_bytes(x, c) = f[c]
               /\ \A n \in 1..c : f[n] = put_byte(f[n - 1])
  BY PutSteps
<1>. DEFINE P(n) == /\ PipeShape(f[n]) /\ FifoOK(f[n]) /\ SameEnds(x, f[n])
                    /\ f[n].sent <= x.sent + n
            T == {n \in Nat : n <= c => P(n)}
<1>2. 0 \in T
  <2>1. x.sent <= x.sent + 0 /\ SameEnds(x, x)
    BY DEF FifoOK, SameEnds
  <2>2. P(0)
    BY <1>1, <2>1
  <2>. HIDE DEF P
  <2>. QED BY <2>2
<1>3. ASSUME NEW n \in Nat, n \in T PROVE n + 1 \in T
  <2>. SUFFICES ASSUME n + 1 <= c PROVE P(n + 1)
    OBVIOUS
  <2>1. P(n) /\ f[n + 1] = put_byte(f[n])
    <3>1. n + 1 \in 1..c /\ (n + 1) - 1 = n
      OBVIOUS
    <3>. QED BY <1>1, <1>3, <3>1
  <2>2. f[n].sent \in Nat /\ x.sent \in Nat /\ MaxBytes \in Nat
    BY <2>1, PipeAssumption DEF FifoOK
  <2>3. f[n].sent + 1 <= MaxBytes
    BY <2>1, <2>2
  <2>4. /\ PipeShape(f[n + 1]) /\ FifoOK(f[n + 1]) /\ SameEnds(f[n], f[n + 1])
        /\ f[n + 1].sent <= f[n].sent + 1
    BY <2>1, <2>3, PutByteLemma
  <2>5. SameEnds(x, f[n + 1])
    BY <2>1, <2>4 DEF SameEnds
  <2>6. f[n + 1].sent <= x.sent + (n + 1)
    <3>1. f[n + 1].sent \in Nat
      BY <2>4 DEF FifoOK
    <3>. QED BY <2>1, <2>2, <2>4, <3>1
  <2>. QED BY <2>4, <2>5, <2>6
<1>4. P(c)
  <2>1. Nat \subseteq T
    <3>. HIDE DEF T
    <3>. QED BY <1>2, <1>3, NatSet
  <2>. QED BY <2>1
<1>. QED BY <1>1, <1>4

\* The loop of ringbuf_read, step by step.
LEMMA ReadSteps ==
  ASSUME NEW r, NEW c \in Nat
  PROVE  \E f : /\ f[0] = r /\ read_bytes(r, c) = f[c]
                /\ \A n \in 1..c : f[n] = Buf!ringbuf_read(f[n - 1])
<1>. DEFINE G(f, m) == f = [n \in 0..m |-> IF n = 0 THEN r ELSE Buf!ringbuf_read(f[n - 1])]
            T == {m \in Nat : \E f : G(f, m)}
<1>1. 0 \in T
  <2>1. G([n \in 0..0 |-> r], 0)
    OBVIOUS
  <2>. QED BY <2>1
<1>2. ASSUME NEW m \in Nat, m \in T PROVE m + 1 \in T
  <2>1. PICK f : G(f, m)
    BY <1>2
  <2>. DEFINE g == [n \in 0..(m + 1) |-> IF n = m + 1 THEN Buf!ringbuf_read(f[m]) ELSE f[n]]
  <2>2. ASSUME NEW n \in 0..(m + 1)
        PROVE  g[n] = IF n = 0 THEN r ELSE Buf!ringbuf_read(g[n - 1])
    BY <2>1
  <2>3. G(g, m + 1)
    <3>1. g = [n \in 0..(m + 1) |-> g[n]]
      OBVIOUS
    <3>. HIDE DEF g
    <3>. QED BY <2>2, <3>1
  <2>. HIDE DEF g, G
  <2>. QED BY <2>3
<1>3. c \in T
  <2>. HIDE DEF T
  <2>1. Nat \subseteq T
    BY <1>1, <1>2, NatSet
  <2>. QED BY <2>1
<1>. DEFINE w == CHOOSE f : G(f, c)
<1>4. G(w, c)
  <2>1. \E f : G(f, c)
    BY <1>3
  <2>. HIDE DEF G
  <2>. QED BY <2>1
<1>5. read_bytes(r, c) = w[c]
  BY DEF read_bytes
<1>. HIDE DEF w
<1>6. w[0] = r /\ \A n \in 1..c : w[n] = Buf!ringbuf_read(w[n - 1])
  BY <1>4
<1>. QED BY <1>5, <1>6

\* A read takes the oldest bytes, as many as there are.
LEMMA TakeLemma ==
  ASSUME NEW x, PipeShape(x), FifoOK(x), NEW c \in Nat
  PROVE  LET y == take_bytes(x, c)
         IN  PipeShape(y) /\ FifoOK(y) /\ SameEnds(x, y)
<1>. DEFINE y == take_bytes(x, c)
            a == Buf!ringbuf_available(x.ring)
            m == IF a < c THEN a ELSE c
            L(n) == [j \in 1..(x.sent - x.received - n) |-> x.received + n + j]
<1>1. /\ a = x.sent - x.received /\ a \in Nat /\ m \in 0..a
      /\ x.sent \in Nat /\ x.received \in Nat /\ x.received <= x.sent
  <2>1. a = x.sent - x.received /\ a \in 0..(PIPE_BUFFER_SIZE - 1)
    BY AvailableLemma
  <2>. QED BY <2>1, RingHolds DEF FifoOK
<1>2. PICK f : /\ f[0] = x.ring /\ read_bytes(x.ring, m) = f[m]
               /\ \A n \in 1..m : f[n] = Buf!ringbuf_read(f[n - 1])
  <2>1. m \in Nat
    BY <1>1
  <2>. HIDE DEF m
  <2>. QED BY <2>1, ReadSteps
<1>3. y = [x EXCEPT !.ring = f[m], !.received = x.received + m]
  BY <1>2 DEF take_bytes
<1>. HIDE DEF y, a, m
<1>. DEFINE P(n) == Ring!RingInv(f[n]) /\ Buf!Contents(f[n]) = L(n)
            T == {n \in Nat : n <= m => P(n)}
<1>4. 0 \in T
  <2>1. L(0) = [j \in 1..(x.sent - x.received) |-> x.received + j]
    BY <1>1
  <2>2. P(0)
    BY <1>2, <2>1 DEF FifoOK
  <2>. HIDE DEF P
  <2>. QED BY <2>2
<1>5. ASSUME NEW n \in Nat, n \in T PROVE n + 1 \in T
  <2>. SUFFICES ASSUME n + 1 <= m PROVE P(n + 1)
    <3>. HIDE DEF P
    <3>. QED OBVIOUS
  <2>1. P(n) /\ f[n + 1] = Buf!ringbuf_read(f[n])
    <3>1. n + 1 \in 1..m /\ (n + 1) - 1 = n
      BY <1>1
    <3>2. P(n)
      <4>1. m \in Nat
        BY <1>1
      <4>. HIDE DEF P
      <4>. QED BY <1>5, <3>1, <4>1
    <3>. QED BY <1>2, <3>1, <3>2
  <2>. DEFINE b == Buf!ringbuf_available(f[n])
  <2>2. b \in Nat
    <3>1. b \in 0..(PIPE_BUFFER_SIZE - 1)
      BY <2>1, RingSteps
    <3>. QED BY <3>1, RingHolds
  <2>3. DOMAIN Buf!Contents(f[n]) = 1..b
    BY DEF Buf!Contents
  <2>4. DOMAIN L(n) = 1..(a - n) /\ a - n \in Nat /\ a - n > 0
    BY <1>1
  <2>5. b > 0
    <3>. HIDE DEF b, L
    <3>. QED BY <2>1, <2>2, <2>3, <2>4
  <2>6. Ring!RingInv(f[n + 1]) /\ Buf!Contents(f[n + 1]) = Tail(L(n))
    BY <2>1, <2>5, RingSteps
  <2>7. Tail(L(n)) = L(n + 1)
    <3>. DEFINE d == a - n - 1
    <3>0. /\ d \in Nat /\ x.sent - x.received - n = d + 1 /\ x.sent - x.received - (n + 1) = d
          /\ x.received + n \in Nat /\ x.received + (n + 1) \in Nat
      BY <1>1, <2>4
    <3>. HIDE DEF d, a
    <3>1. L(n) = [j \in 1..(d + 1) |-> x.received + n + j]
      BY ONLY <3>0
    <3>2. L(n + 1) = [j \in 1..d |-> x.received + (n + 1) + j]
      BY ONLY <3>0
    <3>3. L(n) \in Seq(Nat) /\ Len(L(n)) = d + 1
      BY ONLY <3>0, <3>1
    <3>4. L(n + 1) \in Seq(Nat) /\ Len(L(n + 1)) = d
      BY ONLY <3>0, <3>2
    <3>5. ASSUME NEW j \in 1..d PROVE L(n)[j + 1] = L(n + 1)[j]
      <4>1. j + 1 \in 1..(d + 1) /\ j \in Nat
        BY ONLY <3>0
      <4>2. L(n)[j + 1] = x.received + n + (j + 1)
        BY ONLY <3>1, <4>1
      <4>3. L(n + 1)[j] = x.received + (n + 1) + j
        BY ONLY <3>2
      <4>4. x.received + n + (j + 1) = x.received + (n + 1) + j
        BY <1>1, <4>1
      <4>. QED BY ONLY <4>2, <4>3, <4>4
    <3>. HIDE DEF L
    <3>6. /\ Tail(L(n)) \in Seq(Nat) /\ Len(Tail(L(n))) = d
          /\ \A j \in 1..d : Tail(L(n))[j] = L(n)[j + 1]
      BY ONLY <3>0, <3>3
    <3>. DEFINE U == Tail(L(n))
                V == L(n + 1)
    <3>7. \A j \in 1..d : U[j] = V[j]
      BY <3>5, <3>6
    <3>. QED
      <4>1. U \in Seq(Nat) /\ V \in Seq(Nat) /\ Len(U) = d /\ Len(V) = d
        BY <3>4, <3>6
      <4>. HIDE DEF U, V
      <4>2. U = V
        BY ONLY <3>7, <4>1
      <4>. QED BY <4>2 DEF U, V
  <2>. QED BY <2>6, <2>7
<1>6. P(m)
  <2>1. Nat \subseteq T
    <3>. HIDE DEF T
    <3>. QED BY <1>4, <1>5, NatSet
  <2>2. m \in Nat
    BY <1>1
  <2>. QED BY <2>1, <2>2
<1>7. PipeShape(y) /\ SameEnds(x, y) /\ y.ring = f[m] /\ y.sent = x.sent
      /\ y.received = x.received + m
  BY ONLY <1>3, PipeShape(x) DEF PipeShape, PipeFields, SameEnds
<1>8. L(m) = [j \in 1..(y.sent - y.received) |-> y.received + j]
  BY <1>1, <1>7
<1>9. FifoOK(y)
  <2>1. y.received \in Nat /\ y.received <= y.sent /\ y.sent <= MaxBytes
    BY <1>1, <1>7 DEF FifoOK
  <2>. QED BY <1>1, <1>6, <1>7, <1>8, <2>1 DEF FifoOK
<1>. QED BY <1>7, <1>9 DEF y

-----------------------------------------------------------------------------
(***************************************************************************)
(* The descriptors that refer to an end of a pipe.                         *)
(***************************************************************************)

PipeIds == 1..MAX_PIPES
FdNums == 0..(FD_MAX - 1)
Ends == {"readers", "writers"}

Entries == {NoFd, Terminal} \cup {PipeEnd(i, x) : i \in PipeIds, x \in Ends}

FdsOK(F) == F \in [Pids -> [FdNums -> Entries]]

HoldersOf(F, i, x) == {d \in Descriptors : F[d[1]][d[2]] = PipeEnd(i, x)}

\* A descriptor is an end of a pipe or has nothing to do with one.
LEMMA EntryLemma ==
  ASSUME NEW e \in Entries
  PROVE  \/ /\ e \in {NoFd, Terminal} /\ e.type # "PIPE" /\ e.end \notin Ends
            /\ \A i, x : e # PipeEnd(i, x)
         \/ /\ e.type = "PIPE" /\ e.pipe \in PipeIds /\ e.end \in Ends
            /\ e = PipeEnd(e.pipe, e.end)
            /\ \A i, x : e = PipeEnd(i, x) <=> i = e.pipe /\ x = e.end
<1>1. CASE e \in {NoFd, Terminal}
  BY <1>1 DEF NoFd, Terminal, PipeEnd, Ends
<1>2. CASE \E i \in PipeIds, x \in Ends : e = PipeEnd(i, x)
  BY <1>2 DEF PipeEnd
<1>. QED BY <1>1, <1>2 DEF Entries

LEMMA DescriptorsLemma ==
  /\ \A F, i, x : IsFiniteSet(HoldersOf(F, i, x))
  /\ \A p \in Pids, fd \in FdNums :
       <<p, fd>> \in Descriptors /\ <<p, fd>>[1] = p /\ <<p, fd>>[2] = fd
  /\ \A d \in Descriptors : d[1] \in Pids /\ d[2] \in FdNums /\ d = <<d[1], d[2]>>
<1>1. Descriptors = Pids \X FdNums
  BY DEF Descriptors, FdNums
<1>2. IsFiniteSet(Pids) /\ IsFiniteSet(FdNums)
  <2>1. MAX_PROCESSES - 1 \in Int /\ FD_MAX - 1 \in Int /\ 0 \in Int
    BY ConstantsAssumption, PipeAssumption
  <2>. QED BY <2>1, FS_Interval DEF Pids, FdNums
<1>3. IsFiniteSet(Descriptors)
  BY <1>1, <1>2, FS_Product
<1>4. ASSUME NEW F, NEW i, NEW x PROVE IsFiniteSet(HoldersOf(F, i, x))
  <2>1. HoldersOf(F, i, x) \in SUBSET Descriptors
    BY DEF HoldersOf
  <2>. QED BY <1>3, <2>1, FS_Subset
<1>. QED BY <1>1, <1>4

\* One descriptor changes.
LEMMA HoldersLemma ==
  ASSUME NEW F, FdsOK(F), NEW p \in Pids, NEW fd \in FdNums, NEW e \in Entries
  PROVE  LET G == [F EXCEPT ![p][fd] = e]
         IN  /\ FdsOK(G)
             /\ G[p][fd] = e /\ \A g \in FdNums \ {fd} : G[p][g] = F[p][g]
             /\ \A u \in Pids \ {p} : G[u] = F[u]
             /\ \A i, x : HoldersOf(G, i, x) =
                  IF e = PipeEnd(i, x) THEN HoldersOf(F, i, x) \cup {<<p, fd>>}
                  ELSE HoldersOf(F, i, x) \ {<<p, fd>>}
<1>. DEFINE G == [F EXCEPT ![p][fd] = e]
<1>1. /\ FdsOK(G)
      /\ G[p][fd] = e /\ \A g \in FdNums \ {fd} : G[p][g] = F[p][g]
      /\ \A u \in Pids \ {p} : G[u] = F[u]
  BY DEF FdsOK
<1>. HIDE DEF G
<1>2. ASSUME NEW d \in Descriptors
      PROVE  G[d[1]][d[2]] = IF d = <<p, fd>> THEN e ELSE F[d[1]][d[2]]
  <2>1. d[1] \in Pids /\ d[2] \in FdNums /\ d = <<d[1], d[2]>>
    BY DescriptorsLemma
  <2>2. CASE d = <<p, fd>>
    BY <1>1, <2>2
  <2>3. CASE d # <<p, fd>>
    <3>1. d[1] # p \/ d[2] # fd
      BY <2>1, <2>3
    <3>. QED BY <1>1, <2>1, <2>3, <3>1
  <2>. QED BY <2>2, <2>3
<1>3. <<p, fd>> \in Descriptors
  BY DescriptorsLemma
<1>4. ASSUME NEW i, NEW x
      PROVE  HoldersOf(G, i, x) =
               IF e = PipeEnd(i, x) THEN HoldersOf(F, i, x) \cup {<<p, fd>>}
               ELSE HoldersOf(F, i, x) \ {<<p, fd>>}
  BY <1>2, <1>3 DEF HoldersOf
<1>. QED BY <1>1, <1>4 DEF G

\* How many descriptors refer to an end before and after one changes from a to b.
Recounted(F, G, a, b, i, x) ==
  LET had == a = PipeEnd(i, x)
      has == b = PipeEnd(i, x)
      n == Cardinality(HoldersOf(F, i, x))
      m == Cardinality(HoldersOf(G, i, x))
  IN  /\ n \in Nat /\ m \in Nat /\ (had => n > 0)
      /\ m = IF had /\ ~ has THEN n - 1 ELSE IF has /\ ~ had THEN n + 1 ELSE n
      /\ ~ has /\ HoldersOf(F, i, x) = {} => HoldersOf(G, i, x) = {}

LEMMA HoldersCount ==
  ASSUME NEW F, FdsOK(F), NEW p \in Pids, NEW fd \in FdNums, NEW e \in Entries,
         NEW i, NEW x
  PROVE  Recounted(F, [F EXCEPT ![p][fd] = e], F[p][fd], e, i, x)
<1>. DEFINE G == [F EXCEPT ![p][fd] = e]
            had == F[p][fd] = PipeEnd(i, x)
            has == e = PipeEnd(i, x)
            H == HoldersOf(F, i, x)
            d == <<p, fd>>
<1>1. HoldersOf(G, i, x) = IF has THEN H \cup {d} ELSE H \ {d}
  BY HoldersLemma
<1>2. IsFiniteSet(H) /\ IsFiniteSet(HoldersOf(G, i, x))
  BY DescriptorsLemma
<1>3. d \in H <=> had
  BY DescriptorsLemma DEF HoldersOf
<1>. HIDE DEF G, H, d, has, had
<1>4. /\ Cardinality(H \cup {d}) = IF d \in H THEN Cardinality(H) ELSE Cardinality(H) + 1
      /\ Cardinality(H \ {d}) = IF d \in H THEN Cardinality(H) - 1 ELSE Cardinality(H)
      /\ Cardinality(H) \in Nat /\ Cardinality(HoldersOf(G, i, x)) \in Nat
  BY <1>2, FS_AddElement, FS_RemoveElement, FS_CardinalityType
<1>5. had => Cardinality(H) > 0
  <2>1. had => Cardinality(H) # 0
    BY <1>2, <1>3, FS_EmptySet
  <2>. QED BY <1>4, <2>1
<1>. QED BY <1>1, <1>3, <1>4, <1>5 DEF G, H, has, had, Recounted

-----------------------------------------------------------------------------
(***************************************************************************)
(* The table of pipes.                                                     *)
(***************************************************************************)

PipeOK(x) ==
  /\ PipeShape(x) /\ x.table \in {"null", "used", "freed"}
  /\ x.readers \in Nat /\ x.writers \in Nat
  /\ x.readers_wait \in Seq(Pids) /\ NoDuplicates(x.readers_wait)
  /\ x.writers_wait = << >>
  /\ FifoOK(x)

PipesOK(P) == P = [i \in PipeIds |-> P[i]] /\ \A i \in PipeIds : PipeOK(P[i])

\* The counts of the pipes P are right for the descriptors F.
Counted(P, F) ==
  \A i \in PipeIds, x \in Ends :
    /\ P[i].table = "null" => HoldersOf(F, i, x) = {}
    /\ P[i].table = "used" => P[i][x] = Cardinality(HoldersOf(F, i, x))

\* Pipes x and y differ in the counts of their ends only.
SamePipe(x, y) ==
  /\ y.table = x.table /\ y.readers_wait = x.readers_wait
  /\ y.ring = x.ring /\ y.sent = x.sent /\ y.received = x.received

SamePipes(P, Q) == \A i \in PipeIds : SamePipe(P[i], Q[i])

\* One pipe of the table changes.
SetAt(P, Q, i, y) == PipesOK(Q) /\ Q[i] = y /\ \A j \in PipeIds \ {i} : Q[j] = P[j]

LEMMA PipeSet ==
  ASSUME NEW P, PipesOK(P), NEW i \in PipeIds, NEW y, PipeOK(y)
  PROVE  SetAt(P, [P EXCEPT ![i] = y], i, y)
<1>. DEFINE Q == [P EXCEPT ![i] = y]
<1>1. DOMAIN P = PipeIds
  BY DEF PipesOK
<1>2. Q = [j \in PipeIds |-> IF j = i THEN y ELSE P[j]]
  BY <1>1
<1>. HIDE DEF Q
<1>3. Q[i] = y /\ \A j \in PipeIds \ {i} : Q[j] = P[j]
  BY <1>2
<1>4. Q = [j \in PipeIds |-> Q[j]]
  BY <1>2
<1>5. \A j \in PipeIds : PipeOK(Q[j])
  BY <1>3 DEF PipesOK
<1>. QED BY <1>3, <1>4, <1>5 DEF PipesOK, SetAt, Q

\* One count of a pipe changes.
LEMMA EndSet ==
  ASSUME NEW x, PipeOK(x), NEW end \in Ends, NEW n \in Nat
  PROVE  LET y == [x EXCEPT ![end] = n]
         IN  /\ PipeOK(y) /\ SamePipe(x, y)
             /\ \A z \in Ends : y[z] = IF z = end THEN n ELSE x[z]
<1>. DEFINE y == [x EXCEPT ![end] = n]
<1>1. PipeShape(x)
  BY DEF PipeOK
<1>2. /\ PipeShape(y) /\ y.table = x.table /\ y.readers_wait = x.readers_wait
      /\ y.writers_wait = x.writers_wait
      /\ y.ring = x.ring /\ y.sent = x.sent /\ y.received = x.received
      /\ \A z \in Ends : y[z] = IF z = end THEN n ELSE x[z]
  BY ONLY <1>1, end \in Ends DEF PipeShape, PipeFields, Ends
<1>. HIDE DEF y
<1>3. y.readers \in Nat /\ y.writers \in Nat
  BY <1>2 DEF PipeOK, Ends
<1>4. FifoOK(y)
  <2>1. FifoOK(x)
    BY DEF PipeOK
  <2>. QED BY ONLY <1>2, <2>1 DEF FifoOK
<1>5. PipeOK(y)
  BY <1>2, <1>3, <1>4 DEF PipeOK
<1>. QED BY <1>2, <1>5 DEF y, SamePipe

\* The queue of a pipe changes, or it is freed.
LEMMA QueueSet ==
  ASSUME NEW x, PipeOK(x), NEW q \in Seq(Pids), NoDuplicates(q)
  PROVE  LET y == [x EXCEPT !.readers_wait = q]
             z == [x EXCEPT !.table = "freed", !.readers_wait = << >>, !.writers_wait = << >>]
         IN  /\ PipeOK(y) /\ y.readers_wait = q /\ y.table = x.table
             /\ y.readers = x.readers /\ y.writers = x.writers
             /\ y.ring = x.ring /\ y.sent = x.sent /\ y.received = x.received
             /\ PipeOK(z) /\ z.readers_wait = << >> /\ z.table = "freed"
<1>. DEFINE y == [x EXCEPT !.readers_wait = q]
            z == [x EXCEPT !.table = "freed", !.readers_wait = << >>, !.writers_wait = << >>]
<1>0. PipeShape(x) /\ FifoOK(x)
  BY DEF PipeOK
<1>1. /\ PipeShape(y) /\ y.table = x.table /\ y.readers_wait = q
      /\ y.writers_wait = x.writers_wait /\ y.readers = x.readers /\ y.writers = x.writers
      /\ y.ring = x.ring /\ y.sent = x.sent /\ y.received = x.received
  BY ONLY <1>0 DEF PipeShape, PipeFields
<1>2. /\ PipeShape(z) /\ z.table = "freed" /\ z.readers_wait = << >>
      /\ z.writers_wait = << >> /\ z.readers = x.readers /\ z.writers = x.writers
      /\ z.ring = x.ring /\ z.sent = x.sent /\ z.received = x.received
  BY ONLY <1>0 DEF PipeShape, PipeFields
<1>. HIDE DEF y, z
<1>3. FifoOK(y) /\ FifoOK(z)
  BY ONLY <1>0, <1>1, <1>2 DEF FifoOK
<1>4. << >> \in Seq(Pids) /\ NoDuplicates(<< >>)
  BY DEF NoDuplicates
<1>5. PipeOK(y)
  BY <1>1, <1>3 DEF PipeOK
<1>6. PipeOK(z)
  BY <1>2, <1>3, <1>4 DEF PipeOK
<1>. QED BY <1>1, <1>2, <1>5, <1>6 DEF y, z

\* No count is wrong if the counts are the same, or the pipe is freed.
LEMMA CountedFrame ==
  ASSUME NEW P, NEW Q, NEW F, Counted(P, F),
         \A i \in PipeIds :
           \/ Q[i].table = "freed"
           \/ /\ Q[i].table = P[i].table
              /\ Q[i].readers = P[i].readers /\ Q[i].writers = P[i].writers
  PROVE  Counted(Q, F)
BY DEF Counted, Ends

\* A new pipe, and an unused slot.
LEMMA NewPipeLemma ==
  /\ PipeOK(NewPipe) /\ PipeOK(EmptySlot)
  /\ NewPipe.table = "used" /\ NewPipe.readers = 0 /\ NewPipe.writers = 0
  /\ NewPipe.readers_wait = << >>
  /\ EmptySlot.table = "null" /\ EmptySlot.readers_wait = << >>
<1>. DEFINE r == [buf |-> [s \in 0..(PIPE_BUFFER_SIZE - 1) |-> 0], head |-> 0, tail |-> 0]
            N == NewPipe
            Z == EmptySlot
<1>1. Ring!RingInv(r)
  <2>1. Ring!RingType(r)
    BY RingHolds, PipeAssumption DEF Ring!RingType, Ring!Slots
  <2>2. Ring!ringbuf_available(r) = 0
    BY RingHolds DEF Ring!ringbuf_available, Ring!RING_INDEX
  <2>. QED BY <2>1, <2>2, RingHolds DEF Ring!RingInv
<1>2. Buf!Contents(r) = << >>
  <2>1. Buf!ringbuf_available(r) = 0
    BY RingHolds DEF Buf!ringbuf_available, Buf!RING_INDEX
  <2>2. Buf!Contents(r) = [j \in 1..0 |-> r.buf[Buf!RING_INDEX(r.head + j - 1)]]
    BY <2>1 DEF Buf!Contents
  <2>. QED BY <2>2
<1>. HIDE DEF r
<1>3. /\ PipeShape(N) /\ N.table = "used" /\ N.readers = 0 /\ N.writers = 0 /\ N.ring = r
      /\ N.readers_wait = << >> /\ N.writers_wait = << >> /\ N.sent = 0 /\ N.received = 0
  BY DEF NewPipe, PipeShape, PipeFields, r
<1>4. /\ PipeShape(Z) /\ Z.table = "null" /\ Z.readers = 0 /\ Z.writers = 0 /\ Z.ring = r
      /\ Z.readers_wait = << >> /\ Z.writers_wait = << >> /\ Z.sent = 0 /\ Z.received = 0
  BY ONLY <1>3 DEF EmptySlot, PipeShape, PipeFields
<1>. HIDE DEF N, Z
<1>5. << >> = [j \in 1..(0 - 0) |-> 0 + j]
  OBVIOUS
<1>6. FifoOK(N) /\ FifoOK(Z)
  BY <1>1, <1>2, <1>3, <1>4, <1>5, PipeAssumption DEF FifoOK
<1>7. << >> \in Seq(Pids) /\ NoDuplicates(<< >>)
  BY DEF NoDuplicates
<1>8. PipeOK(N) /\ PipeOK(Z)
  BY <1>3, <1>4, <1>6, <1>7 DEF PipeOK
<1>. QED BY <1>3, <1>4, <1>8 DEF N, Z

\* A descriptor that was no end of a pipe becomes e, which is counted (open_pipe,
\* inherit_fds).
Gained(P, e) ==
  IF e.type # "PIPE" THEN P
  ELSE [P EXCEPT ![e.pipe] = [P[e.pipe] EXCEPT ![e.end] = P[e.pipe][e.end] + 1]]

LEMMA GainLemma ==
  ASSUME NEW P, NEW F, PipesOK(P), FdsOK(F), Counted(P, F),
         NEW p \in Pids, NEW fd \in FdNums, F[p][fd].type # "PIPE",
         NEW e \in Entries, e.type = "PIPE" => P[e.pipe].table # "null"
  PROVE  LET Q == Gained(P, e)
             G == [F EXCEPT ![p][fd] = e]
         IN  PipesOK(Q) /\ FdsOK(G) /\ Counted(Q, G) /\ SamePipes(P, Q)
<1>. DEFINE Q == Gained(P, e)
            G == [F EXCEPT ![p][fd] = e]
<1>1. FdsOK(G) /\ F[p][fd] \in Entries
  BY HoldersLemma DEF FdsOK
<1>2. \A i, x : F[p][fd] # PipeEnd(i, x)
  BY <1>1, EntryLemma
<1>3. \A i, x : LET n == Cardinality(HoldersOf(F, i, x))
                    m == Cardinality(HoldersOf(G, i, x))
                IN  /\ n \in Nat /\ m \in Nat
                    /\ m = IF e = PipeEnd(i, x) THEN n + 1 ELSE n
                    /\ e # PipeEnd(i, x) /\ HoldersOf(F, i, x) = {} => HoldersOf(G, i, x) = {}
  <2>. SUFFICES ASSUME NEW i, NEW x
                PROVE  LET n == Cardinality(HoldersOf(F, i, x))
                           m == Cardinality(HoldersOf(G, i, x))
                       IN  /\ n \in Nat /\ m \in Nat
                           /\ m = IF e = PipeEnd(i, x) THEN n + 1 ELSE n
                           /\ e # PipeEnd(i, x) /\ HoldersOf(F, i, x) = {} => HoldersOf(G, i, x) = {}
    OBVIOUS
  <2>1. Recounted(F, G, F[p][fd], e, i, x)
    BY HoldersCount
  <2>. HIDE DEF G
  <2>. QED BY <1>2, <2>1 DEF Recounted
<1>. HIDE DEF G
<1>4. CASE e.type # "PIPE"
  <2>1. Q = P /\ \A i, x : e # PipeEnd(i, x)
    BY <1>4, EntryLemma DEF Gained
  <2>2. Counted(P, G)
    BY <1>3, <2>1 DEF Counted
  <2>. QED BY <1>1, <2>1, <2>2 DEF SamePipes, SamePipe, G
<1>5. CASE e.type = "PIPE"
  <2>. DEFINE j == e.pipe
              z == e.end
              y == [P[j] EXCEPT ![z] = P[j][z] + 1]
  <2>1. /\ j \in PipeIds /\ z \in Ends /\ Q = [P EXCEPT ![j] = y]
        /\ \A i, x : e = PipeEnd(i, x) <=> i = j /\ x = z
    BY <1>5, EntryLemma DEF Gained
  <2>2. PipeOK(P[j]) /\ P[j][z] + 1 \in Nat
    BY <2>1 DEF PipesOK, PipeOK, Ends
  <2>3. PipeOK(y) /\ SamePipe(P[j], y) /\ \A x \in Ends : y[x] = IF x = z THEN P[j][z] + 1 ELSE P[j][x]
    <3>. HIDE DEF j, z
    <3>. QED BY <2>1, <2>2, EndSet
  <2>. HIDE DEF y
  <2>4. PipesOK(Q) /\ Q[j] = y /\ \A i \in PipeIds \ {j} : Q[i] = P[i]
    <3>. HIDE DEF Q, j
    <3>1. SetAt(P, [P EXCEPT ![j] = y], j, y)
      BY <2>1, <2>3, PipeSet
    <3>. QED BY <2>1, <3>1 DEF SetAt
  <2>5. SamePipes(P, Q)
    <3>. HIDE DEF j, Q
    <3>. QED BY <2>3, <2>4 DEF SamePipes, SamePipe
  <2>6. Counted(Q, G)
    <3>. SUFFICES ASSUME NEW i \in PipeIds, NEW x \in Ends
                  PROVE  /\ Q[i].table = "null" => HoldersOf(G, i, x) = {}
                         /\ Q[i].table = "used" => Q[i][x] = Cardinality(HoldersOf(G, i, x))
      BY DEF Counted
    <3>1. /\ P[i].table = "null" => HoldersOf(F, i, x) = {}
          /\ P[i].table = "used" => P[i][x] = Cardinality(HoldersOf(F, i, x))
          /\ Q[i].table = P[i].table
      BY <2>5 DEF Counted, SamePipes, SamePipe
    <3>2. Q[i][x] = IF i = j /\ x = z THEN P[i][x] + 1 ELSE P[i][x]
      BY <2>3, <2>4
    <3>. HIDE DEF Q, j, z
    <3>. QED BY <1>3, <1>5, <2>1, <3>1, <3>2 DEF j, z
  <2>. QED BY <1>1, <2>4, <2>5, <2>6 DEF G
<1>. QED BY <1>4, <1>5

\* A descriptor that was an end of a pipe is none any more, and is counted out.
Lost(P, e) ==
  [P EXCEPT ![e.pipe] = [P[e.pipe] EXCEPT ![e.end] =
     IF P[e.pipe][e.end] > 0 THEN P[e.pipe][e.end] - 1 ELSE 0]]

Losing(P, Q, G, e) ==
  /\ PipesOK(Q) /\ Counted(Q, G) /\ SamePipes(P, Q)
  /\ e.pipe \in PipeIds /\ e.end \in Ends
  /\ \A i \in PipeIds \ {e.pipe} : Q[i] = P[i]
  /\ \A x \in Ends \ {e.end} : Q[e.pipe][x] = P[e.pipe][x]
  /\ Q[e.pipe][e.end] = IF P[e.pipe][e.end] > 0 THEN P[e.pipe][e.end] - 1 ELSE 0

LEMMA LoseLemma ==
  ASSUME NEW P, NEW F, PipesOK(P), FdsOK(F), Counted(P, F),
         NEW p \in Pids, NEW fd \in FdNums, F[p][fd].type = "PIPE"
  PROVE  Losing(P, Lost(P, F[p][fd]), [F EXCEPT ![p][fd] = NoFd], F[p][fd])
<1>. DEFINE e == F[p][fd]
            Q == Lost(P, e)
            G == [F EXCEPT ![p][fd] = NoFd]
            j == e.pipe
            z == e.end
            n == IF P[j][z] > 0 THEN P[j][z] - 1 ELSE 0
            y == [P[j] EXCEPT ![z] = n]
<1>1. /\ e \in Entries /\ NoFd \in Entries /\ \A i, x : NoFd # PipeEnd(i, x)
      /\ j \in PipeIds /\ z \in Ends /\ Q = [P EXCEPT ![j] = y]
      /\ \A i, x : e = PipeEnd(i, x) <=> i = j /\ x = z
  <2>1. e \in Entries
    BY DEF FdsOK
  <2>2. NoFd \in Entries /\ \A i, x : NoFd # PipeEnd(i, x)
    BY DEF Entries, NoFd, PipeEnd
  <2>. QED BY <2>1, <2>2, EntryLemma DEF Lost
<1>2. \A i, x : LET m == Cardinality(HoldersOf(F, i, x))
                IN  /\ m \in Nat /\ (e = PipeEnd(i, x) => m > 0)
                    /\ Cardinality(HoldersOf(G, i, x)) = IF e = PipeEnd(i, x) THEN m - 1 ELSE m
                    /\ HoldersOf(F, i, x) = {} => HoldersOf(G, i, x) = {}
  <2>. SUFFICES ASSUME NEW i, NEW x
                PROVE  LET m == Cardinality(HoldersOf(F, i, x))
                       IN  /\ m \in Nat /\ (e = PipeEnd(i, x) => m > 0)
                           /\ Cardinality(HoldersOf(G, i, x)) = IF e = PipeEnd(i, x) THEN m - 1 ELSE m
                           /\ HoldersOf(F, i, x) = {} => HoldersOf(G, i, x) = {}
    OBVIOUS
  <2>1. Recounted(F, G, e, NoFd, i, x)
    BY <1>1, HoldersCount
  <2>. HIDE DEF G, e
  <2>. QED BY <1>1, <2>1 DEF Recounted
<1>. HIDE DEF e, G, j, z
<1>3. PipeOK(P[j]) /\ n \in Nat
  BY <1>1 DEF PipesOK, PipeOK, Ends
<1>4. PipeOK(y) /\ SamePipe(P[j], y) /\ \A x \in Ends : y[x] = IF x = z THEN n ELSE P[j][x]
  <2>. HIDE DEF n
  <2>. QED BY <1>1, <1>3, EndSet
<1>. HIDE DEF y
<1>5. PipesOK(Q) /\ Q[j] = y /\ \A i \in PipeIds \ {j} : Q[i] = P[i]
  <2>. HIDE DEF Q
  <2>1. SetAt(P, [P EXCEPT ![j] = y], j, y)
    BY <1>1, <1>4, PipeSet
  <2>. QED BY <1>1, <2>1 DEF SetAt
<1>6. SamePipes(P, Q)
  <2>. HIDE DEF Q
  <2>. QED BY <1>4, <1>5 DEF SamePipes, SamePipe
<1>7. Counted(Q, G)
  <2>. SUFFICES ASSUME NEW i \in PipeIds, NEW x \in Ends
                PROVE  /\ Q[i].table = "null" => HoldersOf(G, i, x) = {}
                       /\ Q[i].table = "used" => Q[i][x] = Cardinality(HoldersOf(G, i, x))
    BY DEF Counted
  <2>1. /\ P[i].table = "null" => HoldersOf(F, i, x) = {}
        /\ P[i].table = "used" => P[i][x] = Cardinality(HoldersOf(F, i, x))
        /\ Q[i].table = P[i].table
    BY <1>6 DEF Counted, SamePipes, SamePipe
  <2>2. Q[i][x] = IF i = j /\ x = z THEN n ELSE P[i][x]
    BY <1>4, <1>5
  <2>. HIDE DEF Q
  <2>. QED BY <1>1, <1>2, <2>1, <2>2
<1>. HIDE DEF Q
<1>. QED BY <1>1, <1>4, <1>5, <1>6, <1>7 DEF Q, j, z, e, G, Losing

-----------------------------------------------------------------------------
(***************************************************************************)
(* Closing descriptors.                                                    *)
(***************************************************************************)

WorldFields == {"k", "pipes", "fds"}

World(w) == w = [f \in WorldFields |-> w[f]]

\* The world w consists of the kernel s, the pipes P and the descriptors F.
Is(w, s, P, F) == World(w) /\ w.k = s /\ w.pipes = P /\ w.fds = F

FreedPipe(x) ==
  [x EXCEPT !.table = "freed", !.readers_wait = << >>, !.writers_wait = << >>]

LEMMA FreeFields ==
  ASSUME NEW w, World(w), PipesOK(w.pipes), NEW i \in PipeIds
  PROVE  Is(pipe_free(w, i), w.k, [w.pipes EXCEPT ![i] = FreedPipe(w.pipes[i])], w.fds)
<1>. DEFINE v == pipe_free(w, i)
            P == w.pipes
            a == [P EXCEPT ![i].table = "freed"]
            b == [a EXCEPT ![i].readers_wait = << >>]
            c == [b EXCEPT ![i].writers_wait = << >>]
<1>1. Is(v, w.k, c, w.fds)
  BY ONLY World(w) DEF World, WorldFields, Is, pipe_free
<1>2. DOMAIN P = PipeIds
  BY DEF PipesOK
<1>3. c = [P EXCEPT ![i] = FreedPipe(P[i])]
  <2>. HIDE DEF P
  <2>1. a = [P EXCEPT ![i] = [P[i] EXCEPT !.table = "freed"]]
    OBVIOUS
  <2>2. b = [P EXCEPT ![i] = [P[i] EXCEPT !.table = "freed", !.readers_wait = << >>]]
    BY <1>2, <2>1
  <2>3. c = [P EXCEPT ![i] = [P[i] EXCEPT !.table = "freed", !.readers_wait = << >>,
                                          !.writers_wait = << >>]]
    BY <1>2, <2>2
  <2>. QED BY <2>3 DEF FreedPipe
<1>. QED BY <1>1, <1>3

LEMMA ReleaseFields ==
  ASSUME NEW w, World(w), NEW e
  PROVE  Is(release_end(w, e.pipe, e.end), w.k, Lost(w.pipes, e), w.fds)
BY DEF World, WorldFields, Is, release_end, Lost

\* The last reader or writer is gone: what becomes of pipe x.
Closing(x, end) ==
  IF unused(x) THEN FreedPipe(x)
  ELSE IF end = "writers" /\ ~ x.writers > 0 THEN [x EXCEPT !.readers_wait = << >>]
  ELSE x

\* What close_fd leaves of the pipes and the kernel when the descriptor was e.
ClosedPipes(P, e) ==
  IF e.type # "PIPE" THEN P
  ELSE [Lost(P, e) EXCEPT ![e.pipe] = Closing(Lost(P, e)[e.pipe], e.end)]

LastWriter(P, e) ==
  e.type = "PIPE" /\ e.end = "writers" /\ ~ Lost(P, e)[e.pipe].writers > 0

ClosedKernel(s, P, e) == IF LastWriter(P, e) THEN wake_all(s, P[e.pipe].readers_wait) ELSE s

LEMMA CloseFields ==
  ASSUME NEW w, World(w), PipesOK(w.pipes), FdsOK(w.fds), Counted(w.pipes, w.fds),
         NEW p \in Pids, NEW fd \in FdNums
  PROVE  LET e == w.fds[p][fd]
         IN  Is(close_fd(w, p, fd), ClosedKernel(w.k, w.pipes, e), ClosedPipes(w.pipes, e),
                [w.fds EXCEPT ![p][fd] = NoFd])
<1>. DEFINE e == w.fds[p][fd]
            i == e.pipe
            P == w.pipes
            c == close(w, e)
            Q == Lost(P, e)
            x == Q[i]
            v == release_end(w, i, e.end)
<1>1. World(c) =>
        Is(close_fd(w, p, fd), c.k, c.pipes, [c.fds EXCEPT ![p][fd] = NoFd])
  <2>. HIDE DEF c
  <2>. QED BY DEF close_fd, Is, World, WorldFields, c
<1>2. e \in Entries
  BY DEF FdsOK
<1>3. CASE e.type # "PIPE"
  <2>1. c = w
    <3>. HIDE DEF e
    <3>1. e.end \notin Ends
      BY <1>2, <1>3, EntryLemma
    <3>. QED BY <1>3, <3>1 DEF close, Ends
  <2>. QED BY <1>1, <1>3, <2>1 DEF Is, ClosedKernel, LastWriter, ClosedPipes
<1>4. CASE e.type = "PIPE"
  <2>1. /\ i \in PipeIds /\ e.end \in Ends
        /\ c = IF e.end = "readers" THEN pipe_close_read(w, i) ELSE pipe_close_write(w, i)
    <3>. HIDE DEF e
    <3>1. e.end \in Ends /\ i \in PipeIds
      BY <1>2, <1>4, EntryLemma
    <3>. QED BY <1>4, <3>1 DEF close, Ends
  <2>2. Is(v, w.k, Q, w.fds) /\ World(v) /\ v.k = w.k /\ v.pipes = Q /\ v.fds = w.fds
    BY ReleaseFields DEF Is
  <2>3. PipesOK(Q) /\ x.readers_wait = P[i].readers_wait
    <3>1. Losing(P, Q, [w.fds EXCEPT ![p][fd] = NoFd], e)
      BY <1>4, LoseLemma
    <3>. QED BY <2>1, <3>1 DEF Losing, SamePipes, SamePipe
  <2>4. Q = [j \in PipeIds |-> Q[j]] /\ DOMAIN Q = PipeIds /\ DOMAIN x = PipeFields
    BY <2>1, <2>3 DEF PipesOK, PipeOK, PipeShape
  <2>4a. Q = [Q EXCEPT ![i] = x]
    <3>. HIDE DEF Q, i
    <3>. QED BY <2>4
  <2>. HIDE DEF v, Q, e, i, c
  <2>5. CASE e.end = "readers"
    <3>1. c = IF unused(x) THEN pipe_free(v, i) ELSE v
      BY <2>1, <2>2, <2>5 DEF pipe_close_read, v
    <3>2. Is(pipe_free(v, i), w.k, [Q EXCEPT ![i] = FreedPipe(x)], w.fds)
      <4>1. Is(pipe_free(v, i), v.k, [v.pipes EXCEPT ![i] = FreedPipe(v.pipes[i])], v.fds)
        BY <2>1, <2>2, <2>3, FreeFields
      <4>. QED BY <2>2, <4>1
    <3>3. Q = [Q EXCEPT ![i] = x]
      BY <2>4a
    <3>4. Is(c, w.k, [Q EXCEPT ![i] = Closing(x, e.end)], w.fds)
      BY <2>2, <2>5, <3>1, <3>2, <3>3 DEF Closing
    <3>5. ~ LastWriter(P, e)
      BY <2>5 DEF LastWriter
    <3>. QED BY <1>1, <1>4, <3>4, <3>5 DEF Is, ClosedKernel, ClosedPipes, Q, i, e, c
  <2>6. CASE e.end = "writers"
    <3>. DEFINE s == wake_all(w.k, x.readers_wait)
                y == [x EXCEPT !.readers_wait = << >>]
                u == IF x.writers > 0 THEN v
                     ELSE [v EXCEPT !.k = s, !.pipes[i].readers_wait = << >>]
                t == IF x.writers > 0 THEN w.k ELSE s
                z == IF x.writers > 0 THEN x ELSE y
    <3>1. c = IF unused(x) THEN pipe_free(u, i) ELSE u
      <4>. DEFINE r == release_end(w, i, "writers")
                  b == IF r.pipes[i].writers > 0 THEN r
                       ELSE [r EXCEPT !.k = wake_all(w.k, r.pipes[i].readers_wait),
                                      !.pipes[i].readers_wait = << >>]
      <4>1. c = pipe_close_write(w, i) /\ r = v /\ v.pipes[i] = x
        BY <2>1, <2>2, <2>6 DEF v
      <4>2. pipe_close_write(w, i) = IF unused(r.pipes[i]) THEN pipe_free(b, i) ELSE b
        BY Zenon DEF pipe_close_write
      <4>. HIDE DEF r
      <4>. QED BY <4>1, <4>2, Zenon
    <3>2. Is(u, t, [Q EXCEPT ![i] = z], w.fds)
      <4>1. CASE x.writers > 0
        BY <2>2, <2>4a, <4>1
      <4>2. CASE ~ x.writers > 0
        <5>. HIDE DEF s
        <5>. QED BY <2>2, <4>2 DEF Is, World, WorldFields
      <4>. QED BY <4>1, <4>2
    <3>3. PipeOK(x) /\ PipeOK(y)
      <4>1. PipeOK(x)
        BY <2>1, <2>3 DEF PipesOK
      <4>2. << >> \in Seq(Pids) /\ NoDuplicates(<< >>)
        BY DEF NoDuplicates
      <4>. QED BY <4>1, <4>2, QueueSet
    <3>4. FreedPipe(z) = FreedPipe(x)
      BY <2>4 DEF FreedPipe, PipeFields
    <3>. HIDE DEF u, s, y
    <3>5. SetAt(Q, [Q EXCEPT ![i] = z], i, z)
      BY <2>1, <2>3, <3>3, PipeSet
    <3>. HIDE DEF z, t
    <3>6. Is(pipe_free(u, i), t, [Q EXCEPT ![i] = FreedPipe(x)], w.fds)
      <4>. DEFINE R == [Q EXCEPT ![i] = z]
      <4>1. World(u) /\ u.k = t /\ u.pipes = R /\ u.fds = w.fds /\ PipesOK(R) /\ R[i] = z
        BY <3>2, <3>5 DEF Is, SetAt
      <4>2. Is(pipe_free(u, i), t, [R EXCEPT ![i] = FreedPipe(z)], w.fds)
        <5>. HIDE DEF R
        <5>. QED BY <2>1, <4>1, FreeFields
      <4>3. [R EXCEPT ![i] = FreedPipe(z)] = [Q EXCEPT ![i] = FreedPipe(z)]
        BY <2>4
      <4>. QED BY <3>4, <4>2, <4>3
    <3>7. Is(c, t, [Q EXCEPT ![i] = Closing(x, e.end)], w.fds)
      BY <2>6, <3>1, <3>2, <3>6 DEF Closing, z, y
    <3>8. LastWriter(P, e) <=> ~ x.writers > 0
      BY <1>4, <2>6 DEF LastWriter, Q, i
    <3>9. t = ClosedKernel(w.k, P, e)
      BY <2>3, <3>8 DEF ClosedKernel, t, s, i
    <3>. QED BY <1>1, <1>4, <3>7, <3>9 DEF Is, ClosedPipes, Q, i, e, c
  <2>. QED BY <2>1, <2>5, <2>6 DEF Ends
<1>. QED BY <1>3, <1>4

\* Process p is blocked in pipe_read.
AtPipe(s, p) ==
  /\ s.status[p] = "BLOCKED" /\ s.block_reason[p] = "PIPE_READ"
  /\ s.waiting_on[p] = "resource"

\* Who is in the queue of a pipe is blocked inside a read of that pipe.
Queued(s, P, o) ==
  \A i \in PipeIds, p \in Pids :
    InQueue(P[i].readers_wait, p) => AtPipe(s, p) /\ o[p].op = "read" /\ o[p].pipe = i

WorldOK(w, o) ==
  /\ World(w) /\ Inv(w.k) /\ Family(w.k)
  /\ PipesOK(w.pipes) /\ FdsOK(w.fds) /\ Counted(w.pipes, w.fds)
  /\ Queued(w.k, w.pipes, o)

Undisturbed(s, t, u) ==
  /\ t.status[u] = s.status[u] /\ t.block_reason[u] = s.block_reason[u]
  /\ t.waiting_on[u] = s.waiting_on[u]

\* The world v differs from w in that readers of pipes were woken and left
\* their queues.
Released(w, v) ==
  /\ SameTree(w.k, v.k)
  /\ \A u \in Pids : \/ Undisturbed(w.k, v.k, u)
                     \/ AtPipe(w.k, u) /\ v.k.status[u] = "READY"
  /\ \A i \in PipeIds : v.pipes[i].readers_wait \in {w.pipes[i].readers_wait, << >>}

\* The pipes after a close.
LEMMA ClosedPipesLemma ==
  ASSUME NEW P, NEW F, PipesOK(P), FdsOK(F), Counted(P, F), NEW p \in Pids, NEW fd \in FdNums
  PROVE  LET e == F[p][fd]
             Q == ClosedPipes(P, e)
         IN  /\ PipesOK(Q) /\ Counted(Q, [F EXCEPT ![p][fd] = NoFd])
             /\ e.type # "PIPE" => Q = P
             /\ e.type = "PIPE" =>
                  LET x == Lost(P, e)[e.pipe]
                  IN  /\ e.pipe \in PipeIds /\ PipeOK(x) /\ Q[e.pipe] = Closing(x, e.end)
                      /\ x.readers_wait = P[e.pipe].readers_wait
                      /\ \A i \in PipeIds \ {e.pipe} : Q[i] = P[i]
<1>. DEFINE e == F[p][fd]
            Q == ClosedPipes(P, e)
            G == [F EXCEPT ![p][fd] = NoFd]
            L == Lost(P, e)
            i == e.pipe
            x == L[i]
<1>1. CASE e.type # "PIPE"
  <2>1. Q = P
    BY <1>1 DEF ClosedPipes
  <2>2. e \in Entries /\ NoFd \in Entries /\ \A j, y : NoFd # PipeEnd(j, y) /\ e # PipeEnd(j, y)
    <3>1. e \in Entries
      BY DEF FdsOK
    <3>2. \A j, y : e # PipeEnd(j, y)
      BY <1>1, <3>1, EntryLemma
    <3>. QED BY <3>1, <3>2 DEF Entries, NoFd, PipeEnd
  <2>3. ASSUME NEW j, NEW y PROVE HoldersOf(G, j, y) = HoldersOf(F, j, y)
    <3>1. HoldersOf(G, j, y) = IF NoFd = PipeEnd(j, y) THEN HoldersOf(F, j, y) \cup {<<p, fd>>}
                               ELSE HoldersOf(F, j, y) \ {<<p, fd>>}
      <4>1. NoFd \in Entries
        BY <2>2
      <4>. QED BY <4>1, HoldersLemma
    <3>2. <<p, fd>> \notin HoldersOf(F, j, y)
      BY <2>2, DescriptorsLemma DEF HoldersOf
    <3>. QED BY <2>2, <3>1, <3>2
  <2>4. Counted(P, G)
    BY <2>3 DEF Counted
  <2>. QED BY <1>1, <2>1, <2>4
<1>2. CASE e.type = "PIPE"
  <2>1. Losing(P, L, G, e)
    BY <1>2, LoseLemma
  <2>2. /\ PipesOK(L) /\ Counted(L, G) /\ i \in PipeIds /\ PipeOK(x)
        /\ x.readers_wait = P[i].readers_wait
        /\ \A j \in PipeIds \ {i} : L[j] = P[j]
    <3>. HIDE DEF L, e
    <3>. QED BY <2>1 DEF Losing, PipesOK, SamePipes, SamePipe
  <2>3. Q = [L EXCEPT ![i] = Closing(x, e.end)]
    BY <1>2 DEF ClosedPipes
  <2>. HIDE DEF L, G, Q, e
  <2>4. LET y == Closing(x, e.end)
        IN  /\ PipeOK(y)
            /\ \/ y.table = "freed"
               \/ y.table = x.table /\ y.readers = x.readers /\ y.writers = x.writers
    <3>1. << >> \in Seq(Pids) /\ NoDuplicates(<< >>)
      BY DEF NoDuplicates
    <3>. HIDE DEF x
    <3>. QED BY <2>2, <3>1, QueueSet DEF Closing, FreedPipe
  <2>. DEFINE y == Closing(x, e.end)
  <2>. HIDE DEF y, i
  <2>5. PipesOK(Q) /\ Q[i] = y /\ \A j \in PipeIds \ {i} : Q[j] = L[j]
    <3>1. SetAt(L, [L EXCEPT ![i] = y], i, y)
      BY <2>2, <2>4, PipeSet DEF y
    <3>. QED BY <2>3, <3>1 DEF SetAt, y
  <2>6. Counted(Q, G)
    <3>1. \A j \in PipeIds : \/ Q[j].table = "freed"
                             \/ /\ Q[j].table = L[j].table
                                /\ Q[j].readers = L[j].readers /\ Q[j].writers = L[j].writers
      BY <2>4, <2>5 DEF y
    <3>. QED BY <2>2, <3>1, CountedFrame
  <2>. QED BY <1>2, <2>2, <2>5, <2>6 DEF y, L, G, Q, i, e
<1>. QED BY <1>1, <1>2

LEMMA CloseLemma ==
  ASSUME NEW w, NEW o, WorldOK(w, o), NEW p \in Pids, NEW fd \in FdNums
  PROVE  LET v == close_fd(w, p, fd)
         IN  /\ WorldOK(v, o) /\ Released(w, v)
             /\ v.fds = [w.fds EXCEPT ![p][fd] = NoFd]
<1>. DEFINE v == close_fd(w, p, fd)
            e == w.fds[p][fd]
            P == w.pipes
            Q == ClosedPipes(P, e)
            i == e.pipe
            q == P[i].readers_wait
            s == w.k
            t == ClosedKernel(s, P, e)
            G == [w.fds EXCEPT ![p][fd] = NoFd]
            x == Lost(P, e)[i]
<1>1. /\ World(w) /\ Inv(s) /\ Family(s) /\ PipesOK(P) /\ FdsOK(w.fds)
      /\ Counted(P, w.fds) /\ Queued(s, P, o)
  BY DEF WorldOK
<1>2. World(v) /\ v.k = t /\ v.pipes = Q /\ v.fds = G
  BY <1>1, CloseFields DEF Is
<1>3. /\ PipesOK(Q) /\ Counted(Q, G) /\ (e.type # "PIPE" => Q = P)
      /\ e.type = "PIPE" =>
           /\ i \in PipeIds /\ PipeOK(x) /\ Q[i] = Closing(x, e.end) /\ x.readers_wait = q
           /\ \A j \in PipeIds \ {i} : Q[j] = P[j]
  BY <1>1, ClosedPipesLemma
<1>4. FdsOK(G)
  <2>1. NoFd \in Entries
    BY DEF Entries
  <2>. QED BY <1>1, <2>1, HoldersLemma
<1>5. e.type = "PIPE" => Q[i].readers_wait \in {q, << >>}
  <2>. SUFFICES ASSUME e.type = "PIPE" PROVE Q[i].readers_wait \in {q, << >>}
    OBVIOUS
  <2>. HIDE DEF x, e
  <2>1. << >> \in Seq(Pids) /\ NoDuplicates(<< >>)
    BY DEF NoDuplicates
  <2>2. Closing(x, e.end).readers_wait \in {x.readers_wait, << >>}
    BY <1>3, <2>1, QueueSet DEF Closing, FreedPipe
  <2>. QED BY <1>3, <2>2
<1>6. LastWriter(P, e) => e.type = "PIPE" /\ Q[i].readers_wait = << >>
  <2>. SUFFICES ASSUME LastWriter(P, e) PROVE e.type = "PIPE" /\ Q[i].readers_wait = << >>
    OBVIOUS
  <2>1. e.type = "PIPE" /\ e.end = "writers" /\ ~ x.writers > 0
    BY DEF LastWriter
  <2>. HIDE DEF x, e
  <2>2. << >> \in Seq(Pids) /\ NoDuplicates(<< >>)
    BY DEF NoDuplicates
  <2>3. Closing(x, e.end).readers_wait = << >>
    BY <1>3, <2>1, <2>2, QueueSet DEF Closing, FreedPipe
  <2>. QED BY <1>3, <2>1, <2>3
<1>7. \A j \in PipeIds : Q[j].readers_wait \in {P[j].readers_wait, << >>}
  <2>. HIDE DEF Q, e
  <2>. QED BY <1>3, <1>5
<1>8. ~ InQueue(<< >>, 0) /\ \A u : ~ InQueue(<< >>, u)
  BY DEF InQueue
<1>9. CASE ~ LastWriter(P, e)
  <2>1. t = s
    BY <1>9 DEF ClosedKernel
  <2>2. Queued(s, Q, o)
    <3>. HIDE DEF Q
    <3>. QED BY <1>1, <1>7, <1>8 DEF Queued
  <2>3. Released(w, v)
    <3>. HIDE DEF Q
    <3>. QED BY <1>2, <1>7, <2>1 DEF Released, SameTree, Undisturbed
  <2>. QED BY <1>1, <1>2, <1>3, <1>4, <2>1, <2>2, <2>3 DEF WorldOK
<1>10. CASE LastWriter(P, e)
  <2>1. t = wake_all(s, q) /\ e.type = "PIPE"
    BY <1>6, <1>10 DEF ClosedKernel
  <2>2. q \in Seq(Pids) /\ NoDuplicates(q) /\ i \in PipeIds
    BY <1>1, <1>3, <2>1 DEF PipesOK, PipeOK
  <2>. HIDE DEF t, Q, x, v, G, e
  <2>3. \A u \in Pids : InQueue(q, u) => AtPipe(s, u) /\ o[u].pipe = i
    BY <1>1, <2>2 DEF Queued
  <2>4. Woken(s, t, q, Len(q))
    <3>1. \A u \in Pids : InQueue(q, u) => s.status[u] = "BLOCKED"
      BY <2>3 DEF AtPipe
    <3>. HIDE DEF q
    <3>. QED BY <1>1, <2>1, <2>2, <3>1, WakeAllLemma
  <2>5. /\ Inv(t) /\ Family(t) /\ SameTree(s, t)
        /\ \A u \in Pids : IF InQueue(q, u) THEN t.status[u] = "READY" ELSE Undisturbed(s, t, u)
    BY <2>4 DEF Woken, InQueue, Undisturbed
  <2>6. Released(w, v)
    <3>1. \A u \in Pids : Undisturbed(s, t, u) \/ (AtPipe(s, u) /\ t.status[u] = "READY")
      BY <2>3, <2>5
    <3>. QED BY <1>2, <1>7, <2>5, <3>1 DEF Released
  <2>7. Queued(t, Q, o)
    <3>. SUFFICES ASSUME NEW j \in PipeIds, NEW u \in Pids, InQueue(Q[j].readers_wait, u)
                  PROVE  AtPipe(t, u) /\ o[u].op = "read" /\ o[u].pipe = j
      BY DEF Queued
    <3>1. j # i /\ Q[j] = P[j]
      BY <1>3, <1>6, <1>8, <1>10, <2>1
    <3>2. AtPipe(s, u) /\ o[u].op = "read" /\ o[u].pipe = j
      BY <1>1, <3>1 DEF Queued
    <3>3. ~ InQueue(q, u)
      BY <2>3, <3>1, <3>2
    <3>. HIDE DEF q
    <3>. QED BY <2>5, <3>2, <3>3 DEF AtPipe, Undisturbed
  <2>8. WorldOK(v, o)
    BY <1>2, <1>3, <1>4, <2>5, <2>7 DEF WorldOK
  <2>. QED BY <1>2, <2>6, <2>8 DEF v, G, e
<1>. QED BY <1>9, <1>10

\* The loop of proc_kill over the descriptors, step by step.
LEMMA CloseSteps ==
  ASSUME NEW w, NEW p
  PROVE  \E f : /\ f[0] = w /\ close_all(w, p) = f[FD_MAX]
                /\ \A n \in 1..FD_MAX : f[n] = close_fd(f[n - 1], p, n - 1)
<1>. DEFINE G(f, m) == f = [n \in 0..m |-> IF n = 0 THEN w ELSE close_fd(f[n - 1], p, n - 1)]
            T == {m \in Nat : \E f : G(f, m)}
<1>0. FD_MAX \in Nat
  BY PipeAssumption
<1>1. 0 \in T
  <2>1. G([n \in 0..0 |-> w], 0)
    OBVIOUS
  <2>. QED BY <2>1
<1>2. ASSUME NEW m \in Nat, m \in T PROVE m + 1 \in T
  <2>1. PICK f : G(f, m)
    BY <1>2
  <2>. DEFINE g == [n \in 0..(m + 1) |-> IF n = m + 1 THEN close_fd(f[m], p, m) ELSE f[n]]
  <2>2. ASSUME NEW n \in 0..(m + 1)
        PROVE  g[n] = IF n = 0 THEN w ELSE close_fd(g[n - 1], p, n - 1)
    <3>1. CASE n = m + 1
      <4>1. n - 1 = m /\ m \in 0..(m + 1) /\ m # m + 1 /\ n # 0
        BY <3>1
      <4>. QED BY <3>1, <4>1
    <3>2. CASE n # m + 1
      BY <2>1, <3>2
    <3>. QED BY <3>1, <3>2
  <2>3. G(g, m + 1)
    <3>1. g = [n \in 0..(m + 1) |-> g[n]]
      OBVIOUS
    <3>. HIDE DEF g
    <3>. QED BY <2>2, <3>1
  <2>. HIDE DEF g, G
  <2>. QED BY <2>3
<1>3. FD_MAX \in T
  <2>. HIDE DEF T
  <2>1. Nat \subseteq T
    BY <1>1, <1>2, NatSet
  <2>. QED BY <1>0, <2>1
<1>. DEFINE c == CHOOSE f : G(f, FD_MAX)
<1>4. G(c, FD_MAX)
  <2>1. \E f : G(f, FD_MAX)
    BY <1>3
  <2>. HIDE DEF G
  <2>. QED BY <2>1
<1>5. close_all(w, p) = c[FD_MAX]
  BY DEF close_all
<1>. HIDE DEF c
<1>6. c[0] = w /\ \A n \in 1..FD_MAX : c[n] = close_fd(c[n - 1], p, n - 1)
  BY <1>0, <1>4
<1>. QED BY <1>5, <1>6

LEMMA ReleasedTwice ==
  ASSUME NEW w, NEW u, NEW v, Released(w, u), Released(u, v)
  PROVE  Released(w, v)
<1>1. SameTree(w.k, v.k)
  BY DEF Released, SameTree
<1>2. ASSUME NEW x \in Pids
      PROVE  Undisturbed(w.k, v.k, x) \/ (AtPipe(w.k, x) /\ v.k.status[x] = "READY")
  BY DEF Released, Undisturbed, AtPipe
<1>3. \A i \in PipeIds : v.pipes[i].readers_wait \in {w.pipes[i].readers_wait, << >>}
  BY DEF Released
<1>. QED BY <1>1, <1>2, <1>3 DEF Released

\* It makes no difference to a close whether p, which waits at no pipe, is
\* stopped before or after it.
LEMMA CloseStopped ==
  ASSUME NEW w, NEW o, WorldOK(w, o), NEW p \in Pids, NEW fd \in FdNums,
         \A i \in PipeIds : ~ InQueue(w.pipes[i].readers_wait, p),
         NEW z, Is(z, stop(w.k, p), w.pipes, w.fds)
  PROVE  LET v == close_fd(w, p, fd)
         IN  Is(close_fd(z, p, fd), stop(v.k, p), v.pipes, v.fds)
<1>. DEFINE v == close_fd(w, p, fd)
            e == w.fds[p][fd]
            P == w.pipes
            q == P[e.pipe].readers_wait
            G == [w.fds EXCEPT ![p][fd] = NoFd]
            d == close_fd(z, p, fd)
<1>1. /\ World(w) /\ Inv(w.k) /\ Family(w.k) /\ PipesOK(P) /\ FdsOK(w.fds)
      /\ Counted(P, w.fds) /\ Queued(w.k, P, o)
  BY DEF WorldOK
<1>2. Is(v, ClosedKernel(w.k, P, e), ClosedPipes(P, e), G)
  BY <1>1, CloseFields
<1>3. Is(d, ClosedKernel(stop(w.k, p), P, e), ClosedPipes(P, e), G)
  <2>1. World(z) /\ z.k = stop(w.k, p) /\ z.pipes = P /\ z.fds = w.fds
    BY DEF Is
  <2>. DEFINE a == z.fds[p][fd]
  <2>2. Is(d, ClosedKernel(z.k, z.pipes, a), ClosedPipes(z.pipes, a), [z.fds EXCEPT ![p][fd] = NoFd])
    <3>1. PipesOK(z.pipes) /\ FdsOK(z.fds) /\ Counted(z.pipes, z.fds)
      BY <1>1, <2>1
    <3>. QED BY <2>1, <3>1, CloseFields
  <2>. QED BY <2>1, <2>2
<1>4. ClosedKernel(stop(w.k, p), P, e) = stop(ClosedKernel(w.k, P, e), p)
  <2>1. CASE ~ LastWriter(P, e)
    BY <2>1 DEF ClosedKernel
  <2>2. CASE LastWriter(P, e)
    <3>1. e.pipe \in PipeIds
      <4>1. e \in Entries /\ e.type = "PIPE"
        BY <1>1, <2>2 DEF FdsOK, LastWriter
      <4>. HIDE DEF e
      <4>. QED BY <4>1, EntryLemma
    <3>2. q \in Seq(Pids) /\ NoDuplicates(q)
      BY <1>1, <3>1 DEF PipesOK, PipeOK
    <3>3. /\ \A u \in Pids : InQueue(q, u) => w.k.status[u] = "BLOCKED"
          /\ ~ InQueue(q, p)
      BY <1>1, <3>1 DEF Queued, AtPipe
    <3>4. wake_all(stop(w.k, p), q) = stop(wake_all(w.k, q), p)
      <4>. HIDE DEF q
      <4>. QED BY <1>1, <3>2, <3>3, WakeAllLemma
    <3>. QED BY <2>2, <3>4 DEF ClosedKernel
  <2>. QED BY <2>1, <2>2
<1>. HIDE DEF v, d
<1>5. Is(d, stop(v.k, p), v.pipes, v.fds)
  BY <1>2, <1>3, <1>4 DEF Is
<1>. QED BY <1>5 DEF v, d

\* Every descriptor of p is closed; p may be stopped before or after that.
LEMMA CloseAllLemma ==
  ASSUME NEW w, NEW o, WorldOK(w, o), NEW p \in Pids,
         \A i \in PipeIds : ~ InQueue(w.pipes[i].readers_wait, p),
         NEW z, Is(z, stop(w.k, p), w.pipes, w.fds)
  PROVE  LET v == close_all(w, p)
         IN  /\ WorldOK(v, o) /\ Released(w, v) /\ v.fds = [w.fds EXCEPT ![p] = NoFds]
             /\ Is(close_all(z, p), stop(v.k, p), v.pipes, v.fds)
<1>0. FD_MAX \in Nat
  BY PipeAssumption
<1>1. PICK f : /\ f[0] = w /\ close_all(w, p) = f[FD_MAX]
               /\ \A n \in 1..FD_MAX : f[n] = close_fd(f[n - 1], p, n - 1)
  BY CloseSteps
<1>2. PICK g : /\ g[0] = z /\ close_all(z, p) = g[FD_MAX]
               /\ \A n \in 1..FD_MAX : g[n] = close_fd(g[n - 1], p, n - 1)
  BY CloseSteps
<1>. DEFINE Row(n) == [fd \in FdNums |-> IF fd < n THEN NoFd ELSE w.fds[p][fd]]
            A(n) == /\ WorldOK(f[n], o) /\ Released(w, f[n])
                    /\ f[n].fds = [w.fds EXCEPT ![p] = Row(n)]
                    /\ Is(g[n], stop(f[n].k, p), f[n].pipes, f[n].fds)
            T == {n \in Nat : n <= FD_MAX => A(n)}
<1>3. w.fds \in [Pids -> [FdNums -> Entries]]
  BY DEF WorldOK, FdsOK
<1>4. 0 \in T
  <2>1. Released(w, w)
    BY DEF Released, Undisturbed, SameTree
  <2>2. Row(0) = w.fds[p]
    BY <1>3, PipeAssumption DEF FdNums
  <2>3. w.fds = [w.fds EXCEPT ![p] = Row(0)]
    <3>. HIDE DEF Row
    <3>. QED BY <1>3, <2>2
  <2>4. A(0)
    BY <1>1, <1>2, <2>1, <2>3
  <2>. HIDE DEF A
  <2>. QED BY <2>4
<1>5. ASSUME NEW n \in Nat, n \in T PROVE n + 1 \in T
  <2>. SUFFICES ASSUME n + 1 <= FD_MAX PROVE A(n + 1)
    <3>. HIDE DEF A
    <3>. QED OBVIOUS
  <2>1. n \in FdNums /\ n + 1 \in 1..FD_MAX /\ (n + 1) - 1 = n
    BY <1>0 DEF FdNums
  <2>2. A(n)
    <3>. HIDE DEF A
    <3>. QED BY <1>0, <1>5
  <2>3. f[n + 1] = close_fd(f[n], p, n) /\ g[n + 1] = close_fd(g[n], p, n)
    BY <1>1, <1>2, <2>1
  <2>. DEFINE a == f[n]
              b == f[n + 1]
  <2>4. /\ WorldOK(b, o) /\ Released(a, b) /\ b.fds = [a.fds EXCEPT ![p][n] = NoFd]
    BY <2>1, <2>2, <2>3, CloseLemma
  <2>5. Released(w, b)
    BY <2>2, <2>4, ReleasedTwice
  <2>6. b.fds = [w.fds EXCEPT ![p] = Row(n + 1)]
    <3>1. [Row(n) EXCEPT ![n] = NoFd] = Row(n + 1)
      <4>. SUFFICES ASSUME NEW fd \in FdNums
                    PROVE  [Row(n) EXCEPT ![n] = NoFd][fd] = Row(n + 1)[fd]
        OBVIOUS
      <4>1. fd \in Int
        BY PipeAssumption DEF FdNums
      <4>2. fd < n + 1 <=> fd < n \/ fd = n
        BY <4>1
      <4>. QED BY <2>1, <4>2
    <3>. HIDE DEF Row
    <3>. QED BY <1>3, <2>2, <2>4, <3>1
  <2>7. Is(g[n + 1], stop(b.k, p), b.pipes, b.fds)
    <3>1. ASSUME NEW i \in PipeIds PROVE ~ InQueue(a.pipes[i].readers_wait, p)
      <4>1. a.pipes[i].readers_wait \in {w.pipes[i].readers_wait, << >>}
        BY <2>2 DEF Released
      <4>2. ~ InQueue(<< >>, p) /\ ~ InQueue(w.pipes[i].readers_wait, p)
        BY DEF InQueue
      <4>. QED BY ONLY <4>1, <4>2
    <3>. HIDE DEF a
    <3>. QED BY <2>1, <2>2, <2>3, <3>1, CloseStopped DEF a
  <2>. HIDE DEF Row
  <2>. QED BY <2>4, <2>5, <2>6, <2>7
<1>6. A(FD_MAX)
  <2>1. Nat \subseteq T
    <3>. HIDE DEF T
    <3>. QED BY <1>4, <1>5, NatSet
  <2>. HIDE DEF A
  <2>. QED BY <1>0, <2>1
<1>7. Row(FD_MAX) = NoFds
  BY PipeAssumption DEF NoFds, FdNums
<1>. HIDE DEF Row
<1>. QED BY <1>1, <1>2, <1>6, <1>7

\* Pipes x and y differ in their queues only.
Requeued(x, y) ==
  /\ y.table = x.table /\ y.readers = x.readers /\ y.writers = x.writers
  /\ y.ring = x.ring /\ y.sent = x.sent /\ y.received = x.received

\* proc_kill takes p out of the queue of the pipe it waits at, if any.
LEMMA UnlinkLemma ==
  ASSUME NEW w, NEW o, WorldOK(w, o), NEW p \in Pids
  PROVE  LET v == unlink_from_pipe(w, p)
         IN  /\ WorldOK(v, o) /\ v.k = w.k /\ v.fds = w.fds
             /\ \A i \in PipeIds :
                  /\ Requeued(w.pipes[i], v.pipes[i])
                  /\ \A u \in Pids : InQueue(v.pipes[i].readers_wait, u) <=>
                                       InQueue(w.pipes[i].readers_wait, u) /\ u # p
<1>. DEFINE v == unlink_from_pipe(w, p)
            P == w.pipes
            X(i) == [P[i] EXCEPT !.readers_wait = queue_remove(@, p),
                                 !.writers_wait = queue_remove(@, p)]
            Q == [i \in PipeIds |-> X(i)]
<1>1. /\ World(w) /\ PipesOK(P) /\ Counted(P, w.fds) /\ Queued(w.k, P, o)
  BY DEF WorldOK
<1>2. CASE w.k.waiting_on[p] # "resource"
  <2>1. v = w
    BY <1>2 DEF unlink_from_pipe
  <2>2. \A i \in PipeIds : ~ InQueue(P[i].readers_wait, p)
    BY <1>1, <1>2 DEF Queued, AtPipe
  <2>3. ASSUME NEW i \in PipeIds
        PROVE  Requeued(P[i], P[i])
    BY DEF Requeued
  <2>. QED BY <2>1, <2>2, <2>3
<1>3. CASE w.k.waiting_on[p] = "resource"
  <2>1. World(v) /\ v.k = w.k /\ v.fds = w.fds /\ v.pipes = Q
    BY <1>1, <1>3 DEF unlink_from_pipe, World, WorldFields, PipeIds
  <2>. HIDE DEF v, P
  <2>2. ASSUME NEW i \in PipeIds
        PROVE  /\ PipeOK(X(i)) /\ Requeued(P[i], X(i))
               /\ \A u \in Pids : InQueue(X(i).readers_wait, u) <=>
                                    InQueue(P[i].readers_wait, u) /\ u # p
    <3>. DEFINE x == P[i]
                q == queue_remove(x.readers_wait, p)
                y == [x EXCEPT !.readers_wait = q]
    <3>1. PipeOK(x) /\ PipeShape(x) /\ x.writers_wait = << >>
      BY <1>1 DEF PipesOK, PipeOK
    <3>2. queue_remove(<< >>, p) = << >>
      BY DEF queue_remove
    <3>3. q \in Seq(Pids) /\ NoDuplicates(q) /\ \A u : InQueue(q, u) <=> InQueue(x.readers_wait, u) /\ u # p
      BY <3>1, QueueRemoveLemma DEF PipeOK
    <3>. HIDE DEF x, q
    <3>4. X(i) = [x EXCEPT !.readers_wait = q, !.writers_wait = << >>]
      BY <3>1, <3>2 DEF x, q
    <3>. HIDE DEF X
    <3>5. X(i) = y
      BY ONLY <3>1, <3>4 DEF PipeShape, PipeFields
    <3>6. PipeOK(y) /\ y.readers_wait = q /\ Requeued(x, y)
      BY <3>1, <3>3, QueueSet DEF Requeued
    <3>. HIDE DEF y
    <3>. QED BY <3>3, <3>5, <3>6 DEF x
  <2>. HIDE DEF X
  <2>3. Q = [i \in PipeIds |-> Q[i]]
    OBVIOUS
  <2>4. \A i \in PipeIds : Q[i] = X(i)
    OBVIOUS
  <2>. HIDE DEF Q
  <2>4a. PipesOK(Q)
    BY <2>2, <2>3, <2>4 DEF PipesOK
  <2>5. Counted(Q, w.fds)
    BY <1>1, <2>2, <2>4, CountedFrame DEF Requeued
  <2>6. Queued(w.k, Q, o)
    BY <1>1, <2>2, <2>4 DEF Queued
  <2>7. WorldOK(v, o)
    BY <2>1, <2>4a, <2>5, <2>6 DEF WorldOK
  <2>. QED BY <2>1, <2>2, <2>4, <2>7 DEF v, P
<1>. QED BY <1>2, <1>3

-----------------------------------------------------------------------------
(***************************************************************************)
(* The invariant, as a predicate on a world w and the calls o.             *)
(***************************************************************************)

IoCalls == {NoIo, Eof} \cup {[op |-> "read", pipe |-> i, size |-> ReadSize] : i \in PipeIds}

\* idle and the shell read no pipe.
Calling(s, o) ==
  /\ o \in [Pids -> IoCalls] /\ o[0] = NoIo
  /\ s.shell_pid # NULL => o[s.shell_pid] = NoIo

\* The dead have no descriptor and are inside no call.
Buried(s, F, o) == \A p \in Pids \ Living(s) : F[p] = NoFds /\ o[p] = NoIo

\* The shell that init knows is in the table, and a child of init.
Known(s) ==
  s.shell_pid # NULL => s.shell_pid \in Alive(s) \ {0, 1} /\ s.parent[s.shell_pid] = 1

Good(w, o) ==
  /\ WorldOK(w, o) /\ Buried(w.k, w.fds, o) /\ Calling(w.k, o) /\ Known(w.k)

\* A step of the kernel in which nobody dies and the queues of the pipes stay true.
LEMMA KernelStep ==
  ASSUME NEW w, NEW o, Good(w, o), NEW t, Inv(t), Family(t),
         \A i \in PipeIds, p \in Pids : InQueue(w.pipes[i].readers_wait, p) => AtPipe(t, p),
         Living(w.k) \subseteq Living(t), t.shell_pid \in {NULL, w.k.shell_pid}, Known(t),
         NEW v, Is(v, t, w.pipes, w.fds)
  PROVE  Good(v, o)
<1>1. v.k = t /\ v.pipes = w.pipes /\ v.fds = w.fds /\ World(v)
  BY DEF Is
<1>3. Queued(t, w.pipes, o)
  BY DEF Good, WorldOK, Queued
<1>4. Buried(t, w.fds, o) /\ Calling(t, o)
  BY DEF Good, Buried, Calling
<1>. QED BY <1>1, <1>3, <1>4 DEF Good, WorldOK

\* No wait at a pipe begins or ends.
LEMMA SameWaitsQueued ==
  ASSUME NEW w, NEW o, Good(w, o), NEW t, SameWaits(w.k, t)
  PROVE  \A i \in PipeIds, p \in Pids : InQueue(w.pipes[i].readers_wait, p) => AtPipe(t, p)
<1>1. \A p \in Pids : AtPipe(w.k, p) => AtPipe(t, p)
  BY DEF SameWaits, SameWait, AtPipe, OnResource, Resources
<1>. QED BY <1>1 DEF Good, WorldOK, Queued

\* A process dies: it is unlinked, all its descriptors are closed, and the kernel
\* buries it.  Closing them before it stops comes to the same.
DeathOf(w, z, t, p) ==
  LET v == close_all(unlink_from_pipe(w, p), p)
  IN  z.pipes = v.pipes /\ z.fds = v.fds /\ t = proc_kill(v.k, p)

LEMMA KillGood ==
  ASSUME NEW w, NEW o, Good(w, o), NEW p \in Living(w.k) \ {0, 1}
  PROVE  LET z == terminate(w, p)
             t == bury(z.k, p)
             c == [o EXCEPT ![p] = NoIo]
         IN  /\ z.fds = [w.fds EXCEPT ![p] = NoFds] /\ Died(w.k, t, p)
             /\ \A v : Is(v, t, z.pipes, z.fds) => Good(v, c)
             /\ DeathOf(w, z, t, p)
<1>. DEFINE z == terminate(w, p)
            t == bury(z.k, p)
            c == [o EXCEPT ![p] = NoIo]
            u == unlink_from_pipe(w, p)
            v == close_all(u, p)
            d == [u EXCEPT !.k = stop(w.k, p)]
<1>0. WorldOK(w, o) /\ p \in Pids /\ p # NULL /\ p \notin {NULL, 0, 1}
  BY PidsLemma DEF Good, Living
<1>1. /\ WorldOK(u, o) /\ u.k = w.k /\ u.fds = w.fds
      /\ \A i \in PipeIds : ~ InQueue(u.pipes[i].readers_wait, p)
  BY <1>0, UnlinkLemma
<1>2. Is(d, stop(u.k, p), u.pipes, u.fds)
  <2>1. World(u)
    BY <1>1 DEF WorldOK
  <2>. HIDE DEF u
  <2>. QED BY <1>1, <2>1 DEF Is, World, WorldFields
<1>3. /\ WorldOK(v, o) /\ Released(u, v) /\ v.fds = [u.fds EXCEPT ![p] = NoFds]
      /\ Is(close_all(d, p), stop(v.k, p), v.pipes, v.fds)
  <2>. HIDE DEF u, d
  <2>. QED BY <1>0, <1>1, <1>2, CloseAllLemma
<1>4. z = close_all(d, p)
  BY DEF terminate
<1>. HIDE DEF z, v, d, u
<1>5. z.k = stop(v.k, p) /\ z.pipes = v.pipes /\ z.fds = v.fds
  BY <1>3, <1>4 DEF Is
<1>6. t = proc_kill(v.k, p)
  BY <1>0, <1>5 DEF proc_kill
<1>7. Living(v.k) = Living(w.k) /\ Alive(v.k) = Alive(w.k) /\ SameTree(w.k, v.k)
  BY <1>1, <1>3 DEF Released, Undisturbed, AtPipe, Living, Alive
<1>8. Inv(v.k) /\ Family(v.k)
  BY <1>3 DEF WorldOK
<1>9. Inv(t) /\ Family(t) /\ Died(v.k, t, p)
  BY <1>0, <1>6, <1>7, <1>8, KillLemma, FamilyKill
<1>10. Died(w.k, t, p)
  <2>. HIDE DEF t
  <2>. QED BY <1>7, <1>9 DEF Died, SameTree, Ceded
<1>11. /\ \A x \in Pids \ {p} : SameWait(v.k, t, x)
  BY <1>0, <1>6, <1>8, KillWaits
<1>. HIDE DEF t
<1>12. Queued(t, v.pipes, c)
  <2>. SUFFICES ASSUME NEW i \in PipeIds, NEW x \in Pids, InQueue(v.pipes[i].readers_wait, x)
                PROVE  AtPipe(t, x) /\ c[x].op = "read" /\ c[x].pipe = i
    BY DEF Queued
  <2>1. x # p
    BY <1>1, <1>3 DEF Released, InQueue
  <2>2. AtPipe(v.k, x) /\ o[x].op = "read" /\ o[x].pipe = i
    BY <1>3 DEF WorldOK, Queued
  <2>3. AtPipe(t, x)
    BY <1>11, <2>1, <2>2 DEF SameWait, AtPipe, OnResource, Resources
  <2>4. c[x] = o[x]
    BY <2>1 DEF Good, Calling
  <2>. QED BY <2>2, <2>3, <2>4
<1>13. Buried(t, v.fds, c)
  <2>. SUFFICES ASSUME NEW x \in Pids \ Living(t) PROVE v.fds[x] = NoFds /\ c[x] = NoIo
    BY DEF Buried
  <2>1. x = p \/ x \notin Living(w.k)
    BY <1>10 DEF Died
  <2>2. w.fds \in [Pids -> [FdNums -> Entries]] /\ o \in [Pids -> IoCalls]
    BY <1>0 DEF WorldOK, FdsOK, Good, Calling
  <2>3. x \notin Living(w.k) => w.fds[x] = NoFds /\ o[x] = NoIo
    BY DEF Good, Buried
  <2>. QED BY <1>0, <1>1, <1>3, <2>1, <2>2, <2>3
<1>14. Calling(t, c)
  <2>1. o \in [Pids -> IoCalls] /\ NoIo \in IoCalls /\ Calling(w.k, o)
    BY DEF Good, Calling, IoCalls
  <2>2. t.shell_pid = w.k.shell_pid /\ w.k.shell_pid \in Pids \cup {NULL}
    BY <1>0, <1>10 DEF Died, WorldOK, Family, Kin, TreeTypes
  <2>. QED BY <1>0, <2>1, <2>2, PidsLemma DEF Calling
<1>15. Known(t)
  <2>1. Known(w.k)
    BY DEF Good
  <2>2. w.k.shell_pid \in Pids \cup {NULL}
    BY <1>0 DEF WorldOK, Family, Kin, TreeTypes
  <2>. QED BY <1>0, <1>10, <2>1, <2>2, PidsLemma DEF Known, Died
<1>16. z.fds = [w.fds EXCEPT ![p] = NoFds]
  BY <1>1, <1>3, <1>5
<1>17. ASSUME NEW y, Is(y, t, z.pipes, z.fds) PROVE Good(y, c)
  <2>1. World(y) /\ y.k = t /\ y.pipes = v.pipes /\ y.fds = v.fds
    BY <1>5, <1>17 DEF Is
  <2>. QED BY <1>3, <1>9, <1>12, <1>13, <1>14, <1>15, <2>1 DEF Good, WorldOK
<1>. QED BY <1>5, <1>6, <1>10, <1>16, <1>17 DEF DeathOf, z, t, u, v

-----------------------------------------------------------------------------
(***************************************************************************)
(* Creating, opening and closing pipes.                                    *)
(***************************************************************************)

\* What find_pipe_by_id and find_free_fd find.
LEMMA FindLemma ==
  ASSUME NEW w
  PROVE  /\ LET i == find_pipe_by_id(w)
            IN  \/ i = 0 /\ \A j \in PipeIds : w.pipes[j].table # "used"
                \/ i \in PipeIds /\ i # 0 /\ w.pipes[i].table = "used"
         /\ \A p : LET fd == find_free_fd(w, p)
                   IN  \/ fd = -1
                       \/ fd \in FdNums /\ fd >= 0 /\ w.fds[p][fd].type = "NONE"
<1>1. PipeIds \subseteq Nat /\ 0 \notin PipeIds /\ FdNums \subseteq Nat
  BY PipeAssumption DEF PipeIds, FdNums
<1>2. LET i == find_pipe_by_id(w)
      IN  \/ i = 0 /\ \A j \in PipeIds : w.pipes[j].table # "used"
          \/ i \in PipeIds /\ i # 0 /\ w.pipes[i].table = "used"
  <2>. DEFINE T == {j \in PipeIds : w.pipes[j].table = "used"}
  <2>1. find_pipe_by_id(w) = IF T = {} THEN 0 ELSE Least(T)
    BY DEF find_pipe_by_id, PipeIds
  <2>2. T # {} => Least(T) \in T
    <3>1. T \in SUBSET Nat
      BY <1>1
    <3>. HIDE DEF T
    <3>. QED BY <3>1, LeastLemma
  <2>. QED BY <1>1, <2>1, <2>2
<1>3. ASSUME NEW p
      PROVE  LET fd == find_free_fd(w, p)
             IN  \/ fd = -1
                 \/ fd \in FdNums /\ fd >= 0 /\ w.fds[p][fd].type = "NONE"
  <2>. DEFINE T == {j \in FdNums : w.fds[p][j].type = "NONE"}
  <2>1. find_free_fd(w, p) = IF T = {} THEN -1 ELSE Least(T)
    BY DEF find_free_fd, FdNums
  <2>2. T # {} => Least(T) \in T
    <3>1. T \in SUBSET Nat
      BY <1>1
    <3>. HIDE DEF T
    <3>. QED BY <3>1, LeastLemma
  <2>. DEFINE j == Least(T)
  <2>3. T # {} => j \in T
    BY <2>2
  <2>4. find_free_fd(w, p) = IF T = {} THEN -1 ELSE j
    BY <2>1
  <2>. HIDE DEF j
  <2>5. T # {} => j \in FdNums /\ w.fds[p][j].type = "NONE"
    BY <2>3, Zenon
  <2>. HIDE DEF T
  <2>6. ASSUME T # {} PROVE j >= 0
    <3>1. j \in Nat
      BY <1>1, <2>5, <2>6, Zenon
    <3>. QED BY <3>1
  <2>. QED BY <2>4, <2>5, <2>6
<1>. QED BY <1>2, <1>3

\* create_pipe, when there is a slot left.
Created(w, v) ==
  /\ World(v) /\ v.k = w.k /\ v.fds = w.fds
  /\ \/ v = w /\ \A i \in PipeIds : w.pipes[i].table # "null"
     \/ \E j \in PipeIds : /\ w.pipes[j].table = "null" /\ v.pipes[j] = NewPipe
                           /\ \A i \in PipeIds \ {j} : v.pipes[i] = w.pipes[i]

LEMMA CreateGood ==
  ASSUME NEW w, NEW o, Good(w, o)
  PROVE  Good(create_pipe(w), o) /\ Created(w, create_pipe(w))
<1>. DEFINE T == {i \in PipeIds : w.pipes[i].table = "null"}
            v == create_pipe(w)
            j == Least(T)
            Q == [w.pipes EXCEPT ![j] = NewPipe]
<1>1. v = IF T = {} THEN w ELSE [w EXCEPT !.pipes[j] = NewPipe]
  BY DEF create_pipe, PipeIds
<1>2. World(w) /\ PipesOK(w.pipes) /\ Counted(w.pipes, w.fds) /\ Queued(w.k, w.pipes, o)
  BY DEF Good, WorldOK
<1>3. CASE T = {}
  BY <1>1, <1>2, <1>3 DEF Created
<1>4. CASE T # {}
  <2>1. j \in T
    <3>1. T \in SUBSET Nat
      BY PipeAssumption DEF PipeIds
    <3>. HIDE DEF T
    <3>. QED BY <1>4, <3>1, LeastLemma
  <2>2. j \in PipeIds /\ w.pipes[j].table = "null"
    BY <2>1
  <2>. HIDE DEF T, j
  <2>3. World(v) /\ v.k = w.k /\ v.fds = w.fds /\ v.pipes = Q
    BY <1>1, <1>2, <1>4 DEF World, WorldFields
  <2>4. PipesOK(Q) /\ Q[j] = NewPipe /\ \A i \in PipeIds \ {j} : Q[i] = w.pipes[i]
    <3>1. SetAt(w.pipes, Q, j, NewPipe)
      BY <1>2, <2>2, PipeSet, NewPipeLemma
    <3>. QED BY <3>1 DEF SetAt
  <2>. HIDE DEF Q, v
  <2>5. Counted(Q, w.fds)
    <3>. SUFFICES ASSUME NEW i \in PipeIds, NEW x \in Ends
                  PROVE  /\ Q[i].table = "null" => HoldersOf(w.fds, i, x) = {}
                         /\ Q[i].table = "used" => Q[i][x] = Cardinality(HoldersOf(w.fds, i, x))
      BY DEF Counted
    <3>1. CASE i # j
      BY <1>2, <2>4, <3>1 DEF Counted
    <3>2. CASE i = j
      <4>1. HoldersOf(w.fds, i, x) = {}
        BY <1>2, <2>2, <3>2 DEF Counted
      <4>2. Q[i][x] = 0 /\ Q[i].table = "used"
        BY <2>4, <3>2, NewPipeLemma DEF Ends
      <4>. QED BY <4>1, <4>2, FS_EmptySet
    <3>. QED BY <3>1, <3>2
  <2>6. Queued(w.k, Q, o)
    <3>1. \A u : ~ InQueue(NewPipe.readers_wait, u)
      BY NewPipeLemma DEF InQueue
    <3>. QED BY <1>2, <2>4, <3>1 DEF Queued
  <2>7. Good(v, o)
    BY <2>3, <2>4, <2>5, <2>6 DEF Good, WorldOK
  <2>8. Created(w, v)
    BY <2>2, <2>3, <2>4 DEF Created
  <2>. QED BY <2>7, <2>8 DEF v
<1>. QED BY <1>3, <1>4

\* The descriptor fd of p is an end of a pipe in use, which may be a new one.
Opened(w, v, p, fd, end) ==
  \E i \in PipeIds : \E m :
    /\ Created(w, m) \/ m = w
    /\ World(v) /\ v.k = w.k /\ m.pipes[i].table = "used" /\ SamePipes(m.pipes, v.pipes)
    /\ v.fds = [w.fds EXCEPT ![p][fd] = PipeEnd(i, end)]

LEMMA OpenGood ==
  ASSUME NEW w, NEW o, Good(w, o), NEW p \in Living(w.k), NEW end \in Ends
  PROVE  LET fd == find_free_fd(w, p)
             v  == sys_pipe_open(w, p, end)
         IN  /\ Good(v, o) /\ opened_fd(w, p) \in FdNums \cup {-1}
             /\ \/ v = w /\ opened_fd(w, p) = -1
                \/ /\ opened_fd(w, p) = fd /\ fd \in FdNums /\ w.fds[p][fd].type = "NONE"
                   /\ Opened(w, v, p, fd, end)
<1>. DEFINE fd == find_free_fd(w, p)
            v == sys_pipe_open(w, p, end)
            m == IF find_pipe_by_id(w) = 0 THEN create_pipe(w) ELSE w
            i == find_pipe_by_id(m)
            e == PipeEnd(i, end)
<1>0. p \in Pids
  BY DEF Living
<1>1. Good(m, o) /\ (Created(w, m) \/ m = w) /\ m.k = w.k /\ m.fds = w.fds
  BY CreateGood DEF Created
<1>2. /\ fd = -1 \/ (fd \in FdNums /\ fd >= 0 /\ w.fds[p][fd].type = "NONE")
      /\ i = 0 \/ (i \in PipeIds /\ i # 0 /\ m.pipes[i].table = "used")
  BY FindLemma
<1>3. opened_fd(w, p) = IF i = 0 THEN -1 ELSE fd
  <2>1. find_pipe_by_id(w) = 0 /\ find_pipe_by_id(create_pipe(w)) = 0 <=> i = 0
    OBVIOUS
  <2>. QED BY <2>1 DEF opened_fd
<1>4. v = IF fd < 0 \/ i = 0 THEN w
          ELSE [m EXCEPT !.fds[p][fd] = e, !.pipes[i][end] = @ + 1]
  BY DEF sys_pipe_open, open_pipe
<1>. HIDE DEF m, fd, v
<1>5. CASE fd = -1 \/ i = 0
  <2>1. v = w /\ opened_fd(w, p) = -1
    BY <1>3, <1>4, <1>5
  <2>. QED BY <2>1 DEF v
<1>6. CASE fd # -1 /\ i # 0
  <2>1. /\ fd \in FdNums /\ fd >= 0 /\ w.fds[p][fd].type = "NONE" /\ i \in PipeIds
        /\ m.pipes[i].table = "used" /\ opened_fd(w, p) = fd
    BY <1>2, <1>3, <1>6
  <2>. HIDE DEF i
  <2>2. e \in Entries /\ e.type = "PIPE" /\ e.pipe = i /\ e.end = end
    BY <2>1 DEF Entries, PipeEnd
  <2>. HIDE DEF e
  <2>. DEFINE G == [w.fds EXCEPT ![p][fd] = e]
              Q == Gained(m.pipes, e)
  <2>3. World(v) /\ v.k = w.k /\ v.fds = G /\ v.pipes = Q
    <3>1. v = [m EXCEPT !.fds[p][fd] = e, !.pipes[i][end] = @ + 1]
      BY <1>4, <1>6, <2>1, PipeAssumption DEF FdNums
    <3>2. World(m)
      BY <1>1 DEF Good, WorldOK
    <3>3. World(v) /\ v.k = m.k /\ v.fds = [m.fds EXCEPT ![p][fd] = e]
          /\ v.pipes = [m.pipes EXCEPT ![i] = [m.pipes[i] EXCEPT ![end] = m.pipes[i][end] + 1]]
      BY ONLY <3>1, <3>2 DEF World, WorldFields
    <3>. QED BY <1>1, <2>2, <3>3 DEF Gained
  <2>4. PipesOK(Q) /\ FdsOK(G) /\ Counted(Q, G) /\ SamePipes(m.pipes, Q)
    <3>1. PipesOK(m.pipes) /\ FdsOK(w.fds) /\ Counted(m.pipes, w.fds)
      BY <1>1 DEF Good, WorldOK
    <3>2. w.fds[p][fd].type # "PIPE" /\ m.pipes[e.pipe].table # "null"
      BY <2>1, <2>2
    <3>. QED BY <1>0, <2>1, <2>2, <3>1, <3>2, GainLemma
  <2>. HIDE DEF Q
  <2>5. Queued(w.k, Q, o)
    BY <1>1, <2>4 DEF Good, WorldOK, Queued, SamePipes, SamePipe
  <2>6. Buried(w.k, G, o)
    <3>1. \A u \in Pids \ {p} : G[u] = w.fds[u]
      BY <1>1 DEF Good, WorldOK, FdsOK
    <3>. QED BY <3>1 DEF Good, Buried
  <2>. HIDE DEF G
  <2>7. Good(v, o)
    BY <1>1, <2>3, <2>4, <2>5, <2>6 DEF Good, WorldOK
  <2>8. Opened(w, v, p, fd, end)
    BY <1>1, <2>1, <2>3, <2>4 DEF Opened, G, e
  <2>. QED BY <2>1, <2>7, <2>8 DEF v, fd
<1>. QED BY <1>5, <1>6

\* pipe_close: the pipe is freed, whoever has it open.
LEMMA PipeCloseGood ==
  ASSUME NEW w, NEW o, Good(w, o)
  PROVE  LET v == sys_pipe_close(w)
         IN  /\ Good(v, o) /\ v.k = w.k /\ v.fds = w.fds
             /\ \/ v = w
                \/ \E i \in PipeIds :
                     w.pipes[i].table = "used" /\ SetAt(w.pipes, v.pipes, i, FreedPipe(w.pipes[i]))
<1>. DEFINE v == sys_pipe_close(w)
            i == find_pipe_by_id(w)
            y == FreedPipe(w.pipes[i])
            Q == [w.pipes EXCEPT ![i] = y]
<1>1. CASE i = 0
  BY <1>1 DEF sys_pipe_close
<1>2. CASE i # 0
  <2>1. i \in PipeIds /\ w.pipes[i].table = "used"
    BY <1>2, FindLemma
  <2>2. World(w) /\ PipesOK(w.pipes) /\ Counted(w.pipes, w.fds) /\ Queued(w.k, w.pipes, o)
    BY DEF Good, WorldOK
  <2>3. World(v) /\ v.k = w.k /\ v.pipes = Q /\ v.fds = w.fds
    <3>1. v = pipe_free(w, i)
      BY <1>2 DEF sys_pipe_close
    <3>. HIDE DEF i
    <3>. QED BY <2>1, <2>2, <3>1, FreeFields DEF Is
  <2>. HIDE DEF i, v
  <2>4. PipeOK(y) /\ y.table = "freed" /\ y.readers_wait = << >>
    <3>1. PipeOK(w.pipes[i]) /\ << >> \in Seq(Pids) /\ NoDuplicates(<< >>)
      BY <2>1, <2>2 DEF PipesOK, NoDuplicates
    <3>. QED BY <3>1, QueueSet DEF FreedPipe
  <2>. HIDE DEF y
  <2>5. SetAt(w.pipes, Q, i, y)
    BY <2>1, <2>2, <2>4, PipeSet
  <2>. HIDE DEF Q
  <2>6. Counted(Q, w.fds)
    BY <2>2, <2>4, <2>5, CountedFrame DEF SetAt
  <2>7. Queued(w.k, Q, o)
    BY <2>2, <2>4, <2>5 DEF Queued, SetAt, InQueue
  <2>8. Good(v, o)
    BY <2>3, <2>5, <2>6, <2>7 DEF Good, WorldOK, SetAt
  <2>. QED BY <2>1, <2>3, <2>5, <2>8 DEF v, y
<1>. QED BY <1>1, <1>2

\* close_fd by a living process.
LEMMA CloseFdGood ==
  ASSUME NEW w, NEW o, Good(w, o), NEW p \in Living(w.k), NEW fd \in FdNums \cup {-1}
  PROVE  LET v == sys_close_fd(w, p, fd)
         IN  Good(v, o) /\ (fd = -1 => v = w) /\ (fd # -1 => v = close_fd(w, p, fd))
<1>. DEFINE v == sys_close_fd(w, p, fd)
<1>1. CASE fd = -1
  BY <1>1 DEF sys_close_fd
<1>2. CASE fd # -1
  <2>1. fd \in FdNums /\ p \in Pids /\ v = close_fd(w, p, fd)
    BY <1>2, PipeAssumption DEF FdNums, sys_close_fd, Living
  <2>2. WorldOK(w, o)
    BY DEF Good
  <2>3. WorldOK(v, o) /\ Released(w, v) /\ v.fds = [w.fds EXCEPT ![p][fd] = NoFd]
    BY <2>1, <2>2, CloseLemma
  <2>. HIDE DEF v
  <2>4. Living(v.k) = Living(w.k) /\ Alive(v.k) = Alive(w.k) /\ SameTree(w.k, v.k)
    BY <2>3 DEF Released, Undisturbed, AtPipe, Living, Alive
  <2>5. \A u \in Pids \ {p} : v.fds[u] = w.fds[u]
    BY <2>2, <2>3 DEF WorldOK, FdsOK
  <2>6. Buried(v.k, v.fds, o) /\ Calling(v.k, o) /\ Known(v.k)
    BY <2>4, <2>5 DEF Good, Buried, Calling, Known, SameTree
  <2>. QED BY <1>2, <2>1, <2>3, <2>6 DEF Good, v
<1>. QED BY <1>1, <1>2

-----------------------------------------------------------------------------
(***************************************************************************)
(* Spawning.                                                               *)
(***************************************************************************)

\* A row of descriptors without pipes takes the place of another one.
LEMMA RowLemma ==
  ASSUME NEW P, NEW F, FdsOK(F), Counted(P, F), NEW p \in Pids, F[p] = NoFds,
         NEW r \in [FdNums -> {NoFd, Terminal}]
  PROVE  LET G == [F EXCEPT ![p] = r] IN FdsOK(G) /\ Counted(P, G)
<1>. DEFINE G == [F EXCEPT ![p] = r]
<1>1. NoFd \in Entries /\ Terminal \in Entries
  BY DEF Entries
<1>2. G \in [Pids -> [FdNums -> Entries]] /\ G[p] = r /\ \A u \in Pids \ {p} : G[u] = F[u]
  BY <1>1 DEF FdsOK
<1>. HIDE DEF G
<1>3. \A e \in {NoFd, Terminal} : \A i, x : e # PipeEnd(i, x)
  BY DEF NoFd, Terminal, PipeEnd
<1>4. ASSUME NEW i, NEW x PROVE HoldersOf(G, i, x) = HoldersOf(F, i, x)
  <2>. SUFFICES ASSUME NEW d \in Descriptors
                PROVE  G[d[1]][d[2]] = PipeEnd(i, x) <=> F[d[1]][d[2]] = PipeEnd(i, x)
    BY DEF HoldersOf
  <2>1. d[1] \in Pids /\ d[2] \in FdNums
    BY DescriptorsLemma
  <2>2. CASE d[1] = p
    <3>1. G[d[1]][d[2]] \in {NoFd, Terminal} /\ F[d[1]][d[2]] = NoFd
      BY <1>2, <2>1, <2>2 DEF NoFds, FdNums
    <3>. QED BY <1>3, <3>1
  <2>3. CASE d[1] # p
    BY <1>2, <2>1, <2>3
  <2>. QED BY <2>2, <2>3
<1>5. FdsOK(G) /\ Counted(P, G)
  BY <1>2, <1>4 DEF FdsOK, Counted
<1>. QED BY <1>5 DEF G

\* The loop of inherit_fds, step by step.
InheritTrace(f, w, p, source, list, c) ==
  /\ f[0] = [w EXCEPT !.fds[p] = NoFds] /\ inherit_fds(w, p, source, list) = f[c]
  /\ \A n \in 1..c : f[n] = inherit_fd(f[n - 1], p, n - 1, w.fds[source][list[n]])

LEMMA InheritSteps ==
  ASSUME NEW w, NEW p, NEW source, NEW list, NEW c \in Nat,
         c = Least({i \in 1..Len(list) : list[i] < 0}) - 1
  PROVE  \E f : InheritTrace(f, w, p, source, list, c)
<1>. DEFINE a == [w EXCEPT !.fds[p] = NoFds]
            e(n) == w.fds[source][list[n]]
            G(f, m) == f = [n \in 0..m |-> IF n = 0 THEN a ELSE inherit_fd(f[n - 1], p, n - 1, e(n))]
            T == {m \in Nat : \E f : G(f, m)}
<1>5. inherit_fds(w, p, source, list) = (CHOOSE f : G(f, c))[c]
  <2>. DEFINE b == Least({i \in 1..Len(list) : list[i] < 0}) - 1
  <2>1. inherit_fds(w, p, source, list) = (CHOOSE f : G(f, b))[b]
    BY Zenon DEF inherit_fds
  <2>2. b = c
    OBVIOUS
  <2>. HIDE DEF b, G
  <2>. QED BY <2>1, <2>2, Zenon
<1>. HIDE DEF a, e
<1>1. 0 \in T
  <2>1. G([n \in 0..0 |-> a], 0)
    OBVIOUS
  <2>. QED BY <2>1
<1>2. ASSUME NEW m \in Nat, m \in T PROVE m + 1 \in T
  <2>1. PICK f : G(f, m)
    BY <1>2
  <2>. DEFINE g == [n \in 0..(m + 1) |->
                      IF n = m + 1 THEN inherit_fd(f[m], p, m, e(m + 1)) ELSE f[n]]
  <2>2. ASSUME NEW n \in 0..(m + 1)
        PROVE  g[n] = IF n = 0 THEN a ELSE inherit_fd(g[n - 1], p, n - 1, e(n))
    <3>1. CASE n = m + 1
      <4>1. n - 1 = m /\ m \in 0..(m + 1) /\ m # m + 1 /\ n # 0
        BY <3>1
      <4>. QED BY <3>1, <4>1
    <3>2. CASE n # m + 1
      BY <2>1, <3>2
    <3>. QED BY <3>1, <3>2
  <2>3. G(g, m + 1)
    <3>1. g = [n \in 0..(m + 1) |-> g[n]]
      OBVIOUS
    <3>. HIDE DEF g
    <3>. QED BY <2>2, <3>1
  <2>. HIDE DEF g, G
  <2>. QED BY <2>3
<1>3. c \in T
  <2>. HIDE DEF T
  <2>1. Nat \subseteq T
    BY <1>1, <1>2, NatSet
  <2>. QED BY <2>1
<1>. DEFINE h == CHOOSE f : G(f, c)
<1>4. G(h, c)
  <2>1. \E f : G(f, c)
    BY <1>3
  <2>. HIDE DEF G
  <2>. QED BY <2>1
<1>7. inherit_fds(w, p, source, list) = h[c]
  BY <1>5
<1>. HIDE DEF h
<1>8. ASSUME NEW n \in 0..c
      PROVE  h[n] = IF n = 0 THEN a ELSE inherit_fd(h[n - 1], p, n - 1, e(n))
  BY <1>4, Zenon
<1>6. h[0] = a /\ \A n \in 1..c : h[n] = inherit_fd(h[n - 1], p, n - 1, e(n))
  BY <1>8
<1>. QED BY <1>6, <1>7 DEF a, e, InheritTrace

LEMMA InheritFields ==
  ASSUME NEW w, World(w), NEW p, NEW fd, NEW e
  PROVE  Is(inherit_fd(w, p, fd, e), w.k, Gained(w.pipes, e), [w.fds EXCEPT ![p][fd] = e])
<1>. DEFINE a == add_ref(w, e)
<1>1. Is(a, w.k, Gained(w.pipes, e), w.fds)
  BY DEF add_ref, Is, World, WorldFields, Gained
<1>2. inherit_fd(w, p, fd, e) = [a EXCEPT !.fds[p][fd] = e]
  BY DEF inherit_fd
<1>. HIDE DEF a
<1>. QED BY <1>1, <1>2 DEF Is, World, WorldFields

\* The new process p gets the first n descriptors of the list, which ends there.
Inherited(w, v, p, source, list) ==
  /\ World(v) /\ v.k = w.k /\ PipesOK(v.pipes) /\ FdsOK(v.fds) /\ Counted(v.pipes, v.fds)
  /\ SamePipes(w.pipes, v.pipes) /\ \A u \in Pids \ {p} : v.fds[u] = w.fds[u]
  /\ \E n \in Nat :
       /\ n + 1 <= Len(list) /\ list[n + 1] < 0 /\ \A i \in 1..n : list[i] \in FdNums
       /\ v.fds[p] = [fd \in FdNums |-> IF fd < n THEN w.fds[source][list[fd + 1]] ELSE NoFd]

LEMMA InheritLemma ==
  ASSUME NEW w, World(w), PipesOK(w.pipes), FdsOK(w.fds), Counted(w.pipes, w.fds),
         NEW p \in Pids, w.fds[p] = NoFds, NEW source \in Pids,
         NEW list \in Seq(FdNums \cup {-1}), Len(list) <= FD_MAX,
         \E i \in 1..Len(list) : list[i] < 0
  PROVE  Inherited(w, inherit_fds(w, p, source, list), p, source, list)
<1>. DEFINE S == {i \in 1..Len(list) : list[i] < 0}
            c == Least(S) - 1
            e(n) == w.fds[source][list[n]]
            Row(n) == [fd \in FdNums |-> IF fd < n THEN e(fd + 1) ELSE NoFd]
<1>0. FD_MAX \in Nat /\ FdNums \subseteq Nat /\ \A x \in FdNums \cup {-1} : x < 0 <=> x \notin FdNums
  BY PipeAssumption DEF FdNums
<1>1. /\ c \in Nat /\ c + 1 <= Len(list) /\ list[c + 1] < 0
      /\ \A i \in 1..c : list[i] \in FdNums
  <2>1. S \in SUBSET Nat /\ S # {}
    OBVIOUS
  <2>2. Least(S) \in S /\ \A m \in S : Least(S) <= m
    <3>1. \E n \in S : \A m \in S : n <= m
      BY <2>1, LeastNatural
    <3>. HIDE DEF S
    <3>. QED BY <3>1 DEF Least
  <2>3. c \in Nat /\ c + 1 = Least(S) /\ c + 1 <= Len(list) /\ list[c + 1] < 0
    BY <2>2
  <2>. HIDE DEF c
  <2>4. ASSUME NEW i \in 1..c PROVE list[i] \in FdNums
    <3>1. i \in 1..Len(list) /\ ~ Least(S) <= i
      BY <2>3
    <3>2. ~ list[i] < 0
      BY <2>2, <3>1
    <3>3. list[i] \in FdNums \cup {-1}
      BY <3>1
    <3>. QED BY <1>0, <3>2, <3>3
  <2>. QED BY <2>3, <2>4
<1>9. \E f : InheritTrace(f, w, p, source, list, c)
  BY <1>1, InheritSteps
<1>. HIDE DEF c, S
<1>2. PICK f : /\ f[0] = [w EXCEPT !.fds[p] = NoFds] /\ inherit_fds(w, p, source, list) = f[c]
               /\ \A n \in 1..c : f[n] = inherit_fd(f[n - 1], p, n - 1, e(n))
  BY <1>9 DEF InheritTrace
<1>3. w.fds \in [Pids -> [FdNums -> Entries]]
  BY DEF FdsOK
<1>4. ASSUME NEW n \in 1..c
      PROVE  e(n) \in Entries /\ (e(n).type = "PIPE" => w.pipes[e(n).pipe].table # "null")
  <2>1. list[n] \in FdNums
    BY <1>1
  <2>2. e(n) \in Entries
    BY <1>3, <2>1
  <2>3. <<source, list[n]>> \in Descriptors /\ <<source, list[n]>>[1] = source
        /\ <<source, list[n]>>[2] = list[n]
    BY <2>1, DescriptorsLemma
  <2>4. <<source, list[n]>> \in HoldersOf(w.fds, e(n).pipe, e(n).end) <=>
          e(n) = PipeEnd(e(n).pipe, e(n).end)
    BY <2>3 DEF HoldersOf
  <2>. DEFINE x == e(n)
  <2>. HIDE DEF e, x
  <2>5. x \in Entries
    BY <2>2 DEF x
  <2>6. x.type = "PIPE" => x.pipe \in PipeIds /\ x.end \in Ends /\ x = PipeEnd(x.pipe, x.end)
    BY <2>5, EntryLemma
  <2>. QED BY <2>4, <2>5, <2>6 DEF Counted, x
<1>. DEFINE A(n) == /\ World(f[n]) /\ f[n].k = w.k /\ PipesOK(f[n].pipes) /\ FdsOK(f[n].fds)
                    /\ Counted(f[n].pipes, f[n].fds) /\ SamePipes(w.pipes, f[n].pipes)
                    /\ f[n].fds = [w.fds EXCEPT ![p] = Row(n)]
            T == {n \in Nat : n <= c => A(n)}
<1>5. 0 \in T
  <2>1. Row(0) = NoFds
    BY <1>0 DEF NoFds, FdNums
  <2>. HIDE DEF Row
  <2>2. f[0] = w
    <3>1. w.fds = [w.fds EXCEPT ![p] = NoFds]
      BY <1>3
    <3>. QED BY <1>2, <3>1 DEF World, WorldFields
  <2>3. w.fds = [w.fds EXCEPT ![p] = Row(0)]
    BY <1>3, <2>1
  <2>4. A(0)
    BY <2>2, <2>3 DEF SamePipes, SamePipe
  <2>. HIDE DEF A
  <2>. QED BY <2>4
<1>6. ASSUME NEW n \in Nat, n \in T PROVE n + 1 \in T
  <2>. SUFFICES ASSUME n + 1 <= c PROVE A(n + 1)
    <3>. HIDE DEF A
    <3>. QED OBVIOUS
  <2>1. n \in FdNums /\ n + 1 \in 1..c /\ (n + 1) - 1 = n
    BY <1>0, <1>1 DEF FdNums
  <2>2. A(n)
    <3>. HIDE DEF A
    <3>. QED BY <1>1, <1>6
  <2>. DEFINE a == f[n]
              b == f[n + 1]
              y == e(n + 1)
  <2>3. b = inherit_fd(a, p, n, y)
    BY <1>2, <2>1
  <2>4. y \in Entries /\ (y.type = "PIPE" => w.pipes[y.pipe].table # "null")
    BY <1>4, <2>1
  <2>5. Is(b, a.k, Gained(a.pipes, y), [a.fds EXCEPT ![p][n] = y])
    <3>. HIDE DEF a, b, y
    <3>. QED BY <2>2, <2>3, InheritFields DEF a
  <2>6. a.fds[p] = Row(n) /\ a.fds[p][n] = NoFd
    <3>1. a.fds[p] = Row(n)
      <4>. HIDE DEF Row
      <4>. QED BY <1>3, <2>2
    <3>. QED BY <2>1, <3>1
  <2>7. y.type = "PIPE" => a.pipes[y.pipe].table # "null"
    <3>. HIDE DEF y, a
    <3>1. y.type = "PIPE" => y.pipe \in PipeIds
      BY <2>4, EntryLemma
    <3>. QED BY <2>2, <2>4, <3>1 DEF SamePipes, SamePipe, a
  <2>8. /\ PipesOK(b.pipes) /\ FdsOK(b.fds) /\ Counted(b.pipes, b.fds)
        /\ SamePipes(a.pipes, b.pipes)
    <3>1. a.fds[p][n].type # "PIPE"
      BY <2>6 DEF NoFd
    <3>2. PipesOK(a.pipes) /\ FdsOK(a.fds) /\ Counted(a.pipes, a.fds)
      BY <2>2
    <3>. HIDE DEF a, b, y
    <3>3. LET Q == Gained(a.pipes, y)
              G == [a.fds EXCEPT ![p][n] = y]
          IN  PipesOK(Q) /\ FdsOK(G) /\ Counted(Q, G) /\ SamePipes(a.pipes, Q)
      BY <2>1, <2>4, <2>7, <3>1, <3>2, GainLemma
    <3>. QED BY <2>5, <3>3 DEF Is
  <2>9. SamePipes(w.pipes, b.pipes)
    BY <2>2, <2>8 DEF SamePipes, SamePipe
  <2>10. b.fds = [w.fds EXCEPT ![p] = Row(n + 1)]
    <3>1. [Row(n) EXCEPT ![n] = y] = Row(n + 1)
      <4>. SUFFICES ASSUME NEW fd \in FdNums
                    PROVE  [Row(n) EXCEPT ![n] = y][fd] = Row(n + 1)[fd]
        OBVIOUS
      <4>1. fd \in Int
        BY <1>0
      <4>2. fd < n + 1 <=> fd < n \/ fd = n
        BY <4>1
      <4>. HIDE DEF e
      <4>. QED BY <2>1, <4>1, <4>2
    <3>2. b.fds = [a.fds EXCEPT ![p][n] = y]
      BY <2>5 DEF Is
    <3>. HIDE DEF Row, y
    <3>. QED BY <1>3, <2>2, <3>1, <3>2
  <2>11. World(b) /\ b.k = w.k
    BY <2>2, <2>5 DEF Is
  <2>. HIDE DEF Row
  <2>. QED BY <2>8, <2>9, <2>10, <2>11
<1>7. A(c)
  <2>1. Nat \subseteq T
    <3>. HIDE DEF T
    <3>. QED BY <1>5, <1>6, NatSet
  <2>. HIDE DEF A
  <2>. QED BY <1>1, <2>1
<1>8. f[c].fds[p] = Row(c) /\ \A u \in Pids \ {p} : f[c].fds[u] = w.fds[u]
  <2>. HIDE DEF Row
  <2>. QED BY <1>3, <1>7
<1>. QED BY <1>1, <1>2, <1>7, <1>8 DEF Inherited

\* sys_spawn_process: the table is full and the kernel follows a null pointer,
\* or a process p joins the living ones.
SpawnedAs(s, t, p, background) ==
  /\ Inv(t) /\ Family(t) /\ SameWaits(s, t) /\ t.shell_pid = s.shell_pid
  /\ \/ p = NULL /\ t = fault(s)
     \/ /\ p \in Pids \ Alive(s) /\ Spawned(s, t, p) /\ t.current = s.current
        /\ \A q \in Pids \ Alive(s) : p <= q
        /\ IF background THEN t.mode = s.mode /\ t.foreground = s.foreground
           ELSE Ceded(s, t, p, s.current)

LEMMA SpawnKernel ==
  ASSUME NEW s, Inv(s), Family(s), NEW background
  PROVE  SpawnedAs(s, sys_spawn_process(s, background), proc_pid_alloc(s), background)
<1>. DEFINE t == sys_spawn_process(s, background)
            p == proc_pid_alloc(s)
<1>1. Core(s) /\ Kin(s)
  BY DEF Inv, Family
<1>2. Inv(t)
  <2>1. Core(t) /\ (Idle(s) => Idle(t))
    BY <1>1, SpawnLemma
  <2>. QED BY <2>1 DEF Inv
<1>3. Family(t)
  BY FamilySpawn
<1>4. SameWaits(s, t)
  BY SpawnWaits
<1>. HIDE DEF t
<1>5. CASE Alive(s) = Pids
  <2>1. t = fault(s)
    BY <1>1, <1>5, SpawnFrame DEF t
  <2>2. p = NULL
    BY <1>5 DEF proc_pid_alloc
  <2>3. Shape(s)
    BY DEF Inv, Core, Queues, Types
  <2>4. t.shell_pid = s.shell_pid
    BY ONLY <2>1, <2>3 DEF fault, Shape, Fields
  <2>. QED BY <1>2, <1>3, <1>4, <2>1, <2>2, <2>4 DEF SpawnedAs, t
<1>6. CASE Alive(s) # Pids
  <2>. HIDE DEF p
  <2>1. /\ p \in Pids \ Alive(s) /\ Spawned(s, t, p) /\ t.current = s.current
        /\ \A q \in Pids \ Alive(s) : p <= q
        /\ IF background THEN t.mode = s.mode /\ t.foreground = s.foreground
           ELSE Ceded(s, t, p, s.current)
    BY <1>1, <1>6, SpawnFrame DEF t, p
  <2>2. t.shell_pid = s.shell_pid
    BY <2>1 DEF Spawned
  <2>3. SpawnedAs(s, t, p, background)
    BY <1>2, <1>3, <1>4, <2>1, <2>2 DEF SpawnedAs
  <2>. QED BY <2>3 DEF t, p
<1>. QED BY <1>5, <1>6

LEMMA SpawnGood ==
  ASSUME NEW w, NEW o, Good(w, o), NEW t, NEW background,
         NEW p \in Pids, SpawnedAs(w.k, t, p, background),
         NEW Q, NEW G, PipesOK(Q), FdsOK(G), Counted(Q, G), SamePipes(w.pipes, Q),
         \A u \in Pids \ {p} : G[u] = w.fds[u],
         NEW v, Is(v, t, Q, G)
  PROVE  Good(v, o) /\ Living(t) = Living(w.k) \cup {p}
<1>. DEFINE s == w.k
<1>0. p # NULL
  BY PidsLemma
<1>1. /\ Inv(t) /\ Family(t) /\ SameWaits(s, t) /\ t.shell_pid = s.shell_pid
      /\ p \in Pids \ Alive(s) /\ Spawned(s, t, p)
  BY <1>0 DEF SpawnedAs
<1>2. /\ WorldOK(w, o) /\ Buried(s, w.fds, o) /\ Calling(s, o) /\ Known(s)
      /\ Inv(s)
  BY DEF Good, WorldOK
<1>3. /\ t.status = [s.status EXCEPT ![p] = "READY"]
      /\ t.parent = [s.parent EXCEPT ![p] = s.current]
  BY <1>1 DEF Spawned
<1>4. s.status \in [Pids -> Statuses] /\ s.parent \in [Pids -> Pids \cup {NULL}]
  BY <1>2 DEF Inv, Core, Queues, Types
<1>5. World(v) /\ v.k = t /\ v.pipes = Q /\ v.fds = G
  BY DEF Is
<1>. HIDE DEF s
<1>6. Living(t) = Living(s) \cup {p}
  BY <1>3, <1>4 DEF Living
<1>7. Queued(t, Q, o)
  <2>. SUFFICES ASSUME NEW i \in PipeIds, NEW u \in Pids, InQueue(Q[i].readers_wait, u)
                PROVE  AtPipe(t, u) /\ o[u].op = "read" /\ o[u].pipe = i
    BY DEF Queued
  <2>1. InQueue(w.pipes[i].readers_wait, u)
    BY DEF SamePipes, SamePipe
  <2>2. AtPipe(s, u) /\ o[u].op = "read" /\ o[u].pipe = i
    BY <1>2, <2>1 DEF WorldOK, Queued, s
  <2>. QED BY <1>1, <2>2 DEF SameWaits, SameWait, OnResource, Resources, AtPipe
<1>8. Buried(t, G, o)
  BY <1>2, <1>6 DEF Buried
<1>9. Calling(t, o)
  BY <1>1, <1>2 DEF Calling
<1>10. Known(t)
  <2>. SUFFICES ASSUME t.shell_pid # NULL
                PROVE  t.shell_pid \in Alive(t) \ {0, 1} /\ t.parent[t.shell_pid] = 1
    BY DEF Known
  <2>1. s.shell_pid \in Alive(s) \ {0, 1} /\ s.parent[s.shell_pid] = 1
    BY <1>1, <1>2 DEF Known
  <2>. QED BY <1>1, <1>3, <1>4, <2>1 DEF Alive
<1>. QED BY <1>1, <1>5, <1>6, <1>7, <1>8, <1>9, <1>10 DEF Good, WorldOK, s

\* A step that only faults leaves the pipes as they are.
LEMMA FaultGood ==
  ASSUME NEW w, NEW o, Good(w, o), NEW v, Is(v, fault(w.k), w.pipes, w.fds)
  PROVE  Good(v, o)
<1>. DEFINE s == w.k
            t == fault(s)
<1>1. Inv(s) /\ Family(s) /\ Known(s)
  BY DEF Good, WorldOK
<1>2. Inv(t) /\ Family(t) /\ SameWaits(s, t)
  BY <1>1, FaultLemma, FamilyFault, FaultWaits DEF Inv
<1>3. Shape(s)
  BY <1>1 DEF Inv, Core, Queues, Types
<1>4. t.status = s.status /\ t.shell_pid = s.shell_pid /\ t.parent = s.parent
  BY ONLY <1>3 DEF fault, Shape, Fields
<1>. HIDE DEF s, t
<1>5. Living(t) = Living(s) /\ Known(t)
  BY <1>1, <1>4 DEF Living, Alive, Known
<1>6. Good(w, o) /\ Is(v, t, w.pipes, w.fds) /\ s = w.k
  BY DEF s, t
<1>7. \A i \in PipeIds, p \in Pids : InQueue(w.pipes[i].readers_wait, p) => AtPipe(t, p)
  BY <1>2, <1>6, SameWaitsQueued
<1>. QED BY <1>2, <1>4, <1>5, <1>6, <1>7, KernelStep

DefaultRow == [fd \in FdNums |-> IF fd <= 2 THEN Terminal ELSE NoFd]

\* What a spawn without a list of descriptors does.
DefaultSpawn(w, v, p, background) ==
  /\ World(v) /\ SpawnedAs(w.k, v.k, p, background) /\ v.pipes = w.pipes
  /\ p = NULL => v.fds = w.fds
  /\ p # NULL => v.fds = [w.fds EXCEPT ![p] = DefaultRow]

LEMMA SpawnDefaultGood ==
  ASSUME NEW w, NEW o, Good(w, o), NEW background
  PROVE  LET v == spawn_default(w, background)
         IN  Good(v, o) /\ DefaultSpawn(w, v, proc_pid_alloc(w.k), background)
<1>. DEFINE t == sys_spawn_process(w.k, background)
            p == proc_pid_alloc(w.k)
            v == spawn_default(w, background)
            G == [w.fds EXCEPT ![p] = DefaultRow]
<1>1. SpawnedAs(w.k, t, p, background)
  <2>1. Inv(w.k) /\ Family(w.k)
    BY DEF Good, WorldOK
  <2>. QED BY <2>1, SpawnKernel
<1>2. World(w) /\ PipesOK(w.pipes) /\ FdsOK(w.fds) /\ Counted(w.pipes, w.fds)
  BY DEF Good, WorldOK
<1>3. v = IF p = NULL THEN [w EXCEPT !.k = t] ELSE [[w EXCEPT !.fds[p] = DefaultRow] EXCEPT !.k = t]
  BY DEF spawn_default, set_default_fds, DefaultRow, FdNums
<1>. HIDE DEF t, p, v
<1>4. CASE p = NULL
  <2>1. v = [w EXCEPT !.k = t]
    BY <1>3, <1>4
  <2>2. Is(v, t, w.pipes, w.fds)
    BY ONLY <1>2, <2>1 DEF Is, World, WorldFields
  <2>3. t = fault(w.k)
    BY <1>1, <1>4, PidsLemma DEF SpawnedAs
  <2>4. Good(v, o)
    BY <2>2, <2>3, FaultGood
  <2>. QED BY <1>1, <1>4, <2>2, <2>4 DEF DefaultSpawn, Is, t, p, v
<1>5. CASE p # NULL
  <2>1. v = [[w EXCEPT !.fds[p] = DefaultRow] EXCEPT !.k = t]
    BY <1>3, <1>5
  <2>2. Is(v, t, w.pipes, G)
    BY ONLY <1>2, <2>1 DEF Is, World, WorldFields
  <2>3. p \in Pids /\ p \notin Alive(w.k)
    BY <1>1, <1>5 DEF SpawnedAs
  <2>4. w.fds[p] = NoFds
    BY <2>3 DEF Good, Buried, Living, Alive
  <2>5. DefaultRow \in [FdNums -> {NoFd, Terminal}]
    BY DEF DefaultRow
  <2>6. FdsOK(G) /\ Counted(w.pipes, G)
    BY <1>2, <2>3, <2>4, <2>5, RowLemma
  <2>7. SamePipes(w.pipes, w.pipes)
    BY DEF SamePipes, SamePipe
  <2>8. \A u \in Pids \ {p} : G[u] = w.fds[u]
    BY <1>2 DEF FdsOK
  <2>. HIDE DEF G
  <2>9. Good(v, o)
    BY <1>1, <1>2, <2>2, <2>3, <2>6, <2>7, <2>8, SpawnGood
  <2>. QED BY <1>1, <1>5, <2>2, <2>9 DEF DefaultSpawn, Is, G, t, p, v
<1>. QED BY <1>4, <1>5

\* What a spawn with a list of descriptors does.
ListSpawn(w, v, p, list, background) ==
  /\ World(v) /\ SpawnedAs(w.k, v.k, p, background)
  /\ p = NULL => v.fds = w.fds /\ v.pipes = w.pipes
  /\ p # NULL => \E m : /\ Inherited(w, m, p, w.k.current, list)
                        /\ v.pipes = m.pipes /\ v.fds = m.fds

LEMMA SpawnWithGood ==
  ASSUME NEW w, NEW o, Good(w, o), w.k.current \in Pids, NEW background,
         NEW list \in Seq(FdNums \cup {-1}), Len(list) <= FD_MAX,
         \E i \in 1..Len(list) : list[i] < 0
  PROVE  LET v == spawn_with(w, list, background)
         IN  Good(v, o) /\ ListSpawn(w, v, proc_pid_alloc(w.k), list, background)
<1>. DEFINE t == sys_spawn_process(w.k, background)
            p == proc_pid_alloc(w.k)
            v == spawn_with(w, list, background)
            m == inherit_fds(w, p, w.k.current, list)
<1>1. SpawnedAs(w.k, t, p, background)
  <2>1. Inv(w.k) /\ Family(w.k)
    BY DEF Good, WorldOK
  <2>. QED BY <2>1, SpawnKernel
<1>2. World(w) /\ PipesOK(w.pipes) /\ FdsOK(w.fds) /\ Counted(w.pipes, w.fds)
  BY DEF Good, WorldOK
<1>3. v = IF p = NULL THEN [w EXCEPT !.k = t] ELSE [m EXCEPT !.k = t]
  BY DEF spawn_with
<1>. HIDE DEF t, p, v
<1>4. CASE p = NULL
  <2>1. v = [w EXCEPT !.k = t]
    BY <1>3, <1>4
  <2>2. Is(v, t, w.pipes, w.fds)
    BY ONLY <1>2, <2>1 DEF Is, World, WorldFields
  <2>3. t = fault(w.k)
    BY <1>1, <1>4, PidsLemma DEF SpawnedAs
  <2>4. Good(v, o)
    BY <2>2, <2>3, FaultGood
  <2>. QED BY <1>1, <1>4, <2>2, <2>4 DEF ListSpawn, Is, t, p, v
<1>5. CASE p # NULL
  <2>3. p \in Pids /\ p \notin Alive(w.k)
    BY <1>1, <1>5 DEF SpawnedAs
  <2>4. w.fds[p] = NoFds
    BY <2>3 DEF Good, Buried, Living, Alive
  <2>5. Inherited(w, m, p, w.k.current, list)
    BY <1>2, <2>3, <2>4, InheritLemma
  <2>1. v = [m EXCEPT !.k = t]
    BY <1>3, <1>5
  <2>. HIDE DEF m
  <2>6. /\ World(m) /\ PipesOK(m.pipes) /\ FdsOK(m.fds) /\ Counted(m.pipes, m.fds)
        /\ SamePipes(w.pipes, m.pipes) /\ \A u \in Pids \ {p} : m.fds[u] = w.fds[u]
    BY <2>5 DEF Inherited
  <2>2. Is(v, t, m.pipes, m.fds)
    BY ONLY <2>1, <2>6 DEF Is, World, WorldFields
  <2>9. Good(v, o)
    BY <1>1, <2>2, <2>3, <2>6, SpawnGood
  <2>10. ListSpawn(w, v, p, list, background)
    BY <1>1, <1>5, <2>2, <2>5 DEF ListSpawn, Is
  <2>. QED BY <2>9, <2>10 DEF t, p, v
<1>. QED BY <1>4, <1>5

\* init remembers the pid of the shell.
LEMMA ShellSetGood ==
  ASSUME NEW w, NEW o, Good(w, o), NEW x \in Pids \cup {NULL},
         x # NULL => x \in Alive(w.k) \ {0, 1} /\ w.k.parent[x] = 1 /\ o[x] = NoIo,
         NEW v, Is(v, [w.k EXCEPT !.shell_pid = x], w.pipes, w.fds)
  PROVE  Good(v, o)
<1>. DEFINE s == w.k
            t == [s EXCEPT !.shell_pid = x]
<1>1. Inv(s) /\ Family(s)
  BY DEF Good, WorldOK
<1>2. Inv(t) /\ Family(t) /\ SameWaits(s, t)
  BY <1>1, ShellLemma, FamilyShell, ShellWaits
<1>3. Shape(s)
  BY <1>1 DEF Inv, Core, Queues, Types
<1>4. /\ t.status = s.status /\ t.shell_pid = x /\ t.parent = s.parent
      /\ t.block_reason = s.block_reason /\ t.waiting_on = s.waiting_on
  BY ONLY <1>3 DEF Shape, Fields
<1>5. World(v) /\ v.k = t /\ v.pipes = w.pipes /\ v.fds = w.fds
  BY DEF Is
<1>. HIDE DEF s, t
<1>6. Living(t) = Living(s) /\ Alive(t) = Alive(s)
  BY <1>4 DEF Living, Alive
<1>7. Known(t) /\ Calling(t, o) /\ Buried(t, w.fds, o)
  BY <1>4, <1>6 DEF Good, Known, Calling, Buried, s
<1>8. Queued(t, w.pipes, o)
  BY <1>4 DEF Good, WorldOK, Queued, AtPipe, s
<1>. QED BY <1>2, <1>5, <1>7, <1>8 DEF Good, WorldOK

-----------------------------------------------------------------------------
(***************************************************************************)
(* Reading and writing.                                                    *)
(***************************************************************************)

\* A process that runs is in no queue.
LEMMA RunningLemma ==
  ASSUME NEW w, NEW o, Good(w, o), w.k.current \in Pids
  PROVE  /\ w.k.status[w.k.current] = "RUNNING" /\ w.k.current \in Living(w.k)
         /\ \A i \in PipeIds : ~ InQueue(w.pipes[i].readers_wait, w.k.current)
<1>1. Core(w.k) /\ Queued(w.k, w.pipes, o)
  BY DEF Good, WorldOK, Inv
<1>2. w.k.status[w.k.current] = "RUNNING"
  BY <1>1 DEF Core
<1>3. w.k.current \in Living(w.k)
  BY <1>2 DEF Living
<1>. QED BY <1>1, <1>2, <1>3 DEF Queued, AtPipe

\* A process that is in no queue enters or leaves a call.
LEMMA IoGood ==
  ASSUME NEW w, NEW o, Good(w, o), NEW c \in Living(w.k) \ {0}, c # w.k.shell_pid,
         \A i \in PipeIds : ~ InQueue(w.pipes[i].readers_wait, c), NEW x \in IoCalls
  PROVE  Good(w, [o EXCEPT ![c] = x])
<1>. DEFINE e == [o EXCEPT ![c] = x]
<1>1. o \in [Pids -> IoCalls] /\ c \in Pids /\ w.k.shell_pid \in Pids \cup {NULL}
  BY DEF Good, WorldOK, Family, Kin, TreeTypes, Calling, Living
<1>2. e[c] = x /\ \A u \in Pids \ {c} : e[u] = o[u]
  BY <1>1
<1>3. e \in [Pids -> IoCalls]
  BY <1>1
<1>. HIDE DEF e
<1>4. Calling(w.k, e)
  BY <1>1, <1>2, <1>3, PidsLemma DEF Good, Calling
<1>5. Buried(w.k, w.fds, e)
  BY <1>2 DEF Good, Buried
<1>6. Queued(w.k, w.pipes, e)
  BY <1>2 DEF Good, WorldOK, Queued
<1>7. Good(w, e)
  BY <1>4, <1>5, <1>6 DEF Good, WorldOK
<1>. QED BY <1>7 DEF e

\* The bytes of a pipe change and nothing else.
LEMMA BytesGood ==
  ASSUME NEW w, NEW o, Good(w, o), NEW i \in PipeIds, NEW y, PipeShape(y), FifoOK(y),
         SameEnds(w.pipes[i], y), NEW v, Is(v, w.k, [w.pipes EXCEPT ![i] = y], w.fds)
  PROVE  Good(v, o) /\ SetAt(w.pipes, v.pipes, i, y)
<1>. DEFINE Q == [w.pipes EXCEPT ![i] = y]
<1>1. PipesOK(w.pipes) /\ Counted(w.pipes, w.fds) /\ Queued(w.k, w.pipes, o)
  BY DEF Good, WorldOK
<1>2. PipeOK(w.pipes[i])
  BY <1>1 DEF PipesOK
<1>3. PipeOK(y)
  BY <1>2 DEF PipeOK, SameEnds
<1>4. SetAt(w.pipes, Q, i, y)
  BY <1>1, <1>3, PipeSet
<1>5. World(v) /\ v.k = w.k /\ v.pipes = Q /\ v.fds = w.fds
  BY DEF Is
<1>. HIDE DEF Q
<1>6. \A j \in PipeIds : /\ Q[j].table = w.pipes[j].table
                         /\ Q[j].readers = w.pipes[j].readers /\ Q[j].writers = w.pipes[j].writers
                         /\ Q[j].readers_wait = w.pipes[j].readers_wait
  BY <1>4 DEF SetAt, SameEnds
<1>7. Counted(Q, w.fds)
  BY <1>1, <1>6, CountedFrame
<1>8. Queued(w.k, Q, o)
  BY <1>1, <1>6 DEF Queued
<1>. QED BY <1>4, <1>5, <1>7, <1>8 DEF Good, WorldOK, SetAt

\* The queue of readers of one pipe is the list q now, and the kernel moved from s to t.
QueueChanged(P, Q, i, q) ==
  /\ PipesOK(Q) /\ Requeued(P[i], Q[i]) /\ Q[i].readers_wait = q
  /\ \A j \in PipeIds \ {i} : Q[j] = P[j]

LEMMA QueueGood ==
  ASSUME NEW P, NEW F, PipesOK(P), Counted(P, F), NEW i \in PipeIds,
         NEW q \in Seq(Pids), NoDuplicates(q)
  PROVE  LET Q == [P EXCEPT ![i].readers_wait = q]
         IN  QueueChanged(P, Q, i, q) /\ Counted(Q, F)
<1>. DEFINE y == [P[i] EXCEPT !.readers_wait = q]
            Q == [P EXCEPT ![i] = y]
<1>1. PipeOK(P[i])
  BY DEF PipesOK
<1>2. /\ PipeOK(y) /\ y.readers_wait = q /\ y.table = P[i].table
      /\ y.readers = P[i].readers /\ y.writers = P[i].writers
      /\ y.ring = P[i].ring /\ y.sent = P[i].sent /\ y.received = P[i].received
  BY <1>1, QueueSet
<1>3. Q = [P EXCEPT ![i].readers_wait = q]
  OBVIOUS
<1>4. SetAt(P, Q, i, y)
  <2>. HIDE DEF y
  <2>. QED BY <1>2, PipeSet
<1>. HIDE DEF Q, y
<1>5. QueueChanged(P, Q, i, q)
  BY <1>2, <1>4 DEF SetAt, QueueChanged, Requeued
<1>6. Counted(Q, F)
  <2>1. \A j \in PipeIds : /\ Q[j].table = P[j].table
                           /\ Q[j].readers = P[j].readers /\ Q[j].writers = P[j].writers
    BY <1>2, <1>4 DEF SetAt
  <2>. QED BY <2>1, CountedFrame
<1>. QED BY <1>3, <1>5, <1>6

\* The current process has queued up at pipe i and sleeps.
Slept(w, v, c, i) ==
  /\ World(v) /\ v.fds = w.fds /\ SameTree(w.k, v.k) /\ Living(v.k) = Living(w.k)
  /\ QueueChanged(w.pipes, v.pipes, i, enqueue(w.pipes[i].readers_wait, c))
  /\ AtPipe(v.k, c) /\ \A u \in Pids \ {c} : SameWait(w.k, v.k, u)

LEMMA WaitOnGood ==
  ASSUME NEW w, NEW o, Good(w, o), NEW i \in PipeIds, NEW c \in Pids \ {0}, c = w.k.current,
         o[c].op = "read", o[c].pipe = i
  PROVE  LET v == wait_on(w, i, "readers_wait", "PIPE_READ")
         IN  Good(v, o) /\ Slept(w, v, c, i)
<1>. DEFINE s == w.k
            t == block(s, c, "PIPE_READ", "resource")
            q == w.pipes[i].readers_wait
            r == enqueue(q, c)
            Q == [w.pipes EXCEPT ![i].readers_wait = r]
            v == wait_on(w, i, "readers_wait", "PIPE_READ")
<1>1. /\ World(w) /\ Inv(s) /\ Family(s) /\ PipesOK(w.pipes) /\ Counted(w.pipes, w.fds)
      /\ Queued(s, w.pipes, o) /\ Buried(s, w.fds, o) /\ Calling(s, o) /\ Known(s) /\ FdsOK(w.fds)
  BY DEF Good, WorldOK
<1>2. /\ s.status[c] = "RUNNING" /\ c \in Living(s)
      /\ \A j \in PipeIds : ~ InQueue(w.pipes[j].readers_wait, c)
  BY RunningLemma
<1>3. c # NULL
  BY PidsLemma
<1>4. Is(v, t, Q, w.fds)
  <2>1. v = [w EXCEPT !.pipes[i].readers_wait = r, !.k = t]
    BY <1>3 DEF wait_on, block_current
  <2>. HIDE DEF r, t
  <2>. QED BY ONLY <1>1, <2>1 DEF Is, World, WorldFields
<1>5. "PIPE_READ" \in BlockReasons /\ "resource" \in WaitingOn /\ "PIPE_READ" # "CHILD"
  BY DEF BlockReasons, WaitingOn
<1>6. Inv(t)
  BY <1>1, <1>5, BlockLemma
<1>7. Family(t)
  <2>1. c \in Living(s) \ {0}
    BY <1>2
  <2>. QED BY <1>1, <1>5, <2>1, FamilyBlock
<1>8. /\ SameTree(s, t) /\ AtPipe(t, c) /\ \A u \in Pids \ {c} : SameStatus(s, t, u)
  <2>1. /\ SameTree(s, t)
        /\ t.status[c] = "BLOCKED" /\ t.block_reason[c] = "PIPE_READ"
        /\ t.waiting_on[c] = "resource"
        /\ \A u \in Pids \ {c} : SameStatus(s, t, u)
    BY <1>1, <1>5, BlockFrame
  <2>. QED BY <2>1 DEF AtPipe
<1>9. /\ r \in Seq(Pids) /\ NoDuplicates(r)
      /\ \A u : InQueue(r, u) <=> InQueue(q, u) \/ u = c
  <2>1. q \in Seq(Pids) /\ NoDuplicates(q) /\ ~ InQueue(q, c) /\ c \in Pids
    BY <1>1, <1>2 DEF PipesOK, PipeOK
  <2>. HIDE DEF q
  <2>2. /\ enqueue(q, c) \in Seq(Pids) /\ enqueue(q, c) # << >>
        /\ \A u : InQueue(enqueue(q, c), u) <=> InQueue(q, u) \/ u = c
        /\ NoDuplicates(q) /\ ~ InQueue(q, c) => NoDuplicates(enqueue(q, c))
    BY ONLY <2>1, EnqueueLemma
  <2>. QED BY <2>1, <2>2, Zenon
<1>10. QueueChanged(w.pipes, Q, i, r) /\ Counted(Q, w.fds)
  <2>. HIDE DEF r
  <2>. QED BY <1>1, <1>9, QueueGood
<1>. HIDE DEF t, r, Q, v
<1>11. s.status \in [Pids -> Statuses] /\ t.status \in [Pids -> Statuses]
  BY <1>1, <1>6 DEF Inv, Core, Queues, Types
<1>12. Living(t) = Living(s) /\ Alive(t) = Alive(s)
  <2>1. \A u \in Pids : (t.status[u] \in {"FREE", "ZOMBIE"} <=> s.status[u] \in {"FREE", "ZOMBIE"})
                        /\ (t.status[u] = "FREE" <=> s.status[u] = "FREE")
    BY <1>2, <1>8, <1>11 DEF SameStatus, Stopped, AtPipe, Statuses
  <2>. QED BY <2>1 DEF Living, Alive
<1>13. \A u \in Pids \ {c} : SameWait(s, t, u)
  BY <1>8, <1>11 DEF SameStatus, SameWait, OnResource, Stopped, Statuses
<1>14. Queued(t, Q, o)
  <2>. SUFFICES ASSUME NEW j \in PipeIds, NEW u \in Pids, InQueue(Q[j].readers_wait, u)
                PROVE  AtPipe(t, u) /\ o[u].op = "read" /\ o[u].pipe = j
    BY DEF Queued
  <2>1. CASE u = c
    <3>1. j = i
      BY <1>2, <1>10, <2>1 DEF QueueChanged
    <3>. QED BY <1>8, <2>1, <3>1
  <2>2. CASE u # c
    <3>1. InQueue(w.pipes[j].readers_wait, u)
      BY <1>9, <1>10, <2>2 DEF QueueChanged
    <3>2. AtPipe(s, u) /\ o[u].op = "read" /\ o[u].pipe = j
      BY <1>1, <3>1 DEF Queued
    <3>. QED BY <1>13, <2>2, <3>2 DEF SameWait, OnResource, Resources, AtPipe
  <2>. QED BY <2>1, <2>2
<1>15. Buried(t, w.fds, o) /\ Calling(t, o) /\ Known(t)
  BY <1>1, <1>8, <1>12 DEF Buried, Calling, Known, SameTree
<1>16. World(v) /\ v.k = t /\ v.pipes = Q /\ v.fds = w.fds
  BY <1>4 DEF Is
<1>17. Good(v, o)
  BY <1>1, <1>6, <1>7, <1>10, <1>14, <1>15, <1>16 DEF Good, WorldOK, QueueChanged
<1>18. Slept(w, v, c, i)
  BY <1>8, <1>10, <1>12, <1>13, <1>16 DEF Slept, r
<1>. QED BY <1>17, <1>18 DEF v

\* At most one process of the queue of pipe i was woken.
WokeOne(w, v, i) ==
  LET q == w.pipes[i].readers_wait
  IN  /\ World(v) /\ v.fds = w.fds /\ SameTree(w.k, v.k) /\ Living(v.k) = Living(w.k)
      /\ \/ q = << >> /\ v = w
         \/ /\ q # << >> /\ InQueue(q, dequeue_value(q))
            /\ QueueChanged(w.pipes, v.pipes, i, dequeue(q))
            /\ v.k.status[dequeue_value(q)] = "READY"
            /\ \A u \in Pids \ {dequeue_value(q)} : Undisturbed(w.k, v.k, u)

LEMMA WakeOneGood ==
  ASSUME NEW w, NEW o, Good(w, o), NEW i \in PipeIds
  PROVE  LET v == wake_one(w, i, "readers_wait")
         IN  Good(v, o) /\ WokeOne(w, v, i)
<1>. DEFINE s == w.k
            q == w.pipes[i].readers_wait
            h == dequeue_value(q)
            t == proc_ready(s, h)
            r == dequeue(q)
            Q == [w.pipes EXCEPT ![i].readers_wait = r]
            v == wake_one(w, i, "readers_wait")
<1>1. /\ World(w) /\ Inv(s) /\ Family(s) /\ PipesOK(w.pipes) /\ Counted(w.pipes, w.fds)
      /\ Queued(s, w.pipes, o) /\ Buried(s, w.fds, o) /\ Calling(s, o) /\ Known(s) /\ FdsOK(w.fds)
  BY DEF Good, WorldOK
<1>2. CASE q = << >>
  <2>1. v = w
    BY <1>2 DEF wake_one
  <2>2. SameTree(w.k, w.k)
    BY DEF SameTree
  <2>. QED BY <1>1, <1>2, <2>1, <2>2 DEF WokeOne
<1>3. CASE q # << >>
  <2>1. Is(v, t, Q, w.fds)
    <3>1. v = [w EXCEPT !.k = t, !.pipes[i].readers_wait = r]
      BY <1>3 DEF wake_one
    <3>. HIDE DEF r, t
    <3>. QED BY ONLY <1>1, <3>1 DEF Is, World, WorldFields
  <2>2. /\ h \in Pids /\ InQueue(q, h) /\ r \in Seq(Pids) /\ NoDuplicates(r)
        /\ \A u : InQueue(r, u) <=> InQueue(q, u) /\ u # h
    <3>1. q \in Seq(Pids) /\ NoDuplicates(q)
      BY <1>1 DEF PipesOK, PipeOK
    <3>. HIDE DEF q
    <3>. QED BY <1>3, <3>1, DequeueLemma
  <2>3. AtPipe(s, h) /\ o[h].pipe = i
    BY <1>1, <2>2 DEF Queued
  <2>4. Inv(t) /\ Family(t)
    <3>. HIDE DEF h
    <3>. QED BY <1>1, <2>2, <2>3, WakeLemma, FamilyWake DEF AtPipe
  <2>5. /\ SameTree(s, t) /\ t.status[h] = "READY"
        /\ \A u \in Pids \ {h} : Undisturbed(s, t, u)
    <3>. HIDE DEF h
    <3>1. Types(s)
      BY <1>1 DEF Inv, Core, Queues
    <3>2. /\ SameTree(s, t)
          /\ t.status = [s.status EXCEPT ![h] = "READY"]
          /\ t.block_reason = [s.block_reason EXCEPT ![h] = "NONE"]
          /\ t.waiting_on = [s.waiting_on EXCEPT ![h] = "ready"]
      BY <2>2, <3>1, ReadyFrame
    <3>. HIDE DEF t
    <3>. QED BY <2>2, <3>1, <3>2 DEF Undisturbed, Types
  <2>6. QueueChanged(w.pipes, Q, i, r) /\ Counted(Q, w.fds)
    <3>. HIDE DEF r
    <3>. QED BY <1>1, <2>2, QueueGood
  <2>. HIDE DEF t, r, Q, v, h
  <2>7. Living(t) = Living(s) /\ Alive(t) = Alive(s)
    BY <2>2, <2>3, <2>5 DEF Living, Alive, Undisturbed, AtPipe
  <2>8. Queued(t, Q, o)
    <3>. SUFFICES ASSUME NEW j \in PipeIds, NEW u \in Pids, InQueue(Q[j].readers_wait, u)
                  PROVE  AtPipe(t, u) /\ o[u].op = "read" /\ o[u].pipe = j
      BY DEF Queued
    <3>1. InQueue(w.pipes[j].readers_wait, u) /\ (j = i => u # h)
      BY <2>2, <2>6 DEF QueueChanged
    <3>2. AtPipe(s, u) /\ o[u].op = "read" /\ o[u].pipe = j
      BY <1>1, <3>1 DEF Queued
    <3>3. u # h
      BY <2>3, <3>1, <3>2
    <3>. QED BY <2>5, <3>2, <3>3 DEF AtPipe, Undisturbed
  <2>9. Buried(t, w.fds, o) /\ Calling(t, o) /\ Known(t)
    BY <1>1, <2>5, <2>7 DEF Buried, Calling, Known, SameTree
  <2>10. World(v) /\ v.k = t /\ v.pipes = Q /\ v.fds = w.fds
    BY <2>1 DEF Is
  <2>11. Good(v, o)
    BY <1>1, <2>4, <2>6, <2>8, <2>9, <2>10 DEF Good, WorldOK, QueueChanged
  <2>12. WokeOne(w, v, i)
    BY <1>3, <2>2, <2>5, <2>6, <2>7, <2>10 DEF WokeOne, r, h
  <2>. QED BY <2>11, <2>12 DEF v
<1>. QED BY <1>2, <1>3

\* pipe_read by the current process c: it sleeps, or gets its end of file, or
\* takes bytes.
ReadBy(w, v, c, i) ==
  LET x == w.pipes[i]
  IN  \/ x.writers > 0 /\ x.sent = x.received /\ Slept(w, v, c, i)
      \/ v = w
      \/ /\ World(v) /\ v.k = w.k /\ v.fds = w.fds
         /\ \E y : SameEnds(x, y) /\ x.sent # x.received /\ SetAt(w.pipes, v.pipes, i, y)

LEMMA ReadGood ==
  ASSUME NEW w, NEW o, Good(w, o), NEW i \in PipeIds, NEW c \in Pids \ {0}, c = w.k.current,
         c # w.k.shell_pid
  PROVE  LET v == pipe_read(w, i)
             a == after_read(w, i)
         IN  /\ Good(v, [o EXCEPT ![c] = a]) /\ ReadBy(w, v, c, i)
             /\ a \in IoCalls /\ (a.op = "read" => a.pipe = i)
             /\ a.op = "read" <=> read_waits(w, i)
<1>. DEFINE x == w.pipes[i]
            v == pipe_read(w, i)
            a == after_read(w, i)
            e == [o EXCEPT ![c] = a]
<1>0. World(w) /\ PipeShape(x) /\ FifoOK(x) /\ x.writers \in Nat /\ x.writers_wait = << >>
  BY DEF Good, WorldOK, PipesOK, PipeOK
<1>1. available(w, i) = x.sent - x.received /\ x.sent \in Nat /\ x.received \in Nat
  BY <1>0, AvailableLemma DEF available, FifoOK
<1>2. /\ c \in Living(w.k) \ {0} /\ \A j \in PipeIds : ~ InQueue(w.pipes[j].readers_wait, c)
  BY RunningLemma
<1>3. a \in IoCalls /\ (a.op = "read" <=> read_waits(w, i)) /\ (a.op = "read" => a.pipe = i)
  BY DEF after_read, IoCalls, Eof, NoIo
<1>4. e[c] = a
  BY DEF Good, Calling
<1>5. Good(w, e)
  <2>. HIDE DEF a
  <2>. QED BY <1>2, <1>3, IoGood
<1>. HIDE DEF e, a
<1>6. CASE read_waits(w, i)
  <2>1. v = wait_on(w, i, "readers_wait", "PIPE_READ")
    BY <1>6 DEF pipe_read
  <2>2. x.writers > 0 /\ x.sent = x.received
    BY <1>1, <1>6 DEF read_waits
  <2>3. e[c].op = "read" /\ e[c].pipe = i
    BY <1>3, <1>4, <1>6
  <2>4. Good(v, e) /\ Slept(w, v, c, i)
    BY <1>5, <2>1, <2>3, WaitOnGood
  <2>. HIDE DEF v
  <2>5. ReadBy(w, v, c, i)
    BY <2>2, <2>4 DEF ReadBy
  <2>. QED BY <1>3, <2>4, <2>5 DEF v, e, a
<1>7. CASE ~ read_waits(w, i) /\ available(w, i) = 0
  <2>1. v = w
    BY <1>7 DEF pipe_read
  <2>. HIDE DEF v
  <2>2. ReadBy(w, v, c, i)
    BY <2>1 DEF ReadBy
  <2>. QED BY <1>3, <1>5, <2>1, <2>2 DEF v, e, a
<1>8. CASE ~ read_waits(w, i) /\ available(w, i) # 0
  <2>. DEFINE y == take_bytes(x, ReadSize)
              u == [w EXCEPT !.pipes[i] = y]
  <2>1. v = wake_one(u, i, "writers_wait")
    BY <1>8 DEF pipe_read
  <2>2. PipeShape(y) /\ FifoOK(y) /\ SameEnds(x, y)
    BY <1>0, PipeAssumption, TakeLemma
  <2>. HIDE DEF y
  <2>3. Is(u, w.k, [w.pipes EXCEPT ![i] = y], w.fds)
    BY ONLY <1>0 DEF Is, World, WorldFields
  <2>. HIDE DEF u
  <2>4. Good(u, e) /\ SetAt(w.pipes, u.pipes, i, y)
    BY <1>5, <2>2, <2>3, BytesGood
  <2>5. v = u
    <3>1. u.pipes[i].writers_wait = << >>
      BY <1>0, <2>2, <2>4 DEF SetAt, SameEnds
    <3>. QED BY <2>1, <3>1 DEF wake_one
  <2>. HIDE DEF v
  <2>6. ReadBy(w, v, c, i)
    BY <1>1, <1>8, <2>2, <2>3, <2>4, <2>5 DEF ReadBy, Is
  <2>. QED BY <1>3, <2>4, <2>5, <2>6 DEF v, e, a
<1>. QED BY <1>6, <1>7, <1>8

\* pipe_write never waits: bytes are added, and one reader is woken.
WrittenBy(w, v, i) ==
  \E u, y : /\ World(u) /\ u.k = w.k /\ u.fds = w.fds
            /\ SameEnds(w.pipes[i], y) /\ SetAt(w.pipes, u.pipes, i, y)
            /\ WokeOne(u, v, i)

LEMMA WriteGood ==
  ASSUME NEW w, NEW o, Good(w, o), NEW i \in PipeIds, NEW c \in Pids \ {0}, c = w.k.current,
         c # w.k.shell_pid, NEW n \in Nat, w.pipes[i].sent + n <= MaxBytes
  PROVE  LET v == pipe_write(w, i, n)
         IN  /\ Good(v, [o EXCEPT ![c] = after_write(w, i, n)]) /\ WrittenBy(w, v, i)
             /\ after_write(w, i, n) = NoIo
<1>. DEFINE x == w.pipes[i]
            v == pipe_write(w, i, n)
            e == [o EXCEPT ![c] = NoIo]
            y == put_bytes(x, n)
            u == [w EXCEPT !.pipes[i] = y]
<1>0. World(w) /\ PipeShape(x) /\ FifoOK(x)
  BY DEF Good, WorldOK, PipesOK, PipeOK
<1>1. ~ available(w, i) >= PIPE_BUFFER_SIZE
  <2>1. available(w, i) \in 0..(PIPE_BUFFER_SIZE - 1)
    BY <1>0, AvailableLemma DEF available
  <2>. QED BY <2>1, PipeAssumption
<1>2. /\ c \in Living(w.k) \ {0} /\ \A j \in PipeIds : ~ InQueue(w.pipes[j].readers_wait, c)
  BY RunningLemma
<1>3. after_write(w, i, n) = NoIo
  BY <1>1 DEF after_write, write_waits
<1>5. Good(w, e)
  <2>1. NoIo \in IoCalls
    BY DEF IoCalls
  <2>. QED BY <1>2, <2>1, IoGood
<1>6. v = wake_one(u, i, "readers_wait")
  BY <1>1 DEF pipe_write, write_waits
<1>7. PipeShape(y) /\ FifoOK(y) /\ SameEnds(x, y)
  BY <1>0, PutLemma
<1>. HIDE DEF e, y
<1>8. Is(u, w.k, [w.pipes EXCEPT ![i] = y], w.fds)
  BY ONLY <1>0 DEF Is, World, WorldFields
<1>. HIDE DEF u
<1>9. Good(u, e) /\ SetAt(w.pipes, u.pipes, i, y)
  BY <1>5, <1>7, <1>8, BytesGood
<1>10. Good(v, e) /\ WokeOne(u, v, i)
  BY <1>6, <1>9, WakeOneGood
<1>. HIDE DEF v
<1>11. WrittenBy(w, v, i)
  BY <1>7, <1>8, <1>9, <1>10 DEF WrittenBy, Is
<1>. QED BY <1>3, <1>10, <1>11 DEF v, e

-----------------------------------------------------------------------------
(***************************************************************************)
(* The calls of the kernel that concern no pipe.                           *)
(***************************************************************************)

\* What OnlySwitched leaves of the sets of processes.
LEMMA SwitchedLiving ==
  ASSUME NEW s, NEW t, Types(s), OnlySwitched(s, t)
  PROVE  Living(t) = Living(s) /\ Alive(t) = Alive(s)
<1>1. \A u \in Pids : /\ t.status[u] \in {"FREE", "ZOMBIE"} <=> s.status[u] \in {"FREE", "ZOMBIE"}
                      /\ t.status[u] = "FREE" <=> s.status[u] = "FREE"
  BY DEF OnlySwitched, SameStatus, Stopped, Types, Statuses
<1>. QED BY <1>1 DEF Living, Alive

LEMMA SwitchGood ==
  ASSUME NEW w, NEW o, Good(w, o), NEW t, t = timer_interrupt(w.k),
         NEW v, Is(v, t, w.pipes, w.fds)
  PROVE  /\ Good(v, o) /\ OnlySwitched(w.k, t)
         /\ Living(t) = Living(w.k) /\ Alive(t) = Alive(w.k)
<1>. DEFINE s == w.k
<1>1. Inv(s) /\ Family(s) /\ Types(s) /\ Known(s)
  BY DEF Good, WorldOK, Inv, Core, Queues
<1>2. Switching(s)
  BY <1>1, InvSwitching
<1>3. Inv(t) /\ OnlySwitched(s, t)
  BY <1>2, TimerLemma, TimerFrame
<1>4. Family(t) /\ SameWaits(s, t) /\ Living(t) = Living(s) /\ Alive(t) = Alive(s)
  BY <1>1, <1>3, FamilySwitch, SwitchWaits, SwitchedLiving
<1>5. Known(t) /\ t.shell_pid = s.shell_pid
  BY <1>1, <1>3, <1>4 DEF Known, OnlySwitched, SameTree
<1>6. \A i \in PipeIds, p \in Pids : InQueue(w.pipes[i].readers_wait, p) => AtPipe(t, p)
  BY <1>4, SameWaitsQueued
<1>7. Good(v, o)
  BY <1>3, <1>4, <1>5, <1>6, KernelStep
<1>. QED BY <1>3, <1>4, <1>7

\* wait_pid and its later passes, by a process that is not init ...
LEMMA WaitGood ==
  ASSUME NEW w, NEW o, Good(w, o), NEW c \in Pids \ {0, 1}, c = w.k.current,
         NEW t, NEW pid \in Pids \cup {WAIT_ANY},
         \/ t = wait_pid(w.k, pid) /\ w.k.waitpid[c] = NoWait
         \/ t = wait_pass(w.k) /\ w.k.waitpid[c] = pid,
         NEW v, Is(v, t, w.pipes, w.fds)
  PROVE  /\ Good(v, o) /\ SameWaits(w.k, t) /\ Waited(w.k, t, c, pid)
<1>. DEFINE s == w.k
<1>1. Inv(s) /\ Family(s) /\ Known(s) /\ s.current \in Pids \ {0}
  BY DEF Good, WorldOK
<1>2. Inv(t) /\ Family(t) /\ SameWaits(s, t) /\ Waited(s, t, c, pid)
  <2>1. CASE t = wait_pid(s, pid) /\ s.waitpid[c] = NoWait
    BY <1>1, <2>1, WaitPidLemma, FamilyWaitPid, WaitPidWaits, WaitPidFrame
  <2>2. CASE t = wait_pass(s) /\ s.waitpid[c] = pid
    BY <1>1, <2>2, WaitPassLemma, FamilyWaitPass, WaitPassWaits
  <2>. QED BY <2>1, <2>2
<1>. HIDE DEF s
<1>3. Known(t) /\ t.shell_pid = s.shell_pid /\ Living(t) = Living(s)
  BY <1>1, <1>2 DEF Known, Waited
<1>4. \A i \in PipeIds, p \in Pids : InQueue(w.pipes[i].readers_wait, p) => AtPipe(t, p)
  BY <1>2, SameWaitsQueued DEF s
<1>5. Good(v, o)
  BY <1>2, <1>3, <1>4, KernelStep DEF s
<1>. QED BY <1>2, <1>5 DEF s

\* ... and by init, which forgets the shell when it is gone.
LEMMA InitWaitGood ==
  ASSUME NEW w, NEW o, Good(w, o), w.k.current = 1,
         NEW u, NEW pid \in Pids \cup {WAIT_ANY},
         \/ u = wait_pid(w.k, pid) /\ w.k.waitpid[1] = NoWait
         \/ u = wait_pass(w.k) /\ w.k.waitpid[1] = pid,
         NEW t, t = shell_gone(u), NEW v, Is(v, t, w.pipes, w.fds)
  PROVE  /\ Good(v, o) /\ SameWaits(w.k, t) /\ Waited(w.k, u, 1, pid)
         /\ SameScheduler(u, t) /\ t.mode = u.mode /\ t.foreground = u.foreground
         /\ t.parent = u.parent /\ t.waitpid = u.waitpid
         /\ t.shell_pid \in {NULL, u.shell_pid}
         /\ t.shell_pid = NULL => u.shell_pid \notin Living(u)
<1>. DEFINE s == w.k
<1>0. 1 \in Pids \ {0} /\ NULL \notin Pids
  BY PidsLemma
<1>1. Inv(s) /\ Family(s) /\ Known(s) /\ s.current \in Pids \ {0}
  BY <1>0 DEF Good, WorldOK
<1>2. Inv(u) /\ Family(u) /\ SameWaits(s, u) /\ Waited(s, u, 1, pid)
  <2>1. CASE u = wait_pid(s, pid) /\ s.waitpid[1] = NoWait
    BY <1>1, <2>1, WaitPidLemma, FamilyWaitPid, WaitPidWaits, WaitPidFrame
  <2>2. CASE u = wait_pass(s) /\ s.waitpid[1] = pid
    BY <1>1, <2>2, WaitPassLemma, FamilyWaitPass, WaitPassWaits
  <2>. QED BY <2>1, <2>2
<1>. HIDE DEF s
<1>3. Inv(t) /\ Family(t) /\ SameWaits(u, t)
  BY <1>0, <1>2, ShellLemma, FamilyShell, ShellWaits
<1>4. /\ SameScheduler(u, t) /\ t.mode = u.mode /\ t.foreground = u.foreground
      /\ t.parent = u.parent /\ t.waitpid = u.waitpid /\ t.children = u.children
      /\ \/ t = u
         \/ t.shell_pid = NULL /\ u.waitpid[1] = NoWait /\ ~ InQueue(u.children[1], u.shell_pid)
      /\ t = u => u.waitpid[1] # NoWait \/ InQueue(u.children[1], u.shell_pid) \/ u.shell_pid = NULL
  <2>1. Shape(u) /\ u.parent \in [Pids -> Pids \cup {NULL}] /\ u.foreground \in Pids \cup {NULL}
    BY <1>2 DEF Inv, Core, Queues, Types
  <2>. DEFINE b == [u EXCEPT !.shell_pid = NULL]
  <2>2. /\ Shape(b) /\ b.shell_pid = NULL
        /\ b.status = u.status /\ b.ready = u.ready /\ b.current = u.current
        /\ b.block_reason = u.block_reason /\ b.waiting_on = u.waiting_on
        /\ b.has_quantum = u.has_quantum /\ b.priority = u.priority
        /\ b.blocked = u.blocked /\ b.sleepers = u.sleepers /\ b.machine = u.machine
        /\ b.parent = u.parent /\ b.foreground = u.foreground
        /\ b.mode = u.mode /\ b.waitpid = u.waitpid /\ b.children = u.children
    BY ONLY <2>1 DEF Shape, Fields
  <2>3. t = IF u.waitpid[1] = NoWait /\ ~ InQueue(u.children[1], u.shell_pid) THEN b ELSE u
    BY DEF shell_gone
  <2>. HIDE DEF b
  <2>. QED BY <2>1, <2>2, <2>3 DEF SameScheduler
<1>5. Living(t) = Living(s) /\ t.shell_pid \in {NULL, s.shell_pid}
  BY <1>2, <1>4 DEF Waited, SameScheduler, Living
<1>6. Known(t)
  <2>. SUFFICES ASSUME t.shell_pid # NULL
                PROVE  t.shell_pid \in Alive(t) \ {0, 1} /\ t.parent[t.shell_pid] = 1
    BY DEF Known
  <2>1. t = u /\ t.shell_pid = s.shell_pid
    BY <1>2, <1>4 DEF Waited
  <2>2. s.shell_pid \in Alive(s) \ {0, 1} /\ s.parent[s.shell_pid] = 1 /\ s.shell_pid \in Pids
    BY <1>1, <2>1 DEF Known, Alive
  <2>3. s.shell_pid \in Alive(u)
    <3>1. CASE u.waitpid[1] # NoWait
      BY <1>2, <2>2, <3>1 DEF Waited
    <3>2. CASE InQueue(u.children[1], u.shell_pid)
      BY <1>2, <2>1, <2>2, <3>2 DEF Family, Kin, Tree, Root
    <3>. QED BY <1>4, <2>1, <3>1, <3>2
  <2>. QED BY <1>2, <2>1, <2>2, <2>3 DEF Waited
<1>7. SameWaits(s, t)
  BY <1>2, <1>3 DEF SameWaits, SameWait, OnResource
<1>8. \A i \in PipeIds, p \in Pids : InQueue(w.pipes[i].readers_wait, p) => AtPipe(t, p)
  BY <1>7, SameWaitsQueued DEF s
<1>9. Good(v, o)
  BY <1>3, <1>5, <1>6, <1>8, KernelStep DEF s
<1>10. t.shell_pid = NULL => u.shell_pid \notin Living(u)
  <2>. SUFFICES ASSUME t.shell_pid = NULL, u.shell_pid \in Living(u) PROVE FALSE
    OBVIOUS
  <2>1. u.shell_pid \in Pids /\ u.shell_pid # NULL /\ u.shell_pid = s.shell_pid
        /\ u.shell_pid \in Alive(u)
    BY <1>0, <1>2 DEF Living, Waited, Alive
  <2>2. u.parent[u.shell_pid] = 1
    BY <1>1, <1>2, <2>1 DEF Known, Waited
  <2>3. InQueue(u.children[1], u.shell_pid)
    BY <1>2, <2>1, <2>2 DEF Family, Kin, Tree, Root
  <2>. QED BY <1>4, <2>1, <2>3
<1>. QED BY <1>2, <1>4, <1>7, <1>9, <1>10 DEF s

\* get_input puts the shell to sleep at the keyboard ...
LEMMA PromptGood ==
  ASSUME NEW w, NEW o, Good(w, o), NEW c \in Pids \ {0}, c = w.k.current,
         NEW t, t = block_current(w.k, "TERMINAL", "resource"),
         NEW v, Is(v, t, w.pipes, w.fds)
  PROVE  /\ Good(v, o) /\ SameTree(w.k, t) /\ Living(t) = Living(w.k) /\ Alive(t) = Alive(w.k)
         /\ \A u \in Pids \ {c} : SameWait(w.k, t, u)
         /\ t.status[c] = "BLOCKED" /\ t.block_reason[c] = "TERMINAL"
<1>. DEFINE s == w.k
<1>1. Inv(s) /\ Family(s) /\ Known(s)
  BY DEF Good, WorldOK
<1>2. /\ s.status[c] = "RUNNING" /\ c \in Living(s) \ {0}
      /\ \A j \in PipeIds : ~ InQueue(w.pipes[j].readers_wait, c)
  BY RunningLemma
<1>3. c # NULL /\ "TERMINAL" \in BlockReasons /\ "resource" \in WaitingOn /\ "TERMINAL" # "CHILD"
  BY PidsLemma DEF BlockReasons, WaitingOn
<1>4. t = block(s, c, "TERMINAL", "resource")
  BY <1>3 DEF block_current
<1>5. Inv(t)
  BY <1>1, <1>3, <1>4, BlockLemma
<1>6. Family(t)
  BY <1>1, <1>2, <1>3, <1>4, FamilyBlock
<1>7. /\ SameTree(s, t) /\ t.status[c] = "BLOCKED" /\ t.block_reason[c] = "TERMINAL"
      /\ \A u \in Pids \ {c} : SameStatus(s, t, u)
  BY <1>1, <1>3, <1>4, BlockFrame
<1>8. s.status \in [Pids -> Statuses] /\ t.status \in [Pids -> Statuses]
  BY <1>1, <1>5 DEF Inv, Core, Queues, Types
<1>. HIDE DEF s
<1>9. Living(t) = Living(s) /\ Alive(t) = Alive(s)
  <2>1. \A u \in Pids : (t.status[u] \in {"FREE", "ZOMBIE"} <=> s.status[u] \in {"FREE", "ZOMBIE"})
                        /\ (t.status[u] = "FREE" <=> s.status[u] = "FREE")
    BY <1>2, <1>7, <1>8 DEF SameStatus, Stopped, Statuses
  <2>. QED BY <2>1 DEF Living, Alive
<1>10. \A u \in Pids \ {c} : SameWait(s, t, u)
  BY <1>7, <1>8 DEF SameStatus, SameWait, OnResource, Stopped, Statuses
<1>11. \A i \in PipeIds, p \in Pids : InQueue(w.pipes[i].readers_wait, p) => AtPipe(t, p)
  <2>. SUFFICES ASSUME NEW i \in PipeIds, NEW p \in Pids, InQueue(w.pipes[i].readers_wait, p)
                PROVE  AtPipe(t, p)
    OBVIOUS
  <2>1. AtPipe(s, p) /\ p # c
    BY <1>2 DEF Good, WorldOK, Queued, s
  <2>. QED BY <1>10, <2>1 DEF SameWait, AtPipe, OnResource, Resources
<1>12. Known(t) /\ t.shell_pid = s.shell_pid
  BY <1>1, <1>7, <1>9 DEF Known, SameTree
<1>13. Good(v, o)
  BY <1>5, <1>6, <1>9, <1>11, <1>12, KernelStep DEF s
<1>. QED BY <1>7, <1>9, <1>10, <1>13 DEF s

\* ... and the end of the line wakes it.
LEMMA EnterGood ==
  ASSUME NEW w, NEW o, Good(w, o), NEW c \in Pids, c = w.k.shell_pid,
         w.k.status[c] = "BLOCKED", NEW t, t = proc_ready(w.k, c),
         NEW v, Is(v, t, w.pipes, w.fds)
  PROVE  /\ Good(v, o) /\ SameTree(w.k, t) /\ Living(t) = Living(w.k) /\ Alive(t) = Alive(w.k)
         /\ \A u \in Pids \ {c} : Undisturbed(w.k, t, u)
         /\ t.status[c] = "READY"
<1>. DEFINE s == w.k
<1>1. Inv(s) /\ Family(s) /\ Known(s) /\ Types(s) /\ Calling(s, o)
  BY DEF Good, WorldOK, Inv, Core, Queues
<1>2. Inv(t) /\ Family(t)
  BY <1>1, WakeLemma, FamilyWake
<1>3. /\ SameTree(s, t)
      /\ t.status = [s.status EXCEPT ![c] = "READY"]
      /\ t.block_reason = [s.block_reason EXCEPT ![c] = "NONE"]
      /\ t.waiting_on = [s.waiting_on EXCEPT ![c] = "ready"]
  BY <1>1, ReadyFrame
<1>. HIDE DEF s
<1>4. t.status[c] = "READY" /\ \A u \in Pids \ {c} : Undisturbed(s, t, u)
  BY <1>1, <1>3 DEF Undisturbed, Types
<1>5. Living(t) = Living(s) /\ Alive(t) = Alive(s)
  BY <1>4 DEF Living, Alive, Undisturbed, s
<1>6. Known(t) /\ t.shell_pid = s.shell_pid
  BY <1>1, <1>3, <1>5 DEF Known, SameTree
<1>7. o[c] = NoIo
  BY <1>1, PidsLemma DEF Calling, s
<1>8. \A i \in PipeIds, p \in Pids : InQueue(w.pipes[i].readers_wait, p) => AtPipe(t, p)
  <2>. SUFFICES ASSUME NEW i \in PipeIds, NEW p \in Pids, InQueue(w.pipes[i].readers_wait, p)
                PROVE  AtPipe(t, p)
    OBVIOUS
  <2>1. AtPipe(s, p) /\ o[p].op = "read"
    BY DEF Good, WorldOK, Queued, s
  <2>2. p # c
    BY <1>7, <2>1 DEF NoIo
  <2>. QED BY <1>4, <2>1, <2>2 DEF AtPipe, Undisturbed
<1>9. Good(v, o)
  BY <1>2, <1>5, <1>6, <1>8, KernelStep DEF s
<1>. QED BY <1>3, <1>4, <1>5, <1>9 DEF s

-----------------------------------------------------------------------------
(***************************************************************************)
(* The invariant of the pipes, action by action.                           *)
(***************************************************************************)

ShellPcs ==
  {"prompt", "reading", "loop", "fg", "bg", "create", "open_read", "open_write",
   "spawn_left", "spawn_right", "close_write", "close_read", "wait_left",
   "wait_right", "pipe_close"}

ShellRecords ==
  [pc : ShellPcs, command : Commands \cup {"none"},
   read_fd : FdNums \cup {-1}, write_fd : FdNums \cup {-1},
   left : Pids \cup {NULL}, right : Pids \cup {NULL}]

\* The inductive invariant of every sequence of commands.
PipeInv == Good(world, io) /\ shell \in ShellRecords

LEMMA WorldLemma ==
  /\ World(world) /\ world.k = k /\ world.pipes = pipes /\ world.fds = fds
  /\ World(world') /\ world'.k = k' /\ world'.pipes = pipes' /\ world'.fds = fds'
  BY DEF world, World, WorldFields

LEMMA BecomesLemma ==
  ASSUME NEW x, World(x), Becomes(x)
  PROVE  world' = x
<1>1. k' = x.k /\ pipes' = x.pipes /\ fds' = x.fds
  BY DEF Becomes
<1>. QED BY <1>1 DEF world, World, WorldFields

\* A step of the kernel that touches no pipe.
LEMMA SamePipesLemma ==
  ASSUME UNCHANGED <<pipes, fds>>
  PROVE  Is(world', k', world.pipes, world.fds)
  BY WorldLemma DEF Is

\* The process that makes a call of the shell.
LEMMA ShellRuns ==
  ASSUME PipeInv, NEW pc, ShellAt(pc)
  PROVE  /\ me \in Living(k) \ {0, 1} /\ me \in Pids \ {0, 1} /\ me \in Pids \ {0}
         /\ me # NULL /\ k.current = me /\ shell.pc = pc
         /\ k.status[me] = "RUNNING" /\ k.waitpid[me] = NoWait /\ k.machine = "up"
         /\ k.parent[me] = 1 /\ io[me] = NoIo
<1>1. k.current = me /\ me # NULL /\ shell.pc = pc /\ k.machine = "up" /\ k.waitpid[me] = NoWait
  BY DEF ShellAt, PipeUserMode, UserMode
<1>2. Good(world, io) /\ world.k = k
  BY WorldLemma DEF PipeInv
<1>3. me \in Alive(k) \ {0, 1} /\ k.parent[me] = 1 /\ io[me] = NoIo /\ me \in Pids
  BY <1>1, <1>2 DEF Good, Known, Calling, me, Alive
<1>4. k.status[me] = "RUNNING" /\ me \in Living(k)
  BY <1>1, <1>2, <1>3, RunningLemma
<1>. QED BY <1>1, <1>3, <1>4

LEMMA GoesToLemma ==
  ASSUME shell \in ShellRecords, NEW pc \in ShellPcs, GoesTo(pc)
  PROVE  shell' \in ShellRecords
  BY DEF GoesTo, ShellRecords

LEMMA PromptStep ==
  ASSUME PipeInv, Prompt
  PROVE  PipeInv'
<1>1. /\ me \in Pids \ {0} /\ k.current = me /\ Good(world, io) /\ world.k = k
      /\ UNCHANGED <<pipes, fds, io>>
  BY ShellRuns, WorldLemma DEF Prompt, PipeInv
<1>2. Is(world', k', world.pipes, world.fds)
  BY <1>1, SamePipesLemma
<1>3. CASE k.foreground = me
  <2>1. k' = block_current(k, "TERMINAL", "resource") /\ GoesTo("reading")
    BY <1>3 DEF Prompt
  <2>2. Good(world', io)
    BY <1>1, <1>2, <2>1, PromptGood
  <2>3. shell' \in ShellRecords
    BY <2>1, GoesToLemma DEF PipeInv, ShellPcs
  <2>. QED BY <1>1, <2>2, <2>3 DEF PipeInv
<1>4. CASE k.foreground # me
  <2>1. k' = k /\ GoesTo("loop")
    BY <1>4 DEF Prompt
  <2>2. world' = world
    BY <1>1, <2>1 DEF world
  <2>3. shell' \in ShellRecords
    BY <2>1, GoesToLemma DEF PipeInv, ShellPcs
  <2>. QED BY <1>1, <2>2, <2>3 DEF PipeInv
<1>. QED BY <1>3, <1>4

LEMMA EnterStep ==
  ASSUME PipeInv, Enter
  PROVE  PipeInv'
<1>1. /\ me # NULL /\ k.status[me] = "BLOCKED" /\ k' = proc_ready(k, me)
      /\ UNCHANGED <<pipes, fds, io>>
      /\ \E c \in Commands :
           shell' = [shell EXCEPT !.command = c,
                       !.pc = IF c \in {"fg", "bg"} THEN c ELSE "create"]
  BY DEF Enter
<1>2. Good(world, io) /\ world.k = k /\ me = k.shell_pid /\ me \in Pids
  <2>1. Good(world, io) /\ world.k = k
    BY WorldLemma DEF PipeInv
  <2>. QED BY <1>1, <2>1 DEF Good, Known, Alive, me
<1>3. Is(world', k', world.pipes, world.fds)
  BY <1>1, SamePipesLemma
<1>4. Good(world', io)
  BY <1>1, <1>2, <1>3, EnterGood
<1>5. shell' \in ShellRecords
  <2>1. PICK c \in Commands :
           shell' = [shell EXCEPT !.command = c,
                       !.pc = IF c \in {"fg", "bg"} THEN c ELSE "create"]
    BY <1>1
  <2>2. (IF c \in {"fg", "bg"} THEN c ELSE "create") \in ShellPcs
    BY DEF ShellPcs
  <2>. DEFINE x == IF c \in {"fg", "bg"} THEN c ELSE "create"
  <2>3. shell' = [shell EXCEPT !.command = c, !.pc = x] /\ x \in ShellPcs
    BY <2>1, <2>2
  <2>. HIDE DEF x
  <2>. QED BY <2>3 DEF ShellRecords, PipeInv
<1>. QED BY <1>1, <1>4, <1>5 DEF PipeInv

\* The pid of a new process, or NULL.
LEMMA PidAlloc ==
  ASSUME PipeInv
  PROVE  proc_pid_alloc(k) \in Pids \cup {NULL}
<1>1. Inv(k) /\ Family(k)
  BY WorldLemma DEF PipeInv, Good, WorldOK
<1>2. SpawnedAs(k, sys_spawn_process(k, TRUE), proc_pid_alloc(k), TRUE)
  BY <1>1, SpawnKernel
<1>. QED BY <1>2 DEF SpawnedAs

LEMMA RunStep ==
  ASSUME PipeInv, RunForeground \/ RunBackground
  PROVE  PipeInv'
<1>1. Good(world, io) /\ world.k = k /\ proc_pid_alloc(k) \in Pids \cup {NULL}
  BY PidAlloc, WorldLemma DEF PipeInv
<1>2. PICK background : Becomes(spawn_default(world, background)) /\ UNCHANGED io
  BY DEF RunForeground, RunBackground
<1>3. Good(spawn_default(world, background), io)
  BY <1>1, SpawnDefaultGood
<1>4. Good(world', io')
  <2>1. World(spawn_default(world, background))
    BY <1>3 DEF Good, WorldOK
  <2>. QED BY <1>2, <1>3, <2>1, BecomesLemma
<1>5. shell' \in ShellRecords
  <2>1. CASE RunForeground
    BY <1>1, <2>1 DEF RunForeground, ShellRecords, ShellPcs, PipeInv
  <2>2. CASE RunBackground
    BY <2>2, GoesToLemma DEF RunBackground, ShellPcs, PipeInv
  <2>. QED BY <2>1, <2>2
<1>. QED BY <1>4, <1>5 DEF PipeInv

LEMMA CreateStep ==
  ASSUME PipeInv, Create
  PROVE  PipeInv'
<1>1. Good(create_pipe(world), io)
  BY CreateGood DEF PipeInv
<1>2. World(create_pipe(world))
  BY <1>1 DEF Good, WorldOK
<1>3. Good(world', io')
  BY <1>1, <1>2, BecomesLemma DEF Create
<1>. QED BY <1>3, GoesToLemma DEF Create, ShellPcs, PipeInv

LEMMA OpenStep ==
  ASSUME PipeInv, OpenRead \/ OpenWrite
  PROVE  PipeInv'
<1>1. Good(world, io) /\ world.k = k /\ me \in Living(k)
  BY ShellRuns, WorldLemma DEF PipeInv, OpenRead, OpenWrite
<1>2. PICK end \in Ends : Becomes(sys_pipe_open(world, me, end)) /\ UNCHANGED io
  BY DEF OpenRead, OpenWrite, Ends
<1>3. /\ Good(sys_pipe_open(world, me, end), io)
      /\ opened_fd(world, me) \in FdNums \cup {-1}
  BY <1>1, OpenGood
<1>4. Good(world', io')
  <2>1. World(sys_pipe_open(world, me, end))
    BY <1>3 DEF Good, WorldOK
  <2>. QED BY <1>2, <1>3, <2>1, BecomesLemma
<1>5. shell' \in ShellRecords
  <2>1. CASE OpenRead
    BY <1>3, <2>1 DEF OpenRead, ShellRecords, ShellPcs, PipeInv
  <2>2. CASE OpenWrite
    BY <1>3, <2>2 DEF OpenWrite, ShellRecords, ShellPcs, PipeInv
  <2>. QED BY <2>1, <2>2
<1>. QED BY <1>4, <1>5 DEF PipeInv

\* The lists of descriptors that the shell passes.
LEMMA ListLemma ==
  ASSUME NEW a \in FdNums \cup {-1}, NEW b \in FdNums \cup {-1}
  PROVE  LET list == <<a, b, -1>>
         IN  /\ list \in Seq(FdNums \cup {-1}) /\ Len(list) = 3 /\ Len(list) <= FD_MAX
             /\ list[1] = a /\ list[2] = b /\ list[3] = -1
             /\ \E i \in 1..Len(list) : list[i] < 0
<1>. DEFINE list == <<a, b, -1>>
<1>1. list \in Seq(FdNums \cup {-1}) /\ Len(list) = 3 /\ list[1] = a /\ list[2] = b /\ list[3] = -1
  OBVIOUS
<1>2. 3 <= FD_MAX
  BY PipeAssumption
<1>. HIDE DEF list
<1>3. \E i \in 1..Len(list) : list[i] < 0
  <2>1. 3 \in 1..Len(list) /\ list[3] < 0
    BY <1>1
  <2>. QED BY <2>1
<1>. QED BY <1>1, <1>2, <1>3 DEF list

LEMMA SpawnStep ==
  ASSUME PipeInv, SpawnLeft \/ SpawnRight
  PROVE  PipeInv'
<1>1. /\ Good(world, io) /\ world.k = k /\ me \in Pids /\ k.current = me
      /\ proc_pid_alloc(k) \in Pids \cup {NULL} /\ UNCHANGED io
  BY ShellRuns, PidAlloc, WorldLemma DEF PipeInv, SpawnLeft, SpawnRight
<1>2. CASE UNCHANGED <<k, pipes, fds>> /\ GoesTo("prompt")
  <2>1. world' = world
    BY <1>2 DEF world
  <2>. QED BY <1>1, <1>2, <2>1, GoesToLemma DEF PipeInv, ShellPcs
<1>3. ASSUME NEW list, NEW background, Becomes(spawn_with(world, list, background)),
             \E a, b \in FdNums \cup {-1} : list = <<a, b, -1>>
      PROVE  Good(world', io')
  <2>1. /\ list \in Seq(FdNums \cup {-1}) /\ Len(list) <= FD_MAX
        /\ \E i \in 1..Len(list) : list[i] < 0
    BY <1>3, ListLemma
  <2>2. Good(spawn_with(world, list, background), io)
    BY <1>1, <2>1, SpawnWithGood
  <2>3. World(spawn_with(world, list, background))
    BY <2>2 DEF Good, WorldOK
  <2>. QED BY <1>1, <1>3, <2>2, <2>3, BecomesLemma
<1>4. 0 \in FdNums /\ 1 \in FdNums /\ shell.read_fd \in FdNums \cup {-1}
      /\ shell.write_fd \in FdNums \cup {-1}
  BY PipeAssumption DEF FdNums, PipeInv, ShellRecords
<1>5. CASE SpawnLeft /\ shell.command # "typo_left"
  <2>1. Good(world', io')
    BY <1>3, <1>4, <1>5 DEF SpawnLeft
  <2>2. shell' \in ShellRecords
    BY <1>1, <1>5 DEF SpawnLeft, ShellRecords, ShellPcs, PipeInv
  <2>. QED BY <2>1, <2>2 DEF PipeInv
<1>6. CASE SpawnRight /\ shell.command # "typo_right"
  <2>1. Good(world', io')
    BY <1>3, <1>4, <1>6 DEF SpawnRight
  <2>2. shell' \in ShellRecords
    BY <1>1, <1>6 DEF SpawnRight, ShellRecords, ShellPcs, PipeInv
  <2>. QED BY <2>1, <2>2 DEF PipeInv
<1>. QED BY <1>2, <1>5, <1>6 DEF SpawnLeft, SpawnRight

LEMMA CloseStep ==
  ASSUME PipeInv, CloseWrite \/ CloseRead
  PROVE  PipeInv'
<1>1. Good(world, io) /\ world.k = k /\ me \in Living(k) /\ UNCHANGED io
  BY ShellRuns, WorldLemma DEF PipeInv, CloseWrite, CloseRead
<1>2. PICK fd \in FdNums \cup {-1} : Becomes(sys_close_fd(world, me, fd))
  BY DEF CloseWrite, CloseRead, PipeInv, ShellRecords
<1>3. Good(sys_close_fd(world, me, fd), io)
  BY <1>1, CloseFdGood
<1>4. Good(world', io')
  <2>1. World(sys_close_fd(world, me, fd))
    BY <1>3 DEF Good, WorldOK
  <2>. QED BY <1>1, <1>2, <1>3, <2>1, BecomesLemma
<1>5. shell' \in ShellRecords
  BY GoesToLemma DEF PipeInv, CloseWrite, CloseRead, ShellPcs
<1>. QED BY <1>4, <1>5 DEF PipeInv

LEMMA WaitStep ==
  ASSUME PipeInv, WaitLeft \/ WaitRight
  PROVE  PipeInv'
<1>1. /\ Good(world, io) /\ world.k = k /\ me \in Pids \ {0, 1} /\ me = k.current
      /\ k.waitpid[me] = NoWait /\ UNCHANGED <<pipes, fds, io>>
  BY ShellRuns, WorldLemma DEF PipeInv, WaitLeft, WaitRight
<1>2. PICK pid \in Pids \cup {WAIT_ANY} : k' = wait_pid(k, pid)
  BY DEF WaitLeft, WaitRight, PipeInv, ShellRecords, NULL, WAIT_ANY
<1>3. Is(world', k', world.pipes, world.fds)
  BY <1>1, SamePipesLemma
<1>4. Good(world', io)
  BY <1>1, <1>2, <1>3, WaitGood
<1>5. shell' \in ShellRecords
  BY GoesToLemma DEF PipeInv, WaitLeft, WaitRight, ShellPcs
<1>. QED BY <1>1, <1>4, <1>5 DEF PipeInv

LEMMA PipeCloseStep ==
  ASSUME PipeInv, PipeClose
  PROVE  PipeInv'
<1>1. Good(sys_pipe_close(world), io)
  BY PipeCloseGood DEF PipeInv
<1>2. World(sys_pipe_close(world))
  BY <1>1 DEF Good, WorldOK
<1>3. Good(world', io')
  BY <1>1, <1>2, BecomesLemma DEF PipeClose
<1>. QED BY <1>3 DEF PipeClose, ShellPcs, PipeInv, NewShell, ShellRecords

LEMMA StartStep ==
  ASSUME PipeInv, StartShell
  PROVE  PipeInv'
<1>. DEFINE a == spawn_default(world, FALSE)
            p == proc_pid_alloc(k)
            x == [a EXCEPT !.k.shell_pid = p]
<1>1. /\ Good(world, io) /\ world.k = k /\ p \in Pids \cup {NULL}
      /\ Becomes(x) /\ k.current = 1 /\ shell' = NewShell /\ UNCHANGED io
  BY PidAlloc, WorldLemma DEF PipeInv, StartShell
<1>2. Good(a, io) /\ DefaultSpawn(world, a, p, FALSE)
  BY <1>1, SpawnDefaultGood
<1>. HIDE DEF a, p
<1>3. Is(x, [a.k EXCEPT !.shell_pid = p], a.pipes, a.fds)
  <2>1. World(a)
    BY <1>2 DEF Good, WorldOK
  <2>. QED BY ONLY <2>1 DEF Is, World, WorldFields
<1>4. p # NULL => p \in Alive(a.k) \ {0, 1} /\ a.k.parent[p] = 1 /\ io[p] = NoIo
  <2>. SUFFICES ASSUME p # NULL
                PROVE  p \in Alive(a.k) \ {0, 1} /\ a.k.parent[p] = 1 /\ io[p] = NoIo
    OBVIOUS
  <2>1. p \in Pids \ Alive(k) /\ Spawned(k, a.k, p)
    BY <1>1, <1>2 DEF DefaultSpawn, SpawnedAs
  <2>2. Inv(k) /\ Family(k)
    BY <1>1 DEF Good, WorldOK
  <2>3. k.status \in [Pids -> Statuses] /\ k.parent \in [Pids -> Pids \cup {NULL}]
    BY <2>2 DEF Inv, Core, Queues, Types
  <2>4. 0 \in Alive(k) /\ 1 \in Alive(k)
    BY <2>2, PidsLemma DEF Inv, Idle, Family, Root, Living, Alive
  <2>5. a.k.status[p] = "READY" /\ a.k.parent[p] = 1
    BY <1>1, <2>1, <2>3 DEF Spawned
  <2>6. io[p] = NoIo
    BY <1>1, <2>1 DEF Good, Buried, Living, Alive
  <2>. QED BY <2>1, <2>4, <2>5, <2>6 DEF Alive
<1>. HIDE DEF x
<1>5. Good(x, io)
  BY <1>1, <1>2, <1>3, <1>4, ShellSetGood
<1>6. world' = x
  BY <1>1, <1>3, BecomesLemma DEF Is
<1>7. shell' \in ShellRecords
  BY <1>1 DEF NewShell, ShellRecords, ShellPcs
<1>. QED BY <1>1, <1>5, <1>6, <1>7 DEF PipeInv

\* A process dies, and the caller of proc_kill goes on, ...
DiesIn(p) ==
  LET z == terminate(world, p)
  IN  /\ k' = bury(z.k, p) /\ pipes' = z.pipes /\ fds' = z.fds
      /\ io' = [io EXCEPT ![p] = NoIo]

LEMMA DiesGood ==
  ASSUME PipeInv, NEW p \in Living(k) \ {0, 1}, DiesIn(p)
  PROVE  /\ Good(world', io') /\ Died(k, k', p) /\ fds' = [fds EXCEPT ![p] = NoFds]
         /\ DeathOf(world, world', k', p)
<1>. DEFINE z == terminate(world, p)
            t == bury(z.k, p)
<1>1. Good(world, io) /\ world.k = k /\ world.fds = fds
  BY WorldLemma DEF PipeInv
<1>2. /\ z.fds = [fds EXCEPT ![p] = NoFds] /\ Died(k, t, p)
      /\ \A v : Is(v, t, z.pipes, z.fds) => Good(v, [io EXCEPT ![p] = NoIo])
      /\ DeathOf(world, z, t, p)
  BY <1>1, KillGood
<1>3. k' = t /\ pipes' = z.pipes /\ fds' = z.fds /\ io' = [io EXCEPT ![p] = NoIo]
  BY DEF DiesIn
<1>. HIDE DEF z, t
<1>4. Is(world', t, z.pipes, z.fds)
  BY <1>3, WorldLemma DEF Is
<1>5. DeathOf(world, world', k', p)
  BY <1>2, <1>3, WorldLemma DEF DeathOf
<1>. QED BY <1>2, <1>3, <1>4, <1>5

\* ... or it was the current one, and the timer picks another.
ExitsIn(p) ==
  LET z == terminate(world, p)
  IN  /\ k' = timer_interrupt(bury(z.k, p)) /\ pipes' = z.pipes /\ fds' = z.fds
      /\ io' = [io EXCEPT ![p] = NoIo]

LEMMA ExitsGood ==
  ASSUME PipeInv, NEW p \in Living(k) \ {0, 1}, ExitsIn(p)
  PROVE  /\ Good(world', io') /\ fds' = [fds EXCEPT ![p] = NoFds]
         /\ \E v : /\ Good(v, io') /\ Is(v, v.k, pipes', fds') /\ Died(k, v.k, p)
                   /\ DeathOf(world, v, v.k, p) /\ OnlySwitched(v.k, k')
                   /\ Living(k') = Living(v.k) /\ Alive(k') = Alive(v.k)
<1>. DEFINE z == terminate(world, p)
            t == bury(z.k, p)
            v == [k |-> t, pipes |-> z.pipes, fds |-> z.fds]
<1>1. Good(world, io) /\ world.k = k /\ world.fds = fds
  BY WorldLemma DEF PipeInv
<1>2. /\ z.fds = [fds EXCEPT ![p] = NoFds] /\ Died(k, t, p)
      /\ \A u : Is(u, t, z.pipes, z.fds) => Good(u, [io EXCEPT ![p] = NoIo])
      /\ DeathOf(world, z, t, p)
  BY <1>1, KillGood
<1>3. /\ k' = timer_interrupt(t) /\ pipes' = z.pipes /\ fds' = z.fds
      /\ io' = [io EXCEPT ![p] = NoIo]
  BY DEF ExitsIn
<1>. HIDE DEF z, t
<1>4. Is(v, t, z.pipes, z.fds)
  BY DEF Is, World, WorldFields
<1>. HIDE DEF v
<1>5. Good(v, io') /\ v.k = t /\ v.pipes = pipes' /\ v.fds = fds' /\ World(v)
  BY <1>2, <1>3, <1>4 DEF Is
<1>6. Is(world', k', v.pipes, v.fds)
  BY <1>5, WorldLemma DEF Is
<1>7. /\ Good(world', io') /\ OnlySwitched(v.k, k')
      /\ Living(k') = Living(v.k) /\ Alive(k') = Alive(v.k)
  BY <1>3, <1>5, <1>6, SwitchGood
<1>8. DeathOf(world, v, v.k, p)
  BY <1>2, <1>3, <1>5 DEF DeathOf
<1>9. Is(v, v.k, pipes', fds')
  BY <1>5 DEF Is
<1>. QED BY <1>2, <1>3, <1>5, <1>7, <1>8, <1>9

\* The process that holds the terminal is alive.
LEMMA InterruptDies ==
  ASSUME PipeInv, Interrupt
  PROVE  k.foreground \in Living(k) \ {0, 1} /\ DiesIn(k.foreground) /\ UNCHANGED shell
<1>1. Family(k)
  BY WorldLemma DEF PipeInv, Good, WorldOK
<1>2. k.foreground \in Living(k) \ {0, 1}
  BY <1>1 DEF Interrupt, Family, Kin, TerminalOwner
<1>. QED BY <1>2 DEF Interrupt, Killed, DiesIn

LEMMA ReturnExits ==
  ASSUME PipeInv, NEW p \in Pids, Return(p) \/ Quit(p)
  PROVE  p \in Living(k) \ {0, 1, k.shell_pid} /\ ExitsIn(p) /\ k.current = p
<1>1. k.current = p /\ p \notin {NULL, 0, 1, k.shell_pid}
  BY DEF Return, Quit, PipeProgram
<1>2. Good(world, io) /\ world.k = k
  BY WorldLemma DEF PipeInv
<1>3. p \in Living(k)
  BY <1>1, <1>2, RunningLemma
<1>. QED BY <1>1, <1>3 DEF Return, Quit, Killed, ExitsIn

LEMMA DeathStep ==
  ASSUME PipeInv, Interrupt \/ (UNCHANGED shell /\ \E p \in Pids : Return(p) \/ Quit(p))
  PROVE  PipeInv'
<1>1. CASE Interrupt
  BY <1>1, InterruptDies, DiesGood DEF PipeInv
<1>2. ASSUME NEW p \in Pids, Return(p) \/ Quit(p), UNCHANGED shell PROVE PipeInv'
  BY <1>2, ReturnExits, ExitsGood DEF PipeInv
<1>. QED BY <1>1, <1>2

\* Which pipe a program reads or writes.
LEMMA ProgramPipe ==
  ASSUME PipeInv, NEW p \in Pids, NEW fd \in FdNums
  PROVE  fds[p][fd].end \in Ends => fds[p][fd] = PipeEnd(fds[p][fd].pipe, fds[p][fd].end)
                                    /\ fds[p][fd].pipe \in PipeIds
<1>1. fds[p][fd] \in Entries
  BY WorldLemma DEF PipeInv, Good, WorldOK, FdsOK
<1>. DEFINE e == fds[p][fd]
<1>. HIDE DEF e
<1>2. e \in Entries
  BY <1>1 DEF e
<1>3. e.end \in Ends => e = PipeEnd(e.pipe, e.end) /\ e.pipe \in PipeIds
  BY <1>2 DEF Entries, NoFd, Terminal, PipeEnd, Ends
<1>. QED BY <1>3 DEF e

\* A process inside a call is inside a read.
LEMMA IoLemma ==
  ASSUME NEW x \in IoCalls, x.op \in {"read", "write"}
  PROVE  x.op = "read" /\ x.pipe \in PipeIds
<1>1. NoIo.op = "none" /\ Eof.op = "eof"
  BY DEF NoIo, Eof
<1>2. PICK i \in PipeIds : x = [op |-> "read", pipe |-> i, size |-> ReadSize]
  BY <1>1 DEF IoCalls
<1>. QED BY <1>2

\* The process that runs a read or a write of a pipe, for the first time or again.
LEMMA ReadCalls ==
  ASSUME PipeInv, PipeResume \/ \E p \in Pids : PipeRead(p)
  PROVE  \E c \in Pids \ {0}, i \in PipeIds :
           /\ c = k.current /\ c # k.shell_pid /\ Becomes(pipe_read(world, i))
           /\ io' = [io EXCEPT ![c] = after_read(world, i)]
           /\ \/ io[c].op = "read" /\ io[c].pipe = i
              \/ fds[c][0] = PipeEnd(i, "readers")
<1>1. Calling(k, io) /\ k.current \in Pids \cup {NULL}
  BY WorldLemma DEF PipeInv, Good, WorldOK, Inv, Core, Queues, Types
<1>2. CASE PipeResume
  <2>. DEFINE c == k.current
              i == io[c].pipe
  <2>1. c # NULL /\ io[c].op \in {"read", "write"}
    BY <1>2 DEF PipeResume
  <2>2. c \in Pids /\ io[c] \in IoCalls /\ io[0] = NoIo
    BY <1>1, <2>1 DEF Calling
  <2>3. io[c].op = "read" /\ i \in PipeIds
    BY <2>1, <2>2, IoLemma
  <2>4. c # 0 /\ c # k.shell_pid
    <3>1. NoIo.op # "read"
      BY DEF NoIo
    <3>2. k.shell_pid # NULL => io[k.shell_pid] = NoIo
      BY <1>1 DEF Calling
    <3>. QED BY <2>1, <2>2, <2>3, <3>1, <3>2, Zenon
  <2>5. Becomes(pipe_read(world, i)) /\ io' = [io EXCEPT ![c] = after_read(world, i)]
    BY <1>2, <2>3 DEF PipeResume
  <2>. QED BY <2>2, <2>3, <2>4, <2>5
<1>3. ASSUME NEW p \in Pids, PipeRead(p)
      PROVE  \E c \in Pids \ {0}, i \in PipeIds :
               /\ c = k.current /\ c # k.shell_pid /\ Becomes(pipe_read(world, i))
               /\ io' = [io EXCEPT ![c] = after_read(world, i)]
               /\ \/ io[c].op = "read" /\ io[c].pipe = i
                  \/ fds[c][0] = PipeEnd(i, "readers")
  <2>. DEFINE i == fds[p][0].pipe
  <2>1. /\ p = k.current /\ p \in Pids \ {0} /\ p # k.shell_pid /\ fds[p][0].end = "readers"
        /\ Becomes(pipe_read(world, i)) /\ io' = [io EXCEPT ![p] = after_read(world, i)]
    BY <1>3 DEF PipeRead, PipeProgram
  <2>2. 0 \in FdNums /\ "readers" \in Ends
    BY PipeAssumption DEF FdNums, Ends
  <2>3. fds[p][0] = PipeEnd(i, "readers") /\ i \in PipeIds
    BY <2>1, <2>2, ProgramPipe
  <2>. HIDE DEF i
  <2>. QED BY <2>1, <2>3
<1>. QED BY <1>2, <1>3

LEMMA WriteCalls ==
  ASSUME PipeInv, \E p \in Pids : PipeWrite(p)
  PROVE  \E c \in Pids \ {0}, i \in PipeIds, n \in Nat :
           /\ c = k.current /\ c # k.shell_pid /\ Becomes(pipe_write(world, i, n))
           /\ pipes[i].sent + n <= MaxBytes
           /\ io' = [io EXCEPT ![c] = after_write(world, i, n)]
           /\ fds[c][1] = PipeEnd(i, "writers")
<1>1. PICK p \in Pids : PipeWrite(p)
  OBVIOUS
<1>. DEFINE i == fds[p][1].pipe
<1>2. /\ p = k.current /\ p \in Pids \ {0} /\ p # k.shell_pid /\ fds[p][1].end = "writers"
      /\ \E n \in WriteSizes : /\ pipes[i].sent + n <= MaxBytes
                               /\ Becomes(pipe_write(world, i, n))
                               /\ io' = [io EXCEPT ![p] = after_write(world, i, n)]
  BY <1>1 DEF PipeWrite, PipeProgram
<1>3. 1 \in FdNums /\ "writers" \in Ends /\ WriteSizes \subseteq Nat
  BY PipeAssumption DEF FdNums, Ends
<1>4. fds[p][1] = PipeEnd(i, "writers") /\ i \in PipeIds
  BY <1>2, <1>3, ProgramPipe
<1>. HIDE DEF i
<1>. QED BY <1>2, <1>3, <1>4

LEMMA BytesStep ==
  ASSUME PipeInv, PipeResume \/ \E p \in Pids : PipeRead(p) \/ PipeWrite(p), UNCHANGED shell
  PROVE  PipeInv'
<1>1. Good(world, io) /\ world.k = k /\ world.pipes = pipes
  BY WorldLemma DEF PipeInv
<1>2. CASE PipeResume \/ \E p \in Pids : PipeRead(p)
  <2>1. PICK c \in Pids \ {0}, i \in PipeIds :
           /\ c = k.current /\ c # k.shell_pid /\ Becomes(pipe_read(world, i))
           /\ io' = [io EXCEPT ![c] = after_read(world, i)]
    BY <1>2, ReadCalls
  <2>2. Good(pipe_read(world, i), io')
    BY <1>1, <2>1, ReadGood
  <2>3. World(pipe_read(world, i))
    BY <2>2 DEF Good, WorldOK
  <2>. QED BY <2>1, <2>2, <2>3, BecomesLemma DEF PipeInv
<1>3. CASE \E p \in Pids : PipeWrite(p)
  <2>1. PICK c \in Pids \ {0}, i \in PipeIds, n \in Nat :
           /\ c = k.current /\ c # k.shell_pid /\ Becomes(pipe_write(world, i, n))
           /\ pipes[i].sent + n <= MaxBytes
           /\ io' = [io EXCEPT ![c] = after_write(world, i, n)]
    BY <1>3, WriteCalls
  <2>2. Good(pipe_write(world, i, n), io')
    BY <1>1, <2>1, WriteGood
  <2>3. World(pipe_write(world, i, n))
    BY <2>2 DEF Good, WorldOK
  <2>. QED BY <2>1, <2>2, <2>3, BecomesLemma DEF PipeInv
<1>. QED BY <1>2, <1>3

LEMMA KernelOnlyStep ==
  ASSUME PipeInv, PipeTick \/ KernelOnly(InitWait) \/ KernelOnly(Resume) \/ KernelOnly(Halted)
  PROVE  PipeInv'
<1>1. /\ Good(world, io) /\ world.k = k /\ UNCHANGED <<pipes, fds, io, shell>>
  BY WorldLemma DEF PipeInv, PipeTick, KernelOnly
<1>2. Is(world', k', world.pipes, world.fds)
  BY <1>1, SamePipesLemma
<1>3. /\ k.current \in Pids \cup {NULL} /\ k.waitpid \in [Pids -> Pids \cup {NoWait, WAIT_ANY}]
  BY <1>1 DEF Good, WorldOK, Inv, Core, Queues, Types, Family, Kin, TreeTypes
<1>. SUFFICES Good(world', io)
  BY <1>1 DEF PipeInv
<1>4. CASE PipeTick
  <2>1. k' = timer_interrupt(k)
    BY <1>4 DEF PipeTick, KernelOnly, Tick
  <2>. QED BY <1>1, <1>2, <2>1, SwitchGood
<1>5. CASE KernelOnly(InitWait)
  <2>. DEFINE u == wait_pid(k, WAIT_ANY)
  <2>1. k' = shell_gone(u) /\ k.current = 1 /\ k.waitpid[1] = NoWait
    BY <1>5, PidsLemma DEF KernelOnly, InitWait, UserMode, NULL
  <2>2. WAIT_ANY \in Pids \cup {WAIT_ANY}
    OBVIOUS
  <2>. HIDE DEF u
  <2>3. u = wait_pid(world.k, WAIT_ANY)
    BY <1>1 DEF u
  <2>. QED BY <1>1, <1>2, <2>1, <2>2, <2>3, InitWaitGood
<1>6. CASE KernelOnly(Resume)
  <2>1. k.current \in Pids \ {0} /\ k.waitpid[k.current] # NoWait
        /\ k' = IF k.current = 1 THEN shell_gone(wait_pass(k)) ELSE wait_pass(k)
    BY <1>3, <1>6 DEF KernelOnly, Resume
  <2>. DEFINE pid == k.waitpid[k.current]
              u == wait_pass(k)
  <2>2. pid \in Pids \cup {WAIT_ANY}
    BY <1>3, <2>1
  <2>3. u = wait_pass(world.k) /\ pid = world.k.waitpid[k.current]
    BY <1>1
  <2>. HIDE DEF u, pid
  <2>4. CASE k.current = 1
    <3>1. k' = shell_gone(u)
      BY <2>1, <2>4 DEF u
    <3>. QED BY <1>1, <1>2, <2>2, <2>3, <2>4, <3>1, InitWaitGood
  <2>5. CASE k.current # 1
    <3>1. k' = u /\ k.current \in Pids \ {0, 1}
      BY <2>1, <2>5 DEF u
    <3>. QED BY <1>1, <1>2, <2>2, <2>3, <3>1, WaitGood
  <2>. QED BY <2>4, <2>5
<1>7. CASE KernelOnly(Halted)
  <2>1. world' = world
    BY <1>1, <1>7 DEF KernelOnly, Halted, world
  <2>. QED BY <1>1, <2>1
<1>. QED BY <1>4, <1>5, <1>6, <1>7

LEMMA PipeInvInit ==
  ASSUME ShellInit
  PROVE  PipeInv
<1>1. PICK background \in BOOLEAN : k = main(background)
  BY DEF ShellInit, Init
<1>2. /\ Inv(k) /\ Family(k) /\ \A p \in Pids : k.status[p] # "BLOCKED"
      /\ Alive(k) = {0, 1} /\ k.shell_pid = NULL
  BY <1>1, BootLemma, FamilyBoot
<1>3. /\ pipes = [i \in PipeIds |-> EmptySlot]
      /\ fds = [p \in Pids |-> [fd \in FdNums |->
              IF p \in {0, 1} /\ fd <= 2 THEN Terminal ELSE NoFd]]
      /\ io = [p \in Pids |-> NoIo] /\ shell = NewShell
  BY DEF ShellInit, PipeIds, FdNums
<1>4. PipesOK(pipes)
  <2>1. \A i \in PipeIds : pipes[i] = EmptySlot
    BY <1>3
  <2>. QED BY <1>3, <2>1, NewPipeLemma DEF PipesOK
<1>5. ASSUME NEW p \in Pids, NEW fd \in FdNums
      PROVE  fds[p][fd] \in {NoFd, Terminal} /\ fds[p][fd].type # "PIPE"
  BY <1>3 DEF NoFd, Terminal
<1>6. FdsOK(fds)
  <2>1. \A p \in Pids : fds[p] \in [FdNums -> Entries]
    BY <1>3 DEF Entries
  <2>. QED BY <1>3, <2>1 DEF FdsOK
<1>7. Counted(pipes, fds)
  <2>1. ASSUME NEW i, NEW x PROVE HoldersOf(fds, i, x) = {}
    <3>. SUFFICES ASSUME NEW d \in HoldersOf(fds, i, x) PROVE FALSE
      OBVIOUS
    <3>1. d \in Descriptors /\ fds[d[1]][d[2]] = PipeEnd(i, x)
      BY DEF HoldersOf
    <3>2. d[1] \in Pids /\ d[2] \in FdNums
      BY <3>1, DescriptorsLemma
    <3>. QED BY <1>5, <3>1, <3>2 DEF PipeEnd
  <2>2. \A i \in PipeIds : pipes[i].table = "null"
    BY <1>3, NewPipeLemma
  <2>. QED BY <2>1, <2>2 DEF Counted
<1>8. Queued(k, pipes, io)
  <2>1. \A i \in PipeIds : pipes[i].readers_wait = << >>
    BY <1>3, NewPipeLemma
  <2>. QED BY <2>1 DEF Queued, InQueue
<1>9. Buried(k, fds, io)
  <2>. SUFFICES ASSUME NEW p \in Pids \ Living(k) PROVE fds[p] = NoFds /\ io[p] = NoIo
    BY DEF Buried
  <2>1. p \notin {0, 1}
    BY <1>2 DEF Inv, Idle, Family, Root, Living
  <2>. QED BY <1>3, <2>1 DEF NoFds, FdNums
<1>10. Calling(k, io) /\ Known(k)
  BY <1>2, <1>3, PidsLemma DEF Calling, Known, IoCalls
<1>11. Good(world, io)
  BY <1>2, <1>4, <1>6, <1>7, <1>8, <1>9, <1>10, WorldLemma DEF Good, WorldOK
<1>12. shell \in ShellRecords
  BY <1>3 DEF NewShell, ShellRecords, ShellPcs
<1>. QED BY <1>11, <1>12 DEF PipeInv

LEMMA PipeInvNext ==
  ASSUME PipeInv, [ShellNext]_shellVars
  PROVE  PipeInv'
<1>1. CASE ShellStep
  BY <1>1, PromptStep, RunStep, CreateStep, OpenStep, SpawnStep, CloseStep, WaitStep, PipeCloseStep
     DEF ShellStep
<1>2. CASE PipeStep
  BY <1>2, BytesStep, DeathStep DEF PipeStep
<1>3. CASE UNCHANGED shellVars
  BY <1>3 DEF shellVars, PipeInv, world
<1>. QED BY <1>1, <1>2, <1>3, EnterStep, StartStep, DeathStep, KernelOnlyStep DEF ShellNext

\* Whatever the user types, interrupts and kills, the invariant of the pipes holds.
THEOREM PipeInvariance == ShellSpec => []PipeInv
<1>1. ShellInit => PipeInv
  BY PipeInvInit
<1>2. PipeInv /\ [ShellNext]_shellVars => PipeInv'
  BY PipeInvNext
<1>. QED BY <1>1, <1>2, PTL DEF ShellSpec

\* The counts of a pipe in use are the descriptors that refer to its ends
\* (pipe.c open_pipe, add_ref, close functions; process.c proc_kill), for every
\* sequence of commands, typing errors and interrupts.
THEOREM EndsCounted == ShellSpec => []PipeCounts
<1>1. PipeInv => PipeCounts
  <2>. SUFFICES ASSUME PipeInv, NEW i \in 1..MAX_PIPES, pipes[i].table = "used"
                PROVE  /\ pipes[i].readers = Cardinality(Holders(i, "readers"))
                       /\ pipes[i].writers = Cardinality(Holders(i, "writers"))
    BY DEF PipeCounts
  <2>1. Counted(pipes, fds) /\ i \in PipeIds
    BY WorldLemma DEF PipeInv, Good, WorldOK, PipeIds
  <2>2. \A x : Holders(i, x) = HoldersOf(fds, i, x)
    BY DEF Holders, HoldersOf
  <2>3. \A x \in Ends : pipes[i][x] = Cardinality(Holders(i, x))
    BY <2>1, <2>2 DEF Counted
  <2>. QED BY <2>3 DEF Ends
<1>. QED BY <1>1, PipeInvariance, PTL

\* A pipe hands out the bytes it accepted, in order and each once (ringbuf.h,
\* pipe_read and pipe_write), for every buffer size and every size of a call.
THEOREM BytesInOrder == ShellSpec => []PipeFifo
<1>1. PipeInv => PipeFifo
  BY WorldLemma DEF PipeInv, Good, WorldOK, PipesOK, PipeOK, FifoOK, PipeFifo, PipeIds
<1>. QED BY <1>1, PipeInvariance, PTL
-----------------------------------------------------------------------------
(* Nobody is left behind: the descriptors refer to pipes that exist, and a *)
(* reader that sleeps is still to be woken.                                *)

\* As NoDangling.
LiveEnds(P, F) ==
  \A q \in Pids, fd \in FdNums : F[q][fd].type = "PIPE" => P[F[q][fd].pipe].table = "used"

AtRead(s, u) == s.status[u] = "BLOCKED" /\ s.block_reason[u] = "PIPE_READ"

\* What NoLostPipeWakeup says of a reader that sleeps.
Sleeper(P, o, u) ==
  LET i == o[u].pipe
  IN  /\ o[u].op = "read" /\ i \in PipeIds /\ P[i].table = "used"
      /\ P[i].writers > 0 /\ P[i].sent = P[i].received
      /\ InQueue(P[i].readers_wait, u)

\* Who is inside a read has the end of its pipe as standard input.
ReadsFrom(F, o, u) == o[u].op = "read" => F[u][0] = PipeEnd(o[u].pipe, "readers")

\* All this, while the descriptors of the processes X are being closed.
Flow(s, P, F, o, X) ==
  /\ LiveEnds(P, F)
  /\ \A u \in Pids \ X : ReadsFrom(F, o, u) /\ (AtRead(s, u) => Sleeper(P, o, u))

LEMMA HolderLemma ==
  ASSUME NEW P, NEW F, PipesOK(P), Counted(P, F), NEW u \in Pids, NEW fd \in FdNums,
         NEW i \in PipeIds, NEW x \in Ends, F[u][fd] = PipeEnd(i, x), P[i].table = "used"
  PROVE  P[i][x] > 0
<1>1. P[i][x] = Cardinality(HoldersOf(F, i, x)) /\ IsFiniteSet(HoldersOf(F, i, x))
  BY DescriptorsLemma DEF Counted
<1>2. <<u, fd>> \in HoldersOf(F, i, x)
  BY DescriptorsLemma DEF HoldersOf
<1>3. Cardinality(HoldersOf(F, i, x)) \in Nat /\ Cardinality(HoldersOf(F, i, x)) # 0
  BY <1>1, <1>2, FS_CardinalityType, FS_EmptySet
<1>. HIDE DEF HoldersOf
<1>. QED BY <1>1, <1>3

\* close_fd wakes the readers before they could sleep for ever, and frees no
\* pipe that somebody holds.
LEMMA CloseFlow ==
  ASSUME NEW w, NEW o, WorldOK(w, o), NEW p \in Pids, NEW fd \in FdNums,
         Flow(w.k, w.pipes, w.fds, o, {p})
  PROVE  LET v == close_fd(w, p, fd) IN Flow(v.k, v.pipes, v.fds, o, {p})
<1>. DEFINE s == w.k
            P == w.pipes
            F == w.fds
            e == F[p][fd]
            G == [F EXCEPT ![p][fd] = NoFd]
            Q == ClosedPipes(P, e)
            t == ClosedKernel(s, P, e)
            v == close_fd(w, p, fd)
<1>1. /\ World(w) /\ PipesOK(P) /\ FdsOK(F) /\ Counted(P, F) /\ Queued(s, P, o)
      /\ Inv(s) /\ Family(s)
  BY DEF WorldOK
<1>2. v.k = t /\ v.pipes = Q /\ v.fds = G
  BY <1>1, CloseFields DEF Is
<1>3. e \in Entries /\ NoFd \in Entries
  BY <1>1 DEF FdsOK, Entries
<1>4. /\ FdsOK(G) /\ G[p][fd] = NoFd /\ \A u \in Pids \ {p} : G[u] = F[u]
      /\ \A g \in FdNums \ {fd} : G[p][g] = F[p][g]
  BY <1>1, <1>3, HoldersLemma
<1>5. NoFd.type # "PIPE"
  BY DEF NoFd
<1>11. /\ PipesOK(Q) /\ Counted(Q, G) /\ (e.type # "PIPE" => Q = P)
       /\ e.type = "PIPE" =>
            LET x == Lost(P, e)[e.pipe]
            IN  /\ e.pipe \in PipeIds /\ PipeOK(x) /\ Q[e.pipe] = Closing(x, e.end)
                /\ x.readers_wait = P[e.pipe].readers_wait
                /\ \A j \in PipeIds \ {e.pipe} : Q[j] = P[j]
  BY <1>1, ClosedPipesLemma
<1>. HIDE DEF G, s, P, F, v
<1>6. /\ LiveEnds(P, F)
      /\ \A u \in Pids \ {p} : ReadsFrom(F, o, u) /\ (AtRead(s, u) => Sleeper(P, o, u))
  BY DEF Flow, s, P, F
<1>7. \A u \in Pids \ {p} : ReadsFrom(G, o, u)
  BY <1>4, <1>6 DEF ReadsFrom
<1>8. \A q \in Pids, g \in FdNums : G[q][g].type = "PIPE" => G[q][g] = F[q][g]
  BY <1>4, <1>5
<1>9. CASE e.type # "PIPE"
  <2>1. Q = P /\ t = s
    BY <1>9 DEF ClosedPipes, ClosedKernel, LastWriter
  <2>2. LiveEnds(P, G)
    <3>. HIDE DEF e
    <3>. QED BY <1>6, <1>8 DEF LiveEnds
  <2>. HIDE DEF Q, t
  <2>. QED BY <1>2, <1>6, <1>7, <2>1, <2>2 DEF Flow, v
<1>10. CASE e.type = "PIPE"
  <2>. DEFINE i == e.pipe
              L == Lost(P, e)
              x == L[i]
  <2>1. /\ i \in PipeIds /\ PipeOK(x) /\ Q[i] = Closing(x, e.end)
        /\ \A j \in PipeIds \ {i} : Q[j] = P[j]
    BY <1>10, <1>11
  <2>2. Losing(P, L, G, e)
    BY <1>1, <1>10, LoseLemma DEF G
  <2>3. P[i].table = "used"
    BY <1>6, <1>10 DEF LiveEnds
  <2>4. t = IF LastWriter(P, e) THEN wake_all(s, P[i].readers_wait) ELSE s
    BY DEF ClosedKernel
  <2>5. LastWriter(P, e) <=> e.end = "writers" /\ ~ x.writers > 0
    BY <1>10 DEF LastWriter
  <2>. HIDE DEF Q, t, L, e
  <2>6. x.table = "used" /\ x.readers \in Nat /\ x.writers \in Nat
        /\ x.sent = P[i].sent /\ x.received = P[i].received
        /\ x.readers_wait = P[i].readers_wait
    BY <2>1, <2>2, <2>3 DEF Losing, SamePipes, SamePipe, PipeOK
  <2>7. ASSUME NEW u \in Pids, NEW g \in FdNums, NEW y \in Ends, G[u][g] = PipeEnd(i, y)
        PROVE  x[y] > 0
    BY <1>4, <2>1, <2>2, <2>6, <2>7, HolderLemma DEF Losing
  <2>8. LiveEnds(Q, G)
    <3>. SUFFICES ASSUME NEW q \in Pids, NEW g \in FdNums, G[q][g].type = "PIPE"
                  PROVE  Q[G[q][g].pipe].table = "used"
      BY DEF LiveEnds
    <3>. DEFINE y == G[q][g]
    <3>1. y \in Entries
      BY <1>4 DEF FdsOK
    <3>2. y.pipe \in PipeIds /\ y.end \in Ends /\ y = PipeEnd(y.pipe, y.end)
      BY <3>1, EntryLemma
    <3>3. P[y.pipe].table = "used"
      BY <1>6, <1>8 DEF LiveEnds
    <3>. HIDE DEF y
    <3>4. CASE y.pipe # i
      BY <2>1, <3>2, <3>3, <3>4 DEF y
    <3>5. CASE y.pipe = i
      <4>1. x[y.end] > 0
        BY <2>7, <3>2, <3>5 DEF y
      <4>2. ~ unused(x)
        BY <3>2, <4>1 DEF unused, Ends
      <4>3. Closing(x, e.end).table = x.table
        BY <4>2 DEF Closing
      <4>. QED BY <2>1, <2>6, <3>5, <4>3 DEF y
    <3>. QED BY <3>4, <3>5
  <2>9. ASSUME NEW u \in Pids \ {p}, AtRead(t, u) PROVE Sleeper(Q, o, u)
    <3>1. AtRead(s, u) /\ (LastWriter(P, e) => ~ InQueue(P[i].readers_wait, u))
      <4>1. CASE ~ LastWriter(P, e)
        BY <2>4, <2>9, <4>1
      <4>2. CASE LastWriter(P, e)
        <5>. DEFINE q == P[i].readers_wait
        <5>1. q \in Seq(Pids) /\ NoDuplicates(q)
          BY <1>1, <2>1 DEF PipesOK, PipeOK
        <5>2. \A c \in Pids : InQueue(q, c) => s.status[c] = "BLOCKED"
          BY <1>1, <2>1 DEF Queued, AtPipe
        <5>3. Woken(s, t, q, Len(q))
          BY <1>1, <2>4, <4>2, <5>1, <5>2, WakeAllLemma
        <5>. HIDE DEF q
        <5>4. IF \E j \in 1..Len(q) : q[j] = u THEN t.status[u] = "READY"
              ELSE t.status[u] = s.status[u] /\ t.block_reason[u] = s.block_reason[u]
          BY <5>3 DEF Woken
        <5>. QED BY <2>9, <5>4 DEF AtRead, InQueue, q
      <4>. QED BY <4>1, <4>2
    <3>2. Sleeper(P, o, u) /\ ReadsFrom(F, o, u) /\ G[u] = F[u]
      BY <1>4, <1>6, <3>1
    <3>3. CASE o[u].pipe # i
      BY <2>1, <3>2, <3>3 DEF Sleeper
    <3>4. CASE o[u].pipe = i
      <4>1. G[u][0] = PipeEnd(i, "readers") /\ P[i].writers > 0 /\ P[i].sent = P[i].received
            /\ InQueue(P[i].readers_wait, u) /\ o[u].op = "read"
        BY <3>2, <3>4 DEF Sleeper, ReadsFrom
      <4>2. 0 \in FdNums /\ "readers" \in Ends
        BY PipeAssumption DEF FdNums, Ends
      <4>3. x.readers > 0
        BY <2>7, <4>1, <4>2
      <4>4. ~ LastWriter(P, e)
        BY <3>1, <4>1
      <4>5. x.writers > 0
        <5>1. CASE e.end = "writers"
          BY <2>5, <4>4, <5>1
        <5>2. CASE e.end # "writers"
          BY <2>2, <4>1, <5>2 DEF Losing, Ends
        <5>. QED BY <5>1, <5>2
      <4>6. Q[i] = x
        BY <2>1, <2>6, <4>3, <4>5 DEF Closing, unused
      <4>. QED BY <2>1, <2>6, <3>4, <4>1, <4>5, <4>6 DEF Sleeper
    <3>. QED BY <3>3, <3>4
  <2>. QED BY <1>2, <1>7, <2>8, <2>9 DEF Flow, v
<1>. QED BY <1>9, <1>10

LEMMA CloseAllFlow ==
  ASSUME NEW w, NEW o, WorldOK(w, o), NEW p \in Pids, Flow(w.k, w.pipes, w.fds, o, {p})
  PROVE  LET v == close_all(w, p) IN WorldOK(v, o) /\ Flow(v.k, v.pipes, v.fds, o, {p})
<1>0. FD_MAX \in Nat
  BY PipeAssumption
<1>1. PICK f : /\ f[0] = w /\ close_all(w, p) = f[FD_MAX]
               /\ \A n \in 1..FD_MAX : f[n] = close_fd(f[n - 1], p, n - 1)
  BY CloseSteps
<1>. DEFINE A(n) == WorldOK(f[n], o) /\ Flow(f[n].k, f[n].pipes, f[n].fds, o, {p})
            T == {n \in Nat : n <= FD_MAX => A(n)}
<1>2. 0 \in T
  BY <1>1
<1>3. ASSUME NEW n \in Nat, n \in T PROVE n + 1 \in T
  <2>. SUFFICES ASSUME n + 1 <= FD_MAX PROVE A(n + 1)
    <3>. HIDE DEF A
    <3>. QED OBVIOUS
  <2>1. n \in FdNums /\ n + 1 \in 1..FD_MAX /\ (n + 1) - 1 = n
    BY <1>0 DEF FdNums
  <2>2. A(n)
    <3>. HIDE DEF A
    <3>. QED BY <1>0, <1>3
  <2>3. f[n + 1] = close_fd(f[n], p, n)
    BY <1>1, <2>1
  <2>4. WorldOK(close_fd(f[n], p, n), o)
    BY <2>1, <2>2, CloseLemma
  <2>5. LET v == close_fd(f[n], p, n) IN Flow(v.k, v.pipes, v.fds, o, {p})
    BY <2>1, <2>2, CloseFlow
  <2>. QED BY <2>3, <2>4, <2>5
<1>4. A(FD_MAX)
  <2>1. Nat \subseteq T
    <3>. HIDE DEF T
    <3>. QED BY <1>2, <1>3, NatSet
  <2>. HIDE DEF A
  <2>. QED BY <1>0, <2>1
<1>. QED BY <1>1, <1>4

\* The death of a process, asleep in a read or not.
LEMMA KillFlow ==
  ASSUME NEW w, NEW o, Good(w, o), NEW p \in Living(w.k) \ {0, 1},
         Flow(w.k, w.pipes, w.fds, o, {}), NEW z, NEW t, DeathOf(w, z, t, p)
  PROVE  Flow(t, z.pipes, z.fds, [o EXCEPT ![p] = NoIo], {})
<1>. DEFINE u == unlink_from_pipe(w, p)
            v == close_all(u, p)
            c == [o EXCEPT ![p] = NoIo]
<1>1. WorldOK(w, o) /\ p \in Pids \ {0, 1} /\ o \in [Pids -> IoCalls]
  BY DEF Good, Calling, Living
<1>2. /\ WorldOK(u, o) /\ u.k = w.k /\ u.fds = w.fds
      /\ \A i \in PipeIds :
           /\ Requeued(w.pipes[i], u.pipes[i])
           /\ \A q \in Pids : InQueue(u.pipes[i].readers_wait, q) <=>
                                InQueue(w.pipes[i].readers_wait, q) /\ q # p
  BY <1>1, UnlinkLemma
<1>. HIDE DEF u
<1>3. Flow(u.k, u.pipes, u.fds, o, {p})
  <2>1. LiveEnds(u.pipes, u.fds)
    <3>. SUFFICES ASSUME NEW q \in Pids, NEW fd \in FdNums, u.fds[q][fd].type = "PIPE"
                  PROVE  u.pipes[u.fds[q][fd].pipe].table = "used"
      BY DEF LiveEnds
    <3>1. u.fds[q][fd] \in Entries
      BY <1>2 DEF WorldOK, FdsOK
    <3>2. u.fds[q][fd].pipe \in PipeIds
      BY <3>1, EntryLemma
    <3>. QED BY <1>2, <3>2 DEF Flow, LiveEnds, Requeued
  <2>2. ASSUME NEW q \in Pids \ {p} PROVE ReadsFrom(u.fds, o, q)
    BY <1>2 DEF Flow, ReadsFrom
  <2>3. ASSUME NEW q \in Pids \ {p}, AtRead(u.k, q) PROVE Sleeper(u.pipes, o, q)
    <3>1. Sleeper(w.pipes, o, q)
      BY <1>2, <2>3 DEF Flow
    <3>. QED BY <1>2, <3>1 DEF Sleeper, Requeued
  <2>. QED BY <2>1, <2>2, <2>3 DEF Flow
<1>4. WorldOK(v, o) /\ Flow(v.k, v.pipes, v.fds, o, {p})
  BY <1>1, <1>2, <1>3, CloseAllFlow
<1>5. z.pipes = v.pipes /\ z.fds = v.fds /\ t = proc_kill(v.k, p)
  BY DEF DeathOf, u
<1>. HIDE DEF v
<1>6. ~ OnResource(t, p) /\ \A q \in Pids \ {p} : SameWait(v.k, t, q)
  BY <1>1, <1>4, <1>5, KillWaits DEF WorldOK
<1>7. c[p] = NoIo /\ \A q \in Pids \ {p} : c[q] = o[q]
  BY <1>1
<1>. HIDE DEF c
<1>8. ASSUME NEW q \in Pids PROVE ReadsFrom(z.fds, c, q) /\ (AtRead(t, q) => Sleeper(z.pipes, c, q))
  <2>1. CASE q = p
    BY <1>6, <1>7, <2>1 DEF ReadsFrom, NoIo, AtRead, OnResource, Resources
  <2>2. CASE q # p
    <3>1. ReadsFrom(v.fds, o, q) /\ (AtRead(v.k, q) => Sleeper(v.pipes, o, q)) /\ c[q] = o[q]
      BY <1>4, <1>7, <2>2 DEF Flow
    <3>2. AtRead(t, q) => AtRead(v.k, q)
      BY <1>6, <2>2 DEF SameWait, AtRead, OnResource, Resources
    <3>. QED BY <1>5, <3>1, <3>2 DEF ReadsFrom, Sleeper
  <2>. QED BY <2>1, <2>2
<1>9. LiveEnds(z.pipes, z.fds)
  BY <1>4, <1>5 DEF Flow
<1>. QED BY <1>8, <1>9 DEF Flow, c

LEMMA FlowFrame ==
  ASSUME NEW s, NEW t, NEW P, NEW F, NEW o, Flow(s, P, F, o, {}),
         \A u \in Pids : AtRead(t, u) => AtRead(s, u)
  PROVE  Flow(t, P, F, o, {})
BY DEF Flow

LEMMA WaitsFrame ==
  ASSUME NEW s, NEW t, SameWaits(s, t)
  PROVE  \A u \in Pids : AtRead(t, u) => AtRead(s, u)
BY DEF SameWaits, SameWait, OnResource, Resources, AtRead

\* Nobody has a pipe as standard input.
Quiet(F) == \A u \in Pids : F[u][0].type # "PIPE"

LEMMA QuietFlow ==
  ASSUME NEW s, NEW t, NEW P, NEW Q, NEW F, NEW G, NEW o, Flow(s, P, F, o, {}), Quiet(F),
         \A u \in Pids : AtRead(t, u) => AtRead(s, u), LiveEnds(Q, G)
  PROVE  Flow(t, Q, G, o, {})
<1>1. ASSUME NEW u \in Pids PROVE o[u].op # "read" /\ ~ AtRead(t, u)
  <2>1. ReadsFrom(F, o, u) /\ (AtRead(s, u) => Sleeper(P, o, u)) /\ F[u][0].type # "PIPE"
    BY DEF Flow, Quiet
  <2>. QED BY <2>1 DEF ReadsFrom, Sleeper, PipeEnd
<1>. QED BY <1>1 DEF Flow, ReadsFrom

-----------------------------------------------------------------------------
(* Who may hold ends of a pipe: the shell between pipe_open and close_fd,  *)
(* and the two programs of the pipeline until they have been waited for.   *)
(* This is what makes the pipe_close of the shell harmless.                *)
Piped(F, p) == {fd \in FdNums : F[p][fd].type = "PIPE"}

Bare(F) == \A p \in Pids : Piped(F, p) = {}

ShellAlive(s) == s.shell_pid # NULL /\ s.shell_pid \in Living(s)

\* The descriptors of the shell itself.
MayHold(sh) ==
  IF sh.pc \in {"open_write", "close_read"} THEN {sh.read_fd}
  ELSE IF sh.pc \in {"spawn_left", "spawn_right", "close_write"} THEN {sh.read_fd, sh.write_fd}
  ELSE {}

\* The left program, until the shell has waited for it, ...
Feeds(s, sh, p) ==
  /\ p = sh.left
  /\ \/ sh.pc \in {"spawn_right", "close_write", "close_read", "wait_left"}
     \/ sh.pc = "wait_right" /\ sh.command # "fg" /\ s.waitpid[s.shell_pid] = p

\* ... and the right one.
Drains(s, sh, p) ==
  /\ p = sh.right
  /\ \/ sh.pc \in {"close_write", "close_read", "wait_left"}
     \/ sh.pc = "wait_right" /\ sh.command # "fg"
     \/ sh.pc = "pipe_close" /\ s.waitpid[s.shell_pid] = p

Taking(s, F, sh, p) ==
  Piped(F, p) # {} =>
    /\ s.parent[p] = s.shell_pid
    /\ Feeds(s, sh, p) \/ Drains(s, sh, p)
    /\ F[p][0].type = "PIPE" => Drains(s, sh, p)

\* The shell has a standard input and output.
Tied(F, m) == F[m][0].type # "NONE" /\ F[m][1].type # "NONE"

Held(s, F, sh) ==
  /\ ~ ShellAlive(s) => Bare(F)
  /\ ShellAlive(s) =>
       /\ Tied(F, s.shell_pid) /\ Piped(F, s.shell_pid) \subseteq MayHold(sh)
       /\ \A p \in Pids \ {s.shell_pid} : Taking(s, F, sh, p)

\* The locals of the shell.
PipelinePcs ==
  {"create", "open_read", "open_write", "spawn_left", "spawn_right", "close_write",
   "close_read", "wait_left", "pipe_close"}

ShellSane(sh) ==
  /\ sh \in ShellRecords /\ sh.read_fd \notin {0, 1} /\ sh.write_fd \notin {0, 1}
  /\ sh.pc \in PipelinePcs => sh.command # "fg"

BarePcs == {"prompt", "reading", "loop", "fg", "bg", "create", "open_read"}

LEMMA HeldBare ==
  ASSUME NEW s, NEW F, NEW sh, Held(s, F, sh),
         \/ sh.pc \in BarePcs
         \/ sh.pc = "wait_right" /\ sh.command = "fg"
         \/ sh.pc = "pipe_close" /\ s.waitpid[s.shell_pid] = NoWait
  PROVE  Bare(F)
<1>. SUFFICES ASSUME ShellAlive(s), NEW p \in Pids PROVE Piped(F, p) = {}
  BY DEF Held, Bare
<1>1. CASE p = s.shell_pid
  BY <1>1 DEF Held, MayHold, BarePcs
<1>2. CASE p # s.shell_pid
  <2>1. p # NoWait
    BY PidsLemma DEF NoWait
  <2>2. ~ Feeds(s, sh, p) /\ ~ Drains(s, sh, p)
    BY <2>1 DEF Feeds, Drains, BarePcs
  <2>. QED BY <1>2, <2>2 DEF Held, Taking
<1>. QED BY <1>1, <1>2

LEMMA BareHeld ==
  ASSUME NEW s, NEW F, NEW sh, Bare(F), ShellAlive(s) => Tied(F, s.shell_pid)
  PROVE  Held(s, F, sh)
<1>1. ShellAlive(s) => s.shell_pid \in Pids
  BY DEF ShellAlive, Living
<1>. QED BY <1>1 DEF Held, Bare, Taking

LEMMA HeldQuiet ==
  ASSUME NEW s, NEW F, NEW sh, Held(s, F, sh), ShellSane(sh),
         sh.pc \in {"open_write", "spawn_left", "spawn_right"}
  PROVE  Quiet(F)
<1>0. 0 \in FdNums
  BY PipeAssumption DEF FdNums
<1>1. CASE ~ ShellAlive(s)
  BY <1>0, <1>1 DEF Held, Bare, Quiet, Piped
<1>2. CASE ShellAlive(s)
  <2>. SUFFICES ASSUME NEW p \in Pids, F[p][0].type = "PIPE" PROVE FALSE
    BY DEF Quiet
  <2>1. 0 \in Piped(F, p)
    BY <1>0 DEF Piped
  <2>2. CASE p = s.shell_pid
    BY <1>2, <2>1, <2>2 DEF Held, MayHold, ShellSane
  <2>3. CASE p # s.shell_pid
    BY <1>2, <2>1, <2>3 DEF Held, Taking, Drains
  <2>. QED BY <2>2, <2>3
<1>. QED BY <1>1, <1>2

LEMMA BareQuiet ==
  ASSUME NEW F, Bare(F)
  PROVE  Quiet(F) /\ \A P : LiveEnds(P, F)
<1>0. 0 \in FdNums
  BY PipeAssumption DEF FdNums
<1>. QED BY <1>0 DEF Bare, Quiet, Piped, LiveEnds

LEMMA HeldFrame ==
  ASSUME NEW s, NEW t, NEW F, NEW G, NEW sh, NEW sx, Held(s, F, sh),
         t.shell_pid = s.shell_pid, ShellAlive(s) <=> ShellAlive(t),
         \A p \in Pids : Piped(G, p) \subseteq Piped(F, p),
         ShellAlive(s) =>
           /\ Tied(G, s.shell_pid) /\ Piped(G, s.shell_pid) \subseteq MayHold(sx)
           /\ \A p \in Pids \ {s.shell_pid} : Piped(G, p) # {} =>
                /\ t.parent[p] = s.parent[p]
                /\ Feeds(s, sh, p) => Feeds(t, sx, p)
                /\ Drains(s, sh, p) => Drains(t, sx, p)
  PROVE  Held(t, G, sx)
<1>0. 0 \in FdNums
  BY PipeAssumption DEF FdNums
<1>1. CASE ~ ShellAlive(s)
  BY <1>1 DEF Held, Bare
<1>2. CASE ShellAlive(s)
  <2>. SUFFICES ASSUME NEW p \in Pids \ {s.shell_pid} PROVE Taking(t, G, sx, p)
    BY <1>2 DEF Held
  <2>1. Taking(s, F, sh, p)
    BY <1>2 DEF Held
  <2>2. G[p][0].type = "PIPE" => F[p][0].type = "PIPE"
    BY <1>0 DEF Piped
  <2>3. Piped(G, p) # {} => Piped(F, p) # {}
    OBVIOUS
  <2>. QED BY <1>2, <2>1, <2>2, <2>3 DEF Taking
<1>. QED BY <1>1, <1>2

LEMMA RowBare ==
  ASSUME NEW F, NEW p, F[p] = NoFds
  PROVE  Piped(F, p) = {}
BY DEF Piped, NoFds, NoFd, FdNums

LEMMA BuriedBare ==
  ASSUME NEW s, NEW F, NEW o, Buried(s, F, o), NEW p \in Pids, Piped(F, p) # {}
  PROVE  p \in Living(s)
<1>. SUFFICES ASSUME p \notin Living(s) PROVE FALSE
  OBVIOUS
<1>1. F[p] = NoFds
  BY DEF Buried
<1>. QED BY <1>1, RowBare

\* A step of the kernel that lets the shell, and what it waits for, alone.
LEMMA HeldSame ==
  ASSUME NEW s, NEW t, NEW F, NEW sh, NEW o, Held(s, F, sh), Buried(s, F, o),
         t.shell_pid = s.shell_pid, Living(t) = Living(s),
         \A p \in Living(s) : t.parent[p] = s.parent[p],
         ShellAlive(s) => t.waitpid[s.shell_pid] = s.waitpid[s.shell_pid]
  PROVE  Held(t, F, sh)
<1>1. \A p \in Pids : Piped(F, p) # {} => p \in Living(s)
  BY BuriedBare
<1>2. ShellAlive(s) <=> ShellAlive(t)
  BY DEF ShellAlive
<1>3. \A p : ShellAlive(s) => /\ Feeds(s, sh, p) => Feeds(t, sh, p)
                              /\ Drains(s, sh, p) => Drains(t, sh, p)
  BY DEF Feeds, Drains
<1>4. ShellAlive(s) => Tied(F, s.shell_pid) /\ Piped(F, s.shell_pid) \subseteq MayHold(sh)
  BY DEF Held
<1>. QED BY <1>1, <1>2, <1>3, <1>4, HeldFrame

-----------------------------------------------------------------------------
(* The invariant of a pipeline, for a user that types no name of a program *)
(* that does not exist and interrupts no shell that has children.          *)
Careful == ~ Orphans /\ Commands \cap {"typo_left", "typo_right"} = {}

PipelineInv ==
  PipeInv /\ Held(k, fds, shell) /\ ShellSane(shell) /\ Flow(k, pipes, fds, io, {})

\* Steps before and after which nobody holds an end.
LEMMA BareStep ==
  ASSUME PipelineInv, PipeInv', Bare(fds), Bare(fds'), ShellSane(shell'), UNCHANGED io,
         \A u \in Pids : AtRead(k', u) => AtRead(k, u),
         ShellAlive(k') => Tied(fds', k'.shell_pid)
  PROVE  PipelineInv'
<1>1. Held(k', fds', shell')
  BY BareHeld
<1>2. Flow(k', pipes', fds', io', {})
  <2>1. Flow(k', pipes', fds', io, {})
    BY BareQuiet, QuietFlow DEF PipelineInv
  <2>. QED BY <2>1
<1>. QED BY <1>1, <1>2 DEF PipelineInv

LEMMA SaneLemma ==
  ASSUME ShellSane(shell), NEW pc \in ShellPcs, GoesTo(pc),
         pc \in PipelinePcs => shell.command # "fg"
  PROVE  /\ ShellSane(shell') /\ shell'.pc = pc /\ shell'.command = shell.command
         /\ shell'.read_fd = shell.read_fd /\ shell'.write_fd = shell.write_fd
         /\ shell'.left = shell.left /\ shell'.right = shell.right
<1>1. shell \in ShellRecords /\ shell' = [shell EXCEPT !.pc = pc]
  BY DEF ShellSane, GoesTo
<1>2. /\ shell'.pc = pc /\ shell'.command = shell.command
      /\ shell'.read_fd = shell.read_fd /\ shell'.write_fd = shell.write_fd
      /\ shell'.left = shell.left /\ shell'.right = shell.right
  BY <1>1 DEF ShellRecords
<1>3. shell' \in ShellRecords
  BY <1>1, GoesToLemma DEF GoesTo
<1>. QED BY <1>2, <1>3 DEF ShellSane

LEMMA NewShellSane ==
  ShellSane(NewShell) /\ NewShell.pc = "prompt"
BY PidsLemma, PipeAssumption DEF ShellSane, NewShell, ShellRecords, ShellPcs, PipelinePcs, NULL

LEMMA ShellTied ==
  ASSUME PipelineInv, NEW pc, ShellAt(pc)
  PROVE  /\ ShellAlive(k) /\ Tied(fds, k.shell_pid) /\ Piped(fds, k.shell_pid) \subseteq MayHold(shell)
         /\ \A p \in Pids \ {k.shell_pid} : Taking(k, fds, shell, p)
         /\ shell.pc = pc /\ k.waitpid[k.shell_pid] = NoWait
<1>1. ShellAlive(k) /\ shell.pc = pc /\ k.waitpid[k.shell_pid] = NoWait
  BY ShellRuns DEF PipelineInv, ShellAlive, me
<1>. QED BY <1>1 DEF PipelineInv, Held

LEMMA PromptPipeline ==
  ASSUME PipelineInv, Prompt
  PROVE  PipelineInv'
<1>1. PipeInv /\ PipeInv' /\ Good(world, io) /\ world.k = k /\ UNCHANGED <<pipes, fds, io>>
  BY PromptStep, WorldLemma DEF PipelineInv, PipeInv, Prompt
<1>2. /\ ShellAlive(k) /\ Tied(fds, k.shell_pid) /\ shell.pc = "prompt"
      /\ me \in Pids \ {0} /\ me = k.current /\ me = k.shell_pid
  BY <1>1, ShellTied, ShellRuns DEF Prompt, me
<1>3. Bare(fds) /\ ShellSane(shell)
  BY <1>2, HeldBare DEF PipelineInv, BarePcs
<1>4. ShellSane(shell')
  BY <1>3, SaneLemma DEF Prompt, ShellPcs, PipelinePcs
<1>5. CASE k' = block_current(k, "TERMINAL", "resource")
  <2>1. Is(world', k', world.pipes, world.fds)
    BY <1>1, SamePipesLemma
  <2>2. /\ SameTree(k, k') /\ \A u \in Pids \ {me} : SameWait(k, k', u)
        /\ k'.block_reason[me] = "TERMINAL"
    <3>1. me \in Pids \ {0} /\ me = world.k.current
          /\ k' = block_current(world.k, "TERMINAL", "resource")
      BY <1>1, <1>2, <1>5
    <3>2. /\ Good(world', io) /\ SameTree(world.k, k')
          /\ Living(k') = Living(world.k) /\ Alive(k') = Alive(world.k)
          /\ \A u \in Pids \ {me} : SameWait(world.k, k', u)
          /\ k'.status[me] = "BLOCKED" /\ k'.block_reason[me] = "TERMINAL"
      BY <1>1, <2>1, <3>1, PromptGood
    <3>. QED BY <1>1, <3>2
  <2>3. \A u \in Pids : AtRead(k', u) => AtRead(k, u)
    BY <2>2 DEF AtRead, SameWait, OnResource, Resources
  <2>. QED BY <1>1, <1>2, <1>3, <1>4, <2>2, <2>3, BareStep DEF SameTree
<1>6. CASE UNCHANGED k
  BY <1>1, <1>2, <1>3, <1>4, <1>6, BareStep
<1>. QED BY <1>5, <1>6 DEF Prompt

LEMMA EnterPipeline ==
  ASSUME PipelineInv, Enter
  PROVE  PipelineInv'
<1>1. /\ PipeInv /\ PipeInv' /\ Good(world, io) /\ world.k = k /\ UNCHANGED <<pipes, fds, io>>
      /\ shell.pc = "reading" /\ k.status[me] = "BLOCKED" /\ me = k.shell_pid /\ me # NULL
      /\ k' = proc_ready(k, me)
  BY EnterStep, WorldLemma DEF PipelineInv, PipeInv, Enter, me
<1>2. me \in Pids
  BY <1>1 DEF Good, Known, Alive
<1>3. ShellAlive(k)
  BY <1>1, <1>2 DEF ShellAlive, Living
<1>4. Bare(fds) /\ ShellSane(shell) /\ Tied(fds, k.shell_pid)
  BY <1>1, <1>3, HeldBare DEF PipelineInv, BarePcs, Held
<1>5. ShellSane(shell')
  <2>1. PICK c \in Commands : shell' = [shell EXCEPT !.command = c,
                                 !.pc = IF c \in {"fg", "bg"} THEN c ELSE "create"]
    BY DEF Enter
  <2>2. shell \in ShellRecords /\ shell' \in ShellRecords
    BY <1>1, <1>4 DEF ShellSane, PipeInv
  <2>3. /\ shell'.pc = IF c \in {"fg", "bg"} THEN c ELSE "create"
        /\ shell'.command = c
        /\ shell'.read_fd = shell.read_fd /\ shell'.write_fd = shell.write_fd
    BY <2>1, <2>2 DEF ShellRecords
  <2>. QED BY <1>4, <2>2, <2>3 DEF ShellSane, PipelinePcs
<1>6. Is(world', k', world.pipes, world.fds)
  BY <1>1, SamePipesLemma
<1>7. /\ SameTree(k, k') /\ \A u \in Pids \ {me} : Undisturbed(k, k', u)
      /\ k'.status[me] = "READY"
  BY <1>1, <1>2, <1>6, EnterGood
<1>8. \A u \in Pids : AtRead(k', u) => AtRead(k, u)
  BY <1>7 DEF AtRead, Undisturbed
<1>. QED BY <1>1, <1>3, <1>4, <1>5, <1>7, <1>8, BareStep DEF SameTree

LEMMA DefaultBare ==
  ASSUME NEW F, FdsOK(F), NEW p \in Pids
  PROVE  LET G == [F EXCEPT ![p] = DefaultRow]
         IN  Piped(G, p) = {} /\ Tied(G, p) /\ \A u \in Pids \ {p} : G[u] = F[u]
<1>. DEFINE G == [F EXCEPT ![p] = DefaultRow]
<1>1. G[p] = DefaultRow /\ \A u \in Pids \ {p} : G[u] = F[u]
  BY DEF FdsOK
<1>2. 0 \in FdNums /\ 1 \in FdNums
  BY PipeAssumption DEF FdNums
<1>3. \A fd \in FdNums : DefaultRow[fd] \in {Terminal, NoFd}
  BY DEF DefaultRow
<1>4. DefaultRow[0] = Terminal /\ DefaultRow[1] = Terminal
  BY <1>2 DEF DefaultRow
<1>5. Terminal.type = "TERMINAL" /\ NoFd.type = "NONE"
  BY DEF Terminal, NoFd
<1>. HIDE DEF G
<1>. QED BY <1>1, <1>3, <1>4, <1>5 DEF Piped, Tied, G

LEMMA RunPipeline ==
  ASSUME PipelineInv, RunForeground \/ RunBackground
  PROVE  PipelineInv'
<1>1. /\ PipeInv /\ PipeInv' /\ Good(world, io) /\ world.k = k /\ world.fds = fds
      /\ UNCHANGED io /\ ShellSane(shell)
  BY RunStep, WorldLemma DEF PipelineInv, PipeInv, RunForeground, RunBackground
<1>2. /\ ShellAlive(k) /\ Tied(fds, k.shell_pid) /\ shell.pc \in {"fg", "bg"}
      /\ k.shell_pid \in Living(k)
  BY ShellTied DEF RunForeground, RunBackground, ShellAlive
<1>3. Bare(fds)
  BY <1>2, HeldBare DEF PipelineInv, BarePcs
<1>4. ShellSane(shell')
  <2>1. CASE RunBackground
    BY <1>1, <2>1, SaneLemma DEF RunBackground, ShellPcs, PipelinePcs
  <2>2. CASE RunForeground
    <3>1. shell' = [shell EXCEPT !.pc = "wait_right", !.right = proc_pid_alloc(k)]
      BY <2>2 DEF RunForeground
    <3>2. shell \in ShellRecords /\ shell' \in ShellRecords
      BY <1>1 DEF PipeInv
    <3>3. shell'.pc = "wait_right" /\ shell'.read_fd = shell.read_fd
          /\ shell'.write_fd = shell.write_fd
      BY <3>1, <3>2 DEF ShellRecords
    <3>. QED BY <1>1, <3>2, <3>3 DEF ShellSane, PipelinePcs
  <2>. QED BY <2>1, <2>2
<1>5. PICK b : Becomes(spawn_default(world, b))
  BY DEF RunForeground, RunBackground
<1>. DEFINE v == spawn_default(world, b)
            p == proc_pid_alloc(k)
<1>6. Good(v, io) /\ DefaultSpawn(world, v, p, b)
  BY <1>1, SpawnDefaultGood
<1>. HIDE DEF v, p
<1>7. k' = v.k /\ fds' = v.fds
  <2>1. world' = v
    BY <1>5, <1>6, BecomesLemma DEF Good, WorldOK, v
  <2>. QED BY <2>1, WorldLemma
<1>8. SpawnedAs(k, k', p, b)
  BY <1>1, <1>6, <1>7 DEF DefaultSpawn
<1>9. \A u \in Pids : AtRead(k', u) => AtRead(k, u)
  BY <1>8, WaitsFrame DEF SpawnedAs
<1>10. Bare(fds') /\ Tied(fds', k.shell_pid)
  <2>1. CASE p = NULL
    BY <1>1, <1>2, <1>3, <1>6, <1>7, <2>1 DEF DefaultSpawn
  <2>2. CASE p # NULL
    <3>1. fds' = [fds EXCEPT ![p] = DefaultRow] /\ p \in Pids \ Alive(k)
      BY <1>1, <1>6, <1>7, <1>8, <2>2 DEF DefaultSpawn, SpawnedAs
    <3>2. Piped(fds', p) = {} /\ \A u \in Pids \ {p} : fds'[u] = fds[u]
      <4>1. FdsOK(fds)
        BY <1>1 DEF Good, WorldOK
      <4>2. LET G == [fds EXCEPT ![p] = DefaultRow]
            IN  Piped(G, p) = {} /\ Tied(G, p) /\ \A u \in Pids \ {p} : G[u] = fds[u]
        BY <3>1, <4>1, DefaultBare
      <4>. QED BY <3>1, <4>2
    <3>3. k.shell_pid \in Pids \ {p}
      BY <1>2, <3>1 DEF Living, Alive
    <3>. QED BY <1>2, <1>3, <3>2, <3>3 DEF Bare, Piped, Tied
  <2>. QED BY <2>1, <2>2
<1>11. k'.shell_pid = k.shell_pid
  BY <1>8 DEF SpawnedAs
<1>. QED BY <1>1, <1>3, <1>4, <1>9, <1>10, <1>11, BareStep

LEMMA CreatePipeline ==
  ASSUME PipelineInv, Create
  PROVE  PipelineInv'
<1>1. /\ PipeInv /\ PipeInv' /\ Good(world, io) /\ world.k = k /\ world.fds = fds
      /\ UNCHANGED io /\ ShellSane(shell) /\ Becomes(create_pipe(world))
  BY CreateStep, WorldLemma DEF PipelineInv, PipeInv, Create
<1>2. Tied(fds, k.shell_pid) /\ shell.pc = "create"
  BY ShellTied DEF Create
<1>3. Bare(fds)
  BY <1>2, HeldBare DEF PipelineInv, BarePcs
<1>4. ShellSane(shell')
  BY <1>1, <1>2, SaneLemma DEF Create, ShellPcs, PipelinePcs, ShellSane
<1>5. Good(create_pipe(world), io) /\ Created(world, create_pipe(world))
  BY <1>1, CreateGood
<1>6. UNCHANGED <<k, fds>>
  <2>1. world' = create_pipe(world)
    BY <1>1, <1>5, BecomesLemma DEF Created
  <2>. QED BY <1>1, <1>5, <2>1, WorldLemma DEF Created
<1>. QED BY <1>1, <1>2, <1>3, <1>4, <1>6, BareStep

\* sys_pipe_close looks at no count; when the shell calls it both programs
\* have been waited for, and it finds no holder.
LEMMA PipeClosePipeline ==
  ASSUME PipelineInv, PipeClose
  PROVE  PipelineInv'
<1>1. /\ PipeInv /\ PipeInv' /\ Good(world, io) /\ world.k = k /\ world.fds = fds
      /\ UNCHANGED io /\ shell' = NewShell /\ Becomes(sys_pipe_close(world))
  BY PipeCloseStep, WorldLemma DEF PipelineInv, PipeInv, PipeClose
<1>2. Tied(fds, k.shell_pid) /\ shell.pc = "pipe_close" /\ k.waitpid[k.shell_pid] = NoWait
  BY ShellTied DEF PipeClose
<1>3. Bare(fds)
  BY <1>2, HeldBare DEF PipelineInv
<1>4. ShellSane(shell')
  BY <1>1, NewShellSane
<1>5. Good(sys_pipe_close(world), io) /\ sys_pipe_close(world).k = world.k
      /\ sys_pipe_close(world).fds = world.fds
  BY <1>1, PipeCloseGood
<1>6. UNCHANGED <<k, fds>>
  <2>1. world' = sys_pipe_close(world)
    BY <1>1, <1>5, BecomesLemma DEF Good, WorldOK
  <2>. QED BY <1>1, <1>5, <2>1, WorldLemma
<1>. QED BY <1>1, <1>2, <1>3, <1>4, <1>6, BareStep

LEMMA StartPipeline ==
  ASSUME PipelineInv, StartShell
  PROVE  PipelineInv'
<1>. DEFINE a == spawn_default(world, FALSE)
            p == proc_pid_alloc(k)
            x == [a EXCEPT !.k.shell_pid = p]
<1>1. /\ PipeInv /\ PipeInv' /\ Good(world, io) /\ world.k = k /\ world.fds = fds
      /\ UNCHANGED io /\ shell' = NewShell /\ Becomes(x) /\ k.shell_pid = NULL
  BY StartStep, WorldLemma DEF PipelineInv, PipeInv, StartShell
<1>2. Bare(fds)
  BY <1>1 DEF PipelineInv, Held, ShellAlive
<1>3. ShellSane(shell')
  BY <1>1, NewShellSane
<1>4. Good(a, io) /\ DefaultSpawn(world, a, p, FALSE)
  BY <1>1, SpawnDefaultGood
<1>. HIDE DEF a, p
<1>5. Is(x, [a.k EXCEPT !.shell_pid = p], a.pipes, a.fds)
  <2>1. World(a)
    BY <1>4 DEF Good, WorldOK
  <2>. QED BY ONLY <2>1 DEF Is, World, WorldFields
<1>. HIDE DEF x
<1>6. k' = [a.k EXCEPT !.shell_pid = p] /\ fds' = a.fds
  <2>1. world' = x
    BY <1>1, <1>5, BecomesLemma DEF Is
  <2>. QED BY <1>5, <2>1, WorldLemma DEF Is
<1>7. SameWaits(k, a.k) /\ Shape(a.k)
  BY <1>1, <1>4 DEF DefaultSpawn, SpawnedAs, Good, WorldOK, Inv, Core, Queues, Types
<1>8. k'.status = a.k.status /\ k'.block_reason = a.k.block_reason /\ k'.shell_pid = p
  BY ONLY <1>6, <1>7 DEF Shape, Fields
<1>9. \A u \in Pids : AtRead(k', u) => AtRead(k, u)
  BY <1>7, <1>8, WaitsFrame DEF AtRead
<1>10. Bare(fds') /\ (p # NULL => Tied(fds', p))
  <2>1. CASE p = NULL
    BY <1>1, <1>2, <1>4, <1>6, <2>1 DEF DefaultSpawn
  <2>2. CASE p # NULL
    <3>1. fds' = [fds EXCEPT ![p] = DefaultRow] /\ p \in Pids
      BY <1>1, <1>4, <1>6, <2>2 DEF DefaultSpawn, SpawnedAs
    <3>2. Piped(fds', p) = {} /\ Tied(fds', p) /\ \A u \in Pids \ {p} : fds'[u] = fds[u]
      <4>1. FdsOK(fds)
        BY <1>1 DEF Good, WorldOK
      <4>2. LET G == [fds EXCEPT ![p] = DefaultRow]
            IN  Piped(G, p) = {} /\ Tied(G, p) /\ \A u \in Pids \ {p} : G[u] = fds[u]
        BY <3>1, <4>1, DefaultBare
      <4>. QED BY <3>1, <4>2
    <3>. QED BY <1>2, <3>2 DEF Bare, Piped
  <2>. QED BY <2>1, <2>2
<1>. QED BY <1>1, <1>2, <1>3, <1>8, <1>9, <1>10, BareStep DEF ShellAlive

\* What a pipe_open of process m, with the result fd, leaves behind.
OpenedAs(w, v, m, fd) ==
  /\ v.k = w.k /\ fd \in FdNums \cup {-1} /\ fd \notin {0, 1}
  /\ Tied(v.fds, m) /\ Piped(v.fds, m) \subseteq Piped(w.fds, m) \cup {fd}
  /\ \A u \in Pids \ {m} : v.fds[u] = w.fds[u]
  /\ LiveEnds(v.pipes, v.fds)

LEMMA OpenLive ==
  ASSUME NEW w, NEW o, Good(w, o), NEW m \in Living(w.k), NEW end \in Ends,
         Tied(w.fds, m), LiveEnds(w.pipes, w.fds)
  PROVE  Good(sys_pipe_open(w, m, end), o)
         /\ OpenedAs(w, sys_pipe_open(w, m, end), m, opened_fd(w, m))
<1>. DEFINE v == sys_pipe_open(w, m, end)
            fd == opened_fd(w, m)
<1>0. 0 \in FdNums /\ 1 \in FdNums /\ -1 \notin {0, 1} /\ m \in Pids
  BY PipeAssumption DEF FdNums, Living
<1>1. /\ Good(v, o) /\ fd \in FdNums \cup {-1}
      /\ \/ v = w /\ fd = -1
         \/ /\ fd = find_free_fd(w, m) /\ fd \in FdNums /\ w.fds[m][fd].type = "NONE"
            /\ Opened(w, v, m, fd, end)
  BY OpenGood
<1>. HIDE DEF v, fd
<1>2. CASE v = w /\ fd = -1
  BY <1>0, <1>1, <1>2 DEF OpenedAs, v, fd
<1>3. CASE fd \in FdNums /\ w.fds[m][fd].type = "NONE" /\ Opened(w, v, m, fd, end)
  <2>0. PICK i \in PipeIds : \E u :
          /\ Created(w, u) \/ u = w
          /\ World(v) /\ v.k = w.k /\ u.pipes[i].table = "used" /\ SamePipes(u.pipes, v.pipes)
          /\ v.fds = [w.fds EXCEPT ![m][fd] = PipeEnd(i, end)]
    BY <1>3 DEF Opened
  <2>1. PICK u :
          /\ Created(w, u) \/ u = w
          /\ World(v) /\ v.k = w.k /\ u.pipes[i].table = "used" /\ SamePipes(u.pipes, v.pipes)
          /\ v.fds = [w.fds EXCEPT ![m][fd] = PipeEnd(i, end)]
    BY <2>0
  <2>. DEFINE e == PipeEnd(i, end)
              F == w.fds
              G == [F EXCEPT ![m][fd] = e]
  <2>2. e \in Entries /\ e.type = "PIPE" /\ e.pipe = i
    BY DEF Entries, PipeEnd
  <2>3. FdsOK(F)
    BY DEF Good, WorldOK
  <2>. HIDE DEF e
  <2>4. /\ G[m][fd] = e /\ \A g \in FdNums \ {fd} : G[m][g] = F[m][g]
        /\ \A q \in Pids \ {m} : G[q] = F[q]
    <3>. HIDE DEF F
    <3>1. fd \in FdNums
      BY <1>3
    <3>. QED BY <1>0, <2>3, <3>1 DEF FdsOK
  <2>5. v.fds = G
    BY <2>1 DEF e
  <2>. HIDE DEF G, F
  <2>6. fd \notin {0, 1}
    BY <1>3 DEF Tied
  <2>7. Tied(G, m) /\ Piped(G, m) \subseteq Piped(F, m) \cup {fd}
    BY <1>0, <2>4, <2>6 DEF Tied, Piped, F
  <2>8. ASSUME NEW j \in PipeIds, w.pipes[j].table = "used"
        PROVE  v.pipes[j].table = "used"
    <3>1. u.pipes[j].table = "used"
      BY <2>1, <2>8 DEF Created
    <3>. QED BY <2>1, <3>1 DEF SamePipes, SamePipe
  <2>9. v.pipes[i].table = "used"
    BY <2>1 DEF SamePipes, SamePipe
  <2>10. LiveEnds(v.pipes, G)
    <3>. SUFFICES ASSUME NEW q \in Pids, NEW g \in FdNums, G[q][g].type = "PIPE"
                  PROVE  v.pipes[G[q][g].pipe].table = "used"
      BY DEF LiveEnds
    <3>1. CASE q = m /\ g = fd
      BY <2>2, <2>4, <2>9, <3>1
    <3>2. CASE ~ (q = m /\ g = fd)
      <4>1. G[q][g] = F[q][g] /\ F[q][g] \in Entries
        BY <2>3, <2>4, <3>2 DEF FdsOK
      <4>2. F[q][g].pipe \in PipeIds
        BY <4>1, EntryLemma
      <4>3. w.pipes[F[q][g].pipe].table = "used"
        BY <4>1 DEF LiveEnds, F
      <4>. QED BY <2>8, <4>1, <4>2, <4>3
    <3>. QED BY <3>1, <3>2
  <2>. QED BY <1>1, <1>3, <2>1, <2>4, <2>5, <2>6, <2>7, <2>10 DEF OpenedAs, v, fd, F
<1>. QED BY <1>1, <1>2, <1>3

LEMMA OpenPipeline ==
  ASSUME PipelineInv, OpenRead \/ OpenWrite
  PROVE  PipelineInv'
<1>. DEFINE m == k.shell_pid
            fd == opened_fd(world, me)
<1>1. /\ PipeInv /\ PipeInv' /\ Good(world, io) /\ world.k = k /\ world.fds = fds
      /\ world.pipes = pipes /\ UNCHANGED io /\ ShellSane(shell) /\ me = m
      /\ Flow(k, pipes, fds, io, {})
  BY OpenStep, WorldLemma DEF PipelineInv, PipeInv, OpenRead, OpenWrite, me
<1>2. /\ ShellAlive(k) /\ Tied(fds, m) /\ Piped(fds, m) \subseteq MayHold(shell)
      /\ \A p \in Pids \ {m} : Taking(k, fds, shell, p)
      /\ shell.pc \in {"open_read", "open_write"}
  BY ShellTied DEF OpenRead, OpenWrite
<1>3. PICK end \in Ends : Becomes(sys_pipe_open(world, me, end))
  BY DEF OpenRead, OpenWrite, Ends
<1>. DEFINE v == sys_pipe_open(world, me, end)
<1>4. Good(v, io) /\ OpenedAs(world, v, me, fd)
  <2>1. me \in Living(world.k) /\ Tied(world.fds, me) /\ LiveEnds(world.pipes, world.fds)
    BY <1>1, <1>2 DEF ShellAlive, Flow
  <2>. QED BY <1>1, <2>1, OpenLive
<1>. HIDE DEF v, fd
<1>5. k' = v.k /\ fds' = v.fds /\ pipes' = v.pipes
  <2>1. world' = v
    BY <1>3, <1>4, BecomesLemma DEF Good, WorldOK, v
  <2>. QED BY <2>1, WorldLemma
<1>6. /\ k' = k /\ fd \in FdNums \cup {-1} /\ fd \notin {0, 1}
      /\ Tied(fds', m) /\ Piped(fds', m) \subseteq Piped(fds, m) \cup {fd}
      /\ \A u \in Pids \ {m} : fds'[u] = fds[u]
      /\ LiveEnds(pipes', fds')
  BY <1>1, <1>4, <1>5 DEF OpenedAs
<1>7. Quiet(fds)
  <2>1. CASE shell.pc = "open_read"
    BY <2>1, HeldBare, BareQuiet DEF PipelineInv, BarePcs
  <2>2. CASE shell.pc = "open_write"
    BY <2>2, HeldQuiet DEF PipelineInv
  <2>. QED BY <1>2, <2>1, <2>2
<1>8. Flow(k', pipes', fds', io', {})
  BY <1>1, <1>6, <1>7, QuietFlow
<1>9. shell \in ShellRecords /\ shell' \in ShellRecords
  BY <1>1 DEF PipeInv
<1>10. /\ ShellSane(shell')
       /\ Piped(fds', m) \subseteq MayHold(shell')
  <2>1. CASE OpenRead
    <3>1. shell.pc = "open_read" /\ shell' = [shell EXCEPT !.pc = "open_write", !.read_fd = fd]
      BY <2>1 DEF OpenRead, ShellAt, fd
    <3>2. /\ shell'.pc = "open_write" /\ shell'.read_fd = fd
          /\ shell'.write_fd = shell.write_fd /\ shell'.command = shell.command
      BY <1>9, <3>1 DEF ShellRecords
    <3>3. Piped(fds, m) = {}
      BY <1>2, <3>1 DEF MayHold
    <3>. QED BY <1>1, <1>6, <1>9, <3>1, <3>2, <3>3 DEF ShellSane, MayHold, PipelinePcs
  <2>2. CASE OpenWrite
    <3>1. shell.pc = "open_write" /\ shell' = [shell EXCEPT !.pc = "spawn_left", !.write_fd = fd]
      BY <2>2 DEF OpenWrite, ShellAt, fd
    <3>2. /\ shell'.pc = "spawn_left" /\ shell'.read_fd = shell.read_fd
          /\ shell'.write_fd = fd /\ shell'.command = shell.command
      BY <1>9, <3>1 DEF ShellRecords
    <3>3. Piped(fds, m) \subseteq {shell.read_fd}
      BY <1>2, <3>1 DEF MayHold
    <3>. QED BY <1>1, <1>6, <1>9, <3>1, <3>2, <3>3 DEF ShellSane, MayHold, PipelinePcs
  <2>. QED BY <2>1, <2>2
<1>11. \A p \in Pids \ {m} : Piped(fds', p) = {}
  <2>. SUFFICES ASSUME NEW p \in Pids \ {m} PROVE Piped(fds', p) = {}
    OBVIOUS
  <2>1. ~ Feeds(k, shell, p) /\ ~ Drains(k, shell, p)
    BY <1>2 DEF Feeds, Drains
  <2>2. Piped(fds, p) = {}
    BY <1>2, <2>1 DEF Taking
  <2>. QED BY <1>6, <2>2 DEF Piped
<1>12. Held(k', fds', shell')
  BY <1>2, <1>6, <1>10, <1>11 DEF Held, Taking
<1>. QED BY <1>1, <1>8, <1>10, <1>12 DEF PipelineInv

\* Two descriptors of the shell are handed to a new program.
LEMMA SpawnLive ==
  ASSUME PipelineInv, NEW pc \in {"spawn_left", "spawn_right"}, ShellAt(pc),
         NEW a \in FdNums \cup {-1}, NEW b \in FdNums \cup {-1}, NEW background,
         Becomes(spawn_with(world, <<a, b, -1>>, background)), UNCHANGED io,
         NEW p, p = proc_pid_alloc(k)
  PROVE  /\ k'.shell_pid = k.shell_pid /\ ShellAlive(k') /\ p # k.shell_pid
         /\ \A u \in Pids \ {p} : fds'[u] = fds[u] /\ k'.parent[u] = k.parent[u]
         /\ p \in Pids => /\ k'.parent[p] = k.shell_pid
                          /\ fds'[p][0].type = "PIPE" =>
                               a \in FdNums /\ fds[k.shell_pid][a].type = "PIPE"
         /\ Flow(k', pipes', fds', io', {})
<1>. DEFINE m == k.shell_pid
            list == <<a, b, -1>>
            v == spawn_with(world, list, background)
<1>0. 0 \in FdNums
  BY PipeAssumption DEF FdNums
<1>1. /\ PipeInv /\ Good(world, io) /\ world.k = k /\ world.fds = fds /\ world.pipes = pipes
      /\ Flow(k, pipes, fds, io, {}) /\ Held(k, fds, shell) /\ ShellSane(shell)
  BY WorldLemma DEF PipelineInv, PipeInv
<1>2. /\ ShellAlive(k) /\ m \in Living(k) /\ m \in Pids /\ k.current = m /\ shell.pc = pc
  BY <1>1, ShellRuns, ShellTied DEF me, ShellAlive
<1>3. /\ list \in Seq(FdNums \cup {-1}) /\ Len(list) = 3 /\ Len(list) <= FD_MAX
      /\ list[1] = a /\ list[2] = b /\ list[3] = -1
      /\ \E i \in 1..Len(list) : list[i] < 0
  BY ListLemma
<1>. HIDE DEF list
<1>4. Good(v, io) /\ ListSpawn(world, v, p, list, background)
  <2>1. world.k.current \in Pids
    BY <1>1, <1>2
  <2>2. Good(v, io) /\ ListSpawn(world, v, proc_pid_alloc(world.k), list, background)
    BY <1>1, <1>3, <2>1, SpawnWithGood
  <2>. QED BY <1>1, <2>2
<1>. HIDE DEF v
<1>5. k' = v.k /\ fds' = v.fds /\ pipes' = v.pipes
  <2>1. world' = v
    BY <1>4, BecomesLemma DEF Good, WorldOK, v, list
  <2>. QED BY <2>1, WorldLemma
<1>6. SpawnedAs(k, k', p, background)
  BY <1>1, <1>4, <1>5 DEF ListSpawn
<1>7. Quiet(fds) /\ LiveEnds(pipes, fds) /\ (\A u \in Pids : AtRead(k', u) => AtRead(k, u))
      /\ k'.shell_pid = m
  BY <1>1, <1>2, <1>6, HeldQuiet, WaitsFrame DEF Flow, SpawnedAs
<1>8. CASE p = NULL
  <2>1. fds' = fds /\ pipes' = pipes /\ k' = fault(k) /\ p \notin Pids
    BY <1>1, <1>4, <1>5, <1>6, <1>8, PidsLemma DEF ListSpawn, SpawnedAs
  <2>2. Shape(k)
    BY <1>1 DEF Good, WorldOK, Inv, Core, Queues, Types
  <2>3. k'.status = k.status /\ k'.parent = k.parent
    BY ONLY <2>1, <2>2 DEF fault, Shape, Fields
  <2>4. Flow(k', pipes', fds', io', {})
    BY <1>1, <1>7, <2>1, QuietFlow
  <2>. QED BY <1>2, <1>7, <2>1, <2>3, <2>4 DEF ShellAlive, Living
<1>9. CASE p # NULL
  <2>1. PICK x : Inherited(world, x, p, m, list) /\ pipes' = x.pipes /\ fds' = x.fds
    BY <1>1, <1>2, <1>4, <1>5, <1>9 DEF ListSpawn
  <2>2. p \in Pids \ Alive(k) /\ Spawned(k, k', p)
    BY <1>6, <1>9 DEF SpawnedAs
  <2>3. k.status \in [Pids -> Statuses] /\ k.parent \in [Pids -> Pids \cup {NULL}]
    BY <1>1 DEF Good, WorldOK, Inv, Core, Queues, Types
  <2>4. p # m /\ ShellAlive(k')
    <3>1. p # m
      BY <1>2, <2>2 DEF Living, Alive
    <3>2. k'.status[m] = k.status[m]
      BY <1>2, <2>2, <2>3, <3>1 DEF Spawned
    <3>. QED BY <1>2, <1>7, <3>1, <3>2 DEF ShellAlive, Living
  <2>5. k'.parent[p] = m /\ \A u \in Pids \ {p} : k'.parent[u] = k.parent[u]
    BY <1>2, <2>2, <2>3 DEF Spawned
  <2>6. PICK n \in Nat :
          /\ n + 1 <= Len(list) /\ list[n + 1] < 0 /\ \A i \in 1..n : list[i] \in FdNums
          /\ fds'[p] = [fd \in FdNums |-> IF fd < n THEN fds[m][list[fd + 1]] ELSE NoFd]
    BY <1>1, <2>1 DEF Inherited
  <2>7. SamePipes(pipes, pipes') /\ \A u \in Pids \ {p} : fds'[u] = fds[u]
    BY <1>1, <2>1 DEF Inherited
  <2>8. NoFd.type # "PIPE"
    BY DEF NoFd
  <2>9. ASSUME NEW fd \in FdNums, fds'[p][fd].type = "PIPE"
        PROVE  list[fd + 1] \in FdNums /\ fds'[p][fd] = fds[m][list[fd + 1]]
    <3>1. fd \in Nat
      BY PipeAssumption DEF FdNums
    <3>2. fds'[p][fd] = IF fd < n THEN fds[m][list[fd + 1]] ELSE NoFd
      BY <2>6
    <3>3. fd < n
      BY <2>8, <2>9, <3>2
    <3>4. fd + 1 \in 1..n
      BY <3>1, <3>3
    <3>. QED BY <2>6, <3>2, <3>3, <3>4
  <2>10. fds'[p][0].type = "PIPE" => a \in FdNums /\ fds[m][a].type = "PIPE"
    <3>1. 0 + 1 = 1
      OBVIOUS
    <3>. QED BY <1>0, <1>3, <2>9, <3>1
  <2>11. LiveEnds(pipes', fds')
    <3>. SUFFICES ASSUME NEW q \in Pids, NEW g \in FdNums, fds'[q][g].type = "PIPE"
                  PROVE  pipes'[fds'[q][g].pipe].table = "used"
      BY DEF LiveEnds
    <3>1. PICK r \in Pids, h \in FdNums : fds'[q][g] = fds[r][h]
      <4>1. CASE q = p
        BY <1>2, <2>9, <4>1
      <4>2. CASE q # p
        BY <2>7, <4>2
      <4>. QED BY <4>1, <4>2
    <3>2. fds[r][h] \in Entries
      BY <1>1 DEF Good, WorldOK, FdsOK
    <3>3. fds[r][h].pipe \in PipeIds /\ pipes[fds[r][h].pipe].table = "used"
      BY <1>7, <3>1, <3>2, EntryLemma DEF LiveEnds
    <3>. QED BY <2>7, <3>1, <3>3 DEF SamePipes, SamePipe
  <2>12. Flow(k', pipes', fds', io', {})
    BY <1>1, <1>7, <2>11, QuietFlow
  <2>. QED BY <1>7, <2>4, <2>5, <2>7, <2>10, <2>12
<1>. QED BY <1>8, <1>9

LEMMA SpawnPipeline ==
  ASSUME PipelineInv, Careful, SpawnLeft \/ SpawnRight
  PROVE  PipelineInv'
<1>. DEFINE m == k.shell_pid
            p == proc_pid_alloc(k)
<1>1. /\ PipeInv' /\ ShellSane(shell) /\ shell \in ShellRecords /\ shell' \in ShellRecords
      /\ UNCHANGED io /\ p \in Pids \cup {NULL}
  <2>1. PipeInv /\ PipeInv' /\ ShellSane(shell)
    BY SpawnStep DEF PipelineInv
  <2>. QED BY <2>1, PidAlloc DEF PipeInv, SpawnLeft, SpawnRight
<1>2. shell.command \notin {"typo_left", "typo_right"}
  BY <1>1 DEF Careful, ShellRecords
<1>3. 0 \in FdNums \cup {-1} /\ 1 \in FdNums \cup {-1} /\ shell.read_fd \in FdNums \cup {-1}
      /\ shell.write_fd \in FdNums \cup {-1} /\ m \in Pids
  <2>1. 0 \in FdNums /\ 1 \in FdNums
    BY PipeAssumption DEF FdNums
  <2>2. shell.read_fd \in FdNums \cup {-1} /\ shell.write_fd \in FdNums \cup {-1}
    BY <1>1 DEF ShellRecords
  <2>3. m \in Pids
    BY ShellRuns DEF PipelineInv, SpawnLeft, SpawnRight, me
  <2>. QED BY <2>1, <2>2, <2>3
<1>. HIDE DEF p
<1>4. CASE SpawnLeft
  <2>1. /\ ShellAt("spawn_left") /\ Becomes(spawn_with(world, <<0, shell.write_fd, -1>>, FALSE))
        /\ shell' = [shell EXCEPT !.pc = "spawn_right", !.left = p]
    BY <1>2, <1>4 DEF SpawnLeft, p
  <2>2. /\ shell'.pc = "spawn_right" /\ shell'.left = p /\ shell'.command = shell.command
        /\ shell'.read_fd = shell.read_fd /\ shell'.write_fd = shell.write_fd
    BY <1>1, <2>1 DEF ShellRecords
  <2>3. /\ Tied(fds, m) /\ Piped(fds, m) \subseteq MayHold(shell)
        /\ \A u \in Pids \ {m} : Taking(k, fds, shell, u)
        /\ shell.pc = "spawn_left"
    BY <2>1, ShellTied
  <2>4. /\ k'.shell_pid = m /\ ShellAlive(k') /\ p # m
        /\ \A u \in Pids \ {p} : fds'[u] = fds[u] /\ k'.parent[u] = k.parent[u]
        /\ p \in Pids => /\ k'.parent[p] = m
                         /\ fds'[p][0].type = "PIPE" =>
                              0 \in FdNums /\ fds[m][0].type = "PIPE"
        /\ Flow(k', pipes', fds', io', {})
    BY <1>1, <1>3, <2>1, SpawnLive DEF p
  <2>5. fds[m][0].type # "PIPE"
    BY <1>3, <2>3, HeldQuiet DEF Quiet, PipelineInv
  <2>6. ASSUME NEW u \in Pids \ {m} PROVE Taking(k', fds', shell', u)
    <3>1. CASE u = p
      BY <2>2, <2>4, <2>5, <2>6, <3>1 DEF Taking, Feeds
    <3>2. CASE u # p
      <4>1. Piped(fds, u) = {}
        BY <2>3, <2>6 DEF Taking, Feeds, Drains
      <4>. QED BY <2>4, <3>2, <4>1 DEF Taking, Piped
    <3>. QED BY <3>1, <3>2
  <2>7. ShellSane(shell')
    BY <1>1, <2>2, <2>3 DEF ShellSane, PipelinePcs
  <2>8. fds'[m] = fds[m] /\ MayHold(shell') = MayHold(shell)
    BY <1>3, <2>2, <2>3, <2>4 DEF MayHold
  <2>9. Held(k', fds', shell')
    BY <2>3, <2>4, <2>6, <2>8 DEF Held, Tied, Piped
  <2>. QED BY <1>1, <2>4, <2>7, <2>9 DEF PipelineInv
<1>5. CASE SpawnRight
  <2>1. /\ ShellAt("spawn_right") /\ Becomes(spawn_with(world, <<shell.read_fd, 1, -1>>, TRUE))
        /\ shell' = [shell EXCEPT !.pc = "close_write", !.right = p]
    BY <1>2, <1>5 DEF SpawnRight, p
  <2>2. /\ shell'.pc = "close_write" /\ shell'.right = p /\ shell'.command = shell.command
        /\ shell'.read_fd = shell.read_fd /\ shell'.write_fd = shell.write_fd
        /\ shell'.left = shell.left
    BY <1>1, <2>1 DEF ShellRecords
  <2>3. /\ Tied(fds, m) /\ Piped(fds, m) \subseteq MayHold(shell)
        /\ \A u \in Pids \ {m} : Taking(k, fds, shell, u)
        /\ shell.pc = "spawn_right"
    BY <2>1, ShellTied
  <2>4. /\ k'.shell_pid = m /\ ShellAlive(k') /\ p # m
        /\ \A u \in Pids \ {p} : fds'[u] = fds[u] /\ k'.parent[u] = k.parent[u]
        /\ p \in Pids => /\ k'.parent[p] = m
                         /\ fds'[p][0].type = "PIPE" =>
                              shell.read_fd \in FdNums /\ fds[m][shell.read_fd].type = "PIPE"
        /\ Flow(k', pipes', fds', io', {})
    BY <1>1, <1>3, <2>1, SpawnLive DEF p
  <2>5. Quiet(fds)
    BY <2>3, HeldQuiet DEF PipelineInv
  <2>6. ASSUME NEW u \in Pids \ {m} PROVE Taking(k', fds', shell', u)
    <3>1. CASE u = p
      BY <2>2, <2>4, <2>6, <3>1 DEF Taking, Drains
    <3>2. CASE u # p
      <4>1. Piped(fds, u) # {} => k.parent[u] = m /\ u = shell.left
        BY <2>3, <2>6 DEF Taking, Feeds, Drains
      <4>2. fds'[u] = fds[u] /\ k'.parent[u] = k.parent[u] /\ fds[u][0].type # "PIPE"
        BY <2>4, <2>5, <3>2 DEF Quiet
      <4>. QED BY <2>2, <2>4, <4>1, <4>2 DEF Taking, Piped, Feeds
    <3>. QED BY <3>1, <3>2
  <2>7. ShellSane(shell')
    BY <1>1, <2>2, <2>3 DEF ShellSane, PipelinePcs
  <2>8. fds'[m] = fds[m] /\ MayHold(shell') = MayHold(shell)
    BY <1>3, <2>2, <2>3, <2>4 DEF MayHold
  <2>9. Held(k', fds', shell')
    BY <2>3, <2>4, <2>6, <2>8 DEF Held, Tied, Piped
  <2>. QED BY <1>1, <2>4, <2>7, <2>9 DEF PipelineInv
<1>. QED BY <1>4, <1>5

LEMMA CloseLive ==
  ASSUME PipelineInv, NEW pc, ShellAt(pc), NEW fd \in FdNums \cup {-1}, fd \notin {0, 1},
         Becomes(sys_close_fd(world, me, fd)), UNCHANGED io
  PROVE  /\ SameTree(k, k') /\ Living(k') = Living(k) /\ Tied(fds', k.shell_pid)
         /\ Piped(fds', k.shell_pid) \subseteq Piped(fds, k.shell_pid) \ {fd}
         /\ \A u \in Pids \ {k.shell_pid} : fds'[u] = fds[u]
         /\ Flow(k', pipes', fds', io', {})
<1>. DEFINE m == k.shell_pid
            v == close_fd(world, m, fd)
<1>1. /\ PipeInv /\ Good(world, io) /\ world.k = k /\ world.fds = fds /\ world.pipes = pipes
      /\ Flow(k, pipes, fds, io, {})
  BY WorldLemma DEF PipelineInv, PipeInv
<1>2. /\ m \in Living(k) /\ m \in Pids /\ me = m /\ k.status[m] = "RUNNING" /\ io[m] = NoIo
      /\ Tied(fds, m)
  BY <1>1, ShellRuns, ShellTied DEF me
<1>3. /\ Good(sys_close_fd(world, me, fd), io)
      /\ (fd = -1 => sys_close_fd(world, me, fd) = world)
      /\ (fd # -1 => sys_close_fd(world, me, fd) = v)
  BY <1>1, <1>2, CloseFdGood
<1>4. world' = sys_close_fd(world, me, fd)
  BY <1>3, BecomesLemma DEF Good, WorldOK
<1>5. CASE fd = -1
  <2>1. UNCHANGED <<k, pipes, fds>>
    BY <1>1, <1>3, <1>4, <1>5, WorldLemma
  <2>2. Piped(fds, m) \subseteq Piped(fds, m) \ {fd}
    BY <1>5, PipeAssumption DEF Piped, FdNums
  <2>. QED BY <1>1, <1>2, <2>1, <2>2 DEF SameTree
<1>6. CASE fd # -1
  <2>0. fd \in FdNums /\ world' = v
    BY <1>3, <1>4, <1>6
  <2>1. WorldOK(world, io) /\ FdsOK(fds) /\ k.status \in [Pids -> Statuses]
    BY <1>1 DEF Good, WorldOK, Inv, Core, Queues, Types
  <2>2. /\ WorldOK(v, io) /\ Released(world, v)
        /\ v.fds = [world.fds EXCEPT ![m][fd] = NoFd]
    BY <1>2, <2>0, <2>1, CloseLemma
  <2>3. Flow(v.k, v.pipes, v.fds, io, {m})
    <3>1. Flow(world.k, world.pipes, world.fds, io, {m})
      BY <1>1 DEF Flow
    <3>. QED BY <1>2, <2>0, <2>1, <3>1, CloseFlow
  <2>. HIDE DEF v
  <2>4. k' = v.k /\ fds' = v.fds /\ pipes' = v.pipes
    BY <2>0, WorldLemma
  <2>5. /\ SameTree(k, k')
        /\ \A u \in Pids : \/ Undisturbed(k, k', u)
                           \/ AtPipe(k, u) /\ k'.status[u] = "READY"
    BY <1>1, <2>2, <2>4 DEF Released
  <2>6. Living(k') = Living(k)
    BY <2>5 DEF Living, Undisturbed, AtPipe
  <2>7. k'.status[m] = "RUNNING"
    BY <1>2, <2>5 DEF Undisturbed, AtPipe
  <2>8. fds' = [fds EXCEPT ![m][fd] = NoFd]
    BY <1>1, <2>2, <2>4
  <2>9. /\ fds'[m][fd] = NoFd /\ \A g \in FdNums \ {fd} : fds'[m][g] = fds[m][g]
        /\ \A u \in Pids \ {m} : fds'[u] = fds[u]
    BY <1>2, <2>0, <2>1, <2>8 DEF FdsOK
  <2>10. Tied(fds', m) /\ Piped(fds', m) \subseteq Piped(fds, m) \ {fd}
    <3>1. 0 \in FdNums \ {fd} /\ 1 \in FdNums \ {fd} /\ NoFd.type # "PIPE"
      BY PipeAssumption DEF FdNums, NoFd
    <3>. QED BY <1>2, <2>9, <3>1 DEF Tied, Piped
  <2>11. Flow(k', pipes', fds', io', {})
    <3>1. Flow(k', pipes', fds', io', {m})
      BY <2>3, <2>4
    <3>2. ReadsFrom(fds', io', m) /\ ~ AtRead(k', m)
      BY <1>2, <2>7 DEF ReadsFrom, NoIo, AtRead
    <3>. QED BY <3>1, <3>2 DEF Flow
  <2>. QED BY <2>5, <2>6, <2>9, <2>10, <2>11
<1>. QED BY <1>5, <1>6

LEMMA ClosePipeline ==
  ASSUME PipelineInv, CloseWrite \/ CloseRead
  PROVE  PipelineInv'
<1>. DEFINE m == k.shell_pid
<1>1. /\ PipeInv /\ PipeInv' /\ ShellSane(shell) /\ shell \in ShellRecords /\ UNCHANGED io
      /\ Held(k, fds, shell)
  BY CloseStep DEF PipelineInv, PipeInv, CloseWrite, CloseRead
<1>2. ASSUME NEW pc \in {"close_write", "close_read"}, ShellAt(pc),
             NEW next \in {"close_read", "wait_left"}, GoesTo(next),
             NEW fd \in {shell.read_fd, shell.write_fd},
             Becomes(sys_close_fd(world, me, fd)),
             Piped(fds, m) \ {fd} \subseteq MayHold(shell')
      PROVE  PipelineInv'
  <2>1. fd \in FdNums \cup {-1} /\ fd \notin {0, 1}
    BY <1>1 DEF ShellSane, ShellRecords
  <2>2. /\ SameTree(k, k') /\ Living(k') = Living(k) /\ Tied(fds', m)
        /\ Piped(fds', m) \subseteq Piped(fds, m) \ {fd}
        /\ \A u \in Pids \ {m} : fds'[u] = fds[u]
        /\ Flow(k', pipes', fds', io', {})
    BY <1>1, <1>2, <2>1, CloseLive
  <2>3. ShellAlive(k) /\ shell.pc = pc /\ m \in Pids
    BY <1>2, ShellTied DEF ShellAlive, Living
  <2>4. /\ ShellSane(shell') /\ shell'.pc = next /\ shell'.command = shell.command
        /\ shell'.left = shell.left /\ shell'.right = shell.right
    BY <1>1, <1>2, <2>3, SaneLemma DEF ShellSane, ShellPcs, PipelinePcs
  <2>5. \A p : /\ Feeds(k, shell, p) => Feeds(k', shell', p)
               /\ Drains(k, shell, p) => Drains(k', shell', p)
    BY <1>2, <2>3, <2>4 DEF Feeds, Drains
  <2>6. /\ k'.shell_pid = m /\ (ShellAlive(k) <=> ShellAlive(k')) /\ k'.parent = k.parent
        /\ Piped(fds', m) \subseteq MayHold(shell')
        /\ \A p \in Pids : Piped(fds', p) \subseteq Piped(fds, p)
    BY <1>2, <2>2, <2>3 DEF SameTree, ShellAlive, Piped
  <2>7. Held(k', fds', shell')
    BY <1>1, <2>2, <2>5, <2>6, HeldFrame
  <2>. QED BY <1>1, <2>2, <2>4, <2>7 DEF PipelineInv
<1>3. shell \in ShellRecords => \A pc : GoesTo(pc) =>
        shell'.pc = pc /\ shell'.read_fd = shell.read_fd
  BY DEF GoesTo, ShellRecords
<1>4. CASE CloseWrite
  <2>1. Piped(fds, m) \ {shell.write_fd} \subseteq MayHold(shell')
    <3>1. Piped(fds, m) \subseteq {shell.read_fd, shell.write_fd}
      BY <1>4, ShellTied DEF CloseWrite, MayHold
    <3>. QED BY <1>1, <1>3, <1>4, <3>1 DEF CloseWrite, MayHold
  <2>. QED BY <1>2, <1>4, <2>1 DEF CloseWrite
<1>5. CASE CloseRead
  <2>1. Piped(fds, m) \ {shell.read_fd} \subseteq MayHold(shell')
    <3>1. Piped(fds, m) \subseteq {shell.read_fd}
      BY <1>5, ShellTied DEF CloseRead, MayHold
    <3>. QED BY <3>1
  <2>. QED BY <1>2, <1>5, <2>1 DEF CloseRead
<1>. QED BY <1>4, <1>5

\* What a wait of the shell for pid leaves of the waits of the pipeline: it
\* returns only when pid is no living child any more.
LEMMA WaitPipeline ==
  ASSUME PipelineInv, WaitLeft \/ WaitRight
  PROVE  PipelineInv'
<1>. DEFINE m == k.shell_pid
            pid == IF shell.pc = "wait_left" THEN shell.left ELSE shell.right
<1>1. /\ PipeInv /\ PipeInv' /\ ShellSane(shell) /\ shell \in ShellRecords
      /\ UNCHANGED <<pipes, fds, io>> /\ Held(k, fds, shell) /\ Flow(k, pipes, fds, io, {})
      /\ Good(world, io) /\ world.k = k /\ world.fds = fds
  BY WaitStep, WorldLemma DEF PipelineInv, PipeInv, WaitLeft, WaitRight
<1>2. /\ ShellAlive(k) /\ Tied(fds, m) /\ Piped(fds, m) \subseteq MayHold(shell)
      /\ \A p \in Pids \ {m} : Taking(k, fds, shell, p)
      /\ shell.pc \in {"wait_left", "wait_right"} /\ k.waitpid[m] = NoWait
  BY ShellTied DEF WaitLeft, WaitRight
<1>3. m \in Pids \ {0, 1} /\ m = k.current
  BY <1>1, ShellRuns DEF WaitLeft, WaitRight, me
<1>4. pid \in Pids \cup {WAIT_ANY} /\ k' = wait_pid(k, pid)
  BY <1>1 DEF WaitLeft, WaitRight, ShellAt, ShellRecords, NULL, WAIT_ANY
<1>. HIDE DEF pid
<1>5. Is(world', k', world.pipes, world.fds)
  BY <1>1, SamePipesLemma
<1>6. Good(world', io) /\ SameWaits(k, k') /\ Waited(k, k', m, pid)
  <2>1. /\ m = world.k.current /\ k' = wait_pid(world.k, pid) /\ world.k.waitpid[m] = NoWait
    BY <1>1, <1>2, <1>3, <1>4
  <2>2. Good(world', io) /\ SameWaits(world.k, k') /\ Waited(world.k, k', m, pid)
    BY <1>1, <1>3, <1>4, <1>5, <2>1, WaitGood
  <2>. QED BY <1>1, <2>2
<1>7. Flow(k', pipes', fds', io', {})
  <2>1. Flow(k', pipes, fds, io, {})
    BY <1>1, <1>6, FlowFrame, WaitsFrame
  <2>. QED BY <1>1, <2>1
<1>8. /\ Living(k') = Living(k) /\ k'.shell_pid = m
      /\ \A u \in Living(k) : k'.parent[u] = k.parent[u]
      /\ k'.waitpid[m] = pid \/ (pid # WAIT_ANY => ~ (pid \in Living(k) /\ k.parent[pid] = m))
  <2>1. Living(k') \subseteq Alive(k')
    BY DEF Living, Alive
  <2>. QED BY <1>6, <2>1 DEF Waited
<1>9. ShellAlive(k') <=> ShellAlive(k)
  BY <1>8 DEF ShellAlive
<1>10. \A p \in Pids : Piped(fds, p) # {} => p \in Living(k)
  BY <1>1, BuriedBare DEF Good
<1>11. \A p \in Pids : p # WAIT_ANY /\ p # NoWait
  BY PidsLemma DEF WAIT_ANY, NoWait
<1>12. CASE WaitRight /\ shell.command = "fg"
  <2>1. Bare(fds)
    BY <1>1, <1>12, HeldBare DEF WaitRight, ShellAt
  <2>2. ShellSane(shell')
    BY <1>1, <1>12, SaneLemma DEF WaitRight, ShellPcs, PipelinePcs
  <2>3. Held(k', fds', shell')
    BY <1>1, <1>2, <1>8, <2>1, BareHeld
  <2>. QED BY <1>1, <1>7, <2>2, <2>3 DEF PipelineInv
<1>13. ASSUME NEW next \in {"wait_right", "pipe_close"}, GoesTo(next), shell.command # "fg",
              next = IF shell.pc = "wait_left" THEN "wait_right" ELSE "pipe_close"
       PROVE  PipelineInv'
  <2>1. /\ ShellSane(shell') /\ shell'.pc = next /\ shell'.command = shell.command
        /\ shell'.left = shell.left /\ shell'.right = shell.right
    BY <1>1, <1>13, SaneLemma DEF ShellPcs
  <2>2. ASSUME NEW p \in Pids \ {m}, Piped(fds, p) # {}
        PROVE  /\ k'.parent[p] = k.parent[p]
               /\ Feeds(k, shell, p) => Feeds(k', shell', p)
               /\ Drains(k, shell, p) => Drains(k', shell', p)
    <3>1. p \in Living(k) /\ k.parent[p] = m
      BY <1>2, <1>10, <2>2 DEF Taking
    <3>2. p = pid => k'.waitpid[m] = p
      BY <1>8, <1>11, <3>1
    <3>3. CASE shell.pc = "wait_left"
      <4>1. pid = shell.left /\ next = "wait_right"
        BY <1>13, <3>3 DEF pid
      <4>2. Feeds(k, shell, p) => Feeds(k', shell', p)
        BY <1>8, <1>13, <2>1, <3>2, <4>1 DEF Feeds
      <4>3. Drains(k, shell, p) => Drains(k', shell', p)
        BY <1>13, <2>1, <4>1 DEF Drains
      <4>. QED BY <1>8, <3>1, <4>2, <4>3
    <3>4. CASE shell.pc = "wait_right"
      <4>1. pid = shell.right /\ next = "pipe_close"
        BY <1>13, <3>4 DEF pid
      <4>2. ~ Feeds(k, shell, p)
        BY <1>2, <1>11, <3>4 DEF Feeds
      <4>3. Drains(k, shell, p) => Drains(k', shell', p)
        BY <1>8, <2>1, <3>2, <3>4, <4>1 DEF Drains
      <4>. QED BY <1>8, <3>1, <4>2, <4>3
    <3>. QED BY <1>2, <3>3, <3>4
  <2>3. MayHold(shell) = {} /\ Piped(fds, m) = {}
    BY <1>2 DEF MayHold
  <2>4. Held(k', fds, shell')
    BY <1>1, <1>2, <1>8, <1>9, <2>2, <2>3, HeldFrame
  <2>5. Held(k', fds', shell')
    BY <1>1, <2>4
  <2>. QED BY <1>1, <1>7, <2>1, <2>5 DEF PipelineInv
<1>14. CASE WaitLeft
  BY <1>1, <1>13, <1>14 DEF WaitLeft, ShellAt, ShellSane, PipelinePcs
<1>15. CASE WaitRight /\ shell.command # "fg"
  BY <1>13, <1>15 DEF WaitRight, ShellAt
<1>. QED BY <1>12, <1>14, <1>15

\* A process other than the shell dies, ...
LEMMA DeadHeld ==
  ASSUME NEW s, NEW t, NEW F, NEW sh, FdsOK(F), Held(s, F, sh), Known(s),
         NEW p \in Living(s), p # s.shell_pid, Died(s, t, p)
  PROVE  Held(t, [F EXCEPT ![p] = NoFds], sh)
<1>. DEFINE G == [F EXCEPT ![p] = NoFds]
            m == s.shell_pid
<1>1. p \in Pids /\ (ShellAlive(s) => m \in Pids)
  BY DEF Living, ShellAlive
<1>2. G[p] = NoFds /\ \A u \in Pids \ {p} : G[u] = F[u]
  BY <1>1 DEF FdsOK
<1>3. Piped(G, p) = {}
  <2>. HIDE DEF G
  <2>. QED BY <1>2, RowBare
<1>. HIDE DEF G
<1>4. \A u \in Pids : Piped(G, u) \subseteq Piped(F, u)
  <2>. SUFFICES ASSUME NEW u \in Pids \ {p} PROVE Piped(G, u) = Piped(F, u)
    BY <1>3
  <2>. QED BY <1>2 DEF Piped
<1>5. t.shell_pid = m /\ (ShellAlive(s) <=> ShellAlive(t))
  BY DEF Died, ShellAlive
<1>6. ASSUME ShellAlive(s)
      PROVE  /\ Tied(G, m) /\ Piped(G, m) \subseteq MayHold(sh)
             /\ \A u \in Pids \ {m} : Piped(G, u) # {} =>
                  /\ t.parent[u] = s.parent[u]
                  /\ Feeds(s, sh, u) => Feeds(t, sh, u)
                  /\ Drains(s, sh, u) => Drains(t, sh, u)
  <2>1. G[m] = F[m] /\ Tied(F, m) /\ Piped(F, m) \subseteq MayHold(sh)
    BY <1>1, <1>2, <1>6 DEF Held
  <2>2. t.waitpid[m] = s.waitpid[m]
    BY <1>1, <1>6 DEF Died
  <2>3. \A u : /\ Feeds(s, sh, u) => Feeds(t, sh, u)
               /\ Drains(s, sh, u) => Drains(t, sh, u)
    BY <1>5, <2>2 DEF Feeds, Drains
  <2>4. ASSUME NEW u \in Pids \ {m}, Piped(G, u) # {} PROVE t.parent[u] = s.parent[u]
    <3>1. u # p /\ Piped(F, u) # {}
      BY <1>3, <1>4, <2>4
    <3>2. s.parent[u] = m
      BY <1>6, <2>4, <3>1 DEF Held, Taking
    <3>. QED BY <3>1, <3>2 DEF Died
  <2>. QED BY <2>1, <2>3, <2>4 DEF Tied, Piped
<1>7. Held(t, G, sh)
  BY <1>4, <1>5, <1>6, HeldFrame
<1>. QED BY <1>7 DEF G

\* ... or the shell, when it has no children.
LEMMA ShellDeadHeld ==
  ASSUME NEW s, NEW t, NEW F, NEW sh, NEW o, FdsOK(F), Held(s, F, sh), Buried(s, F, o),
         Family(s), NEW p \in Living(s), p = s.shell_pid, s.children[p] = << >>, Died(s, t, p)
  PROVE  Held(t, [F EXCEPT ![p] = NoFds], sh)
<1>. DEFINE G == [F EXCEPT ![p] = NoFds]
<1>1. p \in Pids /\ p # NULL
  BY PidsLemma DEF Living
<1>2. ShellAlive(s) /\ ~ ShellAlive(t)
  BY <1>1 DEF ShellAlive, Died
<1>3. G[p] = NoFds /\ \A u \in Pids \ {p} : G[u] = F[u]
  BY <1>1 DEF FdsOK
<1>. HIDE DEF G
<1>4. ASSUME NEW u \in Pids PROVE Piped(G, u) = {}
  <2>1. CASE u = p
    BY <1>3, <2>1, RowBare
  <2>2. CASE u # p
    <3>. SUFFICES ASSUME Piped(F, u) # {} PROVE FALSE
      BY <1>3, <2>2 DEF Piped
    <3>1. s.parent[u] = p /\ u \in Living(s)
      BY <1>2, <2>2, BuriedBare DEF Held, Taking
    <3>2. u \in Alive(s)
      BY <3>1 DEF Living, Alive
    <3>3. InQueue(s.children[p], u)
      BY <3>1, <3>2 DEF Family, Kin, Tree
    <3>. QED BY <3>3 DEF InQueue
  <2>. QED BY <2>1, <2>2
<1>5. Held(t, G, sh)
  BY <1>2, <1>4, BareHeld DEF Bare
<1>. QED BY <1>5 DEF G

LEMMA InterruptPipeline ==
  ASSUME PipelineInv, Careful, Interrupt
  PROVE  PipelineInv'
<1>. DEFINE p == k.foreground
<1>1. /\ PipeInv /\ PipeInv' /\ ShellSane(shell) /\ Held(k, fds, shell)
      /\ Flow(k, pipes, fds, io, {}) /\ Good(world, io)
      /\ world.k = k /\ world.fds = fds /\ world.pipes = pipes
  BY DeathStep, WorldLemma DEF PipelineInv, PipeInv
<1>2. p \in Living(k) \ {0, 1} /\ DiesIn(p) /\ UNCHANGED shell
  BY <1>1, InterruptDies
<1>. HIDE DEF p
<1>3. /\ Good(world', io') /\ Died(k, k', p) /\ fds' = [fds EXCEPT ![p] = NoFds]
      /\ DeathOf(world, world', k', p) /\ io' = [io EXCEPT ![p] = NoIo]
  <2>1. io' = [io EXCEPT ![p] = NoIo]
    BY <1>2 DEF DiesIn
  <2>. QED BY <1>1, <1>2, <2>1, DiesGood
<1>4. Flow(k', pipes', fds', io', {})
  <2>1. Flow(k', world'.pipes, world'.fds, [io EXCEPT ![p] = NoIo], {})
    <3>1. p \in Living(world.k) \ {0, 1} /\ Flow(world.k, world.pipes, world.fds, io, {})
      BY <1>1, <1>2
    <3>. QED BY <1>1, <1>3, <3>1, KillFlow
  <2>. QED BY <1>3, <2>1, WorldLemma
<1>5. FdsOK(fds) /\ Known(k) /\ Family(k) /\ Buried(k, fds, io)
  BY <1>1 DEF Good, WorldOK
<1>6. Held(k', fds', shell)
  <2>1. CASE p # k.shell_pid
    BY <1>1, <1>2, <1>3, <1>5, <2>1, DeadHeld
  <2>2. CASE p = k.shell_pid
    <3>1. k.children[p] = << >>
      BY <2>2 DEF Careful, Interrupt, me, p
    <3>. QED BY <1>1, <1>2, <1>3, <1>5, <2>2, <3>1, ShellDeadHeld
  <2>. QED BY <2>1, <2>2
<1>. QED BY <1>1, <1>2, <1>4, <1>6 DEF PipelineInv

LEMMA SwitchedHeld ==
  ASSUME NEW w, NEW o, Good(w, o), NEW t, OnlySwitched(w.k, t), Living(t) = Living(w.k),
         NEW sh, Held(w.k, w.fds, sh), Flow(w.k, w.pipes, w.fds, o, {})
  PROVE  Held(t, w.fds, sh) /\ Flow(t, w.pipes, w.fds, o, {})
<1>1. Buried(w.k, w.fds, o)
  BY DEF Good
<1>2. /\ t.shell_pid = w.k.shell_pid /\ t.parent = w.k.parent /\ t.waitpid = w.k.waitpid
  BY DEF OnlySwitched, SameTree
<1>3. Held(t, w.fds, sh)
  BY <1>1, <1>2, HeldSame
<1>4. \A u \in Pids : AtRead(t, u) => AtRead(w.k, u)
  BY SwitchWaits, WaitsFrame
<1>5. Flow(t, w.pipes, w.fds, o, {})
  BY <1>4, FlowFrame
<1>. QED BY <1>3, <1>5

LEMMA ReturnPipeline ==
  ASSUME PipelineInv, UNCHANGED shell, NEW p \in Pids, Return(p) \/ Quit(p)
  PROVE  PipelineInv'
<1>1. /\ PipeInv /\ PipeInv' /\ ShellSane(shell) /\ Held(k, fds, shell)
      /\ Flow(k, pipes, fds, io, {}) /\ Good(world, io)
      /\ world.k = k /\ world.fds = fds /\ world.pipes = pipes
  BY DeathStep, WorldLemma DEF PipelineInv, PipeInv
<1>2. p \in Living(k) \ {0, 1, k.shell_pid} /\ ExitsIn(p)
  BY <1>1, ReturnExits
<1>3. fds' = [fds EXCEPT ![p] = NoFds] /\ io' = [io EXCEPT ![p] = NoIo]
  BY <1>1, <1>2, ExitsGood DEF ExitsIn
<1>4. PICK v : /\ Good(v, io') /\ Is(v, v.k, pipes', fds') /\ Died(k, v.k, p)
               /\ DeathOf(world, v, v.k, p) /\ OnlySwitched(v.k, k')
               /\ Living(k') = Living(v.k) /\ Alive(k') = Alive(v.k)
  BY <1>1, <1>2, ExitsGood
<1>5. FdsOK(fds) /\ Known(k)
  BY <1>1 DEF Good, WorldOK
<1>6. Held(v.k, fds', shell)
  BY <1>1, <1>2, <1>3, <1>4, <1>5, DeadHeld
<1>7. Flow(v.k, v.pipes, v.fds, io', {})
  <2>1. p \in Living(world.k) \ {0, 1} /\ Flow(world.k, world.pipes, world.fds, io, {})
    BY <1>1, <1>2
  <2>2. Flow(v.k, v.pipes, v.fds, [io EXCEPT ![p] = NoIo], {})
    BY <1>1, <1>4, <2>1, KillFlow
  <2>. QED BY <1>3, <2>2
<1>8. v.pipes = pipes' /\ v.fds = fds'
  BY <1>4 DEF Is
<1>9. Held(v.k, v.fds, shell)
  BY <1>6, <1>8
<1>10. Held(k', v.fds, shell) /\ Flow(k', v.pipes, v.fds, io', {})
  BY <1>4, <1>7, <1>9, SwitchedHeld
<1>. QED BY <1>1, <1>8, <1>10 DEF PipelineInv

\* wait_pid of a process c, for the first time or woken inside it.
LEMMA WaitedHeld ==
  ASSUME NEW s, NEW t, NEW F, NEW o, NEW sh, NEW c \in Pids, NEW pid, Held(s, F, sh),
         Buried(s, F, o), Waited(s, t, c, pid), c # s.shell_pid \/ s.waitpid[c] = pid
  PROVE  Held(t, F, sh)
<1>. DEFINE m == s.shell_pid
<1>1. /\ t.shell_pid = m /\ Living(t) = Living(s)
      /\ \A u \in Living(s) : t.parent[u] = s.parent[u]
  <2>1. Living(t) \subseteq Alive(t)
    BY DEF Living, Alive
  <2>. QED BY <2>1 DEF Waited
<1>2. CASE ShellAlive(s) => t.waitpid[m] = s.waitpid[m]
  BY <1>1, <1>2, HeldSame
<1>3. CASE ShellAlive(s) /\ t.waitpid[m] # s.waitpid[m]
  <2>1. c = m /\ s.waitpid[m] = pid /\ (pid # WAIT_ANY => ~ (pid \in Living(s) /\ s.parent[pid] = m))
    BY <1>3 DEF Waited, ShellAlive
  <2>2. ASSUME NEW p \in Pids \ {m}, Piped(F, p) # {}
        PROVE  /\ t.parent[p] = s.parent[p] /\ (Feeds(s, sh, p) => Feeds(t, sh, p))
               /\ (Drains(s, sh, p) => Drains(t, sh, p))
    <3>1. p \in Living(s) /\ s.parent[p] = m
      BY <1>3, <2>2, BuriedBare DEF Held, Taking
    <3>2. p # WAIT_ANY
      BY PidsLemma DEF WAIT_ANY
    <3>3. s.waitpid[m] # p
      BY <2>1, <3>1, <3>2
    <3>. QED BY <1>1, <3>1, <3>3 DEF Feeds, Drains
  <2>3. (ShellAlive(s) <=> ShellAlive(t)) /\ Tied(F, m) /\ Piped(F, m) \subseteq MayHold(sh)
    BY <1>1, <1>3 DEF ShellAlive, Held
  <2>. QED BY <1>1, <2>2, <2>3, HeldFrame
<1>. QED BY <1>2, <1>3

LEMMA KernelPipeline ==
  ASSUME PipelineInv, PipeTick \/ KernelOnly(InitWait) \/ KernelOnly(Resume) \/ KernelOnly(Halted)
  PROVE  PipelineInv'
<1>1. /\ PipeInv /\ PipeInv' /\ ShellSane(shell) /\ Held(k, fds, shell)
      /\ Flow(k, pipes, fds, io, {}) /\ Good(world, io)
      /\ world.k = k /\ world.fds = fds /\ world.pipes = pipes
      /\ UNCHANGED <<pipes, fds, io, shell>>
  BY KernelOnlyStep, WorldLemma DEF PipelineInv, PipeInv, PipeTick, KernelOnly
<1>2. Is(world', k', world.pipes, world.fds)
  BY <1>1, SamePipesLemma
<1>3. /\ k.current \in Pids \cup {NULL} /\ k.waitpid \in [Pids -> Pids \cup {NoWait, WAIT_ANY}]
      /\ Buried(k, fds, io) /\ Known(k)
  BY <1>1 DEF Good, WorldOK, Inv, Core, Queues, Types, Family, Kin, TreeTypes
<1>. SUFFICES Held(k', fds, shell) /\ Flow(k', pipes, fds, io, {})
  BY <1>1 DEF PipelineInv
<1>4. CASE PipeTick
  <2>1. k' = timer_interrupt(world.k)
    BY <1>1, <1>4 DEF PipeTick, KernelOnly, Tick
  <2>2. /\ Good(world', io) /\ OnlySwitched(world.k, k')
        /\ Living(k') = Living(world.k) /\ Alive(k') = Alive(world.k)
    BY <1>1, <1>2, <2>1, SwitchGood
  <2>3. Held(world.k, world.fds, shell) /\ Flow(world.k, world.pipes, world.fds, io, {})
    BY <1>1
  <2>4. Held(k', world.fds, shell) /\ Flow(k', world.pipes, world.fds, io, {})
    BY <1>1, <2>2, <2>3, SwitchedHeld
  <2>. QED BY <1>1, <2>4
<1>5. ASSUME k.current = 1, NEW u, NEW pid \in Pids \cup {WAIT_ANY}, k' = shell_gone(u),
             \/ u = wait_pid(k, pid) /\ k.waitpid[1] = NoWait
             \/ u = wait_pass(k) /\ k.waitpid[1] = pid
      PROVE  Held(k', fds, shell) /\ Flow(k', pipes, fds, io, {})
  <2>1. /\ Good(world', io) /\ SameWaits(world.k, k') /\ Waited(world.k, u, 1, pid)
        /\ SameScheduler(u, k') /\ k'.mode = u.mode /\ k'.foreground = u.foreground
        /\ k'.parent = u.parent /\ k'.waitpid = u.waitpid
        /\ k'.shell_pid \in {NULL, u.shell_pid}
        /\ k'.shell_pid = NULL => u.shell_pid \notin Living(u)
    <3>1. /\ world.k.current = 1
          /\ \/ u = wait_pid(world.k, pid) /\ world.k.waitpid[1] = NoWait
             \/ u = wait_pass(world.k) /\ world.k.waitpid[1] = pid
      BY <1>1, <1>5
    <3>. QED BY <1>1, <1>2, <1>5, <3>1, InitWaitGood
  <2>2. Flow(k', pipes, fds, io, {})
    BY <1>1, <2>1, FlowFrame, WaitsFrame
  <2>3. 1 # k.shell_pid /\ 1 \in Pids
    BY <1>3, PidsLemma DEF Known, NULL
  <2>4. Held(u, fds, shell)
    BY <1>1, <1>3, <2>1, <2>3, WaitedHeld
  <2>5. Living(k') = Living(u)
    BY <2>1 DEF SameScheduler, Living
  <2>6. CASE k'.shell_pid = u.shell_pid
    <3>1. ShellAlive(k') <=> ShellAlive(u)
      BY <2>5, <2>6 DEF ShellAlive
    <3>2. \A p : /\ Feeds(u, shell, p) => Feeds(k', shell, p)
                 /\ Drains(u, shell, p) => Drains(k', shell, p)
      BY <2>1, <2>6 DEF Feeds, Drains
    <3>3. ShellAlive(u) => Tied(fds, u.shell_pid) /\ Piped(fds, u.shell_pid) \subseteq MayHold(shell)
      BY <2>4 DEF Held
    <3>4. Held(k', fds, shell)
      BY <2>1, <2>4, <2>6, <3>1, <3>2, <3>3, HeldFrame
    <3>. QED BY <2>2, <3>4
  <2>7. CASE k'.shell_pid = NULL
    <3>1. Bare(fds)
      BY <2>1, <2>4, <2>7 DEF Held, ShellAlive
    <3>2. Held(k', fds, shell)
      BY <2>7, <3>1, BareHeld DEF ShellAlive
    <3>. QED BY <2>2, <3>2
  <2>. QED BY <2>1, <2>6, <2>7
<1>6. CASE KernelOnly(InitWait)
  <2>1. k' = shell_gone(wait_pid(k, WAIT_ANY)) /\ k.current = 1 /\ k.waitpid[1] = NoWait
    BY <1>6, PidsLemma DEF KernelOnly, InitWait, UserMode, NULL
  <2>. QED BY <1>5, <2>1
<1>7. CASE KernelOnly(Resume)
  <2>. DEFINE c == k.current
              pid == k.waitpid[c]
              u == wait_pass(k)
  <2>1. c \in Pids \ {0} /\ pid # NoWait
        /\ k' = IF c = 1 THEN shell_gone(u) ELSE u
    BY <1>3, <1>7 DEF KernelOnly, Resume
  <2>2. pid \in Pids \cup {WAIT_ANY}
    BY <1>3, <2>1
  <2>3. CASE c = 1
    <3>1. k' = shell_gone(u) /\ k.waitpid[1] = pid
      BY <2>1, <2>3
    <3>. QED BY <1>5, <2>2, <2>3, <3>1
  <2>4. CASE c # 1
    <3>1. /\ k' = wait_pass(world.k) /\ c \in Pids \ {0, 1} /\ c = world.k.current
          /\ world.k.waitpid[c] = pid
      BY <1>1, <2>1, <2>4
    <3>. HIDE DEF c, pid, u
    <3>2. Good(world', io) /\ SameWaits(world.k, k') /\ Waited(world.k, k', c, pid)
      BY <1>1, <1>2, <2>2, <3>1, WaitGood
    <3>3. Flow(k', pipes, fds, io, {})
      BY <1>1, <3>2, FlowFrame, WaitsFrame
    <3>4. Held(k', fds, shell)
      BY <1>1, <1>3, <3>1, <3>2, WaitedHeld
    <3>. QED BY <3>3, <3>4
  <2>. QED BY <2>3, <2>4
<1>8. CASE KernelOnly(Halted)
  <2>1. k' = k
    BY <1>8 DEF KernelOnly, Halted
  <2>. QED BY <1>1, <2>1
<1>. QED BY <1>4, <1>6, <1>7, <1>8

\* One pass of pipe_read.
LEMMA ReadPipeline ==
  ASSUME PipelineInv, PipeResume \/ \E p \in Pids : PipeRead(p), UNCHANGED shell
  PROVE  PipelineInv'
<1>1. /\ PipeInv /\ PipeInv' /\ ShellSane(shell) /\ Held(k, fds, shell)
      /\ Flow(k, pipes, fds, io, {}) /\ Good(world, io)
      /\ world.k = k /\ world.fds = fds /\ world.pipes = pipes
  BY BytesStep, WorldLemma DEF PipelineInv, PipeInv
<1>2. PICK c \in Pids \ {0}, i \in PipeIds :
        /\ c = k.current /\ c # k.shell_pid /\ Becomes(pipe_read(world, i))
        /\ io' = [io EXCEPT ![c] = after_read(world, i)]
        /\ \/ io[c].op = "read" /\ io[c].pipe = i
           \/ fds[c][0] = PipeEnd(i, "readers")
  BY <1>1, ReadCalls
<1>. DEFINE v == pipe_read(world, i)
            a == after_read(world, i)
            x == pipes[i]
<1>3. /\ Good(v, [io EXCEPT ![c] = a]) /\ ReadBy(world, v, c, i)
      /\ a \in IoCalls /\ (a.op = "read" => a.pipe = i)
      /\ a.op = "read" <=> read_waits(world, i)
  BY <1>1, <1>2, ReadGood
<1>. HIDE DEF v, a
<1>4. k' = v.k /\ fds' = v.fds /\ pipes' = v.pipes
  <2>1. world' = v
    BY <1>2, <1>3, BecomesLemma DEF Good, WorldOK, v
  <2>. QED BY <2>1, WorldLemma
<1>5. io \in [Pids -> IoCalls] /\ Buried(k, fds, io) /\ PipesOK(pipes) /\ k.status[c] = "RUNNING"
  <2>1. world.k.current \in Pids
    BY <1>1, <1>2
  <2>2. world.k.status[world.k.current] = "RUNNING"
    BY <1>1, <2>1, RunningLemma
  <2>. QED BY <1>1, <1>2, <2>2 DEF Good, WorldOK, Calling
<1>6. io'[c] = a /\ \A u \in Pids \ {c} : io'[u] = io[u]
  BY <1>2, <1>5 DEF a
<1>7. fds[c][0] = PipeEnd(i, "readers")
  BY <1>1, <1>2 DEF Flow, ReadsFrom
<1>8. x.table = "used"
  <2>1. 0 \in FdNums /\ PipeEnd(i, "readers").type = "PIPE" /\ PipeEnd(i, "readers").pipe = i
    BY PipeAssumption DEF FdNums, PipeEnd
  <2>. QED BY <1>1, <1>7, <2>1 DEF Flow, LiveEnds
<1>9. FifoOK(x) /\ x.sent \in Nat /\ x.received \in Nat
  BY <1>5 DEF PipesOK, PipeOK, FifoOK
<1>10. read_waits(world, i) <=> x.writers > 0 /\ x.sent = x.received
  <2>1. Buf!ringbuf_available(x.ring) = x.sent - x.received
    BY <1>9, AvailableLemma
  <2>. QED BY <1>1, <1>9, <2>1 DEF read_waits, available
<1>11. ASSUME fds' = fds, \A j \in PipeIds : pipes'[j].table = pipes[j].table,
              SameTree(k, k'), Living(k') = Living(k),
              \A u \in Pids : AtRead(k', u) => Sleeper(pipes', io', u)
       PROVE  PipelineInv'
  <2>1. Held(k', fds, shell)
    BY <1>1, <1>5, <1>11, HeldSame DEF SameTree
  <2>2. \A u \in Pids : ReadsFrom(fds, io', u)
    BY <1>1, <1>3, <1>6, <1>7 DEF Flow, ReadsFrom
  <2>3. LiveEnds(pipes', fds)
    <3>. SUFFICES ASSUME NEW q \in Pids, NEW g \in FdNums, fds[q][g].type = "PIPE"
                  PROVE  pipes'[fds[q][g].pipe].table = "used"
      BY DEF LiveEnds
    <3>1. fds[q][g] \in Entries
      BY <1>1 DEF Good, WorldOK, FdsOK
    <3>2. fds[q][g].pipe \in PipeIds
      BY <3>1, EntryLemma
    <3>. QED BY <1>1, <1>11, <3>2 DEF Flow, LiveEnds
  <2>4. Flow(k', pipes', fds, io', {})
    BY <1>11, <2>2, <2>3 DEF Flow
  <2>. QED BY <1>1, <1>11, <2>1, <2>4 DEF PipelineInv
<1>12. ASSUME NEW u \in Pids \ {c}, AtRead(k, u) PROVE Sleeper(pipes, io', u) /\ io'[u] = io[u]
  BY <1>1, <1>6, <1>12 DEF Flow, Sleeper
<1>13. CASE x.writers > 0 /\ x.sent = x.received /\ Slept(world, v, c, i)
  <2>1. /\ fds' = fds /\ SameTree(k, k') /\ Living(k') = Living(k)
        /\ QueueChanged(pipes, pipes', i, enqueue(x.readers_wait, c))
        /\ AtPipe(k', c) /\ \A u \in Pids \ {c} : SameWait(k, k', u)
    BY <1>1, <1>4, <1>13 DEF Slept
  <2>2. /\ Requeued(x, pipes'[i]) /\ pipes'[i].readers_wait = enqueue(x.readers_wait, c)
        /\ \A j \in PipeIds \ {i} : pipes'[j] = pipes[j]
    BY <2>1 DEF QueueChanged
  <2>3. x.readers_wait \in Seq(Pids)
    BY <1>5 DEF PipesOK, PipeOK
  <2>4. \A u : InQueue(enqueue(x.readers_wait, c), u) <=> InQueue(x.readers_wait, u) \/ u = c
    <3>1. x.readers_wait \in Seq(Pids) /\ c \in Pids
      BY <1>2, <2>3
    <3>. QED BY ONLY <3>1, EnqueueLemma
  <2>5. Sleeper(pipes', io', c)
    <3>1. a.op = "read" /\ a.pipe = i
      BY <1>3, <1>10, <1>13
    <3>. QED BY <1>6, <1>8, <1>13, <2>2, <2>4, <3>1 DEF Sleeper, Requeued
  <2>6. ASSUME NEW u \in Pids \ {c}, AtRead(k', u) PROVE Sleeper(pipes', io', u)
    <3>1. AtRead(k, u)
      BY <2>1, <2>6 DEF SameWait, AtRead, OnResource, Resources
    <3>2. Sleeper(pipes, io', u)
      BY <1>12, <3>1
    <3>3. CASE io'[u].pipe = i
      BY <2>2, <2>4, <3>2, <3>3 DEF Sleeper, Requeued
    <3>4. CASE io'[u].pipe # i
      BY <2>2, <3>2, <3>4 DEF Sleeper
    <3>. QED BY <3>3, <3>4
  <2>7. \A j \in PipeIds : pipes'[j].table = pipes[j].table
    BY <2>2 DEF Requeued
  <2>. QED BY <1>11, <2>1, <2>5, <2>6, <2>7
<1>14. CASE v = world
  <2>1. UNCHANGED <<k, pipes, fds>>
    BY <1>1, <1>4, <1>14
  <2>2. ASSUME NEW u \in Pids, AtRead(k', u) PROVE Sleeper(pipes', io', u)
    <3>1. u # c
      BY <1>5, <2>1, <2>2 DEF AtRead
    <3>. QED BY <1>12, <2>1, <2>2, <3>1
  <2>. QED BY <1>11, <2>1, <2>2 DEF SameTree
<1>15. CASE /\ World(v) /\ v.k = world.k /\ v.fds = world.fds
            /\ \E y : SameEnds(x, y) /\ x.sent # x.received /\ SetAt(world.pipes, v.pipes, i, y)
  <2>1. PICK y : SameEnds(x, y) /\ x.sent # x.received /\ SetAt(pipes, pipes', i, y)
    BY <1>1, <1>4, <1>15
  <2>2. /\ k' = k /\ fds' = fds /\ pipes'[i].table = x.table
        /\ \A j \in PipeIds \ {i} : pipes'[j] = pipes[j]
    BY <1>1, <1>4, <1>15, <2>1 DEF SetAt, SameEnds
  <2>3. ASSUME NEW u \in Pids, AtRead(k', u) PROVE Sleeper(pipes', io', u)
    <3>1. u # c
      BY <1>5, <2>2, <2>3 DEF AtRead
    <3>2. Sleeper(pipes, io', u)
      BY <1>12, <2>2, <2>3, <3>1
    <3>. QED BY <2>1, <2>2, <3>2 DEF Sleeper
  <2>4. \A j \in PipeIds : pipes'[j].table = pipes[j].table
    BY <2>2
  <2>. QED BY <1>11, <2>2, <2>3, <2>4 DEF SameTree
<1>16. \/ x.writers > 0 /\ x.sent = x.received /\ Slept(world, v, c, i)
       \/ v = world
       \/ /\ World(v) /\ v.k = world.k /\ v.fds = world.fds
          /\ \E y : SameEnds(x, y) /\ x.sent # x.received /\ SetAt(world.pipes, v.pipes, i, y)
  BY <1>1, <1>3 DEF ReadBy
<1>. QED BY <1>13, <1>14, <1>15, <1>16

\* A pipe has one reader, the right program: waking one is waking all.
LEMMA OneReader ==
  ASSUME PipelineInv, NEW u \in Pids, io[u].op = "read"
  PROVE  u = shell.right
<1>1. Held(k, fds, shell) /\ Good(world, io) /\ world.k = k
  BY WorldLemma DEF PipelineInv, PipeInv
<1>2. fds[u][0].type = "PIPE"
  <2>1. fds[u][0] = PipeEnd(io[u].pipe, "readers")
    BY DEF PipelineInv, Flow, ReadsFrom
  <2>. QED BY <2>1 DEF PipeEnd
<1>3. Piped(fds, u) # {}
  <2>1. 0 \in FdNums
    BY PipeAssumption DEF FdNums
  <2>. QED BY <1>2, <2>1 DEF Piped
<1>4. ShellAlive(k)
  BY <1>1, <1>3 DEF Held, Bare
<1>5. u # k.shell_pid
  BY <1>1, <1>4 DEF Good, Calling, ShellAlive, NoIo
<1>. QED BY <1>1, <1>2, <1>3, <1>4, <1>5 DEF Held, Taking, Drains

LEMMA WritePipeline ==
  ASSUME PipelineInv, \E p \in Pids : PipeWrite(p), UNCHANGED shell
  PROVE  PipelineInv'
<1>1. /\ PipeInv /\ PipeInv' /\ ShellSane(shell) /\ Held(k, fds, shell)
      /\ Flow(k, pipes, fds, io, {}) /\ Good(world, io)
      /\ world.k = k /\ world.fds = fds /\ world.pipes = pipes
  BY BytesStep, WorldLemma DEF PipelineInv, PipeInv
<1>2. PICK c \in Pids \ {0}, i \in PipeIds, n \in Nat :
        /\ c = k.current /\ c # k.shell_pid /\ Becomes(pipe_write(world, i, n))
        /\ pipes[i].sent + n <= MaxBytes
        /\ io' = [io EXCEPT ![c] = after_write(world, i, n)]
        /\ fds[c][1] = PipeEnd(i, "writers")
  BY <1>1, WriteCalls
<1>. DEFINE v == pipe_write(world, i, n)
            q == pipes[i].readers_wait
<1>3. /\ Good(v, [io EXCEPT ![c] = after_write(world, i, n)]) /\ WrittenBy(world, v, i)
      /\ after_write(world, i, n) = NoIo
  <2>1. c = world.k.current /\ c # world.k.shell_pid /\ world.pipes[i].sent + n <= MaxBytes
    BY <1>1, <1>2
  <2>. QED BY <1>1, <1>2, <2>1, WriteGood
<1>. HIDE DEF v
<1>4. k' = v.k /\ fds' = v.fds /\ pipes' = v.pipes
  <2>1. world' = v
    BY <1>2, <1>3, BecomesLemma DEF Good, WorldOK, v
  <2>. QED BY <2>1, WorldLemma
<1>5. /\ io \in [Pids -> IoCalls] /\ Buried(k, fds, io) /\ Queued(k, pipes, io)
      /\ k.status[c] = "RUNNING"
  <2>1. world.k.current \in Pids
    BY <1>1, <1>2
  <2>2. world.k.status[world.k.current] = "RUNNING"
    BY <1>1, <2>1, RunningLemma
  <2>. QED BY <1>1, <1>2, <2>2 DEF Good, WorldOK, Calling
<1>6. io'[c] = NoIo /\ \A u \in Pids \ {c} : io'[u] = io[u]
  BY <1>2, <1>3, <1>5
<1>7. PICK r, y : /\ World(r) /\ r.k = k /\ r.fds = fds
                  /\ SameEnds(pipes[i], y) /\ SetAt(pipes, r.pipes, i, y)
                  /\ WokeOne(r, v, i)
  BY <1>1, <1>3 DEF WrittenBy
<1>8. /\ r.pipes[i].readers_wait = q /\ r.pipes[i].table = pipes[i].table
      /\ r.pipes[i].writers = pipes[i].writers
      /\ \A j \in PipeIds \ {i} : r.pipes[j] = pipes[j]
  BY <1>7 DEF SetAt, SameEnds
<1>9. fds' = fds /\ SameTree(k, k') /\ Living(k') = Living(k)
  BY <1>4, <1>7 DEF WokeOne
<1>10. /\ \A j \in PipeIds \ {i} : pipes'[j] = pipes[j]
       /\ pipes'[i].table = pipes[i].table
       /\ \A u \in Pids : AtRead(k', u) => AtRead(k, u) /\ ~ InQueue(q, u)
  <2>1. CASE q = << >> /\ v = r
    <3>1. \A u : ~ InQueue(q, u)
      BY <2>1 DEF InQueue
    <3>. QED BY <1>4, <1>7, <1>8, <2>1, <3>1
  <2>2. CASE /\ q # << >> /\ InQueue(q, dequeue_value(q))
             /\ QueueChanged(r.pipes, v.pipes, i, dequeue(q))
             /\ v.k.status[dequeue_value(q)] = "READY"
             /\ \A u \in Pids \ {dequeue_value(q)} : Undisturbed(r.k, v.k, u)
    <3>. DEFINE d == dequeue_value(q)
    <3>1. /\ InQueue(q, d) /\ k'.status[d] = "READY"
          /\ \A u \in Pids \ {d} : Undisturbed(k, k', u)
          /\ QueueChanged(r.pipes, pipes', i, dequeue(q))
      BY <1>4, <1>7, <2>2
    <3>. HIDE DEF d
    <3>2. \A u \in Pids : InQueue(q, u) => u = shell.right
      BY <1>5, OneReader DEF Queued
    <3>3. d \in Pids
      <4>1. q \in Seq(Pids)
        BY <1>1 DEF Good, WorldOK, PipesOK, PipeOK
      <4>. QED BY <3>1, <4>1 DEF InQueue
    <3>4. ASSUME NEW u \in Pids, AtRead(k', u) PROVE AtRead(k, u) /\ ~ InQueue(q, u)
      <4>1. u # d
        BY <3>1, <3>4 DEF AtRead
      <4>. QED BY <3>1, <3>2, <3>3, <3>4, <4>1 DEF AtRead, Undisturbed
    <3>. QED BY <1>8, <3>1, <3>4 DEF QueueChanged, Requeued
  <2>. QED BY <1>7, <1>8, <2>1, <2>2 DEF WokeOne
<1>11. ASSUME NEW u \in Pids PROVE ReadsFrom(fds, io', u) /\ (AtRead(k', u) => Sleeper(pipes', io', u))
  <2>1. CASE u = c
    BY <1>5, <1>6, <1>10, <2>1 DEF ReadsFrom, NoIo, AtRead
  <2>2. CASE u # c
    <3>1. io'[u] = io[u] /\ ReadsFrom(fds, io, u)
      BY <1>1, <1>6, <2>2 DEF Flow
    <3>2. ASSUME AtRead(k', u) PROVE Sleeper(pipes', io', u)
      <4>1. Sleeper(pipes, io, u) /\ ~ InQueue(q, u)
        BY <1>1, <1>10, <3>2 DEF Flow
      <4>. QED BY <1>10, <3>1, <4>1 DEF Sleeper
    <3>. QED BY <3>1, <3>2 DEF ReadsFrom
  <2>. QED BY <2>1, <2>2
<1>12. LiveEnds(pipes', fds)
  <2>. SUFFICES ASSUME NEW z \in Pids, NEW g \in FdNums, fds[z][g].type = "PIPE"
                PROVE  pipes'[fds[z][g].pipe].table = "used"
    BY DEF LiveEnds
  <2>1. fds[z][g] \in Entries
    BY <1>1 DEF Good, WorldOK, FdsOK
  <2>2. fds[z][g].pipe \in PipeIds
    BY <2>1, EntryLemma
  <2>. QED BY <1>1, <1>10, <2>2 DEF Flow, LiveEnds
<1>13. Held(k', fds, shell)
  BY <1>1, <1>5, <1>9, HeldSame DEF SameTree
<1>14. Flow(k', pipes', fds, io', {})
  BY <1>11, <1>12 DEF Flow
<1>. QED BY <1>1, <1>9, <1>13, <1>14 DEF PipelineInv
LEMMA PipelineInit ==
  ASSUME ShellInit
  PROVE  PipelineInv
<1>1. PipeInv
  BY PipeInvInit
<1>2. PICK background \in BOOLEAN : k = main(background)
  BY DEF ShellInit, Init
<1>3. (\A p \in Pids : k.status[p] # "BLOCKED") /\ k.shell_pid = NULL
  BY <1>2, FamilyBoot
<1>4. /\ fds = [p \in Pids |-> [fd \in FdNums |->
              IF p \in {0, 1} /\ fd <= 2 THEN Terminal ELSE NoFd]]
      /\ io = [p \in Pids |-> NoIo] /\ shell = NewShell
  BY DEF ShellInit, FdNums
<1>5. ASSUME NEW p \in Pids, NEW fd \in FdNums PROVE fds[p][fd].type # "PIPE"
  BY <1>4 DEF NoFd, Terminal
<1>6. Bare(fds)
  BY <1>5 DEF Bare, Piped
<1>7. Held(k, fds, shell)
  BY <1>3, <1>6, BareHeld DEF ShellAlive
<1>8. ShellSane(shell)
  BY <1>4, NewShellSane
<1>9. Flow(k, pipes, fds, io, {})
  <2>1. \A u \in Pids : ~ AtRead(k, u)
    BY <1>3 DEF AtRead
  <2>2. \A u \in Pids : io[u].op # "read"
    BY <1>4 DEF NoIo
  <2>. QED BY <1>6, <2>1, <2>2, BareQuiet DEF Flow, ReadsFrom
<1>. QED BY <1>1, <1>7, <1>8, <1>9 DEF PipelineInv

LEMMA PipelineNext ==
  ASSUME Careful, PipelineInv, [ShellNext]_shellVars
  PROVE  PipelineInv'
<1>1. CASE ShellStep
  BY <1>1, PromptPipeline, RunPipeline, CreatePipeline, OpenPipeline, SpawnPipeline,
     ClosePipeline, WaitPipeline, PipeClosePipeline DEF ShellStep
<1>2. CASE PipeStep
  BY <1>2, ReadPipeline, WritePipeline, ReturnPipeline DEF PipeStep
<1>3. CASE UNCHANGED shellVars
  BY <1>3 DEF shellVars, PipelineInv, PipeInv, world
<1>. QED BY <1>1, <1>2, <1>3, EnterPipeline, StartPipeline, InterruptPipeline, KernelPipeline
     DEF ShellNext

\* The invariant of a pipeline.  A mistyped name makes the shell leave its ends
\* open, and a shell that dies with children leaves theirs: then the next
\* pipe_close frees a pipe that is in use, which is why both are excluded.
THEOREM PipelineInvariance ==
  ASSUME Careful
  PROVE  ShellSpec => []PipelineInv
<1>1. ShellInit => PipelineInv
  BY PipelineInit
<1>2. PipelineInv /\ [ShellNext]_shellVars => PipelineInv'
  BY PipelineNext
<1>. QED BY <1>1, <1>2, PTL DEF ShellSpec

\* No descriptor outlives its pipe (syscall_dispatcher.c sys_pipe_close): when
\* the shell closes the pipe, nobody has an end of it any more.
THEOREM NoEndDangles ==
  ASSUME Careful
  PROVE  ShellSpec => []NoDangling
<1>1. PipelineInv => NoDangling
  <2>. SUFFICES ASSUME PipelineInv, NEW d \in Descriptors, fds[d[1]][d[2]].type = "PIPE"
                PROVE  pipes[fds[d[1]][d[2]].pipe].table = "used"
    BY DEF NoDangling
  <2>1. d[1] \in Pids /\ d[2] \in FdNums
    BY DescriptorsLemma
  <2>. QED BY <2>1 DEF PipelineInv, Flow, LiveEnds
<1>. QED BY <1>1, PipelineInvariance, PTL

\* A reader asleep in pipe_read has nothing to read, somebody may still write,
\* and it is in the queue that the next write or the last close wakes
\* (pipe.c pipe_read, pipe_write, close_pipe_writer).
THEOREM NoReaderForgotten ==
  ASSUME Careful
  PROVE  ShellSpec => []NoLostPipeWakeup
<1>1. PipelineInv => NoLostPipeWakeup
  <2>. SUFFICES ASSUME PipelineInv, NEW p \in Pids,
                       k.status[p] = "BLOCKED", k.block_reason[p] = "PIPE_READ"
                PROVE  LET i == io[p].pipe
                       IN /\ pipes[i].table = "used" /\ pipes[i].writers > 0
                          /\ available(world, i) = 0 /\ InQueue(pipes[i].readers_wait, p)
    BY DEF NoLostPipeWakeup
  <2>. DEFINE i == io[p].pipe
  <2>1. Sleeper(pipes, io, p)
    BY DEF PipelineInv, Flow, AtRead
  <2>2. /\ i \in PipeIds /\ pipes[i].table = "used" /\ pipes[i].writers > 0
        /\ pipes[i].sent = pipes[i].received /\ InQueue(pipes[i].readers_wait, p)
    BY <2>1 DEF Sleeper
  <2>. HIDE DEF i
  <2>3. world.pipes = pipes /\ PipesOK(pipes)
    BY WorldLemma DEF PipelineInv, PipeInv, Good, WorldOK
  <2>4. FifoOK(pipes[i]) /\ pipes[i].sent \in Nat
    BY <2>2, <2>3 DEF PipesOK, PipeOK, FifoOK
  <2>5. Buf!ringbuf_available(pipes[i].ring) = pipes[i].sent - pipes[i].received
    BY <2>4, AvailableLemma
  <2>6. available(world, i) = 0
    BY <2>2, <2>3, <2>4, <2>5 DEF available
  <2>. QED BY <2>2, <2>6 DEF i
<1>. QED BY <1>1, PipelineInvariance, PTL
-----------------------------------------------------------------------------
(* The terminal comes back to the shell.                                   *)

\* The programs are children of the shell, ...
Brood(s) ==
  \A p \in Living(s) \ {0, 1} :
    p = s.shell_pid \/ (ShellAlive(s) /\ s.parent[p] = s.shell_pid)

\* ... at most one of them has the mode of the owner of the terminal, ...
OneOwner(s) == \A p \in Living(s) \ {0, 1} : s.mode[p] = "FG" => s.foreground = p

\* ... and that one is a program that the shell is still to wait for.
Lent(s, sh) ==
  \/ /\ s.foreground = sh.left
     /\ \/ sh.pc \in {"spawn_right", "close_write", "close_read", "wait_left"}
        \/ /\ sh.pc = "wait_right" /\ sh.command # "fg"
           /\ s.waitpid[s.shell_pid] = s.foreground
  \/ /\ s.foreground = sh.right
     /\ \/ sh.pc = "wait_right" /\ sh.command = "fg"
        \/ sh.pc = "prompt" /\ s.waitpid[s.shell_pid] = s.foreground

\* A program in front of the shell.
InFront(s) == s.foreground \in Living(s) \ {0, 1, s.shell_pid} /\ s.parent[s.foreground] = s.shell_pid

Owner(s, sh) ==
  /\ ShellAlive(s) => s.foreground = s.shell_pid \/ (InFront(s) /\ Lent(s, sh))
  /\ ~ ShellAlive(s) => s.foreground = 1

Prompted(sh) == sh.pc # "loop" /\ (sh.pc = "fg" => sh.command = "fg")

Owned(s, sh) == Brood(s) /\ OneOwner(s) /\ Owner(s, sh) /\ Prompted(sh)

TerminalInv == PipelineInv /\ Owned(k, shell)

LEMMA OwnedFrame ==
  ASSUME NEW s, NEW t, NEW sh, NEW sx, Owned(s, sh), Prompted(sx),
         t.shell_pid = s.shell_pid, t.foreground = s.foreground, Living(t) = Living(s),
         \A u \in Living(s) : t.parent[u] = s.parent[u] /\ t.mode[u] = s.mode[u],
         ShellAlive(s) /\ InFront(s) /\ Lent(s, sh) => Lent(t, sx)
  PROVE  Owned(t, sx)
<1>1. ShellAlive(t) <=> ShellAlive(s)
  BY DEF ShellAlive
<1>2. Brood(t) /\ OneOwner(t)
  BY <1>1 DEF Owned, Brood, OneOwner
<1>3. InFront(s) => InFront(t)
  BY DEF InFront
<1>. QED BY <1>1, <1>2, <1>3 DEF Owned, Owner

\* Steps of the scheduler.
LEMMA OwnedSame ==
  ASSUME NEW s, NEW t, NEW sh, NEW sx, Owned(s, sh), Prompted(sx), SameTree(s, t),
         Living(t) = Living(s), ShellAlive(s) /\ InFront(s) /\ Lent(s, sh) => Lent(s, sx)
  PROVE  Owned(t, sx)
<1>1. Lent(s, sx) => Lent(t, sx)
  BY DEF Lent, SameTree
<1>. QED BY <1>1, OwnedFrame DEF SameTree

\* A wait that returned has not left its program in front.
LEMMA OwnedWait ==
  ASSUME NEW s, NEW t, NEW sh, NEW sx, Owned(s, sh), Prompted(sx), NEW c, NEW pid,
         Waited(s, t, c, pid),
         ShellAlive(s) /\ InFront(s) /\ Lent(s, sh)
           /\ (c = s.shell_pid /\ s.foreground = pid => t.waitpid[c] = pid) => Lent(t, sx)
  PROVE  Owned(t, sx)
<1>1. \A u \in Living(s) : t.parent[u] = s.parent[u] /\ t.mode[u] = s.mode[u]
  <2>1. Living(t) \subseteq Alive(t)
    BY DEF Living, Alive
  <2>. QED BY <2>1 DEF Waited
<1>2. InFront(s) => (c = s.shell_pid /\ s.foreground = pid => t.waitpid[c] = pid)
  <2>. SUFFICES ASSUME InFront(s), c = s.shell_pid, s.foreground = pid PROVE t.waitpid[c] = pid
    OBVIOUS
  <2>1. pid \in Living(s) /\ s.parent[pid] = c /\ pid \in Pids
    BY DEF InFront, Living
  <2>2. pid # WAIT_ANY
    BY <2>1, PidsLemma DEF WAIT_ANY
  <2>. QED BY <2>1, <2>2 DEF Waited
<1>3. /\ t.shell_pid = s.shell_pid /\ t.foreground = s.foreground /\ Living(t) = Living(s)
  BY DEF Waited
<1>. QED BY <1>1, <1>2, <1>3, OwnedFrame

\* proc_kill gives the terminal of the dead back to its parent.
LEMMA OwnedDeath ==
  ASSUME NEW s, NEW t, NEW sh, Owned(s, sh), Family(s), Known(s), NEW p \in Living(s) \ {0, 1},
         p = s.shell_pid => s.foreground = p /\ s.children[p] = << >>,
         Died(s, t, p), Family(t)
  PROVE  Owned(t, sh)
<1>. DEFINE m == s.shell_pid
<1>1. /\ Living(t) = Living(s) \ {p} /\ t.shell_pid = m /\ Living(s) \subseteq Alive(s)
      /\ Living(s) \subseteq Pids
  BY DEF Died, Living, Alive
<1>2. TreeTypes(s) /\ Tree(s) /\ (s.foreground # NULL => s.mode[s.foreground] = "FG")
  BY DEF Family, Kin, TerminalOwner
<1>3. CASE p = m
  <2>1. \A u \in Living(s) \ {0, 1} : u = p
    <3>. SUFFICES ASSUME NEW u \in Living(s) \ {0, 1}, u # p PROVE FALSE
      OBVIOUS
    <3>1. u \in Alive(s) /\ s.parent[u] = p
      BY <1>1, <1>3 DEF Owned, Brood
    <3>2. InQueue(s.children[p], u)
      BY <1>1, <1>2, <3>1 DEF Tree
    <3>. QED BY <1>3, <3>2 DEF InQueue
  <2>2. p # NULL /\ s.parent[p] = 1
    BY <1>1, <1>3, PidsLemma DEF Known, NULL
  <2>3. t.foreground = 1
    BY <2>2, PidsLemma DEF Died, Ceded, NULL
  <2>4. ~ ShellAlive(t)
    BY <1>1, <1>3 DEF ShellAlive
  <2>. QED BY <1>1, <2>1, <2>3, <2>4 DEF Owned, Brood, OneOwner, Owner
<1>4. CASE p # m
  <2>1. ShellAlive(s) /\ s.parent[p] = m /\ m \in Living(s) /\ m \notin {NULL, 1} /\ m \in Pids \ {p}
    BY <1>1, <1>4 DEF Owned, Brood, ShellAlive, Known
  <2>2. ShellAlive(t)
    BY <1>1, <1>4, <2>1 DEF ShellAlive
  <2>3. \A u \in Living(t) \ {0, 1} : t.parent[u] = s.parent[u]
    <3>. SUFFICES ASSUME NEW u \in Living(t) \ {0, 1} PROVE t.parent[u] = s.parent[u]
      OBVIOUS
    <3>1. u \in Living(s) \ {0, 1, p} /\ u \in Pids \ {p}
      BY <1>1
    <3>2. s.parent[u] # p
      BY <1>4, <2>1, <3>1 DEF Owned, Brood, Known
    <3>. QED BY <3>1, <3>2 DEF Died
  <2>4. Brood(t)
    BY <1>1, <2>2, <2>3 DEF Owned, Brood
  <2>5. Ceded(s, t, m, p) /\ t.waitpid[m] = s.waitpid[m]
    BY <2>1 DEF Died
  <2>6. CASE s.mode[p] = "FG"
    <3>1. /\ t.mode = [[s.mode EXCEPT ![p] = "BG"] EXCEPT ![m] = "FG"] /\ t.foreground = m
      <4>1. p # NULL
        BY <1>1, PidsLemma
      <4>. QED BY <2>1, <2>5, <2>6, <4>1 DEF Ceded
    <3>2. \A u \in Pids \ {p, m} : t.mode[u] = s.mode[u]
      BY <1>2, <3>1 DEF TreeTypes
    <3>3. s.foreground = p
      BY <2>6 DEF Owned, OneOwner
    <3>4. OneOwner(t)
      <4>. SUFFICES ASSUME NEW u \in Living(t) \ {0, 1}, t.mode[u] = "FG", u # m PROVE FALSE
        BY <3>1 DEF OneOwner
      <4>1. u \in Living(s) \ {0, 1} /\ u \in Pids \ {p, m}
        BY <1>1
      <4>. QED BY <3>2, <3>3, <4>1 DEF Owned, OneOwner
    <3>5. Owner(t, sh)
      BY <1>1, <2>2, <3>1 DEF Owner
    <3>. QED BY <2>4, <3>4, <3>5 DEF Owned
  <2>7. CASE s.mode[p] # "FG"
    <3>1. t.mode = s.mode /\ t.foreground = s.foreground
      BY <2>1, <2>5, <2>7 DEF Ceded
    <3>2. OneOwner(t)
      BY <1>1, <3>1 DEF Owned, OneOwner
    <3>3. s.foreground # p
      BY <1>1, <1>2, <2>7, PidsLemma DEF NULL
    <3>4. InFront(s) => InFront(t)
      BY <1>1, <2>3, <3>1, <3>3 DEF InFront
    <3>5. Lent(s, sh) => Lent(t, sh)
      BY <1>1, <2>5, <3>1 DEF Lent
    <3>6. Owner(t, sh)
      BY <1>1, <2>1, <2>2, <3>1, <3>4, <3>5 DEF Owned, Owner
    <3>. QED BY <2>4, <3>2, <3>6 DEF Owned
  <2>. QED BY <2>6, <2>7, <1>2
<1>. QED BY <1>3, <1>4

\* The shell starts a program, in the foreground only when it has the terminal.
LEMMA OwnedSpawn ==
  ASSUME NEW s, NEW t, NEW sh, NEW sx, Owned(s, sh), Prompted(sx), Inv(s), Family(s),
         ShellAlive(s), s.current = s.shell_pid, s.shell_pid \in Pids \ {0, 1},
         NEW p, NEW b \in BOOLEAN, SpawnedAs(s, t, p, b),
         IF b THEN Lent(s, sh) => Lent(s, sx)
         ELSE /\ s.foreground = s.shell_pid
              /\ \/ sx.pc = "spawn_right" /\ sx.left = p
                 \/ sx.pc = "wait_right" /\ sx.command = "fg" /\ sx.right = p
  PROVE  Owned(t, sx)
<1>. DEFINE m == s.shell_pid
<1>1. CASE p = NULL
  <2>1. Shape(s)
    BY DEF Inv, Core, Queues, Types
  <2>2. t = fault(s)
    BY <1>1, PidsLemma DEF SpawnedAs
  <2>3. SameTree(s, t) /\ t.status = s.status
    BY ONLY <2>1, <2>2 DEF fault, Shape, Fields, SameTree
  <2>4. Living(t) = Living(s)
    BY <2>3 DEF Living
  <2>5. ShellAlive(s) /\ InFront(s) /\ Lent(s, sh) => Lent(s, sx)
    BY DEF InFront
  <2>. QED BY <2>3, <2>4, <2>5, OwnedSame
<1>2. CASE p # NULL
  <2>1. /\ p \in Pids \ Alive(s) /\ Spawned(s, t, p)
        /\ IF b THEN t.mode = s.mode /\ t.foreground = s.foreground
           ELSE Ceded(s, t, p, m)
    BY <1>2 DEF SpawnedAs
  <2>2. /\ s.status \in [Pids -> Statuses] /\ s.parent \in [Pids -> Pids \cup {NULL}]
        /\ s.mode \in [Pids -> {"BG", "FG"}] /\ s.mode[p] = "BG" /\ s.mode[s.foreground] = "FG"
    <3>1. s.foreground # NULL
      BY PidsLemma DEF Owned, Owner, InFront, Living
    <3>. QED BY <2>1, <3>1
         DEF Inv, Core, Queues, Types, Family, Kin, TreeTypes, Tree, TerminalOwner
  <2>3. {0, 1} \subseteq Living(s) /\ Living(s) \subseteq Alive(s) /\ Living(s) \subseteq Pids
    <3>1. 0 \in Living(s) /\ 1 \in Living(s)
      BY PidsLemma DEF Inv, Idle, Family, Root, Living
    <3>. QED BY <3>1 DEF Living, Alive
  <2>4. Living(t) = Living(s) \cup {p} /\ p \notin {0, 1, m}
    <3>1. t.status[p] = "READY" /\ \A u \in Pids \ {p} : t.status[u] = s.status[u]
      BY <2>1, <2>2 DEF Spawned
    <3>2. p \notin Living(s)
      BY <2>1, <2>3
    <3>. QED BY <2>1, <2>3, <3>1, <3>2 DEF Living, ShellAlive
  <2>5. /\ t.shell_pid = m /\ ShellAlive(t) /\ t.parent[p] = m /\ t.waitpid = s.waitpid
        /\ \A u \in Pids \ {p} : t.parent[u] = s.parent[u]
    BY <2>1, <2>2, <2>4 DEF Spawned, ShellAlive
  <2>6. Brood(t)
    BY <2>3, <2>4, <2>5 DEF Owned, Brood
  <2>7. CASE b
    <3>1. t.mode = s.mode /\ t.foreground = s.foreground
      BY <2>1, <2>7
    <3>2. OneOwner(t)
      BY <2>2, <2>4, <3>1 DEF Owned, OneOwner
    <3>3. InFront(s) => InFront(t)
      BY <2>1, <2>3, <2>4, <2>5, <3>1 DEF InFront
    <3>4. Lent(s, sh) => Lent(t, sx)
      BY <2>5, <2>7, <3>1 DEF Lent
    <3>5. Owner(t, sx)
      BY <2>5, <3>1, <3>3, <3>4 DEF Owned, Owner
    <3>. QED BY <2>6, <3>2, <3>5 DEF Owned
  <2>8. CASE ~ b
    <3>1. s.mode[m] = "FG" /\ m # NULL
      BY <2>2, <2>8, PidsLemma
    <3>2. t.mode = [[s.mode EXCEPT ![m] = "BG"] EXCEPT ![p] = "FG"] /\ t.foreground = p
      BY <1>2, <2>1, <2>4, <2>8, <3>1 DEF Ceded
    <3>3. t.mode[m] = "BG" /\ \A u \in Pids \ {p, m} : t.mode[u] = s.mode[u]
      BY <2>2, <2>4, <3>2
    <3>4. OneOwner(t)
      <4>. SUFFICES ASSUME NEW u \in Living(t) \ {0, 1}, t.mode[u] = "FG", u # p PROVE FALSE
        BY <3>2 DEF OneOwner
      <4>1. u \in Living(s) \ {0, 1} /\ u \in Pids \ {p, m}
        BY <2>3, <2>4, <3>3
      <4>. QED BY <2>8, <3>3, <4>1 DEF Owned, OneOwner
    <3>5. InFront(t) /\ Lent(t, sx)
      BY <2>4, <2>5, <2>8, <3>2 DEF InFront, Lent
    <3>. QED BY <2>5, <2>6, <3>4, <3>5 DEF Owned, Owner
  <2>. QED BY <2>7, <2>8
<1>. QED BY <1>1, <1>2

\* init starts the shell and cedes it the terminal.
LEMMA OwnedStart ==
  ASSUME NEW s, NEW t, NEW sh, Owned(s, sh), Inv(s), Family(s), s.shell_pid = NULL,
         s.current = 1, NEW p, SpawnedAs(s, t, p, FALSE), NEW x,
         x = [t EXCEPT !.shell_pid = p], NEW sx, Prompted(sx)
  PROVE  Owned(x, sx)
<1>1. Shape(s) /\ Shape(t) /\ ~ ShellAlive(s)
  BY DEF SpawnedAs, Inv, Core, Queues, Types, ShellAlive
<1>2. /\ x.status = t.status /\ x.mode = t.mode /\ x.foreground = t.foreground
      /\ x.parent = t.parent /\ x.shell_pid = p
  BY ONLY <1>1, x = [t EXCEPT !.shell_pid = p] DEF Shape, Fields
<1>3. s.foreground = 1 /\ \A u \in Living(s) : u \in {0, 1}
  BY <1>1, PidsLemma DEF Owned, Owner, Brood, Living
<1>4. CASE p = NULL
  <2>1. t = fault(s)
    BY <1>4, PidsLemma DEF SpawnedAs
  <2>2. t.status = s.status /\ t.foreground = s.foreground
    BY ONLY <1>1, <2>1 DEF fault, Shape, Fields
  <2>3. Living(x) = Living(s) /\ x.foreground = 1
    BY <1>2, <1>3, <2>2 DEF Living
  <2>. QED BY <1>2, <1>3, <1>4, <2>3 DEF Owned, Brood, OneOwner, Owner, ShellAlive
<1>5. CASE p # NULL
  <2>1. p \in Pids \ Alive(s) /\ Spawned(s, t, p) /\ Ceded(s, t, p, 1)
    BY <1>5 DEF SpawnedAs
  <2>2. /\ s.status \in [Pids -> Statuses] /\ s.mode[1] = "FG"
    BY <1>3, PidsLemma DEF Inv, Core, Queues, Types, Family, Kin, TerminalOwner, NULL
  <2>3. {0, 1} \subseteq Alive(s) /\ Living(s) \subseteq Pids
    <3>1. 0 \in Living(s) /\ 1 \in Living(s)
      BY PidsLemma DEF Inv, Idle, Family, Root, Living
    <3>. QED BY <3>1 DEF Living, Alive
  <2>4. p \notin {0, 1} /\ t.foreground = p
    <3>1. p \notin {0, 1}
      BY <2>1, <2>3
    <3>2. 1 # NULL
      BY PidsLemma
    <3>. QED BY <1>5, <2>1, <2>2, <3>1, <3>2 DEF Ceded
  <2>5. Living(x) = Living(s) \cup {p}
    <3>1. t.status[p] = "READY" /\ \A u \in Pids \ {p} : t.status[u] = s.status[u]
      BY <2>1, <2>2 DEF Spawned
    <3>. QED BY <1>2, <2>1, <2>3, <3>1 DEF Living
  <2>6. ShellAlive(x) /\ x.foreground = x.shell_pid
    BY <1>2, <1>5, <2>4, <2>5 DEF ShellAlive
  <2>. QED BY <1>2, <1>3, <2>5, <2>6 DEF Owned, Brood, OneOwner, Owner
<1>. QED BY <1>4, <1>5

\* The steps of the shell that change nothing in the tree of processes.
LEMMA CallOwned ==
  ASSUME TerminalInv, NEW pc, ShellAt(pc), Prompted(shell'),
         SameTree(k, k'), Living(k') = Living(k),
         Lent(k, shell) => Lent(k, shell')
  PROVE  Owned(k', shell')
BY OwnedSame DEF TerminalInv

LEMMA GoesToFields ==
  ASSUME TerminalInv, NEW pc, GoesTo(pc)
  PROVE  /\ shell'.pc = pc /\ shell'.command = shell.command
         /\ shell'.left = shell.left /\ shell'.right = shell.right
BY DEF TerminalInv, PipelineInv, PipeInv, GoesTo, ShellRecords

\* When it is not the program, the shell has the terminal.
LEMMA AtHome ==
  ASSUME TerminalInv, ShellAlive(k), ~ Lent(k, shell)
  PROVE  k.foreground = k.shell_pid
BY DEF TerminalInv, Owned, Owner

LEMMA PromptOwned ==
  ASSUME TerminalInv, Prompt
  PROVE  Owned(k', shell')
<1>1. /\ PipelineInv /\ Good(world, io) /\ world.k = k /\ UNCHANGED <<pipes, fds, io>>
      /\ ShellAt("prompt")
  BY WorldLemma DEF TerminalInv, PipelineInv, PipeInv, Prompt
<1>2. /\ ShellAlive(k) /\ shell.pc = "prompt" /\ k.waitpid[k.shell_pid] = NoWait
      /\ me \in Pids \ {0} /\ me = k.current /\ me = k.shell_pid
  BY <1>1, ShellTied, ShellRuns DEF PipelineInv, me
<1>3. ~ (InFront(k) /\ Lent(k, shell))
  <2>1. \A p \in Pids : p # NoWait
    BY PidsLemma DEF NoWait
  <2>. QED BY <1>2, <2>1 DEF InFront, Living, Lent
<1>4. k.foreground = me
  BY <1>2, <1>3 DEF TerminalInv, Owned, Owner
<1>5. k' = block_current(k, "TERMINAL", "resource") /\ GoesTo("reading")
  BY <1>4 DEF Prompt
<1>6. Is(world', k', world.pipes, world.fds)
  BY <1>1, SamePipesLemma
<1>7. SameTree(k, k') /\ Living(k') = Living(k)
  <2>1. me = world.k.current /\ k' = block_current(world.k, "TERMINAL", "resource")
    BY <1>1, <1>2, <1>5
  <2>2. /\ Good(world', io) /\ SameTree(world.k, k')
        /\ Living(k') = Living(world.k) /\ Alive(k') = Alive(world.k)
        /\ \A u \in Pids \ {me} : SameWait(world.k, k', u)
        /\ k'.status[me] = "BLOCKED" /\ k'.block_reason[me] = "TERMINAL"
    BY <1>1, <1>2, <1>6, <2>1, PromptGood
  <2>. QED BY <1>1, <2>2
<1>8. Prompted(shell')
  BY <1>5, GoesToFields DEF Prompted
<1>. QED BY <1>3, <1>7, <1>8, OwnedSame DEF TerminalInv

LEMMA EnterOwned ==
  ASSUME TerminalInv, Enter
  PROVE  Owned(k', shell')
<1>1. /\ Good(world, io) /\ world.k = k /\ UNCHANGED <<pipes, fds, io>>
      /\ shell.pc = "reading" /\ k.status[me] = "BLOCKED" /\ me = k.shell_pid /\ me # NULL
      /\ k' = proc_ready(k, me) /\ shell \in ShellRecords
  BY WorldLemma DEF TerminalInv, PipelineInv, PipeInv, Enter, me
<1>2. me \in Pids
  BY <1>1 DEF Good, Known, Alive
<1>3. PICK c \in Commands : shell' = [shell EXCEPT !.command = c,
                               !.pc = IF c \in {"fg", "bg"} THEN c ELSE "create"]
  BY DEF Enter
<1>4. shell'.pc = (IF c \in {"fg", "bg"} THEN c ELSE "create") /\ shell'.command = c
  BY <1>1, <1>3 DEF ShellRecords
<1>5. Prompted(shell')
  BY <1>4 DEF Prompted
<1>6. Is(world', k', world.pipes, world.fds)
  BY <1>1, SamePipesLemma
<1>7. SameTree(k, k') /\ Living(k') = Living(k)
  <2>1. me = world.k.shell_pid /\ world.k.status[me] = "BLOCKED" /\ k' = proc_ready(world.k, me)
    BY <1>1
  <2>2. /\ Good(world', io) /\ SameTree(world.k, k')
        /\ Living(k') = Living(world.k) /\ Alive(k') = Alive(world.k)
        /\ \A u \in Pids \ {me} : Undisturbed(world.k, k', u)
        /\ k'.status[me] = "READY"
    BY <1>1, <1>2, <1>6, <2>1, EnterGood
  <2>. QED BY <1>1, <2>2
<1>8. ~ Lent(k, shell)
  BY <1>1 DEF Lent
<1>. QED BY <1>5, <1>7, <1>8, OwnedSame DEF TerminalInv

\* The calls on pipes.
LEMMA PipeCallsOwned ==
  ASSUME TerminalInv, Create \/ OpenRead \/ OpenWrite \/ CloseWrite \/ CloseRead \/ PipeClose
  PROVE  Owned(k', shell')
<1>1. /\ PipelineInv /\ Good(world, io) /\ world.k = k /\ world.fds = fds /\ world.pipes = pipes
      /\ shell \in ShellRecords /\ ShellSane(shell) /\ UNCHANGED io
      /\ Flow(k, pipes, fds, io, {})
  BY WorldLemma DEF TerminalInv, PipelineInv, PipeInv, Create, OpenRead, OpenWrite, CloseWrite,
     CloseRead, PipeClose
<1>2. ASSUME NEW v, Good(v, io), Becomes(v), v.k = world.k
      PROVE  SameTree(k, k') /\ Living(k') = Living(k)
  <2>1. world' = v
    BY <1>2, BecomesLemma DEF Good, WorldOK
  <2>2. k' = k
    BY <1>1, <1>2, <2>1, WorldLemma
  <2>. QED BY <2>2 DEF SameTree
<1>3. CASE Create
  <2>1. ShellAt("create") /\ GoesTo("open_read") /\ Becomes(create_pipe(world))
    BY <1>3 DEF Create
  <2>2. Good(create_pipe(world), io) /\ create_pipe(world).k = world.k
    BY <1>1, CreateGood DEF Created
  <2>3. Prompted(shell') /\ ~ Lent(k, shell)
    BY <2>1, GoesToFields DEF Prompted, Lent, ShellAt
  <2>4. SameTree(k, k') /\ Living(k') = Living(k)
    BY <1>2, <2>1, <2>2
  <2>. QED BY <2>1, <2>3, <2>4, CallOwned
<1>4. ASSUME NEW pc \in {"open_read", "open_write"}, ShellAt(pc), NEW end \in Ends,
             Becomes(sys_pipe_open(world, me, end)),
             shell'.pc \in {"open_write", "spawn_left"}
      PROVE  Owned(k', shell')
  <2>1. Good(sys_pipe_open(world, me, end), io) /\ sys_pipe_open(world, me, end).k = world.k
    <3>1. me \in Living(world.k) /\ Tied(world.fds, me) /\ LiveEnds(world.pipes, world.fds)
      BY <1>1, <1>4, ShellTied, ShellRuns DEF me, Flow, PipelineInv
    <3>2. OpenedAs(world, sys_pipe_open(world, me, end), me, opened_fd(world, me))
          /\ Good(sys_pipe_open(world, me, end), io)
      BY <1>1, <3>1, OpenLive
    <3>. QED BY <3>2 DEF OpenedAs
  <2>2. Prompted(shell') /\ ~ Lent(k, shell)
    BY <1>4 DEF Prompted, Lent, ShellAt
  <2>3. SameTree(k, k') /\ Living(k') = Living(k)
    BY <1>2, <1>4, <2>1
  <2>. QED BY <1>4, <2>2, <2>3, CallOwned
<1>5. CASE OpenRead
  <2>1. shell'.pc = "open_write"
    BY <1>1, <1>5 DEF OpenRead, ShellRecords
  <2>. QED BY <1>4, <1>5, <2>1 DEF OpenRead, Ends
<1>6. CASE OpenWrite
  <2>1. shell'.pc = "spawn_left"
    BY <1>1, <1>6 DEF OpenWrite, ShellRecords
  <2>. QED BY <1>4, <1>6, <2>1 DEF OpenWrite, Ends
<1>7. ASSUME NEW pc \in {"close_write", "close_read"}, ShellAt(pc),
             NEW next \in {"close_read", "wait_left"}, GoesTo(next),
             NEW fd \in {shell.read_fd, shell.write_fd},
             Becomes(sys_close_fd(world, me, fd))
      PROVE  Owned(k', shell')
  <2>1. fd \in FdNums \cup {-1} /\ fd \notin {0, 1}
    BY <1>1, <1>7 DEF ShellSane, ShellRecords
  <2>2. /\ SameTree(k, k') /\ Living(k') = Living(k) /\ Tied(fds', k.shell_pid)
        /\ Piped(fds', k.shell_pid) \subseteq Piped(fds, k.shell_pid) \ {fd}
        /\ \A u \in Pids \ {k.shell_pid} : fds'[u] = fds[u]
        /\ Flow(k', pipes', fds', io', {})
    BY <1>1, <1>7, <2>1, CloseLive
  <2>3. /\ shell'.pc = next /\ shell'.command = shell.command
        /\ shell'.left = shell.left /\ shell'.right = shell.right /\ shell.pc = pc
    BY <1>7, GoesToFields DEF ShellAt
  <2>4. Prompted(shell') /\ (Lent(k, shell) => Lent(k, shell'))
    BY <1>7, <2>3 DEF Prompted, Lent
  <2>. QED BY <1>7, <2>2, <2>4, CallOwned
<1>8. CASE CloseWrite
  BY <1>7, <1>8 DEF CloseWrite
<1>9. CASE CloseRead
  BY <1>7, <1>9 DEF CloseRead
<1>10. CASE PipeClose
  <2>1. ShellAt("pipe_close") /\ shell' = NewShell /\ Becomes(sys_pipe_close(world))
    BY <1>10 DEF PipeClose
  <2>2. Good(sys_pipe_close(world), io) /\ sys_pipe_close(world).k = world.k
    BY <1>1, PipeCloseGood
  <2>3. Prompted(shell') /\ ~ Lent(k, shell)
    BY <2>1, NewShellSane DEF Prompted, Lent, ShellAt
  <2>4. SameTree(k, k') /\ Living(k') = Living(k)
    BY <1>2, <2>1, <2>2
  <2>. QED BY <2>1, <2>3, <2>4, CallOwned
<1>. QED BY <1>3, <1>5, <1>6, <1>8, <1>9, <1>10

\* What a spawn of the shell does to the kernel.
LEMMA SpawnsKernel ==
  ASSUME TerminalInv, NEW pc, ShellAt(pc), UNCHANGED io, NEW b \in BOOLEAN,
         \/ Becomes(spawn_default(world, b))
         \/ \E x, y \in FdNums \cup {-1} : Becomes(spawn_with(world, <<x, y, -1>>, b))
  PROVE  /\ SpawnedAs(k, k', proc_pid_alloc(k), b) /\ Inv(k) /\ Family(k) /\ ShellAlive(k)
         /\ k.current = k.shell_pid /\ k.shell_pid \in Pids \ {0, 1}
         /\ shell.pc = pc /\ k.waitpid[k.shell_pid] = NoWait
<1>1. Good(world, io) /\ world.k = k /\ Inv(k) /\ Family(k)
  BY WorldLemma DEF TerminalInv, PipelineInv, PipeInv, Good, WorldOK
<1>2. /\ ShellAlive(k) /\ k.current = k.shell_pid /\ k.shell_pid \in Pids \ {0, 1}
      /\ shell.pc = pc /\ k.waitpid[k.shell_pid] = NoWait
  BY ShellRuns, ShellTied DEF TerminalInv, PipelineInv, me
<1>3. CASE Becomes(spawn_default(world, b))
  <2>. DEFINE v == spawn_default(world, b)
  <2>1. Good(v, io) /\ DefaultSpawn(world, v, proc_pid_alloc(world.k), b)
    BY <1>1, SpawnDefaultGood
  <2>. HIDE DEF v
  <2>2. k' = v.k
    <3>1. world' = v
      BY <1>3, <2>1, BecomesLemma DEF Good, WorldOK, v
    <3>. QED BY <3>1, WorldLemma
  <2>. QED BY <1>1, <1>2, <2>1, <2>2 DEF DefaultSpawn
<1>4. CASE \E x, y \in FdNums \cup {-1} : Becomes(spawn_with(world, <<x, y, -1>>, b))
  <2>1. PICK x \in FdNums \cup {-1}, y \in FdNums \cup {-1} :
               Becomes(spawn_with(world, <<x, y, -1>>, b))
    BY <1>4
  <2>. DEFINE list == <<x, y, -1>>
              v == spawn_with(world, list, b)
  <2>2. /\ list \in Seq(FdNums \cup {-1}) /\ Len(list) = 3 /\ Len(list) <= FD_MAX
        /\ list[1] = x /\ list[2] = y /\ list[3] = -1
        /\ \E i \in 1..Len(list) : list[i] < 0
    BY ListLemma
  <2>. HIDE DEF list
  <2>3. world.k.current \in Pids
    BY <1>1, <1>2
  <2>4. Good(v, io) /\ ListSpawn(world, v, proc_pid_alloc(world.k), list, b)
    BY <1>1, <2>2, <2>3, SpawnWithGood
  <2>. HIDE DEF v
  <2>5. k' = v.k
    <3>1. world' = v
      BY <2>1, <2>4, BecomesLemma DEF Good, WorldOK, v, list
    <3>. QED BY <3>1, WorldLemma
  <2>. QED BY <1>1, <1>2, <2>4, <2>5 DEF ListSpawn
<1>. QED BY <1>3, <1>4

LEMMA RunOwned ==
  ASSUME TerminalInv, RunForeground \/ RunBackground
  PROVE  Owned(k', shell')
<1>. DEFINE p == proc_pid_alloc(k)
<1>1. Owned(k, shell) /\ shell \in ShellRecords
  BY DEF TerminalInv, PipelineInv, PipeInv
<1>2. CASE RunForeground
  <2>1. /\ ShellAt("fg") /\ UNCHANGED io /\ Becomes(spawn_default(world, FALSE))
        /\ shell' = [shell EXCEPT !.pc = "wait_right", !.right = p]
    BY <1>2 DEF RunForeground
  <2>2. /\ SpawnedAs(k, k', p, FALSE) /\ Inv(k) /\ Family(k) /\ ShellAlive(k)
        /\ k.current = k.shell_pid /\ k.shell_pid \in Pids \ {0, 1} /\ shell.pc = "fg"
    BY <2>1, SpawnsKernel
  <2>. HIDE DEF p
  <2>3. shell'.pc = "wait_right" /\ shell'.right = p /\ shell'.command = "fg"
    BY <1>1, <2>1, <2>2 DEF ShellRecords, Owned, Prompted
  <2>4. k.foreground = k.shell_pid
    BY <2>2, AtHome DEF Lent
  <2>5. Prompted(shell')
    BY <2>3 DEF Prompted
  <2>. QED BY <1>1, <2>2, <2>3, <2>4, <2>5, OwnedSpawn
<1>3. CASE RunBackground
  <2>1. ShellAt("bg") /\ UNCHANGED io /\ Becomes(spawn_default(world, TRUE)) /\ GoesTo("prompt")
    BY <1>3 DEF RunBackground
  <2>2. /\ SpawnedAs(k, k', p, TRUE) /\ Inv(k) /\ Family(k) /\ ShellAlive(k)
        /\ k.current = k.shell_pid /\ k.shell_pid \in Pids \ {0, 1} /\ shell.pc = "bg"
    BY <2>1, SpawnsKernel
  <2>. HIDE DEF p
  <2>3. Prompted(shell') /\ ~ Lent(k, shell)
    BY <2>1, <2>2, GoesToFields DEF Prompted, Lent
  <2>. QED BY <1>1, <2>2, <2>3, OwnedSpawn
<1>. QED BY <1>2, <1>3

LEMMA SpawnOwned ==
  ASSUME TerminalInv, Careful, SpawnLeft \/ SpawnRight
  PROVE  Owned(k', shell')
<1>. DEFINE p == proc_pid_alloc(k)
<1>1. Owned(k, shell) /\ shell \in ShellRecords
  BY DEF TerminalInv, PipelineInv, PipeInv
<1>2. shell.command \notin {"typo_left", "typo_right"}
  BY <1>1 DEF Careful, ShellRecords
<1>3. {0, 1, -1, shell.read_fd, shell.write_fd} \subseteq FdNums \cup {-1}
  <2>1. 0 \in FdNums /\ 1 \in FdNums
    BY PipeAssumption DEF FdNums
  <2>. QED BY <1>1, <2>1 DEF ShellRecords
<1>4. CASE SpawnLeft
  <2>1. /\ ShellAt("spawn_left") /\ UNCHANGED io
        /\ Becomes(spawn_with(world, <<0, shell.write_fd, -1>>, FALSE))
        /\ shell' = [shell EXCEPT !.pc = "spawn_right", !.left = p]
    BY <1>2, <1>4 DEF SpawnLeft
  <2>2. /\ SpawnedAs(k, k', p, FALSE) /\ Inv(k) /\ Family(k) /\ ShellAlive(k)
        /\ k.current = k.shell_pid /\ k.shell_pid \in Pids \ {0, 1} /\ shell.pc = "spawn_left"
    BY <1>3, <2>1, SpawnsKernel
  <2>. HIDE DEF p
  <2>3. shell'.pc = "spawn_right" /\ shell'.left = p
    BY <1>1, <2>1 DEF ShellRecords
  <2>4. k.foreground = k.shell_pid
    BY <2>2, AtHome DEF Lent
  <2>5. Prompted(shell')
    BY <2>3 DEF Prompted
  <2>. QED BY <1>1, <2>2, <2>3, <2>4, <2>5, OwnedSpawn
<1>5. CASE SpawnRight
  <2>1. /\ ShellAt("spawn_right") /\ UNCHANGED io
        /\ Becomes(spawn_with(world, <<shell.read_fd, 1, -1>>, TRUE))
        /\ shell' = [shell EXCEPT !.pc = "close_write", !.right = p]
    BY <1>2, <1>5 DEF SpawnRight
  <2>2. /\ SpawnedAs(k, k', p, TRUE) /\ Inv(k) /\ Family(k) /\ ShellAlive(k)
        /\ k.current = k.shell_pid /\ k.shell_pid \in Pids \ {0, 1} /\ shell.pc = "spawn_right"
    BY <1>3, <2>1, SpawnsKernel
  <2>. HIDE DEF p
  <2>3. shell'.pc = "close_write" /\ shell'.left = shell.left
    BY <1>1, <2>1 DEF ShellRecords
  <2>4. Prompted(shell') /\ (Lent(k, shell) => Lent(k, shell'))
    BY <2>2, <2>3 DEF Prompted, Lent
  <2>. QED BY <1>1, <2>2, <2>4, OwnedSpawn
<1>. QED BY <1>4, <1>5

LEMMA StartOwned ==
  ASSUME TerminalInv, StartShell
  PROVE  Owned(k', shell')
<1>. DEFINE a == spawn_default(world, FALSE)
            p == proc_pid_alloc(k)
            x == [a EXCEPT !.k.shell_pid = p]
<1>1. /\ Good(world, io) /\ world.k = k /\ Inv(k) /\ Family(k) /\ Owned(k, shell)
      /\ shell' = NewShell /\ Becomes(x) /\ k.shell_pid = NULL /\ k.current = 1
  BY WorldLemma DEF TerminalInv, PipelineInv, PipeInv, StartShell, Good, WorldOK
<1>2. Good(a, io) /\ DefaultSpawn(world, a, p, FALSE)
  BY <1>1, SpawnDefaultGood
<1>. HIDE DEF a, p
<1>3. Is(x, [a.k EXCEPT !.shell_pid = p], a.pipes, a.fds)
  <2>1. World(a)
    BY <1>2 DEF Good, WorldOK
  <2>. QED BY ONLY <2>1 DEF Is, World, WorldFields
<1>. HIDE DEF x
<1>4. k' = [a.k EXCEPT !.shell_pid = p]
  <2>1. world' = x
    BY <1>1, <1>3, BecomesLemma DEF Is
  <2>. QED BY <1>3, <2>1, WorldLemma DEF Is
<1>5. SpawnedAs(k, a.k, p, FALSE)
  BY <1>1, <1>2 DEF DefaultSpawn
<1>6. Prompted(shell')
  BY <1>1, NewShellSane DEF Prompted
<1>. QED BY <1>1, <1>4, <1>5, <1>6, OwnedStart

LEMMA WaitOwned ==
  ASSUME TerminalInv, WaitLeft \/ WaitRight
  PROVE  Owned(k', shell')
<1>. DEFINE m == k.shell_pid
            pid == IF shell.pc = "wait_left" THEN shell.left ELSE shell.right
<1>1. /\ PipelineInv /\ ShellSane(shell) /\ shell \in ShellRecords /\ Owned(k, shell)
      /\ UNCHANGED <<pipes, fds, io>> /\ Good(world, io) /\ world.k = k
  BY WorldLemma DEF TerminalInv, PipelineInv, PipeInv, WaitLeft, WaitRight
<1>2. ShellAlive(k) /\ shell.pc \in {"wait_left", "wait_right"} /\ k.waitpid[m] = NoWait
  BY <1>1, ShellTied DEF WaitLeft, WaitRight
<1>3. m \in Pids \ {0, 1} /\ m = k.current
  BY <1>1, ShellRuns DEF WaitLeft, WaitRight, me, PipelineInv
<1>4. pid \in Pids \cup {WAIT_ANY} /\ k' = wait_pid(k, pid)
  BY <1>1 DEF WaitLeft, WaitRight, ShellAt, ShellRecords, NULL, WAIT_ANY
<1>. HIDE DEF pid
<1>5. Is(world', k', world.pipes, world.fds)
  BY <1>1, SamePipesLemma
<1>6. Waited(k, k', m, pid)
  <2>1. /\ m = world.k.current /\ k' = wait_pid(world.k, pid) /\ world.k.waitpid[m] = NoWait
    BY <1>1, <1>2, <1>3, <1>4
  <2>2. Good(world', io) /\ SameWaits(world.k, k') /\ Waited(world.k, k', m, pid)
    BY <1>1, <1>3, <1>4, <1>5, <2>1, WaitGood
  <2>. QED BY <1>1, <2>2
<1>7. k'.shell_pid = m /\ k'.foreground = k.foreground
  BY <1>6 DEF Waited
<1>8. \A u \in Living(k) : u # NoWait
  BY PidsLemma DEF Living, NoWait
<1>9. PICK next : GoesTo(next) /\ next = IF shell.pc = "wait_left" THEN "wait_right"
                                         ELSE IF shell.command = "fg" THEN "prompt" ELSE "pipe_close"
  BY DEF WaitLeft, WaitRight, ShellAt
<1>10. /\ shell'.pc = next /\ shell'.command = shell.command
       /\ shell'.left = shell.left /\ shell'.right = shell.right
  BY <1>9, GoesToFields
<1>11. Prompted(shell')
  BY <1>9, <1>10 DEF Prompted
<1>12. ASSUME InFront(k), Lent(k, shell), k.foreground = pid => k'.waitpid[m] = pid
       PROVE  Lent(k', shell')
  <2>1. k.foreground # NoWait
    BY <1>8, <1>12 DEF InFront
  <2>2. CASE shell.pc = "wait_left"
    <3>1. k.foreground = shell.left /\ shell.command # "fg" /\ pid = shell.left
      BY <1>1, <1>12, <2>2 DEF Lent, ShellSane, PipelinePcs, pid
    <3>. QED BY <1>7, <1>9, <1>10, <1>12, <2>2, <3>1 DEF Lent
  <2>3. CASE shell.pc = "wait_right"
    <3>1. k.foreground = shell.right /\ shell.command = "fg" /\ pid = shell.right
      BY <1>2, <1>12, <2>1, <2>3 DEF Lent, pid
    <3>. QED BY <1>7, <1>9, <1>10, <1>12, <2>3, <3>1 DEF Lent
  <2>. QED BY <1>2, <2>2, <2>3
<1>. QED BY <1>1, <1>6, <1>11, <1>12, OwnedWait

LEMMA DeathOwned ==
  ASSUME TerminalInv, Careful,
         Interrupt \/ (UNCHANGED shell /\ \E p \in Pids : Return(p) \/ Quit(p))
  PROVE  Owned(k', shell')
<1>1. PipeInv /\ Good(world, io) /\ world.k = k /\ Family(k) /\ Known(k) /\ Owned(k, shell)
  BY WorldLemma DEF TerminalInv, PipelineInv, PipeInv, Good, WorldOK
<1>2. CASE Interrupt
  <2>. DEFINE p == k.foreground
  <2>1. p \in Living(k) \ {0, 1} /\ DiesIn(p) /\ UNCHANGED shell
    BY <1>1, <1>2, InterruptDies
  <2>2. p = k.shell_pid => k.children[p] = << >>
    BY <1>2 DEF Careful, Interrupt, me
  <2>3. p = k.foreground
    OBVIOUS
  <2>. HIDE DEF p
  <2>4. Good(world', io') /\ Died(k, k', p)
    BY <1>1, <2>1, DiesGood
  <2>5. Family(k')
    BY <2>4, WorldLemma DEF Good, WorldOK
  <2>6. Owned(k', shell)
    BY <1>1, <2>1, <2>2, <2>3, <2>4, <2>5, OwnedDeath
  <2>. QED BY <2>1, <2>6
<1>3. ASSUME UNCHANGED shell, NEW p \in Pids, Return(p) \/ Quit(p)
      PROVE  Owned(k', shell')
  <2>1. p \in Living(k) \ {0, 1, k.shell_pid} /\ ExitsIn(p)
    BY <1>1, <1>3, ReturnExits
  <2>2. PICK v : /\ Good(v, io') /\ Is(v, v.k, pipes', fds') /\ Died(k, v.k, p)
                 /\ DeathOf(world, v, v.k, p) /\ OnlySwitched(v.k, k')
                 /\ Living(k') = Living(v.k) /\ Alive(k') = Alive(v.k)
    BY <1>1, <2>1, ExitsGood
  <2>3. Family(v.k)
    BY <2>2 DEF Good, WorldOK
  <2>4. Owned(v.k, shell)
    BY <1>1, <2>1, <2>2, <2>3, OwnedDeath
  <2>5. Owned(k', shell)
    BY <2>2, <2>4, OwnedSame DEF OnlySwitched, Owned
  <2>. QED BY <1>3, <2>5
<1>. QED BY <1>2, <1>3

\* init collects what died; when that was the shell, there is nobody else.
LEMMA OwnedGone ==
  ASSUME NEW u, NEW t, NEW sh, Owned(u, sh), SameScheduler(u, t), t.mode = u.mode,
         t.foreground = u.foreground, t.parent = u.parent, t.waitpid = u.waitpid,
         t.shell_pid \in {NULL, u.shell_pid}, t.shell_pid = NULL => u.shell_pid \notin Living(u)
  PROVE  Owned(t, sh)
<1>1. Living(t) = Living(u)
  BY DEF SameScheduler, Living
<1>2. CASE t.shell_pid = u.shell_pid
  <2>1. Lent(u, sh) => Lent(t, sh)
    BY <1>2 DEF Lent
  <2>. QED BY <1>1, <1>2, <2>1, OwnedFrame DEF Owned
<1>3. CASE t.shell_pid = NULL
  <2>1. ~ ShellAlive(u) /\ ~ ShellAlive(t)
    BY <1>3 DEF ShellAlive
  <2>. QED BY <1>1, <1>3, <2>1 DEF Owned, Brood, OneOwner, Owner
<1>. QED BY <1>2, <1>3

LEMMA KernelOwned ==
  ASSUME TerminalInv, PipeTick \/ KernelOnly(InitWait) \/ KernelOnly(Resume) \/ KernelOnly(Halted)
  PROVE  Owned(k', shell')
<1>1. /\ Good(world, io) /\ world.k = k /\ Owned(k, shell) /\ Prompted(shell)
      /\ UNCHANGED <<pipes, fds, io, shell>>
  BY WorldLemma DEF TerminalInv, PipelineInv, PipeInv, PipeTick, KernelOnly, Owned
<1>2. Is(world', k', world.pipes, world.fds)
  BY <1>1, SamePipesLemma
<1>3. /\ k.current \in Pids \cup {NULL} /\ k.waitpid \in [Pids -> Pids \cup {NoWait, WAIT_ANY}]
      /\ Known(k)
  BY <1>1 DEF Good, WorldOK, Inv, Core, Queues, Types, Family, Kin, TreeTypes
<1>. SUFFICES Owned(k', shell)
  BY <1>1
<1>4. CASE PipeTick
  <2>1. k' = timer_interrupt(world.k)
    BY <1>1, <1>4 DEF PipeTick, KernelOnly, Tick
  <2>2. /\ Good(world', io) /\ OnlySwitched(world.k, k')
        /\ Living(k') = Living(world.k) /\ Alive(k') = Alive(world.k)
    BY <1>1, <1>2, <2>1, SwitchGood
  <2>. QED BY <1>1, <2>2, OwnedSame DEF OnlySwitched
<1>5. ASSUME NEW c \in Pids, NEW pid, NEW u, Waited(k, u, c, pid),
             c = k.shell_pid => k.waitpid[c] = pid
      PROVE  Owned(u, shell)
  <2>1. ASSUME ShellAlive(k), InFront(k), Lent(k, shell),
               c = k.shell_pid /\ k.foreground = pid => u.waitpid[c] = pid
        PROVE  Lent(u, shell)
    <3>1. u.shell_pid = k.shell_pid /\ u.foreground = k.foreground
      BY <1>5 DEF Waited
    <3>2. k.waitpid[k.shell_pid] = k.foreground => u.waitpid[k.shell_pid] = k.foreground
      BY <1>5, <2>1 DEF Waited, ShellAlive
    <3>. QED BY <2>1, <3>1, <3>2 DEF Lent
  <2>. QED BY <1>1, <1>5, <2>1, OwnedWait
<1>6. ASSUME k.current = 1, NEW u, NEW pid \in Pids \cup {WAIT_ANY}, k' = shell_gone(u),
             \/ u = wait_pid(k, pid) /\ k.waitpid[1] = NoWait
             \/ u = wait_pass(k) /\ k.waitpid[1] = pid
      PROVE  Owned(k', shell)
  <2>1. /\ Good(world', io) /\ SameWaits(world.k, k') /\ Waited(world.k, u, 1, pid)
        /\ SameScheduler(u, k') /\ k'.mode = u.mode /\ k'.foreground = u.foreground
        /\ k'.parent = u.parent /\ k'.waitpid = u.waitpid
        /\ k'.shell_pid \in {NULL, u.shell_pid}
        /\ k'.shell_pid = NULL => u.shell_pid \notin Living(u)
    <3>1. /\ world.k.current = 1
          /\ \/ u = wait_pid(world.k, pid) /\ world.k.waitpid[1] = NoWait
             \/ u = wait_pass(world.k) /\ world.k.waitpid[1] = pid
      BY <1>1, <1>6
    <3>. QED BY <1>1, <1>2, <1>6, <3>1, InitWaitGood
  <2>2. 1 # k.shell_pid /\ 1 \in Pids
    BY <1>3, PidsLemma DEF Known, NULL
  <2>3. Owned(u, shell)
    BY <1>1, <1>5, <2>1, <2>2
  <2>. QED BY <2>1, <2>3, OwnedGone
<1>7. CASE KernelOnly(InitWait)
  <2>1. k' = shell_gone(wait_pid(k, WAIT_ANY)) /\ k.current = 1 /\ k.waitpid[1] = NoWait
    BY <1>7, PidsLemma DEF KernelOnly, InitWait, UserMode, NULL
  <2>. QED BY <1>6, <2>1
<1>8. CASE KernelOnly(Resume)
  <2>. DEFINE c == k.current
              pid == k.waitpid[c]
              u == wait_pass(k)
  <2>1. c \in Pids \ {0} /\ pid # NoWait
        /\ k' = IF c = 1 THEN shell_gone(u) ELSE u
    BY <1>3, <1>8 DEF KernelOnly, Resume
  <2>2. pid \in Pids \cup {WAIT_ANY}
    BY <1>3, <2>1
  <2>3. CASE c = 1
    <3>1. k' = shell_gone(u) /\ k.waitpid[1] = pid
      BY <2>1, <2>3
    <3>. QED BY <1>6, <2>2, <2>3, <3>1
  <2>4. CASE c # 1
    <3>1. /\ k' = wait_pass(world.k) /\ c \in Pids \ {0, 1} /\ c = world.k.current
          /\ world.k.waitpid[c] = pid
      BY <1>1, <2>1, <2>4
    <3>. HIDE DEF c, pid, u
    <3>2. Good(world', io) /\ SameWaits(world.k, k') /\ Waited(world.k, k', c, pid)
      BY <1>1, <1>2, <2>2, <3>1, WaitGood
    <3>. QED BY <1>1, <1>5, <3>1, <3>2
  <2>. QED BY <2>3, <2>4
<1>9. CASE KernelOnly(Halted)
  <2>1. k' = k
    BY <1>9 DEF KernelOnly, Halted
  <2>. QED BY <1>1, <2>1
<1>. QED BY <1>4, <1>7, <1>8, <1>9

LEMMA BytesOwned ==
  ASSUME TerminalInv, PipeResume \/ \E p \in Pids : PipeRead(p) \/ PipeWrite(p), UNCHANGED shell
  PROVE  Owned(k', shell')
<1>1. PipeInv /\ Good(world, io) /\ world.k = k /\ world.pipes = pipes /\ Owned(k, shell)
  BY WorldLemma DEF TerminalInv, PipelineInv, PipeInv
<1>2. SameTree(k, k') /\ Living(k') = Living(k)
  <2>1. CASE PipeResume \/ \E p \in Pids : PipeRead(p)
    <3>1. PICK c \in Pids \ {0}, i \in PipeIds :
             /\ c = k.current /\ c # k.shell_pid /\ Becomes(pipe_read(world, i))
      BY <1>1, <2>1, ReadCalls
    <3>. DEFINE v == pipe_read(world, i)
    <3>2. /\ Good(v, [io EXCEPT ![c] = after_read(world, i)]) /\ ReadBy(world, v, c, i)
      BY <1>1, <3>1, ReadGood
    <3>. HIDE DEF v
    <3>3. k' = v.k
      <4>1. world' = v
        BY <3>1, <3>2, BecomesLemma DEF Good, WorldOK, v
      <4>. QED BY <4>1, WorldLemma
    <3>4. v.k = k \/ (SameTree(k, v.k) /\ Living(v.k) = Living(k))
      BY <1>1, <3>2 DEF ReadBy, Slept
    <3>. QED BY <3>3, <3>4 DEF SameTree
  <2>2. CASE \E p \in Pids : PipeWrite(p)
    <3>1. PICK c \in Pids \ {0}, i \in PipeIds, n \in Nat :
             /\ c = k.current /\ c # k.shell_pid /\ Becomes(pipe_write(world, i, n))
             /\ pipes[i].sent + n <= MaxBytes
      BY <1>1, <2>2, WriteCalls
    <3>. DEFINE v == pipe_write(world, i, n)
    <3>2. Good(v, [io EXCEPT ![c] = after_write(world, i, n)]) /\ WrittenBy(world, v, i)
      <4>1. c = world.k.current /\ c # world.k.shell_pid /\ world.pipes[i].sent + n <= MaxBytes
        BY <1>1, <3>1
      <4>. QED BY <1>1, <3>1, <4>1, WriteGood
    <3>. HIDE DEF v
    <3>3. k' = v.k
      <4>1. world' = v
        BY <3>1, <3>2, BecomesLemma DEF Good, WorldOK, v
      <4>. QED BY <4>1, WorldLemma
    <3>. QED BY <1>1, <3>2, <3>3 DEF WrittenBy, WokeOne
  <2>. QED BY <2>1, <2>2
<1>3. Owned(k', shell)
  BY <1>1, <1>2, OwnedSame DEF Owned
<1>. QED BY <1>3

LEMMA OwnedInit ==
  ASSUME ShellInit
  PROVE  Owned(k, shell)
<1>1. PICK background \in BOOLEAN : k = main(background)
  BY DEF ShellInit, Init
<1>2. Alive(k) = {0, 1} /\ k.shell_pid = NULL
  BY <1>1, FamilyBoot
<1>3. k.foreground = 1 /\ shell = NewShell
  BY DEF ShellInit
<1>4. Living(k) \subseteq {0, 1} /\ ~ ShellAlive(k)
  BY <1>2 DEF Living, Alive, ShellAlive
<1>5. Prompted(shell)
  BY <1>3, NewShellSane DEF Prompted
<1>. QED BY <1>3, <1>4, <1>5 DEF Owned, Brood, OneOwner, Owner

LEMMA TerminalNext ==
  ASSUME Careful, TerminalInv, [ShellNext]_shellVars
  PROVE  TerminalInv'
<1>1. PipelineInv'
  BY PipelineNext DEF TerminalInv
<1>. SUFFICES Owned(k', shell')
  BY <1>1 DEF TerminalInv
<1>2. CASE ShellStep
  BY <1>2, PromptOwned, RunOwned, PipeCallsOwned, SpawnOwned, WaitOwned DEF ShellStep
<1>3. CASE PipeStep
  BY <1>3, BytesOwned, DeathOwned DEF PipeStep
<1>4. CASE UNCHANGED shellVars
  BY <1>4 DEF shellVars, TerminalInv
<1>. QED BY <1>2, <1>3, <1>4, EnterOwned, StartOwned, DeathOwned, KernelOwned DEF ShellNext

\* The shell never reads a line without the terminal (shell.c, tty.c
\* read_from_keyboard): every program it ceded it to is waited for, and gave it
\* back when it died.
THEOREM TerminalComesBack ==
  ASSUME Careful
  PROVE  ShellSpec => []ShellHasTerminal
<1>1. ShellInit => TerminalInv
  BY PipelineInit, OwnedInit DEF TerminalInv
<1>2. TerminalInv /\ [ShellNext]_shellVars => TerminalInv'
  BY TerminalNext
<1>3. TerminalInv => ShellHasTerminal
  BY DEF TerminalInv, Owned, Prompted, ShellHasTerminal
<1>. QED BY <1>1, <1>2, <1>3, PTL DEF ShellSpec
=============================================================================
