---------------------------- MODULE PhyloProofs -----------------------------
(***************************************************************************)
(* Proofs about module Phylo, for every size of the table, every number of *)
(* keys, and with or without failures of spawn.                            *)
(***************************************************************************)
EXTENDS Phylo, TLAPS

-----------------------------------------------------------------------------
(***************************************************************************)
(* The inductive invariant.  Its parts are predicates on a table, the      *)
(* states, the program counters and phylo_main rather than on the          *)
(* variables, so that they can be stated of what lies between two posts of *)
(* one call of leave_pedals.                                               *)
(***************************************************************************)

PhyloStates == {"NONE", "THINKING", "WAITING", "DRIVING"}

PhyloPcs == {"none", "new", "thinking", "take", "turn", "driving", "leave"}

\* The philosophers and phylo_main.
Processes == 0 .. Main

\* What a queue holds: a philosopher, phylo_main, or who was killed there.
Waiters == 0 .. Gone

Semaphores == [in_use : BOOLEAN, value : Nat, waiting : Seq(Waiters)]

TableTypes(t) ==
  /\ t = [sems |-> t.sems, asleep |-> t.asleep, stuck |-> t.stuck]
  /\ t.sems \in [SemIds -> Semaphores]
  /\ t.asleep \subseteq Processes

\* A philosopher waits for the table or for its turn; phylo_main waits for the
\* table or for the turn of the philosopher it wants to remove.
MayWait(c, m, p, id) ==
  \/ /\ p \in Phylos
     /\ \/ id = SEM_ID /\ c[p] \in {"take", "leave"}
        \/ id = SEM_PHYLO(p) /\ c[p] = "driving"
  \/ /\ p = Main
     /\ \/ id = SEM_ID /\ m.at \in {"adding", "removing"}
        \/ id = SEM_PHYLO(m.idx) /\ m.at = "remove"

\* Who is in a queue sleeps there, once, unless it was killed.
Queued(t, c, m) ==
  \A id \in SemIds :
    LET q == t.sems[id].waiting
    IN \A n \in 1 .. Len(q) :
         q[n] # Gone => /\ q[n] \in t.asleep
                        /\ MayWait(c, m, q[n], id)
                        /\ \A l \in 1 .. Len(q) : q[l] = q[n] => l = n

\* What phylo_states says of a philosopher follows from where it is, and a unit
\* of its semaphore is a turn that it, or phylo_main in its stead, has not taken
\* yet.
Turns(t, st, c) ==
  \A i \in Phylos :
    LET s == t.sems[SEM_PHYLO(i)]
    IN /\ c[i] \in {"none", "new"} => st[i] = "NONE"
       /\ c[i] \in {"thinking", "take"} => st[i] = "THINKING"
       /\ c[i] \in {"turn", "driving"} => st[i] \in {"WAITING", "DRIVING"}
       /\ c[i] = "leave" => st[i] = "DRIVING"
       /\ c[i] = "driving" =>
            IF i \in t.asleep THEN InQueue(s.waiting, i) ELSE st[i] = "DRIVING"
       /\ c[i] # "none" => s.in_use
       /\ s.in_use /\ s.value # 0 => s.value = 1 /\ c[i] = "turn" /\ st[i] = "DRIVING"

Seats(t, st, c, m) ==
  /\ TableTypes(t) /\ st \in [Phylos -> PhyloStates] /\ c \in [Phylos -> PhyloPcs]
  /\ Queued(t, c, m) /\ Turns(t, st, c)

\* RIGHT_PHYLO and LEFT_PHYLO at a table of n, without the modulus.
next(i, n) == IF i + 1 = n THEN 0 ELSE i + 1
prev(i, n) == IF i = 0 THEN n - 1 ELSE i - 1

Exclusive(st, n) ==
  \A i \in 0 .. n - 1 :
    (st[i] = "DRIVING" /\ next(i, n) # i) => st[next(i, n)] # "DRIVING"

\* remove_all is at work, or has been.
Clearing(m) ==
  \/ m.at \in {"remove", "removing", "steal"} /\ m.todo > 0
  \/ m.at \in {"end", "done"}

\* The n philosophers at the table are the first ones, and neighbours do not eat
\* together; while the table is cleared they are those from idx on.
Seated(st, c, m, n) ==
  IF Clearing(m)
    THEN \A i \in Phylos : c[i] # "none" => m.idx <= i /\ i < m.idx + n
    ELSE Exclusive(st, n) /\ \A i \in Phylos : c[i] # "none" => i < n

\* Where phylo_main is, and how many philosophers there are.
MainAt(m, n) ==
  /\ m = [at |-> m.at, idx |-> m.idx, todo |-> m.todo]
  /\ m.idx \in Nat /\ m.todo \in Nat /\ n \in 0 .. MAX_PHY
  /\ \/ /\ m.at \in {"new", "adding"} /\ m.idx = n /\ n < MAX_PHY
        /\ IF m.todo = 0 THEN n >= MIN_PHY ELSE n + m.todo = MIN_PHY
     \/ /\ m.at \in {"remove", "removing", "steal"}
        /\ IF m.todo = 0 THEN n > MIN_PHY /\ m.idx = n - 1
                         ELSE n = m.todo /\ m.idx + m.todo <= MAX_PHY
     \/ m.at \in {"loop_add", "loop_remove", "loop_quit"} /\ m.todo = 0 /\ n >= MIN_PHY
     \/ m.at \in {"end", "done"} /\ n = 0

PhyloInv ==
  /\ Seats(table, states, pc, main)
  /\ MainAt(main, count)
  /\ Seated(states, pc, main, count)

-----------------------------------------------------------------------------
(***************************************************************************)
(* What a wait and a post do to the queues.                                *)
(***************************************************************************)

LEMMA IdsLemma ==
  /\ MAX_PHY \in Nat \ {0} /\ MIN_PHY \in Nat \ {0} /\ MIN_PHY <= MAX_PHY
  /\ SEM_ID \in SemIds /\ \A i \in Phylos : SEM_PHYLO(i) \in SemIds /\ SEM_PHYLO(i) # SEM_ID
  /\ \A i, j \in Phylos : SEM_PHYLO(i) = SEM_PHYLO(j) => i = j
  /\ Gone \notin Processes /\ Processes \subseteq Waiters
  /\ Main \in Processes /\ Main \notin Phylos /\ Phylos \subseteq Processes
  /\ \A id \in {SEM_ADD, SEM_REMOVE, SEM_QUIT} :
       id \in SemIds /\ id # SEM_ID /\ \A i \in Phylos : SEM_PHYLO(i) # id
BY PhyloAssumption
   DEF SemIds, SEM_ID, SEM_PHYLO, Phylos, Processes, Waiters, Gone, Main, SEM_ADD, SEM_REMOVE, SEM_QUIT

\* The fields of an entry of the table after a wait and a post.
LEMMA EntryLemma ==
  ASSUME NEW s \in Semaphores, NEW p \in Waiters
  PROVE  /\ LET v == sem_wait_table(s, p)
            IN /\ v \in Semaphores /\ v.in_use = s.in_use
               /\ s.value # 0 => v.value = s.value - 1 /\ v.waiting = s.waiting
               /\ s.value = 0 => v.value = 0 /\ v.waiting = Append(s.waiting, p)
         /\ LET v == sem_post_table(s)
            IN /\ v \in Semaphores /\ v.in_use = s.in_use
               /\ s.waiting = << >> => v.value = s.value + 1 /\ v.waiting = << >>
               /\ s.waiting # << >> => v.value = s.value /\ v.waiting = Tail(s.waiting)
<1>. DEFINE taken == [s EXCEPT !.value = s.value - 1]
            queued == [s EXCEPT !.waiting = Append(s.waiting, p)]
            given == [s EXCEPT !.waiting = Tail(s.waiting)]
            counted == [s EXCEPT !.value = s.value + 1]
<1>1. s.value \in Nat /\ s.waiting \in Seq(Waiters) /\ s.in_use \in BOOLEAN
  BY DEF Semaphores
<1>2. Append(s.waiting, p) \in Seq(Waiters)
  BY <1>1
<1>3. s.waiting # << >> => Tail(s.waiting) \in Seq(Waiters)
  BY <1>1
<1>4. /\ queued \in Semaphores /\ counted \in Semaphores
      /\ s.value # 0 => taken \in Semaphores
      /\ s.waiting # << >> => given \in Semaphores
  <2>1. queued \in Semaphores /\ counted \in Semaphores
    BY <1>1, <1>2 DEF Semaphores
  <2>2. s.value # 0 => taken \in Semaphores
    BY <1>1 DEF Semaphores
  <2>3. s.waiting # << >> => given \in Semaphores
    BY <1>1, <1>3 DEF Semaphores
  <2>. QED BY <2>1, <2>2, <2>3
<1>5. /\ taken.in_use = s.in_use /\ taken.value = s.value - 1 /\ taken.waiting = s.waiting
      /\ queued.in_use = s.in_use /\ queued.value = s.value
      /\ queued.waiting = Append(s.waiting, p)
      /\ given.in_use = s.in_use /\ given.value = s.value
      /\ given.waiting = Tail(s.waiting)
      /\ counted.in_use = s.in_use /\ counted.value = s.value + 1
      /\ counted.waiting = s.waiting
  BY DEF Semaphores
<1>6. sem_wait_table(s, p) = IF s.value > 0 THEN taken ELSE queued
  BY DEF sem_wait_table, enqueue
<1>7. sem_post_table(s) = IF s.waiting # << >> THEN given ELSE counted
  BY DEF sem_post_table, dequeue
<1>. HIDE DEF taken, queued, given, counted
<1>. QED BY <1>1, <1>4, <1>5, <1>6, <1>7

LEMMA WaitFields ==
  ASSUME NEW t, TableTypes(t), NEW id \in SemIds, NEW p \in Processes
  PROVE  LET u == wait(t, id, p)
             s == t.sems[id]
         IN /\ TableTypes(u)
            /\ \A j \in SemIds \ {id} : u.sems[j] = t.sems[j]
            /\ u.sems[id].in_use = s.in_use
            /\ s.value # 0 =>
                 /\ u.sems[id].value = s.value - 1
                 /\ u.sems[id].waiting = s.waiting
                 /\ u.asleep = t.asleep
            /\ s.value = 0 =>
                 /\ u.sems[id].value = 0
                 /\ u.sems[id].waiting = Append(s.waiting, p)
                 /\ u.asleep = t.asleep \cup {p}
<1>. DEFINE u == wait(t, id, p)
            s == t.sems[id]
            v == sem_wait_table(s, p)
<1>1. s \in Semaphores /\ p \in Waiters
  BY IdsLemma DEF TableTypes
<1>2. /\ v \in Semaphores /\ v.in_use = s.in_use
      /\ s.value # 0 => v.value = s.value - 1 /\ v.waiting = s.waiting
      /\ s.value = 0 => v.value = 0 /\ v.waiting = Append(s.waiting, p)
  BY <1>1, EntryLemma
<1>3. /\ u.sems = [t.sems EXCEPT ![id] = v]
      /\ u.asleep = IF s.value > 0 THEN t.asleep ELSE t.asleep \cup {p}
      /\ u = [sems |-> u.sems, asleep |-> u.asleep, stuck |-> u.stuck]
  <2>. DEFINE e == [t.sems EXCEPT ![id] = v]
              a == IF s.value > 0 THEN t.asleep ELSE t.asleep \cup {p}
  <2>1. u = [t EXCEPT !.sems = e, !.asleep = a]
    BY ONLY TableTypes(t) DEF wait, TableTypes
  <2>. HIDE DEF e, a, u
  <2>. QED BY ONLY <2>1, TableTypes(t) DEF TableTypes, e, a
<1>. HIDE DEF u, v
<1>4. TableTypes(u)
  BY <1>1, <1>2, <1>3 DEF TableTypes
<1>. QED BY <1>1, <1>2, <1>3, <1>4 DEF TableTypes, u, Semaphores

\* Whom a post of the semaphore wakes.
Woken(t, id) ==
  IF t.sems[id].waiting = << >> THEN Gone ELSE t.sems[id].waiting[1]

LEMMA PostFields ==
  ASSUME NEW t, TableTypes(t), NEW id \in SemIds
  PROVE  LET u == post(t, id)
             s == t.sems[id]
         IN /\ TableTypes(u)
            /\ \A j \in SemIds \ {id} : u.sems[j] = t.sems[j]
            /\ u.sems[id].in_use = s.in_use
            /\ u.asleep = t.asleep \ {Woken(t, id)}
            /\ s.waiting = << >> =>
                 u.sems[id].value = s.value + 1 /\ u.sems[id].waiting = << >>
            /\ s.waiting # << >> =>
                 u.sems[id].value = s.value /\ u.sems[id].waiting = Tail(s.waiting)
<1>. DEFINE u == post(t, id)
            s == t.sems[id]
            v == sem_post_table(s)
<1>1. s \in Semaphores
  BY DEF TableTypes
<1>2. /\ v \in Semaphores /\ v.in_use = s.in_use
      /\ s.waiting = << >> => v.value = s.value + 1 /\ v.waiting = << >>
      /\ s.waiting # << >> => v.value = s.value /\ v.waiting = Tail(s.waiting)
  <2>1. Gone \in Waiters
    BY IdsLemma DEF Waiters, Gone
  <2>. QED BY <1>1, <2>1, EntryLemma
<1>3. /\ u.sems = [t.sems EXCEPT ![id] = v]
      /\ u.asleep = t.asleep \ {Woken(t, id)}
      /\ u = [sems |-> u.sems, asleep |-> u.asleep, stuck |-> u.stuck]
  <2>. DEFINE e == [t.sems EXCEPT ![id] = v]
              a == t.asleep \ {IF s.waiting = << >> THEN Gone ELSE Head(s.waiting)}
              b == t.stuck \/ (id = SEM_ID /\ s.waiting # << >>
                               /\ (IF s.waiting = << >> THEN Gone ELSE Head(s.waiting)) = Gone)
  <2>1. u = [t EXCEPT !.sems = e, !.asleep = a, !.stuck = b]
    BY ONLY TableTypes(t) DEF post, dequeue_value, TableTypes
  <2>2. a = t.asleep \ {Woken(t, id)}
    <3>1. s.waiting # << >> => Head(s.waiting) = s.waiting[1]
      BY <1>1 DEF Semaphores
    <3>. QED BY <3>1 DEF Woken
  <2>. HIDE DEF e, a, b, u
  <2>. QED BY ONLY <2>1, <2>2, TableTypes(t) DEF TableTypes, e
<1>. HIDE DEF u, v
<1>4. TableTypes(u)
  BY <1>1, <1>2, <1>3 DEF TableTypes
<1>. QED BY <1>1, <1>2, <1>3, <1>4 DEF TableTypes, u, Semaphores

\* A process that does not sleep is in no queue, so it may change its place.
LEMMA AwakeLemma ==
  ASSUME NEW t, NEW c, NEW m, NEW d, NEW l, NEW x, TableTypes(t), Queued(t, c, m),
         x \notin t.asleep,
         \A p \in Processes, id \in SemIds :
           p # x => (MayWait(c, m, p, id) => MayWait(d, l, p, id))
  PROVE  Queued(t, d, l)
<1>. SUFFICES ASSUME NEW id \in SemIds, NEW n \in 1 .. Len(t.sems[id].waiting),
                     t.sems[id].waiting[n] # Gone
              PROVE  MayWait(d, l, t.sems[id].waiting[n], id)
  BY DEF Queued
<1>. DEFINE p == t.sems[id].waiting[n]
<1>1. p \in t.asleep /\ MayWait(c, m, p, id)
  BY DEF Queued
<1>2. p \in Processes
  BY <1>1 DEF TableTypes
<1>. QED BY <1>1, <1>2

LEMMA WaitQueued ==
  ASSUME NEW t, NEW c, NEW m, TableTypes(t), Queued(t, c, m),
         NEW id \in SemIds, NEW p \in Processes, p \notin t.asleep, MayWait(c, m, p, id)
  PROVE  Queued(wait(t, id, p), c, m)
<1>. DEFINE u == wait(t, id, p)
            q == t.sems[id].waiting
<1>1. /\ \A j \in SemIds \ {id} : u.sems[j] = t.sems[j]
      /\ t.asleep \subseteq u.asleep
      /\ \/ u.sems[id].waiting = q
         \/ u.sems[id].waiting = Append(q, p) /\ p \in u.asleep
  BY WaitFields
<1>2. q \in Seq(Waiters)
  BY DEF TableTypes, Semaphores
<1>. HIDE DEF u
<1>. SUFFICES ASSUME NEW j \in SemIds, NEW n \in 1 .. Len(u.sems[j].waiting),
                     u.sems[j].waiting[n] # Gone
              PROVE  /\ u.sems[j].waiting[n] \in u.asleep
                     /\ MayWait(c, m, u.sems[j].waiting[n], j)
                     /\ \A l \in 1 .. Len(u.sems[j].waiting) :
                          u.sems[j].waiting[l] = u.sems[j].waiting[n] => l = n
  BY DEF Queued, u
<1>3. CASE u.sems[j].waiting = t.sems[j].waiting
  BY <1>1, <1>3 DEF Queued
<1>4. CASE j = id /\ u.sems[id].waiting = Append(q, p) /\ p \in u.asleep
  <2>. DEFINE r == Append(q, p)
  <2>1. \A l \in 1 .. Len(q) : q[l] # p
    BY IdsLemma DEF Queued
  <2>2. /\ Len(q) \in Nat /\ Len(r) = Len(q) + 1 /\ r[Len(q) + 1] = p
        /\ \A l \in 1 .. Len(q) : r[l] = q[l]
    <3>1. p \in Waiters
      BY IdsLemma
    <3>. HIDE DEF q
    <3>. QED BY <1>2, <3>1
  <2>3. u.sems[j].waiting = r
    BY <1>4
  <2>. HIDE DEF r
  <2>4. n \in 1 .. Len(q) + 1
    BY <2>2, <2>3
  <2>5. CASE n = Len(q) + 1
    <3>1. r[n] = p /\ \A l \in 1 .. Len(r) : r[l] = p => l = n
      <4>. HIDE DEF q
      <4>1. \A l \in 1 .. Len(r) : l \in 1 .. Len(q) \/ l = n
        BY <2>2, <2>5
      <4>. QED BY ONLY <2>1, <2>2, <2>5, <4>1
    <3>. QED BY <1>4, <2>3, <3>1
  <2>6. CASE n \in 1 .. Len(q)
    <3>1. r[n] = q[n]
      BY <2>2, <2>6
    <3>2. /\ q[n] \in t.asleep /\ MayWait(c, m, q[n], id) /\ q[n] # p
          /\ \A l \in 1 .. Len(q) : q[l] = q[n] => l = n
      BY <2>1, <2>3, <2>6, <3>1 DEF Queued
    <3>3. \A l \in 1 .. Len(r) : r[l] = r[n] => l = n
      <4>. HIDE DEF q
      <4>1. \A l \in 1 .. Len(r) : l \in 1 .. Len(q) \/ l = Len(q) + 1
        BY <2>2
      <4>. QED BY ONLY <2>2, <3>1, <3>2, <4>1
    <3>. QED BY <1>1, <1>4, <2>3, <3>1, <3>2, <3>3
  <2>7. n = Len(q) + 1 \/ n \in 1 .. Len(q)
    <3>. HIDE DEF q
    <3>. QED BY ONLY <2>2, <2>4
  <2>. QED BY <2>5, <2>6, <2>7
<1>. QED BY <1>1, <1>3, <1>4

LEMMA PostQueued ==
  ASSUME NEW t, NEW c, NEW m, TableTypes(t), Queued(t, c, m), NEW id \in SemIds
  PROVE  /\ Queued(post(t, id), c, m)
         /\ Woken(t, id) # Gone => MayWait(c, m, Woken(t, id), id)
         /\ \A p \in Waiters :
              p # Woken(t, id) /\ InQueue(t.sems[id].waiting, p) =>
                InQueue(post(t, id).sems[id].waiting, p)
<1>. DEFINE u == post(t, id)
            q == t.sems[id].waiting
            w == Woken(t, id)
<1>1. /\ \A j \in SemIds \ {id} : u.sems[j] = t.sems[j]
      /\ u.asleep = t.asleep \ {w}
      /\ q = << >> => u.sems[id].waiting = << >>
      /\ q # << >> => u.sems[id].waiting = Tail(q)
  BY PostFields
<1>2. q \in Seq(Waiters)
  BY DEF TableTypes, Semaphores
<1>3. /\ q # << >> => w = q[1] /\ 1 \in 1 .. Len(q)
      /\ q = << >> => w = Gone
  BY <1>2 DEF Woken
<1>4. q # << >> => /\ Len(Tail(q)) = Len(q) - 1
                   /\ \A n \in 1 .. Len(q) - 1 : Tail(q)[n] = q[n + 1]
                   /\ Len(q) \in Nat \ {0}
  BY <1>2
<1>5. w # Gone => MayWait(c, m, w, id) /\ \A l \in 1 .. Len(q) : q[l] = w => l = 1
  BY <1>3 DEF Queued
<1>6. Queued(u, c, m)
  <2>. HIDE DEF u, w
  <2>. SUFFICES ASSUME NEW j \in SemIds, NEW n \in 1 .. Len(u.sems[j].waiting),
                       u.sems[j].waiting[n] # Gone
                PROVE  /\ u.sems[j].waiting[n] \in u.asleep
                       /\ MayWait(c, m, u.sems[j].waiting[n], j)
                       /\ \A l \in 1 .. Len(u.sems[j].waiting) :
                            u.sems[j].waiting[l] = u.sems[j].waiting[n] => l = n
    BY DEF Queued
  <2>1. CASE j # id
    <3>. DEFINE r == t.sems[j].waiting
    <3>1. u.sems[j].waiting = r
      BY <1>1, <2>1
    <3>2. /\ r[n] \in t.asleep /\ MayWait(c, m, r[n], j)
          /\ \A l \in 1 .. Len(r) : r[l] = r[n] => l = n
      BY <3>1 DEF Queued
    <3>3. r[n] # w
      BY <1>5, <2>1, <3>1, <3>2, IdsLemma DEF MayWait
    <3>. QED BY <1>1, <3>1, <3>2, <3>3
  <2>2. CASE j = id /\ q = << >>
    BY <1>1, <2>2
  <2>3. CASE j = id /\ q # << >>
    <3>. DEFINE r == Tail(q)
    <3>1. /\ Len(q) \in Nat /\ Len(r) = Len(q) - 1
          /\ \A l \in 1 .. Len(r) : r[l] = q[l + 1] /\ l + 1 \in 1 .. Len(q) /\ l + 1 # 1
      BY <1>4, <2>3
    <3>2. u.sems[j].waiting = r
      BY <1>1, <2>3
    <3>. HIDE DEF r
    <3>3. r[n] = q[n + 1] /\ n + 1 \in 1 .. Len(q) /\ n + 1 # 1
      BY <3>1, <3>2
    <3>4. /\ q[n + 1] \in t.asleep /\ MayWait(c, m, q[n + 1], id)
          /\ \A l \in 1 .. Len(q) : q[l] = q[n + 1] => l = n + 1
      BY <3>2, <3>3 DEF Queued
    <3>5. q[n + 1] # w
      BY <1>3, <2>3, <3>3, <3>4
    <3>6. \A l \in 1 .. Len(r) : r[l] = r[n] => l = n
      BY <3>1, <3>2, <3>3, <3>4
    <3>. QED BY <1>1, <2>3, <3>2, <3>3, <3>4, <3>5, <3>6
  <2>. QED BY <2>1, <2>2, <2>3
<1>7. ASSUME NEW p \in Waiters, p # w, InQueue(q, p)
      PROVE  InQueue(u.sems[id].waiting, p)
  <2>. HIDE DEF u, w
  <2>1. PICK n \in 1 .. Len(q) : q[n] = p
    BY <1>7 DEF InQueue
  <2>2. q # << >> /\ n # 1
    BY <1>3, <1>7, <2>1
  <2>3. n - 1 \in 1 .. Len(q) - 1 /\ Tail(q)[n - 1] = q[n]
    BY <1>4, <2>1, <2>2
  <2>. QED BY <1>1, <1>4, <2>1, <2>2, <2>3 DEF InQueue
<1>. QED BY <1>5, <1>6, <1>7

-----------------------------------------------------------------------------
(***************************************************************************)
(* The same for the philosophers: each system call keeps Seats.            *)
(***************************************************************************)

\* phylo_main moves on when it does not sleep.
LEMMA MainMoves ==
  ASSUME NEW t, NEW st, NEW c, NEW m, NEW l, Seats(t, st, c, m), Main \notin t.asleep
  PROVE  Seats(t, st, c, l)
<1>1. Queued(t, c, l)
  <2>1. TableTypes(t) /\ Queued(t, c, m) /\ Main \notin t.asleep
    BY DEF Seats
  <2>2. \A p \in Processes, id \in SemIds :
          p # Main => (MayWait(c, m, p, id) => MayWait(c, l, p, id))
    BY DEF MayWait
  <2>. QED BY ONLY <2>1, <2>2, AwakeLemma
<1>. QED BY <1>1 DEF Seats

\* A post of any semaphore but those of the philosophers.
LEMMA PostLemma ==
  ASSUME NEW t, NEW st, NEW c, NEW m, Seats(t, st, c, m), NEW id \in SemIds,
         \A i \in Phylos : SEM_PHYLO(i) # id
  PROVE  Seats(post(t, id), st, c, m)
<1>. DEFINE u == post(t, id)
            w == Woken(t, id)
<1>1. TableTypes(u) /\ u.asleep = t.asleep \ {w}
      /\ \A i \in Phylos : u.sems[SEM_PHYLO(i)] = t.sems[SEM_PHYLO(i)]
  <2>1. /\ TableTypes(u) /\ u.asleep = t.asleep \ {w}
        /\ \A j \in SemIds \ {id} : u.sems[j] = t.sems[j]
    BY PostFields DEF Seats
  <2>2. \A i \in Phylos : SEM_PHYLO(i) \in SemIds \ {id}
    BY IdsLemma
  <2>. QED BY ONLY <2>1, <2>2
<1>2. Queued(u, c, m) /\ (w # Gone => MayWait(c, m, w, id))
  BY PostQueued DEF Seats
<1>. HIDE DEF u, w
<1>3. \A i \in Phylos : c[i] = "driving" => w # i
  BY <1>2, IdsLemma DEF MayWait
<1>4. Turns(u, st, c)
  BY <1>1, <1>3 DEF Seats, Turns
<1>. QED BY <1>1, <1>2, <1>4 DEF Seats, u

\* grant: a philosopher that waits is given its turn.  It sleeps in the queue of
\* its semaphore or has not asked for a unit of it yet.
LEMMA GrantLemma ==
  ASSUME NEW t, NEW st, NEW c, NEW m, Seats(t, st, c, m), NEW j \in Phylos,
         st[j] = "WAITING"
  PROVE  Seats(post(t, SEM_PHYLO(j)), [st EXCEPT ![j] = "DRIVING"], c, m)
<1>. DEFINE id == SEM_PHYLO(j)
            u == post(t, id)
            w == Woken(t, id)
            s == t.sems[id]
            v == u.sems[id]
            new == [st EXCEPT ![j] = "DRIVING"]
<1>1. id \in SemIds /\ s \in Semaphores
  BY IdsLemma DEF Seats, TableTypes
<1>2. /\ TableTypes(u) /\ u.asleep = t.asleep \ {w} /\ v.in_use = s.in_use
      /\ \A i \in Phylos \ {j} : u.sems[SEM_PHYLO(i)] = t.sems[SEM_PHYLO(i)]
      /\ s.waiting = << >> => v.value = s.value + 1
      /\ s.waiting # << >> => v.value = s.value
  <2>1. /\ TableTypes(u) /\ u.asleep = t.asleep \ {w} /\ v.in_use = s.in_use
        /\ \A l \in SemIds \ {id} : u.sems[l] = t.sems[l]
        /\ s.waiting = << >> => v.value = s.value + 1
        /\ s.waiting # << >> => v.value = s.value
    BY <1>1, PostFields DEF Seats
  <2>2. \A i \in Phylos \ {j} : SEM_PHYLO(i) \in SemIds \ {id}
    BY IdsLemma
  <2>. QED BY ONLY <2>1, <2>2
<1>3. /\ Queued(u, c, m) /\ (w # Gone => MayWait(c, m, w, id))
      /\ \A p \in Waiters : p # w /\ InQueue(s.waiting, p) => InQueue(v.waiting, p)
  BY <1>1, PostQueued DEF Seats
<1>4. \A i \in Phylos \ {j} : w # i
  BY <1>3, IdsLemma DEF MayWait
<1>5. /\ new \in [Phylos -> PhyloStates] /\ new[j] = "DRIVING"
      /\ \A i \in Phylos \ {j} : new[i] = st[i]
  BY DEF Seats, PhyloStates
<1>6. /\ c[j] \in {"turn", "driving"} /\ s.in_use /\ s.value = 0
      /\ c[j] = "driving" => j \in t.asleep /\ InQueue(s.waiting, j)
  BY DEF Seats, Turns, PhyloPcs
<1>7. s.waiting = << >> => ~ InQueue(s.waiting, j)
  BY DEF InQueue
<1>8. j \in Waiters
  BY IdsLemma
<1>. HIDE DEF id, u, w, s, v, new
<1>9. /\ v.in_use
      /\ v.value # 0 => v.value = 1 /\ c[j] = "turn"
      /\ c[j] = "driving" /\ j \in u.asleep => InQueue(v.waiting, j)
  BY <1>2, <1>3, <1>6, <1>7, <1>8
<1>10. Turns(u, new, c)
  <2>. SUFFICES ASSUME NEW i \in Phylos
                PROVE  LET z == u.sems[SEM_PHYLO(i)]
                       IN /\ c[i] \in {"none", "new"} => new[i] = "NONE"
                          /\ c[i] \in {"thinking", "take"} => new[i] = "THINKING"
                          /\ c[i] \in {"turn", "driving"} => new[i] \in {"WAITING", "DRIVING"}
                          /\ c[i] = "leave" => new[i] = "DRIVING"
                          /\ c[i] = "driving" =>
                               IF i \in u.asleep THEN InQueue(z.waiting, i)
                                                 ELSE new[i] = "DRIVING"
                          /\ c[i] # "none" => z.in_use
                          /\ z.in_use /\ z.value # 0 =>
                               z.value = 1 /\ c[i] = "turn" /\ new[i] = "DRIVING"
    BY DEF Turns
  <2>1. CASE i = j
    BY <1>5, <1>6, <1>9, <2>1 DEF id, v
  <2>2. CASE i # j
    <3>1. u.sems[SEM_PHYLO(i)] = t.sems[SEM_PHYLO(i)] /\ new[i] = st[i]
          /\ (i \in u.asleep <=> i \in t.asleep)
      BY <1>2, <1>4, <1>5, <2>2
    <3>. QED BY <3>1 DEF Seats, Turns
  <2>. QED BY <2>1, <2>2
<1>. QED BY <1>2, <1>3, <1>5, <1>10 DEF Seats, u, id, new

\* my_sem_wait(SEM_ID).
LEMMA TableLemma ==
  ASSUME NEW t, NEW st, NEW c, NEW m, Seats(t, st, c, m),
         NEW p \in Processes, p \notin t.asleep, MayWait(c, m, p, SEM_ID)
  PROVE  Seats(wait(t, SEM_ID, p), st, c, m)
<1>. DEFINE u == wait(t, SEM_ID, p)
<1>1. /\ TableTypes(u) /\ u.asleep \in {t.asleep, t.asleep \cup {p}}
      /\ \A i \in Phylos : u.sems[SEM_PHYLO(i)] = t.sems[SEM_PHYLO(i)]
  <2>1. /\ TableTypes(u) /\ u.asleep \in {t.asleep, t.asleep \cup {p}}
        /\ \A l \in SemIds \ {SEM_ID} : u.sems[l] = t.sems[l]
    <3>1. TableTypes(t) /\ SEM_ID \in SemIds
      BY IdsLemma DEF Seats
    <3>. QED BY ONLY <3>1, p \in Processes, WaitFields
  <2>2. \A i \in Phylos : SEM_PHYLO(i) \in SemIds \ {SEM_ID}
    BY IdsLemma
  <2>. QED BY ONLY <2>1, <2>2
<1>2. Queued(u, c, m)
  BY WaitQueued, IdsLemma DEF Seats
<1>3. \A i \in Phylos : c[i] = "driving" => p # i
  BY IdsLemma DEF MayWait
<1>. HIDE DEF u
<1>4. Turns(u, st, c)
  BY <1>1, <1>3 DEF Seats, Turns
<1>. QED BY <1>1, <1>2, <1>4 DEF Seats, u

\* The part of Turns about one philosopher.
Turn(s, sleeps, state, at, i) ==
  /\ at \in {"none", "new"} => state = "NONE"
  /\ at \in {"thinking", "take"} => state = "THINKING"
  /\ at \in {"turn", "driving"} => state \in {"WAITING", "DRIVING"}
  /\ at = "leave" => state = "DRIVING"
  /\ at = "driving" => IF sleeps THEN InQueue(s.waiting, i) ELSE state = "DRIVING"
  /\ at # "none" => s.in_use
  /\ s.in_use /\ s.value # 0 => s.value = 1 /\ at = "turn" /\ state = "DRIVING"

LEMMA TurnsLemma ==
  ASSUME NEW t, NEW st, NEW c
  PROVE  Turns(t, st, c) <=>
           \A i \in Phylos : Turn(t.sems[SEM_PHYLO(i)], i \in t.asleep, st[i], c[i], i)
BY DEF Turns, Turn

\* A step of one philosopher changes nothing for the others.
LEMMA OneTurn ==
  ASSUME NEW t, NEW st, NEW c, NEW m, Seats(t, st, c, m), NEW j \in Phylos,
         NEW u, NEW ns, NEW d,
         ns \in [Phylos -> PhyloStates], d \in [Phylos -> PhyloPcs],
         \A i \in Phylos \ {j} :
           /\ u.sems[SEM_PHYLO(i)] = t.sems[SEM_PHYLO(i)]
           /\ i \in u.asleep <=> i \in t.asleep
           /\ ns[i] = st[i] /\ d[i] = c[i],
         Turn(u.sems[SEM_PHYLO(j)], j \in u.asleep, ns[j], d[j], j)
  PROVE  Turns(u, ns, d)
<1>1. \A i \in Phylos : Turn(t.sems[SEM_PHYLO(i)], i \in t.asleep, st[i], c[i], i)
  BY TurnsLemma DEF Seats
<1>2. ASSUME NEW i \in Phylos, i # j
      PROVE  Turn(u.sems[SEM_PHYLO(i)], i \in u.asleep, ns[i], d[i], i)
  BY <1>1, <1>2 DEF Turn
<1>3. \A i \in Phylos : Turn(u.sems[SEM_PHYLO(i)], i \in u.asleep, ns[i], d[i], i)
  BY <1>2
<1>. QED BY <1>3, TurnsLemma

\* A philosopher that does not sleep moves on, and its state with it.
LEMMA PhyloMoves ==
  ASSUME NEW t, NEW st, NEW c, NEW m, Seats(t, st, c, m), NEW i \in Phylos,
         i \notin t.asleep, c[i] \notin {"none", "turn"},
         NEW at \in {"thinking", "take", "turn", "leave"}, NEW state \in PhyloStates,
         at \in {"thinking", "take"} => state = "THINKING",
         at = "turn" => state = "WAITING", at = "leave" => state = "DRIVING"
  PROVE  Seats(t, [st EXCEPT ![i] = state], [c EXCEPT ![i] = at], m)
<1>. DEFINE ns == [st EXCEPT ![i] = state]
            d == [c EXCEPT ![i] = at]
            s == t.sems[SEM_PHYLO(i)]
<1>1. /\ ns \in [Phylos -> PhyloStates] /\ ns[i] = state
      /\ d \in [Phylos -> PhyloPcs] /\ d[i] = at
      /\ \A j \in Phylos \ {i} : ns[j] = st[j] /\ d[j] = c[j]
  BY DEF Seats, PhyloPcs
<1>2. s.in_use /\ s.value = 0
  BY DEF Seats, Turns
<1>. HIDE DEF ns, d, s
<1>3. Queued(t, d, m)
  <2>1. TableTypes(t) /\ Queued(t, c, m) /\ i \notin t.asleep
    BY DEF Seats
  <2>2. \A p \in Processes, id \in SemIds :
          p # i => (MayWait(c, m, p, id) => MayWait(d, m, p, id))
    BY <1>1 DEF MayWait
  <2>. QED BY ONLY <2>1, <2>2, AwakeLemma
<1>4. Turns(t, ns, d)
  <2>1. Turn(s, i \in t.asleep, ns[i], d[i], i)
    BY <1>1, <1>2 DEF Turn
  <2>. QED BY <1>1, <2>1, OneTurn DEF s
<1>. QED BY <1>1, <1>3, <1>4 DEF Seats, ns, d

\* my_sem_wait(SEM_PHYLO(i)) of the philosopher.
LEMMA AwaitLemma ==
  ASSUME NEW t, NEW st, NEW c, NEW m, Seats(t, st, c, m), NEW i \in Phylos,
         i \notin t.asleep, c[i] = "turn"
  PROVE  Seats(wait(t, SEM_PHYLO(i), i), st, [c EXCEPT ![i] = "driving"], m)
<1>. DEFINE id == SEM_PHYLO(i)
            u == wait(t, id, i)
            d == [c EXCEPT ![i] = "driving"]
            s == t.sems[id]
            v == u.sems[id]
<1>1. id \in SemIds /\ i \in Processes /\ TableTypes(t) /\ i \in Waiters
  BY IdsLemma DEF Seats
<1>2. s \in Semaphores /\ s.value \in Nat /\ s.waiting \in Seq(Waiters)
  BY <1>1 DEF TableTypes, Semaphores
<1>3. /\ d \in [Phylos -> PhyloPcs] /\ d[i] = "driving"
      /\ \A j \in Phylos \ {i} : d[j] = c[j]
  BY DEF Seats, PhyloPcs
<1>4. /\ TableTypes(u) /\ v.in_use = s.in_use
      /\ \A l \in SemIds \ {id} : u.sems[l] = t.sems[l]
      /\ s.value # 0 => v.value = s.value - 1 /\ u.asleep = t.asleep
      /\ s.value = 0 => /\ v.value = 0 /\ v.waiting = Append(s.waiting, i)
                        /\ u.asleep = t.asleep \cup {i}
  BY ONLY <1>1, WaitFields
<1>5. Queued(u, d, m)
  <2>1. Queued(t, c, m) /\ i \notin t.asleep
    BY DEF Seats
  <2>2. \A p \in Processes, j \in SemIds :
          p # i => (MayWait(c, m, p, j) => MayWait(d, m, p, j))
    BY <1>3 DEF MayWait
  <2>3. Queued(t, d, m)
    <3>. HIDE DEF d
    <3>. QED BY ONLY <1>1, <2>1, <2>2, AwakeLemma
  <2>4. MayWait(d, m, i, id)
    BY <1>3 DEF MayWait
  <2>. QED BY ONLY <1>1, <2>1, <2>3, <2>4, WaitQueued
<1>6. /\ s.in_use /\ st[i] \in {"WAITING", "DRIVING"}
      /\ s.value # 0 => s.value = 1 /\ st[i] = "DRIVING"
  BY DEF Seats, Turns
<1>7. s.value = 0 => InQueue(v.waiting, i)
  <2>. HIDE DEF s, v
  <2>1. /\ Len(Append(s.waiting, i)) = Len(s.waiting) + 1 /\ Len(s.waiting) \in Nat
        /\ Append(s.waiting, i)[Len(s.waiting) + 1] = i
    BY ONLY <1>1, <1>2
  <2>. QED BY <1>4, <2>1 DEF InQueue
<1>8. \A j \in Phylos \ {i} : SEM_PHYLO(j) \in SemIds \ {id}
  BY IdsLemma
<1>. HIDE DEF id, u, d, s, v
<1>9. Turn(v, i \in u.asleep, st[i], d[i], i)
  <2>1. CASE s.value = 0
    <3>1. i \in u.asleep /\ InQueue(v.waiting, i) /\ v.value = 0 /\ v.in_use
      BY <1>4, <1>6, <1>7, <2>1
    <3>. QED BY ONLY <1>3, <1>6, <3>1 DEF Turn
  <2>2. CASE s.value # 0
    <3>1. i \notin u.asleep /\ v.value = 0 /\ v.in_use /\ st[i] = "DRIVING"
      BY <1>4, <1>6, <2>2
    <3>. QED BY ONLY <1>3, <3>1 DEF Turn
  <2>. QED BY <2>1, <2>2
<1>10. Turns(u, st, d)
  <2>1. st \in [Phylos -> PhyloStates]
    BY DEF Seats
  <2>2. \A j \in Phylos \ {i} :
           /\ u.sems[SEM_PHYLO(j)] = t.sems[SEM_PHYLO(j)]
           /\ j \in u.asleep <=> j \in t.asleep
           /\ st[j] = st[j] /\ d[j] = c[j]
    BY <1>2, <1>3, <1>4, <1>8
  <2>. QED BY <1>3, <1>9, <2>1, <2>2, OneTurn DEF v, id
<1>. QED BY <1>3, <1>4, <1>5, <1>10 DEF Seats, u, d, id

\* my_sem_wait(SEM_PHYLO(idx)) of remove_phylo: phylo_main takes a turn, or waits
\* for it, that is not its own.
LEMMA StealLemma ==
  ASSUME NEW t, NEW st, NEW c, NEW m, Seats(t, st, c, m), Main \notin t.asleep,
         m.at = "remove", m.idx \in Phylos
  PROVE  Seats(wait(t, SEM_PHYLO(m.idx), Main), st, c, m)
<1>. DEFINE i == m.idx
            id == SEM_PHYLO(i)
            u == wait(t, id, Main)
            s == t.sems[id]
            v == u.sems[id]
<1>1. id \in SemIds /\ Main \in Processes /\ TableTypes(t) /\ Queued(t, c, m)
  BY IdsLemma DEF Seats
<1>2. s \in Semaphores /\ s.value \in Nat /\ s.waiting \in Seq(Waiters)
  BY <1>1 DEF TableTypes, Semaphores
<1>3. /\ TableTypes(u) /\ v.in_use = s.in_use
      /\ \A l \in SemIds \ {id} : u.sems[l] = t.sems[l]
      /\ s.value # 0 => /\ v.value = s.value - 1 /\ u.asleep = t.asleep
                        /\ v.waiting = s.waiting
      /\ s.value = 0 => /\ v.value = 0 /\ v.waiting = Append(s.waiting, Main)
                        /\ u.asleep = t.asleep \cup {Main}
  <2>. HIDE DEF id
  <2>. QED BY ONLY <1>1, WaitFields
<1>4. Queued(u, c, m)
  <2>1. MayWait(c, m, Main, id)
    BY DEF MayWait
  <2>. QED BY ONLY <1>1, Main \notin t.asleep, <2>1, WaitQueued
<1>5. Turn(s, i \in t.asleep, st[i], c[i], i)
  BY TurnsLemma DEF Seats
<1>6. InQueue(s.waiting, i) => InQueue(v.waiting, i)
  <2>1. Main \in Waiters
    BY IdsLemma
  <2>2. /\ Len(Append(s.waiting, Main)) = Len(s.waiting) + 1 /\ Len(s.waiting) \in Nat
        /\ \A n \in 1 .. Len(s.waiting) : Append(s.waiting, Main)[n] = s.waiting[n]
    <3>. HIDE DEF s
    <3>. QED BY ONLY <1>2, <2>1
  <2>. HIDE DEF s, v
  <2>. QED BY <1>3, <2>2 DEF InQueue
<1>7. \A j \in Phylos \ {i} : SEM_PHYLO(j) \in SemIds \ {id}
  BY IdsLemma
<1>8. \A j \in Phylos : j # Main
  BY IdsLemma
<1>. HIDE DEF id, u, s, v
<1>9. Turn(v, i \in u.asleep, st[i], c[i], i)
  <2>0. s.in_use /\ s.value # 0 => s.value = 1
    BY <1>5 DEF Turn
  <2>1. /\ v.in_use = s.in_use /\ (i \in u.asleep <=> i \in t.asleep)
        /\ s.in_use => v.value = 0
    BY <1>2, <1>3, <1>8, <2>0
  <2>. QED BY ONLY <1>5, <1>6, <2>1 DEF Turn
<1>10. Turns(u, st, c)
  <2>1. st \in [Phylos -> PhyloStates] /\ c \in [Phylos -> PhyloPcs]
    BY DEF Seats
  <2>2. \A j \in Phylos \ {i} :
           /\ u.sems[SEM_PHYLO(j)] = t.sems[SEM_PHYLO(j)]
           /\ j \in u.asleep <=> j \in t.asleep
           /\ st[j] = st[j] /\ c[j] = c[j]
    BY <1>2, <1>3, <1>7, <1>8
  <2>. QED BY <1>9, <2>1, <2>2, OneTurn DEF v, id
<1>. QED BY <1>3, <1>4, <1>10 DEF Seats, u, id

\* my_sem_create(SEM_PHYLO(j)), and a philosopher or none.
LEMMA CreateLemma ==
  ASSUME NEW t, NEW st, NEW c, NEW m, Seats(t, st, c, m), NEW j \in Phylos,
         c[j] = "none", ~ t.sems[SEM_PHYLO(j)].in_use, NEW at \in {"none", "new"}, NEW b
  PROVE  Seats([t EXCEPT !.sems[SEM_PHYLO(j)] = my_sem_create(@, 0), !.stuck = b], st,
               [c EXCEPT ![j] = at], m)
<1>. DEFINE id == SEM_PHYLO(j)
            u == [t EXCEPT !.sems[id] = my_sem_create(@, 0), !.stuck = b]
            d == [c EXCEPT ![j] = at]
            v == [in_use |-> TRUE, value |-> 0, waiting |-> << >>]
            e == [t.sems EXCEPT ![id] = v]
<1>1. id \in SemIds /\ TableTypes(t) /\ Queued(t, c, m)
  BY IdsLemma DEF Seats
<1>2. /\ u.sems = e /\ u.asleep = t.asleep
      /\ u = [sems |-> u.sems, asleep |-> u.asleep, stuck |-> u.stuck]
  <2>1. u = [t EXCEPT !.sems = e, !.stuck = b]
    BY <1>1 DEF my_sem_create, TableTypes
  <2>. HIDE DEF e, u
  <2>. QED BY ONLY <1>1, <2>1 DEF TableTypes
<1>3. /\ d \in [Phylos -> PhyloPcs] /\ d[j] = at
      /\ \A i \in Phylos \ {j} : d[i] = c[i]
  BY DEF Seats, PhyloPcs
<1>4. v \in Semaphores
  <2>1. << >> \in Seq(Waiters)
    OBVIOUS
  <2>. QED BY <2>1 DEF Semaphores
<1>5. /\ e \in [SemIds -> Semaphores] /\ e[id] = v
      /\ \A l \in SemIds \ {id} : e[l] = t.sems[l]
  <2>. HIDE DEF v
  <2>. QED BY <1>1, <1>4 DEF TableTypes
<1>6. \A p \in Waiters, l \in SemIds : MayWait(c, m, p, l) => MayWait(d, m, p, l)
  BY <1>3 DEF MayWait
<1>7. v.in_use /\ v.value = 0 /\ v.waiting = << >>
  OBVIOUS
<1>8. \A i \in Phylos \ {j} : SEM_PHYLO(i) \in SemIds \ {id}
  BY IdsLemma
<1>. HIDE DEF id, u, d, v, e
<1>9. TableTypes(u)
  BY <1>1, <1>2, <1>5 DEF TableTypes
<1>10. Queued(u, d, m)
  <2>. SUFFICES ASSUME NEW l \in SemIds, NEW n \in 1 .. Len(e[l].waiting),
                       e[l].waiting[n] # Gone
                PROVE  /\ e[l].waiting[n] \in t.asleep
                       /\ MayWait(d, m, e[l].waiting[n], l)
                       /\ \A x \in 1 .. Len(e[l].waiting) :
                            e[l].waiting[x] = e[l].waiting[n] => x = n
    BY <1>2 DEF Queued
  <2>1. l # id /\ e[l] = t.sems[l]
    BY <1>5, <1>7
  <2>2. /\ e[l].waiting[n] \in t.asleep /\ MayWait(c, m, e[l].waiting[n], l)
        /\ \A x \in 1 .. Len(e[l].waiting) : e[l].waiting[x] = e[l].waiting[n] => x = n
    BY <1>1, <2>1 DEF Queued
  <2>3. e[l].waiting[n] \in Waiters
    BY <1>1, <2>2, IdsLemma DEF TableTypes
  <2>. QED BY <1>6, <2>2, <2>3
<1>11. Turns(u, st, d)
  <2>1. st \in [Phylos -> PhyloStates] /\ st[j] = "NONE"
    BY DEF Seats, Turns
  <2>2. \A i \in Phylos \ {j} :
           /\ u.sems[SEM_PHYLO(i)] = t.sems[SEM_PHYLO(i)]
           /\ i \in u.asleep <=> i \in t.asleep
           /\ st[i] = st[i] /\ d[i] = c[i]
    BY <1>2, <1>3, <1>5, <1>8
  <2>3. Turn(u.sems[SEM_PHYLO(j)], j \in u.asleep, st[j], d[j], j)
    <3>1. u.sems[SEM_PHYLO(j)] = v
      BY <1>2, <1>5 DEF id
    <3>. QED BY <1>3, <1>7, <2>1, <3>1 DEF Turn
  <2>. QED BY <1>3, <2>1, <2>2, <2>3, OneTurn
<1>. QED BY <1>3, <1>9, <1>10, <1>11 DEF Seats, u, d, id

LEMMA BuriedFields ==
  ASSUME NEW t, TableTypes(t), NEW i \in Phylos
  PROVE  LET u == [buried(t, i) EXCEPT !.sems[SEM_PHYLO(i)] = my_sem_destroy(@)]
         IN /\ TableTypes(u) /\ u.asleep = t.asleep \ {i}
            /\ ~ u.sems[SEM_PHYLO(i)].in_use /\ u.sems[SEM_PHYLO(i)].waiting = << >>
            /\ \A id \in SemIds \ {SEM_PHYLO(i)} :
                 /\ u.sems[id].in_use = t.sems[id].in_use
                 /\ u.sems[id].value = t.sems[id].value
                 /\ u.sems[id].waiting = left_in_queue(t.sems[id].waiting, i)
<1>. DEFINE own == SEM_PHYLO(i)
            b == buried(t, i)
            u == [b EXCEPT !.sems[own] = my_sem_destroy(@)]
            e == [id \in SemIds |->
                    [t.sems[id] EXCEPT !.waiting = left_in_queue(t.sems[id].waiting, i)]]
            v == my_sem_destroy(e[own])
<1>1. own \in SemIds
  BY IdsLemma
<1>2. ASSUME NEW id \in SemIds
      PROVE  /\ e[id] \in Semaphores /\ e[id].in_use = t.sems[id].in_use
             /\ e[id].value = t.sems[id].value
             /\ e[id].waiting = left_in_queue(t.sems[id].waiting, i)
  <2>. DEFINE s == t.sems[id]
  <2>1. s \in Semaphores
    BY DEF TableTypes
  <2>2. left_in_queue(s.waiting, i) \in Seq(Waiters)
    <3>1. s.waiting \in Seq(Waiters) /\ Gone \in Waiters
      BY <2>1, IdsLemma DEF Semaphores, Waiters, Gone
    <3>2. Len(s.waiting) \in Nat /\ DOMAIN s.waiting = 1 .. Len(s.waiting)
      BY <3>1
    <3>3. left_in_queue(s.waiting, i) \in [1 .. Len(s.waiting) -> Waiters]
      BY <3>1, <3>2 DEF left_in_queue
    <3>. QED BY <3>2, <3>3
  <2>3. e[id] = [s EXCEPT !.waiting = left_in_queue(s.waiting, i)]
    OBVIOUS
  <2>. HIDE DEF s, e
  <2>. QED BY <2>1, <2>2, <2>3 DEF Semaphores, s
<1>3. /\ b.sems = e /\ b.asleep = t.asleep \ {i}
      /\ b = [sems |-> b.sems, asleep |-> b.asleep, stuck |-> b.stuck]
  <2>. DEFINE a == t.asleep \ {i}
  <2>1. b = [t EXCEPT !.asleep = a, !.sems = e]
    BY DEF buried
  <2>. HIDE DEF a, b, e
  <2>. QED BY ONLY <2>1, TableTypes(t) DEF TableTypes, a
<1>. HIDE DEF b, e
<1>4. v \in Semaphores /\ ~ v.in_use /\ v.waiting = << >>
  <2>. DEFINE unused == [e[own] EXCEPT !.in_use = FALSE]
  <2>1. v = [unused EXCEPT !.waiting = << >>]
    BY DEF my_sem_destroy
  <2>2. unused \in Semaphores /\ unused.in_use = FALSE
    BY <1>1, <1>2 DEF Semaphores
  <2>3. << >> \in Seq(Waiters)
    OBVIOUS
  <2>. HIDE DEF unused, v
  <2>. QED BY ONLY <2>1, <2>2, <2>3 DEF Semaphores
<1>5. /\ u.sems = [e EXCEPT ![own] = v] /\ u.asleep = b.asleep
      /\ u = [sems |-> u.sems, asleep |-> u.asleep, stuck |-> u.stuck]
  <2>. DEFINE f == [e EXCEPT ![own] = v]
  <2>1. u = [b EXCEPT !.sems = f]
    <3>. HIDE DEF own
    <3>. QED BY <1>3 DEF f
  <2>. HIDE DEF f, u
  <2>. QED BY ONLY <1>3, <2>1 DEF f
<1>6. e \in [SemIds -> Semaphores]
  BY <1>2 DEF e
<1>. HIDE DEF u, v, own
<1>7. TableTypes(u)
  BY <1>1, <1>3, <1>4, <1>5, <1>6 DEF TableTypes
<1>8. \A id \in SemIds \ {own} : u.sems[id] = e[id]
  BY <1>1, <1>5, <1>6
<1>9. u.sems[own] = v
  BY <1>1, <1>5, <1>6
<1>10. \A id \in SemIds \ {own} :
         /\ u.sems[id].in_use = t.sems[id].in_use
         /\ u.sems[id].value = t.sems[id].value
         /\ u.sems[id].waiting = left_in_queue(t.sems[id].waiting, i)
  BY <1>2, <1>8
<1>. QED BY <1>3, <1>4, <1>5, <1>7, <1>9, <1>10 DEF u, own, b

LEMMA BuryLemma ==
  ASSUME NEW t, NEW st, NEW c, NEW m, Seats(t, st, c, m), NEW i \in Phylos
  PROVE  Seats([buried(t, i) EXCEPT !.sems[SEM_PHYLO(i)] = my_sem_destroy(@)],
               [st EXCEPT ![i] = "NONE"], [c EXCEPT ![i] = "none"], m)
<1>. DEFINE own == SEM_PHYLO(i)
            u == [buried(t, i) EXCEPT !.sems[own] = my_sem_destroy(@)]
            ns == [st EXCEPT ![i] = "NONE"]
            d == [c EXCEPT ![i] = "none"]
<1>1. TableTypes(t) /\ Queued(t, c, m) /\ Turns(t, st, c)
  BY DEF Seats
<1>2. /\ TableTypes(u) /\ u.asleep = t.asleep \ {i}
      /\ ~ u.sems[own].in_use /\ u.sems[own].waiting = << >>
      /\ \A id \in SemIds \ {own} :
           /\ u.sems[id].in_use = t.sems[id].in_use
           /\ u.sems[id].value = t.sems[id].value
           /\ u.sems[id].waiting = left_in_queue(t.sems[id].waiting, i)
  BY ONLY <1>1, i \in Phylos, BuriedFields, ZenonT(60)
<1>3. /\ ns \in [Phylos -> PhyloStates] /\ ns[i] = "NONE"
      /\ d \in [Phylos -> PhyloPcs] /\ d[i] = "none"
      /\ \A j \in Phylos \ {i} : ns[j] = st[j] /\ d[j] = c[j]
  BY DEF Seats, PhyloPcs, PhyloStates
<1>. HIDE DEF u, ns, d
<1>4. ASSUME NEW q \in Seq(Waiters)
      PROVE  /\ Len(left_in_queue(q, i)) = Len(q) /\ Len(q) \in Nat
             /\ \A n \in 1 .. Len(q) : left_in_queue(q, i)[n] = IF q[n] = i THEN Gone ELSE q[n]
  <2>1. Len(q) \in Nat /\ DOMAIN q = 1 .. Len(q)
    OBVIOUS
  <2>. QED BY <2>1 DEF left_in_queue
<1>5. Queued(u, d, m)
  <2>. SUFFICES ASSUME NEW l \in SemIds, NEW n \in 1 .. Len(u.sems[l].waiting),
                       u.sems[l].waiting[n] # Gone
                PROVE  /\ u.sems[l].waiting[n] \in u.asleep
                       /\ MayWait(d, m, u.sems[l].waiting[n], l)
                       /\ \A x \in 1 .. Len(u.sems[l].waiting) :
                            u.sems[l].waiting[x] = u.sems[l].waiting[n] => x = n
    BY DEF Queued
  <2>. DEFINE q == t.sems[l].waiting
              r == u.sems[l].waiting
  <2>1. l # own
    BY <1>2
  <2>2. q \in Seq(Waiters) /\ r = left_in_queue(q, i)
    BY <1>1, <1>2, <2>1 DEF TableTypes, Semaphores
  <2>3. /\ Len(r) = Len(q)
        /\ \A x \in 1 .. Len(q) : r[x] = IF q[x] = i THEN Gone ELSE q[x]
    BY <1>4, <2>2
  <2>4. q[n] # i /\ q[n] = r[n] /\ q[n] # Gone
    BY <2>3
  <2>5. /\ q[n] \in t.asleep /\ MayWait(c, m, q[n], l)
        /\ \A x \in 1 .. Len(q) : q[x] = q[n] => x = n
    BY <1>1, <2>3, <2>4 DEF Queued
  <2>6. MayWait(d, m, q[n], l)
    BY <1>3, <2>4, <2>5 DEF MayWait
  <2>7. \A x \in 1 .. Len(r) : r[x] = r[n] => x = n
    BY <2>3, <2>4, <2>5
  <2>. QED BY <1>2, <2>4, <2>5, <2>6, <2>7
<1>6. Turns(u, ns, d)
  <2>1. ASSUME NEW j \in Phylos, j # i
        PROVE  Turn(u.sems[SEM_PHYLO(j)], j \in u.asleep, ns[j], d[j], j)
    <3>. DEFINE s == t.sems[SEM_PHYLO(j)]
                v == u.sems[SEM_PHYLO(j)]
    <3>1. Turn(s, j \in t.asleep, st[j], c[j], j)
      BY <1>1, TurnsLemma
    <3>2. SEM_PHYLO(j) \in SemIds \ {own} /\ j # Gone
      BY <2>1, IdsLemma
    <3>3. /\ v.in_use = s.in_use /\ v.value = s.value /\ v.waiting = left_in_queue(s.waiting, i)
          /\ s.waiting \in Seq(Waiters)
      BY <1>1, <1>2, <3>2 DEF TableTypes, Semaphores
    <3>4. InQueue(s.waiting, j) => InQueue(v.waiting, j)
      <4>. HIDE DEF s, v
      <4>. QED BY <1>4, <2>1, <3>3 DEF InQueue
    <3>5. (j \in u.asleep <=> j \in t.asleep) /\ ns[j] = st[j] /\ d[j] = c[j]
      BY <1>2, <1>3, <2>1
    <3>. HIDE DEF s, v
    <3>6. Turn(v, j \in u.asleep, ns[j], d[j], j)
      BY ONLY <3>1, <3>3, <3>4, <3>5 DEF Turn
    <3>. QED BY <3>6 DEF v
  <2>2. Turn(u.sems[own], i \in u.asleep, ns[i], d[i], i)
    BY <1>2, <1>3 DEF Turn
  <2>3. \A j \in Phylos : Turn(u.sems[SEM_PHYLO(j)], j \in u.asleep, ns[j], d[j], j)
    BY <2>1, <2>2
  <2>. QED BY <2>3, TurnsLemma
<1>. QED BY <1>2, <1>3, <1>5, <1>6 DEF Seats, u, ns, d

-----------------------------------------------------------------------------
(***************************************************************************)
(* Neighbours.                                                             *)
(***************************************************************************)

LEMMA ModLemma ==
  ASSUME NEW n \in Nat \ {0}, NEW a \in Nat
  PROVE  /\ a % n \in 0 .. n - 1
         /\ a < n => a % n = a
         /\ n <= a /\ a < 2 * n => a % n = a - n
OBVIOUS

LEMMA NeighbourLemma ==
  ASSUME NEW n \in Nat \ {0}, NEW i \in 0 .. n - 1
  PROVE  /\ (i + 1) % n = next(i, n) /\ (i + n - 1) % n = prev(i, n)
         /\ next(i, n) \in 0 .. n - 1 /\ prev(i, n) \in 0 .. n - 1
         /\ next(prev(i, n), n) = i /\ prev(next(i, n), n) = i
<1>1. (i + 1) % n = next(i, n)
  <2>. DEFINE a == i + 1
  <2>1. /\ a \in Nat /\ (a = n => n <= a /\ a < 2 * n /\ a - n = 0) /\ (a # n => a < n)
        /\ next(i, n) = IF a = n THEN 0 ELSE a
    BY DEF next
  <2>. HIDE DEF a
  <2>2. a % n = next(i, n)
    BY ONLY <2>1, n \in Nat \ {0}, ModLemma
  <2>. QED BY <2>2 DEF a
<1>2. (i + n - 1) % n = prev(i, n)
  <2>. DEFINE a == i + n - 1
  <2>1. /\ a \in Nat /\ (i = 0 => a < n /\ a = n - 1)
        /\ (i # 0 => n <= a /\ a < 2 * n /\ a - n = i - 1)
    OBVIOUS
  <2>. HIDE DEF a
  <2>2. a % n = prev(i, n)
    BY ONLY <2>1, n \in Nat \ {0}, ModLemma DEF prev
  <2>. QED BY <2>2 DEF a
<1>. QED BY <1>1, <1>2 DEF next, prev

LEMMA DriveLemma ==
  ASSUME NEW n \in Nat \ {0}, NEW st, NEW j \in 0 .. n - 1, 0 .. n - 1 \subseteq DOMAIN st,
         Exclusive(st, n), st[prev(j, n)] # "DRIVING", st[next(j, n)] # "DRIVING"
  PROVE  Exclusive([st EXCEPT ![j] = "DRIVING"], n)
<1>. SUFFICES ASSUME NEW i \in 0 .. n - 1, i = j \/ st[i] = "DRIVING", next(i, n) # i
              PROVE  next(i, n) # j /\ st[next(i, n)] # "DRIVING"
  BY NeighbourLemma DEF Exclusive
<1>1. CASE i = j
  BY <1>1
<1>2. CASE i # j /\ st[i] = "DRIVING"
  <2>1. st[next(i, n)] # "DRIVING"
    BY <1>2 DEF Exclusive
  <2>2. prev(next(i, n), n) = i
    BY NeighbourLemma
  <2>. QED BY <1>2, <2>1, <2>2
<1>. QED BY <1>1, <1>2

LEMMA RestLemma ==
  ASSUME NEW n \in Nat, NEW st, NEW j \in DOMAIN st, NEW x, x # "DRIVING",
         0 .. n - 1 \subseteq DOMAIN st, Exclusive(st, n)
  PROVE  Exclusive([st EXCEPT ![j] = x], n)
BY DEF Exclusive, next

LEMMA JoinLemma ==
  ASSUME NEW n \in Nat, NEW st, st[n] # "DRIVING", Exclusive(st, n)
  PROVE  Exclusive(st, n + 1)
BY DEF Exclusive, next

LEMMA LeaveLemma ==
  ASSUME NEW n \in Nat, n >= 2, NEW st, 0 .. n - 1 \subseteq DOMAIN st, Exclusive(st, n),
         ~ (st[prev(n - 1, n)] = "DRIVING" /\ st[next(n - 1, n)] = "DRIVING")
  PROVE  Exclusive([st EXCEPT ![n - 1] = "NONE"], n - 1)
<1>. DEFINE ns == [st EXCEPT ![n - 1] = "NONE"]
<1>1. \A i \in 0 .. n - 2 : ns[i] = st[i]
  OBVIOUS
<1>2. ~ (st[n - 2] = "DRIVING" /\ st[0] = "DRIVING")
  BY DEF prev, next
<1>. HIDE DEF ns
<1>3. Exclusive(ns, n - 1)
  BY <1>1, <1>2 DEF Exclusive, next
<1>. QED BY <1>3 DEF ns

-----------------------------------------------------------------------------
(***************************************************************************)
(* What is done at the table.                                              *)
(***************************************************************************)

LEMMA GrantIfLemma ==
  ASSUME NEW w, NEW c, NEW m, Seats(w.table, w.states, c, m),
         NEW j \in Phylos, NEW other \in Phylos
  PROVE  LET r == grant_if(w, j, other)
         IN /\ Seats(r.table, r.states, c, m)
            /\ \A i \in Phylos : w.states[i] # "WAITING" => r.states[i] = w.states[i]
            /\ \A n \in 1 .. MAX_PHY :
                 /\ Exclusive(w.states, n) /\ j < n
                 /\ \/ other = prev(j, n) /\ w.states[next(j, n)] # "DRIVING"
                    \/ other = next(j, n) /\ w.states[prev(j, n)] # "DRIVING"
                 => Exclusive(r.states, n)
<1>. DEFINE r == grant_if(w, j, other)
            g == grant(w, j)
<1>1. CASE w.states[j] = "WAITING" /\ w.states[other] # "DRIVING"
  <2>1. r = g
    BY <1>1 DEF grant_if
  <2>2. /\ g.states = [w.states EXCEPT ![j] = "DRIVING"]
        /\ g.table = post(w.table, SEM_PHYLO(j))
    BY DEF grant
  <2>. HIDE DEF r, g
  <2>3. Seats(g.table, g.states, c, m)
    BY <1>1, <2>2, GrantLemma
  <2>4. w.states \in [Phylos -> PhyloStates]
    BY DEF Seats
  <2>5. ASSUME NEW n \in 1 .. MAX_PHY, Exclusive(w.states, n), j < n,
               \/ other = prev(j, n) /\ w.states[next(j, n)] # "DRIVING"
               \/ other = next(j, n) /\ w.states[prev(j, n)] # "DRIVING"
        PROVE  Exclusive(g.states, n)
    <3>1. n \in Nat \ {0} /\ 0 .. n - 1 \subseteq DOMAIN w.states /\ j \in 0 .. n - 1
      BY <2>4, <2>5, IdsLemma DEF Phylos
    <3>2. w.states[prev(j, n)] # "DRIVING" /\ w.states[next(j, n)] # "DRIVING"
      BY <1>1, <2>5
    <3>. QED BY ONLY <2>2, <2>5, <3>1, <3>2, DriveLemma
  <2>6. \A i \in Phylos : w.states[i] # "WAITING" => g.states[i] = w.states[i]
    BY <1>1, <2>2, <2>4
  <2>. QED BY <2>1, <2>3, <2>5, <2>6 DEF r
<1>2. CASE ~ (w.states[j] = "WAITING" /\ w.states[other] # "DRIVING")
  <2>1. r = w
    BY <1>2 DEF grant_if
  <2>. QED BY <2>1
<1>. QED BY <1>1, <1>2

LEMMA LeavePedalsLemma ==
  ASSUME Seats(table, states, pc, main), count \in 1 .. MAX_PHY,
         NEW i \in Phylos, i \notin table.asleep, pc[i] = "leave"
  PROVE  LET r == leave_pedals(i)
         IN /\ Seats(r.table, r.states, [pc EXCEPT ![i] = "thinking"], main)
            /\ Exclusive(states, count) /\ i < count => Exclusive(r.states, count)
<1>. DEFINE r == leave_pedals(i)
            left == LEFT_PHYLO(i)
            right == RIGHT_PHYLO(i)
            beyond == LEFT_PHYLO(left)
            across == RIGHT_PHYLO(right)
            c == [pc EXCEPT ![i] = "thinking"]
            ns == [states EXCEPT ![i] = "THINKING"]
            w == [states |-> ns, table |-> table]
            v == grant_if(w, left, beyond)
<1>1. r = grant_if(v, right, across)
  BY DEF leave_pedals
<1>2. /\ left \in Phylos /\ left < count /\ right \in Phylos /\ right < count
      /\ beyond \in Phylos /\ across \in Phylos
  <2>1. \A a \in Nat : a % count \in Phylos /\ a % count < count
    <3>1. count \in Nat \ {0} /\ count <= MAX_PHY /\ MAX_PHY \in Nat
      BY IdsLemma
    <3>2. \A a \in Nat : a % count \in 0 .. count - 1
      BY ONLY <3>1, ModLemma
    <3>. DEFINE mod(a) == a % count
    <3>3. \A a \in Nat : mod(a) \in 0 .. count - 1
      BY <3>2
    <3>. HIDE DEF mod
    <3>4. \A a \in Nat : mod(a) \in Phylos /\ mod(a) < count
      BY <3>1, <3>3 DEF Phylos
    <3>. QED BY <3>4 DEF mod
  <2>2. \A a \in Phylos : a + 1 \in Nat /\ a + count - 1 \in Nat
    BY IdsLemma DEF Phylos
  <2>. QED BY <2>1, <2>2 DEF LEFT_PHYLO, RIGHT_PHYLO
<1>3. i < count => /\ left = prev(i, count) /\ right = next(i, count)
                   /\ beyond = prev(left, count) /\ across = next(right, count)
                   /\ next(left, count) = i /\ prev(right, count) = i
  <2>1. \A a \in Phylos : a < count =>
           /\ (a + 1) % count = next(a, count) /\ (a + count - 1) % count = prev(a, count)
           /\ next(prev(a, count), count) = a /\ prev(next(a, count), count) = a
    BY NeighbourLemma, IdsLemma DEF Phylos
  <2>. QED BY <1>2, <2>1 DEF LEFT_PHYLO, RIGHT_PHYLO
<1>4. w.states = ns /\ w.table = table
  OBVIOUS
<1>5. Seats(table, ns, c, main)
  <2>1. "thinking" \in {"thinking", "take", "turn", "leave"} /\ "THINKING" \in PhyloStates
        /\ pc[i] \notin {"none", "turn"}
    BY DEF PhyloStates
  <2>. QED BY <2>1, PhyloMoves
<1>6. ns[i] = "THINKING"
  BY DEF Seats
<1>7. Exclusive(states, count) => Exclusive(ns, count)
  <2>1. DOMAIN states = Phylos /\ count \in Nat /\ 0 .. count - 1 \subseteq Phylos
    BY IdsLemma DEF Seats, Phylos
  <2>. QED BY <2>1, RestLemma
<1>. HIDE DEF left, right, beyond, across, c, ns, w, v, r
<1>8. /\ Seats(v.table, v.states, c, main) /\ v.states[i] = "THINKING"
      /\ Exclusive(states, count) /\ i < count => Exclusive(v.states, count)
  <2>1. Seats(w.table, w.states, c, main)
    BY <1>4, <1>5
  <2>2. /\ Seats(v.table, v.states, c, main)
        /\ \A x \in Phylos : w.states[x] # "WAITING" => v.states[x] = w.states[x]
        /\ \A n \in 1 .. MAX_PHY :
             /\ Exclusive(w.states, n) /\ left < n
             /\ \/ beyond = prev(left, n) /\ w.states[next(left, n)] # "DRIVING"
                \/ beyond = next(left, n) /\ w.states[prev(left, n)] # "DRIVING"
             => Exclusive(v.states, n)
    BY ONLY <1>2, <2>1, GrantIfLemma DEF v
  <2>. QED BY <1>2, <1>3, <1>4, <1>6, <1>7, <2>2
<1>9. /\ Seats(r.table, r.states, c, main)
      /\ \A n \in 1 .. MAX_PHY :
           /\ Exclusive(v.states, n) /\ right < n
           /\ \/ across = prev(right, n) /\ v.states[next(right, n)] # "DRIVING"
              \/ across = next(right, n) /\ v.states[prev(right, n)] # "DRIVING"
           => Exclusive(r.states, n)
  BY ONLY <1>1, <1>2, <1>8, GrantIfLemma
<1>. QED BY <1>2, <1>3, <1>8, <1>9 DEF r, c

LEMMA TakePedalsLemma ==
  ASSUME Seats(table, states, pc, main), count \in 1 .. MAX_PHY,
         NEW i \in Phylos, i \notin table.asleep, pc[i] = "take"
  PROVE  LET r == take_pedals(i)
         IN /\ Seats(r.table, r.states, [pc EXCEPT ![i] = "turn"], main)
            /\ Exclusive(states, count) /\ i < count => Exclusive(r.states, count)
<1>. DEFINE r == take_pedals(i)
            c == [pc EXCEPT ![i] = "turn"]
            ns == [states EXCEPT ![i] = "WAITING"]
            w == [states |-> ns, table |-> table]
            free == ns[LEFT_PHYLO(i)] # "DRIVING" /\ ns[RIGHT_PHYLO(i)] # "DRIVING"
<1>1. r = IF free THEN grant(w, i) ELSE w
  BY DEF take_pedals
<1>2. i < count => LEFT_PHYLO(i) = prev(i, count) /\ RIGHT_PHYLO(i) = next(i, count)
  BY NeighbourLemma, IdsLemma DEF LEFT_PHYLO, RIGHT_PHYLO, Phylos
<1>3. w.states = ns /\ w.table = table
  OBVIOUS
<1>4. Seats(table, ns, c, main)
  <2>1. "turn" \in {"thinking", "take", "turn", "leave"} /\ "WAITING" \in PhyloStates
        /\ pc[i] \notin {"none", "turn"}
    BY DEF PhyloStates
  <2>. QED BY <2>1, PhyloMoves
<1>5. ns[i] = "WAITING"
  BY DEF Seats
<1>6. DOMAIN states = Phylos /\ count \in Nat \ {0} /\ 0 .. count - 1 \subseteq Phylos
      /\ DOMAIN ns = Phylos
  BY IdsLemma DEF Seats, Phylos
<1>7. Exclusive(states, count) => Exclusive(ns, count)
  BY <1>6, RestLemma
<1>8. i < count => i \in 0 .. count - 1
  BY IdsLemma DEF Phylos
<1>. HIDE DEF c, ns, w, r
<1>9. CASE free
  <2>1. /\ r.states = [ns EXCEPT ![i] = "DRIVING"]
        /\ r.table = post(table, SEM_PHYLO(i))
    BY <1>1, <1>3, <1>9 DEF grant
  <2>2. Seats(r.table, r.states, c, main)
    BY <1>4, <1>5, <2>1, GrantLemma
  <2>3. ASSUME Exclusive(states, count), i < count
        PROVE  Exclusive(r.states, count)
    <3>1. ns[prev(i, count)] # "DRIVING" /\ ns[next(i, count)] # "DRIVING"
      BY <1>2, <1>9, <2>3
    <3>2. Exclusive(ns, count) /\ i \in 0 .. count - 1 /\ 0 .. count - 1 \subseteq DOMAIN ns
      BY ONLY <1>6, <1>7, <1>8, <2>3
    <3>3. count \in Nat \ {0}
      BY <1>6
    <3>4. Exclusive([ns EXCEPT ![i] = "DRIVING"], count)
      BY ONLY <3>1, <3>2, <3>3, DriveLemma
    <3>. QED BY <2>1, <3>4
  <2>. QED BY <2>2, <2>3 DEF r, c
<1>10. CASE ~ free
  BY <1>1, <1>3, <1>4, <1>7, <1>10 DEF r, c
<1>. QED BY <1>9, <1>10

\* A semaphore that is no philosopher's gets another value, or loses its queue.
LEMMA OtherLemma ==
  ASSUME NEW t, NEW st, NEW c, NEW m, Seats(t, st, c, m), NEW id \in SemIds,
         \A i \in Phylos : SEM_PHYLO(i) # id,
         NEW s \in Semaphores, s.waiting \in {t.sems[id].waiting, << >>},
         NEW u, u.sems = [t.sems EXCEPT ![id] = s], u.asleep = t.asleep,
         u = [sems |-> u.sems, asleep |-> u.asleep, stuck |-> u.stuck]
  PROVE  Seats(u, st, c, m)
<1>1. TableTypes(t) /\ Queued(t, c, m) /\ Turns(t, st, c)
  BY DEF Seats
<1>2. /\ u.sems \in [SemIds -> Semaphores] /\ u.sems[id] = s
      /\ \A l \in SemIds \ {id} : u.sems[l] = t.sems[l]
  BY <1>1 DEF TableTypes
<1>3. TableTypes(u)
  BY <1>1, <1>2 DEF TableTypes
<1>4. Queued(u, c, m)
  <2>1. \A l \in SemIds : u.sems[l].waiting = t.sems[l].waiting \/ Len(u.sems[l].waiting) = 0
    BY <1>2
  <2>. QED BY <1>1, <2>1 DEF Queued
<1>5. Turns(u, st, c)
  <2>1. \A i \in Phylos : u.sems[SEM_PHYLO(i)] = t.sems[SEM_PHYLO(i)]
    BY <1>2, IdsLemma
  <2>. QED BY <1>1, <2>1 DEF Turns
<1>. QED BY <1>3, <1>4, <1>5 DEF Seats

-----------------------------------------------------------------------------
(***************************************************************************)
(* The steps of a philosopher.                                             *)
(***************************************************************************)

LEMMA SeatedLemma ==
  ASSUME PhyloInv, NEW i \in Phylos, pc[i] # "none", NEW at \in PhyloPcs, NEW ns,
         Exclusive(states, count) /\ i < count => Exclusive(ns, count)
  PROVE  Seated(ns, [pc EXCEPT ![i] = at], main, count)
<1>1. pc \in [Phylos -> PhyloPcs]
  BY DEF PhyloInv, Seats
<1>2. \A j \in Phylos : [pc EXCEPT ![i] = at][j] # "none" => pc[j] # "none"
  BY <1>1
<1>. QED BY <1>2 DEF PhyloInv, Seated

\* Somebody sits at the table.
LEMMA CountLemma ==
  ASSUME PhyloInv, NEW i \in Phylos, pc[i] # "none"
  PROVE  count \in 1 .. MAX_PHY
<1>1. count \in 0 .. MAX_PHY /\ main.idx \in Nat
  BY DEF PhyloInv, MainAt
<1>2. i < count \/ (main.idx <= i /\ i < main.idx + count)
  BY DEF PhyloInv, Seated
<1>. QED BY <1>1, <1>2, IdsLemma DEF Phylos

LEMMA PhilosopherStep ==
  ASSUME PhyloInv, NEW i \in Phylos, Philosopher(i)
  PROVE  PhyloInv'
<1>. DEFINE goes(at) == pc' = [pc EXCEPT ![i] = at]
<1>0. Seats(table, states, pc, main) /\ MainAt(main, count)
  BY DEF PhyloInv
<1>1. states \in [Phylos -> PhyloStates] /\ pc \in [Phylos -> PhyloPcs]
      /\ Turns(table, states, pc)
  BY <1>0 DEF Seats
<1>2. \A x \in Phylos : states = [states EXCEPT ![x] = states[x]]
  BY <1>1
<1>3. ASSUME NEW at \in PhyloPcs, goes(at), pc[i] # "none", UNCHANGED <<count, main, keys>>,
             Seats(table', states', pc', main),
             Exclusive(states, count) /\ i < count => Exclusive(states', count)
      PROVE  PhyloInv'
  <2>1. Seated(states', pc', main, count)
    BY <1>3, SeatedLemma
  <2>. QED BY <1>0, <1>3, <2>1 DEF PhyloInv
<1>. HIDE DEF goes
<1>4. ASSUME NEW from, NEW to, Goes(i, from, to)
      PROVE  pc[i] = from /\ i \notin table.asleep /\ goes(to) /\ UNCHANGED <<count, main, keys>>
  BY <1>4 DEF Goes, Running, goes
<1>5. CASE SitDown(i)
  <2>1. pc[i] = "new" /\ i \notin table.asleep /\ goes("thinking")
        /\ UNCHANGED <<count, main, keys, table>>
        /\ states' = [states EXCEPT ![i] = "THINKING"]
    BY <1>4, <1>5 DEF SitDown
  <2>2. Seats(table, states', pc', main)
    <3>1. "THINKING" \in PhyloStates
      BY DEF PhyloStates
    <3>. QED BY <1>0, <2>1, <3>1, PhyloMoves DEF goes
  <2>3. Exclusive(states, count) => Exclusive(states', count)
    <3>1. DOMAIN states = Phylos /\ count \in Nat /\ 0 .. count - 1 \subseteq Phylos
      BY <1>0, <1>1, IdsLemma DEF MainAt, Phylos
    <3>. QED BY <2>1, <3>1, RestLemma
  <2>4. "thinking" \in PhyloPcs
    BY DEF PhyloPcs
  <2>. QED BY <1>3, <2>1, <2>2, <2>3, <2>4
<1>6. CASE EnterTable(i)
  <2>1. PICK at \in {"take", "leave"} :
          /\ pc[i] = (IF at = "take" THEN "thinking" ELSE "driving")
          /\ i \notin table.asleep /\ goes(at) /\ UNCHANGED <<count, main, keys, states>>
          /\ table' = wait(table, SEM_ID, i)
    BY <1>4, <1>6 DEF EnterTable
  <2>2. states[i] = IF at = "take" THEN "THINKING" ELSE "DRIVING"
    BY <1>1, <2>1 DEF Turns
  <2>3. Seats(table, states, pc', main)
    <3>1. at \in {"thinking", "take", "turn", "leave"} /\ pc[i] \notin {"none", "turn"}
          /\ states[i] \in PhyloStates /\ states = [states EXCEPT ![i] = states[i]]
      BY <1>1, <1>2, <2>1
    <3>2. Seats(table, [states EXCEPT ![i] = states[i]], [pc EXCEPT ![i] = at], main)
      BY <1>0, <2>1, <2>2, <3>1, PhyloMoves
    <3>. QED BY <2>1, <3>1, <3>2 DEF goes
  <2>4. MayWait(pc', main, i, SEM_ID) /\ i \in Processes
    BY <1>1, <2>1, IdsLemma DEF MayWait, goes
  <2>5. Seats(table', states, pc', main)
    BY <2>1, <2>3, <2>4, TableLemma
  <2>6. at \in PhyloPcs /\ pc[i] # "none" /\ states' = states
    BY <2>1 DEF PhyloPcs
  <2>. QED BY <1>3, <2>1, <2>5, <2>6
<1>7. CASE TakePedals(i)
  <2>. DEFINE r == take_pedals(i)
  <2>1. pc[i] = "take" /\ i \notin table.asleep /\ goes("turn")
        /\ UNCHANGED <<count, main, keys>>
        /\ states' = r.states /\ table' = post(r.table, SEM_ID)
    BY <1>4, <1>7 DEF TakePedals, AtTable
  <2>2. count \in 1 .. MAX_PHY
    BY <2>1, CountLemma
  <2>3. /\ Seats(r.table, r.states, pc', main)
        /\ Exclusive(states, count) /\ i < count => Exclusive(r.states, count)
    BY <1>0, <2>1, <2>2, TakePedalsLemma DEF goes
  <2>. HIDE DEF r
  <2>4. Seats(table', states', pc', main)
    BY <2>1, <2>3, PostLemma, IdsLemma
  <2>5. "turn" \in PhyloPcs
    BY DEF PhyloPcs
  <2>. QED BY <1>3, <2>1, <2>3, <2>4, <2>5
<1>8. CASE AwaitTurn(i)
  <2>1. pc[i] = "turn" /\ i \notin table.asleep /\ goes("driving")
        /\ UNCHANGED <<count, main, keys, states>>
        /\ table' = wait(table, SEM_PHYLO(i), i)
    BY <1>4, <1>8 DEF AwaitTurn
  <2>2. Seats(table', states, pc', main)
    BY <1>0, <2>1, AwaitLemma DEF goes
  <2>3. "driving" \in PhyloPcs /\ states' = states
    BY <2>1 DEF PhyloPcs
  <2>. QED BY <1>3, <2>1, <2>2, <2>3
<1>9. CASE LeavePedals(i)
  <2>. DEFINE r == leave_pedals(i)
  <2>1. pc[i] = "leave" /\ i \notin table.asleep /\ goes("thinking")
        /\ UNCHANGED <<count, main, keys>>
        /\ states' = r.states /\ table' = post(r.table, SEM_ID)
    BY <1>4, <1>9 DEF LeavePedals, AtTable
  <2>2. count \in 1 .. MAX_PHY
    BY <2>1, CountLemma
  <2>3. /\ Seats(r.table, r.states, pc', main)
        /\ Exclusive(states, count) /\ i < count => Exclusive(r.states, count)
    BY <1>0, <2>1, <2>2, LeavePedalsLemma DEF goes
  <2>. HIDE DEF r
  <2>4. Seats(table', states', pc', main)
    BY <2>1, <2>3, PostLemma, IdsLemma
  <2>5. "thinking" \in PhyloPcs
    BY DEF PhyloPcs
  <2>. QED BY <1>3, <2>1, <2>3, <2>4, <2>5
<1>. QED BY <1>5, <1>6, <1>7, <1>8, <1>9 DEF Philosopher

-----------------------------------------------------------------------------
(***************************************************************************)
(* The steps of phylo_main and of the input process.                       *)
(***************************************************************************)

LEMMA EntersStep ==
  ASSUME PhyloInv, MainEntersTable
  PROVE  PhyloInv'
<1>. DEFINE m == [main EXCEPT !.at = IF @ = "new" THEN "adding" ELSE "removing"]
<1>0. Seats(table, states, pc, main) /\ MainAt(main, count) /\ Seated(states, pc, main, count)
  BY DEF PhyloInv
<1>1. /\ main.at \in {"new", "remove"} /\ Main \notin table.asleep
      /\ table' = wait(table, SEM_ID, Main) /\ main' = m
      /\ UNCHANGED <<states, count, pc>>
  BY DEF MainEntersTable, At, Running
<1>2. /\ m.at = (IF main.at = "new" THEN "adding" ELSE "removing")
      /\ m.idx = main.idx /\ m.todo = main.todo
      /\ m = [at |-> m.at, idx |-> m.idx, todo |-> m.todo]
  <2>1. main = [at |-> main.at, idx |-> main.idx, todo |-> main.todo]
    BY <1>0 DEF MainAt
  <2>. QED BY ONLY <2>1
<1>. HIDE DEF m
<1>3. Seats(wait(table, SEM_ID, Main), states, pc, m)
  <2>1. Seats(table, states, pc, m)
    BY <1>0, <1>1, MainMoves
  <2>2. MayWait(pc, m, Main, SEM_ID) /\ Main \in Processes
    BY <1>1, <1>2, IdsLemma DEF MayWait
  <2>. QED BY <1>1, <2>1, <2>2, TableLemma
<1>4. MainAt(m, count) /\ Seated(states, pc, m, count)
  BY <1>0, <1>1, <1>2 DEF MainAt, Seated, Clearing
<1>. QED BY <1>1, <1>3, <1>4 DEF PhyloInv

\* What new_phylo leaves behind, whether it made a philosopher or not.
LEMMA AfterNewLemma ==
  ASSUME PhyloInv, main.at = "adding", NEW ok \in BOOLEAN, NEW n, NEW c, NEW st,
         n = IF ok THEN count + 1 ELSE count,
         st[count] # "DRIVING", Exclusive(states, count), st = states,
         \A i \in Phylos : c[i] # "none" => i < n
  PROVE  MainAt(AfterNew(ok), n) /\ Seated(st, c, AfterNew(ok), n)
<1>1. /\ main.idx = count /\ count \in Nat /\ count < MAX_PHY /\ main.todo \in Nat
      /\ IF main.todo = 0 THEN count >= MIN_PHY ELSE count + main.todo = MIN_PHY
  BY DEF PhyloInv, MainAt
<1>2. Exclusive(st, n)
  BY <1>1, JoinLemma
<1>3. CASE main.todo = 0
  <2>1. AfterNew(ok) = [at |-> "loop_remove", idx |-> 0, todo |-> 0]
    BY <1>3 DEF AfterNew, Step
  <2>. QED BY <1>1, <1>2, <1>3, <2>1, IdsLemma DEF MainAt, Seated, Clearing
<1>. DEFINE m == AfterNew(ok)
<1>4. CASE main.todo # 0 /\ ~ ok
  <2>1. m = [at |-> IF count = 0 THEN "done" ELSE "remove", idx |-> 0, todo |-> count]
    BY <1>1, <1>4 DEF AfterNew
  <2>2. /\ m.at = (IF count = 0 THEN "done" ELSE "remove") /\ m.idx = 0 /\ m.todo = count
        /\ m = [at |-> m.at, idx |-> m.idx, todo |-> m.todo]
    BY <2>1
  <2>. HIDE DEF m
  <2>3. MainAt(m, n)
    BY <1>1, <1>4, <2>2, IdsLemma DEF MainAt
  <2>4. Clearing(m)
    BY <1>1, <2>2 DEF Clearing
  <2>5. Seated(st, c, m, n)
    BY <1>1, <1>4, <2>2, <2>4 DEF Seated, Phylos
  <2>. QED BY <2>3, <2>5 DEF m
<1>5. CASE main.todo > 1 /\ ok
  <2>1. m = [at |-> "new", idx |-> count + 1, todo |-> main.todo - 1]
    BY <1>1, <1>5 DEF AfterNew
  <2>2. /\ m.at = "new" /\ m.idx = count + 1 /\ m.todo = main.todo - 1
        /\ m = [at |-> m.at, idx |-> m.idx, todo |-> m.todo]
    BY <2>1
  <2>. HIDE DEF m
  <2>3. MainAt(m, n)
    BY <1>1, <1>5, <2>2, IdsLemma DEF MainAt
  <2>4. Seated(st, c, m, n)
    BY <1>2, <2>2 DEF Seated, Clearing
  <2>. QED BY <2>3, <2>4 DEF m
<1>6. CASE main.todo = 1 /\ ok
  <2>1. m = [at |-> "loop_add", idx |-> 0, todo |-> 0]
    BY <1>1, <1>6 DEF AfterNew, Step
  <2>2. /\ m.at = "loop_add" /\ m.idx = 0 /\ m.todo = 0
        /\ m = [at |-> m.at, idx |-> m.idx, todo |-> m.todo]
    BY <2>1
  <2>. HIDE DEF m
  <2>3. MainAt(m, n)
    BY <1>1, <1>6, <2>2, IdsLemma DEF MainAt
  <2>4. Seated(st, c, m, n)
    BY <1>2, <2>2 DEF Seated, Clearing
  <2>. QED BY <2>3, <2>4 DEF m
<1>. QED BY <1>1, <1>3, <1>4, <1>5, <1>6

LEMMA AddingLemma ==
  ASSUME PhyloInv, main.at = "adding"
  PROVE  /\ main.idx = count /\ count \in Phylos /\ states[count] = "NONE" /\ pc[count] = "none"
         /\ Exclusive(states, count) /\ \A i \in Phylos : pc[i] # "none" => i < count
<1>1. main.idx = count /\ count \in Phylos
  BY IdsLemma DEF PhyloInv, MainAt, Phylos
<1>2. Exclusive(states, count) /\ \A i \in Phylos : pc[i] # "none" => i < count
  BY DEF PhyloInv, Seated, Clearing
<1>3. pc[count] = "none"
  BY <1>1, <1>2 DEF Phylos
<1>4. states[count] = "NONE"
  BY <1>1, <1>3 DEF PhyloInv, Seats, Turns
<1>. QED BY <1>1, <1>2, <1>3, <1>4

LEMMA NewFailsStep ==
  ASSUME PhyloInv, NewFails
  PROVE  PhyloInv'
<1>0. Seats(table, states, pc, main) /\ TableTypes(table)
  BY DEF PhyloInv, Seats
<1>1. /\ main.at = "adding" /\ Main \notin table.asleep
      /\ table' = [table EXCEPT !.stuck = TRUE]
      /\ main' = AfterNew(FALSE) /\ UNCHANGED <<states, count, pc>>
  BY DEF NewFails, At, Running, MainGoes
<1>2. /\ table'.sems = table.sems /\ table'.asleep = table.asleep
      /\ table' = [sems |-> table'.sems, asleep |-> table'.asleep, stuck |-> table'.stuck]
  BY ONLY <1>0, <1>1 DEF TableTypes
<1>3. Seats(table', states, pc, main)
  <2>1. /\ SEM_ID \in SemIds /\ table.sems[SEM_ID] \in Semaphores
        /\ table'.sems = [table.sems EXCEPT ![SEM_ID] = table.sems[SEM_ID]]
        /\ \A i \in Phylos : SEM_PHYLO(i) # SEM_ID
    BY <1>0, <1>2, IdsLemma DEF TableTypes
  <2>. QED BY <1>0, <1>2, <2>1, OtherLemma
<1>4. Seats(table', states, pc, main')
  BY <1>1, <1>2, <1>3, MainMoves
<1>5. MainAt(main', count) /\ Seated(states, pc, main', count)
  BY <1>1, AddingLemma, AfterNewLemma
<1>. QED BY <1>1, <1>4, <1>5 DEF PhyloInv

LEMMA NewPhyloStep ==
  ASSUME PhyloInv, NewPhylo
  PROVE  PhyloInv'
<1>0. Seats(table, states, pc, main)
  BY DEF PhyloInv
<1>1. /\ main.at = "adding" /\ Main \notin table.asleep
      /\ ~ table.sems[SEM_PHYLO(main.idx)].in_use /\ states' = states
  BY DEF NewPhylo, At, Running
<1>2. PICK ok \in BOOLEAN, early \in {FALSE, overslept} :
        /\ table' = post([table EXCEPT !.sems[SEM_PHYLO(main.idx)] = my_sem_create(@, 0),
                                       !.stuck = @ \/ (ok /\ early)], SEM_ID)
        /\ count' = IF ok THEN count + 1 ELSE count
        /\ pc' = IF ok THEN [pc EXCEPT ![main.idx] = "new"] ELSE pc
        /\ main' = AfterNew(ok)
  BY DEF NewPhylo, MainGoes
<1>3. /\ main.idx = count /\ count \in Phylos /\ states[count] = "NONE" /\ pc[count] = "none"
      /\ Exclusive(states, count) /\ \A i \in Phylos : pc[i] # "none" => i < count
  BY <1>1, AddingLemma
<1>. DEFINE at == IF ok THEN "new" ELSE "none"
            b == table.stuck \/ (ok /\ early)
            u == [table EXCEPT !.sems[SEM_PHYLO(count)] = my_sem_create(@, 0), !.stuck = b]
<1>4. pc' = [pc EXCEPT ![count] = at] /\ pc \in [Phylos -> PhyloPcs] /\ at \in {"none", "new"}
  BY <1>0, <1>2, <1>3 DEF Seats
<1>5. table' = post(u, SEM_ID)
  BY <1>2, <1>3
<1>. HIDE DEF at, b
<1>6. Seats(u, states, pc', main)
  BY <1>0, <1>1, <1>3, <1>4, CreateLemma
<1>7. Seats(table', states, pc', main')
  <2>. HIDE DEF u
  <2>1. Seats(table', states, pc', main)
    BY <1>6, <1>5, PostLemma, IdsLemma
  <2>2. Main \notin table'.asleep
    <3>1. u.asleep = table.asleep
      BY <1>0 DEF u, Seats, TableTypes
    <3>2. table'.asleep = u.asleep \ {Woken(u, SEM_ID)}
      BY <1>6, <1>5, PostFields, IdsLemma DEF Seats
    <3>. QED BY <1>1, <3>1, <3>2
  <2>. QED BY <2>1, <2>2, MainMoves
<1>8. \A i \in Phylos : pc'[i] # "none" => i < count'
  BY <1>2, <1>3, <1>4 DEF at, Phylos
<1>9. MainAt(main', count') /\ Seated(states, pc', main', count')
  BY <1>1, <1>2, <1>3, <1>8, AfterNewLemma
<1>. QED BY <1>1, <1>7, <1>9 DEF PhyloInv

\* phylo_main goes on, and nothing else changes but the table.
LEMMA MainAlone ==
  ASSUME PhyloInv, Main \notin table.asleep, UNCHANGED <<states, count, pc>>,
         Seats(table', states, pc, main'), MainAt(main', count),
         Clearing(main') <=> Clearing(main), main'.idx = main.idx
  PROVE  PhyloInv'
<1>1. Seated(states, pc, main', count)
  BY DEF PhyloInv, Seated
<1>. QED BY <1>1 DEF PhyloInv

LEMMA RemoveWaitsStep ==
  ASSUME PhyloInv, RemoveWaits \/ StealTurn
  PROVE  PhyloInv'
<1>0. Seats(table, states, pc, main) /\ MainAt(main, count)
  BY DEF PhyloInv
<1>1. /\ main.at \in {"removing", "steal"} /\ Main \notin table.asleep
      /\ UNCHANGED <<states, count, pc>>
  BY DEF RemoveWaits, StealTurn, At, Running
<1>2. ASSUME NEW at \in {"steal", "remove"}
      PROVE  LET l == [main EXCEPT !.at = at]
             IN /\ l.at = at /\ l.idx = main.idx /\ l.idx \in Phylos /\ MainAt(l, count)
                /\ Clearing(l) <=> Clearing(main)
  <2>. DEFINE l == [main EXCEPT !.at = at]
  <2>1. main = [at |-> main.at, idx |-> main.idx, todo |-> main.todo]
    BY <1>0 DEF MainAt
  <2>2. /\ l.at = at /\ l.idx = main.idx /\ l.todo = main.todo
        /\ l = [at |-> l.at, idx |-> l.idx, todo |-> l.todo]
    BY ONLY <2>1
  <2>. HIDE DEF l
  <2>3. MainAt(l, count) /\ (Clearing(l) <=> Clearing(main))
    BY <1>0, <1>1, <1>2, <2>2 DEF MainAt, Clearing
  <2>4. main.idx \in Phylos
    BY <1>0, <1>1, IdsLemma DEF MainAt, Phylos
  <2>. QED BY <2>2, <2>3, <2>4 DEF l
<1>3. CASE RemoveWaits
  <2>. DEFINE l == [main EXCEPT !.at = "steal"]
  <2>1. table' = post(table, SEM_ID) /\ main' = l
    BY <1>3 DEF RemoveWaits, MainGoes
  <2>2. l.idx = main.idx /\ MainAt(l, count) /\ (Clearing(l) <=> Clearing(main))
    BY <1>2
  <2>. HIDE DEF l
  <2>3. Seats(table, states, pc, l)
    BY <1>0, <1>1, MainMoves
  <2>4. Seats(table', states, pc, l)
    BY <2>1, <2>3, PostLemma, IdsLemma
  <2>. QED BY <1>1, <2>1, <2>2, <2>4, MainAlone
<1>4. CASE StealTurn
  <2>. DEFINE l == [main EXCEPT !.at = "remove"]
  <2>1. table' = wait(table, SEM_PHYLO(main.idx), Main) /\ main' = l
    BY <1>4 DEF StealTurn, MainGoes
  <2>2. /\ l.at = "remove" /\ l.idx = main.idx /\ l.idx \in Phylos /\ MainAt(l, count)
        /\ Clearing(l) <=> Clearing(main)
    BY <1>2
  <2>. HIDE DEF l
  <2>3. Seats(table, states, pc, l)
    BY <1>0, <1>1, MainMoves
  <2>4. Seats(table', states, pc, l)
    BY <1>1, <2>1, <2>2, <2>3, StealLemma
  <2>. QED BY <1>1, <2>1, <2>2, <2>4, MainAlone
<1>. QED BY <1>3, <1>4

\* What is left after remove_phylo(idx).
LEMMA AfterRemoveLemma ==
  ASSUME PhyloInv, main.at = "removing", ~ BothDrive(main.idx)
  PROVE  LET i == main.idx
         IN /\ i \in Phylos /\ count \in 1 .. MAX_PHY
            /\ MainAt(AfterRemove, count - 1)
            /\ Seated([states EXCEPT ![i] = "NONE"], [pc EXCEPT ![i] = "none"],
                      AfterRemove, count - 1)
<1>. DEFINE i == main.idx
            m == AfterRemove
            d == [pc EXCEPT ![i] = "none"]
            ns == [states EXCEPT ![i] = "NONE"]
<1>1. /\ i \in Nat /\ count \in 0 .. MAX_PHY /\ main.todo \in Nat
      /\ IF main.todo = 0 THEN count > MIN_PHY /\ i = count - 1
                          ELSE count = main.todo /\ i + main.todo <= MAX_PHY
  BY DEF PhyloInv, MainAt
<1>2. i \in Phylos /\ count \in 1 .. MAX_PHY
  BY <1>1, IdsLemma DEF Phylos
<1>3. /\ states \in [Phylos -> PhyloStates] /\ pc \in [Phylos -> PhyloPcs]
      /\ Seated(states, pc, main, count)
  BY DEF PhyloInv, Seats
<1>4. d[i] = "none" /\ \A j \in Phylos \ {i} : d[j] = pc[j]
  BY <1>2, <1>3
<1>5. CASE main.todo = 0
  <2>1. m = [at |-> "loop_quit", idx |-> 0, todo |-> 0]
    BY <1>5 DEF AfterRemove, Step
  <2>2. /\ m.at = "loop_quit" /\ m.idx = 0 /\ m.todo = 0
        /\ m = [at |-> m.at, idx |-> m.idx, todo |-> m.todo]
    BY <2>1
  <2>3. Exclusive(states, count) /\ \A j \in Phylos : pc[j] # "none" => j < count
    BY <1>3, <1>5 DEF Seated, Clearing, PhyloInv
  <2>4. LEFT_PHYLO(i) = prev(i, count) /\ RIGHT_PHYLO(i) = next(i, count)
    <3>1. count \in Nat \ {0} /\ i \in 0 .. count - 1
      BY <1>1, <1>2, <1>5, IdsLemma
    <3>. QED BY <3>1, NeighbourLemma DEF LEFT_PHYLO, RIGHT_PHYLO
  <2>5. Exclusive(ns, count - 1)
    <3>1. count \in Nat /\ count >= 2 /\ i = count - 1 /\ 0 .. count - 1 \subseteq DOMAIN states
      BY <1>1, <1>3, <1>5, IdsLemma DEF Phylos
    <3>2. ~ (states[prev(count - 1, count)] = "DRIVING"
             /\ states[next(count - 1, count)] = "DRIVING")
      BY <2>4, <3>1 DEF BothDrive
    <3>. QED BY <2>3, <3>1, <3>2, LeaveLemma
  <2>. HIDE DEF m, d, ns
  <2>6. MainAt(m, count - 1)
    BY <1>1, <1>2, <1>5, <2>2, IdsLemma DEF MainAt
  <2>7. \A j \in Phylos : d[j] # "none" => j < count - 1
    BY <1>1, <1>4, <1>5, <2>3, IdsLemma DEF Phylos
  <2>8. Seated(ns, d, m, count - 1)
    BY <2>2, <2>5, <2>7 DEF Seated, Clearing
  <2>. QED BY <1>2, <2>6, <2>8 DEF m, d, ns
<1>6. CASE main.todo # 0
  <2>1. \A j \in Phylos : pc[j] # "none" => i <= j /\ j < i + count
    BY <1>1, <1>3, <1>6 DEF Seated, Clearing
  <2>2. \A j \in Phylos : d[j] # "none" => i + 1 <= j /\ j < (i + 1) + (count - 1)
    <3>. HIDE DEF d
    <3>. QED BY <1>1, <1>4, <2>1, IdsLemma DEF Phylos
  <2>3. CASE main.todo = 1
    <3>1. m = [at |-> IF keys.quit THEN "end" ELSE "done", idx |-> 0, todo |-> 0]
      BY <2>3 DEF AfterRemove, Step
    <3>2. /\ m.at \in {"end", "done"} /\ m.idx = 0 /\ m.todo = 0
          /\ m = [at |-> m.at, idx |-> m.idx, todo |-> m.todo]
      BY <3>1
    <3>3. \A j \in Phylos : d[j] = "none"
      <4>. HIDE DEF d
      <4>. QED BY <1>1, <2>2, <2>3, IdsLemma DEF Phylos
    <3>. HIDE DEF m, d, ns
    <3>4. MainAt(m, count - 1)
      BY <1>1, <2>3, <3>2, IdsLemma DEF MainAt
    <3>5. Seated(ns, d, m, count - 1)
      BY <3>2, <3>3 DEF Seated, Clearing
    <3>. QED BY <1>2, <3>4, <3>5 DEF m, d, ns
  <2>4. CASE main.todo > 1
    <3>1. m = [at |-> "remove", idx |-> i + 1, todo |-> main.todo - 1]
      BY <1>1, <2>4 DEF AfterRemove
    <3>2. /\ m.at = "remove" /\ m.idx = i + 1 /\ m.todo = main.todo - 1
          /\ m = [at |-> m.at, idx |-> m.idx, todo |-> m.todo]
      BY <3>1
    <3>. HIDE DEF m, d, ns
    <3>3. MainAt(m, count - 1)
      BY <1>1, <2>4, <3>2, IdsLemma DEF MainAt
    <3>4. Clearing(m)
      BY <1>1, <2>4, <3>2 DEF Clearing
    <3>5. Seated(ns, d, m, count - 1)
      BY <2>2, <3>2, <3>4 DEF Seated
    <3>. QED BY <1>2, <3>3, <3>5 DEF m, d, ns
  <2>. QED BY <1>1, <1>6, <2>3, <2>4
<1>. QED BY <1>5, <1>6

LEMMA RemovePhyloStep ==
  ASSUME PhyloInv, RemovePhylo
  PROVE  PhyloInv'
<1>. DEFINE i == main.idx
            u == [buried(table, i) EXCEPT !.sems[SEM_PHYLO(i)] = my_sem_destroy(@)]
            ns == [states EXCEPT ![i] = "NONE"]
            d == [pc EXCEPT ![i] = "none"]
<1>0. Seats(table, states, pc, main) /\ TableTypes(table)
  BY DEF PhyloInv, Seats
<1>1. /\ main.at = "removing" /\ Main \notin table.asleep /\ ~ BothDrive(i)
      /\ table' = post(u, SEM_ID) /\ states' = ns /\ count' = count - 1 /\ pc' = d
      /\ main' = AfterRemove
  BY DEF RemovePhylo, Kills, At, Running
<1>2. i \in Phylos /\ MainAt(AfterRemove, count - 1) /\ Seated(ns, d, AfterRemove, count - 1)
  BY <1>1, AfterRemoveLemma
<1>3. Seats(u, ns, d, main)
  BY <1>0, <1>2, BuryLemma
<1>4. u.asleep = table.asleep \ {i}
  BY ONLY <1>0, <1>2, BuriedFields
<1>. HIDE DEF u, ns, d, i
<1>5. Seats(u, ns, d, AfterRemove)
  BY <1>1, <1>3, <1>4, MainMoves
<1>6. Seats(table', ns, d, AfterRemove)
  BY <1>1, <1>5, PostLemma, IdsLemma
<1>. QED BY <1>1, <1>2, <1>6 DEF PhyloInv

\* my_sem_trywait in the loop.
LEMMA TryLemma ==
  ASSUME PhyloInv, NEW here \in {"loop_add", "loop_remove", "loop_quit"},
         NEW id \in {SEM_ADD, SEM_REMOVE, SEM_QUIT}, NEW then, NEW else, Try(here, id, then, else)
  PROVE  /\ \A m : Seats(table', states, pc, m)
         /\ UNCHANGED <<states, count, pc>> /\ main' \in {then, else}
         /\ Exclusive(states, count) /\ \A i \in Phylos : pc[i] # "none" => i < count
         /\ count \in MIN_PHY .. MAX_PHY
<1>0. Seats(table, states, pc, main) /\ TableTypes(table)
  BY DEF PhyloInv, Seats
<1>1. /\ main.at = here /\ Main \notin table.asleep /\ UNCHANGED <<states, count, pc>>
      /\ main' \in {then, else}
      /\ \/ table' = table
         \/ /\ table.sems[id].value > 0
            /\ table' = [table EXCEPT !.sems[id].value = table.sems[id].value - 1]
  BY DEF Try, At, Running
<1>2. /\ count \in MIN_PHY .. MAX_PHY
      /\ Exclusive(states, count) /\ \A i \in Phylos : pc[i] # "none" => i < count
  <2>1. main.at \in {"loop_add", "loop_remove", "loop_quit"}
    BY <1>1
  <2>2. count \in MIN_PHY .. MAX_PHY
    BY <2>1, IdsLemma DEF PhyloInv, MainAt
  <2>3. ~ Clearing(main)
    BY <2>1 DEF Clearing
  <2>. QED BY <2>2, <2>3 DEF PhyloInv, Seated
<1>3. ASSUME NEW m PROVE Seats(table', states, pc, m)
  <2>1. Seats(table, states, pc, m)
    BY <1>0, <1>1, MainMoves
  <2>2. CASE table.sems[id].value > 0
             /\ table' = [table EXCEPT !.sems[id].value = table.sems[id].value - 1]
    <3>. DEFINE s == table.sems[id]
                v == [s EXCEPT !.value = s.value - 1]
                e == [table.sems EXCEPT ![id] = v]
    <3>1. id \in SemIds /\ \A i \in Phylos : SEM_PHYLO(i) # id
      BY IdsLemma
    <3>2. s \in Semaphores
      BY <1>0, <3>1 DEF TableTypes
    <3>3. v \in Semaphores /\ v.waiting = s.waiting
      <4>. HIDE DEF s
      <4>1. s.value > 0
        BY <2>2 DEF s
      <4>. QED BY <3>2, <4>1 DEF Semaphores
    <3>4. table' = [table EXCEPT !.sems = e]
      BY <1>0, <2>2 DEF TableTypes
    <3>5. /\ table'.sems = e /\ table'.asleep = table.asleep
          /\ table' = [sems |-> table'.sems, asleep |-> table'.asleep, stuck |-> table'.stuck]
      <4>. HIDE DEF e
      <4>. QED BY ONLY <1>0, <3>4 DEF TableTypes
    <3>. HIDE DEF v
    <3>. QED BY <2>1, <3>1, <3>3, <3>5, OtherLemma DEF e, s
  <2>. QED BY <1>1, <2>1, <2>2
<1>. QED BY <1>1, <1>2, <1>3

LEMMA TryStep ==
  ASSUME PhyloInv, TryAdd \/ TryRemove \/ TryQuit
  PROVE  PhyloInv'
<1>1. ASSUME NEW m, main' = m, Seats(table', states, pc, m), UNCHANGED <<states, count, pc>>,
             MainAt(m, count), Seated(states, pc, m, count)
      PROVE  PhyloInv'
  BY <1>1 DEF PhyloInv
<1>. DEFINE calm == /\ Exclusive(states, count)
                    /\ \A i \in Phylos : pc[i] # "none" => i < count
                    /\ count \in MIN_PHY .. MAX_PHY
<1>2. ASSUME NEW here \in {"loop_add", "loop_remove", "loop_quit"}, calm
      PROVE  MainAt(Step(here), count) /\ Seated(states, pc, Step(here), count)
  <2>. DEFINE m == Step(here)
  <2>1. /\ m.at = here /\ m.idx = 0 /\ m.todo = 0
        /\ m = [at |-> m.at, idx |-> m.idx, todo |-> m.todo]
    BY DEF Step
  <2>. HIDE DEF m
  <2>2. MainAt(m, count)
    BY <1>2, <2>1, IdsLemma DEF MainAt
  <2>3. Seated(states, pc, m, count)
    BY <1>2, <2>1 DEF Seated, Clearing
  <2>. QED BY <2>2, <2>3 DEF m
<1>3. CASE TryAdd
  <2>. DEFINE m == [at |-> "new", idx |-> count, todo |-> 0]
  <2>1. /\ \A l : Seats(table', states, pc, l)
        /\ UNCHANGED <<states, count, pc>> /\ calm
        /\ main' \in {IF count < MAX_PHY THEN m ELSE Step("loop_remove"), Step("loop_remove")}
    BY <1>3, TryLemma DEF TryAdd
  <2>2. CASE count < MAX_PHY /\ main' = m
    <3>1. /\ m.at = "new" /\ m.idx = count /\ m.todo = 0
          /\ m = [at |-> m.at, idx |-> m.idx, todo |-> m.todo]
      OBVIOUS
    <3>. HIDE DEF m
    <3>2. MainAt(m, count) /\ Seated(states, pc, m, count)
      BY <2>1, <2>2, <3>1, IdsLemma DEF MainAt, Seated, Clearing
    <3>. QED BY <1>1, <2>1, <2>2, <3>2
  <2>3. CASE main' = Step("loop_remove")
    <3>1. MainAt(main', count) /\ Seated(states, pc, main', count)
      BY <1>2, <2>1, <2>3
    <3>. QED BY <1>1, <2>1, <3>1
  <2>. QED BY <2>1, <2>2, <2>3
<1>4. CASE TryRemove
  <2>. DEFINE m == [at |-> "remove", idx |-> count - 1, todo |-> 0]
  <2>1. /\ \A l : Seats(table', states, pc, l)
        /\ UNCHANGED <<states, count, pc>> /\ calm
        /\ main' \in {IF count > MIN_PHY THEN m ELSE Step("loop_quit"), Step("loop_quit")}
    BY <1>4, TryLemma DEF TryRemove
  <2>2. CASE count > MIN_PHY /\ main' = m
    <3>1. /\ m.at = "remove" /\ m.idx = count - 1 /\ m.todo = 0
          /\ m = [at |-> m.at, idx |-> m.idx, todo |-> m.todo]
      OBVIOUS
    <3>. HIDE DEF m
    <3>2. MainAt(m, count) /\ Seated(states, pc, m, count)
      BY <2>1, <2>2, <3>1, IdsLemma DEF MainAt, Seated, Clearing
    <3>. QED BY <1>1, <2>1, <2>2, <3>2
  <2>3. CASE main' = Step("loop_quit")
    <3>1. MainAt(main', count) /\ Seated(states, pc, main', count)
      BY <1>2, <2>1, <2>3
    <3>. QED BY <1>1, <2>1, <3>1
  <2>. QED BY <2>1, <2>2, <2>3
<1>5. CASE TryQuit
  <2>. DEFINE m == [at |-> "remove", idx |-> 0, todo |-> count]
  <2>1. /\ \A l : Seats(table', states, pc, l)
        /\ UNCHANGED <<states, count, pc>> /\ calm /\ main' \in {m, Step("loop_add")}
    BY <1>5, TryLemma DEF TryQuit
  <2>2. CASE main' = m
    <3>1. /\ m.at = "remove" /\ m.idx = 0 /\ m.todo = count
          /\ m = [at |-> m.at, idx |-> m.idx, todo |-> m.todo]
      OBVIOUS
    <3>. HIDE DEF m
    <3>2. MainAt(m, count) /\ Seated(states, pc, m, count)
      BY <2>1, <2>2, <3>1, IdsLemma DEF MainAt, Seated, Clearing, Phylos
    <3>. QED BY <1>1, <2>1, <2>2, <3>2
  <2>3. CASE main' = Step("loop_add")
    <3>1. MainAt(main', count) /\ Seated(states, pc, main', count)
      BY <1>2, <2>1, <2>3
    <3>. QED BY <1>1, <2>1, <3>1
  <2>. QED BY <2>1, <2>2, <2>3
<1>. QED BY <1>3, <1>4, <1>5

LEMMA FinishStep ==
  ASSUME PhyloInv, Finish
  PROVE  PhyloInv'
<1>. DEFINE s == table.sems[SEM_ID]
            v == my_sem_destroy(s)
            e == [table.sems EXCEPT ![SEM_ID] = v]
<1>0. Seats(table, states, pc, main) /\ TableTypes(table) /\ MainAt(main, count)
  BY DEF PhyloInv, Seats
<1>1. /\ main.at = "end" /\ Main \notin table.asleep /\ UNCHANGED <<states, count, pc>>
      /\ table' = [table EXCEPT !.sems[SEM_ID] = v] /\ main' = Step("done")
  BY DEF Finish, At, Running, MainGoes
<1>2. SEM_ID \in SemIds /\ \A i \in Phylos : SEM_PHYLO(i) # SEM_ID
  BY IdsLemma
<1>3. v \in Semaphores /\ v.waiting = << >>
  <2>. DEFINE unused == [s EXCEPT !.in_use = FALSE]
  <2>1. v = [unused EXCEPT !.waiting = << >>]
    BY DEF my_sem_destroy
  <2>2. s \in Semaphores
    BY <1>0, <1>2 DEF TableTypes
  <2>3. unused \in Semaphores
    <3>. HIDE DEF s
    <3>. QED BY <2>2 DEF Semaphores
  <2>4. << >> \in Seq(Waiters)
    OBVIOUS
  <2>. HIDE DEF unused, v
  <2>. QED BY ONLY <2>1, <2>3, <2>4 DEF Semaphores
<1>4. /\ table'.sems = e /\ table'.asleep = table.asleep
      /\ table' = [sems |-> table'.sems, asleep |-> table'.asleep, stuck |-> table'.stuck]
  <2>. HIDE DEF v
  <2>1. table' = [table EXCEPT !.sems = e]
    BY <1>0, <1>1 DEF TableTypes
  <2>. HIDE DEF e
  <2>. QED BY ONLY <1>0, <2>1 DEF TableTypes
<1>. HIDE DEF v
<1>5. Seats(table', states, pc, main')
  <2>1. Seats(table', states, pc, main)
    BY <1>0, <1>2, <1>3, <1>4, OtherLemma DEF e
  <2>. QED BY <1>1, <1>4, <2>1, MainMoves
<1>6. count = 0
  BY <1>0, <1>1 DEF MainAt
<1>7. \A i \in Phylos : pc[i] = "none"
  BY <1>1, <1>6, CountLemma
<1>8. MainAt(main', count) /\ Seated(states, pc, main', count)
  <2>1. /\ main'.at = "done" /\ main'.idx = 0 /\ main'.todo = 0
        /\ main' = [at |-> main'.at, idx |-> main'.idx, todo |-> main'.todo]
    BY <1>1 DEF Step
  <2>. QED BY <1>6, <1>7, <2>1, IdsLemma DEF MainAt, Seated, Clearing
<1>. QED BY <1>1, <1>5, <1>8 DEF PhyloInv

LEMMA KeyStep ==
  ASSUME PhyloInv, Key
  PROVE  PhyloInv'
<1>1. PICK id \in {SEM_ADD, SEM_REMOVE, SEM_QUIT} : table' = post(table, id)
  BY PhyloAssumption DEF Key
<1>2. UNCHANGED <<states, count, pc, main>>
  BY DEF Key
<1>3. Seats(table', states, pc, main)
  BY <1>1, PostLemma, IdsLemma DEF PhyloInv
<1>. QED BY <1>2, <1>3 DEF PhyloInv

-----------------------------------------------------------------------------
(***************************************************************************)
(* The theorems.                                                           *)
(***************************************************************************)

LEMMA PhyloStart == PhyloInit => PhyloInv
<1>. SUFFICES ASSUME PhyloInit PROVE PhyloInv
  OBVIOUS
<1>. DEFINE e == [id \in SemIds |->
                    CASE id = SEM_ID -> my_sem_create(Closed, 1)
                      [] id > MAX_PHY -> my_sem_create(Closed, 0)
                      [] OTHER -> Closed]
<1>1. /\ table = [sems |-> e, asleep |-> {}, stuck |-> FALSE]
      /\ states = [i \in Phylos |-> "NONE"] /\ count = 0 /\ pc = [i \in Phylos |-> "none"]
      /\ main = [at |-> "new", idx |-> 0, todo |-> MIN_PHY]
  BY DEF PhyloInit
<1>2. ASSUME NEW id \in SemIds
      PROVE  /\ e[id] \in Semaphores /\ e[id].waiting = << >>
             /\ \A i \in Phylos : id = SEM_PHYLO(i) => ~ e[id].in_use
  <2>1. << >> \in Seq(Waiters)
    OBVIOUS
  <2>2. e[id] = IF id = SEM_ID THEN [in_use |-> TRUE, value |-> 1, waiting |-> << >>]
                ELSE IF id > MAX_PHY THEN [in_use |-> TRUE, value |-> 0, waiting |-> << >>]
                ELSE [in_use |-> FALSE, value |-> 0, waiting |-> << >>]
    <3>1. /\ my_sem_create(Closed, 1) = [in_use |-> TRUE, value |-> 1, waiting |-> << >>]
          /\ my_sem_create(Closed, 0) = [in_use |-> TRUE, value |-> 0, waiting |-> << >>]
      BY DEF my_sem_create, Closed
    <3>2. ~ (SEM_ID > MAX_PHY)
      BY IdsLemma DEF SEM_ID
    <3>3. e[id] = CASE id = SEM_ID -> my_sem_create(Closed, 1)
                    [] id > MAX_PHY -> my_sem_create(Closed, 0)
                    [] OTHER -> Closed
      BY Zenon
    <3>. HIDE DEF e
    <3>. QED BY <3>1, <3>2, <3>3 DEF Closed
  <2>3. \A i \in Phylos : ~ (SEM_PHYLO(i) > MAX_PHY) /\ SEM_PHYLO(i) # SEM_ID
    BY IdsLemma DEF SEM_PHYLO, Phylos, SEM_ID
  <2>. HIDE DEF e
  <2>. QED BY <2>1, <2>2, <2>3 DEF Semaphores
<1>3. table.sems = e /\ table.asleep = {}
      /\ table = [sems |-> table.sems, asleep |-> table.asleep, stuck |-> table.stuck]
  BY <1>1
<1>4. e \in [SemIds -> Semaphores]
  BY <1>2
<1>. HIDE DEF e
<1>5. TableTypes(table)
  BY <1>3, <1>4 DEF TableTypes
<1>6. Queued(table, pc, main)
  BY <1>2, <1>3 DEF Queued
<1>7. Turns(table, states, pc)
  <2>1. \A i \in Phylos : ~ table.sems[SEM_PHYLO(i)].in_use /\ pc[i] = "none" /\ states[i] = "NONE"
    BY <1>1, <1>2, <1>3, IdsLemma
  <2>. QED BY <2>1 DEF Turns
<1>8. states \in [Phylos -> PhyloStates] /\ pc \in [Phylos -> PhyloPcs]
  BY <1>1 DEF PhyloStates, PhyloPcs
<1>9. /\ main.at = "new" /\ main.idx = 0 /\ main.todo = MIN_PHY
      /\ main = [at |-> main.at, idx |-> main.idx, todo |-> main.todo]
  BY <1>1
<1>10. MainAt(main, count)
  BY <1>1, <1>9, IdsLemma DEF MainAt
<1>11. Seated(states, pc, main, count)
  BY <1>1, <1>9 DEF Seated, Clearing, Exclusive
<1>. QED BY <1>5, <1>6, <1>7, <1>8, <1>10, <1>11 DEF PhyloInv, Seats

LEMMA PhyloNextLemma == PhyloInv /\ [PhyloNext]_phyloVars => PhyloInv'
<1>. SUFFICES ASSUME PhyloInv, [PhyloNext]_phyloVars PROVE PhyloInv'
  OBVIOUS
<1>1. CASE MainStep
  BY <1>1, EntersStep, NewFailsStep, NewPhyloStep, RemoveWaitsStep, RemovePhyloStep, TryStep,
     FinishStep DEF MainStep
<1>2. CASE Key
  BY <1>2, KeyStep
<1>3. CASE \E i \in Phylos : Philosopher(i)
  BY <1>3, PhilosopherStep
<1>4. CASE UNCHANGED phyloVars
  BY <1>4 DEF phyloVars, PhyloInv
<1>. QED BY <1>1, <1>2, <1>3, <1>4 DEF PhyloNext

\* As long as nobody runs who was removed (stuck), PhyloInv holds: phylo_states,
\* the place of each philosopher, the queues and values of the semaphores, and the
\* place of phylo_main fit together, also while philosophers join, leave and are
\* killed in the middle of take_pedals and leave_pedals.
THEOREM PhyloInvariance == PhyloSpec => [](~table.stuck => PhyloInv)
<1>1. PhyloInit => PhyloInv
  BY PhyloStart
<1>2. PhyloInv /\ [PhyloNext]_phyloVars => PhyloInv'
  BY PhyloNextLemma
<1>. QED BY <1>1, <1>2, PTL DEF PhyloSpec

\* Neighbours never eat together and nobody eats out of turn (take_pedals,
\* leave_pedals, new_phylo and remove_phylo of phylo.c), for every number of
\* philosophers, up to the post that makes a killed one READY (my_sem_post).
THEOREM NeighboursNeverMeet == PhyloSpec => []NeighboursExclusive
<1>1. (~table.stuck => PhyloInv) => NeighboursExclusive
  <2>. SUFFICES ASSUME PhyloInv, main.todo = 0, main.at # "done", NEW i \in 0 .. count - 1
                PROVE  /\ (states[i] = "DRIVING" /\ RIGHT_PHYLO(i) # i) =>
                            states[RIGHT_PHYLO(i)] # "DRIVING"
                       /\ (pc[i] = "driving" /\ Running(i)) => states[i] = "DRIVING"
    BY DEF NeighboursExclusive
  <2>1. count \in 1 .. MAX_PHY /\ count \in Nat \ {0} /\ i \in Phylos
    BY IdsLemma DEF PhyloInv, MainAt, Phylos
  <2>2. main.at # "end"
    <3>1. MainAt(main, count) /\ count # 0
      BY <2>1 DEF PhyloInv
    <3>. QED BY ONLY <3>1 DEF MainAt
  <2>3. Exclusive(states, count)
    BY <2>2 DEF PhyloInv, Seated, Clearing
  <2>4. RIGHT_PHYLO(i) = next(i, count)
    BY <2>1, NeighbourLemma DEF RIGHT_PHYLO
  <2>5. (pc[i] = "driving" /\ Running(i)) => states[i] = "DRIVING"
    BY <2>1 DEF PhyloInv, Seats, Turns, Running
  <2>. QED BY <2>3, <2>4, <2>5 DEF Exclusive
<1>. QED BY <1>1, PhyloInvariance, PTL
=============================================================================
