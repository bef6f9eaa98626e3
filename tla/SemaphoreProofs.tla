-------------------------- MODULE SemaphoreProofs ---------------------------
(***************************************************************************)
(* Proofs about module Semaphore, for every number of processes, every set *)
(* of semaphores and every initial value.  The hypothesis throughout is    *)
(* that no process is taken out of the queue of a semaphore by force:      *)
(* proc_kill, Ctrl-C and the unblock call all leave its pid behind, which  *)
(* the run semaphore_kill shows.  It also excludes sleepers, as            *)
(* KernelProofs does.                                                      *)
(***************************************************************************)
EXTENDS Semaphore, KernelProofs

-----------------------------------------------------------------------------
(***************************************************************************)
(* The inductive invariant.                                                *)
(***************************************************************************)

SemTypes ==
  /\ sems \in [Sems -> [in_use : BOOLEAN, value : Nat, waiting : Seq(Pids)]]
  /\ uses \in [Pids -> SUBSET Sems]

\* A process waits for one semaphore at a time.
OneQueue ==
  \A i, j \in Sems, p \in Pids :
    InQueue(sems[i].waiting, p) /\ InQueue(sems[j].waiting, p) => i = j

\* Nobody uses a semaphore that is closed.
ClosedUnused ==
  \A id \in Sems :
    ~ sems[id].in_use => sems[id].waiting = << >> /\ \A p \in Pids : id \notin uses[p]

\* Who has got a unit of the semaphore, also while it waits for another one.
Admitted(id) == {p \in Pids : id \in uses[p] /\ ~ InQueue(sems[id].waiting, p)}

UnitsBounded ==
  \A id \in Sems :
    sems[id].in_use => Cardinality(Admitted(id)) + sems[id].value <= SemValue

SemInv ==
  /\ Inv(k) /\ Family(k)
  /\ SemTypes /\ WaitersQueued /\ OneQueue /\ ClosedUnused /\ UnitsBounded

-----------------------------------------------------------------------------
(***************************************************************************)
(* Counting.                                                               *)
(***************************************************************************)

LEMMA PidsFinite ==
  ASSUME NEW S \in SUBSET Pids
  PROVE  IsFiniteSet(S) /\ Cardinality(S) \in Nat
<1>1. IsFiniteSet(Pids)
  <2>1. 0 \in Int /\ MAX_PROCESSES - 1 \in Int
    BY ConstantsAssumption
  <2>. QED BY <2>1, FS_Interval, ZenonT(30) DEF Pids
<1>2. IsFiniteSet(S)
  BY <1>1, FS_Subset
<1>. QED BY <1>2, FS_CardinalityType

\* A subset is not larger, one element more counts as one more.
LEMMA CountLemma ==
  ASSUME NEW S \in SUBSET Pids, NEW T \in SUBSET Pids
  PROVE  /\ T \subseteq S => Cardinality(T) <= Cardinality(S)
         /\ \A p \in Pids \ S : Cardinality(S \cup {p}) = Cardinality(S) + 1
         /\ \A p \in S : Cardinality(S \ {p}) = Cardinality(S) - 1
<1>1. IsFiniteSet(S) /\ Cardinality(S) \in Nat
  BY PidsFinite
<1>2. T \subseteq S => Cardinality(T) <= Cardinality(S)
  BY <1>1, FS_Subset
<1>3. ASSUME NEW p \in Pids \ S PROVE Cardinality(S \cup {p}) = Cardinality(S) + 1
  BY <1>1, <1>3, FS_AddElement
<1>4. ASSUME NEW p \in S PROVE Cardinality(S \ {p}) = Cardinality(S) - 1
  BY <1>1, <1>4, FS_RemoveElement
<1>. QED BY <1>2, <1>3, <1>4

-----------------------------------------------------------------------------
(***************************************************************************)
(* The invariant, call by call.                                            *)
(***************************************************************************)

Entries == [in_use : BOOLEAN, value : Nat, waiting : Seq(Pids)]

\* What the calls of semaphore.c do to an entry of the table.
LEMMA EntryLemma ==
  ASSUME NEW e \in Entries, NEW p \in Pids
  PROVE  /\ /\ sem_wait_table(e, p) \in Entries
            /\ sem_wait_table(e, p).in_use = e.in_use
            /\ sem_wait_table(e, p).value = IF e.value > 0 THEN e.value - 1 ELSE e.value
            /\ sem_wait_table(e, p).waiting =
                 IF e.value > 0 THEN e.waiting ELSE enqueue(e.waiting, p)
         /\ /\ sem_post_table(e) \in Entries
            /\ sem_post_table(e).in_use = e.in_use
            /\ sem_post_table(e).value =
                 IF e.waiting = << >> THEN e.value + 1 ELSE e.value
            /\ sem_post_table(e).waiting =
                 IF e.waiting = << >> THEN e.waiting ELSE dequeue(e.waiting)
         /\ my_sem_create(e, SemValue) = IF e.in_use THEN e
              ELSE [in_use |-> TRUE, value |-> SemValue, waiting |-> << >>]
         /\ /\ my_sem_destroy(e) \in Entries
            /\ my_sem_destroy(e).in_use = FALSE /\ my_sem_destroy(e).waiting = << >>
<1>. DEFINE taken == [e EXCEPT !.value = e.value - 1]
            queued == [e EXCEPT !.waiting = enqueue(e.waiting, p)]
            given == [e EXCEPT !.waiting = dequeue(e.waiting)]
            counted == [e EXCEPT !.value = e.value + 1]
<1>1. e.value \in Nat /\ e.waiting \in Seq(Pids) /\ e.in_use \in BOOLEAN
  BY DEF Entries
<1>2. enqueue(e.waiting, p) \in Seq(Pids) /\ e.value + 1 \in Nat
  BY <1>1 DEF enqueue
<1>3. queued \in Entries /\ counted \in Entries
  BY <1>1, <1>2 DEF Entries
<1>4. e.value > 0 => taken \in Entries
  BY <1>1 DEF Entries
<1>5. e.waiting # << >> => given \in Entries
  <2>1. e.waiting # << >> => dequeue(e.waiting) \in Seq(Pids)
    BY <1>1 DEF dequeue
  <2>. QED BY <1>1, <2>1 DEF Entries
<1>6. sem_wait_table(e, p) = IF e.value > 0 THEN taken ELSE queued
  BY DEF sem_wait_table
<1>7. sem_post_table(e) = IF e.waiting # << >> THEN given ELSE counted
  BY DEF sem_post_table
<1>8. /\ taken.in_use = e.in_use /\ taken.value = e.value - 1 /\ taken.waiting = e.waiting
      /\ queued.in_use = e.in_use /\ queued.value = e.value
      /\ queued.waiting = enqueue(e.waiting, p)
      /\ given.in_use = e.in_use /\ given.value = e.value
      /\ given.waiting = dequeue(e.waiting)
      /\ counted.in_use = e.in_use /\ counted.value = e.value + 1
      /\ counted.waiting = e.waiting
  BY DEF Entries
<1>9. /\ my_sem_destroy(e) \in Entries
      /\ my_sem_destroy(e).in_use = FALSE /\ my_sem_destroy(e).waiting = << >>
  <2>. DEFINE unused == [e EXCEPT !.in_use = FALSE]
  <2>1. my_sem_destroy(e) = [unused EXCEPT !.waiting = << >>]
    BY DEF my_sem_destroy
  <2>2. unused \in Entries /\ unused.in_use = FALSE
    BY <1>1 DEF Entries
  <2>3. << >> \in Seq(Pids)
    OBVIOUS
  <2>. HIDE DEF unused
  <2>. QED BY ONLY <2>1, <2>2, <2>3 DEF Entries
<1>10. my_sem_create(e, SemValue) = IF e.in_use THEN e
         ELSE [in_use |-> TRUE, value |-> SemValue, waiting |-> << >>]
  BY DEF my_sem_create
<1>. HIDE DEF taken, queued, given, counted
<1>11. /\ sem_wait_table(e, p) \in Entries
       /\ sem_wait_table(e, p).in_use = e.in_use
       /\ sem_wait_table(e, p).value = IF e.value > 0 THEN e.value - 1 ELSE e.value
       /\ sem_wait_table(e, p).waiting =
            IF e.value > 0 THEN e.waiting ELSE enqueue(e.waiting, p)
  BY <1>3, <1>4, <1>6, <1>8
<1>12. /\ sem_post_table(e) \in Entries
       /\ sem_post_table(e).in_use = e.in_use
       /\ sem_post_table(e).value = IF e.waiting = << >> THEN e.value + 1 ELSE e.value
       /\ sem_post_table(e).waiting =
            IF e.waiting = << >> THEN e.waiting ELSE dequeue(e.waiting)
  BY <1>3, <1>5, <1>7, <1>8
<1>. QED BY <1>9, <1>10, <1>11, <1>12

\* A step of the kernel.
LEMMA KernelStepLemma ==
  ASSUME Orderly, SemInv, KernelStep
  PROVE  SemInv' /\ SameWaits(k, k') /\ sems' = sems
<1>1. Next
  BY DEF KernelStep, SleepCall, Program, Orderly
<1>2. Inv(k') /\ Family(k') /\ SameWaits(k, k')
  <2>1. "ZOMBIE" \notin Killable /\ Inv(k) /\ Family(k) /\ [Next]_k
    BY <1>1 DEF SemInv, Orderly
  <2>. QED BY <2>1, NextLemma, FamilyNext, NextWaits
<1>3. /\ sems' = sems
      /\ uses' = [p \in Pids |-> IF k'.status[p] \in {"FREE", "ZOMBIE"} THEN {} ELSE uses[p]]
  BY DEF KernelStep, SemsUntouched
<1>4. SemTypes /\ WaitersQueued /\ OneQueue /\ ClosedUnused /\ UnitsBounded
  BY DEF SemInv
<1>5. \A p \in Pids : Waiting(p)' <=> Waiting(p)
  BY <1>2 DEF SameWaits, SameWait, OnResource, Resources, Waiting
<1>6. \A p \in Pids : /\ uses'[p] \subseteq uses[p]
                      /\ Waiting(p) => uses'[p] = uses[p]
  BY <1>3, <1>5 DEF Waiting
<1>7. SemTypes'
  BY <1>3, <1>4, <1>6 DEF SemTypes
<1>8. WaitersQueued'
  BY <1>3, <1>4, <1>5, <1>6 DEF WaitersQueued
<1>9. OneQueue' /\ ClosedUnused'
  BY <1>3, <1>4, <1>6 DEF OneQueue, ClosedUnused
<1>10. UnitsBounded'
  <2>. SUFFICES ASSUME NEW id \in Sems, sems[id].in_use
                PROVE  Cardinality(Admitted(id)') + sems[id].value <= SemValue
    BY <1>3 DEF UnitsBounded
  <2>1. Admitted(id)' \subseteq Admitted(id) /\ Admitted(id) \subseteq Pids
    BY <1>3, <1>6 DEF Admitted
  <2>2. Cardinality(Admitted(id)') <= Cardinality(Admitted(id))
    BY <2>1, CountLemma
  <2>3. Cardinality(Admitted(id)') \in Nat /\ Cardinality(Admitted(id)) \in Nat
    BY <2>1, PidsFinite
  <2>4. Cardinality(Admitted(id)) + sems[id].value <= SemValue /\ sems[id].value \in Nat
    BY <1>4 DEF UnitsBounded, SemTypes
  <2>. QED BY <2>2, <2>3, <2>4, SemaphoreAssumption
<1>. QED BY <1>2, <1>3, <1>7, <1>8, <1>9, <1>10 DEF SemInv

\* Only one entry of the table changes.
LEMMA OneEntry ==
  ASSUME SemTypes, NEW id \in Sems, NEW e \in Entries, sems' = [sems EXCEPT ![id] = e]
  PROVE  /\ \A j \in Sems : sems'[j] = IF j = id THEN e ELSE sems[j]
         /\ sems' \in [Sems -> [in_use : BOOLEAN, value : Nat, waiting : Seq(Pids)]]
BY DEF SemTypes, Entries

\* The running program, seen by the semaphores: it waits for none.
LEMMA CallerLemma ==
  ASSUME SemInv, NEW call, Caller(call)
  PROVE  /\ k.current \in Pids \ {0, 1} /\ k.status[k.current] = "RUNNING"
         /\ k.current \in Living(k) \ {0} /\ k.current # NULL
         /\ ~ Waiting(k.current)
         /\ \A j \in Sems : ~ InQueue(sems[j].waiting, k.current)
<1>1. k.current \in Pids \ {0, 1} /\ k.status[k.current] = "RUNNING" /\ k.current # NULL
  BY PidsLemma DEF SemInv, Inv, Core, Queues, Types, Caller, Program
<1>2. ~ Waiting(k.current)
  BY <1>1 DEF Waiting
<1>. QED BY <1>1, <1>2 DEF SemInv, WaitersQueued, Living

\* my_sem_create.
LEMMA CreateLemma ==
  ASSUME SemInv, NEW id \in Sems, k' = k, uses' = uses,
         sems' = [sems EXCEPT ![id] = my_sem_create(@, SemValue)]
  PROVE  SemInv'
<1>. DEFINE e == [in_use |-> TRUE, value |-> SemValue, waiting |-> << >>]
<1>1. /\ SemTypes /\ WaitersQueued /\ OneQueue /\ ClosedUnused /\ UnitsBounded
      /\ sems[id] \in Entries /\ sems \in [Sems -> Entries] /\ uses \in [Pids -> SUBSET Sems]
  BY DEF SemInv, SemTypes, Entries
<1>2. Inv(k)' /\ Family(k)' /\ \A p \in Pids : Waiting(p)' <=> Waiting(p)
  BY DEF SemInv, Waiting
<1>3. CASE sems[id].in_use
  <2>1. sems' = sems
    BY <1>1, <1>3 DEF my_sem_create
  <2>. QED BY <1>1, <1>2, <2>1, SMTT(30)
       DEF SemInv, SemTypes, WaitersQueued, OneQueue, ClosedUnused, UnitsBounded, Admitted
<1>4. CASE ~ sems[id].in_use
  <2>1. sems' = [sems EXCEPT ![id] = e]
    BY <1>1, <1>4 DEF my_sem_create
  <2>2. /\ e \in Entries /\ e.in_use /\ e.value = SemValue /\ e.waiting = << >>
    BY SemaphoreAssumption DEF Entries
  <2>. HIDE DEF e
  <2>3. /\ \A j \in Sems : sems'[j] = IF j = id THEN e ELSE sems[j]
        /\ sems' \in [Sems -> [in_use : BOOLEAN, value : Nat, waiting : Seq(Pids)]]
    BY <1>1, <2>1, <2>2, OneEntry
  <2>4. sems[id].waiting = << >> /\ \A p \in Pids : id \notin uses[p]
    BY <1>1, <1>4 DEF ClosedUnused
  <2>5. \A j \in Sems : sems'[j].waiting = sems[j].waiting
    BY <2>2, <2>3, <2>4
  <2>6. SemTypes' /\ WaitersQueued' /\ OneQueue'
    BY <1>1, <1>2, <2>3, <2>5 DEF SemTypes, WaitersQueued, OneQueue
  <2>7. ClosedUnused'
    BY <1>1, <2>2, <2>3 DEF ClosedUnused
  <2>8. UnitsBounded'
    <3>. SUFFICES ASSUME NEW j \in Sems, sems'[j].in_use
                  PROVE  Cardinality(Admitted(j)') + sems'[j].value <= SemValue
      BY DEF UnitsBounded
    <3>1. CASE j = id
      <4>1. Admitted(j)' = {}
        BY <2>4, <3>1 DEF Admitted
      <4>2. Cardinality({}) = 0
        BY FS_EmptySet
      <4>. QED BY <2>2, <2>3, <3>1, <4>1, <4>2, SemaphoreAssumption
    <3>2. CASE j # id
      <4>1. Admitted(j)' = Admitted(j) /\ sems'[j] = sems[j]
        BY <2>3, <3>2 DEF Admitted
      <4>. QED BY <1>1, <4>1 DEF UnitsBounded
    <3>. QED BY <3>1, <3>2
  <2>. QED BY <1>2, <2>6, <2>7, <2>8 DEF SemInv
<1>. QED BY <1>3, <1>4

\* my_sem_destroy, of a semaphore that nobody uses.
LEMMA CloseLemma ==
  ASSUME SemInv, NEW id \in Sems, k' = k, uses' = uses,
         \A p \in Pids : id \notin uses[p],
         sems' = [sems EXCEPT ![id] = my_sem_destroy(@)]
  PROVE  SemInv' /\ sems[id].waiting = << >>
<1>. DEFINE e == my_sem_destroy(sems[id])
<1>1. /\ SemTypes /\ WaitersQueued /\ OneQueue /\ ClosedUnused /\ UnitsBounded
      /\ sems[id] \in Entries /\ sems \in [Sems -> Entries] /\ uses \in [Pids -> SUBSET Sems]
  BY DEF SemInv, SemTypes, Entries
<1>2. Inv(k)' /\ Family(k)' /\ \A p \in Pids : Waiting(p)' <=> Waiting(p)
  BY DEF SemInv, Waiting
<1>3. sems' = [sems EXCEPT ![id] = e]
  BY <1>1
<1>4. /\ e \in Entries /\ ~ e.in_use /\ e.waiting = << >>
  BY <1>1, EntryLemma, PidsLemma
<1>. HIDE DEF e
<1>5. /\ \A j \in Sems : sems'[j] = IF j = id THEN e ELSE sems[j]
      /\ sems' \in [Sems -> [in_use : BOOLEAN, value : Nat, waiting : Seq(Pids)]]
  BY <1>1, <1>3, <1>4, OneEntry
<1>6. sems[id].waiting = << >>
  <2>. SUFFICES ASSUME sems[id].waiting # << >> PROVE FALSE
    OBVIOUS
  <2>1. sems[id].waiting \in Seq(Pids)
    BY <1>1 DEF Entries
  <2>2. sems[id].waiting[1] \in Pids /\ InQueue(sems[id].waiting, sems[id].waiting[1])
    BY <2>1 DEF InQueue
  <2>. QED BY <1>1, <2>2 DEF WaitersQueued
<1>7. \A j \in Sems : sems'[j].waiting = sems[j].waiting
  BY <1>4, <1>5, <1>6
<1>8. SemTypes' /\ WaitersQueued' /\ OneQueue'
  BY <1>1, <1>2, <1>5, <1>7 DEF SemTypes, WaitersQueued, OneQueue
<1>9. ClosedUnused'
  BY <1>1, <1>4, <1>5 DEF ClosedUnused
<1>10. UnitsBounded'
  <2>. SUFFICES ASSUME NEW j \in Sems, sems'[j].in_use
                PROVE  Cardinality(Admitted(j)') + sems'[j].value <= SemValue
    BY DEF UnitsBounded
  <2>1. Admitted(j)' = Admitted(j) /\ sems'[j] = sems[j]
    BY <1>4, <1>5 DEF Admitted
  <2>. QED BY <1>1, <2>1 DEF UnitsBounded
<1>. QED BY <1>2, <1>6, <1>8, <1>9, <1>10 DEF SemInv

\* my_sem_wait and my_sem_trywait when there is a unit left.
LEMMA TakeLemma ==
  ASSUME SemInv, NEW id \in Sems, sems[id].in_use, sems[id].value > 0,
         NEW call, Caller(call), id \notin uses[k.current], k' = k,
         sems' = [sems EXCEPT ![id].value = @ - 1],
         uses' = [uses EXCEPT ![k.current] = @ \cup {id}]
  PROVE  SemInv'
<1>. DEFINE c == k.current
            e == [sems[id] EXCEPT !.value = @ - 1]
<1>1. /\ SemTypes /\ WaitersQueued /\ OneQueue /\ ClosedUnused /\ UnitsBounded
      /\ sems[id] \in Entries /\ sems \in [Sems -> Entries] /\ uses \in [Pids -> SUBSET Sems]
  BY DEF SemInv, SemTypes, Entries
<1>2. Inv(k)' /\ Family(k)' /\ \A p \in Pids : Waiting(p)' <=> Waiting(p)
  BY DEF SemInv, Waiting
<1>3. c \in Pids /\ \A j \in Sems : ~ InQueue(sems[j].waiting, c)
  BY CallerLemma
<1>4. sems' = [sems EXCEPT ![id] = e]
  BY <1>1
<1>5. /\ e \in Entries /\ e.in_use /\ e.waiting = sems[id].waiting
      /\ e.value = sems[id].value - 1 /\ sems[id].value \in Nat
  BY <1>1 DEF Entries
<1>. HIDE DEF e
<1>6. /\ \A j \in Sems : sems'[j] = IF j = id THEN e ELSE sems[j]
      /\ sems' \in [Sems -> [in_use : BOOLEAN, value : Nat, waiting : Seq(Pids)]]
  BY <1>1, <1>4, <1>5, OneEntry
<1>7. \A j \in Sems : sems'[j].waiting = sems[j].waiting /\ sems'[j].in_use = sems[j].in_use
  BY <1>5, <1>6
<1>8. /\ uses' \in [Pids -> SUBSET Sems]
      /\ \A p \in Pids : uses'[p] = IF p = c THEN uses[p] \cup {id} ELSE uses[p]
  BY <1>1, <1>3
<1>9. SemTypes' /\ OneQueue'
  BY <1>1, <1>6, <1>7, <1>8 DEF SemTypes, OneQueue
<1>10. WaitersQueued'
  BY <1>1, <1>2, <1>7, <1>8 DEF WaitersQueued
<1>11. ClosedUnused'
  BY <1>1, <1>7, <1>8 DEF ClosedUnused
<1>12. UnitsBounded'
  <2>. SUFFICES ASSUME NEW j \in Sems, sems'[j].in_use
                PROVE  Cardinality(Admitted(j)') + sems'[j].value <= SemValue
    BY DEF UnitsBounded
  <2>0. Admitted(j) \in SUBSET Pids /\ Cardinality(Admitted(j)) \in Nat
    <3>1. Admitted(j) \in SUBSET Pids
      BY DEF Admitted
    <3>. QED BY <3>1, PidsFinite
  <2>1. CASE j = id
    <3>1. Admitted(j)' = Admitted(j) \cup {c} /\ c \notin Admitted(j)
      BY <1>3, <1>7, <1>8, <2>1 DEF Admitted
    <3>2. Cardinality(Admitted(j)') = Cardinality(Admitted(j)) + 1
      BY <1>3, <2>0, <3>1, CountLemma
    <3>3. Cardinality(Admitted(j)) + sems[j].value <= SemValue
      BY <1>1, <2>1 DEF UnitsBounded
    <3>. QED BY <1>5, <1>6, <2>0, <2>1, <3>2, <3>3, SemaphoreAssumption
  <2>2. CASE j # id
    <3>1. Admitted(j)' = Admitted(j) /\ sems'[j] = sems[j]
      BY <1>6, <1>8, <2>2 DEF Admitted
    <3>. QED BY <1>1, <3>1 DEF UnitsBounded
  <2>. QED BY <2>1, <2>2
<1>. QED BY <1>2, <1>9, <1>10, <1>11, <1>12 DEF SemInv

\* my_sem_wait when there is none: the process queues and blocks.
LEMMA QueueLemma ==
  ASSUME SemInv, NEW id \in Sems, sems[id].in_use, ~ sems[id].value > 0,
         NEW call, Caller(call), id \notin uses[k.current],
         k' = block(k, k.current, "SEMAPHORE", "resource"),
         sems' = [sems EXCEPT ![id] = sem_wait_table(@, k.current)],
         uses' = [uses EXCEPT ![k.current] = @ \cup {id}]
  PROVE  /\ SemInv' /\ sems[id].value = 0 /\ k.current \in Pids /\ ~ Waiting(k.current)
         /\ \A p \in Pids : Waiting(p)' <=> Waiting(p) \/ p = k.current
         /\ sems'[id].in_use /\ sems'[id].value = 0
<1>. DEFINE c == k.current
            e == sem_wait_table(sems[id], c)
<1>1. /\ SemTypes /\ WaitersQueued /\ OneQueue /\ ClosedUnused /\ UnitsBounded
      /\ sems[id] \in Entries /\ sems \in [Sems -> Entries] /\ uses \in [Pids -> SUBSET Sems]
      /\ Inv(k) /\ Family(k)
  BY DEF SemInv, SemTypes, Entries
<1>2. /\ c \in Pids \ {0} /\ c \in Living(k) \ {0} /\ c \in Pids /\ ~ Waiting(c)
      /\ \A j \in Sems : ~ InQueue(sems[j].waiting, c)
  BY CallerLemma
<1>3. /\ "SEMAPHORE" \in BlockReasons /\ "resource" \in WaitingOn
  BY DEF BlockReasons, WaitingOn
<1>. HIDE DEF c
<1>4. Inv(k') /\ Family(k')
  <2>1. k' = block(k, c, "SEMAPHORE", "resource")
    BY DEF c
  <2>. QED BY <1>1, <1>2, <1>3, <2>1, BlockLemma, FamilyBlock
<1>5. \A p \in Pids : Waiting(p)' <=> Waiting(p) \/ p = c
  <2>1. /\ k'.status[c] = "BLOCKED" /\ k'.block_reason[c] = "SEMAPHORE"
        /\ \A u \in Pids \ {c} : SameStatus(k, k', u)
    <3>1. k' = block(k, c, "SEMAPHORE", "resource")
      BY DEF c
    <3>. QED BY <1>1, <1>2, <1>3, <3>1, BlockFrame
  <2>. QED BY <2>1 DEF Waiting, SameStatus, Stopped
<1>6. sems' = [sems EXCEPT ![id] = e]
  BY <1>1 DEF c
<1>7. /\ e \in Entries /\ e.in_use /\ e.value = sems[id].value
      /\ e.waiting = enqueue(sems[id].waiting, c) /\ sems[id].value = 0
  <2>1. sems[id].value \in Nat
    BY <1>1 DEF Entries
  <2>2. /\ e \in Entries /\ e.in_use = sems[id].in_use
        /\ e.value = IF sems[id].value > 0 THEN sems[id].value - 1 ELSE sems[id].value
        /\ e.waiting = IF sems[id].value > 0 THEN sems[id].waiting
                       ELSE enqueue(sems[id].waiting, c)
    <3>1. sems[id] \in Entries /\ c \in Pids
      BY <1>1, <1>2
    <3>. QED BY ONLY <3>1, EntryLemma
  <2>. QED BY <2>1, <2>2
<1>. HIDE DEF e
<1>8. /\ \A j \in Sems : sems'[j] = IF j = id THEN e ELSE sems[j]
      /\ sems' \in [Sems -> [in_use : BOOLEAN, value : Nat, waiting : Seq(Pids)]]
  BY <1>1, <1>6, <1>7, OneEntry
<1>9. /\ NoDuplicates(e.waiting)
      /\ \A p : InQueue(e.waiting, p) <=> InQueue(sems[id].waiting, p) \/ p = c
  <2>1. sems[id].waiting \in Seq(Pids) /\ NoDuplicates(sems[id].waiting)
    BY <1>1 DEF WaitersQueued, Entries
  <2>2. ~ InQueue(sems[id].waiting, c) /\ c \in Pids /\ e.waiting = enqueue(sems[id].waiting, c)
    BY <1>2, <1>7
  <2>. DEFINE q == sems[id].waiting
  <2>3. NoDuplicates(enqueue(q, c)) /\ \A p : InQueue(enqueue(q, c), p) <=> InQueue(q, p) \/ p = c
    <3>. HIDE DEF q
    <3>1. q \in Seq(Pids) /\ NoDuplicates(q) /\ ~ InQueue(q, c)
      BY <2>1, <2>2 DEF q
    <3>. QED BY <2>2, <3>1, EnqueueLemma
  <2>. QED BY <2>2, <2>3
<1>10. \A j \in Sems : /\ sems'[j].in_use = sems[j].in_use
                       /\ sems'[j].value = sems[j].value
                       /\ NoDuplicates(sems'[j].waiting)
                       /\ \A p \in Pids : InQueue(sems'[j].waiting, p) <=>
                            InQueue(sems[j].waiting, p) \/ (j = id /\ p = c)
  <2>. SUFFICES ASSUME NEW j \in Sems
                PROVE  /\ sems'[j].in_use = sems[j].in_use
                       /\ sems'[j].value = sems[j].value
                       /\ NoDuplicates(sems'[j].waiting)
                       /\ \A p \in Pids : InQueue(sems'[j].waiting, p) <=>
                            InQueue(sems[j].waiting, p) \/ (j = id /\ p = c)
    OBVIOUS
  <2>1. CASE j = id
    <3>1. sems'[j] = e /\ sems[id].in_use = TRUE /\ e.in_use = TRUE
      BY <1>1, <1>7, <1>8, <2>1 DEF Entries
    <3>. QED BY <1>7, <1>9, <2>1, <3>1
  <2>2. CASE j # id
    BY <1>1, <1>8, <2>2 DEF WaitersQueued
  <2>. QED BY <2>1, <2>2
<1>11. /\ uses' \in [Pids -> SUBSET Sems]
       /\ \A p \in Pids : uses'[p] = IF p = c THEN uses[p] \cup {id} ELSE uses[p]
  BY <1>1, <1>2 DEF c
<1>12. SemTypes' /\ OneQueue'
  BY <1>1, <1>2, <1>8, <1>10, <1>11 DEF SemTypes, OneQueue
<1>13. WaitersQueued'
  <2>1. ASSUME NEW j \in Sems PROVE
          /\ NoDuplicates(sems'[j].waiting)
          /\ \A p \in Pids : InQueue(sems'[j].waiting, p) => Waiting(p)' /\ j \in uses'[p]
    BY <1>1, <1>5, <1>10, <1>11 DEF WaitersQueued
  <2>2. ASSUME NEW p \in Pids, Waiting(p)' PROVE \E j \in Sems : InQueue(sems'[j].waiting, p)
    BY <1>1, <1>5, <1>10, <2>2 DEF WaitersQueued
  <2>. QED BY <2>1, <2>2 DEF WaitersQueued
<1>14. ClosedUnused'
  <2>. SUFFICES ASSUME NEW j \in Sems, ~ sems'[j].in_use
                PROVE  sems'[j].waiting = << >> /\ \A p \in Pids : j \notin uses'[p]
    BY DEF ClosedUnused
  <2>1. j # id /\ sems'[j] = sems[j]
    BY <1>7, <1>8
  <2>. QED BY <1>1, <1>11, <2>1 DEF ClosedUnused
<1>15. UnitsBounded'
  <2>. SUFFICES ASSUME NEW j \in Sems, sems'[j].in_use
                PROVE  Cardinality(Admitted(j)') + sems'[j].value <= SemValue
    BY DEF UnitsBounded
  <2>1. ASSUME NEW p \in Pids
        PROVE  /\ j \in uses'[p] /\ ~ InQueue(sems'[j].waiting, p)
                 <=> j \in uses[p] /\ ~ InQueue(sems[j].waiting, p)
    <3>1. CASE p = c /\ j = id
      <4>1. id \notin uses[c]
        BY DEF c
      <4>. QED BY <1>10, <3>1, <4>1
    <3>2. CASE p # c \/ j # id
      <4>1. j \in uses'[p] <=> j \in uses[p]
        BY <1>11, <3>2
      <4>. QED BY <1>10, <3>2, <4>1
    <3>. QED BY <3>1, <3>2
  <2>2. Admitted(j)' = Admitted(j)
    BY <2>1 DEF Admitted
  <2>. QED BY <1>1, <1>10, <2>2 DEF UnitsBounded
<1>. QED BY <1>2, <1>4, <1>5, <1>7, <1>8, <1>12, <1>13, <1>14, <1>15 DEF SemInv, c

\* my_sem_post by a process that has a unit: it goes to the first in the queue,
\* or is counted.
LEMMA PostLemma ==
  ASSUME SemInv, NEW p \in Pids, Caller("sem_post"), k.current = p, NEW id \in uses[p],
         sems[id].in_use,
         sems' = [sems EXCEPT ![id] = sem_post_table(@)],
         k' = sem_post_kernel(k, sems[id]),
         uses' = [uses EXCEPT ![p] = @ \ {id}]
  PROVE  /\ SemInv' /\ sems'[id].in_use
         /\ \/ /\ sems[id].waiting = << >> /\ sems'[id].value = sems[id].value + 1
               /\ \A u \in Pids : Waiting(u)' <=> Waiting(u)
            \/ /\ sems'[id].value = sems[id].value
               /\ \E w \in Pids : /\ Waiting(w)
                                  /\ \A u \in Pids : Waiting(u)' <=> Waiting(u) /\ u # w
<1>. DEFINE e == sem_post_table(sems[id])
            w == dequeue_value(sems[id].waiting)
<1>1. /\ SemTypes /\ WaitersQueued /\ OneQueue /\ ClosedUnused /\ UnitsBounded
      /\ uses \in [Pids -> SUBSET Sems] /\ id \in Sems
      /\ sems[id] \in Entries /\ sems \in [Sems -> Entries]
      /\ Inv(k) /\ Family(k)
  BY DEF SemInv, SemTypes, Entries
<1>2. ~ Waiting(p) /\ \A j \in Sems : ~ InQueue(sems[j].waiting, p)
  BY CallerLemma
<1>3. sems' = [sems EXCEPT ![id] = e]
  BY <1>1
<1>4. /\ e \in Entries /\ e.in_use
      /\ e.value = IF sems[id].waiting = << >> THEN sems[id].value + 1 ELSE sems[id].value
      /\ e.waiting = IF sems[id].waiting = << >> THEN sems[id].waiting
                     ELSE dequeue(sems[id].waiting)
  BY <1>1, EntryLemma
<1>. HIDE DEF e
<1>5. /\ \A j \in Sems : sems'[j] = IF j = id THEN e ELSE sems[j]
      /\ sems' \in [Sems -> [in_use : BOOLEAN, value : Nat, waiting : Seq(Pids)]]
  BY <1>1, <1>3, <1>4, OneEntry
<1>6. /\ uses' \in [Pids -> SUBSET Sems]
      /\ \A u \in Pids : uses'[u] = IF u = p THEN uses[u] \ {id} ELSE uses[u]
  BY <1>1
<1>7. \A j \in Sems : Admitted(j) \in SUBSET Pids /\ Cardinality(Admitted(j)) \in Nat
  <2>. SUFFICES ASSUME NEW j \in Sems
                PROVE  Admitted(j) \in SUBSET Pids /\ Cardinality(Admitted(j)) \in Nat
    OBVIOUS
  <2>1. Admitted(j) \in SUBSET Pids
    BY DEF Admitted
  <2>. QED BY <2>1, PidsFinite
<1>8. /\ p \in Admitted(id) /\ sems[id].value \in Nat /\ sems[id].waiting \in Seq(Pids)
      /\ Cardinality(Admitted(id)) + sems[id].value <= SemValue
  BY <1>1, <1>2 DEF Admitted, UnitsBounded, Entries
<1>9. SemTypes'
  BY <1>5, <1>6 DEF SemTypes
<1>10. ClosedUnused'
  <2>. SUFFICES ASSUME NEW j \in Sems, ~ sems'[j].in_use
                PROVE  sems'[j].waiting = << >> /\ \A u \in Pids : j \notin uses'[u]
    BY DEF ClosedUnused
  <2>1. j # id /\ sems'[j] = sems[j]
    BY <1>4, <1>5
  <2>. QED BY <1>1, <1>6, <2>1 DEF ClosedUnused
<1>11. ASSUME NEW j \in Sems \ {id}, sems'[j].in_use,
              \A u \in Pids : InQueue(sems'[j].waiting, u) <=> InQueue(sems[j].waiting, u)
       PROVE  Cardinality(Admitted(j)') + sems'[j].value <= SemValue
  <2>1. Admitted(j)' = Admitted(j) /\ sems'[j] = sems[j]
    BY <1>5, <1>6, <1>11 DEF Admitted
  <2>. QED BY <1>1, <1>11, <2>1 DEF UnitsBounded
<1>12. CASE sems[id].waiting = << >>
  <2>1. k' = k
    BY <1>12 DEF sem_post_kernel
  <2>2. Inv(k)' /\ Family(k)' /\ \A u \in Pids : Waiting(u)' <=> Waiting(u)
    BY <1>1, <2>1 DEF Waiting
  <2>3. \A j \in Sems : sems'[j].waiting = sems[j].waiting
    BY <1>4, <1>5, <1>12
  <2>4. OneQueue'
    BY <1>1, <2>3 DEF OneQueue
  <2>5. WaitersQueued'
    BY <1>1, <1>2, <1>6, <2>2, <2>3 DEF WaitersQueued
  <2>6. UnitsBounded'
    <3>. SUFFICES ASSUME NEW j \in Sems, sems'[j].in_use
                  PROVE  Cardinality(Admitted(j)') + sems'[j].value <= SemValue
      BY DEF UnitsBounded
    <3>1. CASE j = id
      <4>1. Admitted(j)' = Admitted(j) \ {p}
        BY <1>2, <1>6, <2>3, <3>1 DEF Admitted
      <4>2. Cardinality(Admitted(j)') = Cardinality(Admitted(j)) - 1
        BY <1>7, <1>8, <3>1, <4>1, CountLemma
      <4>3. sems'[j].value = sems[j].value + 1
        BY <1>4, <1>5, <1>12, <3>1
      <4>. QED BY <1>7, <1>8, <3>1, <4>2, <4>3, SemaphoreAssumption
    <3>2. CASE j # id
      BY <1>11, <2>3, <3>2
    <3>. QED BY <3>1, <3>2
  <2>. QED BY <1>1, <1>4, <1>5, <1>9, <1>10, <1>12, <2>2, <2>4, <2>5, <2>6 DEF SemInv
<1>13. CASE sems[id].waiting # << >>
  <2>1. /\ w \in Pids /\ InQueue(sems[id].waiting, w)
        /\ NoDuplicates(e.waiting)
        /\ \A u : InQueue(e.waiting, u) <=> InQueue(sems[id].waiting, u) /\ u # w
    <3>1. NoDuplicates(sems[id].waiting) /\ e.waiting = dequeue(sems[id].waiting)
      BY <1>1, <1>4, <1>13 DEF WaitersQueued
    <3>. QED BY <1>8, <1>13, <3>1, DequeueLemma
  <2>2. k' = proc_ready(k, w)
    BY <1>13 DEF sem_post_kernel
  <2>. HIDE DEF w
  <2>3. Waiting(w) /\ id \in uses[w] /\ w # p
    BY <1>1, <1>2, <2>1 DEF WaitersQueued
  <2>4. Inv(k') /\ Family(k')
    BY <1>1, <2>1, <2>2, <2>3, WakeLemma, FamilyWake DEF Waiting
  <2>5. \A u \in Pids : Waiting(u)' <=> Waiting(u) /\ u # w
    <3>1. Types(k) /\ k.status \in [Pids -> Statuses]
      BY <1>1 DEF Inv, Core, Queues, Types
    <3>2. k'.status = [k.status EXCEPT ![w] = "READY"]
          /\ k'.block_reason = [k.block_reason EXCEPT ![w] = "NONE"]
      BY <2>1, <2>2, <3>1, ReadyFrame
    <3>. QED BY <2>1, <3>1, <3>2 DEF Waiting, Types
  <2>6. \A j \in Sems : /\ NoDuplicates(sems'[j].waiting)
                        /\ \A u \in Pids : InQueue(sems'[j].waiting, u) <=>
                             InQueue(sems[j].waiting, u) /\ ~ (j = id /\ u = w)
    BY <1>1, <1>5, <2>1 DEF WaitersQueued
  <2>7. OneQueue'
    BY <1>1, <2>6 DEF OneQueue
  <2>8. WaitersQueued'
    <3>1. ASSUME NEW j \in Sems, NEW u \in Pids, InQueue(sems'[j].waiting, u)
          PROVE  Waiting(u)' /\ j \in uses'[u]
      <4>1. InQueue(sems[j].waiting, u) /\ ~ (j = id /\ u = w)
        BY <2>6, <3>1
      <4>2. Waiting(u) /\ j \in uses[u] /\ u # p
        BY <1>1, <1>2, <4>1 DEF WaitersQueued
      <4>3. u # w
        BY <1>1, <2>1, <4>1 DEF OneQueue
      <4>. QED BY <1>6, <2>5, <4>2, <4>3
    <3>2. ASSUME NEW u \in Pids, Waiting(u)'
          PROVE  \E j \in Sems : InQueue(sems'[j].waiting, u)
      <4>1. Waiting(u) /\ u # w
        BY <2>5, <3>2
      <4>2. PICK j \in Sems : InQueue(sems[j].waiting, u)
        BY <1>1, <4>1 DEF WaitersQueued
      <4>. QED BY <2>6, <4>1, <4>2
    <3>. QED BY <2>6, <3>1, <3>2 DEF WaitersQueued
  <2>9. UnitsBounded'
    <3>. SUFFICES ASSUME NEW j \in Sems, sems'[j].in_use
                  PROVE  Cardinality(Admitted(j)') + sems'[j].value <= SemValue
      BY DEF UnitsBounded
    <3>1. CASE j = id
      <4>. DEFINE rest == Admitted(id) \ {p}
      <4>1. Admitted(j)' = rest \cup {w}
        BY <1>1, <1>2, <1>6, <2>1, <2>3, <2>6, <3>1 DEF Admitted
      <4>2. rest \in SUBSET Pids /\ w \in Pids \ rest
        BY <1>1, <1>7, <2>1 DEF Admitted
      <4>3. Cardinality(rest) = Cardinality(Admitted(id)) - 1
        BY <1>1, <1>7, <1>8, CountLemma
      <4>. HIDE DEF rest
      <4>4. Cardinality(rest \cup {w}) = Cardinality(rest) + 1
        BY <4>2, CountLemma
      <4>5. Cardinality(Admitted(j)') = Cardinality(Admitted(id)) /\ sems'[j].value = sems[id].value
        BY <1>1, <1>4, <1>5, <1>7, <1>13, <3>1, <4>1, <4>3, <4>4
      <4>. QED BY <1>8, <4>5
    <3>2. CASE j # id
      BY <1>11, <2>6, <3>2
    <3>. QED BY <3>1, <3>2
  <2>10. sems'[id].value = sems[id].value /\ sems'[id].in_use
    BY <1>1, <1>4, <1>5, <1>13
  <2>. QED BY <1>9, <1>10, <2>1, <2>3, <2>4, <2>5, <2>7, <2>8, <2>9, <2>10 DEF SemInv
<1>. QED BY <1>12, <1>13

-----------------------------------------------------------------------------
(***************************************************************************)
(* The state machine and what it implements.                               *)
(***************************************************************************)

\* Nothing happens to the semaphores and the processes.
LEMMA StutterLemma ==
  ASSUME SemInv, UNCHANGED semVars
  PROVE  SemInv'
<1>1. k' = k /\ sems' = sems /\ uses' = uses
  BY DEF semVars
<1>2. \A p \in Pids : Waiting(p)' <=> Waiting(p)
  BY <1>1 DEF Waiting
<1>3. Inv(k)' /\ Family(k)' /\ SemTypes' /\ OneQueue' /\ ClosedUnused'
  BY <1>1 DEF SemInv, SemTypes, OneQueue, ClosedUnused
<1>4. WaitersQueued'
  BY <1>1, <1>2 DEF SemInv, WaitersQueued
<1>5. UnitsBounded'
  BY <1>1 DEF SemInv, UnitsBounded, Admitted
<1>. QED BY <1>3, <1>4, <1>5 DEF SemInv

\* SemWait in its two outcomes.
LEMMA WaitCases ==
  ASSUME SemInv, SemWait
  PROVE  \E id \in Sems \ uses[k.current] :
           /\ sems[id].in_use
           /\ uses' = [uses EXCEPT ![k.current] = @ \cup {id}]
           /\ \/ /\ sems[id].value > 0 /\ k' = k
                 /\ sems' = [sems EXCEPT ![id].value = @ - 1]
              \/ /\ ~ sems[id].value > 0
                 /\ k' = block(k, k.current, "SEMAPHORE", "resource")
                 /\ sems' = [sems EXCEPT ![id] = sem_wait_table(@, k.current)]
<1>1. PICK id \in Sems \ uses[k.current] :
        /\ sems[id].in_use
        /\ sems' = [sems EXCEPT ![id] = sem_wait_table(@, k.current)]
        /\ k' = sem_wait_kernel(k, sems[id])
        /\ uses' = [uses EXCEPT ![k.current] = @ \cup {id}]
  BY DEF SemWait
<1>2. CASE sems[id].value > 0
  <2>1. sem_wait_table(sems[id], k.current) = [sems[id] EXCEPT !.value = sems[id].value - 1]
        /\ k' = k
    BY <1>1, <1>2 DEF sem_wait_table, sem_wait_kernel
  <2>2. sems' = [sems EXCEPT ![id].value = @ - 1]
    BY <1>1, <2>1
  <2>. QED BY <1>1, <1>2, <2>1, <2>2
<1>3. CASE ~ sems[id].value > 0
  <2>1. k.current # NULL
    BY DEF SemWait, Caller
  <2>2. k' = block(k, k.current, "SEMAPHORE", "resource")
    BY <1>1, <1>3, <2>1 DEF sem_wait_kernel, block_current
  <2>. QED BY <1>1, <1>3, <2>2
<1>. QED BY <1>2, <1>3

LEMMA SemNextLemma ==
  ASSUME Orderly, SemInv, [SemNext]_semVars
  PROVE  SemInv'
<1>1. CASE SemCreate
  BY <1>1, CreateLemma DEF SemCreate
<1>2. CASE SemClose
  BY <1>2, CloseLemma DEF SemClose
<1>3. CASE SemWait
  <2>1. PICK id \in Sems \ uses[k.current] :
           /\ sems[id].in_use
           /\ uses' = [uses EXCEPT ![k.current] = @ \cup {id}]
           /\ \/ /\ sems[id].value > 0 /\ k' = k
                 /\ sems' = [sems EXCEPT ![id].value = @ - 1]
              \/ /\ ~ sems[id].value > 0
                 /\ k' = block(k, k.current, "SEMAPHORE", "resource")
                 /\ sems' = [sems EXCEPT ![id] = sem_wait_table(@, k.current)]
    BY <1>3, WaitCases
  <2>2. Caller("sem_wait")
    BY <1>3 DEF SemWait
  <2>3. CASE sems[id].value > 0
    BY <2>1, <2>2, <2>3, TakeLemma
  <2>4. CASE ~ sems[id].value > 0
    BY <2>1, <2>2, <2>4, QueueLemma
  <2>. QED BY <2>3, <2>4
<1>4. CASE SemTryWait
  BY <1>4, TakeLemma DEF SemTryWait
<1>5. CASE KernelStep
  BY <1>5, KernelStepLemma
<1>6. ASSUME NEW p \in Pids, SemPost(p) PROVE SemInv'
  BY <1>6, PostLemma DEF SemPost
<1>7. CASE UNCHANGED semVars
  BY <1>7, StutterLemma
<1>. QED BY <1>1, <1>2, <1>3, <1>4, <1>5, <1>6, <1>7 DEF SemNext

LEMMA SemBoot ==
  ASSUME SemInit
  PROVE  SemInv /\ \A p \in Pids : ~ Waiting(p)
<1>1. PICK background \in BOOLEAN : k = main(background)
  BY DEF SemInit, Init
<1>2. Inv(k) /\ Family(k) /\ \A p \in Pids : ~ Waiting(p)
  BY <1>1, BootLemma, FamilyBoot DEF Waiting
<1>3. /\ \A id \in Sems : ~ sems[id].in_use /\ sems[id].waiting = << >>
      /\ \A p \in Pids : uses[p] = {}
      /\ SemTypes
  BY DEF SemInit, Closed, SemTypes
<1>4. \A id \in Sems : NoDuplicates(sems[id].waiting)
                       /\ \A p : ~ InQueue(sems[id].waiting, p)
  BY <1>3 DEF NoDuplicates, InQueue
<1>. QED BY <1>2, <1>3, <1>4
     DEF SemInv, WaitersQueued, OneQueue, ClosedUnused, UnitsBounded

\* The invariant of the semaphores holds in every reachable state.
THEOREM SemInvariance ==
  ASSUME Orderly
  PROVE  SemSpec => []SemInv
<1>1. SemInit => SemInv
  BY SemBoot
<1>2. SemInv /\ [SemNext]_semVars => SemInv'
  BY SemNextLemma
<1>. QED BY <1>1, <1>2, PTL DEF SemSpec

\* The queues of the semaphores and the scheduler agree about who waits, for any
\* number of semaphores and processes.
THEOREM QueuesAgree ==
  ASSUME Orderly
  PROVE  SemSpec => []WaitersQueued
<1>1. SemInv => WaitersQueued
  BY DEF SemInv
<1>. QED BY <1>1, SemInvariance, PTL

\* A semaphore admits no more processes between wait and post than the value it
\* was created with, also when they use several semaphores, when they exit while
\* they hold one, and when it is closed and created again.
THEOREM AdmitsNoMore ==
  ASSUME Orderly
  PROVE  SemSpec => []MutualExclusion
<1>1. ASSUME SemInv PROVE MutualExclusion
  <2>. SUFFICES ASSUME NEW id \in Sems, sems[id].in_use
                PROVE  Cardinality({p \in Pids : Holds(p, id)}) + sems[id].value <= SemValue
    BY DEF MutualExclusion
  <2>. DEFINE H == {p \in Pids : Holds(p, id)}
  <2>1. H \subseteq Admitted(id) /\ Admitted(id) \in SUBSET Pids /\ H \in SUBSET Pids
    BY <1>1 DEF SemInv, WaitersQueued, Holds, Admitted
  <2>. HIDE DEF H
  <2>2. Cardinality(H) <= Cardinality(Admitted(id))
    BY <2>1, CountLemma
  <2>3. Cardinality(H) \in Nat /\ Cardinality(Admitted(id)) \in Nat
    BY <2>1, PidsFinite
  <2>4. Cardinality(Admitted(id)) + sems[id].value <= SemValue /\ sems[id].value \in Nat
    BY <1>1 DEF SemInv, UnitsBounded, SemTypes
  <2>5. Cardinality(H) + sems[id].value <= SemValue
    BY <2>2, <2>3, <2>4, SemaphoreAssumption
  <2>. QED BY <2>5 DEF H
<1>. QED BY <1>1, SemInvariance, PTL

\* Every step is one of the abstract semaphore, or none.
LEMMA RefinedStep ==
  ASSUME Orderly, Sems = {Lock}, SemInv, [SemNext]_semVars
  PROVE  [Abstract!Next]_<<sems[Lock].in_use,
                           IF sems[Lock].in_use THEN sems[Lock].value ELSE 0,
                           {p \in Pids : Waiting(p)}>>
<1>. DEFINE open == sems[Lock].in_use
            units == IF open THEN sems[Lock].value ELSE 0
            waiters == {p \in Pids : Waiting(p)}
<1>1. /\ Lock \in Sems /\ sems[Lock] \in Entries /\ sems \in [Sems -> Entries]
      /\ sems[Lock].in_use \in BOOLEAN /\ sems[Lock].value \in Nat
      /\ WaitersQueued /\ ClosedUnused
  BY DEF SemInv, SemTypes, Entries
<1>2. sems[Lock].waiting = << >> => waiters = {}
  BY <1>1 DEF WaitersQueued, InQueue
<1>3. SemInv'
  BY SemNextLemma
<1>4. sems'[Lock].in_use \in BOOLEAN
  BY <1>1, <1>3 DEF SemInv, SemTypes
<1>5. CASE k' = k /\ sems' = sems
  BY <1>5 DEF Waiting
<1>6. CASE SemCreate
  <2>1. /\ sems' = [sems EXCEPT ![Lock] = my_sem_create(@, SemValue)]
        /\ k' = k
    BY <1>6 DEF SemCreate
  <2>2. CASE sems[Lock].in_use
    <3>1. sems' = sems
      BY <1>1, <2>1, <2>2 DEF my_sem_create
    <3>. QED BY <1>5, <2>1, <3>1
  <2>3. CASE ~ sems[Lock].in_use
    <3>1. sems'[Lock] = [in_use |-> TRUE, value |-> SemValue, waiting |-> << >>]
      BY <1>1, <2>1, <2>3 DEF my_sem_create
    <3>2. open' = TRUE /\ units' = SemValue
      BY <3>1
    <3>3. waiters = {} /\ waiters' = {}
      <4>1. waiters' = waiters
        BY <2>1 DEF Waiting
      <4>. QED BY <1>1, <1>2, <2>3, <4>1 DEF ClosedUnused
    <3>4. Abstract!Create
      BY <2>3, <3>2, <3>3 DEF Abstract!Create
    <3>. QED BY <3>4 DEF Abstract!Next
  <2>. QED BY <2>2, <2>3
<1>7. CASE SemClose
  <2>1. /\ sems[Lock].in_use /\ k' = k /\ uses' = uses
        /\ \A p \in Pids : Lock \notin uses[p]
        /\ sems' = [sems EXCEPT ![Lock] = my_sem_destroy(@)]
    BY <1>7 DEF SemClose
  <2>2. sems[Lock].waiting = << >>
    BY <1>1, <2>1, CloseLemma
  <2>3. sems'[Lock] = my_sem_destroy(sems[Lock])
    BY <1>1, <2>1
  <2>4. my_sem_destroy(sems[Lock]).in_use = FALSE
    BY <1>1, EntryLemma, PidsLemma
  <2>5. open' = FALSE /\ units' = 0
    BY <2>3, <2>4
  <2>6. waiters = {} /\ waiters' = waiters
    BY <1>2, <2>1, <2>2 DEF Waiting
  <2>7. Abstract!Close
    BY <2>1, <2>5, <2>6 DEF Abstract!Close
  <2>. QED BY <2>7 DEF Abstract!Next
<1>8. ASSUME sems[Lock].in_use, sems[Lock].value > 0, k' = k,
             sems' = [sems EXCEPT ![Lock].value = @ - 1]
      PROVE  Abstract!Next
  <2>1. sems'[Lock] = [sems[Lock] EXCEPT !.value = @ - 1]
    BY <1>1, <1>8
  <2>2. sems'[Lock].in_use = sems[Lock].in_use /\ sems'[Lock].value = sems[Lock].value - 1
    BY <1>1, <2>1 DEF Entries
  <2>3. open' = open /\ units > 0 /\ units' = units - 1
    BY <1>8, <2>2
  <2>4. waiters' = waiters
    BY <1>8 DEF Waiting
  <2>5. Abstract!Take
    BY <1>8, <2>3, <2>4 DEF Abstract!Take
  <2>. QED BY <2>5 DEF Abstract!Next
<1>9. CASE SemWait
  <2>1. /\ sems[Lock].in_use /\ Lock \notin uses[k.current]
        /\ uses' = [uses EXCEPT ![k.current] = @ \cup {Lock}]
        /\ \/ /\ sems[Lock].value > 0 /\ k' = k
              /\ sems' = [sems EXCEPT ![Lock].value = @ - 1]
           \/ /\ ~ sems[Lock].value > 0
              /\ k' = block(k, k.current, "SEMAPHORE", "resource")
              /\ sems' = [sems EXCEPT ![Lock] = sem_wait_table(@, k.current)]
    BY <1>9, WaitCases
  <2>2. CASE sems[Lock].value > 0
    BY <1>8, <2>1, <2>2
  <2>3. CASE ~ sems[Lock].value > 0
    <3>1. Caller("sem_wait")
      BY <1>9 DEF SemWait
    <3>2. /\ sems[Lock].value = 0 /\ k.current \in Pids /\ ~ Waiting(k.current)
          /\ \A p \in Pids : Waiting(p)' <=> Waiting(p) \/ p = k.current
          /\ sems'[Lock].in_use /\ sems'[Lock].value = 0
      BY <1>1, <2>1, <2>3, <3>1, QueueLemma
    <3>3. waiters' = waiters \cup {k.current} /\ k.current \notin waiters
      BY <3>2
    <3>4. open' = open /\ units = 0 /\ units' = units
      BY <1>1, <1>4, <2>1, <3>2
    <3>5. Abstract!StartWaiting(k.current)
      BY <2>1, <3>3, <3>4 DEF Abstract!StartWaiting
    <3>. QED BY <3>2, <3>5 DEF Abstract!Next
  <2>. QED BY <2>2, <2>3
<1>10. CASE SemTryWait
  BY <1>8, <1>10 DEF SemTryWait
<1>11. CASE KernelStep
  <2>1. sems' = sems /\ SameWaits(k, k')
    BY <1>11, KernelStepLemma
  <2>2. waiters' = waiters
    BY <2>1 DEF SameWaits, SameWait, OnResource, Resources, Waiting
  <2>. QED BY <2>1, <2>2
<1>12. ASSUME NEW p \in Pids, SemPost(p) PROVE Abstract!Next
  <2>1. /\ Caller("sem_post") /\ k.current = p /\ Lock \in uses[p] /\ sems[Lock].in_use
        /\ sems' = [sems EXCEPT ![Lock] = sem_post_table(@)]
        /\ k' = sem_post_kernel(k, sems[Lock])
        /\ uses' = [uses EXCEPT ![p] = @ \ {Lock}]
    <3>1. uses[p] \subseteq {Lock}
      BY DEF SemInv, SemTypes
    <3>. QED BY <1>12, <3>1 DEF SemPost
  <2>2. /\ sems'[Lock].in_use
        /\ \/ /\ sems[Lock].waiting = << >> /\ sems'[Lock].value = sems[Lock].value + 1
              /\ \A u \in Pids : Waiting(u)' <=> Waiting(u)
           \/ /\ sems'[Lock].value = sems[Lock].value
              /\ \E w \in Pids : /\ Waiting(w)
                                 /\ \A u \in Pids : Waiting(u)' <=> Waiting(u) /\ u # w
    BY <1>12, <2>1, PostLemma
  <2>3. open' = open
    BY <1>1, <1>4, <2>1, <2>2
  <2>4. CASE /\ sems[Lock].waiting = << >> /\ sems'[Lock].value = sems[Lock].value + 1
             /\ \A u \in Pids : Waiting(u)' <=> Waiting(u)
    <3>1. waiters = {} /\ waiters' = waiters /\ units' = units + 1
      BY <1>2, <2>1, <2>2, <2>4
    <3>2. Abstract!Give
      BY <2>1, <2>3, <3>1 DEF Abstract!Give
    <3>. QED BY <3>2 DEF Abstract!Next
  <2>5. CASE /\ sems'[Lock].value = sems[Lock].value
             /\ \E w \in Pids : /\ Waiting(w)
                                /\ \A u \in Pids : Waiting(u)' <=> Waiting(u) /\ u # w
    <3>1. PICK w \in Pids : Waiting(w) /\ \A u \in Pids : Waiting(u)' <=> Waiting(u) /\ u # w
      BY <2>5
    <3>2. w \in waiters /\ waiters' = waiters \ {w} /\ units' = units
      BY <2>1, <2>2, <2>5, <3>1
    <3>3. Abstract!Give
      BY <2>1, <2>3, <3>2 DEF Abstract!Give
    <3>. QED BY <3>3 DEF Abstract!Next
  <2>. QED BY <2>2, <2>4, <2>5
<1>. QED BY <1>5, <1>6, <1>7, <1>9, <1>10, <1>11, <1>12 DEF SemNext, semVars

\* The only semaphore of the programs behaves like a counter with a set of
\* waiters, whatever the scheduler does between the calls.
THEOREM SemaphoreRefines ==
  ASSUME Orderly, Sems = {Lock}
  PROVE  SemSpec => ImplementsSemaphore
<1>1. SemInit => Abstract!Init
  <2>. SUFFICES ASSUME SemInit PROVE Abstract!Init
    OBVIOUS
  <2>1. sems[Lock].in_use = FALSE
    BY DEF SemInit, Closed
  <2>2. {p \in Pids : Waiting(p)} = {}
    BY SemBoot
  <2>. QED BY <2>1, <2>2 DEF Abstract!Init
<1>2. SemInv /\ [SemNext]_semVars
        => [Abstract!Next]_<<sems[Lock].in_use,
                             IF sems[Lock].in_use THEN sems[Lock].value ELSE 0,
                             {p \in Pids : Waiting(p)}>>
  BY RefinedStep
<1>. QED BY <1>1, <1>2, SemInvariance, PTL DEF SemSpec, ImplementsSemaphore, Abstract!Spec
=============================================================================
