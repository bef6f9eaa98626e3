------------------------------- MODULE Phylo -------------------------------
(***************************************************************************)
(* programs/phylo.c: the dining philosophers, who join and leave at the    *)
(* press of a key.  One semaphore guards the table, one per philosopher    *)
(* lets it wait for its turn, and three carry the keys from the input      *)
(* process to phylo_main.                                                  *)
(*                                                                         *)
(* The semaphores are those of semaphore.c (SemTable).  The scheduler is   *)
(* any interleaving of the processes between two system calls; the code    *)
(* between my_sem_wait(SEM_ID) and my_sem_post(SEM_ID) is one step, since   *)
(* all it touches is guarded (the one unguarded write, at the start of     *)
(* phylo_process, turns NONE into THINKING, which no test tells apart).    *)
(*                                                                         *)
(* A philosopher that is removed can leave its PCB in the queue of SEM_ID  *)
(* and its pid in the queue of sleepers.  A post then readies a process    *)
(* that was freed, and the timer one that waits for something else; what   *)
(* they do to the table is not modelled.  The ghost stuck is TRUE from     *)
(* there on, and the properties speak of the time before.                  *)
(***************************************************************************)
EXTENDS SemTable, Integers

CONSTANTS MAX_PHY, MIN_PHY,
          Keys,       \* the keys the user may press
          MaxKeys,    \* how many of them, a bound
          SpawnFails  \* whether spawn_process_bg may fail

ASSUME PhyloAssumption ==
  /\ MIN_PHY \in Nat \ {0} /\ MAX_PHY \in Nat /\ MIN_PHY <= MAX_PHY
  /\ Keys \subseteq {"a", "r", "q"} /\ MaxKeys \in Nat
  /\ SpawnFails \in BOOLEAN

VARIABLES
  table,   \* sems: the semaphores; asleep: who is blocked in my_sem_wait;
           \* stuck: SEM_ID is never posted again, or somebody runs who should
           \* not (ghost)
  states,  \* phylo_states
  count,   \* phylo_count
  pc,      \* where each philosopher is; "none": there is no such process
  main,    \* where phylo_main is: at, the philosopher idx it is busy with,
           \* the number of them it still has to create or remove
  keys,    \* how many keys were pressed, and whether "q" was
  overslept  \* a philosopher was killed in its sleep: the timer's entry for its
             \* pid may still be there

phyloVars == <<table, states, count, pc, main, keys, overslept>>

Phylos == 0 .. MAX_PHY - 1
Main == MAX_PHY        \* the processes, as the queues of the semaphores hold them
Gone == MAX_PHY + 1    \* a process that was killed while it was in a queue

SEM_ID == 0
SEM_PHYLO(i) == i + 1
SEM_ADD == MAX_PHY + 1
SEM_REMOVE == MAX_PHY + 2
SEM_QUIT == MAX_PHY + 3
SemIds == 0 .. MAX_PHY + 3

RIGHT_PHYLO(i) == (i + 1) % count
LEFT_PHYLO(i) == (i + count - 1) % count

-----------------------------------------------------------------------------
(* The system calls on the semaphores.                                     *)

\* The caller goes on, or sleeps until a post reaches it.
wait(t, id, p) ==
  [t EXCEPT !.sems[id] = sem_wait_table(@, p),
            !.asleep = IF t.sems[id].value > 0 THEN @ ELSE @ \cup {p}]

\* my_sem_post makes the process it takes from the queue READY, alive or not: a
\* killed one runs on from where it was (run semaphore_kill), and nothing is
\* claimed from there on.
post(t, id) ==
  LET q == t.sems[id].waiting
      p == IF q = << >> THEN Gone ELSE dequeue_value(q)
  IN [t EXCEPT !.sems[id] = sem_post_table(@),
               !.asleep = @ \ {p},
               !.stuck = @ \/ (id = SEM_ID /\ q # << >> /\ p = Gone)]

\* kill_proc leaves the process in the queue it waits in.
left_in_queue(q, p) == [n \in DOMAIN q |-> IF q[n] = p THEN Gone ELSE q[n]]

buried(t, p) ==
  [t EXCEPT !.asleep = @ \ {p},
            !.sems = [id \in SemIds |->
                        [t.sems[id] EXCEPT
                           !.waiting = left_in_queue(t.sems[id].waiting, p)]]]

-----------------------------------------------------------------------------
(* The philosophers.                                                       *)

Running(p) == p \notin table.asleep

\* A philosopher is given its turn: its state, and a unit of its semaphore.
grant(w, i) == [states |-> [w.states EXCEPT ![i] = "DRIVING"],
                table |-> post(w.table, SEM_PHYLO(i))]

grant_if(w, i, other) ==
  IF w.states[i] = "WAITING" /\ w.states[other] # "DRIVING" THEN grant(w, i) ELSE w

\* Mutant: nobody is given the turn.
leave_pedals_silent(i) ==
  [states |-> [states EXCEPT ![i] = "THINKING"], table |-> table]

leave_pedals(i) ==
  LET left == LEFT_PHYLO(i)
      right == RIGHT_PHYLO(i)
      w == [states |-> [states EXCEPT ![i] = "THINKING"], table |-> table]
  IN grant_if(grant_if(w, left, LEFT_PHYLO(left)), right, RIGHT_PHYLO(right))

take_pedals(i) ==
  LET w == [states |-> [states EXCEPT ![i] = "WAITING"], table |-> table]
  IN IF w.states[LEFT_PHYLO(i)] # "DRIVING" /\ w.states[RIGHT_PHYLO(i)] # "DRIVING"
       THEN grant(w, i) ELSE w

Goes(i, from, to) ==
  /\ pc[i] = from /\ Running(i)
  /\ pc' = [pc EXCEPT ![i] = to]
  /\ UNCHANGED <<count, main, keys, overslept>>

SitDown(i) ==
  /\ Goes(i, "new", "thinking")
  /\ states' = [states EXCEPT ![i] = "THINKING"]
  /\ UNCHANGED table

\* sleep_time has ended: the philosopher wants the table, to take or to leave.
EnterTable(i) ==
  /\ Goes(i, "thinking", "take") \/ Goes(i, "driving", "leave")
  /\ table' = wait(table, SEM_ID, i)
  /\ UNCHANGED states

AtTable(w) == states' = w.states /\ table' = post(w.table, SEM_ID)

TakePedals(i) == Goes(i, "take", "turn") /\ AtTable(take_pedals(i))

AwaitTurn(i) ==
  /\ Goes(i, "turn", "driving")
  /\ table' = wait(table, SEM_PHYLO(i), i)
  /\ UNCHANGED states

LeavePedals(i) == Goes(i, "leave", "thinking") /\ AtTable(leave_pedals(i))

Philosopher(i) ==
  SitDown(i) \/ EnterTable(i) \/ TakePedals(i) \/ AwaitTurn(i) \/ LeavePedals(i)

-----------------------------------------------------------------------------
(* phylo_main: new_phylo, remove_phylo, remove_all and the loop.           *)

At(here) == main.at = here /\ Running(Main)

MainGoes(here) == main' = here /\ UNCHANGED <<keys, overslept>>

\* my_sem_wait(SEM_ID) of new_phylo and remove_phylo.
MainEntersTable ==
  /\ At("new") \/ At("remove")
  /\ table' = wait(table, SEM_ID, Main)
  /\ main' = [main EXCEPT !.at = IF @ = "new" THEN "adding" ELSE "removing"]
  /\ UNCHANGED <<states, count, pc, keys, overslept>>

Step(here) == [at |-> here, idx |-> 0, todo |-> 0]

\* The philosophers of the start are created one after the other; later ones
\* return to the loop.  A failure at the start removes those already there.
AfterNew(ok) ==
  IF main.todo = 0 THEN Step("loop_remove")
  ELSE IF ~ok THEN [at |-> IF main.idx = 0 THEN "done" ELSE "remove", idx |-> 0, todo |-> main.idx]
  ELSE IF main.todo > 1 THEN [at |-> "new", idx |-> main.idx + 1, todo |-> main.todo - 1]
  ELSE Step("loop_add")

\* The semaphore exists already: new_phylo returns and keeps SEM_ID.
NewFails ==
  /\ At("adding") /\ table.sems[SEM_PHYLO(main.idx)].in_use
  /\ table' = [table EXCEPT !.stuck = TRUE]
  /\ MainGoes(AfterNew(FALSE))
  /\ UNCHANGED <<states, count, pc>>

\* early: the new process got the pid of one killed in its sleep, whose entry is
\* still there.  It wakes the new one before its own entry does, which then finds
\* it in my_sem_wait and lets it past.
NewPhylo ==
  /\ At("adding") /\ ~table.sems[SEM_PHYLO(main.idx)].in_use
  /\ \E ok \in IF SpawnFails THEN BOOLEAN ELSE {TRUE}, early \in {FALSE, overslept} :
       /\ table' = post([table EXCEPT !.sems[SEM_PHYLO(main.idx)] = my_sem_create(@, 0),
                                      !.stuck = @ \/ (ok /\ early)], SEM_ID)
       /\ count' = IF ok THEN count + 1 ELSE count
       /\ pc' = IF ok THEN [pc EXCEPT ![main.idx] = "new"] ELSE pc
       /\ MainGoes(AfterNew(ok))
  /\ UNCHANGED states

BothDrive(i) == states[LEFT_PHYLO(i)] = "DRIVING" /\ states[RIGHT_PHYLO(i)] = "DRIVING"

\* Mutant: it keeps the table while it waits.
RemoveWaits_holding ==
  /\ At("removing") /\ BothDrive(main.idx)
  /\ MainGoes([main EXCEPT !.at = "steal"])
  /\ UNCHANGED <<table, states, count, pc>>

\* Both neighbours drive: they would become neighbours of one another.  Wait
\* for the turn of the philosopher that is to leave, in its stead.
RemoveWaits ==
  /\ At("removing") /\ BothDrive(main.idx)
  /\ table' = post(table, SEM_ID)
  /\ MainGoes([main EXCEPT !.at = "steal"])
  /\ UNCHANGED <<states, count, pc>>

StealTurn ==
  /\ At("steal")
  /\ table' = wait(table, SEM_PHYLO(main.idx), Main)
  /\ MainGoes([main EXCEPT !.at = "remove"])
  /\ UNCHANGED <<states, count, pc>>

AfterRemove ==
  IF main.todo = 0 THEN Step("loop_quit")
  ELSE IF main.todo = 1 THEN Step(IF keys.quit THEN "end" ELSE "done")
  ELSE [at |-> "remove", idx |-> main.idx + 1, todo |-> main.todo - 1]

Kills(i) ==
  /\ table' = post([buried(table, i) EXCEPT !.sems[SEM_PHYLO(i)] = my_sem_destroy(@)], SEM_ID)
  /\ states' = [states EXCEPT ![i] = "NONE"]
  /\ count' = count - 1
  /\ pc' = [pc EXCEPT ![i] = "none"]
  /\ overslept' = (overslept \/ (pc[i] \in {"thinking", "driving"} /\ Running(i)))
  /\ main' = AfterRemove /\ UNCHANGED keys

\* Mutant: it does not wait.
RemovePhylo_hasty == At("removing") /\ Kills(main.idx)

RemovePhylo == At("removing") /\ ~BothDrive(main.idx) /\ Kills(main.idx)

\* One my_sem_trywait of the loop and what follows it.
Try(here, id, then, else) ==
  /\ At(here)
  /\ IF table.sems[id].value > 0
       THEN table' = [table EXCEPT !.sems[id].value = @ - 1] /\ main' = then
       ELSE UNCHANGED table /\ main' = else
  /\ UNCHANGED <<states, count, pc, keys, overslept>>

TryAdd ==
  Try("loop_add", SEM_ADD,
      IF count < MAX_PHY THEN [at |-> "new", idx |-> count, todo |-> 0] ELSE Step("loop_remove"),
      Step("loop_remove"))

TryRemove ==
  Try("loop_remove", SEM_REMOVE,
      IF count > MIN_PHY THEN [at |-> "remove", idx |-> count - 1, todo |-> 0] ELSE Step("loop_quit"),
      Step("loop_quit"))

TryQuit ==
  Try("loop_quit", SEM_QUIT, [at |-> "remove", idx |-> 0, todo |-> count], Step("loop_add"))

\* wait_pid(input_pid) and my_sem_close(SEM_ID); the input process ended with "q".
\* A failed start closes nothing.
Finish ==
  /\ At("end")
  /\ table' = [table EXCEPT !.sems[SEM_ID] = my_sem_destroy(@)]
  /\ MainGoes(Step("done"))
  /\ UNCHANGED <<states, count, pc>>

MainStep ==
  \/ MainEntersTable \/ NewFails \/ NewPhylo \/ RemoveWaits \/ StealTurn \/ RemovePhylo
  \/ TryAdd \/ TryRemove \/ TryQuit \/ Finish

\* phylo_input_process, which runs once the first philosophers sit: a key.
Key ==
  /\ keys.pressed < MaxKeys /\ ~keys.quit
  /\ main.todo = 0 /\ main.at # "done"
  /\ \E key \in Keys :
       /\ table' = post(table, CASE key = "a" -> SEM_ADD [] key = "r" -> SEM_REMOVE
                                 [] key = "q" -> SEM_QUIT)
       /\ keys' = [keys EXCEPT !.pressed = @ + 1, !.quit = (key = "q")]
  /\ UNCHANGED <<states, count, pc, main, overslept>>

-----------------------------------------------------------------------------
PhyloInit ==
  /\ table = [sems |-> [id \in SemIds |->
                         CASE id = SEM_ID -> my_sem_create(Closed, 1)
                           [] id > MAX_PHY -> my_sem_create(Closed, 0)
                           [] OTHER -> Closed],
              asleep |-> {}, stuck |-> FALSE]
  /\ states = [i \in Phylos |-> "NONE"]
  /\ count = 0
  /\ pc = [i \in Phylos |-> "none"]
  /\ main = [at |-> "new", idx |-> 0, todo |-> MIN_PHY]
  /\ keys = [pressed |-> 0, quit |-> FALSE]
  /\ overslept = FALSE

PhyloNext == MainStep \/ Key \/ \E i \in Phylos : Philosopher(i)

PhyloSpec == PhyloInit /\ [][PhyloNext]_phyloVars

\* The scheduler is fair to every process (ReadyRuns of the kernel's runs)
\* and a sleep ends; the user need not press a key.
PhyloFairSpec ==
  PhyloSpec /\ WF_phyloVars(MainStep) /\ \A i \in Phylos : WF_phyloVars(Philosopher(i))

-----------------------------------------------------------------------------
(* Properties.                                                             *)

\* Two philosophers that sit next to one another never eat together, whoever
\* joins or leaves between them, and who eats was given its turn.  It holds
\* until a philosopher that was removed runs again or the timer takes the next
\* one for it (stuck): leave_pedals of the one that is gone can give a turn next
\* to one who eats.  And it holds until remove_all clears the table: it removes
\* from index 0 upwards, and the neighbours are counted modulo a number that no
\* longer covers the rest.
NeighboursExclusive ==
  (~table.stuck /\ main.todo = 0 /\ main.at # "done") =>
    \A i \in 0 .. count - 1 :
      /\ (states[i] = "DRIVING" /\ RIGHT_PHYLO(i) # i) => states[RIGHT_PHYLO(i)] # "DRIVING"
      /\ (pc[i] = "driving" /\ Running(i)) => states[i] = "DRIVING"

Forgotten(i) ==
  /\ states[i] = "WAITING" /\ ~table.stuck
  /\ states[LEFT_PHYLO(i)] # "DRIVING" /\ states[RIGHT_PHYLO(i)] # "DRIVING"

\* A philosopher does not wait for ever between neighbours that do not eat, even
\* when one of them was removed while it ate and so never called leave_pedals,
\* unless the table is lost (see stuck).  That it eats at last does not
\* hold: two neighbours can take turns so that one of them always eats.
NeverForgotten == \A i \in Phylos : Forgotten(i) ~> ~Forgotten(i)

\* After "q" the program ends, though it waits for its philosophers at the table
\* and at their turns, unless the table is lost or philosophers go on
\* eating and thinking for ever so that the turn it waits for never comes.
QuitEnds ==
  \/ keys.quit ~> (main.at = "done" \/ table.stuck)
  \/ \E i \in Phylos : []<>(pc[i] = "thinking") /\ []<>(pc[i] = "driving")

=============================================================================
