------------------------------ MODULE SemTable ------------------------------
(***************************************************************************)
(* An entry of semaphore_table (Kernel/ipc/semaphore.c): in_use, value and *)
(* the queue of waiting processes, and what the calls do to it.  What they *)
(* do to the processes is in the modules that use this one.                *)
(***************************************************************************)
EXTENDS KQueue

Closed == [in_use |-> FALSE, value |-> 0, waiting |-> << >>]

\* Mutant: the initial value is not stored.
my_sem_create_zero(s, value) ==
  IF s.in_use THEN s ELSE [in_use |-> TRUE, value |-> 0, waiting |-> << >>]

my_sem_create(s, value) ==
  IF s.in_use THEN s ELSE [in_use |-> TRUE, value |-> value, waiting |-> << >>]

\* queue_free drops the nodes; the waiting processes stay blocked.
my_sem_destroy(s) == [s EXCEPT !.in_use = FALSE, !.waiting = << >>]

\* Mutant: the process that is woken stays in the queue.
sem_post_table_peek(s) ==
  IF s.waiting # << >> THEN s ELSE [s EXCEPT !.value = s.value + 1]

\* Mutant: the unit is given to a waiting process and counted as well.
sem_post_table_twice(s) ==
  [s EXCEPT !.waiting = IF s.waiting # << >> THEN dequeue(s.waiting) ELSE << >>,
            !.value = s.value + 1]

\* A waiting process gets the unit that post gives back, else it is counted.
sem_post_table(s) ==
  IF s.waiting # << >> THEN [s EXCEPT !.waiting = dequeue(s.waiting)]
  ELSE [s EXCEPT !.value = s.value + 1]

\* Mutant: last in, first out.
sem_wait_table_lifo(s, p) ==
  IF s.value > 0 THEN [s EXCEPT !.value = s.value - 1]
  ELSE [s EXCEPT !.waiting = <<p>> \o s.waiting]

sem_wait_table(s, p) ==
  IF s.value > 0 THEN [s EXCEPT !.value = s.value - 1]
  ELSE [s EXCEPT !.waiting = enqueue(s.waiting, p)]
=============================================================================
