------------------------- MODULE AbstractSemaphore --------------------------
(***************************************************************************)
(* What a semaphore promises, without queues, PCBs or a scheduler: a       *)
(* counter, and the set of processes that wait because it was zero.        *)
(***************************************************************************)
EXTENDS Integers

CONSTANTS Procs, InitialValue

VARIABLES is_open, units, waiters

Init == is_open = FALSE /\ units = 0 /\ waiters = {}

Create == ~ is_open /\ is_open' = TRUE /\ units' = InitialValue /\ waiters' = {}

Close == is_open /\ waiters = {} /\ is_open' = FALSE /\ units' = 0 /\ UNCHANGED waiters

Take == is_open /\ units > 0 /\ units' = units - 1 /\ UNCHANGED <<is_open, waiters>>

StartWaiting(p) ==
  /\ is_open /\ units = 0 /\ p \notin waiters
  /\ waiters' = waiters \cup {p}
  /\ UNCHANGED <<is_open, units>>

\* The unit goes to exactly one waiter, if there is one.
Give ==
  /\ is_open /\ UNCHANGED is_open
  /\ \/ waiters = {} /\ units' = units + 1 /\ UNCHANGED waiters
     \/ \E p \in waiters : waiters' = waiters \ {p} /\ UNCHANGED units

Next == Create \/ Close \/ Take \/ Give \/ \E p \in Procs : StartWaiting(p)

Spec == Init /\ [][Next]_<<is_open, units, waiters>>
=============================================================================
