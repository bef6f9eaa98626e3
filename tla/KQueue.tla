------------------------------- MODULE KQueue -------------------------------
(***************************************************************************)
(* The kernel's queue (Kernel/include/ds/queue.h) as a sequence: the head  *)
(* of the doubly linked list is the first element.  Nodes are allocated by *)
(* enqueue; the model assumes that this allocation succeeds.  A value may  *)
(* be queued several times: the code never looks for duplicates.           *)
(***************************************************************************)
EXTENDS Integers, Sequences

\* enqueue: a new node after the tail.
enqueue(q, v) == Append(q, v)

\* dequeue returns the value of the head (dequeue_value) and unlinks it
\* (dequeue); on an empty queue it returns NULL, so callers test first.
dequeue_value(q) == Head(q)

dequeue(q) == Tail(q)

\* queue_remove unlinks the FIRST node that holds v, if there is one.  Every
\* element from that node on moves one place towards the head.
queue_remove(q, v) ==
  IF \E i \in 1..Len(q) : q[i] = v
  THEN [i \in 1..(Len(q) - 1) |->
          IF \E j \in 1..i : q[j] = v THEN q[i + 1] ELSE q[i]]
  ELSE q

\* Membership, for the properties.
InQueue(q, v) == \E i \in 1..Len(q) : q[i] = v

NoDuplicates(q) == \A i, j \in 1..Len(q) : q[i] = q[j] => i = j
=============================================================================
