------------------------------ MODULE RingBuf -------------------------------
(***************************************************************************)
(* Kernel/include/ds/ringbuf.h, the buffer under the pipes, the keyboard   *)
(* and the kernel log.  A step is one turn of the loop of ringbuf_read or  *)
(* ringbuf_write (the loops run with interrupts off: a call is a run of    *)
(* such steps).  ringbuf_unwrite belongs to the keyboard and               *)
(* ringbuf_write_overwrite to the log: modules Keyboard and KernelLog.     *)
(*                                                                         *)
(* head and tail are not reduced modulo SIZE: each wraps when the next     *)
(* byte is read or written, so both can be SIZE for a while.               *)
(***************************************************************************)
EXTENDS Integers, Sequences

CONSTANTS
  SIZE,   \* ring->size
  Bytes,  \* the bytes
  None    \* not a byte

ASSUME RingAssumption == SIZE \in Nat /\ SIZE >= 2 /\ None \notin Bytes

VARIABLES
  ring,  \* buf, head and tail of the struct
  got    \* the byte read last

vars == <<ring, got>>

-----------------------------------------------------------------------------
Slots == 0..(SIZE - 1)

RING_INDEX(i) == i % SIZE

\* if (index == ring->size) index = 0;
wrap(i) == IF i = SIZE THEN 0 ELSE i

is_empty(r) == r.head = r.tail

\* Mutant: the indices are compared without reducing them.
is_full_unreduced(r) == r.tail + 1 = r.head

is_full(r) == RING_INDEX(r.tail + 1) = RING_INDEX(r.head)

ringbuf_available(r) ==
  IF r.tail >= r.head THEN r.tail - r.head ELSE r.tail + SIZE - r.head

store(r, c) == [r EXCEPT !.buf[wrap(r.tail)] = c, !.tail = wrap(r.tail) + 1]

ringbuf_write(r, c) == IF is_full(r) THEN r ELSE store(r, c)

ringbuf_read(r) == [r EXCEPT !.head = wrap(r.head) + 1]

ringbuf_write_overwrite(r, c) ==
  store(IF RING_INDEX(r.head) = RING_INDEX(r.tail) + 1
        THEN [r EXCEPT !.head = RING_INDEX(r.head) + 1] ELSE r, c)

ringbuf_unwrite(r) ==
  [r EXCEPT !.tail = IF r.tail = 0 THEN SIZE - 1 ELSE r.tail - 1]

-----------------------------------------------------------------------------
\* ringbuf_new allocates buf without clearing it.
Init ==
  /\ \E junk \in [Slots -> Bytes] : ring = [buf |-> junk, head |-> 0, tail |-> 0]
  /\ got = None

Write ==
  /\ \E c \in Bytes : ring' = ringbuf_write(ring, c)
  /\ UNCHANGED got

Read ==
  /\ ~ is_empty(ring)
  /\ got' = ring.buf[wrap(ring.head)]
  /\ ring' = ringbuf_read(ring)

Next == Write \/ Read

Spec == Init /\ [][Next]_vars

-----------------------------------------------------------------------------
\* The bytes in the buffer, oldest first.
Contents(r) ==
  [i \in 1..ringbuf_available(r) |-> r.buf[RING_INDEX(r.head + i - 1)]]

Fifo == INSTANCE ByteFifo WITH
  Capacity <- SIZE - 1, contents <- Contents(ring), got <- got

\* A buffer that is only read and written is a queue of SIZE - 1 bytes: the
\* unreduced indices, the two wraps and the test for a full buffer never lose,
\* repeat or reorder a byte.
IsFifo == Fifo!Spec

\* The two ways the code has to ask for an empty buffer agree: ringbuf.h:72,
\* "Ring is empty" (head = tail), and ringbuf_available = 0.
EmptyIsEmpty == is_empty(ring) <=> ringbuf_available(ring) = 0
=============================================================================
