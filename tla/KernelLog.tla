----------------------------- MODULE KernelLog ------------------------------
(***************************************************************************)
(* The log of the kernel: putc and puts of Kernel/lib/logger.c write, one  *)
(* byte after the other, to the ring buffer kmsg, which overwrites its     *)
(* oldest bytes.  sys_read_kmsg reads from it without consuming.           *)
(***************************************************************************)
EXTENDS Integers, Sequences

Seqs == INSTANCE SequencesExt

CONSTANTS KMSG_SIZE, LogBytes,
          MaxLogged  \* how many bytes are logged

ASSUME KernelLogAssumption ==
  KMSG_SIZE \in Nat /\ KMSG_SIZE >= 2 /\ MaxLogged \in Nat

VARIABLES kmsg,   \* the ring buffer
          logged  \* ghost: every byte that was logged

logVars == <<kmsg, logged>>

Kmsg == INSTANCE RingBuf WITH
  SIZE <- KMSG_SIZE, Bytes <- LogBytes, None <- 0, ring <- kmsg, got <- 0

\* Mutant: the tail is reduced when it is advanced, not before the next byte.
overwrite_reduced(r, c) ==
  [r EXCEPT !.buf[r.tail] = c, !.tail = Kmsg!RING_INDEX(r.tail + 1)]

overwrite(r, c) == Kmsg!ringbuf_write_overwrite(r, c)

LogInit ==
  /\ \E junk \in LogBytes :
       kmsg = [buf |-> [i \in 0 .. KMSG_SIZE - 1 |-> junk], head |-> 0, tail |-> 0]
  /\ logged = << >>

putc ==
  /\ Len(logged) < MaxLogged
  /\ \E c \in LogBytes : kmsg' = overwrite(kmsg, c) /\ logged' = Append(logged, c)

LogSpec == LogInit /\ [][putc]_logVars

-----------------------------------------------------------------------------
\* ringbuf_read_noconsume(kmsg, 0, n, buf).
ringbuf_read_noconsume(r, n) ==
  LET head[i \in 0 .. n] == IF i = 0 THEN r.head ELSE Kmsg!wrap(head[i - 1]) + 1
      stops == {i \in 0 .. n : i = n \/ Kmsg!wrap(head[i]) = r.tail}
      read == CHOOSE i \in stops : \A j \in stops : i <= j
  IN [i \in 1 .. read |-> r.buf[Kmsg!wrap(head[i - 1])]]

\* The string a program gets: the terminator takes the place of the last byte
\* when the buffer is not larger than what there is to read.
sys_read_kmsg(r, maxlen) ==
  LET available == Kmsg!ringbuf_available(r)
  IN IF available < maxlen THEN ringbuf_read_noconsume(r, available)
     ELSE SubSeq(ringbuf_read_noconsume(r, maxlen), 1, maxlen - 1)

-----------------------------------------------------------------------------
\* Whatever was overwritten, sys_read_kmsg shows the last bytes that were logged, in
\* order, and at least the one logged last: a wrap of the indices can shorten
\* the log, and never shows an overwritten byte or one from before the wrap.  A
\* smaller buffer gets a piece of that.
LogIsSuffix ==
  LET shown == sys_read_kmsg(kmsg, KMSG_SIZE + 1)
  IN /\ Seqs!IsSuffix(shown, logged)
     /\ logged # << >> => shown # << >>
     /\ \A maxlen \in 1 .. KMSG_SIZE : Seqs!IsPrefix(sys_read_kmsg(kmsg, maxlen), shown)
=============================================================================
