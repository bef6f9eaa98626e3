--------------------------- MODULE RingBufProofs ----------------------------
(***************************************************************************)
(* A ring buffer that is only read and written implements a bounded FIFO,  *)
(* for every size and every set of bytes; and what a write of one byte, a  *)
(* read and, in front of the end of the buffer, an unwrite do to what it   *)
(* holds, for the pipes and the keyboard.                                  *)
(***************************************************************************)
EXTENDS RingBuf, TLAPS

\* What RING_INDEX does to the sums the code computes.
LEMMA IndexLemma ==
  ASSUME NEW i \in 0..(2 * SIZE - 1)
  PROVE  RING_INDEX(i) = IF i < SIZE THEN i ELSE i - SIZE
<1>1. SIZE \in Nat /\ SIZE > 0
  BY RingAssumption
<1>2. CASE i < SIZE
  BY <1>1, <1>2 DEF RING_INDEX
<1>3. CASE i >= SIZE
  BY <1>1, <1>3 DEF RING_INDEX
<1>. QED BY <1>1, <1>2, <1>3

RingType(r) == r \in [buf : [Slots -> Bytes], head : 0..SIZE, tail : 0..SIZE]

\* The invariant: tail is 0 only in a buffer never written, so that head = SIZE
\* and tail = 0, an empty buffer that is_empty would not recognise, is excluded;
\* one slot always stays free.
RingInv(r) ==
  /\ RingType(r)
  /\ r.tail = 0 => r.head = 0
  /\ ringbuf_available(r) <= SIZE - 1

\* The test for a full buffer finds exactly the buffers with SIZE - 1 bytes.
LEMMA FullLemma ==
  ASSUME NEW r, RingInv(r)
  PROVE  /\ ringbuf_available(r) \in Nat
         /\ is_full(r) <=> ringbuf_available(r) = SIZE - 1
         /\ is_empty(r) <=> ringbuf_available(r) = 0
<1>1. SIZE \in Nat /\ SIZE >= 2 /\ r.head \in 0..SIZE /\ r.tail \in 0..SIZE
  BY RingAssumption DEF RingInv, RingType
<1>2. r.tail + 1 \in 0..(2 * SIZE - 1) /\ r.head \in 0..(2 * SIZE - 1)
  BY <1>1
<1>3. /\ RING_INDEX(r.tail + 1) = IF r.tail + 1 < SIZE THEN r.tail + 1 ELSE r.tail + 1 - SIZE
      /\ RING_INDEX(r.head) = IF r.head < SIZE THEN r.head ELSE r.head - SIZE
  BY <1>1, <1>2, IndexLemma
<1>. QED BY <1>1, <1>3 DEF RingInv, ringbuf_available, is_full, is_empty

\* A byte that fits is appended to the contents.
LEMMA StoreLemma ==
  ASSUME NEW r, RingInv(r), NEW c \in Bytes, ~ is_full(r)
  PROVE  /\ RingInv(store(r, c))
         /\ Contents(store(r, c)) = Append(Contents(r), c)
<1>. DEFINE t == store(r, c)
            n == ringbuf_available(r)
<1>1. SIZE \in Nat /\ SIZE >= 2 /\ r.head \in 0..SIZE /\ r.tail \in 0..SIZE
      /\ r.buf \in [Slots -> Bytes]
  BY RingAssumption DEF RingInv, RingType
<1>2. n \in Nat /\ n < SIZE - 1
  BY <1>1, FullLemma DEF RingInv
<1>3. wrap(r.tail) \in Slots
  BY <1>1 DEF wrap, Slots
<1>4. /\ t.buf = [r.buf EXCEPT ![wrap(r.tail)] = c]
      /\ t.tail = wrap(r.tail) + 1 /\ t.head = r.head
      /\ t \in [buf : [Slots -> Bytes], head : 0..SIZE, tail : 0..SIZE]
  <2>. DEFINE w == wrap(r.tail)
  <2>1. w + 1 \in 0..SIZE
    BY <1>1, <1>3 DEF Slots
  <2>2. t = [r EXCEPT !.buf = [r.buf EXCEPT ![w] = c], !.tail = w + 1]
    BY DEF store
  <2>3. r \in [buf : [Slots -> Bytes], head : 0..SIZE, tail : 0..SIZE]
    BY DEF RingInv, RingType
  <2>4. [r.buf EXCEPT ![w] = c] \in [Slots -> Bytes]
    BY <1>1
  <2>. HIDE DEF w, t
  <2>. QED BY <2>1, <2>2, <2>3, <2>4 DEF w
<1>. HIDE DEF t
<1>5. ringbuf_available(t) = n + 1
  BY <1>1, <1>2, <1>4 DEF ringbuf_available, wrap, RingInv
<1>6. RingInv(t)
  BY <1>1, <1>2, <1>4, <1>5 DEF RingInv, RingType, wrap
<1>7. \A i \in 1..n : RING_INDEX(r.head + i - 1) \in Slots
                      /\ RING_INDEX(r.head + i - 1) # wrap(r.tail)
  <2>. SUFFICES ASSUME NEW i \in 1..n
                PROVE  /\ RING_INDEX(r.head + i - 1) \in Slots
                       /\ RING_INDEX(r.head + i - 1) # wrap(r.tail)
    OBVIOUS
  <2>1. r.head + i - 1 \in 0..(2 * SIZE - 1)
    BY <1>1, <1>2
  <2>2. RING_INDEX(r.head + i - 1) =
          IF r.head + i - 1 < SIZE THEN r.head + i - 1 ELSE r.head + i - 1 - SIZE
    BY <1>1, <2>1, IndexLemma
  <2>3. RING_INDEX(r.head + i - 1) \in Slots
    BY <1>1, <1>2, <2>2 DEF Slots
  <2>4. RING_INDEX(r.head + i - 1) # wrap(r.tail)
    <3>1. CASE r.tail >= r.head
      BY <1>1, <1>2, <2>2, <3>1 DEF wrap, ringbuf_available, RingInv
    <3>2. CASE r.tail < r.head
      BY <1>1, <1>2, <2>2, <3>2 DEF wrap, ringbuf_available, RingInv
    <3>. QED BY <1>1, <3>1, <3>2
  <2>. QED BY <2>3, <2>4
<1>8. RING_INDEX(r.head + n) = wrap(r.tail)
  <2>. DEFINE x == r.head + n
  <2>1. x \in 0..(2 * SIZE - 1)
    BY <1>1, <1>2
  <2>2. RING_INDEX(x) = IF x < SIZE THEN x ELSE x - SIZE
    <3>. HIDE DEF x
    <3>. QED BY <2>1, IndexLemma
  <2>. QED BY <1>1, <1>2, <2>2 DEF wrap, ringbuf_available, RingInv
<1>. DEFINE old == [i \in 1..n |-> r.buf[RING_INDEX(r.head + i - 1)]]
            new == [i \in 1..(n + 1) |-> t.buf[RING_INDEX(r.head + i - 1)]]
<1>9. Contents(r) = old /\ Contents(t) = new
  BY <1>4, <1>5 DEF Contents
<1>10. old \in Seq(Bytes) /\ Len(old) = n
  BY <1>1, <1>2, <1>7
<1>11. \A i \in 1..n : new[i] = old[i]
  <2>. SUFFICES ASSUME NEW i \in 1..n PROVE new[i] = old[i]
    OBVIOUS
  <2>1. i \in 1..(n + 1) /\ RING_INDEX(r.head + i - 1) \in Slots
        /\ RING_INDEX(r.head + i - 1) # wrap(r.tail)
    BY <1>2, <1>7
  <2>. QED BY <1>1, <1>4, <2>1
<1>12. new[n + 1] = c
  <2>1. r.head + (n + 1) - 1 = r.head + n /\ n + 1 \in 1..(n + 1)
    BY <1>1, <1>2
  <2>2. new[n + 1] = t.buf[wrap(r.tail)]
    BY <1>8, <2>1
  <2>. QED BY <1>1, <1>3, <1>4, <2>2
<1>. DEFINE app == Append(old, c)
<1>13. app = [i \in 1..(n + 1) |-> IF i = n + 1 THEN c ELSE old[i]]
  <2>. HIDE DEF old, n
  <2>1. app \in Seq(Bytes) /\ Len(app) = n + 1
    BY <1>2, <1>10
  <2>2. \A i \in 1..(n + 1) : app[i] = IF i = n + 1 THEN c ELSE old[i]
    BY <1>2, <1>10
  <2>. HIDE DEF app
  <2>3. app = [i \in 1..(n + 1) |-> app[i]]
    BY <1>2, <2>1
  <2>. QED BY <2>2, <2>3
<1>14. new = app
  <2>1. \A i \in 1..(n + 1) : new[i] = IF i = n + 1 THEN c ELSE old[i]
    <3>. HIDE DEF old, new
    <3>. QED BY <1>2, <1>11, <1>12
  <2>. HIDE DEF old, app
  <2>. QED BY <1>13, <2>1
<1>. QED BY <1>6, <1>9, <1>14 DEF t

\* Reading takes the first byte of the contents.
LEMMA ReadLemma ==
  ASSUME NEW r, RingInv(r), ~ is_empty(r)
  PROVE  /\ RingInv(ringbuf_read(r))
         /\ Contents(r) # << >>
         /\ r.buf[wrap(r.head)] = Head(Contents(r))
         /\ r.buf[wrap(r.head)] \in Bytes
         /\ Contents(ringbuf_read(r)) = Tail(Contents(r))
<1>. DEFINE t == ringbuf_read(r)
            n == ringbuf_available(r)
<1>1. SIZE \in Nat /\ SIZE >= 2 /\ r.head \in 0..SIZE /\ r.tail \in 0..SIZE
      /\ r.buf \in [Slots -> Bytes]
  BY RingAssumption DEF RingInv, RingType
<1>2. n \in Nat /\ n > 0 /\ n <= SIZE - 1
  BY <1>1, FullLemma DEF RingInv
<1>3. wrap(r.head) \in Slots
  BY <1>1 DEF wrap, Slots
<1>4. /\ t.buf = r.buf /\ t.tail = r.tail /\ t.head = wrap(r.head) + 1
      /\ t \in [buf : [Slots -> Bytes], head : 0..SIZE, tail : 0..SIZE]
  BY <1>1, <1>3 DEF ringbuf_read, RingInv, RingType, Slots
<1>. HIDE DEF t
<1>5. ringbuf_available(t) = n - 1 /\ r.tail # 0
  BY <1>1, <1>2, <1>4 DEF ringbuf_available, wrap, RingInv
<1>6. RingInv(t)
  BY <1>1, <1>2, <1>4, <1>5 DEF RingInv, RingType
<1>7. \A i \in 1..n : RING_INDEX(r.head + i - 1) \in Slots
  <2>. SUFFICES ASSUME NEW i \in 1..n PROVE RING_INDEX(r.head + i - 1) \in Slots
    OBVIOUS
  <2>1. r.head + i - 1 \in 0..(2 * SIZE - 1)
    BY <1>1, <1>2
  <2>. QED BY <1>1, <1>2, <2>1, IndexLemma DEF Slots, ringbuf_available, RingInv
<1>8. \A i \in 1..(n - 1) : RING_INDEX(t.head + i - 1) = RING_INDEX(r.head + (i + 1) - 1)
  <2>. SUFFICES ASSUME NEW i \in 1..(n - 1)
                PROVE  RING_INDEX(t.head + i - 1) = RING_INDEX(r.head + (i + 1) - 1)
    OBVIOUS
  <2>. DEFINE x == r.head + (i + 1) - 1
              y == t.head + i - 1
  <2>1. x \in 0..(2 * SIZE - 1) /\ y \in 0..(2 * SIZE - 1)
    BY <1>1, <1>2, <1>4 DEF wrap
  <2>2. /\ RING_INDEX(x) = IF x < SIZE THEN x ELSE x - SIZE
        /\ RING_INDEX(y) = IF y < SIZE THEN y ELSE y - SIZE
    <3>. HIDE DEF x, y
    <3>. QED BY <2>1, IndexLemma
  <2>. QED BY <1>1, <1>2, <1>4, <2>2 DEF wrap
<1>9. RING_INDEX(r.head + 1 - 1) = wrap(r.head)
  <2>1. r.head + 1 - 1 \in 0..(2 * SIZE - 1)
    BY <1>1
  <2>. QED BY <1>1, <2>1, IndexLemma DEF wrap
<1>. DEFINE old == [i \in 1..n |-> r.buf[RING_INDEX(r.head + i - 1)]]
            new == [i \in 1..(n - 1) |-> r.buf[RING_INDEX(t.head + i - 1)]]
<1>10. Contents(r) = old /\ Contents(t) = new
  BY <1>4, <1>5 DEF Contents
<1>11. old \in Seq(Bytes) /\ Len(old) = n /\ old[1] = r.buf[wrap(r.head)]
  <2>1. old \in Seq(Bytes) /\ Len(old) = n
    BY <1>1, <1>2, <1>7
  <2>2. old[1] = r.buf[wrap(r.head)]
    BY <1>2, <1>9
  <2>. QED BY <2>1, <2>2
<1>12. \A i \in 1..(n - 1) : new[i] = old[i + 1]
  BY <1>2, <1>8
<1>. HIDE DEF old
<1>13. old # << >> /\ Head(old) = old[1] /\ Tail(old) = [i \in 1..(n - 1) |-> old[i + 1]]
  <2>. HIDE DEF n
  <2>. DEFINE tl == Tail(old)
  <2>1. old # << >> /\ Head(old) = old[1]
    BY <1>2, <1>11
  <2>2. tl \in Seq(Bytes) /\ Len(tl) = n - 1
    BY <1>2, <1>11, <2>1
  <2>3. \A i \in 1..(n - 1) : tl[i] = old[i + 1]
    BY <1>2, <1>11, <2>1
  <2>. HIDE DEF tl
  <2>4. tl = [i \in 1..(n - 1) |-> tl[i]]
    BY <1>2, <2>2
  <2>. QED BY <2>1, <2>3, <2>4 DEF tl
<1>14. new = [i \in 1..(n - 1) |-> old[i + 1]]
  BY <1>12
<1>. QED BY <1>1, <1>3, <1>6, <1>10, <1>11, <1>13, <1>14 DEF t

\* What is in the buffer is a sequence of bytes.
LEMMA ContentsLemma ==
  ASSUME NEW r, RingInv(r)
  PROVE  /\ Contents(r) \in Seq(Bytes) /\ Len(Contents(r)) = ringbuf_available(r)
         /\ ringbuf_available(r) \in Nat
<1>. DEFINE n == ringbuf_available(r)
<1>1. SIZE \in Nat /\ SIZE >= 2 /\ r.head \in 0..SIZE /\ r.buf \in [Slots -> Bytes]
      /\ n \in Nat /\ n <= SIZE - 1
  BY RingAssumption, FullLemma DEF RingInv, RingType
<1>. HIDE DEF n
<1>2. ASSUME NEW i \in 1..n PROVE r.buf[RING_INDEX(r.head + i - 1)] \in Bytes
  <2>. DEFINE x == r.head + i - 1
  <2>1. x \in 0..(2 * SIZE - 1)
    BY <1>1
  <2>. HIDE DEF x
  <2>2. RING_INDEX(x) \in Slots
    BY <1>1, <2>1, IndexLemma DEF Slots
  <2>. QED BY <1>1, <2>2 DEF x
<1>3. Contents(r) = [i \in 1..n |-> r.buf[RING_INDEX(r.head + i - 1)]]
  BY DEF Contents, n
<1>. QED BY <1>1, <1>2, <1>3 DEF n

\* Before the indices wrapped, ringbuf_unwrite takes back the byte written last.
LEMMA UnwriteLemma ==
  ASSUME NEW r, RingInv(r), ~ is_empty(r), r.head <= r.tail
  PROVE  LET u == ringbuf_unwrite(r)
         IN  /\ RingInv(u) /\ u.head = r.head /\ u.tail = r.tail - 1 /\ u.head <= u.tail
             /\ Contents(u) = SubSeq(Contents(r), 1, Len(Contents(r)) - 1)
<1>. DEFINE u == ringbuf_unwrite(r)
            n == ringbuf_available(r)
<1>1. /\ SIZE \in Nat /\ SIZE >= 2 /\ r.head \in 0..SIZE /\ r.tail \in 0..SIZE
      /\ r \in [buf : [Slots -> Bytes], head : 0..SIZE, tail : 0..SIZE]
      /\ r.head < r.tail
  <2>1. /\ SIZE \in Nat /\ SIZE >= 2
        /\ r \in [buf : [Slots -> Bytes], head : 0..SIZE, tail : 0..SIZE]
    BY RingAssumption DEF RingInv, RingType
  <2>2. r.head # r.tail
    BY DEF is_empty
  <2>. QED BY <2>1, <2>2
<1>2. u = [r EXCEPT !.tail = r.tail - 1]
  BY <1>1 DEF ringbuf_unwrite
<1>3. r.tail - 1 \in 0..SIZE
  BY <1>1
<1>. HIDE DEF u
<1>4. /\ u.buf = r.buf /\ u.head = r.head /\ u.tail = r.tail - 1
      /\ u \in [buf : [Slots -> Bytes], head : 0..SIZE, tail : 0..SIZE]
  BY <1>1, <1>2, <1>3
<1>5. n = r.tail - r.head /\ ringbuf_available(u) = n - 1 /\ n \in Nat \ {0} /\ n <= SIZE - 1
  BY <1>1, <1>4 DEF ringbuf_available, RingInv
<1>6. RingInv(u)
  BY <1>1, <1>4, <1>5 DEF RingInv, RingType
<1>7. Contents(r) \in Seq(Bytes) /\ Len(Contents(r)) = n
  BY ContentsLemma
<1>. HIDE DEF n
<1>8. Contents(r) = [i \in 1..n |-> r.buf[RING_INDEX(r.head + i - 1)]]
  BY DEF Contents, n
<1>9. Contents(u) = [i \in 1..(n - 1) |-> r.buf[RING_INDEX(r.head + i - 1)]]
  BY <1>4, <1>5 DEF Contents
<1>10. Contents(u) = [i \in 1..(n - 1) |-> Contents(r)[i]]
  BY <1>5, <1>8, <1>9
<1>. DEFINE c == Contents(r)
<1>11. SubSeq(c, 1, n - 1) = [i \in 1..(n - 1) |-> c[i]]
  <2>1. c \in Seq(Bytes) /\ Len(c) = n /\ n \in Nat \ {0}
    BY <1>5, <1>7
  <2>. HIDE DEF c
  <2>. QED BY <2>1
<1>. QED BY <1>1, <1>4, <1>6, <1>7, <1>10, <1>11 DEF u

-----------------------------------------------------------------------------
\* A buffer that is read and written, as a pipe does, never gets into a state
\* in which its two tests for emptiness disagree.
THEOREM RingSafe == Spec => [](EmptyIsEmpty /\ RingInv(ring))
<1>1. Init => RingInv(ring)
  BY RingAssumption DEF Init, RingInv, RingType, ringbuf_available, Slots
<1>2. RingInv(ring) /\ [Next]_vars => RingInv(ring)'
  <2>. SUFFICES ASSUME RingInv(ring), [Next]_vars PROVE RingInv(ring')
    OBVIOUS
  <2>1. CASE Write
    BY <2>1, StoreLemma DEF Write, ringbuf_write
  <2>2. CASE Read
    BY <2>2, ReadLemma DEF Read
  <2>3. CASE UNCHANGED vars
    BY <2>3 DEF vars
  <2>. QED BY <2>1, <2>2, <2>3 DEF Next
<1>3. RingInv(ring) => EmptyIsEmpty
  BY FullLemma DEF EmptyIsEmpty
<1>. QED BY <1>1, <1>2, <1>3, PTL DEF Spec

\* Such a buffer implements a FIFO of SIZE - 1 bytes: nothing is lost, repeated
\* or reordered, whatever the size and however often the indices wrap.
THEOREM RingImplementsFifo == Spec => IsFifo
<1>1. Init => Fifo!Init
  <2>. SUFFICES ASSUME Init PROVE Fifo!Init
    OBVIOUS
  <2>1. ringbuf_available(ring) = 0 /\ got = None
    BY RingAssumption DEF Init, ringbuf_available
  <2>2. Contents(ring) = << >>
    BY <2>1 DEF Contents
  <2>. QED BY <2>1, <2>2 DEF Fifo!Init
<1>2. RingInv(ring) /\ [Next]_vars => [Fifo!Next]_<<Contents(ring), got>>
  <2>. SUFFICES ASSUME RingInv(ring), [Next]_vars
                PROVE  Fifo!Next \/ (Contents(ring)' = Contents(ring) /\ got' = got)
    OBVIOUS
  <2>1. CASE Write
    <3>1. PICK c \in Bytes : ring' = ringbuf_write(ring, c) /\ got' = got
      BY <2>1 DEF Write
    <3>2. Len(Contents(ring)) = ringbuf_available(ring)
      BY FullLemma DEF Contents
    <3>3. Contents(ring)' = IF Len(Contents(ring)) < SIZE - 1
                            THEN Append(Contents(ring), c) ELSE Contents(ring)
      <4>1. CASE is_full(ring)
        BY <3>1, <3>2, <4>1, FullLemma, RingAssumption DEF ringbuf_write
      <4>2. CASE ~ is_full(ring)
        <5>1. Len(Contents(ring)) < SIZE - 1
          BY <3>2, <4>2, FullLemma, RingAssumption DEF RingInv
        <5>2. Contents(ring') = Append(Contents(ring), c)
          BY <3>1, <4>2, StoreLemma DEF ringbuf_write
        <5>. QED BY <5>1, <5>2
      <4>. QED BY <4>1, <4>2
    <3>. QED BY <3>1, <3>3 DEF Fifo!Next, Fifo!Put
  <2>2. CASE Read
    BY <2>2, ReadLemma DEF Read, Fifo!Next, Fifo!Get
  <2>3. CASE UNCHANGED vars
    BY <2>3 DEF vars
  <2>. QED BY <2>1, <2>2, <2>3 DEF Next
<1>. QED BY <1>1, <1>2, RingSafe, PTL DEF Spec, IsFifo, Fifo!Spec
=============================================================================
