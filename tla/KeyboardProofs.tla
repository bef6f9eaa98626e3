-------------------------- MODULE KeyboardProofs ----------------------------
(***************************************************************************)
(* Proofs about module Keyboard, for every size of the buffer, every user  *)
(* and every number of processes.  Ctrl-C kills a process that waits for   *)
(* the keyboard, or any other; programs kill only what could run.          *)
(***************************************************************************)
EXTENDS Keyboard, KernelProofs, SequenceTheorems

-----------------------------------------------------------------------------
(***************************************************************************)
(* The inductive invariant.                                                *)
(***************************************************************************)

KbShape(b) ==
  b = [ring |-> b.ring, line_len |-> b.line_len, canonical |-> b.canonical,
       waiting |-> b.waiting, ctrl |-> b.ctrl, arrow |-> b.arrow]

AtTerminal(s, p) == s.status[p] = "BLOCKED" /\ s.block_reason[p] = "TERMINAL"

\* Queue q of the driver holds at most one process, the one that is blocked for
\* the terminal, and proc_kill finds the queue through pcb.waiting_on.
Reader(s, q) ==
  /\ q \in Seq(Pids) /\ Len(q) <= 1
  /\ \A p \in Pids : InQueue(q, p) <=> AtTerminal(s, p)
  /\ \A p \in Pids : AtTerminal(s, p) => s.waiting_on[p] = "resource"

KbInv ==
  /\ Inv(k) /\ Family(k)
  /\ KbShape(kb) /\ Reader(k, kb.waiting)
  /\ reading \subseteq Pids \ {0, 1}

-----------------------------------------------------------------------------
(***************************************************************************)
(* No key and no read of the buffer touches the queue of the driver or its *)
(* mode: only the wake-up that follows, and sys_set_canonical, do.         *)
(***************************************************************************)

SameQueue(b, a) ==
  KbShape(a) /\ a.waiting = b.waiting /\ a.canonical = b.canonical

LEMMA FieldsLemma ==
  ASSUME NEW b, KbShape(b), NEW v
  PROVE  /\ SameQueue(b, b)
         /\ SameQueue(b, [b EXCEPT !.ring = v])
         /\ SameQueue(b, [b EXCEPT !.line_len = v])
         /\ KbShape([b EXCEPT !.canonical = v])
         /\ [b EXCEPT !.canonical = v].waiting = b.waiting
         /\ SameQueue(b, [b EXCEPT !.ctrl = v])
         /\ SameQueue(b, [b EXCEPT !.arrow = v])
         /\ KbShape([b EXCEPT !.waiting = v])
         /\ [b EXCEPT !.waiting = v].waiting = v
BY DEF KbShape, SameQueue

\* put, put_char and put_newline.
LEMMA PutLemma ==
  ASSUME NEW b, KbShape(b), NEW c
  PROVE  /\ SameQueue(b, put(b, c)) /\ SameQueue(b, put_char(b, c))
         /\ SameQueue(b, put_newline(b))
<1>1. ASSUME NEW d PROVE SameQueue(b, put(b, d))
  BY FieldsLemma DEF put
<1>2. ASSUME NEW d, NEW v PROVE SameQueue(b, [put(b, d) EXCEPT !.line_len = v])
  <2>. DEFINE a == put(b, d)
  <2>1. KbShape(a) /\ SameQueue(b, a)
    BY <1>1 DEF SameQueue
  <2>. HIDE DEF a
  <2>2. SameQueue(a, [a EXCEPT !.line_len = v])
    BY <2>1, FieldsLemma
  <2>. QED BY <2>1, <2>2 DEF SameQueue, a
<1>. QED BY <1>1, <1>2 DEF put_char, put_newline

LEMMA SameQueueTwice ==
  ASSUME NEW b, NEW a, NEW c, SameQueue(b, a), SameQueue(a, c)
  PROVE  SameQueue(b, c)
BY DEF SameQueue

LEMMA BackspaceLemma ==
  ASSUME NEW b, KbShape(b)
  PROVE  SameQueue(b, backspace(b))
<1>. DEFINE r == IF Buf!is_empty(b.ring) THEN b.ring ELSE Buf!ringbuf_unwrite(b.ring)
            a == [b EXCEPT !.ring = r]
<1>1. SameQueue(b, a) /\ SameQueue(b, b)
  <2>. HIDE DEF r
  <2>. QED BY FieldsLemma
<1>2. backspace(b) = IF b.line_len = 0 THEN b ELSE [a EXCEPT !.line_len = b.line_len - 1]
  BY DEF backspace, KbShape
<1>. HIDE DEF a
<1>3. SameQueue(a, [a EXCEPT !.line_len = b.line_len - 1])
  BY <1>1, FieldsLemma DEF SameQueue
<1>. QED BY <1>1, <1>2, <1>3, SameQueueTwice

LEMMA CtrlDLemma ==
  ASSUME NEW b, KbShape(b)
  PROVE  SameQueue(b, handle_ctrl_d(b))
<1>. DEFINE a == IF b.line_len = 0 THEN put(b, "eof") ELSE b
<1>1. SameQueue(b, b) /\ SameQueue(b, a)
  BY FieldsLemma, PutLemma
<1>2. handle_ctrl_d(b) = IF b.waiting = << >> THEN b ELSE put(a, "nl")
  BY DEF handle_ctrl_d
<1>. HIDE DEF a
<1>3. SameQueue(a, put(a, "nl"))
  BY <1>1, PutLemma DEF SameQueue
<1>. QED BY <1>1, <1>2, <1>3, SameQueueTwice

LEMMA TabLemma ==
  ASSUME NEW b, KbShape(b)
  PROVE  SameQueue(b, put_char(put_char(put_char(put_char(b, "x"), "x"), "x"), "x"))
<1>. DEFINE c == put_char(b, "x")
            d == put_char(c, "x")
            e == put_char(d, "x")
<1>1. SameQueue(b, c)
  BY PutLemma
<1>. HIDE DEF c
<1>2. SameQueue(c, d)
  BY <1>1, PutLemma DEF SameQueue
<1>. HIDE DEF d
<1>3. SameQueue(d, e)
  BY <1>2, PutLemma DEF SameQueue
<1>. HIDE DEF e
<1>4. SameQueue(e, put_char(e, "x"))
  BY <1>3, PutLemma DEF SameQueue
<1>. QED BY <1>1, <1>2, <1>3, <1>4, SameQueueTwice DEF c, d, e

LEMMA KeyPressLemma ==
  ASSUME NEW b, KbShape(b), NEW key
  PROVE  SameQueue(b, handle_key_press(b, key))
<1>1. handle_key_press(b, key) \in
        {[b EXCEPT !.ctrl = TRUE], [b EXCEPT !.ctrl = FALSE], [b EXCEPT !.arrow = TRUE],
         handle_ctrl_d(b), b, [b EXCEPT !.arrow = FALSE], backspace(b),
         put_char(put_char(put_char(put_char(b, "x"), "x"), "x"), "x"),
         put_newline(b), put_char(b, "x")}
  BY Zenon DEF handle_key_press
<1>2. \A a \in {[b EXCEPT !.ctrl = TRUE], [b EXCEPT !.ctrl = FALSE], [b EXCEPT !.arrow = TRUE],
                b, [b EXCEPT !.arrow = FALSE]} : SameQueue(b, a)
  <2>1. \A v : SameQueue(b, [b EXCEPT !.ctrl = v]) /\ SameQueue(b, [b EXCEPT !.arrow = v])
    BY FieldsLemma
  <2>2. SameQueue(b, b)
    BY FieldsLemma
  <2>. QED BY <2>1, <2>2
<1>3. \A a \in {handle_ctrl_d(b), backspace(b), put_newline(b), put_char(b, "x"),
                put_char(put_char(put_char(put_char(b, "x"), "x"), "x"), "x")} : SameQueue(b, a)
  BY CtrlDLemma, BackspaceLemma, PutLemma, TabLemma
<1>. QED BY <1>1, <1>2, <1>3

-----------------------------------------------------------------------------
(***************************************************************************)
(* What the steps do to the reader.                                        *)
(***************************************************************************)

\* Nobody starts or stops to wait.
LEMMA ReaderStays ==
  ASSUME NEW s, NEW t, NEW q, Reader(s, q), SameWaits(s, t)
  PROVE  Reader(t, q)
<1>1. \A p \in Pids : /\ AtTerminal(t, p) <=> AtTerminal(s, p)
                      /\ AtTerminal(s, p) => t.waiting_on[p] = s.waiting_on[p]
  BY DEF SameWaits, SameWait, OnResource, Resources, AtTerminal
<1>. QED BY <1>1 DEF Reader

\* A queue that is not empty and holds at most one holds one.
LEMMA SingleLemma ==
  ASSUME NEW S, NEW q \in Seq(S), Len(q) <= 1, q # << >>
  PROVE  Len(q) = 1 /\ Tail(q) = << >>
<1>1. Len(q) \in Nat \ {0}
  BY EmptySeq, Zenon
<1>2. Len(q) = 1
  <2>. DEFINE n == Len(q)
  <2>1. n \in Nat \ {0} /\ n <= 1
    BY <1>1
  <2>. HIDE DEF n
  <2>2. n = 1
    BY ONLY <2>1
  <2>. QED BY <2>2 DEF n
<1>3. Tail(q) \in Seq(S) /\ Len(Tail(q)) = 0
  BY <1>2
<1>4. ~ Len(Tail(q)) \in Nat \ {0}
  BY ONLY <1>3
<1>. QED BY <1>2, <1>3, <1>4, EmptySeq, Zenon

\* The reader is woken.
LEMMA ReaderWoken ==
  ASSUME NEW s, Inv(s), Family(s), NEW q, Reader(s, q), q # << >>
  PROVE  LET t == proc_ready(s, dequeue_value(q))
         IN  Inv(t) /\ Family(t) /\ Reader(t, dequeue(q))
<1>. DEFINE w == dequeue_value(q)
            t == proc_ready(s, w)
<1>1. q \in Seq(Pids) /\ Len(q) = 1 /\ Tail(q) = << >>
  BY SingleLemma DEF Reader
<1>2. w = q[1] /\ w \in Pids /\ InQueue(q, w) /\ \A p \in Pids : InQueue(q, p) => p = w
  BY <1>1 DEF dequeue_value, InQueue
<1>3. dequeue(q) = << >>
  BY <1>1 DEF dequeue
<1>4. AtTerminal(s, w) /\ \A p \in Pids : AtTerminal(s, p) => p = w
  BY <1>2 DEF Reader
<1>. HIDE DEF w
<1>5. Inv(t) /\ Family(t)
  BY <1>2, <1>4, WakeLemma, FamilyWake DEF AtTerminal
<1>6. Types(s)
  BY DEF Inv, Core, Queues
<1>7. /\ t.status = [s.status EXCEPT ![w] = "READY"]
      /\ t.block_reason = [s.block_reason EXCEPT ![w] = "NONE"]
  BY <1>2, <1>6, ReadyFrame
<1>. HIDE DEF t
<1>8. \A p \in Pids : ~ AtTerminal(t, p)
  BY <1>2, <1>4, <1>6, <1>7 DEF AtTerminal, Types
<1>9. Reader(t, << >>)
  BY <1>8 DEF Reader, InQueue
<1>. QED BY <1>3, <1>5, <1>9 DEF t, w

\* Ctrl-C, of a process that waits for the keyboard or of another one.
LEMMA ReaderKilled ==
  ASSUME NEW s, Inv(s), NEW p \in Pids \ {0, 1}, NEW q, Reader(s, q)
  PROVE  Reader(proc_kill(s, p),
                IF s.waiting_on[p] = "resource" THEN queue_remove(q, p) ELSE q)
<1>. DEFINE t == proc_kill(s, p)
            r == IF s.waiting_on[p] = "resource" THEN queue_remove(q, p) ELSE q
<1>1. ~ OnResource(t, p) /\ \A u \in Pids \ {p} : SameWait(s, t, u)
  BY KillWaits
<1>2. q \in Seq(Pids) /\ NoDuplicates(q) /\ Len(q) <= 1
  BY DEF Reader, NoDuplicates
<1>3. /\ queue_remove(q, p) \in Seq(Pids)
      /\ \A u \in Pids : InQueue(queue_remove(q, p), u) <=> InQueue(q, u) /\ u # p
  BY <1>2, QueueRemoveLemma
<1>4. Len(queue_remove(q, p)) <= 1
  BY <1>2 DEF queue_remove
<1>5. /\ r \in Seq(Pids) /\ Len(r) <= 1
      /\ \A u \in Pids : InQueue(r, u) <=> InQueue(q, u) /\ u # p
  <2>1. CASE s.waiting_on[p] = "resource"
    BY <1>3, <1>4, <2>1
  <2>2. CASE s.waiting_on[p] # "resource"
    <3>1. ~ InQueue(q, p)
      BY <2>2 DEF Reader
    <3>. QED BY <1>2, <2>2, <3>1
  <2>. QED BY <2>1, <2>2
<1>. HIDE DEF t, r
<1>6. \A u \in Pids : /\ AtTerminal(t, u) <=> AtTerminal(s, u) /\ u # p
                      /\ AtTerminal(t, u) => t.waiting_on[u] = s.waiting_on[u]
  BY <1>1 DEF SameWait, OnResource, Resources, AtTerminal
<1>7. Reader(t, r)
  BY <1>5, <1>6 DEF Reader
<1>. QED BY <1>7 DEF t, r

\* The running process finds no line and nobody waiting: it waits.
LEMMA ReaderBlocks ==
  ASSUME NEW s, Inv(s), Family(s), Reader(s, << >>), s.current \in Pids \ {0}
  PROVE  LET t == block_current(s, "TERMINAL", "resource")
         IN  Inv(t) /\ Family(t) /\ Reader(t, enqueue(<< >>, s.current))
<1>. DEFINE c == s.current
            t == block(s, c, "TERMINAL", "resource")
<1>1. /\ c \in Pids \ {0} /\ c # NULL /\ s.status[c] = "RUNNING" /\ c \in Living(s) \ {0}
      /\ "TERMINAL" \in BlockReasons /\ "resource" \in WaitingOn
  BY PidsLemma DEF Inv, Core, Living, BlockReasons, WaitingOn
<1>2. block_current(s, "TERMINAL", "resource") = t
  BY <1>1 DEF block_current
<1>. HIDE DEF c
<1>3. Inv(t) /\ Family(t)
  BY <1>1, BlockLemma, FamilyBlock
<1>4. /\ t.status[c] = "BLOCKED" /\ t.block_reason[c] = "TERMINAL"
      /\ t.waiting_on[c] = "resource" /\ \A u \in Pids \ {c} : SameStatus(s, t, u)
  BY <1>1, BlockFrame
<1>. HIDE DEF t
<1>5. \A u \in Pids : /\ AtTerminal(t, u) <=> u = c
                      /\ AtTerminal(t, u) => t.waiting_on[u] = "resource"
  <2>1. \A u \in Pids : ~ AtTerminal(s, u)
    BY DEF Reader, InQueue
  <2>. QED BY <1>1, <1>4, <2>1 DEF AtTerminal, SameStatus, Stopped
<1>6. Reader(t, <<c>>)
  BY <1>1, <1>5 DEF Reader, InQueue
<1>. QED BY <1>2, <1>3, <1>6 DEF enqueue, c

-----------------------------------------------------------------------------
(***************************************************************************)
(* The invariant, action by action.                                        *)
(***************************************************************************)

LEMMA KeyStep ==
  ASSUME KbInv, Key
  PROVE  KbInv'
<1>1. PICK key \in user.keys :
        \E after \in {handle_key_press(kb, key)} :
          IF wakes_reader(kb, key, after)
          THEN /\ kb' = [after EXCEPT !.waiting = dequeue(@)]
               /\ k' = proc_ready(k, dequeue_value(after.waiting))
          ELSE kb' = after /\ UNCHANGED k
  BY DEF Key
<1>. DEFINE after == handle_key_press(kb, key)
            woken == [after EXCEPT !.waiting = dequeue(after.waiting)]
<1>2. KbShape(after) /\ after.waiting = kb.waiting /\ reading' = reading
  BY KeyPressLemma DEF KbInv, SameQueue, Key
<1>3. IF wakes_reader(kb, key, after)
      THEN kb' = woken /\ k' = proc_ready(k, dequeue_value(after.waiting))
      ELSE kb' = after /\ k' = k
  BY <1>1
<1>. HIDE DEF after
<1>4. CASE wakes_reader(kb, key, after)
  <2>1. kb.waiting # << >>
    BY <1>4 DEF wakes_reader
  <2>2. KbShape(woken) /\ woken.waiting = dequeue(kb.waiting)
    BY <1>2, FieldsLemma
  <2>. HIDE DEF woken
  <2>3. Inv(k') /\ Family(k') /\ Reader(k', dequeue(kb.waiting))
    BY <1>2, <1>3, <1>4, <2>1, ReaderWoken DEF KbInv
  <2>. QED BY <1>2, <1>3, <1>4, <2>2, <2>3 DEF KbInv
<1>5. CASE ~ wakes_reader(kb, key, after)
  BY <1>2, <1>3, <1>5 DEF KbInv
<1>. QED BY <1>4, <1>5

LEMMA InterruptStep ==
  ASSUME KbInv, InterruptKey
  PROVE  KbInv'
<1>. DEFINE p == k.foreground
            r == IF k.waiting_on[p] = "resource" THEN queue_remove(kb.waiting, p)
                 ELSE kb.waiting
<1>1. p \in Living(k) \ {0, 1} /\ p \in Pids \ {0, 1}
  BY DEF KbInv, InterruptKey, Family, Kin, TerminalOwner, Living
<1>2. k' = proc_kill(k, p) /\ kb' = unlink_reader(kb, p) /\ reading' \subseteq reading
  BY DEF InterruptKey
<1>3. KbShape(kb') /\ kb'.waiting = r
  <2>1. kb' = [kb EXCEPT !.waiting = r] \/ (kb' = kb /\ r = kb.waiting)
    BY <1>2 DEF unlink_reader
  <2>. HIDE DEF r
  <2>2. KbShape(kb) /\ KbShape([kb EXCEPT !.waiting = r])
        /\ [kb EXCEPT !.waiting = r].waiting = r
    BY FieldsLemma DEF KbInv
  <2>. QED BY <2>1, <2>2
<1>. HIDE DEF p
<1>4. Inv(k') /\ Family(k') /\ Reader(k', r)
  BY <1>1, <1>2, KillLemma, FamilyKill, ReaderKilled DEF KbInv
<1>. QED BY <1>2, <1>3, <1>4 DEF KbInv

LEMMA ReadStep ==
  ASSUME KbInv, k.current \in Pids \ {0, 1}, ReadPass(k.current)
  PROVE  KbInv'
<1>1. CASE next_line_length(kb) > 0
  <2>1. kb' = get_line(kb) /\ k' = k /\ reading' \subseteq reading
    BY <1>1 DEF ReadPass
  <2>2. SameQueue(kb, get_line(kb))
    BY FieldsLemma DEF KbInv, get_line
  <2>. QED BY <2>1, <2>2 DEF KbInv, SameQueue
<1>2. CASE ~ next_line_length(kb) > 0 /\ kb.waiting # << >>
  <2>1. kb' = kb /\ k' = k /\ reading' \subseteq reading
    BY <1>2 DEF ReadPass
  <2>. QED BY <2>1 DEF KbInv
<1>3. CASE ~ next_line_length(kb) > 0 /\ kb.waiting = << >>
  <2>. DEFINE q == enqueue(kb.waiting, k.current)
  <2>1. /\ kb' = [kb EXCEPT !.waiting = q]
        /\ k' = block_current(k, "TERMINAL", "resource")
        /\ reading' = reading \cup {k.current}
    BY <1>3 DEF ReadPass
  <2>2. Inv(k') /\ Family(k') /\ Reader(k', q)
    BY <1>3, <2>1, ReaderBlocks DEF KbInv
  <2>. HIDE DEF q
  <2>3. KbShape(kb') /\ kb'.waiting = q
    BY <2>1, FieldsLemma DEF KbInv
  <2>. QED BY <2>1, <2>2, <2>3 DEF KbInv
<1>. QED BY <1>1, <1>2, <1>3

LEMMA KbStep ==
  ASSUME Orderly, KbInv, [KbNext]_kbVars
  PROVE  KbInv'
<1>0. k.current \in Pids \cup {NULL} /\ "ZOMBIE" \notin Killable
  BY DEF KbInv, Inv, Core, Queues, Types, Orderly
<1>1. CASE Key
  BY <1>1, KeyStep
<1>2. CASE InterruptKey
  BY <1>2, InterruptStep
<1>3. CASE ReadLine
  <2>1. k.current \in Pids \ {0, 1} /\ ReadPass(k.current)
    BY <1>0, <1>3 DEF ReadLine
  <2>. QED BY <2>1, ReadStep
<1>4. CASE ReadResume
  <2>1. k.current \in Pids \ {0, 1} /\ ReadPass(k.current)
    BY <1>4 DEF ReadResume, KbInv
  <2>. QED BY <2>1, ReadStep
<1>5. CASE SetMode
  <2>1. PICK mode \in user.modes : kb' = [kb EXCEPT !.canonical = mode]
    BY <1>5 DEF SetMode
  <2>2. KbShape(kb') /\ kb'.waiting = kb.waiting
    BY <2>1, FieldsLemma DEF KbInv, SameQueue
  <2>3. k' = k /\ reading' = reading
    BY <1>5 DEF SetMode
  <2>. QED BY <2>2, <2>3 DEF KbInv
<1>6. CASE KbKernelStep
  <2>1. Next /\ kb' = kb /\ reading' = reading
    BY <1>6 DEF KbKernelStep
  <2>2. Inv(k') /\ Family(k') /\ SameWaits(k, k')
    BY <1>0, <2>1, NextLemma, FamilyNext, NextWaits DEF KbInv
  <2>3. Reader(k', kb.waiting)
    BY <2>2, ReaderStays DEF KbInv
  <2>. QED BY <2>1, <2>2, <2>3 DEF KbInv
<1>7. CASE UNCHANGED kbVars
  BY <1>7 DEF KbInv, kbVars
<1>. QED BY <1>1, <1>2, <1>3, <1>4, <1>5, <1>6, <1>7 DEF KbNext

LEMMA KbStart ==
  ASSUME KbInit
  PROVE  KbInv
<1>1. PICK background \in BOOLEAN : k = main(background)
  BY DEF KbInit, Init
<1>2. Inv(k) /\ Family(k) /\ \A p \in Pids : k.status[p] # "BLOCKED"
  BY <1>1, BootLemma, FamilyBoot
<1>3. KbShape(kb) /\ kb.waiting = << >> /\ reading = {}
  BY DEF KbInit, NewKeyboard, KbShape
<1>4. Reader(k, << >>)
  BY <1>2 DEF Reader, AtTerminal, InQueue
<1>. QED BY <1>2, <1>3, <1>4 DEF KbInv

\* The invariant holds whatever is typed, read, interrupted and spawned, if
\* programs do not kill processes that are blocked.
THEOREM KeyboardInvariance ==
  ASSUME Orderly
  PROVE  KbSpec => []KbInv
<1>1. KbInit => KbInv
  BY KbStart
<1>2. KbInv /\ [KbNext]_kbVars => KbInv'
  BY KbStep
<1>. QED BY <1>1, <1>2, PTL DEF KbSpec

\* At most one process waits for the keyboard, and the queue of the driver and
\* the scheduler agree about which one: read_line enters the queue and blocks in
\* one step, a key takes the process out and makes it READY in one step, and
\* proc_kill unlinks it through pcb.waiting_on.
THEOREM OneReaderWaits ==
  ASSUME Orderly
  PROVE  KbSpec => []TerminalWaiter
<1>1. KbInv => TerminalWaiter
  BY DEF KbInv, Reader, AtTerminal, TerminalWaiter
<1>. QED BY <1>1, KeyboardInvariance, PTL

-----------------------------------------------------------------------------
(***************************************************************************)
(* The bytes in the buffer of the keyboard.                                *)
(***************************************************************************)

Ring == INSTANCE RingBufProofs WITH
  SIZE <- KBUFF_SIZE, Bytes <- {"x", "nl", "eof"}, None <- "none",
  ring <- kb, got <- kb

KbBytes == {"x", "nl", "eof"}

LEMMA RingHolds ==
  KBUFF_SIZE \in Nat /\ KBUFF_SIZE >= 2 /\ "none" \notin {"x", "nl", "eof"}
BY KeyboardAssumption

\* The module of the model and the module of the proofs have the same buffer.
LEMMA SameRing ==
  ASSUME NEW r
  PROVE  /\ Ring!is_full(r) <=> Buf!is_full(r)
         /\ Ring!is_empty(r) <=> Buf!is_empty(r)
         /\ Ring!ringbuf_available(r) = Buf!ringbuf_available(r)
         /\ Ring!Contents(r) = Buf!Contents(r)
         /\ Ring!ringbuf_read(r) = Buf!ringbuf_read(r)
         /\ Ring!ringbuf_unwrite(r) = Buf!ringbuf_unwrite(r)
         /\ \A c : Ring!ringbuf_write(r, c) = Buf!ringbuf_write(r, c)
<1>1. /\ Ring!is_full(r) <=> Buf!is_full(r)
      /\ Ring!is_empty(r) <=> Buf!is_empty(r)
      /\ Ring!ringbuf_available(r) = Buf!ringbuf_available(r)
  BY Zenon DEF Buf!is_full, Ring!is_full, Buf!is_empty, Ring!is_empty, Buf!RING_INDEX,
     Ring!RING_INDEX, Ring!ringbuf_available, Buf!ringbuf_available
<1>2. Ring!Contents(r) = Buf!Contents(r)
  BY <1>1, Zenon DEF Ring!Contents, Buf!Contents, Buf!RING_INDEX, Ring!RING_INDEX
<1>3. Ring!ringbuf_read(r) = Buf!ringbuf_read(r)
  BY Zenon DEF Ring!ringbuf_read, Buf!ringbuf_read, Ring!wrap, Buf!wrap
<1>4. Ring!ringbuf_unwrite(r) = Buf!ringbuf_unwrite(r)
  BY Zenon DEF Ring!ringbuf_unwrite, Buf!ringbuf_unwrite
<1>5. ASSUME NEW c PROVE Ring!ringbuf_write(r, c) = Buf!ringbuf_write(r, c)
  BY <1>1, Zenon DEF Ring!ringbuf_write, Buf!ringbuf_write, Ring!store, Buf!store,
     Ring!wrap, Buf!wrap
<1>. QED BY <1>1, <1>2, <1>3, <1>4, <1>5

\* What a buffer that obeys its invariant holds.
LEMMA BufferLemma ==
  ASSUME NEW r, Ring!RingInv(r)
  PROVE  /\ Buf!Contents(r) \in Seq(KbBytes)
         /\ Len(Buf!Contents(r)) = Buf!ringbuf_available(r)
         /\ Buf!ringbuf_available(r) \in Nat
         /\ Buf!is_full(r) <=> Len(Buf!Contents(r)) = KBUFF_SIZE - 1
         /\ Buf!is_empty(r) <=> Len(Buf!Contents(r)) = 0
         /\ Len(Buf!Contents(r)) <= KBUFF_SIZE - 1
         /\ r.head \in 0..KBUFF_SIZE /\ r.tail \in 0..KBUFF_SIZE
<1>1. /\ Ring!Contents(r) \in Seq({"x", "nl", "eof"})
      /\ Len(Ring!Contents(r)) = Ring!ringbuf_available(r)
      /\ Ring!ringbuf_available(r) \in Nat
  BY RingHolds, Ring!ContentsLemma
<1>2. /\ Ring!is_full(r) <=> Ring!ringbuf_available(r) = KBUFF_SIZE - 1
      /\ Ring!is_empty(r) <=> Ring!ringbuf_available(r) = 0
  BY RingHolds, Ring!FullLemma
<1>3. Ring!ringbuf_available(r) <= KBUFF_SIZE - 1
  BY DEF Ring!RingInv
<1>4. r.head \in 0..KBUFF_SIZE /\ r.tail \in 0..KBUFF_SIZE
  BY DEF Ring!RingInv, Ring!RingType
<1>. QED BY <1>1, <1>2, <1>3, <1>4, SameRing DEF KbBytes

\* A byte that fits is appended; the tail advances.
LEMMA WriteByte ==
  ASSUME NEW r, Ring!RingInv(r), NEW c \in KbBytes
  PROVE  LET w == Buf!ringbuf_write(r, c)
         IN  /\ Ring!RingInv(w) /\ w.head = r.head
             /\ Buf!Contents(w) = IF Len(Buf!Contents(r)) < KBUFF_SIZE - 1
                                  THEN Append(Buf!Contents(r), c) ELSE Buf!Contents(r)
             /\ r.head <= r.tail /\ r.tail < KBUFF_SIZE - 1 => w.tail = r.tail + 1
<1>. DEFINE w == Buf!ringbuf_write(r, c)
            n == Len(Buf!Contents(r))
<1>1. n \in Nat /\ n <= KBUFF_SIZE - 1 /\ (Buf!is_full(r) <=> n = KBUFF_SIZE - 1)
      /\ r.head \in 0..KBUFF_SIZE /\ r.tail \in 0..KBUFF_SIZE /\ KBUFF_SIZE \in Nat
      /\ Len(Buf!Contents(r)) = Buf!ringbuf_available(r)
  BY BufferLemma, RingHolds
<1>2. CASE Buf!is_full(r)
  <2>1. w = r
    BY <1>2 DEF Buf!ringbuf_write
  <2>2. ~ (r.head <= r.tail /\ r.tail < KBUFF_SIZE - 1)
    BY <1>1, <1>2 DEF Buf!ringbuf_available
  <2>3. ~ (n < KBUFF_SIZE - 1)
    BY <1>1, <1>2
  <2>. QED BY <2>1, <2>2, <2>3
<1>3. CASE ~ Buf!is_full(r)
  <2>1. n < KBUFF_SIZE - 1
    BY <1>1, <1>3
  <2>2. w = Ring!store(r, c)
    <3>1. ~ Ring!is_full(r) /\ w = Ring!ringbuf_write(r, c)
      BY <1>3, SameRing
    <3>. QED BY <3>1 DEF Ring!ringbuf_write
  <2>3. /\ Ring!RingInv(Ring!store(r, c))
        /\ Ring!Contents(Ring!store(r, c)) = Append(Ring!Contents(r), c)
    BY <1>3, SameRing, RingHolds, Ring!StoreLemma DEF KbBytes
  <2>4. Buf!Contents(w) = Append(Buf!Contents(r), c)
    BY <2>2, <2>3, SameRing
  <2>5. r \in [buf : [Ring!Slots -> KbBytes], head : 0..KBUFF_SIZE, tail : 0..KBUFF_SIZE]
    BY DEF Ring!RingInv, Ring!RingType, KbBytes
  <2>6. w.head = r.head /\ w.tail = Ring!wrap(r.tail) + 1
    BY <2>2, <2>5 DEF Ring!store
  <2>7. r.tail < KBUFF_SIZE - 1 => w.tail = r.tail + 1
    BY <1>1, <2>6 DEF Ring!wrap
  <2>. HIDE DEF w
  <2>. QED BY <2>1, <2>2, <2>3, <2>4, <2>6, <2>7 DEF w
<1>. QED BY <1>2, <1>3

\* A byte that is there is taken from the front; the head stays behind the tail.
LEMMA ReadByte ==
  ASSUME NEW r, Ring!RingInv(r), Len(Buf!Contents(r)) > 0
  PROVE  LET w == Buf!ringbuf_read(r)
         IN  /\ Ring!RingInv(w) /\ w.tail = r.tail
             /\ Buf!Contents(w) = Tail(Buf!Contents(r))
             /\ r.head <= r.tail => w.head <= w.tail
<1>. DEFINE w == Buf!ringbuf_read(r)
<1>1. ~ Ring!is_empty(r) /\ ~ Buf!is_empty(r)
  BY BufferLemma, SameRing
<1>2. /\ Ring!RingInv(Ring!ringbuf_read(r))
      /\ Ring!Contents(Ring!ringbuf_read(r)) = Tail(Ring!Contents(r))
  BY <1>1, RingHolds, Ring!ReadLemma
<1>3. r \in [buf : [Ring!Slots -> KbBytes], head : 0..KBUFF_SIZE, tail : 0..KBUFF_SIZE]
  BY DEF Ring!RingInv, Ring!RingType, KbBytes
<1>4. w.tail = r.tail /\ w.head = Buf!wrap(r.head) + 1
  BY <1>3 DEF Buf!ringbuf_read
<1>5. r.head <= r.tail => w.head <= w.tail
  <2>1. r.head # r.tail /\ r.head \in 0..KBUFF_SIZE /\ r.tail \in 0..KBUFF_SIZE
        /\ KBUFF_SIZE \in Nat
    BY <1>1, BufferLemma, RingHolds DEF Buf!is_empty
  <2>. QED BY <1>4, <2>1 DEF Buf!wrap
<1>6. Ring!RingInv(w) /\ Buf!Contents(w) = Tail(Buf!Contents(r))
  BY <1>2, SameRing
<1>. QED BY <1>4, <1>5, <1>6

\* The loop of ringbuf_read, step by step.
LEMMA ReadSteps ==
  ASSUME NEW r, NEW c \in Nat
  PROVE  \E f : /\ f[0] = r /\ read_bytes(r, c) = f[c]
                /\ \A n \in 1..c : f[n] = Buf!ringbuf_read(f[n - 1])
<1>. DEFINE G(f, m) == f = [n \in 0..m |-> IF n = 0 THEN r ELSE Buf!ringbuf_read(f[n - 1])]
            T == {m \in Nat : \E f : G(f, m)}
<1>1. 0 \in T
  <2>1. G([n \in 0..0 |-> r], 0)
    OBVIOUS
  <2>. QED BY <2>1
<1>2. ASSUME NEW m \in Nat, m \in T PROVE m + 1 \in T
  <2>1. PICK f : G(f, m)
    BY <1>2
  <2>. DEFINE g == [n \in 0..(m + 1) |-> IF n = m + 1 THEN Buf!ringbuf_read(f[m]) ELSE f[n]]
  <2>2. ASSUME NEW n \in 0..(m + 1)
        PROVE  g[n] = IF n = 0 THEN r ELSE Buf!ringbuf_read(g[n - 1])
    BY <2>1
  <2>3. G(g, m + 1)
    <3>1. g = [n \in 0..(m + 1) |-> g[n]]
      OBVIOUS
    <3>. HIDE DEF g
    <3>. QED BY <2>2, <3>1
  <2>. HIDE DEF g, G
  <2>. QED BY <2>3
<1>3. c \in T
  <2>. HIDE DEF T
  <2>1. Nat \subseteq T
    BY <1>1, <1>2, NatSet
  <2>. QED BY <2>1
<1>. DEFINE w == CHOOSE f : G(f, c)
<1>4. G(w, c)
  <2>1. \E f : G(f, c)
    BY <1>3
  <2>. HIDE DEF G
  <2>. QED BY <2>1
<1>5. read_bytes(r, c) = w[c]
  BY DEF read_bytes
<1>. HIDE DEF w
<1>6. w[0] = r /\ \A n \in 1..c : w[n] = Buf!ringbuf_read(w[n - 1])
  BY <1>4
<1>. QED BY <1>5, <1>6

\* Taking one more from the front.
LEMMA TailLemma ==
  ASSUME NEW S, NEW c \in Seq(S), NEW n \in 0..(Len(c) - 1)
  PROVE  LET d == SubSeq(c, n + 1, Len(c))
         IN  /\ Len(d) > 0 /\ d \in Seq(S)
             /\ Tail(d) = SubSeq(c, n + 2, Len(c))
<1>. DEFINE L == Len(c)
            d == SubSeq(c, n + 1, L)
            e == SubSeq(c, n + 2, L)
<1>1. L \in Nat /\ n \in Nat /\ n < L
  OBVIOUS
<1>2. d = [i \in 1..(L - n) |-> c[n + i]] /\ d \in Seq(S) /\ Len(d) = L - n
  <2>. HIDE DEF L
  <2>1. d \in Seq(S) /\ Len(d) = L - n /\ \A i \in 1..(L - n) : d[i] = c[n + i]
    BY <1>1 DEF L
  <2>. HIDE DEF d
  <2>. QED BY <1>1, <2>1
<1>3. e = [i \in 1..(L - n - 1) |-> c[n + 1 + i]]
  <2>1. e \in Seq(S) /\ Len(e) = L - n - 1 /\ \A i \in 1..(L - n - 1) : e[i] = c[n + 1 + i]
    BY <1>1
  <2>. HIDE DEF e
  <2>. QED BY <1>1, <2>1
<1>. HIDE DEF d, e, L
<1>4. Tail(d) = [i \in 1..(L - n - 1) |-> d[i + 1]]
  BY <1>1, <1>2
<1>5. \A i \in 1..(L - n - 1) : d[i + 1] = c[n + 1 + i]
  BY <1>1, <1>2
<1>6. Tail(d) = e
  BY <1>3, <1>4, <1>5
<1>. QED BY <1>1, <1>2, <1>6 DEF d, e, L

\* ringbuf_read takes n bytes from the front.
LEMMA ReadBytes ==
  ASSUME NEW r, Ring!RingInv(r), NEW m, m \in 0..Len(Buf!Contents(r))
  PROVE  LET w == read_bytes(r, m)
         IN  /\ Ring!RingInv(w) /\ w.tail = r.tail
             /\ Buf!Contents(w) = SubSeq(Buf!Contents(r), m + 1, Len(Buf!Contents(r)))
             /\ r.head <= r.tail => w.head <= w.tail
<1>. DEFINE c == Buf!Contents(r)
            L == Len(c)
<1>1. c \in Seq(KbBytes) /\ L \in Nat /\ m \in Nat /\ m <= L
  BY BufferLemma
<1>. HIDE DEF c
<1>2. PICK f : /\ f[0] = r /\ read_bytes(r, m) = f[m]
               /\ \A n \in 1..m : f[n] = Buf!ringbuf_read(f[n - 1])
  <2>1. m \in Nat
    BY <1>1
  <2>. QED BY ONLY <2>1, ReadSteps
<1>. DEFINE P(n) == /\ Ring!RingInv(f[n]) /\ f[n].tail = r.tail
                    /\ Buf!Contents(f[n]) = SubSeq(c, n + 1, L)
                    /\ r.head <= r.tail => f[n].head <= f[n].tail
            T == {n \in Nat : n <= m => P(n)}
<1>3. 0 \in T
  <2>1. SubSeq(c, 0 + 1, L) = c
    BY <1>1
  <2>2. P(0)
    <3>1. Buf!Contents(f[0]) = c /\ f[0] = r
      BY <1>2 DEF c
    <3>. QED BY <2>1, <3>1
  <2>. HIDE DEF P
  <2>. QED BY <2>2
<1>4. ASSUME NEW n \in Nat, n \in T PROVE n + 1 \in T
  <2>. SUFFICES ASSUME n + 1 <= m PROVE P(n + 1)
    <3>. HIDE DEF P
    <3>. QED OBVIOUS
  <2>1. P(n)
    <3>. HIDE DEF P
    <3>. QED BY <1>1, <1>4
  <2>2. f[n + 1] = Buf!ringbuf_read(f[n])
    <3>1. n + 1 \in 1..m /\ (n + 1) - 1 = n
      BY <1>1
    <3>. QED BY <1>2, <3>1
  <2>3. /\ Len(SubSeq(c, n + 1, L)) > 0
        /\ Tail(SubSeq(c, n + 1, L)) = SubSeq(c, n + 2, L)
    <3>1. n \in 0..(L - 1)
      BY <1>1
    <3>. QED BY <1>1, <3>1, TailLemma
  <2>. DEFINE u == f[n]
              v == Buf!ringbuf_read(u)
  <2>4. Ring!RingInv(u) /\ Len(Buf!Contents(u)) > 0
    BY <2>1, <2>3
  <2>. HIDE DEF u
  <2>5. /\ Ring!RingInv(v) /\ v.tail = u.tail /\ Buf!Contents(v) = Tail(Buf!Contents(u))
        /\ u.head <= u.tail => v.head <= v.tail
    BY <2>4, ReadByte
  <2>6. (n + 1) + 1 = n + 2
    OBVIOUS
  <2>. HIDE DEF v
  <2>. QED BY <2>1, <2>2, <2>3, <2>5, <2>6 DEF u, v
<1>5. P(m)
  <2>1. Nat \subseteq T
    <3>. HIDE DEF T
    <3>. QED BY <1>3, <1>4, NatSet
  <2>. HIDE DEF P
  <2>. QED BY <1>1, <2>1
<1>. QED BY <1>2, <1>5 DEF c

-----------------------------------------------------------------------------
(***************************************************************************)
(* The line.  The length the driver keeps also counts the bytes that found *)
(* no room, so it is exact only for a user who stays inside the buffer:    *)
(* that is what a user who edits has to do.                                *)
(***************************************************************************)

\* The user types no more than fits in front of the end of the buffer.
Editing(u) == u.start = 0 /\ u.limit \in Nat /\ u.limit <= KBUFF_SIZE - 1

\* Ctrl-D ends no line that has begun, and who uses the backspace stays in front
\* of the end of the buffer.  Lines that are not edited may go round it.
Discreet ==
  /\ ~ EofAnywhere
  /\ \A u \in Users : /\ u.start \in 0..KBUFF_SIZE
                      /\ "backspace" \in u.keys => Editing(u)

TypedShape(t) == t = [bytes |-> t.bytes, line |-> t.line, total |-> t.total]

BytesOK(b, t, u) ==
  /\ KbShape(b) /\ TypedShape(t)
  /\ Ring!RingInv(b.ring) /\ Buf!Contents(b.ring) = t.bytes
  /\ t.total \in Nat
  /\ Editing(u) => b.ring.head <= b.ring.tail /\ b.ring.tail <= t.total

CountOK(b, t, u) ==
  /\ b.line_len \in Nat /\ t.line \in 0..b.line_len
  /\ Editing(u) => t.line = b.line_len

LineOK(b, t, u) == BytesOK(b, t, u) /\ CountOK(b, t, u)

LineInv == user \in Users /\ LineOK(kb, typed, user)

\* A byte in the buffer is a byte the reader should get, and one that finds no
\* room is expected by nobody; while the user stays inside, there is room.
LEMMA PutBytes ==
  ASSUME NEW b, NEW t, NEW u, BytesOK(b, t, u), NEW c \in KbBytes,
         Editing(u) => t.total + 1 <= KBUFF_SIZE - 1
  PROVE  LET a == put(b, c)
             e == Expect(t, c)
         IN  /\ BytesOK(a, e, u) /\ a.line_len = b.line_len
             /\ e.total = t.total + 1
             /\ e.line = IF c # "x" THEN 0 ELSE IF Room(t) THEN t.line + 1 ELSE t.line
             /\ Editing(u) => Room(t)
<1>. DEFINE a == put(b, c)
            e == Expect(t, c)
            w == Buf!ringbuf_write(b.ring, c)
            r == b.ring
<1>1. /\ Ring!RingInv(r) /\ Buf!Contents(r) = t.bytes /\ t.total \in Nat
      /\ Editing(u) => r.head <= r.tail /\ r.tail <= t.total
  BY DEF BytesOK
<1>2. a = [b EXCEPT !.ring = w]
  BY DEF put
<1>. HIDE DEF a, w
<1>3. a.ring = w /\ a.line_len = b.line_len /\ KbShape(a)
  BY <1>2 DEF BytesOK, KbShape
<1>4. /\ e.bytes = IF Room(t) THEN Append(t.bytes, c) ELSE t.bytes
      /\ e.total = t.total + 1
      /\ e.line = IF c # "x" THEN 0 ELSE IF Room(t) THEN t.line + 1 ELSE t.line
      /\ TypedShape(e)
  BY DEF Expect, TypedShape
<1>. HIDE DEF e, r
<1>5. /\ Ring!RingInv(w) /\ w.head = r.head
      /\ Buf!Contents(w) = IF Len(Buf!Contents(r)) < KBUFF_SIZE - 1
                           THEN Append(Buf!Contents(r), c) ELSE Buf!Contents(r)
      /\ r.head <= r.tail /\ r.tail < KBUFF_SIZE - 1 => w.tail = r.tail + 1
  BY <1>1, WriteByte DEF w, r
<1>6. Buf!Contents(w) = e.bytes
  BY <1>1, <1>4, <1>5 DEF Room
<1>7. /\ r.head \in 0..KBUFF_SIZE /\ r.tail \in 0..KBUFF_SIZE /\ KBUFF_SIZE \in Nat
      /\ Len(t.bytes) = Buf!ringbuf_available(r)
  BY <1>1, BufferLemma, RingHolds
<1>8. ASSUME Editing(u)
      PROVE  w.head <= w.tail /\ w.tail <= e.total /\ Room(t)
  <2>1. r.head <= r.tail /\ r.tail <= t.total /\ t.total + 1 <= KBUFF_SIZE - 1
    BY <1>1, <1>8
  <2>2. r.tail < KBUFF_SIZE - 1
    BY <1>1, <1>7, <2>1
  <2>3. w.tail = r.tail + 1 /\ w.head = r.head
    BY <1>5, <2>1, <2>2
  <2>4. w.head <= w.tail /\ w.tail <= e.total
    BY <1>1, <1>4, <1>7, <2>1, <2>3
  <2>5. Room(t)
    BY <1>7, <2>1, <2>2 DEF Room, Buf!ringbuf_available
  <2>. QED BY <2>4, <2>5
<1>9. BytesOK(a, e, u)
  <2>1. e.total \in Nat
    BY <1>1, <1>4
  <2>. QED BY <1>3, <1>4, <1>5, <1>6, <1>8, <2>1 DEF BytesOK
<1>. QED BY <1>3, <1>4, <1>8, <1>9 DEF a, e

\* The fields that the bytes do not depend on.
LEMMA BytesFields ==
  ASSUME NEW b, NEW t, NEW u, BytesOK(b, t, u), NEW v
  PROVE  /\ BytesOK([b EXCEPT !.line_len = v], t, u)
         /\ [b EXCEPT !.line_len = v].line_len = v
         /\ BytesOK([b EXCEPT !.ctrl = v], t, u)
         /\ [b EXCEPT !.ctrl = v].line_len = b.line_len
         /\ BytesOK([b EXCEPT !.arrow = v], t, u)
         /\ [b EXCEPT !.arrow = v].line_len = b.line_len
         /\ BytesOK([b EXCEPT !.canonical = v], t, u)
         /\ [b EXCEPT !.canonical = v].line_len = b.line_len
         /\ BytesOK([b EXCEPT !.waiting = v], t, u)
         /\ [b EXCEPT !.waiting = v].line_len = b.line_len
<1>1. ASSUME NEW a, KbShape(a), a.ring = b.ring PROVE BytesOK(a, t, u)
  BY <1>1 DEF BytesOK
<1>2. KbShape(b)
  BY DEF BytesOK
<1>3. /\ KbShape([b EXCEPT !.line_len = v]) /\ [b EXCEPT !.line_len = v].ring = b.ring
      /\ KbShape([b EXCEPT !.ctrl = v]) /\ [b EXCEPT !.ctrl = v].ring = b.ring
      /\ KbShape([b EXCEPT !.arrow = v]) /\ [b EXCEPT !.arrow = v].ring = b.ring
      /\ KbShape([b EXCEPT !.canonical = v]) /\ [b EXCEPT !.canonical = v].ring = b.ring
      /\ KbShape([b EXCEPT !.waiting = v]) /\ [b EXCEPT !.waiting = v].ring = b.ring
  BY <1>2 DEF KbShape
<1>4. /\ [b EXCEPT !.line_len = v].line_len = v
      /\ [b EXCEPT !.ctrl = v].line_len = b.line_len
      /\ [b EXCEPT !.arrow = v].line_len = b.line_len
      /\ [b EXCEPT !.canonical = v].line_len = b.line_len
      /\ [b EXCEPT !.waiting = v].line_len = b.line_len
  BY <1>2 DEF KbShape
<1>. QED BY <1>1, <1>3, <1>4

\* A printable byte.
LEMMA CharLemma ==
  ASSUME NEW b, NEW t, NEW u, LineOK(b, t, u),
         Editing(u) => t.total + 1 <= KBUFF_SIZE - 1
  PROVE  LineOK(put_char(b, "x"), Expect(t, "x"), u) /\ Expect(t, "x").total = t.total + 1
<1>. DEFINE p == put(b, "x")
            a == put_char(b, "x")
            e == Expect(t, "x")
<1>1. /\ BytesOK(p, e, u) /\ p.line_len = b.line_len /\ e.total = t.total + 1
      /\ e.line = IF Room(t) THEN t.line + 1 ELSE t.line
      /\ Editing(u) => Room(t)
  BY PutBytes DEF LineOK, KbBytes
<1>2. a = [p EXCEPT !.line_len = p.line_len + 1]
  BY DEF put_char
<1>. HIDE DEF p, e, a
<1>3. BytesOK(a, e, u) /\ a.line_len = b.line_len + 1
  <2>1. BytesOK(a, e, u) /\ a.line_len = p.line_len + 1
    BY <1>1, <1>2, BytesFields, Zenon
  <2>. QED BY <1>1, <2>1
<1>4. CountOK(a, e, u)
  BY <1>1, <1>3 DEF LineOK, CountOK
<1>. QED BY <1>1, <1>3, <1>4 DEF LineOK, a, e

\* The end of a line.
LEMMA NewlineLemma ==
  ASSUME NEW b, NEW t, NEW u, LineOK(b, t, u),
         Editing(u) => t.total + 1 <= KBUFF_SIZE - 1
  PROVE  LineOK(put_newline(b), Expect(t, "nl"), u)
<1>. DEFINE p == put(b, "nl")
            a == put_newline(b)
            e == Expect(t, "nl")
<1>1. BytesOK(p, e, u) /\ e.line = 0
  BY PutBytes DEF LineOK, KbBytes
<1>2. a = [p EXCEPT !.line_len = 0]
  BY DEF put_newline
<1>. HIDE DEF p, e, a
<1>3. BytesOK(a, e, u) /\ a.line_len = 0
  <2>1. ASSUME NEW v PROVE BytesOK([p EXCEPT !.line_len = v], e, u)
                           /\ [p EXCEPT !.line_len = v].line_len = v
    BY <1>1, BytesFields, Zenon
  <2>. QED BY <1>2, <2>1
<1>4. CountOK(a, e, u)
  BY <1>1, <1>3 DEF CountOK
<1>. QED BY <1>3, <1>4 DEF LineOK, a, e

\* Ctrl-D at the start of a line.
LEMMA EofLemma ==
  ASSUME NEW b, NEW t, NEW u, LineOK(b, t, u), b.line_len = 0,
         Editing(u) => t.total + 2 <= KBUFF_SIZE - 1
  PROVE  LineOK(put(put(b, "eof"), "nl"), Expect(Expect(t, "eof"), "nl"), u)
<1>. DEFINE a == put(b, "eof")
            e == Expect(t, "eof")
            p == put(a, "nl")
            g == Expect(e, "nl")
<1>1. t.total \in Nat /\ KBUFF_SIZE \in Nat
  BY RingHolds DEF LineOK, BytesOK
<1>2. Editing(u) => t.total + 1 <= KBUFF_SIZE - 1
  BY <1>1
<1>3. BytesOK(a, e, u) /\ a.line_len = 0 /\ e.total = t.total + 1
  BY <1>2, PutBytes DEF LineOK, KbBytes
<1>. HIDE DEF a, e
<1>4. Editing(u) => e.total + 1 <= KBUFF_SIZE - 1
  BY <1>1, <1>3
<1>5. BytesOK(p, g, u) /\ p.line_len = 0 /\ g.line = 0
  BY <1>3, <1>4, PutBytes DEF KbBytes
<1>. HIDE DEF p, g
<1>6. LineOK(p, g, u)
  BY <1>5 DEF LineOK, CountOK
<1>. QED BY <1>6 DEF a, e, p, g

\* A tab.
LEMMA TabLine ==
  ASSUME NEW b, NEW t, NEW u, LineOK(b, t, u),
         Editing(u) => t.total + 4 <= KBUFF_SIZE - 1
  PROVE  LineOK(put_char(put_char(put_char(put_char(b, "x"), "x"), "x"), "x"),
                Expect(Expect(Expect(Expect(t, "x"), "x"), "x"), "x"), u)
<1>. DEFINE b1 == put_char(b, "x")    t1 == Expect(t, "x")
            b2 == put_char(b1, "x")   t2 == Expect(t1, "x")
            b3 == put_char(b2, "x")   t3 == Expect(t2, "x")
<1>1. t.total \in Nat /\ KBUFF_SIZE \in Nat
  BY RingHolds DEF LineOK, BytesOK
<1>2. Editing(u) => t.total + 1 <= KBUFF_SIZE - 1
  BY <1>1
<1>3. LineOK(b1, t1, u) /\ t1.total = t.total + 1
  BY <1>2, CharLemma
<1>. HIDE DEF b1, t1
<1>4. Editing(u) => t1.total + 1 <= KBUFF_SIZE - 1
  BY <1>1, <1>3
<1>5. LineOK(b2, t2, u) /\ t2.total = t1.total + 1
  BY <1>3, <1>4, CharLemma
<1>. HIDE DEF b2, t2
<1>6. Editing(u) => t2.total + 1 <= KBUFF_SIZE - 1
  BY <1>1, <1>3, <1>5
<1>7. LineOK(b3, t3, u) /\ t3.total = t2.total + 1
  BY <1>5, <1>6, CharLemma
<1>. HIDE DEF b3, t3
<1>8. Editing(u) => t3.total + 1 <= KBUFF_SIZE - 1
  BY <1>1, <1>3, <1>5, <1>7
<1>9. LineOK(put_char(b3, "x"), Expect(t3, "x"), u)
  BY <1>7, <1>8, CharLemma
<1>. QED BY <1>9 DEF b1, t1, b2, t2, b3, t3

\* A backspace takes back the last byte of the line, if it is still there.
LEMMA BackspaceLine ==
  ASSUME NEW b, NEW t, NEW u, LineOK(b, t, u), Editing(u)
  PROVE  LineOK(backspace(b),
                IF t.line = 0 THEN t
                ELSE [t EXCEPT !.bytes = SubSeq(@, 1, Len(@) - 1), !.line = @ - 1], u)
<1>. DEFINE r == b.ring
            w == IF Buf!is_empty(r) THEN r ELSE Buf!ringbuf_unwrite(r)
            a == [b EXCEPT !.ring = w, !.line_len = b.line_len - 1]
            d == SubSeq(t.bytes, 1, Len(t.bytes) - 1)
            e == [t EXCEPT !.bytes = d, !.line = t.line - 1]
<1>1. /\ Ring!RingInv(r) /\ Buf!Contents(r) = t.bytes /\ t.total \in Nat
      /\ r.head <= r.tail /\ r.tail <= t.total
      /\ b.line_len \in Nat /\ t.line = b.line_len /\ KbShape(b) /\ TypedShape(t)
  BY DEF LineOK, BytesOK, CountOK
<1>2. CASE t.line = 0
  <2>1. backspace(b) = b
    BY <1>1, <1>2 DEF backspace
  <2>. QED BY <1>2, <2>1
<1>3. CASE t.line # 0
  <2>1. backspace(b) = a
    BY <1>1, <1>3 DEF backspace
  <2>2. Ring!RingInv(w) /\ Buf!Contents(w) = d /\ w.head <= w.tail /\ w.tail <= t.total
    <3>1. CASE Buf!is_empty(r)
      <4>1. w = r
        BY <3>1
      <4>2. t.bytes \in Seq(KbBytes) /\ Len(t.bytes) = 0
        BY <1>1, <3>1, BufferLemma
      <4>3. d = t.bytes
        <5>. DEFINE c == t.bytes
        <5>1. c \in Seq(KbBytes) /\ Len(c) = 0
          BY <4>2
        <5>. HIDE DEF c
        <5>2. SubSeq(c, 1, Len(c) - 1) = c
          BY <5>1
        <5>. QED BY <5>2 DEF c
      <4>. QED BY <1>1, <4>1, <4>3
    <3>2. CASE ~ Buf!is_empty(r)
      <4>1. ~ Ring!is_empty(r)
        BY <3>2, SameRing
      <4>. DEFINE v == Ring!ringbuf_unwrite(r)
      <4>2. /\ Ring!RingInv(v) /\ v.tail = r.tail - 1 /\ v.head <= v.tail
            /\ Ring!Contents(v) = SubSeq(Ring!Contents(r), 1, Len(Ring!Contents(r)) - 1)
        BY <1>1, <4>1, RingHolds, Ring!UnwriteLemma
      <4>3. w = v
        BY <3>2, SameRing
      <4>4. Buf!Contents(v) = d
        BY <1>1, <4>2, SameRing
      <4>5. v.tail <= t.total
        <5>1. r.tail \in 0..KBUFF_SIZE /\ KBUFF_SIZE \in Nat
          BY <1>1, BufferLemma, RingHolds
        <5>. QED BY <1>1, <4>2, <5>1
      <4>. QED BY <4>2, <4>3, <4>4, <4>5
    <3>. QED BY <3>1, <3>2
  <2>. HIDE DEF w, d
  <2>. DEFINE c == [b EXCEPT !.ring = w]
              g == [t EXCEPT !.bytes = d]
  <2>3. KbShape(c) /\ c.ring = w
    BY <1>1 DEF KbShape
  <2>4. TypedShape(g) /\ g.bytes = d /\ g.line = t.line /\ g.total = t.total
    BY <1>1 DEF TypedShape
  <2>5. a = [c EXCEPT !.line_len = b.line_len - 1]
    OBVIOUS
  <2>6. e = [g EXCEPT !.line = t.line - 1]
    OBVIOUS
  <2>. HIDE DEF a, e, c, g
  <2>7. KbShape(a) /\ a.ring = w /\ a.line_len = b.line_len - 1
    BY <2>3, <2>5 DEF KbShape
  <2>8. TypedShape(e) /\ e.bytes = d /\ e.line = t.line - 1 /\ e.total = t.total
    BY <2>4, <2>6 DEF TypedShape
  <2>9. BytesOK(a, e, u)
    BY <1>1, <2>2, <2>7, <2>8 DEF BytesOK
  <2>10. CountOK(a, e, u)
    BY <1>1, <1>3, <2>7, <2>8 DEF CountOK
  <2>. QED BY <1>3, <2>1, <2>9, <2>10 DEF LineOK, e, d
<1>. QED BY <1>2, <1>3

\* Every key: what handle_key_press does to the buffer is what the user meant.
LEMMA KeyLine ==
  ASSUME NEW b, NEW t, NEW u \in Users, LineOK(b, t, u), Discreet,
         NEW key \in u.keys, ~ (b.ctrl /\ key = "c"),
         b.ctrl /\ key = "d" => b.line_len = 0,
         ExpectKey(t, b, key).total <= u.limit
  PROVE  LineOK(handle_key_press(b, key), ExpectKey(t, b, key), u)
<1>. DEFINE a == handle_key_press(b, key)
            e == ExpectKey(t, b, key)
<1>1. BytesOK(b, t, u) /\ CountOK(b, t, u) /\ t.total \in Nat
  BY DEF LineOK, BytesOK
<1>2. Editing(u) => u.limit \in Nat /\ u.limit <= KBUFF_SIZE - 1
  BY DEF Editing
<1>3. ASSUME NEW m \in Nat, e.total = t.total + m, Editing(u)
      PROVE  t.total + m <= KBUFF_SIZE - 1
  <2>1. t.total + m <= u.limit /\ u.limit <= KBUFF_SIZE - 1 /\ u.limit \in Nat
    BY <1>2, <1>3
  <2>. QED BY <1>1, <2>1, RingHolds
<1>4. ASSUME NEW c \in KbBytes, NEW s PROVE Expect(s, c).total = s.total + 1
  BY DEF Expect
<1>5. ASSUME NEW x, KbShape(x), x.ring = b.ring, x.line_len = b.line_len
      PROVE  LineOK(x, t, u)
  BY <1>1, <1>5 DEF LineOK, BytesOK, CountOK
<1>6. KbShape(b)
  BY <1>1 DEF BytesOK
<1>7. CASE key \in {"ctrl", "ctrl_up", "arrow"}
  <2>1. e = t
    BY <1>7 DEF ExpectKey
  <2>2. a \in {[b EXCEPT !.ctrl = TRUE], [b EXCEPT !.ctrl = FALSE], [b EXCEPT !.arrow = TRUE]}
    BY <1>7 DEF handle_key_press
  <2>3. KbShape(a) /\ a.ring = b.ring /\ a.line_len = b.line_len
    BY <1>6, <2>2 DEF KbShape
  <2>. QED BY <1>5, <2>1, <2>3
<1>8. CASE b.ctrl /\ key = "d"
  <2>1. a = handle_ctrl_d(b)
    BY <1>8 DEF handle_key_press
  <2>2. e = IF b.waiting = << >> THEN t
            ELSE Expect(IF t.line = 0 THEN Expect(t, "eof") ELSE t, "nl")
    BY <1>8 DEF ExpectKey
  <2>3. b.line_len = 0 /\ t.line = 0
    BY <1>1, <1>8 DEF CountOK
  <2>4. CASE b.waiting = << >>
    BY <2>1, <2>2, <2>4 DEF handle_ctrl_d
  <2>5. CASE b.waiting # << >>
    <3>1. a = put(put(b, "eof"), "nl") /\ e = Expect(Expect(t, "eof"), "nl")
      BY <2>1, <2>2, <2>3, <2>5 DEF handle_ctrl_d
    <3>2. e.total = t.total + 2
      BY <1>1, <1>4, <3>1 DEF KbBytes
    <3>3. Editing(u) => t.total + 2 <= KBUFF_SIZE - 1
      BY <1>3, <3>2
    <3>. QED BY <2>3, <3>1, <3>3, EofLemma
  <2>. QED BY <2>4, <2>5
<1>9. CASE key \notin {"ctrl", "ctrl_up", "arrow"} /\ ~ (b.ctrl /\ key = "d")
  <2>1. a = IF b.arrow THEN [b EXCEPT !.arrow = FALSE]
            ELSE CASE key = "backspace" -> backspace(b)
                   [] key = "tab"       -> put_char(put_char(put_char(put_char(b, "x"), "x"), "x"), "x")
                   [] key = "newline"   -> put_newline(b)
                   [] OTHER             -> put_char(b, "x")
    BY <1>9 DEF handle_key_press
  <2>2. e = IF b.arrow THEN t
            ELSE CASE key = "backspace" ->
                        IF t.line = 0 THEN t
                        ELSE [t EXCEPT !.bytes = SubSeq(@, 1, Len(@) - 1), !.line = @ - 1]
                   [] key = "tab"     -> Expect(Expect(Expect(Expect(t, "x"), "x"), "x"), "x")
                   [] key = "newline" -> Expect(t, "nl")
                   [] OTHER           -> Expect(t, "x")
    BY <1>9 DEF ExpectKey
  <2>. HIDE DEF a, e
  <2>3. CASE b.arrow
    <3>1. a = [b EXCEPT !.arrow = FALSE] /\ e = t
      BY <2>1, <2>2, <2>3
    <3>2. KbShape(a) /\ a.ring = b.ring /\ a.line_len = b.line_len
      BY <1>6, <3>1 DEF KbShape
    <3>3. LineOK(a, e, u)
      BY <1>5, <3>1, <3>2
    <3>. QED BY <3>3 DEF a, e
  <2>4. CASE ~ b.arrow /\ key = "backspace"
    <3>1. Editing(u)
      BY <2>4 DEF Discreet
    <3>2. a = backspace(b)
          /\ e = IF t.line = 0 THEN t
                 ELSE [t EXCEPT !.bytes = SubSeq(@, 1, Len(@) - 1), !.line = @ - 1]
      BY <2>1, <2>2, <2>4
    <3>3. LineOK(a, e, u)
      BY <3>1, <3>2, BackspaceLine
    <3>. QED BY <3>3 DEF a, e
  <2>5. CASE ~ b.arrow /\ key = "tab"
    <3>1. a = put_char(put_char(put_char(put_char(b, "x"), "x"), "x"), "x")
          /\ e = Expect(Expect(Expect(Expect(t, "x"), "x"), "x"), "x")
      BY <2>1, <2>2, <2>5
    <3>2. e.total = t.total + 4
      <4>1. "x" \in KbBytes
        BY DEF KbBytes
      <4>2. e.total = (((t.total + 1) + 1) + 1) + 1
        BY <1>4, <3>1, <4>1
      <4>. QED BY <1>1, <4>2
    <3>3. Editing(u) => t.total + 4 <= KBUFF_SIZE - 1
      BY <1>3, <3>2 DEF e
    <3>4. LineOK(a, e, u)
      BY <3>1, <3>3, TabLine
    <3>. QED BY <3>4 DEF a, e
  <2>6. CASE ~ b.arrow /\ key = "newline"
    <3>1. a = put_newline(b) /\ e = Expect(t, "nl")
      BY <2>1, <2>2, <2>6
    <3>2. e.total = t.total + 1
      BY <1>4, <3>1 DEF KbBytes
    <3>3. Editing(u) => t.total + 1 <= KBUFF_SIZE - 1
      BY <1>3, <3>2 DEF e
    <3>4. LineOK(a, e, u)
      BY <3>1, <3>3, NewlineLemma
    <3>. QED BY <3>4 DEF a, e
  <2>7. CASE ~ b.arrow /\ key \notin {"backspace", "tab", "newline"}
    <3>1. a = put_char(b, "x") /\ e = Expect(t, "x")
      BY <2>1, <2>2, <2>7
    <3>2. e.total = t.total + 1
      BY <1>4, <3>1 DEF KbBytes
    <3>3. Editing(u) => t.total + 1 <= KBUFF_SIZE - 1
      BY <1>3, <3>2 DEF e
    <3>4. LineOK(a, e, u)
      BY <3>1, <3>3, CharLemma
    <3>. QED BY <3>4 DEF a, e
  <2>. QED BY <2>3, <2>4, <2>5, <2>6, <2>7
<1>. QED BY <1>7, <1>8, <1>9

\* The bytes hold the end of a line.
HasLine(q) == \E i \in 1..Len(q) : q[i] = "nl"

\* ringbuf_find returns the length of the first line, or 0 if there is none.
LEMMA FindLemma ==
  ASSUME NEW b, Ring!RingInv(b.ring)
  PROVE  /\ ringbuf_find(b) \in 0..Len(Buf!Contents(b.ring))
         /\ ringbuf_find(b) = 0 <=> ~ HasLine(Buf!Contents(b.ring))
<1>. DEFINE q == Buf!Contents(b.ring)
            hits == {i \in 1..Len(q) : q[i] = "nl"}
<1>1. Len(q) \in Nat
  BY BufferLemma
<1>2. ringbuf_find(b) = IF hits = {} THEN 0 ELSE CHOOSE i \in hits : \A j \in hits : i <= j
  BY DEF ringbuf_find
<1>. HIDE DEF q
<1>3. CASE hits = {}
  <2>1. ~ HasLine(q)
    BY <1>3 DEF HasLine
  <2>. QED BY <1>1, <1>2, <1>3, <2>1 DEF q
<1>4. CASE hits # {}
  <2>1. HasLine(q)
    BY <1>4 DEF HasLine
  <2>2. hits \subseteq Nat
    BY <1>1
  <2>3. \E i \in hits : \A j \in hits : i <= j
    <3>. HIDE DEF hits
    <3>. QED BY <1>4, <2>2, LeastNatural
  <2>. DEFINE m == CHOOSE i \in hits : \A j \in hits : i <= j
  <2>4. m \in hits
    <3>. HIDE DEF hits
    <3>. QED BY <2>3
  <2>. HIDE DEF m
  <2>5. m \in 1..Len(q)
    BY <2>4
  <2>6. ringbuf_find(b) = m
    BY <1>2, <1>4 DEF m
  <2>7. m # 0 /\ m \in 0..Len(q)
    BY <1>1, <2>5
  <2>. QED BY <2>1, <2>6, <2>7 DEF q
<1>. QED BY <1>3, <1>4

\* get_line takes from the front of the buffer.
LEMMA GetLineLemma ==
  ASSUME NEW b, NEW t, NEW u, LineOK(b, t, u), next_line_length(b) > 0
  PROVE  LET n == next_line_length(b)
             m == IF b.canonical \/ n < ReadCount THEN n ELSE ReadCount
         IN  LineOK(get_line(b), [t EXCEPT !.bytes = SubSeq(@, m + 1, Len(@))], u)
<1>. DEFINE n == next_line_length(b)
            m == IF b.canonical \/ n < ReadCount THEN n ELSE ReadCount
            w == read_bytes(b.ring, m)
            a == [b EXCEPT !.ring = w]
            d == SubSeq(t.bytes, m + 1, Len(t.bytes))
            e == [t EXCEPT !.bytes = d]
            r == b.ring
<1>1. /\ Ring!RingInv(r) /\ Buf!Contents(r) = t.bytes /\ KbShape(b) /\ TypedShape(t)
      /\ t.total \in Nat /\ CountOK(b, t, u)
      /\ Editing(u) => r.head <= r.tail /\ r.tail <= t.total
  BY DEF LineOK, BytesOK
<1>2. n \in 0..Len(t.bytes) /\ Len(t.bytes) \in Nat
  <2>1. ringbuf_find(b) \in 0..Len(t.bytes)
    BY <1>1, FindLemma
  <2>2. count(b) = Len(t.bytes) /\ Len(t.bytes) \in Nat
    BY <1>1, BufferLemma DEF count
  <2>. QED BY <2>1, <2>2 DEF next_line_length
<1>. HIDE DEF n
<1>3. m \in 0..Len(t.bytes)
  BY <1>2, KeyboardAssumption
<1>4. get_line(b) = a
  BY DEF get_line, n
<1>. HIDE DEF m
<1>5. /\ Ring!RingInv(w) /\ w.tail = r.tail /\ Buf!Contents(w) = d
      /\ r.head <= r.tail => w.head <= w.tail
  BY <1>1, <1>3, ReadBytes
<1>. HIDE DEF w, d
<1>6. KbShape(a) /\ a.ring = w /\ a.line_len = b.line_len
  BY <1>1 DEF KbShape
<1>7. TypedShape(e) /\ e.bytes = d /\ e.line = t.line /\ e.total = t.total
  BY <1>1 DEF TypedShape
<1>. HIDE DEF a, e, r
<1>8. BytesOK(a, e, u)
  BY <1>1, <1>5, <1>6, <1>7 DEF BytesOK
<1>9. CountOK(a, e, u)
  BY <1>1, <1>6, <1>7 DEF CountOK
<1>. QED BY <1>4, <1>8, <1>9 DEF LineOK, e, d, m, n

\* One pass of read_line.
LEMMA ReadPassLine ==
  ASSUME LineInv, NEW p, ReadPass(p), user' = user
  PROVE  LineInv'
<1>1. CASE next_line_length(kb) > 0
  <2>. DEFINE n == next_line_length(kb)
              m == IF kb.canonical \/ n < ReadCount THEN n ELSE ReadCount
              e == [typed EXCEPT !.bytes = SubSeq(@, m + 1, Len(@))]
  <2>1. kb' = get_line(kb) /\ typed' = e
    BY <1>1 DEF ReadPass
  <2>2. LineOK(get_line(kb), e, user)
    BY <1>1, GetLineLemma, Zenon DEF LineInv
  <2>. HIDE DEF e
  <2>. QED BY <2>1, <2>2 DEF LineInv
<1>2. CASE ~ next_line_length(kb) > 0 /\ kb.waiting # << >>
  BY <1>2 DEF ReadPass, LineInv
<1>3. CASE ~ next_line_length(kb) > 0 /\ kb.waiting = << >>
  <2>. DEFINE q == enqueue(kb.waiting, p)
  <2>1. kb' = [kb EXCEPT !.waiting = q] /\ typed' = typed
    BY <1>3 DEF ReadPass
  <2>. HIDE DEF q
  <2>2. BytesOK(kb', typed, user) /\ kb'.line_len = kb.line_len
    BY <2>1, BytesFields, Zenon DEF LineInv, LineOK
  <2>. QED BY <2>1, <2>2 DEF LineInv, LineOK, CountOK
<1>. QED BY <1>1, <1>2, <1>3

\* Only the queue of the driver changes.
LEMMA QueueLine ==
  ASSUME NEW b, NEW t, NEW u, LineOK(b, t, u), NEW q
  PROVE  LineOK([b EXCEPT !.waiting = q], t, u)
<1>1. BytesOK([b EXCEPT !.waiting = q], t, u) /\ [b EXCEPT !.waiting = q].line_len = b.line_len
  BY BytesFields, Zenon DEF LineOK
<1>. QED BY <1>1 DEF LineOK, CountOK

LEMMA LineStep ==
  ASSUME Discreet, LineInv, [KbNext]_kbVars
  PROVE  LineInv'
<1>1. CASE Key
  <2>1. PICK key \in user.keys :
          /\ ~ (kb.ctrl /\ key = "c")
          /\ kb.ctrl /\ key = "d" => EofAnywhere \/ kb.line_len = 0
          /\ ExpectKey(typed, kb, key).total <= user.limit
          /\ \E after \in {handle_key_press(kb, key)} :
               IF wakes_reader(kb, key, after)
               THEN kb' = [after EXCEPT !.waiting = dequeue(@)] ELSE kb' = after
          /\ typed' = ExpectKey(typed, kb, key)
    BY <1>1 DEF Key
  <2>. DEFINE after == handle_key_press(kb, key)
              q == dequeue(after.waiting)
  <2>2. user' = user
    BY <1>1 DEF Key
  <2>3. LineOK(after, typed', user)
    BY <2>1, KeyLine DEF LineInv, Discreet
  <2>4. kb' = after \/ kb' = [after EXCEPT !.waiting = q]
    BY <2>1
  <2>. HIDE DEF after, q
  <2>5. LineOK(kb', typed', user)
    BY <2>3, <2>4, QueueLine
  <2>. QED BY <2>2, <2>5 DEF LineInv
<1>2. CASE InterruptKey
  <2>. DEFINE q == queue_remove(kb.waiting, k.foreground)
  <2>1. typed' = typed /\ user' = user /\ (kb' = kb \/ kb' = [kb EXCEPT !.waiting = q])
    BY <1>2 DEF InterruptKey, unlink_reader
  <2>. HIDE DEF q
  <2>. QED BY <2>1, QueueLine DEF LineInv
<1>3. CASE ReadLine \/ ReadResume
  BY <1>3, ReadPassLine DEF ReadLine, ReadResume
<1>4. CASE SetMode
  <2>1. PICK mode \in user.modes : kb' = [kb EXCEPT !.canonical = mode]
    BY <1>4 DEF SetMode
  <2>2. typed' = typed /\ user' = user
    BY <1>4 DEF SetMode
  <2>3. BytesOK(kb', typed, user) /\ kb'.line_len = kb.line_len
    BY <2>1, BytesFields, Zenon DEF LineInv, LineOK
  <2>. QED BY <2>2, <2>3 DEF LineInv, LineOK, CountOK
<1>5. CASE KbKernelStep \/ UNCHANGED kbVars
  BY <1>5 DEF KbKernelStep, kbVars, LineInv
<1>. QED BY <1>1, <1>2, <1>3, <1>4, <1>5 DEF KbNext

LEMMA LineStart ==
  ASSUME Discreet, KbInit
  PROVE  LineInv
<1>. DEFINE s == user.start
            r == [buf |-> [i \in 0..(KBUFF_SIZE - 1) |-> "x"], head |-> s, tail |-> s]
<1>1. user \in Users /\ s \in 0..KBUFF_SIZE /\ typed = Nothing /\ KBUFF_SIZE \in Nat
  BY RingHolds DEF KbInit, Discreet
<1>2. kb.ring = r /\ kb.line_len = 0 /\ KbShape(kb)
  BY DEF KbInit, NewKeyboard, KbShape
<1>3. TypedShape(typed) /\ typed.bytes = << >> /\ typed.line = 0 /\ typed.total = 0
  BY <1>1 DEF Nothing, TypedShape
<1>4. Ring!ringbuf_available(r) = 0 /\ Buf!ringbuf_available(r) = 0
  BY <1>1 DEF Ring!ringbuf_available, Buf!ringbuf_available
<1>5. Ring!RingInv(r)
  <2>1. r \in [buf : [Ring!Slots -> {"x", "nl", "eof"}], head : 0..KBUFF_SIZE, tail : 0..KBUFF_SIZE]
    BY <1>1 DEF Ring!Slots
  <2>2. r.tail = 0 => r.head = 0
    OBVIOUS
  <2>. HIDE DEF r
  <2>. QED BY <1>4, <2>1, <2>2, RingHolds DEF Ring!RingInv, Ring!RingType
<1>6. Buf!Contents(r) = << >>
  <2>. DEFINE c == Buf!Contents(r)
  <2>1. c \in Seq(KbBytes) /\ Len(c) = 0
    <3>. HIDE DEF r
    <3>. QED BY <1>4, <1>5, BufferLemma
  <2>. HIDE DEF c
  <2>2. c = << >>
    BY <2>1
  <2>. QED BY <2>2 DEF c
<1>7. Editing(user) => r.head <= r.tail /\ r.tail <= typed.total
  BY <1>1, <1>3 DEF Editing
<1>. HIDE DEF r
<1>. QED BY <1>1, <1>2, <1>3, <1>5, <1>6, <1>7 DEF LineInv, LineOK, BytesOK, CountOK

\* The invariant of the line: whatever is typed, read and interrupted.  Nothing
\* is asked of the programs.
THEOREM LineInvariance ==
  ASSUME Discreet
  PROVE  KbSpec => []LineInv
<1>1. KbInit => LineInv
  BY LineStart
<1>2. LineInv /\ [KbNext]_kbVars => LineInv'
  BY LineStep
<1>. QED BY <1>1, <1>2, PTL DEF KbSpec

\* The buffer holds what the user typed and nobody has read, as edited: read_line
\* drops no more than the rest of its line, a full buffer loses the bytes that
\* come and no others, a backspace never reaches into another line.
THEOREM LinesAsTyped ==
  ASSUME Discreet
  PROVE  KbSpec => []KeyboardLines
<1>1. LineInv => KeyboardLines
  BY DEF LineInv, LineOK, BytesOK, KeyboardLines
<1>. QED BY <1>1, LineInvariance, PTL

-----------------------------------------------------------------------------
(***************************************************************************)
(* The wake-up.                                                            *)
(***************************************************************************)

AtMostOne(q) == q = << >> \/ \E p : q = <<p>>

\* Who waits waits for the end of a line.
Unheard ==
  /\ AtMostOne(kb.waiting)
  /\ kb.waiting # << >> => ~ HasLine(typed.bytes)

\* A printable byte ends no line.
LEMMA NoLineLemma ==
  ASSUME NEW t, t.bytes \in Seq(KbBytes), ~ HasLine(t.bytes)
  PROVE  LET e == Expect(t, "x") IN e.bytes \in Seq(KbBytes) /\ ~ HasLine(e.bytes)
<1>. DEFINE q == t.bytes
            a == Append(q, "x")
<1>1. Expect(t, "x").bytes = IF Room(t) THEN a ELSE q
  BY DEF Expect
<1>2. q \in Seq(KbBytes) /\ Len(q) \in Nat /\ "x" \in KbBytes
  BY DEF KbBytes
<1>3. /\ a \in Seq(KbBytes) /\ Len(a) = Len(q) + 1 /\ a[Len(q) + 1] = "x"
      /\ \A i \in 1..Len(q) : a[i] = q[i]
  <2>. HIDE DEF q
  <2>. QED BY <1>2
<1>4. ASSUME NEW i \in 1..Len(a), a[i] = "nl" PROVE FALSE
  <2>. HIDE DEF a
  <2>1. i \in 1..Len(q) \/ i = Len(q) + 1
    BY <1>2, <1>3
  <2>2. i \in 1..Len(q) => q[i] # "nl"
    BY DEF HasLine
  <2>. QED BY <1>3, <1>4, <2>1, <2>2
<1>5. ~ HasLine(a)
  BY <1>4 DEF HasLine
<1>. HIDE DEF a
<1>. QED BY <1>1, <1>3, <1>5

\* A part of bytes without the end of a line has none.
LEMMA PartLemma ==
  ASSUME NEW q, q \in Seq(KbBytes), ~ HasLine(q), NEW m, NEW n, m \in Nat \ {0}, n \in Int,
         n <= Len(q)
  PROVE  ~ HasLine(SubSeq(q, m, n))
<1>. DEFINE d == SubSeq(q, m, n)
<1>1. CASE m <= n
  <2>1. Len(d) = n - m + 1 /\ \A i \in 1..(n - m + 1) : d[i] = q[m + i - 1]
    BY <1>1
  <2>2. \A i \in 1..(n - m + 1) : m + i - 1 \in 1..Len(q)
    BY <1>1
  <2>. HIDE DEF d
  <2>3. ~ HasLine(d)
    BY <2>1, <2>2 DEF HasLine
  <2>. QED BY <2>3 DEF d
<1>2. CASE ~ m <= n
  <2>1. Len(d) = 0
    BY <1>2
  <2>. HIDE DEF d
  <2>2. ~ HasLine(d)
    BY <2>1 DEF HasLine
  <2>. QED BY <2>2 DEF d
<1>. QED BY <1>1, <1>2

\* A key that wakes nobody although somebody waits ends no line.
LEMMA SilentKey ==
  ASSUME NEW b, NEW t, NEW key, NEW u, LineOK(b, t, u), ~ HasLine(t.bytes),
         b.waiting # << >>, ~ (b.ctrl /\ key = "c"),
         ~ wakes_reader(b, key, handle_key_press(b, key)),
         LineOK(handle_key_press(b, key), ExpectKey(t, b, key), u)
  PROVE  ~ HasLine(ExpectKey(t, b, key).bytes)
<1>. DEFINE a == handle_key_press(b, key)
            e == ExpectKey(t, b, key)
<1>1. t.bytes \in Seq(KbBytes)
  BY BufferLemma DEF LineOK, BytesOK
<1>2. ~ (b.ctrl /\ key = "d")
  BY DEF wakes_reader
<1>3. CASE key \in {"ctrl", "ctrl_up", "arrow"}
  <2>1. e = t
    BY <1>3 DEF ExpectKey
  <2>. QED BY <2>1
<1>4. CASE key \notin {"ctrl", "ctrl_up", "arrow"}
  <2>1. e = IF b.arrow THEN t
            ELSE CASE key = "backspace" ->
                        IF t.line = 0 THEN t
                        ELSE [t EXCEPT !.bytes = SubSeq(@, 1, Len(@) - 1), !.line = @ - 1]
                   [] key = "tab"     -> Expect(Expect(Expect(Expect(t, "x"), "x"), "x"), "x")
                   [] key = "newline" -> Expect(t, "nl")
                   [] OTHER           -> Expect(t, "x")
    BY <1>2, <1>4 DEF ExpectKey
  <2>2. count(a) = Len(e.bytes) /\ e.bytes \in Seq(KbBytes)
    BY BufferLemma DEF LineOK, BytesOK, count
  <2>3. ~ b.arrow /\ key = "newline" => ~ count(a) > 0
    BY <1>2 DEF wakes_reader
  <2>. HIDE DEF a, e
  <2>4. CASE b.arrow
    <3>1. e = t
      BY <2>1, <2>4
    <3>2. ~ HasLine(e.bytes)
      BY <3>1
    <3>. QED BY <3>2 DEF e
  <2>5. CASE ~ b.arrow /\ key = "backspace"
    <3>. DEFINE d == SubSeq(t.bytes, 1, Len(t.bytes) - 1)
                g == [t EXCEPT !.bytes = d, !.line = t.line - 1]
    <3>1. e = t \/ e = g
      BY <2>1, <2>5
    <3>2. ~ HasLine(d)
      <4>1. Len(t.bytes) \in Nat
        BY <1>1
      <4>2. Len(t.bytes) - 1 \in Int /\ Len(t.bytes) - 1 <= Len(t.bytes) /\ 1 \in Nat \ {0}
        BY <4>1
      <4>. QED BY <1>1, <4>2, PartLemma
    <3>. HIDE DEF d
    <3>3. TypedShape(t)
      BY DEF LineOK, BytesOK
    <3>4. g.bytes = d
      BY <3>3 DEF TypedShape
    <3>. HIDE DEF g
    <3>5. ~ HasLine(e.bytes)
      BY <3>1, <3>2, <3>4
    <3>. QED BY <3>5 DEF e
  <2>6. CASE ~ b.arrow /\ key = "tab"
    <3>. DEFINE t1 == Expect(t, "x")
                t2 == Expect(t1, "x")
                t3 == Expect(t2, "x")
    <3>1. e = Expect(t3, "x")
      BY <2>1, <2>6
    <3>2. t1.bytes \in Seq(KbBytes) /\ ~ HasLine(t1.bytes)
      BY <1>1, NoLineLemma
    <3>. HIDE DEF t1
    <3>3. t2.bytes \in Seq(KbBytes) /\ ~ HasLine(t2.bytes)
      BY <3>2, NoLineLemma
    <3>. HIDE DEF t2
    <3>4. t3.bytes \in Seq(KbBytes) /\ ~ HasLine(t3.bytes)
      BY <3>3, NoLineLemma
    <3>. HIDE DEF t3
    <3>5. ~ HasLine(e.bytes)
      BY <3>1, <3>4, NoLineLemma
    <3>. QED BY <3>5 DEF e
  <2>7. CASE ~ b.arrow /\ key = "newline"
    <3>1. Len(e.bytes) = 0
      <4>1. ~ Len(e.bytes) > 0 /\ Len(e.bytes) \in Nat
        BY <2>2, <2>3, <2>7
      <4>. QED BY <4>1
    <3>2. ~ HasLine(e.bytes)
      BY <3>1 DEF HasLine
    <3>. QED BY <3>2 DEF e
  <2>8. CASE ~ b.arrow /\ key \notin {"backspace", "tab", "newline"}
    <3>1. e = Expect(t, "x")
      BY <2>1, <2>8
    <3>2. ~ HasLine(e.bytes)
      BY <1>1, <3>1, NoLineLemma
    <3>. QED BY <3>2 DEF e
  <2>. QED BY <2>4, <2>5, <2>6, <2>7, <2>8
<1>. QED BY <1>3, <1>4

\* One pass of read_line: who goes to wait found no end of a line.
LEMMA ReadPassHeard ==
  ASSUME LineInv, Unheard, NEW p, ReadPass(p)
  PROVE  Unheard'
<1>. DEFINE n == next_line_length(kb)
            m == IF kb.canonical \/ n < ReadCount THEN n ELSE ReadCount
            q == typed.bytes
<1>1. /\ Ring!RingInv(kb.ring) /\ Buf!Contents(kb.ring) = q /\ KbShape(kb) /\ TypedShape(typed)
  BY DEF LineInv, LineOK, BytesOK
<1>2. /\ q \in Seq(KbBytes) /\ Len(q) \in Nat /\ count(kb) = Len(q)
      /\ ringbuf_find(kb) \in 0..Len(q) /\ (ringbuf_find(kb) = 0 <=> ~ HasLine(q))
  BY <1>1, BufferLemma, FindLemma DEF count
<1>3. n \in Nat /\ (n = ringbuf_find(kb) \/ n = count(kb))
  BY <1>2 DEF next_line_length
<1>4. CASE n > 0
  <2>. DEFINE d == SubSeq(q, m + 1, Len(q))
  <2>1. kb' = get_line(kb) /\ typed' = [typed EXCEPT !.bytes = d]
    BY <1>4 DEF ReadPass
  <2>2. SameQueue(kb, get_line(kb))
    BY <1>1, FieldsLemma DEF get_line
  <2>3. m + 1 \in Nat \ {0}
    BY <1>3, KeyboardAssumption
  <2>4. ~ HasLine(q) => ~ HasLine(d)
    <3>. HIDE DEF m, q
    <3>. QED BY <1>2, <2>3, PartLemma
  <2>. HIDE DEF d
  <2>5. typed'.bytes = d
    BY <1>1, <2>1 DEF TypedShape
  <2>6. kb'.waiting = kb.waiting
    BY <2>1, <2>2 DEF SameQueue
  <2>. QED BY <2>4, <2>5, <2>6 DEF Unheard
<1>5. CASE ~ n > 0 /\ kb.waiting # << >>
  BY <1>5 DEF ReadPass, Unheard
<1>6. CASE ~ n > 0 /\ kb.waiting = << >>
  <2>1. kb' = [kb EXCEPT !.waiting = <<p>>] /\ typed' = typed
    <3>1. enqueue(<< >>, p) = <<p>>
      BY DEF enqueue
    <3>. QED BY <1>6, <3>1 DEF ReadPass
  <2>2. kb'.waiting = <<p>>
    BY <1>1, <2>1 DEF KbShape
  <2>3. n = 0
    BY <1>3, <1>6
  <2>4. ~ HasLine(q)
    <3>1. CASE n = ringbuf_find(kb)
      BY <1>2, <2>3, <3>1
    <3>2. CASE n = count(kb)
      BY <1>2, <2>3, <3>2 DEF HasLine
    <3>. QED BY <1>3, <3>1, <3>2
  <2>. QED BY <2>1, <2>2, <2>4 DEF Unheard, AtMostOne
<1>. QED BY <1>4, <1>5, <1>6

LEMMA HeardStep ==
  ASSUME Discreet, LineInv, Unheard, [KbNext]_kbVars
  PROVE  Unheard'
<1>0. LineInv' /\ KbShape(kb) /\ LineOK(kb, typed, user) /\ user \in Users
  BY LineStep DEF LineInv, LineOK, BytesOK
<1>1. CASE Key
  <2>1. PICK key \in user.keys :
          /\ ~ (kb.ctrl /\ key = "c")
          /\ kb.ctrl /\ key = "d" => EofAnywhere \/ kb.line_len = 0
          /\ ExpectKey(typed, kb, key).total <= user.limit
          /\ \E after \in {handle_key_press(kb, key)} :
               IF wakes_reader(kb, key, after)
               THEN kb' = [after EXCEPT !.waiting = dequeue(@)] ELSE kb' = after
          /\ typed' = ExpectKey(typed, kb, key)
    BY <1>1 DEF Key
  <2>. DEFINE after == handle_key_press(kb, key)
              q == dequeue(after.waiting)
  <2>2. KbShape(after) /\ after.waiting = kb.waiting
    BY <1>0, KeyPressLemma DEF SameQueue
  <2>3. LineOK(after, ExpectKey(typed, kb, key), user)
    BY <1>0, <2>1, KeyLine DEF Discreet
  <2>4. CASE wakes_reader(kb, key, after)
    <3>1. kb' = [after EXCEPT !.waiting = q]
      BY <2>1, <2>4
    <3>2. kb.waiting # << >>
      BY <2>4 DEF wakes_reader
    <3>. HIDE DEF after
    <3>3. q = << >>
      <4>1. PICK v : kb.waiting = <<v>>
        BY <3>2 DEF Unheard, AtMostOne
      <4>2. Tail(<<v>>) = << >>
        OBVIOUS
      <4>. QED BY <2>2, <4>1, <4>2 DEF dequeue
    <3>. HIDE DEF q
    <3>4. kb'.waiting = << >>
      BY <2>2, <3>1, <3>3 DEF KbShape
    <3>. QED BY <3>4 DEF Unheard, AtMostOne
  <2>5. CASE ~ wakes_reader(kb, key, after)
    <3>1. kb' = after
      BY <2>1, <2>5
    <3>2. kb.waiting # << >> => ~ HasLine(ExpectKey(typed, kb, key).bytes)
      BY <1>0, <2>1, <2>3, <2>5, SilentKey DEF Unheard
    <3>. HIDE DEF after
    <3>3. kb'.waiting = kb.waiting /\ typed' = ExpectKey(typed, kb, key)
      BY <2>1, <2>2, <3>1
    <3>. QED BY <3>2, <3>3 DEF Unheard
  <2>. QED BY <2>4, <2>5
<1>2. CASE InterruptKey
  <2>. DEFINE q == queue_remove(kb.waiting, k.foreground)
  <2>1. typed' = typed /\ (kb' = kb \/ kb' = [kb EXCEPT !.waiting = q])
    BY <1>2 DEF InterruptKey, unlink_reader
  <2>2. AtMostOne(q) /\ (q # << >> => kb.waiting # << >>)
    <3>1. CASE kb.waiting = << >>
      BY <3>1 DEF queue_remove, AtMostOne
    <3>2. CASE kb.waiting # << >>
      <4>1. PICK v : kb.waiting = <<v>>
        BY <3>2 DEF Unheard, AtMostOne
      <4>2. q = << >> \/ q = <<v>>
        BY <4>1 DEF queue_remove
      <4>. QED BY <3>2, <4>2 DEF AtMostOne
    <3>. QED BY <3>1, <3>2
  <2>. HIDE DEF q
  <2>3. kb'.waiting = kb.waiting \/ kb'.waiting = q
    BY <1>0, <2>1 DEF KbShape
  <2>. QED BY <2>1, <2>2, <2>3 DEF Unheard
<1>3. CASE ReadLine \/ ReadResume
  BY <1>3, ReadPassHeard DEF ReadLine, ReadResume
<1>4. CASE SetMode
  <2>1. PICK mode \in user.modes : kb' = [kb EXCEPT !.canonical = mode]
    BY <1>4 DEF SetMode
  <2>2. typed' = typed
    BY <1>4 DEF SetMode
  <2>3. kb'.waiting = kb.waiting
    BY <1>0, <2>1 DEF KbShape
  <2>. QED BY <2>2, <2>3 DEF Unheard
<1>5. CASE KbKernelStep \/ UNCHANGED kbVars
  BY <1>5 DEF KbKernelStep, kbVars, Unheard
<1>. QED BY <1>1, <1>2, <1>3, <1>4, <1>5 DEF KbNext

LEMMA HeardStart ==
  ASSUME KbInit
  PROVE  Unheard
<1>1. kb.waiting = << >>
  BY DEF KbInit, NewKeyboard
<1>. QED BY <1>1 DEF Unheard, AtMostOne

\* Nobody waits while the end of a line is in the buffer, in any mode and
\* whoever changes the mode: read_line looks and blocks in one step, and every
\* key that ends a line wakes who waits.
THEOREM NoLineMissed ==
  ASSUME Discreet
  PROVE  KbSpec => []NoLostLine
<1>1. KbInit => Unheard
  BY HeardStart
<1>2. LineInv /\ Unheard /\ [KbNext]_kbVars => Unheard'
  BY HeardStep
<1>3. LineInv /\ Unheard => NoLostLine
  BY FindLemma DEF LineInv, LineOK, BytesOK, Unheard, NoLostLine
<1>. QED BY <1>1, <1>2, <1>3, LineInvariance, PTL DEF KbSpec

=============================================================================
