------------------------------ MODULE Keyboard ------------------------------
(***************************************************************************)
(* Kernel/drivers/keyboardDriver.c and the reading half of tty.c on top of *)
(* the kernel: the keyboard interrupt fills a ring buffer and edits the    *)
(* line in it, the foreground process reads lines or, in raw mode, bytes.  *)
(*                                                                         *)
(* A key is what its scan code does.  Bytes are "x" (any printable one),   *)
(* "nl" and "eof" (VEOF); shift and caps lock choose among printable bytes *)
(* and are left out, like escape, which sets a flag that nobody reads.     *)
(***************************************************************************)
EXTENDS Kernel

CONSTANTS
  KBUFF_SIZE,
  ReadCount,  \* the size of the readers' buffer
  Users,      \* what a user does: the keys, the modes of the programs, how many bytes, from where
  EofAnywhere \* TRUE: Ctrl-D also in the middle of a line, whose length is then not reset

ASSUME KeyboardAssumption ==
  /\ KBUFF_SIZE \in Nat /\ KBUFF_SIZE >= 2 /\ ReadCount \in Nat
  /\ EofAnywhere \in BOOLEAN

VARIABLES
  kb,       \* the globals of the driver
  reading,  \* the processes inside read_line
  user,     \* the member of Users at the keyboard
  typed     \* what the readers should still get

kbVars == <<k, kb, reading, user, typed>>

Buf == INSTANCE RingBuf WITH
  SIZE <- KBUFF_SIZE, Bytes <- {"x", "nl", "eof"}, None <- "none",
  ring <- kb, got <- kb

-----------------------------------------------------------------------------
\* start printable bytes were typed and read in raw mode before.
NewKeyboard(start) ==
  [ring |-> [buf |-> [s \in 0..(KBUFF_SIZE - 1) |-> "x"], head |-> start, tail |-> start],
   line_len |-> 0, canonical |-> TRUE, waiting |-> << >>, ctrl |-> FALSE, arrow |-> FALSE]

count(b) == Buf!ringbuf_available(b.ring)

\* ringbuf_find: the bytes up to and including the first newline.  (Its loop
\* does not end when head = SIZE and tail = 0, which takes a backspace.)
ringbuf_find(b) ==
  LET bytes == Buf!Contents(b.ring)
      hits  == {i \in 1..Len(bytes) : bytes[i] = "nl"}
  IN IF hits = {} THEN 0 ELSE CHOOSE i \in hits : \A j \in hits : i <= j

next_line_length(b) == IF b.canonical THEN ringbuf_find(b) ELSE count(b)

\* The loop of ringbuf_read for n bytes.
read_bytes(r, n) ==
  LET read[j \in 0..n] == IF j = 0 THEN r ELSE Buf!ringbuf_read(read[j - 1])
  IN read[n]

\* Mutant: what does not fit stays in the buffer.
get_line_keeps_rest(b) ==
  LET n == next_line_length(b)
  IN [b EXCEPT !.ring = read_bytes(b.ring, IF n < ReadCount THEN n ELSE ReadCount)]

\* get_line: in canonical mode what does not fit is read and dropped.
get_line(b) ==
  LET n == next_line_length(b)
  IN [b EXCEPT !.ring = read_bytes(b.ring, IF b.canonical \/ n < ReadCount THEN n ELSE ReadCount)]

put(b, c) == [b EXCEPT !.ring = Buf!ringbuf_write(b.ring, c)]

put_char(b, c) == [put(b, c) EXCEPT !.line_len = @ + 1]

put_newline(b) == [put(b, "nl") EXCEPT !.line_len = 0]

backspace(b) ==
  IF b.line_len = 0 THEN b
  ELSE [b EXCEPT !.ring = IF Buf!is_empty(@) THEN @ ELSE Buf!ringbuf_unwrite(@),
                 !.line_len = @ - 1]

\* Ctrl-D ends the line for a process that waits; the length of the line is
\* not reset.
handle_ctrl_d(b) ==
  IF b.waiting = << >> THEN b
  ELSE put(IF b.line_len = 0 THEN put(b, "eof") ELSE b, "nl")

\* handle_key_press, up to waking the reader.  The scan codes of the arrows are
\* beyond the table: they return with arrow set, and the next key is lost.
handle_key_press(b, key) ==
  CASE key = "ctrl"            -> [b EXCEPT !.ctrl = TRUE]
    [] key = "ctrl_up"         -> [b EXCEPT !.ctrl = FALSE]
    [] key = "arrow"           -> [b EXCEPT !.arrow = TRUE]
    [] b.ctrl /\ key = "d"     -> handle_ctrl_d(b)
    [] b.ctrl /\ key = "c"     -> b
    [] OTHER ->
         IF b.arrow THEN [b EXCEPT !.arrow = FALSE]
         ELSE CASE key = "backspace" -> backspace(b)
                [] key = "tab"       -> put_char(put_char(put_char(put_char(b, "x"), "x"), "x"), "x")
                [] key = "newline"   -> put_newline(b)
                [] OTHER             -> put_char(b, "x")

\* Mutant: a line that ends wakes nobody in canonical mode.
wakes_reader_raw_only(b, key, after) ==
  /\ b.waiting # << >>
  /\ IF b.ctrl /\ key = "d" THEN TRUE
     ELSE /\ key \in {"x", "d", "c", "newline"} /\ ~ b.arrow /\ ~ (b.ctrl /\ key = "c")
          /\ ~ b.canonical /\ count(after) > 0

\* The key makes a waiting reader ready.
wakes_reader(b, key, after) ==
  /\ b.waiting # << >>
  /\ IF b.ctrl /\ key = "d" THEN TRUE
     ELSE /\ key \in {"x", "d", "c", "newline"} /\ ~ b.arrow /\ ~ (b.ctrl /\ key = "c")
          /\ IF b.canonical THEN key = "newline" ELSE count(after) > 0

-----------------------------------------------------------------------------
\* What the reader should get: the bytes, and how many of them belong to the
\* line the user is typing.  A byte that finds no room is lost.
Nothing == [bytes |-> << >>, line |-> 0, total |-> 0]

Room(t) == Len(t.bytes) < KBUFF_SIZE - 1

Expect(t, c) ==
  [bytes |-> IF Room(t) THEN Append(t.bytes, c) ELSE t.bytes,
   line  |-> IF c # "x" THEN 0 ELSE IF Room(t) THEN t.line + 1 ELSE t.line,
   total |-> t.total + 1]

ExpectKey(t, b, key) ==
  CASE key \in {"ctrl", "ctrl_up", "arrow"} \/ (b.ctrl /\ key = "c") -> t
    [] b.ctrl /\ key = "d" ->
         IF b.waiting = << >> THEN t
         ELSE Expect(IF t.line = 0 THEN Expect(t, "eof") ELSE t, "nl")
    [] OTHER ->
         IF b.arrow THEN t
         ELSE CASE key = "backspace" ->
                     IF t.line = 0 THEN t
                     ELSE [t EXCEPT !.bytes = SubSeq(@, 1, Len(@) - 1), !.line = @ - 1]
                [] key = "tab"     -> Expect(Expect(Expect(Expect(t, "x"), "x"), "x"), "x")
                [] key = "newline" -> Expect(t, "nl")
                [] OTHER           -> Expect(t, "x")

-----------------------------------------------------------------------------
KbInit ==
  /\ Init /\ k.foreground = 1
  /\ user \in Users /\ kb = NewKeyboard(user.start)
  /\ reading = {} /\ typed = Nothing

\* Interrupts are enabled: the running process is not inside read_line.
KbUserMode == UserMode /\ k.current \notin reading

\* A key, unless it is Ctrl-C.
Key ==
  /\ KbUserMode
  /\ \E key \in user.keys :
       /\ ~ (kb.ctrl /\ key = "c")
       /\ kb.ctrl /\ key = "d" => EofAnywhere \/ kb.line_len = 0
       /\ ExpectKey(typed, kb, key).total <= user.limit
       /\ \E after \in {handle_key_press(kb, key)} :
            IF wakes_reader(kb, key, after)
            THEN /\ kb' = [after EXCEPT !.waiting = dequeue(@)]
                 /\ k' = proc_ready(k, dequeue_value(after.waiting))
            ELSE kb' = after /\ UNCHANGED k
       /\ typed' = ExpectKey(typed, kb, key)
  /\ UNCHANGED <<reading, user>>

\* Mutant: a process that dies stays in the queue of the keyboard.
unlink_reader_not(b, p) == b

\* proc_kill unlinks a process that waits here (pcb.waiting_on).
unlink_reader(b, p) ==
  IF k.waiting_on[p] = "resource" THEN [b EXCEPT !.waiting = queue_remove(@, p)] ELSE b

\* Ctrl-C kills the foreground process.
InterruptKey ==
  /\ KbUserMode /\ kb.ctrl /\ "c" \in user.keys
  /\ k.foreground \notin {NULL, 0, 1}
  /\ k' = proc_kill(k, k.foreground)
  /\ kb' = unlink_reader(kb, k.foreground)
  /\ reading' = reading \ {k.foreground}
  /\ UNCHANGED <<user, typed>>

\* One pass of the loop of read_line, by the running process p.
ReadPass(p) ==
  IF next_line_length(kb) > 0
  THEN /\ kb' = get_line(kb)
       /\ reading' = reading \ {p}
       /\ typed' = [typed EXCEPT !.bytes =
                      SubSeq(@, (IF kb.canonical \/ next_line_length(kb) < ReadCount
                                 THEN next_line_length(kb) ELSE ReadCount) + 1, Len(@))]
       /\ UNCHANGED k
  ELSE IF kb.waiting # << >> THEN reading' = reading \ {p} /\ UNCHANGED <<k, kb, typed>>
  ELSE /\ kb' = [kb EXCEPT !.waiting = enqueue(@, p)]
       /\ k' = block_current(k, "TERMINAL", "resource")
       /\ reading' = reading \cup {p}
       /\ UNCHANGED typed

\* read_from_keyboard, by the foreground process; others get an error.
ReadLine ==
  /\ KbUserMode /\ k.current \notin {NULL, 0, 1} /\ k.current = k.foreground
  /\ ReadPass(k.current) /\ UNCHANGED user

ReadResume ==
  /\ k.machine = "up" /\ k.current \in reading
  /\ ReadPass(k.current) /\ UNCHANGED user

\* sys_set_canonical, by any program, in the foreground or not, one that was
\* killed and still has the CPU included; init and idle do not call it.
SetMode ==
  /\ KbUserMode /\ k.current \notin {0, 1}
  /\ \E mode \in user.modes : kb' = [kb EXCEPT !.canonical = mode]
  /\ UNCHANGED <<k, reading, user, typed>>

KbKernelStep ==
  /\ k.current \notin reading
  /\ Next
  /\ UNCHANGED <<kb, reading, user, typed>>

KbNext == Key \/ InterruptKey \/ ReadLine \/ ReadResume \/ SetMode \/ KbKernelStep

KbSpec == KbInit /\ [][KbNext]_kbVars

-----------------------------------------------------------------------------
\* The buffer holds what the user typed and nobody has read: each line once, in
\* order, as edited; an end of file at the start of a line only.  Interrupts of
\* the keyboard come between any two steps of the readers, and lines end while
\* nobody reads, while one waits, and after it died.
KeyboardLines == Buf!Contents(kb.ring) = typed.bytes

\* At most one process waits for the keyboard, and the queue of the driver and
\* the scheduler agree about which one, also when it is killed there.
TerminalWaiter ==
  /\ Len(kb.waiting) <= 1
  /\ \A p \in Pids :
       InQueue(kb.waiting, p) <=> k.status[p] = "BLOCKED" /\ k.block_reason[p] = "TERMINAL"

\* Nobody waits for a line that is there: one that ends between the look of
\* read_line and its block, or after the mode was changed under the reader by
\* whoever runs, is not missed.  (Bytes are another matter: a tab wakes nobody
\* in raw mode, and set_canonical_mode does not look at who waits.)
NoLostLine == kb.waiting # << >> => ringbuf_find(kb) = 0
=============================================================================
