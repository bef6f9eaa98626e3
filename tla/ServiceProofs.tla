--------------------------- MODULE ServiceProofs ----------------------------
(***************************************************************************)
(* The services of the kernel that no process takes part in.  Its log:     *)
(* sys_read_kmsg returns the last bytes that were logged, for every size   *)
(* of the buffer.  Its table of programs: it is a map from names to entry  *)
(* points, for every size of the table.  Its console: nothing is drawn     *)
(* outside the screen, for every size of the screen.                       *)
(***************************************************************************)
EXTENDS Console, KernelLog, Programs, FiniteSetTheorems, WellFoundedInduction, TLAPS

-----------------------------------------------------------------------------
(* Induction for the loops of the two drivers, with a set for the formula. *)

LEMMA LeastNatural ==
  ASSUME NEW T \in SUBSET Nat, T # {}
  PROVE  \E n \in T : \A m \in T : n <= m
<1>1. PICK n \in T : \A m \in T : <<m, n>> \notin OpToRel(<, Nat)
  BY WFMin, NatLessThanWellFounded, Zenon
<1>2. ASSUME NEW m \in T, m < n PROVE FALSE
  <2>1. <<m, n>> \in Nat \X Nat /\ <<m, n>>[1] < <<m, n>>[2]
    BY <1>2
  <2>2. <<m, n>> \in OpToRel(<, Nat)
    BY <2>1, Zenon DEF OpToRel
  <2>. QED BY <1>1, <2>2
<1>. QED BY <1>2

LEMMA NatSet ==
  ASSUME NEW T, 0 \in T, \A n \in Nat : n \in T => n + 1 \in T
  PROVE  Nat \subseteq T
<1>. SUFFICES ASSUME Nat \ T # {} PROVE FALSE
  OBVIOUS
<1>1. PICK n \in Nat \ T : \A m \in Nat \ T : n <= m
  BY LeastNatural
<1>2. n - 1 \in Nat /\ n - 1 \in T
  BY <1>1
<1>. QED BY <1>1, <1>2

\* x % m for the sums the drivers reduce, which are below 2 * m.
LEMMA ModLemma ==
  ASSUME NEW m \in Nat \ {0}, NEW i \in 0..(2 * m - 1)
  PROVE  i % m = IF i < m THEN i ELSE i - m
<1>1. CASE i < m
  BY <1>1
<1>2. CASE i >= m
  BY <1>2
<1>. QED BY <1>1, <1>2

\* A sequence given by its elements.
LEMMA SeqLemma ==
  ASSUME NEW S, NEW n \in Nat, NEW f, f = [i \in 1..n |-> f[i]],
         \A i \in 1..n : f[i] \in S
  PROVE  f \in Seq(S) /\ Len(f) = n
OBVIOUS

-----------------------------------------------------------------------------
(***************************************************************************)
(* The log.                                                                *)
(***************************************************************************)

\* head never moves: ringbuf_write_overwrite compares it with a number that is
\* at least 1.  So the bytes in front of the tail are the last ones logged.
LogInv ==
  /\ kmsg = [buf |-> kmsg.buf, head |-> 0, tail |-> kmsg.tail]
  /\ kmsg.buf \in [0..(KMSG_SIZE - 1) -> LogBytes]
  /\ logged \in Seq(LogBytes)
  /\ kmsg.tail \in 0..KMSG_SIZE /\ kmsg.tail <= Len(logged)
  /\ logged # << >> => kmsg.tail > 0
  /\ \A i \in 1..kmsg.tail : kmsg.buf[i - 1] = logged[Len(logged) - kmsg.tail + i]

LEMMA LogStart == LogInit => LogInv
BY KernelLogAssumption DEF LogInit, LogInv

LEMMA LogStep ==
  ASSUME LogInv, putc
  PROVE  LogInv'
<1>. DEFINE S == KMSG_SIZE
            b == kmsg.buf
            t == kmsg.tail
            L == Len(logged)
            s == IF t = S THEN 0 ELSE t
<1>1. PICK c \in LogBytes : kmsg' = overwrite(kmsg, c) /\ logged' = Append(logged, c)
  BY DEF putc
<1>2. /\ S \in Nat /\ S >= 2 /\ t \in 0..S /\ L \in Nat /\ t <= L /\ s \in 0..(S - 1)
      /\ s <= t
      /\ kmsg = [buf |-> b, head |-> 0, tail |-> t]
  BY KernelLogAssumption DEF LogInv
<1>3. t % S = s /\ 0 % S = 0
  <2>1. t \in 0..(2 * S - 1) /\ S \in Nat \ {0} /\ 0 \in 0..(2 * S - 1)
    BY <1>2
  <2>. QED BY <1>2, <2>1, ModLemma
<1>4. kmsg' = [buf |-> [b EXCEPT ![s] = c], head |-> 0, tail |-> s + 1]
  <2>1. Kmsg!RING_INDEX(kmsg.head) # Kmsg!RING_INDEX(kmsg.tail) + 1
    BY <1>2, <1>3 DEF Kmsg!RING_INDEX
  <2>2. kmsg' = Kmsg!store(kmsg, c)
    BY <1>1, <2>1 DEF overwrite, Kmsg!ringbuf_write_overwrite
  <2>3. Kmsg!wrap(kmsg.tail) = s
    BY DEF Kmsg!wrap
  <2>4. kmsg' = [kmsg EXCEPT !.buf[s] = c, !.tail = s + 1]
    BY <2>2, <2>3 DEF Kmsg!store
  <2>. HIDE DEF s, b, t
  <2>. QED BY <1>2, <2>4
<1>5. /\ logged' \in Seq(LogBytes) /\ Len(logged') = L + 1 /\ logged'[L + 1] = c
      /\ \A i \in 1..L : logged'[i] = logged[i]
  BY <1>1 DEF LogInv
<1>6. ASSUME NEW i \in 1..(s + 1)
      PROVE  [b EXCEPT ![s] = c][i - 1] = logged'[(L + 1) - (s + 1) + i]
  <2>1. b \in [0..(S - 1) -> LogBytes] /\ \A j \in 1..t : b[j - 1] = logged[L - t + j]
    BY DEF LogInv
  <2>2. CASE i = s + 1
    BY <1>2, <1>5, <2>1, <2>2
  <2>3. CASE i # s + 1
    <3>1. s = t /\ i \in 1..t /\ i - 1 # s /\ (L + 1) - (s + 1) + i = L - t + i
          /\ L - t + i \in 1..L /\ i - 1 \in 0..(S - 1)
      BY <1>2, <2>3
    <3>. HIDE DEF s, t, b, L
    <3>. QED BY <1>5, <2>1, <3>1
  <2>. QED BY <2>2, <2>3
<1>. HIDE DEF s
<1>7. [b EXCEPT ![s] = c] \in [0..(S - 1) -> LogBytes]
  BY <1>2 DEF LogInv
<1>. QED BY <1>2, <1>4, <1>5, <1>6, <1>7 DEF LogInv

\* Reading from the front of a log that did not move its head.
LEMMA ReadNoConsume ==
  ASSUME LogInv, NEW n \in 0..kmsg.tail
  PROVE  ringbuf_read_noconsume(kmsg, n) = [i \in 1..n |-> kmsg.buf[i - 1]]
<1>. DEFINE S == KMSG_SIZE
            t == kmsg.tail
            G(f) == f = [i \in 0..n |-> IF i = 0 THEN kmsg.head ELSE Kmsg!wrap(f[i - 1]) + 1]
            head == CHOOSE f : G(f)
            stops == {i \in 0..n : i = n \/ Kmsg!wrap(head[i]) = kmsg.tail}
            read == CHOOSE i \in stops : \A j \in stops : i <= j
<1>1. /\ S \in Nat /\ S >= 2 /\ t \in 0..S /\ n \in Nat /\ n <= t /\ kmsg.head = 0
  BY KernelLogAssumption DEF LogInv
<1>2. ringbuf_read_noconsume(kmsg, n) = [i \in 1..read |-> kmsg.buf[Kmsg!wrap(head[i - 1])]]
  BY DEF ringbuf_read_noconsume
<1>3. G(head)
  <2>. DEFINE g == [i \in 0..n |-> i]
  <2>1. ASSUME NEW i \in 0..n
        PROVE  g[i] = IF i = 0 THEN kmsg.head ELSE Kmsg!wrap(g[i - 1]) + 1
    BY <1>1 DEF Kmsg!wrap
  <2>2. G(g)
    <3>1. g = [i \in 0..n |-> g[i]]
      OBVIOUS
    <3>. HIDE DEF g
    <3>. QED BY <2>1, <3>1
  <2>. HIDE DEF G, g
  <2>. QED BY <2>2
<1>. HIDE DEF head
<1>4. \A i \in 0..n : head[i] = i
  <2>. DEFINE T == {i \in Nat : i <= n => head[i] = i}
  <2>1. 0 \in T
    BY <1>1, <1>3
  <2>2. ASSUME NEW i \in Nat, i \in T PROVE i + 1 \in T
    <3>. SUFFICES ASSUME i + 1 <= n PROVE head[i + 1] = i + 1
      OBVIOUS
    <3>1. head[i + 1] = Kmsg!wrap(head[(i + 1) - 1]) + 1
      BY <1>1, <1>3
    <3>. QED BY <1>1, <2>2, <3>1 DEF Kmsg!wrap
  <2>3. Nat \subseteq T
    <3>. HIDE DEF T
    <3>. QED BY <2>1, <2>2, NatSet
  <2>. QED BY <1>1, <2>3
<1>5. stops = {n}
  BY <1>1, <1>4 DEF Kmsg!wrap
<1>6. read = n
  BY <1>5
<1>7. \A i \in 1..n : Kmsg!wrap(head[i - 1]) = i - 1
  BY <1>1, <1>4 DEF Kmsg!wrap
<1>. HIDE DEF read
<1>. QED BY <1>2, <1>6, <1>7

\* A program that reads the log gets a beginning of what is in front of the tail.
LEMMA SysReadKmsg ==
  ASSUME LogInv, NEW m \in 1..(KMSG_SIZE + 1)
  PROVE  sys_read_kmsg(kmsg, m) =
           [i \in 1..(IF kmsg.tail < m THEN kmsg.tail ELSE m - 1) |-> kmsg.buf[i - 1]]
<1>1. /\ KMSG_SIZE \in Nat /\ kmsg.tail \in 0..KMSG_SIZE /\ kmsg.head = 0
      /\ kmsg.buf \in [0..(KMSG_SIZE - 1) -> LogBytes]
  BY KernelLogAssumption DEF LogInv
<1>2. Kmsg!ringbuf_available(kmsg) = kmsg.tail
  BY <1>1 DEF Kmsg!ringbuf_available
<1>3. CASE kmsg.tail < m
  <2>1. kmsg.tail \in 0..kmsg.tail
    BY <1>1
  <2>. QED BY <1>2, <1>3, <2>1, ReadNoConsume DEF sys_read_kmsg
<1>4. CASE kmsg.tail >= m
  <2>. DEFINE r == [i \in 1..m |-> kmsg.buf[i - 1]]
  <2>1. ringbuf_read_noconsume(kmsg, m) = r
    <3>1. m \in 0..kmsg.tail
      BY <1>1, <1>4
    <3>. QED BY <3>1, ReadNoConsume
  <2>2. sys_read_kmsg(kmsg, m) = SubSeq(r, 1, m - 1)
    BY <1>1, <1>2, <1>4, <2>1 DEF sys_read_kmsg
  <2>3. r \in Seq(LogBytes) /\ Len(r) = m
    <3>1. m \in Nat /\ r = [i \in 1..m |-> r[i]] /\ \A i \in 1..m : r[i] \in LogBytes
      BY <1>1, <1>4
    <3>. HIDE DEF r
    <3>. QED BY <3>1, SeqLemma
  <2>4. SubSeq(r, 1, m - 1) = [i \in 1..(m - 1) |-> r[i]]
    <3>. HIDE DEF r
    <3>. QED BY <2>3
  <2>. QED BY <1>1, <1>4, <2>2, <2>4
<1>. QED BY <1>1, <1>3, <1>4

\* Whatever was logged, what is read from the log is its end, in order, and not
\* empty once something was logged; a short buffer gets a beginning of that.
THEOREM LogShowsEnd == LogSpec => []LogIsSuffix
<1>1. LogInit => LogInv
  BY LogStart
<1>2. LogInv /\ [putc]_logVars => LogInv'
  BY LogStep DEF LogInv, logVars
<1>3. LogInv => LogIsSuffix
  <2>. SUFFICES ASSUME LogInv PROVE LogIsSuffix
    OBVIOUS
  <2>. DEFINE t == kmsg.tail
              b == kmsg.buf
              L == Len(logged)
              shown == sys_read_kmsg(kmsg, KMSG_SIZE + 1)
  <2>1. /\ KMSG_SIZE \in Nat /\ t \in 0..KMSG_SIZE /\ b \in [0..(KMSG_SIZE - 1) -> LogBytes]
        /\ logged \in Seq(LogBytes) /\ L \in Nat /\ t <= L /\ (logged # << >> => t > 0)
        /\ \A i \in 1..t : b[i - 1] = logged[L - t + i]
    BY KernelLogAssumption DEF LogInv
  <2>2. \A m \in 1..(KMSG_SIZE + 1) : sys_read_kmsg(kmsg, m) =
            [i \in 1..(IF t < m THEN t ELSE m - 1) |-> b[i - 1]]
    BY SysReadKmsg
  <2>3. shown = [i \in 1..t |-> b[i - 1]] /\ Len(shown) = t /\ shown \in Seq(LogBytes)
    <3>1. KMSG_SIZE + 1 \in 1..(KMSG_SIZE + 1) /\ t < KMSG_SIZE + 1
      BY <2>1
    <3>2. shown = [i \in 1..t |-> b[i - 1]]
      BY <2>2, <3>1
    <3>. HIDE DEF shown
    <3>3. t \in Nat /\ shown = [i \in 1..t |-> shown[i]] /\ \A i \in 1..t : shown[i] \in LogBytes
      BY <2>1, <3>2
    <3>4. shown \in Seq(LogBytes) /\ Len(shown) = t
      <4>. HIDE DEF t
      <4>. QED BY ONLY <3>3, SeqLemma
    <3>. QED BY <3>2, <3>4
  <2>. HIDE DEF shown, t, b
  <2>4. Seqs!IsSuffix(shown, logged)
    <3>. DEFINE r == Seqs!Reverse(shown)
                q == Seqs!Reverse(logged)
    <3>1. r = [i \in 1..t |-> shown[(t - i) + 1]] /\ q = [i \in 1..L |-> logged[(L - i) + 1]]
      <4>1. r = [i \in 1..Len(shown) |-> shown[(Len(shown) - i) + 1]]
        BY Zenon DEF Seqs!Reverse
      <4>2. q = [i \in 1..L |-> logged[(L - i) + 1]]
        BY Zenon DEF Seqs!Reverse
      <4>3. Len(shown) = t
        BY <2>3
      <4>. QED BY <4>1, <4>2, <4>3
    <3>. HIDE DEF r, q
    <3>2. r \in Seq(LogBytes) /\ q \in Seq(LogBytes) /\ Len(r) = t /\ Len(q) = L
      <4>1. /\ t \in Nat /\ r = [i \in 1..t |-> r[i]]
            /\ \A i \in 1..t : r[i] \in LogBytes
        BY <2>1, <2>3, <3>1
      <4>2. /\ L \in Nat /\ q = [i \in 1..L |-> q[i]]
            /\ \A i \in 1..L : q[i] \in LogBytes
        BY <2>1, <3>1
      <4>3. r \in Seq(LogBytes) /\ Len(r) = t
        BY ONLY <4>1, SeqLemma
      <4>4. q \in Seq(LogBytes) /\ Len(q) = L
        <5>. HIDE DEF L
        <5>. QED BY ONLY <4>2, SeqLemma
      <4>. QED BY <4>3, <4>4
    <3>3. ASSUME NEW i \in 1..t PROVE r[i] = q[i]
      <4>. DEFINE j == (t - i) + 1
      <4>1. j \in 1..t /\ i \in 1..L /\ L - t + j = (L - i) + 1
        BY <2>1
      <4>2. shown[j] = b[j - 1] /\ b[j - 1] = logged[L - t + j]
        <5>. HIDE DEF j, L
        <5>. QED BY <2>1, <2>3, <4>1
      <4>. QED BY <3>1, <4>1, <4>2
    <3>4. SubSeq(r, 1, t) = SubSeq(q, 1, t)
      BY <2>1, <3>2, <3>3
    <3>. QED BY <2>1, <3>2, <3>4 DEF Seqs!IsSuffix, Seqs!IsPrefix, r, q
  <2>5. logged # << >> => shown # << >>
    BY <2>1, <2>3
  <2>6. ASSUME NEW m \in 1..KMSG_SIZE
        PROVE  Seqs!IsPrefix(sys_read_kmsg(kmsg, m), shown)
    <3>. DEFINE n == IF t < m THEN t ELSE m - 1
                r == sys_read_kmsg(kmsg, m)
    <3>1. n \in 0..t /\ r = [i \in 1..n |-> b[i - 1]]
      BY <2>1, <2>2
    <3>. HIDE DEF n, r
    <3>2. r \in Seq(LogBytes) /\ Len(r) = n /\ \A i \in 1..n : r[i] = shown[i]
      BY <2>1, <2>3, <3>1
    <3>3. SubSeq(r, 1, n) = SubSeq(shown, 1, n)
      BY <2>1, <2>3, <3>1, <3>2
    <3>. QED BY <2>1, <2>3, <3>1, <3>2, <3>3 DEF Seqs!IsPrefix, r
  <2>. QED BY <2>4, <2>5, <2>6 DEF LogIsSuffix, shown
<1>. QED BY <1>1, <1>2, <1>3, PTL DEF LogSpec

-----------------------------------------------------------------------------
(***************************************************************************)
(* The table of programs.                                                  *)
(***************************************************************************)

Entries == [name : Names, entry_point : EntryPoints]

Distinct(t) == \A i, j \in 1..Len(t) : t[i].name = t[j].name => i = j

Has(t, name) == \E i \in 1..Len(t) : t[i].name = name

\* No name is in the table twice, and the table holds what was loaded: without
\* the first part fs_rm, which takes out one entry, could bring back another.
ProgramsInv ==
  /\ fs \in Seq(Entries) /\ Len(fs) <= MAX_FILE_ENTRIES
  /\ Distinct(fs)
  /\ program \in [Names -> EntryPoints \cup {NotLoaded}]
  /\ \A i \in 1..Len(fs) : program[fs[i].name] = fs[i].entry_point
  /\ \A name \in Names : program[name] # NotLoaded => Has(fs, name)

\* What stands at a place of the table.
LEMMA ElementLemma ==
  ASSUME NEW t \in Seq(Entries), NEW i \in 1..Len(t)
  PROVE  t[i] \in Entries /\ t[i].name \in Names /\ t[i].entry_point \in EntryPoints
<1>1. t[i] \in Entries
  OBVIOUS
<1>. QED BY <1>1 DEF Entries

\* What the loops over the table find.
LEMMA EntryIndex ==
  ASSUME NEW t \in Seq(Entries), NEW name
  PROVE  LET i == entry_index(t, name)
         IN  /\ i = 0 <=> ~ Has(t, name)
             /\ i # 0 => i \in 1..Len(t) /\ t[i].name = name
<1>. DEFINE found == {i \in DOMAIN t : t[i].name = name}
            least == CHOOSE i \in found : \A j \in found : i <= j
<1>1. entry_index(t, name) = IF found = {} THEN 0 ELSE least
  BY DEF entry_index
<1>2. DOMAIN t = 1..Len(t) /\ Len(t) \in Nat
  OBVIOUS
<1>3. found = {} <=> ~ Has(t, name)
  BY <1>2 DEF Has
<1>4. CASE found = {}
  BY <1>1, <1>3, <1>4
<1>5. CASE found # {}
  <2>1. least \in found
    <3>1. \E i \in found : \A j \in found : i <= j
      <4>1. found \in SUBSET Nat
        BY <1>2
      <4>. HIDE DEF found
      <4>. QED BY <1>5, <4>1, LeastNatural
    <3>. HIDE DEF found
    <3>. QED BY <3>1
  <2>. HIDE DEF least
  <2>2. least \in 1..Len(t) /\ t[least].name = name
    BY <1>2, <2>1
  <2>. QED BY <1>1, <1>2, <1>3, <1>5, <2>2
<1>. QED BY <1>4, <1>5

LEMMA LoadStep ==
  ASSUME ProgramsInv, Load
  PROVE  ProgramsInv'
<1>1. PICK name \in Names, entry \in EntryPoints :
        /\ fs' = fs_load(fs, name, entry)
        /\ program' = IF Len(fs') > Len(fs) THEN [program EXCEPT ![name] = entry] ELSE program
  BY DEF Load
<1>2. fs \in Seq(Entries) /\ Len(fs) \in Nat /\ MAX_FILE_ENTRIES \in Nat
  BY ProgramsAssumption DEF ProgramsInv
<1>3. CASE fs' = fs
  <2>1. program' = program
    BY <1>1, <1>2, <1>3
  <2>. QED BY <1>3, <2>1 DEF ProgramsInv, Distinct, Has
<1>4. CASE fs' # fs
  <2>. DEFINE e == [name |-> name, entry_point |-> entry]
              n == Len(fs)
  <2>1. fs' = Append(fs, e) /\ Len(fs) < MAX_FILE_ENTRIES /\ entry_index(fs, name) = 0
    BY <1>1, <1>2, <1>4 DEF fs_load
  <2>2. ~ Has(fs, name)
    BY <1>2, <2>1, EntryIndex
  <2>3. /\ e \in Entries /\ e.name = name /\ e.entry_point = entry
    BY DEF Entries
  <2>. HIDE DEF e
  <2>4. /\ fs' \in Seq(Entries) /\ Len(fs') = n + 1 /\ fs'[n + 1] = e
        /\ \A i \in 1..n : fs'[i] = fs[i]
    BY <1>2, <2>1, <2>3
  <2>5. program' = [program EXCEPT ![name] = entry]
    BY <1>1, <1>2, <2>4
  <2>6. \A i \in 1..n : fs[i].name \in Names /\ fs[i].name # name
    BY <1>2, <2>2, ElementLemma DEF Has
  <2>7. Distinct(fs')
    BY <1>2, <2>3, <2>4, <2>6 DEF ProgramsInv, Distinct
  <2>8. program' \in [Names -> EntryPoints \cup {NotLoaded}]
    BY <2>5 DEF ProgramsInv
  <2>9. ASSUME NEW i \in 1..(n + 1) PROVE program'[fs'[i].name] = fs'[i].entry_point
    <3>1. CASE i = n + 1
      BY <2>3, <2>4, <2>5, <3>1 DEF ProgramsInv
    <3>2. CASE i # n + 1
      <4>1. i \in 1..n
        BY <1>2, <3>2
      <4>. QED BY <2>4, <2>5, <2>6, <4>1 DEF ProgramsInv
    <3>. QED BY <3>1, <3>2
  <2>10. ASSUME NEW m \in Names, program'[m] # NotLoaded PROVE Has(fs', m)
    <3>1. CASE m = name
      <4>1. n + 1 \in 1..Len(fs')
        BY <1>2, <2>4
      <4>. QED BY <2>3, <2>4, <3>1, <4>1 DEF Has
    <3>2. CASE m # name
      <4>1. program[m] # NotLoaded
        BY <2>5, <2>10, <3>2 DEF ProgramsInv
      <4>2. PICK i \in 1..n : fs[i].name = m
        BY <4>1 DEF ProgramsInv, Has
      <4>3. i \in 1..Len(fs') /\ fs'[i].name = m
        BY <1>2, <2>4, <4>2
      <4>. QED BY <4>3 DEF Has
    <3>. QED BY <3>1, <3>2
  <2>. QED BY <1>2, <2>1, <2>4, <2>7, <2>8, <2>9, <2>10 DEF ProgramsInv
<1>. QED BY <1>3, <1>4

LEMMA UnloadStep ==
  ASSUME ProgramsInv, Unload
  PROVE  ProgramsInv'
<1>1. PICK name \in Names :
        /\ fs' = fs_rm(fs, name)
        /\ program' = [program EXCEPT ![name] = NotLoaded]
  BY DEF Unload
<1>. DEFINE k == entry_index(fs, name)
            n == Len(fs)
<1>2. fs \in Seq(Entries) /\ n \in Nat /\ MAX_FILE_ENTRIES \in Nat /\ n <= MAX_FILE_ENTRIES
  BY ProgramsAssumption DEF ProgramsInv
<1>3. program' \in [Names -> EntryPoints \cup {NotLoaded}]
  BY <1>1 DEF ProgramsInv
<1>4. /\ k = 0 <=> ~ Has(fs, name)
      /\ k # 0 => k \in 1..n /\ fs[k].name = name
  BY <1>2, EntryIndex
<1>5. \A i \in 1..n : fs[i].name \in Names /\ fs[i] \in Entries
  BY <1>2, ElementLemma
<1>6. CASE k = 0
  <2>1. fs' = fs
    BY <1>1, <1>6 DEF fs_rm
  <2>. HIDE DEF k
  <2>2. \A i \in 1..n : fs[i].name # name
    BY <1>4, <1>6 DEF Has
  <2>3. \A i \in 1..n : program'[fs[i].name] = fs[i].entry_point
    BY <1>1, <1>5, <2>2 DEF ProgramsInv
  <2>4. \A m \in Names : program'[m] # NotLoaded => Has(fs, m)
    BY <1>1 DEF ProgramsInv
  <2>. QED BY <1>3, <2>1, <2>3, <2>4 DEF ProgramsInv, Distinct, Has
<1>7. CASE k # 0
  <2>. DEFINE src(j) == IF j < k THEN j ELSE j + 1
  <2>1. fs' = [j \in 1..(n - 1) |-> IF j < k THEN fs[j] ELSE fs[j + 1]]
    BY <1>1, <1>7 DEF fs_rm
  <2>. HIDE DEF k
  <2>2. k \in 1..n /\ fs[k].name = name
    BY <1>4, <1>7
  <2>3. \A j \in 1..(n - 1) : src(j) \in 1..n /\ src(j) # k /\ fs'[j] = fs[src(j)]
    BY <1>2, <2>1, <2>2
  <2>4. /\ \A i, j \in 1..(n - 1) : src(i) = src(j) => i = j
        /\ \A i \in 1..n : i # k => \E j \in 1..(n - 1) : src(j) = i
    <3>1. ASSUME NEW i \in 1..n, i # k PROVE \E j \in 1..(n - 1) : src(j) = i
      <4>1. CASE i < k
        <5>1. i \in 1..(n - 1) /\ src(i) = i
          BY <1>2, <2>2, <4>1
        <5>. QED BY <5>1
      <4>2. CASE i > k
        <5>1. i - 1 \in 1..(n - 1) /\ src(i - 1) = i
          BY <1>2, <2>2, <4>2
        <5>. QED BY <5>1
      <4>. QED BY <1>2, <2>2, <3>1, <4>1, <4>2
    <3>2. \A i, j \in 1..(n - 1) : src(i) = src(j) => i = j
      BY <1>2, <2>2
    <3>. QED BY <3>1, <3>2
  <2>. HIDE DEF src
  <2>5. fs' \in Seq(Entries) /\ Len(fs') = n - 1
    <3>1. n - 1 \in Nat /\ fs' = [j \in 1..(n - 1) |-> fs'[j]]
      BY <1>2, <2>1, <2>2
    <3>2. \A j \in 1..(n - 1) : fs'[j] \in Entries
      BY <1>5, <2>3
    <3>. QED BY ONLY <3>1, <3>2, SeqLemma
  <2>6. \A i \in 1..n : i # k => fs[i].name # name
    BY <2>2 DEF ProgramsInv, Distinct
  <2>7. Distinct(fs')
    <3>. SUFFICES ASSUME NEW i \in 1..(n - 1), NEW j \in 1..(n - 1), fs'[i].name = fs'[j].name
                  PROVE  i = j
      BY <2>5 DEF Distinct
    <3>1. src(i) = src(j)
      BY <2>3 DEF ProgramsInv, Distinct
    <3>. QED BY <2>4, <3>1
  <2>8. ASSUME NEW j \in 1..(n - 1) PROVE program'[fs'[j].name] = fs'[j].entry_point
    <3>1. src(j) \in 1..n /\ fs'[j] = fs[src(j)] /\ fs[src(j)].name # name
      BY <2>3, <2>6
    <3>2. fs[src(j)].name \in Names /\ program[fs[src(j)].name] = fs[src(j)].entry_point
      BY <1>5, <3>1 DEF ProgramsInv
    <3>. QED BY <1>1, <3>1, <3>2 DEF ProgramsInv
  <2>9. ASSUME NEW m \in Names, program'[m] # NotLoaded PROVE Has(fs', m)
    <3>1. m # name /\ program[m] # NotLoaded
      BY <1>1, <2>9 DEF ProgramsInv
    <3>2. PICK i \in 1..n : fs[i].name = m
      BY <3>1 DEF ProgramsInv, Has
    <3>3. i # k
      BY <2>2, <3>1, <3>2
    <3>4. PICK j \in 1..(n - 1) : src(j) = i
      BY <2>4, <3>3
    <3>5. fs'[j].name = m
      BY <2>3, <3>2, <3>4
    <3>. QED BY <2>5, <3>5 DEF Has
  <2>10. Len(fs') <= MAX_FILE_ENTRIES
    BY <1>2, <2>5
  <2>. QED BY <1>3, <2>5, <2>7, <2>8, <2>9, <2>10 DEF ProgramsInv
<1>. QED BY <1>6, <1>7

\* Through every sequence of loads, repeated loads and removals a name finds the
\* entry point it was loaded with, a removed one finds none, and the list names
\* every program once.
THEOREM ProgramsFound == ProgramsSpec => []ProgramsAreMap
<1>1. ProgramsInit => ProgramsInv
  BY ProgramsAssumption DEF ProgramsInit, ProgramsInv, Distinct, Has, Entries
<1>2. ProgramsInv /\ [ProgramsNext]_programVars => ProgramsInv'
  <2>1. ProgramsInv /\ UNCHANGED programVars => ProgramsInv'
    BY DEF ProgramsInv, programVars, Distinct, Has
  <2>. QED BY <2>1, LoadStep, UnloadStep DEF ProgramsNext
<1>3. ProgramsInv => ProgramsAreMap
  <2>. SUFFICES ASSUME ProgramsInv PROVE ProgramsAreMap
    OBVIOUS
  <2>. DEFINE n == Len(fs)
              all == fs_list_programs(fs, MAX_FILE_ENTRIES)
  <2>1. /\ fs \in Seq(Entries) /\ n \in Nat /\ MAX_FILE_ENTRIES \in Nat /\ n <= MAX_FILE_ENTRIES
        /\ NotLoaded \notin EntryPoints
    BY ProgramsAssumption DEF ProgramsInv
  <2>2. \A i \in 1..n : fs[i].name \in Names /\ fs[i].entry_point \in EntryPoints
    BY <2>1, ElementLemma
  <2>3. ASSUME NEW name \in Names PROVE fs_get_entry(fs, name) = program[name]
    <3>. DEFINE k == entry_index(fs, name)
    <3>1. /\ k = 0 <=> ~ Has(fs, name)
          /\ k # 0 => k \in 1..n /\ fs[k].name = name
      BY <2>1, EntryIndex
    <3>2. fs_get_entry(fs, name) = IF k = 0 THEN NotLoaded ELSE fs[k].entry_point
      BY DEF fs_get_entry
    <3>. HIDE DEF k
    <3>. QED BY <3>1, <3>2 DEF ProgramsInv
  <2>4. all = [i \in 1..n |-> fs[i].name]
    <3>1. (IF n < MAX_FILE_ENTRIES THEN n ELSE MAX_FILE_ENTRIES) = n
      BY <2>1
    <3>. QED BY <3>1 DEF fs_list_programs
  <2>. HIDE DEF all
  <2>5. Len(all) = n /\ DOMAIN all = 1..n
    <3>1. n \in Nat /\ all = [i \in 1..n |-> all[i]] /\ \A i \in 1..n : all[i] \in Names
      BY <2>1, <2>2, <2>4
    <3>. HIDE DEF n
    <3>2. Len(all) = n
      BY ONLY <3>1, SeqLemma
    <3>. QED BY <3>1, <3>2
  <2>6. ToSet(all) = {all[i] : i \in 1..n}
    BY <2>5 DEF ToSet
  <2>7. ToSet(all) = {name \in Names : program[name] # NotLoaded}
    <3>1. ASSUME NEW i \in 1..n PROVE all[i] \in Names /\ program[all[i]] # NotLoaded
      BY <2>1, <2>2, <2>4 DEF ProgramsInv
    <3>2. ASSUME NEW m \in Names, program[m] # NotLoaded PROVE \E i \in 1..n : all[i] = m
      BY <2>4, <3>2 DEF ProgramsInv, Has
    <3>. QED BY <2>6, <3>1, <3>2
  <2>8. Cardinality(ToSet(all)) = n
    <3>1. all \in Bijection(1..n, ToSet(all))
      <4>1. all \in [1..n -> ToSet(all)]
        BY <2>4, <2>6
      <4>2. \A i, j \in 1..n : all[i] = all[j] => i = j
        BY <2>4 DEF ProgramsInv, Distinct
      <4>3. \A m \in ToSet(all) : \E i \in 1..n : all[i] = m
        BY <2>6
      <4>. QED BY <4>1, <4>2, <4>3 DEF Bijection, Injection, Surjection, IsInjective
    <3>2. ExistsBijection(1..n, ToSet(all))
      BY <3>1 DEF ExistsBijection
    <3>. HIDE DEF n
    <3>. QED BY <2>1, <3>2, FS_CountingElements
  <2>. QED BY <2>3, <2>5, <2>7, <2>8 DEF ProgramsAreMap, all
<1>. QED BY <1>1, <1>2, <1>3, PTL DEF ProgramsSpec

-----------------------------------------------------------------------------
(***************************************************************************)
(* The console.                                                            *)
(***************************************************************************)

Shape(s) ==
  s = [x |-> s.x, y |-> s.y, size |-> s.size, currentX |-> s.currentX,
       currentY |-> s.currentY, top_left |-> s.top_left, mooving |-> s.mooving,
       log |-> s.log, shown |-> s.shown, font |-> s.font,
       background |-> s.background, inside |-> s.inside]

\* A console that drew nothing outside the screen, with one of the three sizes.
Sound(s) == Shape(s) /\ s.size \in {1, 2, 4} /\ s.inside = TRUE

\* The cursor of the screen.  A column beyond the screen is what a backspace in
\* the first cell leaves behind if the screen is one character wide; a row below
\* the screen is the place behind its last character.
CursorOK(s) == /\ s.x \in 0..(WORD - 1)
               /\ s.y \in 0..SCREEN_HEIGHT /\ s.y % s.size = 0

LogCursorOK(s) == /\ s.currentX \in 0..MAX_WIDTH_LOG(s)
                  /\ s.currentY \in 0..(MAX_HEIGHT_LOG(s) - 1)
                  /\ s.top_left \in 0..(MAX_HEIGHT_LOG(s) - 1)

ConInv == Sound(con) /\ CursorOK(con) /\ LogCursorOK(con)

\* t is s after something was drawn.
Drawn(s, t) == /\ Sound(t) /\ t.size = s.size
               /\ t.currentX = s.currentX /\ t.currentY = s.currentY
               /\ t.top_left = s.top_left

LEMMA DrawnTwice ==
  ASSUME NEW s, NEW t, NEW u, Drawn(s, t), Drawn(t, u)
  PROVE  Drawn(s, u)
BY DEF Drawn

\* s with the cursor of the screen moved.
Moved(s, a, b) ==
  [x |-> a, y |-> b, size |-> s.size, currentX |-> s.currentX,
   currentY |-> s.currentY, top_left |-> s.top_left, mooving |-> s.mooving,
   log |-> s.log, shown |-> s.shown, font |-> s.font,
   background |-> s.background, inside |-> s.inside]

LEMMA MoveLemma ==
  ASSUME NEW s, Sound(s), NEW a, NEW b
  PROVE  Drawn(s, Moved(s, a, b)) /\ Moved(s, a, b).x = a /\ Moved(s, a, b).y = b
BY DEF Moved, Drawn, Sound, Shape

LEMMA Geometry ==
  ASSUME NEW s, s.size \in {1, 2, 4}
  PROVE  /\ MAX_WIDTH_LOG(s) \in Nat \ {0} /\ MAX_HEIGHT_LOG(s) \in Nat
         /\ MAX_HEIGHT_LOG(s) >= 2
         /\ SCREEN_WIDTH = s.size * MAX_WIDTH_LOG(s)
         /\ SCREEN_HEIGHT = s.size * MAX_HEIGHT_LOG(s)
<1>1. /\ SCREEN_WIDTH \in Nat \ {0} /\ SCREEN_WIDTH % 4 = 0
      /\ SCREEN_HEIGHT \in Nat /\ SCREEN_HEIGHT % 4 = 0 /\ SCREEN_HEIGHT >= 8
  BY ConsoleAssumption
<1>2. CASE s.size = 1
  BY <1>1, <1>2 DEF MAX_WIDTH_LOG, MAX_HEIGHT_LOG
<1>3. CASE s.size = 2
  BY <1>1, <1>3 DEF MAX_WIDTH_LOG, MAX_HEIGHT_LOG
<1>4. CASE s.size = 4
  BY <1>1, <1>4 DEF MAX_WIDTH_LOG, MAX_HEIGHT_LOG
<1>. QED BY <1>2, <1>3, <1>4

\* A character that begins on the screen ends on the screen.
LEMMA PutGlyph ==
  ASSUME NEW s, Sound(s), s.x \in Nat, s.y \in Nat, NEW c,
         s.x <= SCREEN_WIDTH - s.size, s.y <= SCREEN_HEIGHT - s.size
  PROVE  LET t == put_glyph(s, c)
         IN  /\ Drawn(s, t)
             /\ t.x = (IF s.x = SCREEN_WIDTH - s.size THEN 0 ELSE s.x + s.size)
             /\ t.y = (IF s.x = SCREEN_WIDTH - s.size THEN s.y + s.size ELSE s.y)
<1>. DEFINE x == (s.x + s.size) % SCREEN_WIDTH
            v == [s.shown EXCEPT ![s.y \div s.size][s.x \div s.size] = c]
<1>1. /\ SCREEN_WIDTH \in Nat \ {0} /\ SCREEN_HEIGHT \in Nat /\ s.size \in 1..4
  BY ConsoleAssumption DEF Sound
<1>2. s.x + s.size <= SCREEN_WIDTH /\ s.y + s.size <= SCREEN_HEIGHT
  BY <1>1
<1>3. x = IF s.x = SCREEN_WIDTH - s.size THEN 0 ELSE s.x + s.size
  <2>. DEFINE j == s.x + s.size
  <2>1. j \in 0..(2 * SCREEN_WIDTH - 1)
    BY <1>1, <1>2
  <2>2. x = IF j < SCREEN_WIDTH THEN j ELSE j - SCREEN_WIDTH
    <3>1. x = j % SCREEN_WIDTH
      OBVIOUS
    <3>. HIDE DEF j, x
    <3>2. j % SCREEN_WIDTH = IF j < SCREEN_WIDTH THEN j ELSE j - SCREEN_WIDTH
      BY ONLY <1>1, <2>1, ModLemma
    <3>. QED BY <3>1, <3>2
  <2>. HIDE DEF x
  <2>. QED BY <1>1, <1>2, <2>2
<1>4. s.inside /\ x = 0 <=> s.x = SCREEN_WIDTH - s.size
  <2>. HIDE DEF x
  <2>. QED BY <1>1, <1>3 DEF Sound
<1>5. put_glyph(s, c) = [s EXCEPT !.inside = TRUE, !.shown = v, !.x = x,
                                  !.y = IF x = 0 THEN s.y + s.size ELSE s.y]
  <2>. HIDE DEF x
  <2>. QED BY <1>2 DEF put_glyph, Sound, Shape, x
<1>. HIDE DEF x, v
<1>. QED BY <1>3, <1>4, <1>5 DEF Drawn, Sound, Shape

LEMMA NextLine ==
  ASSUME NEW s, Sound(s), s.x \in Nat, s.y \in Nat
  PROVE  LET t == next_line(s)
         IN  /\ Drawn(s, t) /\ t.x \in Nat /\ t.x <= SCREEN_WIDTH - s.size
             /\ t.x = (IF s.x > SCREEN_WIDTH - s.size THEN 0 ELSE s.x)
             /\ t.y = (IF s.x > SCREEN_WIDTH - s.size THEN s.y + s.size ELSE s.y)
<1>1. /\ SCREEN_WIDTH \in Nat /\ s.size \in Nat /\ s.size <= SCREEN_WIDTH
  <2>1. s.size \in {1, 2, 4}
    BY DEF Sound
  <2>2. SCREEN_WIDTH \in Nat \ {0} /\ SCREEN_WIDTH % 4 = 0
    BY ConsoleAssumption
  <2>. QED BY <2>1, <2>2
<1>2. CASE s.x > SCREEN_WIDTH - s.size
  <2>1. next_line(s) = [s EXCEPT !.x = 0, !.y = s.y + s.size]
    BY <1>2 DEF next_line, Sound, Shape
  <2>2. Drawn(s, next_line(s)) /\ next_line(s).x = 0 /\ next_line(s).y = s.y + s.size
    BY <2>1 DEF Drawn, Sound, Shape
  <2>. HIDE DEF next_line
  <2>. QED BY <1>1, <1>2, <2>2
<1>3. CASE ~ (s.x > SCREEN_WIDTH - s.size)
  <2>1. next_line(s) = s
    BY <1>3 DEF next_line
  <2>. QED BY <1>1, <1>3, <2>1 DEF Drawn
<1>. QED BY <1>2, <1>3

-----------------------------------------------------------------------------
(* Drawing a text from a cell on, without looking for the end of the screen. *)

\* The cursor is at cell i, counted from the top left.
AtCell(s, i) ==
  \E q \in Nat, r \in 0..(MAX_WIDTH_LOG(s) - 1) :
    /\ i = q * MAX_WIDTH_LOG(s) + r
    /\ s.x = s.size * r /\ s.y = s.size * q

\* Cells and rows.
LEMMA CellLemma ==
  ASSUME NEW w \in Nat \ {0}, NEW h \in Nat, NEW q \in Nat, NEW r \in 0..(w - 1)
  PROVE  /\ q * w + r < h * w => q <= h - 1
         /\ q * w + r = h * w => q = h /\ r = 0
         /\ (q + 1) * w = q * w + w
<1>1. q >= h => q * w >= h * w
  OBVIOUS
<1>2. q >= h + 1 => q * w >= h * w + w
  <2>1. (h + 1) * w = h * w + w
    OBVIOUS
  <2>2. q >= h + 1 => q * w >= (h + 1) * w
    OBVIOUS
  <2>. QED BY <2>1, <2>2
<1>3. q <= h - 1 => q * w + w <= h * w
  <2>1. (q + 1) * w = q * w + w
    OBVIOUS
  <2>2. q + 1 <= h => (q + 1) * w <= h * w
    OBVIOUS
  <2>. QED BY <2>1, <2>2
<1>4. (q + 1) * w = q * w + w /\ q * w \in Nat /\ h * w \in Nat
  OBVIOUS
<1>. QED BY <1>1, <1>2, <1>3, <1>4

\* Inside the screen the cursor goes on by one cell.
LEMMA DrawCell ==
  ASSUME NEW s, Sound(s), NEW i \in Nat, AtCell(s, i), NEW c,
         i < MAX_HEIGHT_LOG(s) * MAX_WIDTH_LOG(s)
  PROVE  LET t == draw_in_scroll(s, c) IN Drawn(s, t) /\ AtCell(t, i + 1)
<1>. DEFINE w == MAX_WIDTH_LOG(s)
            h == MAX_HEIGHT_LOG(s)
            z == s.size
            t == put_glyph(s, c)
<1>1. /\ w \in Nat \ {0} /\ h \in Nat /\ h >= 2 /\ z \in {1, 2, 4}
      /\ SCREEN_WIDTH = z * w /\ SCREEN_HEIGHT = z * h
  BY Geometry DEF Sound
<1>2. PICK q \in Nat, r \in 0..(w - 1) :
        i = q * w + r /\ s.x = z * r /\ s.y = z * q
  BY DEF AtCell
<1>. HIDE DEF w, h, z
<1>3. q <= h - 1 /\ (q + 1) * w = q * w + w
  BY <1>1, <1>2, CellLemma DEF w, h
<1>4. /\ s.x \in Nat /\ s.y \in Nat /\ s.x <= SCREEN_WIDTH - z /\ s.y <= SCREEN_HEIGHT - z
      /\ s.x = SCREEN_WIDTH - z <=> r = w - 1
  <2>1. CASE z = 1
    BY <1>1, <1>2, <1>3, <2>1
  <2>2. CASE z = 2
    BY <1>1, <1>2, <1>3, <2>2
  <2>3. CASE z = 4
    BY <1>1, <1>2, <1>3, <2>3
  <2>. QED BY <1>1, <2>1, <2>2, <2>3
<1>5. next_line(s) = s
  BY <1>1, <1>4 DEF next_line, z
<1>6. /\ Drawn(s, t)
      /\ t.x = (IF r = w - 1 THEN 0 ELSE s.x + z)
      /\ t.y = (IF r = w - 1 THEN s.y + z ELSE s.y)
  BY <1>4, PutGlyph DEF z
<1>. HIDE DEF t
<1>7. t.size = z /\ MAX_WIDTH_LOG(t) = w
  BY <1>6 DEF Drawn, MAX_WIDTH_LOG, w, z
<1>8. CASE r = w - 1
  <2>1. i + 1 = (q + 1) * w + 0
    BY <1>1, <1>2, <1>3, <1>8
  <2>2. t.x = z * 0 /\ t.y = z * (q + 1)
    BY <1>1, <1>2, <1>6, <1>8
  <2>3. q + 1 \in Nat /\ 0 \in 0..(w - 1)
    BY <1>1
  <2>4. AtCell(t, i + 1)
    BY <1>7, <2>1, <2>2, <2>3 DEF AtCell
  <2>. QED BY <1>5, <1>6, <2>4 DEF draw_in_scroll, t
<1>9. CASE r # w - 1
  <2>1. i + 1 = q * w + (r + 1)
    BY <1>1, <1>2
  <2>2. t.x = z * (r + 1) /\ t.y = z * q
    BY <1>1, <1>2, <1>6, <1>9
  <2>3. r + 1 \in 0..(w - 1)
    BY <1>1, <1>9
  <2>4. AtCell(t, i + 1)
    BY <1>7, <2>1, <2>2, <2>3 DEF AtCell
  <2>. QED BY <1>5, <1>6, <2>4 DEF draw_in_scroll, t
<1>. QED BY <1>8, <1>9

\* The loop that draws a text, step by step.
LEMMA DrawSteps ==
  ASSUME NEW s, NEW text, NEW c \in Nat, Len(text) = c
  PROVE  \E f : /\ f[0] = s /\ draw_all(s, text) = f[c]
                /\ \A n \in 1..c : f[n] = draw_in_scroll(f[n - 1], text[n])
<1>. DEFINE G(f, m) == f = [n \in 0..m |-> IF n = 0 THEN s ELSE draw_in_scroll(f[n - 1], text[n])]
            T == {m \in Nat : \E f : G(f, m)}
<1>1. 0 \in T
  <2>1. G([n \in 0..0 |-> s], 0)
    OBVIOUS
  <2>. QED BY <2>1
<1>2. ASSUME NEW m \in Nat, m \in T PROVE m + 1 \in T
  <2>1. PICK f : G(f, m)
    BY <1>2
  <2>. DEFINE g == [n \in 0..(m + 1) |-> IF n = m + 1 THEN draw_in_scroll(f[m], text[n]) ELSE f[n]]
  <2>2. ASSUME NEW n \in 0..(m + 1)
        PROVE  g[n] = IF n = 0 THEN s ELSE draw_in_scroll(g[n - 1], text[n])
    BY <2>1
  <2>3. G(g, m + 1)
    <3>1. g = [n \in 0..(m + 1) |-> g[n]]
      OBVIOUS
    <3>. HIDE DEF g
    <3>. QED BY <2>2, <3>1
  <2>. HIDE DEF g, G
  <2>. QED BY <2>3
<1>3. c \in T
  <2>. HIDE DEF T
  <2>1. Nat \subseteq T
    BY <1>1, <1>2, NatSet
  <2>. QED BY <2>1
<1>. DEFINE d == CHOOSE f : G(f, c)
<1>4. G(d, c)
  <2>1. \E f : G(f, c)
    BY <1>3
  <2>. HIDE DEF G
  <2>. QED BY <2>1
<1>5. draw_all(s, text) = d[c]
  BY DEF draw_all
<1>. HIDE DEF d
<1>6. d[0] = s /\ \A n \in 1..c : d[n] = draw_in_scroll(d[n - 1], text[n])
  BY <1>4
<1>. QED BY <1>5, <1>6

\* A text that fits between the cursor and the end of the screen.
LEMMA DrawText ==
  ASSUME NEW s, Sound(s), NEW i \in Nat, AtCell(s, i), NEW text, NEW c \in Nat,
         Len(text) = c, i + c <= MAX_HEIGHT_LOG(s) * MAX_WIDTH_LOG(s)
  PROVE  LET t == draw_all(s, text) IN Drawn(s, t) /\ AtCell(t, i + c)
<1>. DEFINE N == MAX_HEIGHT_LOG(s) * MAX_WIDTH_LOG(s)
<1>1. PICK f : /\ f[0] = s /\ draw_all(s, text) = f[c]
               /\ \A n \in 1..c : f[n] = draw_in_scroll(f[n - 1], text[n])
  BY DrawSteps
<1>2. N \in Nat
  <2>1. MAX_HEIGHT_LOG(s) \in Nat /\ MAX_WIDTH_LOG(s) \in Nat
    BY Geometry DEF Sound
  <2>. QED BY <2>1
<1>3. \A t : Drawn(s, t) => MAX_HEIGHT_LOG(t) * MAX_WIDTH_LOG(t) = N
  BY DEF Drawn, MAX_HEIGHT_LOG, MAX_WIDTH_LOG
<1>. HIDE DEF N
<1>. DEFINE P(n) == Drawn(s, f[n]) /\ AtCell(f[n], i + n)
            T == {n \in Nat : n <= c => P(n)}
<1>4. 0 \in T
  <2>1. i + 0 = i /\ Drawn(s, s)
    BY DEF Drawn
  <2>. QED BY <1>1, <2>1
<1>5. ASSUME NEW n \in Nat, n \in T PROVE n + 1 \in T
  <2>. SUFFICES ASSUME n + 1 <= c PROVE P(n + 1)
    <3>. HIDE DEF P
    <3>. QED OBVIOUS
  <2>1. P(n)
    <3>. HIDE DEF P
    <3>. QED BY <1>5
  <2>. DEFINE u == f[n]
              j == i + n
  <2>2. f[n + 1] = draw_in_scroll(u, text[n + 1])
    <3>1. n + 1 \in 1..c /\ (n + 1) - 1 = n
      OBVIOUS
    <3>. QED BY <1>1, <3>1
  <2>3. Drawn(s, u) /\ AtCell(u, j) /\ j \in Nat /\ i + (n + 1) = j + 1
    BY <2>1
  <2>4. j < MAX_HEIGHT_LOG(u) * MAX_WIDTH_LOG(u)
    <3>1. MAX_HEIGHT_LOG(u) * MAX_WIDTH_LOG(u) = N
      BY <1>3, <2>3
    <3>2. j < N
      BY <1>2 DEF N
    <3>. QED BY <3>1, <3>2
  <2>. HIDE DEF u, j
  <2>5. Drawn(u, f[n + 1]) /\ AtCell(f[n + 1], j + 1)
    <3>1. Sound(u)
      BY <2>3 DEF Drawn
    <3>. QED BY <2>2, <2>3, <2>4, <3>1, DrawCell
  <2>. QED BY <2>3, <2>5, DrawnTwice
<1>6. P(c)
  <2>1. Nat \subseteq T
    <3>. HIDE DEF T
    <3>. QED BY <1>4, <1>5, NatSet
  <2>. HIDE DEF P
  <2>. QED BY <2>1
<1>. QED BY <1>1, <1>6

\* The length of a line of the log, and of all of them together.
LEMMA LengthLemma ==
  ASSUME NEW n \in Nat, NEW f, f = [i \in 1..n |-> f[i]]
  PROVE  Len(f) = n
<1>. DEFINE S == {f[i] : i \in 1..n}
<1>1. \A i \in 1..n : f[i] \in S
  OBVIOUS
<1>. HIDE DEF S
<1>. QED BY ONLY <1>1, n \in Nat, f = [i \in 1..n |-> f[i]], SeqLemma

LEMMA LineOf ==
  ASSUME NEW s, s.size \in {1, 2, 4}, NEW y
  PROVE  Len(line_of(s, y)) \in 0..MAX_WIDTH_LOG(s)
<1>. DEFINE w == MAX_WIDTH_LOG(s)
            ends == {x \in 0 .. w - 1 : s.log[y][x] = Newline}
            n == IF ends = {} THEN w ELSE CHOOSE x \in ends : \A z \in ends : x <= z
            l == line_of(s, y)
<1>1. w \in Nat
  BY Geometry
<1>. HIDE DEF w
<1>2. n \in 0..w
  <2>1. CASE ends # {}
    <3>1. \E x \in ends : \A z \in ends : x <= z
      <4>1. ends \in SUBSET Nat
        OBVIOUS
      <4>. HIDE DEF ends
      <4>. QED BY <2>1, <4>1, LeastNatural
    <3>. DEFINE m == CHOOSE x \in ends : \A z \in ends : x <= z
    <3>2. m \in ends
      <4>. HIDE DEF ends
      <4>. QED BY <3>1
    <3>. HIDE DEF m
    <3>3. n = m
      BY <2>1 DEF m
    <3>. HIDE DEF n
    <3>. QED BY <1>1, <3>2, <3>3
  <2>2. CASE ends = {}
    BY <1>1, <2>2
  <2>. QED BY <2>1, <2>2
<1>3. l = [i \in 1..n |-> s.log[y][i - 1]]
  BY DEF line_of, w
<1>. HIDE DEF n, l
<1>4. Len(l) = n
  <2>1. n \in Nat /\ l = [i \in 1..n |-> l[i]]
    BY <1>1, <1>2, <1>3
  <2>. QED BY <2>1, LengthLemma
<1>. QED BY <1>2, <1>4 DEF w, l

LEMMA TextLength ==
  ASSUME NEW s, s.size \in {1, 2, 4}, NEW c \in Nat
  PROVE  text_length(s, c) \in 0..(c * MAX_WIDTH_LOG(s))
<1>. DEFINE w == MAX_WIDTH_LOG(s)
            len(n) == Len(nth_line(s, n))
            G(f, m) == f = [n \in 0..m |-> IF n = 0 THEN 0 ELSE f[n - 1] + Len(nth_line(s, n - 1))]
            T == {m \in Nat : \E f : G(f, m)}
<1>1. 0 \in T
  <2>1. G([n \in 0..0 |-> 0], 0)
    OBVIOUS
  <2>. QED BY <2>1
<1>2. ASSUME NEW m \in Nat, m \in T PROVE m + 1 \in T
  <2>1. PICK f : G(f, m)
    BY <1>2
  <2>. DEFINE g == [n \in 0..(m + 1) |-> IF n = m + 1 THEN f[m] + Len(nth_line(s, n - 1)) ELSE f[n]]
  <2>2. ASSUME NEW n \in 0..(m + 1)
        PROVE  g[n] = IF n = 0 THEN 0 ELSE g[n - 1] + Len(nth_line(s, n - 1))
    BY <2>1
  <2>3. G(g, m + 1)
    <3>1. g = [n \in 0..(m + 1) |-> g[n]]
      OBVIOUS
    <3>. HIDE DEF g
    <3>. QED BY <2>2, <3>1
  <2>. HIDE DEF g, G
  <2>. QED BY <2>3
<1>3. c \in T
  <2>. HIDE DEF T
  <2>1. Nat \subseteq T
    BY <1>1, <1>2, NatSet
  <2>. QED BY <2>1
<1>. DEFINE total == CHOOSE f : G(f, c)
<1>4. G(total, c)
  <2>1. \E f : G(f, c)
    BY <1>3
  <2>. HIDE DEF G
  <2>. QED BY <2>1
<1>5. text_length(s, c) = total[c]
  BY DEF text_length
<1>. HIDE DEF total
<1>6. w \in Nat
  BY Geometry
<1>. HIDE DEF w
<1>. DEFINE P(n) == total[n] \in 0..(n * w)
            R == {n \in Nat : n <= c => P(n)}
<1>7. 0 \in R
  BY <1>4, <1>6
<1>8. ASSUME NEW n \in Nat, n \in R PROVE n + 1 \in R
  <2>. SUFFICES ASSUME n + 1 <= c PROVE P(n + 1)
    <3>. HIDE DEF P
    <3>. QED OBVIOUS
  <2>1. P(n)
    <3>. HIDE DEF P
    <3>. QED BY <1>8
  <2>2. total[n + 1] = total[n] + Len(nth_line(s, n))
    <3>1. n + 1 \in 0..c /\ n + 1 # 0 /\ (n + 1) - 1 = n
      OBVIOUS
    <3>. QED BY <1>4, <3>1
  <2>3. Len(nth_line(s, n)) \in 0..w
    BY LineOf DEF nth_line, w
  <2>4. (n + 1) * w = n * w + w /\ n * w \in Nat
    BY <1>6
  <2>. QED BY <1>6, <2>1, <2>2, <2>3, <2>4
<1>9. P(c)
  <2>1. Nat \subseteq R
    <3>. HIDE DEF R
    <3>. QED BY <1>7, <1>8, NatSet
  <2>. HIDE DEF P
  <2>. QED BY <2>1
<1>. QED BY <1>5, <1>9 DEF w

-----------------------------------------------------------------------------
(* Scrolling.                                                              *)

LEMMA HomeLemma ==
  ASSUME NEW s, Sound(s)
  PROVE  Drawn(s, home(s)) /\ AtCell(home(s), 0)
<1>1. Drawn(s, home(s)) /\ home(s).x = 0 /\ home(s).y = 0
  <2>1. home(s) = Moved(s, 0, 0)
    <3>. DEFINE u == [s EXCEPT !.x = 0]
    <3>1. u = Moved(s, 0, s.y)
      BY DEF Sound, Shape, Moved
    <3>2. home(s) = [u EXCEPT !.y = 0]
      BY DEF home
    <3>. HIDE DEF u
    <3>. QED BY <3>1, <3>2 DEF Moved
  <2>. QED BY <2>1, MoveLemma
<1>. DEFINE t == home(s)
<1>. HIDE DEF t
<1>2. t.size \in {1, 2, 4} /\ MAX_WIDTH_LOG(t) \in Nat \ {0}
  BY <1>1, Geometry DEF t, Drawn, Sound
<1>3. /\ 0 = 0 * MAX_WIDTH_LOG(t) + 0 /\ 0 \in Nat /\ 0 \in 0..(MAX_WIDTH_LOG(t) - 1)
      /\ t.x = t.size * 0 /\ t.y = t.size * 0
  <2>1. t.x = 0 /\ t.y = 0
    BY <1>1 DEF t
  <2>. QED BY <1>2, <2>1
<1>4. AtCell(t, 0)
  BY <1>3 DEF AtCell
<1>. QED BY <1>1, <1>4 DEF t

\* scroll_down draws three times, each time no more than there is room for, and
\* leaves the cursor at the start of the last row.
LEMMA ScrollDown ==
  ASSUME NEW s, Sound(s)
  PROVE  LET t == scroll_down(s)
         IN  Drawn(s, t) /\ t.x = 0 /\ t.y = SCREEN_HEIGHT - s.size
<1>. DEFINE w == MAX_WIDTH_LOG(s)
            h == MAX_HEIGHT_LOG(s)
            z == s.size
            n == text_length(s, h)
            text == text_of(s, h - 1, w)
            a == home(s)
            b == draw_all(a, blanks(n))
            c == home(b)
            d == draw_all(c, text)
            e == [d EXCEPT !.y = SCREEN_HEIGHT - z]
            f == draw_all(e, blanks(w))
            g == [f EXCEPT !.y = f.y - z]
<1>1. /\ w \in Nat \ {0} /\ h \in Nat /\ h >= 2 /\ z \in {1, 2, 4}
      /\ SCREEN_WIDTH = z * w /\ SCREEN_HEIGHT = z * h
      /\ h * w \in Nat /\ (h - 1) * w \in Nat /\ (h - 1) * w + w = h * w
      /\ \A t : Drawn(s, t) => MAX_WIDTH_LOG(t) = w /\ MAX_HEIGHT_LOG(t) = h
  <2>1. /\ w \in Nat \ {0} /\ h \in Nat /\ h >= 2 /\ z \in {1, 2, 4}
        /\ SCREEN_WIDTH = z * w /\ SCREEN_HEIGHT = z * h
    BY Geometry DEF Sound
  <2>2. \A t : Drawn(s, t) => MAX_WIDTH_LOG(t) = w /\ MAX_HEIGHT_LOG(t) = h
    BY DEF Drawn, MAX_WIDTH_LOG, MAX_HEIGHT_LOG
  <2>. HIDE DEF w, h, z
  <2>3. h * w \in Nat /\ (h - 1) * w \in Nat /\ (h - 1) * w + w = h * w
    <3>1. h - 1 \in Nat /\ ((h - 1) + 1) * w = (h - 1) * w + w
      BY <2>1, CellLemma
    <3>. QED BY <2>1, <3>1
  <2>. QED BY <2>1, <2>2, <2>3
<1>2. n \in 0..(h * w) /\ Len(blanks(n)) = n /\ Len(blanks(w)) = w /\ Len(text) = (h - 1) * w
  <2>1. n \in 0..(h * w)
    BY <1>1, TextLength
  <2>2. \A m \in Nat : Len(blanks(m)) = m
    BY LengthLemma DEF blanks
  <2>3. Len(text) = (h - 1) * w
    <3>. DEFINE m == (h - 1) * w
    <3>1. m \in Nat /\ text = [i \in 1..m |-> text[i]]
      BY <1>1 DEF text_of
    <3>. HIDE DEF m, text
    <3>2. Len(text) = m
      BY <3>1, LengthLemma
    <3>. QED BY <3>2 DEF m
  <2>. HIDE DEF n, w
  <2>. QED BY <1>1, <2>1, <2>2, <2>3
<1>3. scroll_down(s) = g
  BY DEF scroll_down
<1>4. Drawn(s, a) /\ AtCell(a, 0) /\ Sound(a)
  BY HomeLemma DEF Drawn
<1>. HIDE DEF w, h, n, a, text
<1>5. Drawn(s, b) /\ Sound(b)
  <2>1. 0 + n <= MAX_HEIGHT_LOG(a) * MAX_WIDTH_LOG(a) /\ n \in Nat
    BY <1>1, <1>2, <1>4
  <2>2. Drawn(a, b)
    BY <1>2, <1>4, <2>1, DrawText
  <2>. QED BY <1>4, <2>2, DrawnTwice DEF Drawn
<1>. HIDE DEF b
<1>6. Drawn(s, c) /\ AtCell(c, 0) /\ Sound(c)
  <2>1. Drawn(b, c) /\ AtCell(c, 0)
    BY <1>5, HomeLemma
  <2>. QED BY <1>5, <2>1, DrawnTwice DEF Drawn
<1>. HIDE DEF c
<1>7. Drawn(s, d) /\ AtCell(d, (h - 1) * w) /\ Sound(d)
  <2>. DEFINE m == (h - 1) * w
  <2>1. m \in Nat /\ 0 + m = m /\ 0 + m <= MAX_HEIGHT_LOG(c) * MAX_WIDTH_LOG(c) /\ Len(text) = m
    <3>1. MAX_HEIGHT_LOG(c) * MAX_WIDTH_LOG(c) = h * w
      BY <1>1, <1>6
    <3>. QED BY <1>1, <1>2, <3>1
  <2>. HIDE DEF m
  <2>2. Drawn(c, d) /\ AtCell(d, m)
    BY <1>6, <2>1, DrawText
  <2>. QED BY <1>6, <2>2, DrawnTwice DEF Drawn, m
<1>. HIDE DEF d
<1>8. d.x = 0 /\ d.y = z * (h - 1) /\ SCREEN_HEIGHT - z = z * (h - 1)
  <2>1. PICK q \in Nat, r \in 0..(w - 1) :
          (h - 1) * w = q * w + r /\ d.x = z * r /\ d.y = z * q
    BY <1>1, <1>7 DEF AtCell, Drawn
  <2>2. q = h - 1 /\ r = 0
    <3>1. h - 1 \in Nat
      BY <1>1
    <3>. QED BY <1>1, <2>1, <3>1, CellLemma
  <2>. HIDE DEF z
  <2>. QED BY <1>1, <2>1, <2>2
<1>9. e = d
  BY <1>7, <1>8 DEF Sound, Shape
<1>10. Drawn(s, f) /\ AtCell(f, h * w) /\ Sound(f)
  <2>. DEFINE m == (h - 1) * w
  <2>1. m \in Nat /\ m + w = h * w /\ m + w <= MAX_HEIGHT_LOG(d) * MAX_WIDTH_LOG(d)
    <3>1. MAX_HEIGHT_LOG(d) * MAX_WIDTH_LOG(d) = h * w
      BY <1>1, <1>7
    <3>. QED BY <1>1, <3>1
  <2>2. AtCell(d, m)
    BY <1>7
  <2>. HIDE DEF m, e
  <2>3. Drawn(d, f) /\ AtCell(f, m + w)
    BY <1>1, <1>2, <1>7, <1>9, <2>1, <2>2, DrawText
  <2>. QED BY <1>7, <2>1, <2>3, DrawnTwice DEF Drawn
<1>. HIDE DEF f
<1>11. f.x = 0 /\ f.y = z * h
  <2>1. PICK q \in Nat, r \in 0..(w - 1) :
          h * w = q * w + r /\ f.x = z * r /\ f.y = z * q
    BY <1>1, <1>10 DEF AtCell, Drawn
  <2>2. q = h /\ r = 0
    BY <1>1, <2>1, CellLemma
  <2>. HIDE DEF z
  <2>. QED BY <1>1, <2>1, <2>2
<1>12. Drawn(s, g) /\ g.x = 0 /\ g.y = SCREEN_HEIGHT - z
  <2>1. Drawn(f, g) /\ g.x = f.x /\ g.y = f.y - z
    BY <1>10 DEF Drawn, Sound, Shape
  <2>. HIDE DEF g, z
  <2>. QED BY <1>1, <1>10, <1>11, <2>1, DrawnTwice
<1>. QED BY <1>3, <1>12

-----------------------------------------------------------------------------
(* Printing.                                                               *)

\* What is 0 modulo the size: heights of the screen and sums of such.
LEMMA Aligned ==
  ASSUME NEW z \in {1, 2, 4}, NEW y \in Nat, y % z = 0
  PROVE  /\ (y + z) % z = 0 /\ (SCREEN_HEIGHT - z) % z = 0
         /\ y # 0 => y - z \in Nat /\ (y - z) % z = 0
<1>1. SCREEN_HEIGHT \in Nat /\ SCREEN_HEIGHT % 4 = 0 /\ SCREEN_HEIGHT >= 8
  BY ConsoleAssumption
<1>2. CASE z = 1
  BY <1>1, <1>2
<1>3. CASE z = 2
  BY <1>1, <1>3
<1>4. CASE z = 4
  BY <1>1, <1>4
<1>. QED BY <1>2, <1>3, <1>4

LEMMA Sizes ==
  ASSUME NEW s, Sound(s)
  PROVE  /\ s.size \in {1, 2, 4} /\ SCREEN_WIDTH \in Nat /\ SCREEN_HEIGHT \in Nat
         /\ s.size <= SCREEN_WIDTH /\ s.size <= SCREEN_HEIGHT
         /\ WORD \in Nat /\ WORD > SCREEN_WIDTH + SCREEN_HEIGHT
<1>1. s.size \in {1, 2, 4}
  BY DEF Sound
<1>2. /\ SCREEN_WIDTH \in Nat \ {0} /\ SCREEN_WIDTH % 4 = 0
      /\ SCREEN_HEIGHT \in Nat /\ SCREEN_HEIGHT >= 8
      /\ WORD \in Nat /\ WORD > SCREEN_WIDTH + SCREEN_HEIGHT
  BY ConsoleAssumption
<1>. QED BY <1>1, <1>2

\* Wherever the cursor is, drawcharSize first brings it onto the screen.
LEMMA DrawChar ==
  ASSUME NEW s, Sound(s), CursorOK(s), NEW c
  PROVE  LET t == drawcharSize(s, c) IN Drawn(s, t) /\ CursorOK(t)
<1>. DEFINE z == s.size
            a == next_line(s)
            b == IF below(a) THEN scroll_down(a) ELSE a
            t == put_glyph(b, c)
<1>1. /\ z \in {1, 2, 4} /\ SCREEN_WIDTH \in Nat /\ SCREEN_HEIGHT \in Nat
      /\ z <= SCREEN_WIDTH /\ z <= SCREEN_HEIGHT
      /\ WORD \in Nat /\ WORD > SCREEN_WIDTH + SCREEN_HEIGHT
  BY Sizes
<1>2. s.x \in Nat /\ s.y \in Nat /\ s.y <= SCREEN_HEIGHT /\ s.y % z = 0
  BY <1>1 DEF CursorOK
<1>3. /\ Drawn(s, a) /\ a.x \in Nat /\ a.x <= SCREEN_WIDTH - z
      /\ a.y = s.y \/ a.y = s.y + z
  BY <1>2, NextLine
<1>. HIDE DEF a, z
<1>4. a.y \in Nat /\ a.y % z = 0
  BY <1>1, <1>2, <1>3, Aligned
<1>5. /\ Drawn(s, b) /\ b.x \in Nat /\ b.y \in Nat /\ b.y % z = 0
      /\ b.x <= SCREEN_WIDTH - z /\ b.y <= SCREEN_HEIGHT - z
  <2>0. a.size = z /\ Sound(a)
    BY <1>3 DEF Drawn, z
  <2>1. CASE below(a)
    <3>1. Drawn(a, b) /\ b.x = 0 /\ b.y = SCREEN_HEIGHT - z
      BY <2>0, <2>1, ScrollDown
    <3>. HIDE DEF b
    <3>2. Drawn(s, b)
      BY <1>3, <3>1, DrawnTwice
    <3>. QED BY <1>1, <1>2, <3>1, <3>2, Aligned
  <2>2. CASE ~ below(a)
    <3>1. b = a /\ a.y <= SCREEN_HEIGHT - z
      BY <1>1, <1>4, <2>0, <2>2 DEF below
    <3>. QED BY <1>3, <1>4, <3>1
  <2>. QED BY <2>1, <2>2
<1>6. drawcharSize(s, c) = t
  BY DEF drawcharSize, a
<1>. HIDE DEF b
<1>7. b.size = z /\ Sound(b)
  BY <1>5 DEF Drawn, z
<1>8. /\ Drawn(b, t)
      /\ t.x = (IF b.x = SCREEN_WIDTH - z THEN 0 ELSE b.x + z)
      /\ t.y = (IF b.x = SCREEN_WIDTH - z THEN b.y + z ELSE b.y)
  BY <1>5, <1>7, PutGlyph
<1>. HIDE DEF t
<1>9. Drawn(s, t) /\ t.size = z
  BY <1>5, <1>7, <1>8, DrawnTwice DEF Drawn
<1>10. t.x \in 0..(WORD - 1) /\ t.y \in 0..SCREEN_HEIGHT
  BY <1>1, <1>5, <1>8
<1>11. t.y % z = 0
  BY <1>1, <1>5, <1>8, Aligned
<1>. QED BY <1>6, <1>9, <1>10, <1>11 DEF CursorOK

LEMMA PrintNewline ==
  ASSUME NEW s, Sound(s), CursorOK(s)
  PROVE  LET t == print_newline(s) IN Drawn(s, t) /\ CursorOK(t)
<1>. DEFINE z == s.size
            a == [s EXCEPT !.x = 0, !.y = s.y + z]
<1>1. /\ z \in {1, 2, 4} /\ SCREEN_WIDTH \in Nat /\ SCREEN_HEIGHT \in Nat
      /\ z <= SCREEN_WIDTH /\ z <= SCREEN_HEIGHT
      /\ WORD \in Nat /\ WORD > SCREEN_WIDTH + SCREEN_HEIGHT
  BY Sizes
<1>2. s.x \in Nat /\ s.y \in Nat /\ s.y <= SCREEN_HEIGHT /\ s.y % z = 0
  BY <1>1 DEF CursorOK
<1>3. (s.y + z) % z = 0 /\ (SCREEN_HEIGHT - z) % z = 0
  BY <1>1, <1>2, Aligned
<1>4. print_newline(s) = IF below(a) THEN scroll_down(a) ELSE a
  BY DEF print_newline, Sound, Shape
<1>5. Drawn(s, a) /\ a.x = 0 /\ a.y = s.y + z
  <2>1. a = Moved(s, 0, s.y + z)
    <3>. DEFINE u == [s EXCEPT !.x = 0]
    <3>1. u = Moved(s, 0, s.y)
      BY DEF Sound, Shape, Moved
    <3>2. a = [u EXCEPT !.y = s.y + z]
      OBVIOUS
    <3>. HIDE DEF u
    <3>. QED BY <3>1, <3>2 DEF Moved
  <2>. HIDE DEF a
  <2>. QED BY <2>1, MoveLemma
<1>. HIDE DEF a, z
<1>6. a.size = z /\ Sound(a)
  BY <1>5 DEF Drawn, z
<1>7. CASE below(a)
  <2>. DEFINE t == scroll_down(a)
  <2>1. Drawn(a, t) /\ t.x = 0 /\ t.y = SCREEN_HEIGHT - z
    BY <1>6, ScrollDown
  <2>. HIDE DEF t
  <2>2. Drawn(s, t) /\ t.size = z
    BY <1>5, <1>6, <2>1, DrawnTwice DEF Drawn
  <2>3. CursorOK(t)
    BY <1>1, <1>3, <2>1, <2>2 DEF CursorOK
  <2>. QED BY <1>4, <1>7, <2>2, <2>3 DEF t
<1>8. CASE ~ below(a)
  <2>1. a.y <= SCREEN_HEIGHT
    BY <1>1, <1>2, <1>5, <1>6, <1>8 DEF below
  <2>2. CursorOK(a)
    BY <1>1, <1>2, <1>3, <1>5, <1>6, <2>1 DEF CursorOK
  <2>. QED BY <1>4, <1>5, <1>8, <2>2
<1>. QED BY <1>7, <1>8

\* deleteChar goes back by a cell, draws over it and goes back again.  From the
\* start of a row that is the end of the row above; from the first cell it is
\* a column outside of the screen, which the next character leaves.
LEMMA DeleteChar ==
  ASSUME NEW s, Sound(s), CursorOK(s)
  PROVE  LET t == deleteChar(s) IN Drawn(s, t) /\ CursorOK(t)
<1>. DEFINE z == s.size
<1>1. /\ z \in {1, 2, 4} /\ SCREEN_WIDTH \in Nat /\ SCREEN_HEIGHT \in Nat
      /\ z <= SCREEN_WIDTH /\ z <= SCREEN_HEIGHT
      /\ WORD \in Nat /\ WORD > SCREEN_WIDTH + SCREEN_HEIGHT
  BY Sizes
<1>2. s.x \in Nat /\ s.y \in Nat /\ s.y <= SCREEN_HEIGHT /\ s.y % z = 0
  BY <1>1 DEF CursorOK
<1>3. CASE s.x = 0 /\ s.y # 0
  <2>. DEFINE X == SCREEN_WIDTH - z
              a == [s EXCEPT !.x = X, !.y = s.y - z]
              b == drawcharSize(a, Blank)
              t == [b EXCEPT !.x = X, !.y = b.y - z]
  <2>1. deleteChar(s) = t
    <3>1. deleteChar(s) = LET r(u) == [u EXCEPT !.x = SCREEN_WIDTH - s.size, !.y = @ - s.size]
                          IN  r(drawcharSize(r(s), Blank))
      BY <1>3 DEF deleteChar
    <3>. QED BY <3>1 DEF Sound, Shape
  <2>2. Drawn(s, a) /\ a.x = X /\ a.y = s.y - z
    <3>1. a = Moved(s, X, s.y - z)
      <4>. DEFINE u == [s EXCEPT !.x = X]
      <4>1. u = Moved(s, X, s.y)
        BY DEF Sound, Shape, Moved
      <4>2. a = [u EXCEPT !.y = s.y - z]
        OBVIOUS
      <4>. HIDE DEF u, X
      <4>. QED BY <4>1, <4>2 DEF Moved
    <3>. HIDE DEF a, X
    <3>. QED BY <3>1, MoveLemma
  <2>3. a.size = z /\ Sound(a)
    BY <2>2 DEF Drawn
  <2>. HIDE DEF a, z
  <2>4. s.y - z \in Nat /\ (s.y - z) % z = 0
    BY <1>1, <1>2, <1>3, Aligned
  <2>5. next_line(a) = a /\ ~ below(a)
    BY <1>1, <1>2, <2>2, <2>3 DEF next_line, below
  <2>6. b = put_glyph(a, Blank)
    BY <2>5 DEF drawcharSize
  <2>7. Drawn(a, b) /\ b.x = 0 /\ b.y = (s.y - z) + z
    <3>1. a.x \in Nat /\ a.y \in Nat /\ a.x <= SCREEN_WIDTH - z /\ a.y <= SCREEN_HEIGHT - z
      BY <1>1, <1>2, <2>2, <2>4
    <3>. QED BY <2>2, <2>3, <2>6, <3>1, PutGlyph
  <2>8. Drawn(s, b) /\ Sound(b)
    BY <2>2, <2>7, DrawnTwice DEF Drawn
  <2>. HIDE DEF b
  <2>9. Drawn(b, t) /\ t.x = X /\ t.y = b.y - z
    <3>1. t = Moved(b, X, b.y - z)
      <4>. DEFINE u == [b EXCEPT !.x = X]
      <4>1. u = Moved(b, X, b.y)
        BY <2>8 DEF Sound, Shape, Moved
      <4>2. t = [u EXCEPT !.y = b.y - z]
        OBVIOUS
      <4>. HIDE DEF u, X
      <4>. QED BY <4>1, <4>2 DEF Moved
    <3>. HIDE DEF t, X
    <3>. QED BY <2>8, <3>1, MoveLemma
  <2>. HIDE DEF t
  <2>10. Drawn(s, t) /\ t.size = z
    BY <2>8, <2>9, DrawnTwice DEF Drawn, z
  <2>11. t.x \in 0..(WORD - 1) /\ t.y = s.y - z
    BY <1>1, <1>2, <2>7, <2>9
  <2>12. CursorOK(t)
    BY <1>1, <1>2, <2>4, <2>10, <2>11 DEF CursorOK
  <2>. QED BY <2>1, <2>10, <2>12
<1>4. CASE ~ (s.x = 0 /\ s.y # 0)
  <2>. DEFINE X == (s.x - z) % WORD
              a == [s EXCEPT !.x = X]
              b == drawcharSize(a, Blank)
              Y == (b.x - z) % WORD
              t == [b EXCEPT !.x = Y]
  <2>1. deleteChar(s) = t
    <3>1. deleteChar(s) = LET l(u) == [u EXCEPT !.x = (@ - s.size) % WORD]
                          IN  l(drawcharSize(l(s), Blank))
      BY <1>4 DEF deleteChar
    <3>. QED BY <3>1 DEF Sound, Shape
  <2>2. X \in 0..(WORD - 1)
    <3>1. s.x - z \in Int /\ WORD \in Nat /\ WORD > 0
      BY <1>1, <1>2
    <3>. QED BY <3>1
  <2>. HIDE DEF X
  <2>3. Drawn(s, a) /\ a.x = X /\ a.y = s.y
    <3>1. a = Moved(s, X, s.y)
      BY DEF Sound, Shape, Moved
    <3>. HIDE DEF a
    <3>. QED BY <3>1, MoveLemma
  <2>4. Sound(a) /\ CursorOK(a)
    BY <1>2, <2>2, <2>3 DEF Drawn, CursorOK
  <2>. HIDE DEF a
  <2>5. Drawn(a, b) /\ CursorOK(b)
    BY <2>4, DrawChar
  <2>6. Drawn(s, b) /\ Sound(b)
    BY <2>3, <2>5, DrawnTwice DEF Drawn
  <2>. HIDE DEF b
  <2>7. Y \in 0..(WORD - 1)
    <3>1. b.x - z \in Int /\ WORD \in Nat /\ WORD > 0
      BY <1>1, <2>5 DEF CursorOK
    <3>. QED BY <3>1
  <2>. HIDE DEF Y
  <2>8. Drawn(b, t) /\ t.x = Y /\ t.y = b.y
    <3>1. t = Moved(b, Y, b.y)
      BY <2>6 DEF Sound, Shape, Moved
    <3>. HIDE DEF t
    <3>. QED BY <2>6, <3>1, MoveLemma
  <2>. HIDE DEF t
  <2>9. CursorOK(t)
    BY <2>5, <2>7, <2>8 DEF Drawn, CursorOK
  <2>. QED BY <2>1, <2>6, <2>8, <2>9, DrawnTwice
<1>. QED BY <1>3, <1>4

LEMMA DrawTab ==
  ASSUME NEW s, Sound(s), CursorOK(s)
  PROVE  LET t == draw_tab(s) IN Drawn(s, t) /\ CursorOK(t)
<1>. DEFINE a == draw_blank(s)
            b == draw_blank(a)
            c == draw_blank(b)
            d == draw_blank(c)
<1>1. Drawn(s, a) /\ CursorOK(a) /\ Sound(a)
  BY DrawChar DEF draw_blank, Drawn
<1>. HIDE DEF a
<1>2. Drawn(a, b) /\ CursorOK(b) /\ Sound(b)
  BY <1>1, DrawChar DEF draw_blank, Drawn
<1>. HIDE DEF b
<1>3. Drawn(b, c) /\ CursorOK(c) /\ Sound(c)
  BY <1>2, DrawChar DEF draw_blank, Drawn
<1>. HIDE DEF c
<1>4. Drawn(c, d) /\ CursorOK(d)
  BY <1>3, DrawChar DEF draw_blank
<1>. HIDE DEF d
<1>5. Drawn(s, d)
  BY <1>1, <1>2, <1>3, <1>4, DrawnTwice
<1>. QED BY <1>4, <1>5 DEF draw_tab, a, b, c, d

-----------------------------------------------------------------------------
(* The text log.                                                           *)

\* t is s with another text log, or another cursor in it.
Noted(s, t) == Sound(t) /\ t.size = s.size /\ t.x = s.x /\ t.y = s.y

LEMMA NotedTwice ==
  ASSUME NEW s, NEW t, NEW u, Noted(s, t), Noted(t, u)
  PROVE  Noted(s, u)
BY DEF Noted

LEMMA NotedSize ==
  ASSUME NEW s, NEW t, Noted(s, t)
  PROVE  MAX_WIDTH_LOG(t) = MAX_WIDTH_LOG(s) /\ MAX_HEIGHT_LOG(t) = MAX_HEIGHT_LOG(s)
BY DEF Noted, MAX_WIDTH_LOG, MAX_HEIGHT_LOG

LEMMA StoreLemma ==
  ASSUME NEW s, Sound(s), NEW c
  PROVE  LET t == store(s, c)
         IN  /\ Noted(s, t) /\ t.currentX = s.currentX /\ t.currentY = s.currentY
             /\ t.top_left = s.top_left /\ t.mooving = s.mooving
<1>. DEFINE v == [s.log EXCEPT ![s.currentY][s.currentX] = c]
<1>1. store(s, c) = [s EXCEPT !.log = v]
  BY DEF store, Sound, Shape
<1>. HIDE DEF v
<1>. QED BY <1>1 DEF Noted, Sound, Shape

\* The line can be taken as any number, as log_wrap and log_newline do.
LEMMA LineLemma ==
  ASSUME NEW s, Sound(s), NEW v
  PROVE  LET t == [s EXCEPT !.currentY = v]
         IN  /\ Noted(s, t) /\ t.currentX = s.currentX /\ t.currentY = v
             /\ t.top_left = s.top_left /\ t.mooving = s.mooving
BY DEF Noted, Sound, Shape

LEMMA DownLemma ==
  ASSUME NEW s, Sound(s)
  PROVE  LET t == down(s)
         IN  /\ Noted(s, t) /\ t.currentX = 0 /\ t.currentY = s.currentY + 1
             /\ t.top_left = s.top_left /\ t.mooving = s.mooving
<1>. DEFINE u == [s EXCEPT !.currentX = 0]
            v == s.currentY + 1
            t == [u EXCEPT !.currentY = v]
<1>1. /\ Noted(s, u) /\ u.currentX = 0 /\ u.currentY = s.currentY
      /\ u.top_left = s.top_left /\ u.mooving = s.mooving
  BY DEF Noted, Sound, Shape
<1>2. down(s) = t
  BY DEF down, Sound, Shape
<1>. HIDE DEF u, v
<1>3. /\ Noted(u, t) /\ t.currentX = u.currentX /\ t.currentY = v
      /\ t.top_left = u.top_left /\ t.mooving = u.mooving
  BY <1>1, LineLemma DEF Noted
<1>. HIDE DEF t
<1>4. Noted(s, t)
  BY <1>1, <1>3, NotedTwice
<1>. QED BY <1>1, <1>2, <1>3, <1>4 DEF v

LEMMA AdvanceTop ==
  ASSUME NEW s, Sound(s), s.top_left \in Nat
  PROVE  LET t == advance_top(s)
         IN  /\ Noted(s, t) /\ t.currentX = s.currentX /\ t.currentY = s.currentY
             /\ t.top_left \in 0..(MAX_HEIGHT_LOG(s) - 1) /\ t.mooving = s.mooving
<1>. DEFINE v == (s.top_left + 1) % MAX_HEIGHT_LOG(s)
<1>1. v \in 0..(MAX_HEIGHT_LOG(s) - 1)
  <2>1. MAX_HEIGHT_LOG(s) \in Nat /\ MAX_HEIGHT_LOG(s) >= 2
    BY Geometry DEF Sound
  <2>. QED BY <2>1
<1>2. advance_top(s) = [s EXCEPT !.top_left = v]
  BY DEF advance_top, Sound, Shape
<1>. HIDE DEF v
<1>. QED BY <1>1, <1>2 DEF Noted, Sound, Shape

\* The step to the next line that log_newline and tab_wrap make.
LEMMA NextLogLine ==
  ASSUME NEW s, Sound(s), LogCursorOK(s), NEW t, Noted(s, t),
         t.currentX = 0, t.currentY = s.currentY + 1, t.top_left = s.top_left, NEW b,
         NEW u, u = IF t.currentY >= MAX_HEIGHT_LOG(s)
                    THEN advance_top([t EXCEPT !.currentY = 0])
                    ELSE IF b THEN advance_top(t) ELSE t
  PROVE  Noted(s, u) /\ LogCursorOK(u) /\ u.currentX = 0
<1>. DEFINE h == MAX_HEIGHT_LOG(s)
            a == [t EXCEPT !.currentY = 0]
<1>1. /\ MAX_WIDTH_LOG(s) \in Nat \ {0} /\ h \in Nat /\ h >= 2
      /\ s.currentY \in 0..(h - 1) /\ s.top_left \in 0..(h - 1)
      /\ Sound(t) /\ MAX_HEIGHT_LOG(t) = h
  BY Geometry, NotedSize DEF Sound, LogCursorOK, Noted
<1>2. /\ Noted(t, a) /\ a.currentX = 0 /\ a.currentY = 0 /\ a.top_left = s.top_left
      /\ Sound(a) /\ MAX_HEIGHT_LOG(a) = h
  <2>1. Noted(t, a) /\ a.currentX = 0 /\ a.currentY = 0 /\ a.top_left = s.top_left
    BY <1>1, LineLemma
  <2>. HIDE DEF a
  <2>. QED BY <1>1, <2>1, NotedSize DEF Noted
<1>. HIDE DEF a
<1>3. ASSUME Noted(s, u), u.currentX = 0, u.currentY \in 0..(h - 1), u.top_left \in 0..(h - 1)
      PROVE  Noted(s, u) /\ LogCursorOK(u) /\ u.currentX = 0
  <2>1. MAX_WIDTH_LOG(u) \in Nat /\ MAX_HEIGHT_LOG(u) = h
    BY <1>1, <1>3, NotedSize
  <2>. QED BY <1>3, <2>1 DEF LogCursorOK
<1>. HIDE DEF h
<1>4. CASE t.currentY >= MAX_HEIGHT_LOG(s)
  <2>. DEFINE e == advance_top(a)
  <2>1. u = e
    BY <1>4 DEF a
  <2>2. /\ Noted(a, e) /\ e.currentX = 0 /\ e.currentY = 0 /\ e.top_left \in 0..(h - 1)
    <3>1. a.top_left \in Nat
      BY <1>1, <1>2
    <3>. QED BY <1>2, <3>1, AdvanceTop
  <2>. HIDE DEF e
  <2>3. Noted(s, e)
    BY <1>2, <2>2, NotedTwice
  <2>. QED BY <1>1, <1>3, <2>1, <2>2, <2>3
<1>5. CASE ~ (t.currentY >= MAX_HEIGHT_LOG(s))
  <2>1. t.currentY \in 0..(h - 1)
    BY <1>1, <1>5 DEF h
  <2>2. CASE b
    <3>. DEFINE e == advance_top(t)
    <3>1. u = e
      BY <1>5, <2>2
    <3>2. /\ Noted(t, e) /\ e.currentX = 0 /\ e.currentY = t.currentY
          /\ e.top_left \in 0..(h - 1)
      <4>1. t.top_left \in Nat
        BY <1>1
      <4>. QED BY <1>1, <4>1, AdvanceTop
    <3>. HIDE DEF e
    <3>3. Noted(s, e)
      BY <3>2, NotedTwice
    <3>. QED BY <1>3, <2>1, <3>1, <3>2, <3>3
  <2>3. CASE ~ b
    <3>1. u = t
      BY <1>5, <2>3
    <3>. QED BY <1>1, <1>3, <2>1, <3>1
  <2>. QED BY <2>2, <2>3
<1>. QED BY <1>4, <1>5

\* A full line is left before anything is written.
LEMMA LogWrap ==
  ASSUME NEW s, Sound(s), LogCursorOK(s)
  PROVE  LET t == log_wrap(s)
         IN  Noted(s, t) /\ LogCursorOK(t) /\ t.currentX < MAX_WIDTH_LOG(s)
<1>. DEFINE w == MAX_WIDTH_LOG(s)
            h == MAX_HEIGHT_LOG(s)
            a == down(s)
            v == a.currentY % h
            b == [a EXCEPT !.currentY = v]
            e == advance_top(b)
<1>1. /\ w \in Nat \ {0} /\ h \in Nat /\ h >= 2
      /\ s.currentX \in 0..w /\ s.currentY \in 0..(h - 1) /\ s.top_left \in 0..(h - 1)
  BY Geometry DEF Sound, LogCursorOK
<1>2. CASE s.currentX < w
  <2>1. log_wrap(s) = s
    BY <1>2 DEF log_wrap
  <2>. QED BY <1>2, <2>1 DEF Noted
<1>3. CASE ~ (s.currentX < w)
  <2>1. log_wrap(s) = IF can_move_top_left_pointer(b) THEN e ELSE b
    <3>1. Sound(a)
      BY DownLemma DEF Noted
    <3>2. log_wrap(s) = LET t == [a EXCEPT !.currentY = @ % h]
                        IN  IF can_move_top_left_pointer(t) THEN advance_top(t) ELSE t
      BY <1>3 DEF log_wrap
    <3>3. [a EXCEPT !.currentY = @ % h] = b
      <4>. HIDE DEF a
      <4>. QED BY <3>1 DEF Sound, Shape
    <3>. HIDE DEF b
    <3>. QED BY <3>2, <3>3
  <2>2. /\ Noted(s, a) /\ a.currentX = 0 /\ a.currentY = s.currentY + 1
        /\ a.top_left = s.top_left
    BY DownLemma
  <2>. HIDE DEF a
  <2>3. v \in 0..(h - 1)
    BY <1>1, <2>2
  <2>. HIDE DEF v
  <2>4. /\ Noted(a, b) /\ b.currentX = 0 /\ b.currentY = v /\ b.top_left = s.top_left
    BY <2>2, LineLemma DEF Noted
  <2>. HIDE DEF b
  <2>5. Noted(s, b) /\ Sound(b) /\ MAX_HEIGHT_LOG(b) = h
    BY <2>2, <2>4, NotedTwice, NotedSize DEF Noted
  <2>6. /\ Noted(b, e) /\ e.currentX = 0 /\ e.currentY = v /\ e.top_left \in 0..(h - 1)
    <3>1. b.top_left \in Nat
      BY <1>1, <2>4
    <3>. QED BY <2>4, <2>5, <3>1, AdvanceTop
  <2>. HIDE DEF e
  <2>7. Noted(s, e)
    BY <2>5, <2>6, NotedTwice
  <2>. HIDE DEF w, h
  <2>8. ASSUME NEW t, Noted(s, t), t.currentX = 0, t.currentY \in 0..(h - 1),
               t.top_left \in 0..(h - 1)
        PROVE  Noted(s, t) /\ LogCursorOK(t) /\ t.currentX < w
    <3>1. MAX_WIDTH_LOG(t) = w /\ MAX_HEIGHT_LOG(t) = h
      BY <2>8, NotedSize DEF w, h
    <3>. QED BY <1>1, <2>8, <3>1 DEF LogCursorOK
  <2>9. Noted(s, e) /\ LogCursorOK(e) /\ e.currentX < w
    BY <2>3, <2>6, <2>7, <2>8
  <2>10. Noted(s, b) /\ LogCursorOK(b) /\ b.currentX < w
    BY <1>1, <2>3, <2>4, <2>5, <2>8
  <2>. QED BY <2>1, <2>9, <2>10 DEF w
<1>. QED BY <1>2, <1>3

LEMMA LogNewline ==
  ASSUME NEW s, Sound(s), LogCursorOK(s)
  PROVE  LET t == log_newline(s) IN Noted(s, t) /\ LogCursorOK(t)
<1>. DEFINE a == store(s, Newline)
            b == down(a)
            u == log_newline(s)
<1>1. /\ Noted(s, a) /\ Sound(a) /\ a.currentX = s.currentX /\ a.currentY = s.currentY
      /\ a.top_left = s.top_left
  BY StoreLemma DEF Noted
<1>2. u = IF b.currentY >= MAX_HEIGHT_LOG(s) THEN advance_top([b EXCEPT !.currentY = 0])
          ELSE IF s.mooving THEN advance_top(b) ELSE b
  BY DEF log_newline
<1>. HIDE DEF a, u
<1>3. /\ Noted(a, b) /\ b.currentX = 0 /\ b.currentY = s.currentY + 1
      /\ b.top_left = s.top_left
  BY <1>1, DownLemma
<1>. HIDE DEF b
<1>4. Noted(s, b)
  BY <1>1, <1>3, NotedTwice
<1>5. Noted(s, u) /\ LogCursorOK(u)
  BY <1>2, <1>3, <1>4, NextLogLine
<1>. QED BY <1>5 DEF u

LEMMA TabWrap ==
  ASSUME NEW s, Sound(s), LogCursorOK(s)
  PROVE  LET t == tab_wrap(s)
         IN  Noted(s, t) /\ LogCursorOK(t) /\ t.currentX < MAX_WIDTH_LOG(s)
<1>1. MAX_WIDTH_LOG(s) \in Nat \ {0}
  BY Geometry DEF Sound
<1>2. CASE s.currentX < MAX_WIDTH_LOG(s)
  <2>1. tab_wrap(s) = s
    BY <1>2 DEF tab_wrap
  <2>. QED BY <1>2, <2>1 DEF Noted
<1>3. CASE ~ (s.currentX < MAX_WIDTH_LOG(s))
  <2>. DEFINE b == down(s)
              u == tab_wrap(s)
              m == s.top_left # 0 \/ s.mooving
  <2>1. u = IF b.currentY >= MAX_HEIGHT_LOG(s) THEN advance_top([b EXCEPT !.currentY = 0])
            ELSE IF m THEN advance_top(b) ELSE b
    BY <1>3 DEF tab_wrap
  <2>2. /\ Noted(s, b) /\ b.currentX = 0 /\ b.currentY = s.currentY + 1
        /\ b.top_left = s.top_left
    BY DownLemma
  <2>. HIDE DEF b, u, m
  <2>3. Noted(s, u) /\ LogCursorOK(u) /\ u.currentX = 0
    BY <2>1, <2>2, NextLogLine
  <2>. QED BY <1>1, <2>3 DEF u
<1>. QED BY <1>2, <1>3

LEMMA LogChar ==
  ASSUME NEW s, Sound(s), LogCursorOK(s), s.currentX < MAX_WIDTH_LOG(s), NEW c
  PROVE  LET t == log_char(s, c) IN Noted(s, t) /\ LogCursorOK(t)
<1>. DEFINE a == store(s, c)
            v == a.currentX + 1
            t == [a EXCEPT !.currentX = v]
<1>1. /\ Noted(s, a) /\ Sound(a) /\ a.currentX = s.currentX /\ a.currentY = s.currentY
      /\ a.top_left = s.top_left
  BY StoreLemma DEF Noted
<1>2. log_char(s, c) = t
  <2>. HIDE DEF a
  <2>. QED BY <1>1 DEF log_char, a, Sound, Shape
<1>. HIDE DEF a, v
<1>3. /\ Noted(a, t) /\ t.currentX = v /\ t.currentY = a.currentY
      /\ t.top_left = a.top_left
  BY <1>1 DEF Noted, Sound, Shape
<1>. HIDE DEF t
<1>4. Noted(s, t)
  BY <1>1, <1>3, NotedTwice
<1>5. LogCursorOK(t)
  <2>1. MAX_WIDTH_LOG(s) \in Nat
    BY Geometry DEF Sound
  <2>2. MAX_WIDTH_LOG(t) = MAX_WIDTH_LOG(s) /\ MAX_HEIGHT_LOG(t) = MAX_HEIGHT_LOG(s)
    BY <1>4, NotedSize
  <2>. QED BY <1>1, <1>3, <2>1, <2>2 DEF LogCursorOK, v
<1>. QED BY <1>2, <1>4, <1>5

LEMMA LogTab ==
  ASSUME NEW s, Sound(s), LogCursorOK(s)
  PROVE  LET t == log_tab(s) IN Noted(s, t) /\ LogCursorOK(t)
<1>1. ASSUME NEW u, Sound(u), LogCursorOK(u)
      PROVE  LET t == log_blank(u) IN Noted(u, t) /\ LogCursorOK(t) /\ Sound(t)
  <2>. DEFINE a == tab_wrap(u)
              t == log_char(a, Blank)
  <2>1. Noted(u, a) /\ LogCursorOK(a) /\ a.currentX < MAX_WIDTH_LOG(u)
    BY <1>1, TabWrap
  <2>. HIDE DEF a
  <2>2. Noted(a, t) /\ LogCursorOK(t)
    <3>1. Sound(a) /\ a.currentX < MAX_WIDTH_LOG(a)
      BY <2>1, NotedSize DEF Noted
    <3>. QED BY <2>1, <3>1, LogChar
  <2>. HIDE DEF t
  <2>3. Noted(u, t)
    BY <2>1, <2>2, NotedTwice
  <2>. QED BY <2>2, <2>3 DEF log_blank, Noted, t, a
<1>. DEFINE a == log_blank(s)
            b == log_blank(a)
            c == log_blank(b)
            d == log_blank(c)
<1>2. Noted(s, a) /\ LogCursorOK(a) /\ Sound(a)
  BY <1>1
<1>. HIDE DEF a
<1>3. Noted(a, b) /\ LogCursorOK(b) /\ Sound(b)
  BY <1>1, <1>2
<1>. HIDE DEF b
<1>4. Noted(b, c) /\ LogCursorOK(c) /\ Sound(c)
  BY <1>1, <1>3
<1>. HIDE DEF c
<1>5. Noted(c, d) /\ LogCursorOK(d)
  BY <1>1, <1>4
<1>. HIDE DEF d
<1>6. Noted(s, d)
  BY <1>2, <1>3, <1>4, <1>5, NotedTwice
<1>. QED BY <1>5, <1>6 DEF log_tab, a, b, c, d

LEMMA LogBackspace ==
  ASSUME NEW s, Sound(s), LogCursorOK(s)
  PROVE  LET t == log_backspace(s) IN Noted(s, t) /\ LogCursorOK(t)
<1>. DEFINE w == MAX_WIDTH_LOG(s)
            h == MAX_HEIGHT_LOG(s)
            at(x, y) == [s EXCEPT !.currentX = x, !.currentY = y]
            to(x, y) == store(at(x, y), Blank)
<1>1. /\ w \in Nat \ {0} /\ h \in Nat /\ h >= 2
      /\ s.currentX \in 0..w /\ s.currentY \in 0..(h - 1) /\ s.top_left \in 0..(h - 1)
  BY Geometry DEF Sound, LogCursorOK
<1>2. ASSUME NEW x \in 0..w, NEW y \in 0..(h - 1)
      PROVE  Noted(s, to(x, y)) /\ LogCursorOK(to(x, y))
  <2>. DEFINE u == [s EXCEPT !.currentX = x]
              a == [u EXCEPT !.currentY = y]
              t == store(a, Blank)
  <2>1. to(x, y) = t
    OBVIOUS
  <2>2. Noted(s, u) /\ u.currentX = x /\ u.top_left = s.top_left
    BY DEF Noted, Sound, Shape
  <2>. HIDE DEF u
  <2>3. Noted(u, a) /\ a.currentX = x /\ a.currentY = y /\ a.top_left = s.top_left
    BY <2>2, LineLemma DEF Noted
  <2>. HIDE DEF a
  <2>4. /\ Noted(a, t) /\ t.currentX = x /\ t.currentY = y /\ t.top_left = s.top_left
    BY <2>3, StoreLemma DEF Noted
  <2>. HIDE DEF t, to
  <2>5. Noted(s, t)
    BY <2>2, <2>3, <2>4, NotedTwice
  <2>6. LogCursorOK(t)
    BY <1>1, <2>4, <2>5, NotedSize DEF LogCursorOK
  <2>. QED BY <2>1, <2>5, <2>6
<1>3. log_backspace(s) =
        IF s.currentX # 0 THEN to(s.currentX - 1, s.currentY)
        ELSE IF s.currentY # 0 THEN to(w - 1, s.currentY - 1)
        ELSE IF s.mooving THEN to(w - 1, h - 1)
        ELSE s
  BY DEF log_backspace
<1>. HIDE DEF to
<1>4. CASE s.currentX # 0
  BY <1>1, <1>2, <1>3, <1>4
<1>5. CASE s.currentX = 0 /\ s.currentY # 0
  BY <1>1, <1>2, <1>3, <1>5
<1>6. CASE s.currentX = 0 /\ s.currentY = 0 /\ s.mooving
  BY <1>1, <1>2, <1>3, <1>6
<1>7. CASE s.currentX = 0 /\ s.currentY = 0 /\ ~ s.mooving
  BY <1>3, <1>7 DEF Noted
<1>. QED BY <1>4, <1>5, <1>6, <1>7

LEMMA UpdateLog ==
  ASSUME NEW s, Sound(s), LogCursorOK(s), NEW c
  PROVE  LET t == update_screen_text_log(s, c) IN Noted(s, t) /\ LogCursorOK(t)
<1>. DEFINE a == log_wrap(s)
            b == CASE c = Newline -> log_newline(a)
                   [] c = Backspace -> log_backspace(a)
                   [] c = Tab -> log_tab(a)
                   [] OTHER -> log_char(a, c)
            m == b.mooving \/ b.top_left # 0
            t == [b EXCEPT !.mooving = m]
<1>1. Noted(s, a) /\ Sound(a) /\ LogCursorOK(a) /\ a.currentX < MAX_WIDTH_LOG(a)
  BY LogWrap, NotedSize DEF Noted
<1>2. Noted(a, b) /\ LogCursorOK(b)
  <2>. HIDE DEF a
  <2>1. Noted(a, log_newline(a)) /\ LogCursorOK(log_newline(a))
    BY <1>1, LogNewline
  <2>2. Noted(a, log_backspace(a)) /\ LogCursorOK(log_backspace(a))
    BY <1>1, LogBackspace
  <2>3. Noted(a, log_tab(a)) /\ LogCursorOK(log_tab(a))
    BY <1>1, LogTab
  <2>4. Noted(a, log_char(a, c)) /\ LogCursorOK(log_char(a, c))
    BY <1>1, LogChar
  <2>5. b \in {log_newline(a), log_backspace(a), log_tab(a), log_char(a, c)}
    <3>1. CASE c = Newline
      BY <3>1 DEF Newline, Backspace, Tab
    <3>2. CASE c = Backspace
      BY <3>2 DEF Newline, Backspace, Tab
    <3>3. CASE c = Tab
      BY <3>3 DEF Newline, Backspace, Tab
    <3>4. CASE c # Newline /\ c # Backspace /\ c # Tab
      BY <3>4
    <3>. QED BY <3>1, <3>2, <3>3, <3>4
  <2>. HIDE DEF b
  <2>. QED BY <2>1, <2>2, <2>3, <2>4, <2>5
<1>3. Noted(s, b) /\ Sound(b)
  <2>. HIDE DEF a, b
  <2>. QED BY <1>1, <1>2, NotedTwice DEF Noted
<1>4. update_screen_text_log(s, c) = t
  <2>1. update_screen_text_log(s, c) = [b EXCEPT !.mooving = @ \/ b.top_left # 0]
    BY DEF update_screen_text_log
  <2>. HIDE DEF b
  <2>. QED BY <1>3, <2>1 DEF Sound, Shape
<1>. HIDE DEF a, b, m
<1>5. /\ Noted(b, t) /\ t.currentX = b.currentX /\ t.currentY = b.currentY
      /\ t.top_left = b.top_left
  BY <1>3 DEF Noted, Sound, Shape
<1>. HIDE DEF t
<1>6. Noted(s, t) /\ LogCursorOK(t)
  BY <1>2, <1>3, <1>5, NotedTwice, NotedSize DEF LogCursorOK
<1>. QED BY <1>4, <1>6

-----------------------------------------------------------------------------
(* The operations.                                                         *)

Fine(s) == Sound(s) /\ CursorOK(s) /\ LogCursorOK(s)

LEMMA PrintLemma ==
  ASSUME NEW s, Fine(s), NEW c
  PROVE  Fine(print(s, c))
<1>. DEFINE a == update_screen_text_log(s, c)
            t == print(s, c)
<1>1. Noted(s, a) /\ Sound(a) /\ LogCursorOK(a)
  BY UpdateLog DEF Fine, Noted
<1>2. CursorOK(a)
  BY <1>1 DEF Fine, Noted, CursorOK
<1>. HIDE DEF a
<1>3. t \in {print_newline(a), deleteChar(a), draw_tab(a), drawcharSize(a, c)}
  <2>1. CASE c = Newline
    BY <2>1 DEF print, Newline, Backspace, Tab, a
  <2>2. CASE c = Backspace
    BY <2>2 DEF print, Newline, Backspace, Tab, a
  <2>3. CASE c = Tab
    BY <2>3 DEF print, Newline, Backspace, Tab, a
  <2>4. CASE c # Newline /\ c # Backspace /\ c # Tab
    BY <2>4 DEF print, a
  <2>. QED BY <2>1, <2>2, <2>3, <2>4
<1>4. /\ Drawn(a, print_newline(a)) /\ CursorOK(print_newline(a))
      /\ Drawn(a, deleteChar(a)) /\ CursorOK(deleteChar(a))
      /\ Drawn(a, draw_tab(a)) /\ CursorOK(draw_tab(a))
      /\ Drawn(a, drawcharSize(a, c)) /\ CursorOK(drawcharSize(a, c))
  BY <1>1, <1>2, PrintNewline, DeleteChar, DrawTab, DrawChar
<1>. HIDE DEF t
<1>5. Drawn(a, t) /\ CursorOK(t)
  BY <1>3, <1>4
<1>6. LogCursorOK(t)
  BY <1>1, <1>5 DEF Drawn, LogCursorOK, MAX_WIDTH_LOG, MAX_HEIGHT_LOG
<1>. QED BY <1>5, <1>6 DEF Fine, Drawn, t

\* A cleared screen, at any size.
LEMMA ClearLemma ==
  ASSUME NEW s, Sound(s)
  PROVE  Fine(clear_screen(s))
<1>. DEFINE a == [s EXCEPT !.currentX = 0]
            b == [a EXCEPT !.currentY = 0]
            c == [b EXCEPT !.top_left = 0]
            no == FALSE
            d == [c EXCEPT !.mooving = no]
            e == [d EXCEPT !.shown = Grid(Blank)]
            f == [e EXCEPT !.x = 0]
            t == [f EXCEPT !.y = 0]
<1>1. clear_screen(s) = t
  BY DEF clear_screen, clear_screen_text_log
<1>. HIDE DEF no
<1>2. Sound(a) /\ a.size = s.size /\ a.currentX = 0
  BY DEF Sound, Shape
<1>. HIDE DEF a
<1>3. Sound(b) /\ b.size = s.size /\ b.currentX = 0 /\ b.currentY = 0
  BY <1>2 DEF Sound, Shape
<1>. HIDE DEF b
<1>4. Sound(c) /\ c.size = s.size /\ c.currentX = 0 /\ c.currentY = 0 /\ c.top_left = 0
  BY <1>3 DEF Sound, Shape
<1>. HIDE DEF c
<1>5. Sound(d) /\ d.size = s.size /\ d.currentX = 0 /\ d.currentY = 0 /\ d.top_left = 0
  BY <1>4 DEF Sound, Shape
<1>. HIDE DEF d
<1>6. Sound(e) /\ e.size = s.size /\ e.currentX = 0 /\ e.currentY = 0 /\ e.top_left = 0
  BY <1>5 DEF Sound, Shape
<1>. HIDE DEF e
<1>7. /\ Sound(f) /\ f.size = s.size /\ f.currentX = 0 /\ f.currentY = 0 /\ f.top_left = 0
      /\ f.x = 0
  BY <1>6 DEF Sound, Shape
<1>. HIDE DEF f
<1>8. /\ Sound(t) /\ t.size = s.size /\ t.currentX = 0 /\ t.currentY = 0 /\ t.top_left = 0
      /\ t.x = 0 /\ t.y = 0
  BY <1>7 DEF Sound, Shape
<1>. HIDE DEF t
<1>9. LogCursorOK(t)
  <2>1. MAX_WIDTH_LOG(t) \in Nat /\ MAX_HEIGHT_LOG(t) \in Nat /\ MAX_HEIGHT_LOG(t) >= 2
    BY <1>8, Geometry DEF Sound
  <2>. QED BY <1>8, <2>1 DEF LogCursorOK
<1>10. CursorOK(t)
  <2>1. 0 % t.size = 0
    BY <1>8 DEF Sound
  <2>2. WORD \in Nat /\ WORD > 0 /\ SCREEN_HEIGHT \in Nat
    BY ConsoleAssumption
  <2>. QED BY <1>8, <2>1, <2>2 DEF CursorOK
<1>. QED BY <1>1, <1>8, <1>9, <1>10 DEF Fine

LEMMA SizeLemma ==
  ASSUME NEW s, Sound(s)
  PROVE  /\ Fine(zoom_in(s)) /\ Fine(zoom_out(s))
         /\ Fine(change_font_color(s)) /\ Fine(change_bg_color(s))
<1>1. ASSUME NEW z \in {1, 2, 4} PROVE Fine(clear_screen([s EXCEPT !.size = z]))
  <2>. DEFINE t == [s EXCEPT !.size = z]
  <2>1. Sound(t)
    BY DEF Sound, Shape
  <2>. HIDE DEF t
  <2>2. Fine(clear_screen(t))
    BY <2>1, ClearLemma
  <2>. QED BY <2>2 DEF t
<1>2. ASSUME NEW v PROVE Fine(clear_screen([s EXCEPT !.font = v]))
  <2>. DEFINE t == [s EXCEPT !.font = v]
  <2>1. Sound(t)
    BY DEF Sound, Shape
  <2>. HIDE DEF t
  <2>2. Fine(clear_screen(t))
    BY <2>1, ClearLemma
  <2>. QED BY <2>2 DEF t
<1>3. ASSUME NEW v PROVE Fine(clear_screen([s EXCEPT !.background = v]))
  <2>. DEFINE t == [s EXCEPT !.background = v]
  <2>1. Sound(t)
    BY DEF Sound, Shape
  <2>. HIDE DEF t
  <2>2. Fine(clear_screen(t))
    BY <2>1, ClearLemma
  <2>. QED BY <2>2 DEF t
<1>4. /\ zoom_in(s) = clear_screen([s EXCEPT !.size = IF s.size = 1 THEN 2 ELSE 4])
      /\ zoom_out(s) = clear_screen([s EXCEPT !.size = IF s.size = 4 THEN 2 ELSE 1])
  BY DEF zoom_in, zoom_out, Sound, Shape
<1>5. /\ change_font_color(s) = clear_screen([s EXCEPT !.font = next_color(s.font, s.background)])
      /\ change_bg_color(s) = clear_screen([s EXCEPT !.background = next_color(s.background, s.font)])
  BY DEF change_font_color, change_bg_color, Sound, Shape
<1>6. Fine(zoom_in(s)) /\ Fine(zoom_out(s))
  <2>1. (IF s.size = 1 THEN 2 ELSE 4) \in {1, 2, 4} /\ (IF s.size = 4 THEN 2 ELSE 1) \in {1, 2, 4}
    OBVIOUS
  <2>. QED BY <1>1, <1>4, <2>1
<1>7. Fine(change_font_color(s)) /\ Fine(change_bg_color(s))
  BY <1>2, <1>3, <1>5
<1>. QED BY <1>6, <1>7

\* For every size of the screen and every sequence of characters and commands the
\* console is sound and both of its cursors are where they may be.
THEOREM ConsoleInvariance == ConsoleSpec => []ConInv
<1>1. ConsoleInit => ConInv
  <2>. SUFFICES ASSUME ConsoleInit PROVE ConInv
    OBVIOUS
  <2>1. con = Console0
    BY DEF ConsoleInit
  <2>2. Sound(con)
    BY <2>1 DEF Console0, Sound, Shape
  <2>3. con.x = 0 /\ con.y = 0 /\ con.size = 1 /\ con.currentX = 0 /\ con.currentY = 0
        /\ con.top_left = 0
    BY <2>1 DEF Console0
  <2>4. LogCursorOK(con)
    <3>1. MAX_WIDTH_LOG(con) \in Nat /\ MAX_HEIGHT_LOG(con) \in Nat /\ MAX_HEIGHT_LOG(con) >= 2
      BY <2>2, Geometry DEF Sound
    <3>. QED BY <2>3, <3>1 DEF LogCursorOK
  <2>5. CursorOK(con)
    BY <2>3, ConsoleAssumption DEF CursorOK
  <2>. QED BY <2>2, <2>4, <2>5 DEF ConInv
<1>2. ConInv /\ [ConsoleNext]_consoleVars => ConInv'
  <2>. SUFFICES ASSUME ConInv, [ConsoleNext]_consoleVars PROVE ConInv'
    OBVIOUS
  <2>1. Fine(con) /\ Sound(con)
    BY DEF ConInv, Fine
  <2>2. Fine(con') => ConInv'
    BY DEF ConInv, Fine, Sound, Shape, CursorOK, LogCursorOK, MAX_WIDTH_LOG, MAX_HEIGHT_LOG
  <2>3. CASE PrintChar
    BY <2>1, <2>2, <2>3, PrintLemma DEF PrintChar
  <2>4. CASE ClearScreen
    BY <2>1, <2>2, <2>4, ClearLemma DEF ClearScreen
  <2>5. CASE Zoom
    BY <2>1, <2>2, <2>5, SizeLemma DEF Zoom
  <2>6. CASE ChangeColor
    BY <2>1, <2>2, <2>6, SizeLemma DEF ChangeColor
  <2>7. CASE UNCHANGED consoleVars
    BY <2>1, <2>2, <2>7 DEF consoleVars
  <2>. QED BY <2>3, <2>4, <2>5, <2>6, <2>7 DEF ConsoleNext
<1>. QED BY <1>1, <1>2, PTL DEF ConsoleSpec

\* drawcharSize never writes a pixel outside of the frame buffer, scroll_down,
\* which does not look where it draws, included; and the log is only written at
\* a line and a column it has.
THEOREM NothingDrawnOutside == ConsoleSpec => []DrawsInside
<1>1. ConInv => DrawsInside
  BY DEF ConInv, Sound, LogCursorOK, DrawsInside
<1>. QED BY <1>1, ConsoleInvariance, PTL

=============================================================================
