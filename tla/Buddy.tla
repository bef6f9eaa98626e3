------------------------------- MODULE Buddy --------------------------------
(***************************************************************************)
(* Kernel/memory/buddy.c, the memory manager of a build with USE_BUDDY_MM. *)
(* A block of order o has 2^(o + 6) bytes; its first bytes hold a header   *)
(* (block_t) and the rest is what kmalloc returns.  Addresses are offsets  *)
(* from m->base.                                                           *)
(*                                                                         *)
(* The headers live in the memory that is handed out: a program that fills *)
(* its allocation overwrites every header inside of it (Junk).             *)
(***************************************************************************)
EXTENDS Integers, Sequences, FiniteSetsExt, SequencesExt

CONSTANTS
  MIN_ORDER, MAX_ORDER,
  HEADER,     \* sizeof(block_t)
  BuddySizes  \* the sizes that are requested

\* 1UL << n
shifted(n) ==
  LET doubled[i \in 0..n] == IF i = 0 THEN 1 ELSE 2 * doubled[i - 1] IN doubled[n]

BLOCKSIZE(order) == shifted(order + 6)

ASSUME BuddyAssumption ==
  /\ MIN_ORDER \in Nat /\ MAX_ORDER \in Nat /\ MIN_ORDER <= MAX_ORDER
  /\ HEADER \in 1..(BLOCKSIZE(MIN_ORDER) - 1)
  /\ BuddySizes \subseteq Nat

VARIABLES
  buddy,  \* free_lists, and the header at every place where one can be
  held    \* the allocations programs hold: address of the block and request

buddyVars == <<buddy, held>>

Orders == MIN_ORDER..MAX_ORDER

HEAP_SIZE == BLOCKSIZE(MAX_ORDER)

\* Where blocks can begin.
Places == {i * BLOCKSIZE(MIN_ORDER) : i \in 0..(HEAP_SIZE \div BLOCKSIZE(MIN_ORDER) - 1)}

Junk == [order |-> -1, is_free |-> FALSE]

-----------------------------------------------------------------------------
buddy_kmm_init ==
  [free_lists |-> [o \in Orders |-> IF o = MAX_ORDER THEN <<0>> ELSE << >>],
   header |-> [a \in Places |-> IF a = 0 THEN [order |-> MAX_ORDER, is_free |-> TRUE]
                                ELSE Junk]]

\* Mutant: the header is not counted.
get_order_bare(size) ==
  Min({o \in MIN_ORDER..(MAX_ORDER + 1) : o = MAX_ORDER + 1 \/ BLOCKSIZE(o) >= size})

get_order(size) ==
  Min({o \in MIN_ORDER..(MAX_ORDER + 1) : o = MAX_ORDER + 1 \/ BLOCKSIZE(o) >= size + HEADER})

\* The first non-empty list from order on, where the recursion of alloc_block
\* ends; above MAX_ORDER if there is none.
source_order(m, order) ==
  Min({o \in order..(MAX_ORDER + 1) : o = MAX_ORDER + 1 \/ m.free_lists[o] # << >>})

\* alloc_block, when there is a list to take a block from: the block is cut in
\* half on the way back from the recursion, and the upper half becomes the only
\* element of a list that was empty on the way there.
alloc_block(m, order) ==
  LET top == source_order(m, order)
      block == m.free_lists[top][1]
      split(a) == {o \in order..(top - 1) : a = block + BLOCKSIZE(o)}
  IN [free_lists |-> [o \in Orders |->
        IF o = top THEN Tail(m.free_lists[o])
        ELSE IF o \in order..(top - 1) THEN <<block + BLOCKSIZE(o)>>
        ELSE m.free_lists[o]],
      header |-> [a \in Places |->
        IF a = block THEN [order |-> order, is_free |-> FALSE]
        ELSE IF split(a) # {} THEN [order |-> Min(split(a)), is_free |-> TRUE]
        ELSE m.header[a]]]

\* (ptr - base) ^ BLOCKSIZE(order)
GET_BUDDY(a, order) ==
  IF (a \div BLOCKSIZE(order)) % 2 = 0 THEN a + BLOCKSIZE(order) ELSE a - BLOCKSIZE(order)

\* The block of that order that contains a: what block has become when the loop
\* of free_block reaches the order.
merged(a, order) == a - (a % BLOCKSIZE(order))

\* The loop goes on: the buddy is in the list of its order and free.
joins(m, a, order) ==
  LET b == GET_BUDDY(merged(a, order), order)
  IN /\ order < MAX_ORDER
     /\ b \in ToSet(m.free_lists[order])
     /\ m.header[b].is_free /\ m.header[b].order = order

\* Mutant: one merge at most.
final_order_once(m, a) ==
  IF joins(m, a, m.header[a].order) THEN m.header[a].order + 1 ELSE m.header[a].order

final_order(m, a) ==
  Min({o \in m.header[a].order..MAX_ORDER : ~ joins(m, a, o)})

\* A list without its first node that is b.
unlink(list, b) ==
  LET i == Min({j \in DOMAIN list : list[j] = b})
  IN [j \in 1..(Len(list) - 1) |-> IF j < i THEN list[j] ELSE list[j + 1]]

unlink_buddies(m, a, top) ==
  [o \in Orders |->
     IF o \in m.header[a].order..(top - 1)
     THEN unlink(m.free_lists[o], GET_BUDDY(merged(a, o), o))
     ELSE m.free_lists[o]]

\* Mutant: no test for a block that is free already.
free_block_always(m, a) ==
  LET top == final_order(m, a)
      lists == unlink_buddies(m, a, top)
      grown(x) == {o \in (m.header[a].order + 1)..top : merged(a, o) = x}
  IN IF m.header[a].order \notin Orders THEN m
     ELSE [free_lists |-> [lists EXCEPT ![top] = <<merged(a, top)>> \o @],
           header |-> [x \in Places |->
             IF grown(x) # {} THEN [order |-> Max(grown(x)), is_free |-> TRUE]
             ELSE IF x = a THEN [order |-> m.header[a].order, is_free |-> TRUE]
             ELSE m.header[x]]]

\* free_block: the block and its free buddies become one block at the head of
\* its list; is_valid_address holds for every buddy below MAX_ORDER.
free_block(m, a) ==
  LET top == final_order(m, a)
      lists == unlink_buddies(m, a, top)
      grown(x) == {o \in (m.header[a].order + 1)..top : merged(a, o) = x}
  IN IF m.header[a].is_free \/ m.header[a].order \notin Orders THEN m
     ELSE [free_lists |-> [lists EXCEPT ![top] = <<merged(a, top)>> \o @],
           header |-> [x \in Places |->
             IF grown(x) # {} THEN [order |-> Max(grown(x)), is_free |-> TRUE]
             ELSE IF x = a THEN [order |-> m.header[a].order, is_free |-> TRUE]
             ELSE m.header[x]]]

\* The number that buddy_kmm_mem_info and buddy_kmm_dump_state call free.
free_bytes(m) ==
  LET free[o \in (MIN_ORDER - 1)..MAX_ORDER] ==
        IF o < MIN_ORDER THEN 0
        ELSE free[o - 1] + Len(m.free_lists[o]) * BLOCKSIZE(o)
  IN free[MAX_ORDER]

-----------------------------------------------------------------------------
BuddyInit == buddy = buddy_kmm_init /\ held = {}

\* The program fills what it got, up to the next block.
fill(m, a, order) ==
  [m EXCEPT !.header = [x \in Places |->
     IF a < x /\ x < a + BLOCKSIZE(order) THEN Junk ELSE m.header[x]]]

\* buddy_kmalloc: null for 0 bytes and when alloc_block finds no list.
Refused(size) ==
  size = 0 \/ source_order(buddy, get_order(size)) > MAX_ORDER

BuddyMalloc(size) ==
  LET order == get_order(size)
      a == buddy.free_lists[source_order(buddy, order)][1]
  IN /\ ~ Refused(size)
     /\ buddy' = fill(alloc_block(buddy, order), a, order)
     /\ held' = held \cup {[at |-> a, size |-> size]}

BuddyMallocNull(size) == Refused(size) /\ UNCHANGED buddyVars

BuddyFree(h) ==
  /\ buddy' = free_block(buddy, h.at)
  /\ held' = held \ {h}

\* A pointer is freed again before its memory is handed out again.
BuddyFreeAgain(a) ==
  /\ buddy.header[a] # Junk
  /\ \A h \in held : a < h.at \/ a >= h.at + BLOCKSIZE(get_order(h.size))
  /\ buddy' = free_block(buddy, a)
  /\ UNCHANGED held

BuddyNext ==
  \/ \E size \in BuddySizes : BuddyMalloc(size) \/ BuddyMallocNull(size)
  \/ \E h \in held : BuddyFree(h)
  \/ \E a \in Places : BuddyFreeAgain(a)

BuddySpec == BuddyInit /\ [][BuddyNext]_buddyVars

-----------------------------------------------------------------------------
\* The blocks in the lists, as pairs of address and order.
FreeBlocks ==
  UNION {{<<a, o>> : a \in ToSet(buddy.free_lists[o])} : o \in Orders}

HeldBlocks == {<<h.at, get_order(h.size)>> : h \in held}

\* The smallest blocks that lie in a block in use.
HeldPlaces ==
  {a \in Places : \E b \in HeldBlocks : b[1] <= a /\ a < b[1] + BLOCKSIZE(b[2])}

\* Every byte of the heap is in exactly one block, free or in use: splitting
\* and merging lose nothing, and no list holds a block twice.  Blocks fill the
\* heap exactly if they do not overlap and their sizes add up.
BuddyPartition ==
  LET all == FreeBlocks \cup HeldBlocks
  IN /\ \A o \in Orders : Cardinality(ToSet(buddy.free_lists[o])) = Len(buddy.free_lists[o])
     /\ FreeBlocks \cap HeldBlocks = {}
     /\ \A b, c \in all :
          b # c => \/ b[1] + BLOCKSIZE(b[2]) <= c[1]
                   \/ c[1] + BLOCKSIZE(c[2]) <= b[1]
     /\ free_bytes(buddy) + Cardinality(HeldPlaces) * BLOCKSIZE(MIN_ORDER) = HEAP_SIZE

\* A request is refused only if the heap has no aligned piece of its order that
\* is entirely free: merging goes as far as it can, so that freed memory can
\* always be given out again in the largest pieces there are.
BuddyNoFragments ==
  \A o \in Orders :
    source_order(buddy, o) > MAX_ORDER =>
      \A a \in Places :
        a % BLOCKSIZE(o) = 0 =>
          \E h \in HeldBlocks : /\ h[1] < a + BLOCKSIZE(o)
                                /\ a < h[1] + BLOCKSIZE(h[2])

\* What the programs may write to, behind the headers.
BuddyRegions == {[ptr |-> h.at + HEADER, size |-> h.size] : h \in held}

BuddyHeap == INSTANCE Heap WITH HeapSize <- HEAP_SIZE, regions <- BuddyRegions

\* What buddy.c hands out behaves like a heap: the lists, which it threads
\* through free memory, never make it give out a byte that is in use.
BuddyImplementsHeap == BuddyHeap!Spec
=============================================================================
