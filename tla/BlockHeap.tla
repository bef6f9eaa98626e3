----------------------------- MODULE BlockHeap ------------------------------
(***************************************************************************)
(* Kernel/memory/my_mm.c, the memory manager of a build without            *)
(* USE_BUDDY_MM: the heap is an array of blocks, block_info says of each   *)
(* block whether it is free, and of the first block of an allocation how   *)
(* many blocks it has.  Pointers are offsets from kmm.memory.              *)
(*                                                                         *)
(* Requests are between one byte and the whole heap.  The code does not    *)
(* check that: for 0 bytes it returns the first block without taking it,   *)
(* and a larger request makes the bound of its scan wrap around.           *)
(***************************************************************************)
EXTENDS Integers

CONSTANTS
  BLOCK_SIZE, TOTAL_BLOCKS,
  SimpleSizes  \* the sizes that are requested

ASSUME BlockHeapAssumption ==
  /\ BLOCK_SIZE \in Nat /\ BLOCK_SIZE > 0
  /\ TOTAL_BLOCKS \in Nat /\ TOTAL_BLOCKS > 0
  /\ SimpleSizes \subseteq 1..(BLOCK_SIZE * TOTAL_BLOCKS)

VARIABLES
  block_info,  \* is_free and block_count of every block
  owned        \* the allocations programs hold: first block and request

simpleVars == <<block_info, owned>>

Blocks == 0..(TOTAL_BLOCKS - 1)

NULL_BLOCK == -1

-----------------------------------------------------------------------------
FreeBlock == [is_free |-> TRUE, block_count |-> 0]

my_kmm_init == [i \in Blocks |-> FreeBlock]

blocks_needed(size) == (size + BLOCK_SIZE - 1) \div BLOCK_SIZE

\* Where a run of n free blocks begins; i skips the part of a run that is
\* known to be too short, which leaves out no element of this set.
fits(b, n) ==
  {i \in Blocks : i <= TOTAL_BLOCKS - n /\ \A j \in i..(i + n - 1) : b[j].is_free}

first_fit(b, n) ==
  IF fits(b, n) = {} THEN NULL_BLOCK
  ELSE CHOOSE i \in fits(b, n) : \A j \in fits(b, n) : i <= j

\* Mutant: every block of the allocation holds the count.
take_counts(b, i, n) ==
  [j \in Blocks |-> IF j \in i..(i + n - 1)
                    THEN [is_free |-> FALSE, block_count |-> n] ELSE b[j]]

\* Only the first block holds the count.
take(b, i, n) ==
  [j \in Blocks |-> IF j \in i..(i + n - 1)
                    THEN [is_free |-> FALSE, block_count |-> IF j = i THEN n ELSE 0]
                    ELSE b[j]]

\* Mutant: the count is read after the first block was reset.
my_kmm_free_reset(b, i) ==
  [j \in Blocks |-> IF j = i THEN FreeBlock ELSE b[j]]

\* my_kmm_free of a pointer to block i.
my_kmm_free(b, i) ==
  [j \in Blocks |-> IF j \in i..(i + b[i].block_count - 1) THEN FreeBlock ELSE b[j]]

\* The counts of my_kmm_dump_state: blocks in use, and how many runs they form.
used_blocks(b) == {i \in Blocks : ~ b[i].is_free}

used_regions(b) == {i \in used_blocks(b) : i = 0 \/ b[i - 1].is_free}

-----------------------------------------------------------------------------
\* The blocks of an allocation.
BlocksOf(a) == a.first..(a.first + blocks_needed(a.size) - 1)

SimpleInit == block_info = my_kmm_init /\ owned = {}

\* sys_malloc; the program remembers what it got.
SimpleMalloc(size) ==
  LET n == blocks_needed(size)
      i == first_fit(block_info, n)
  IN IF i = NULL_BLOCK THEN UNCHANGED simpleVars
     ELSE /\ block_info' = take(block_info, i, n)
          /\ owned' = owned \cup {[first |-> i, size |-> size]}

\* sys_free of something the program got.
SimpleFree(a) ==
  /\ block_info' = my_kmm_free(block_info, a.first)
  /\ owned' = owned \ {a}

\* A pointer is freed again before its memory is handed out again.
SimpleFreeAgain(i) ==
  /\ \A a \in owned : i \notin BlocksOf(a)
  /\ block_info' = my_kmm_free(block_info, i)
  /\ UNCHANGED owned

SimpleNext ==
  \/ \E size \in SimpleSizes : SimpleMalloc(size)
  \/ \E a \in owned : SimpleFree(a)
  \/ \E i \in Blocks : SimpleFreeAgain(i)

SimpleSpec == SimpleInit /\ [][SimpleNext]_simpleVars

-----------------------------------------------------------------------------
\* The table says the same as the programs: a block is in use exactly when it
\* belongs to an allocation, so nothing leaks and nothing is freed too early,
\* and every run of used blocks that my_kmm_dump_state counts begins with one.
SimpleAccounts ==
  /\ used_blocks(block_info) = UNION {BlocksOf(a) : a \in owned}
  /\ used_regions(block_info) \subseteq {a.first : a \in owned}

\* The regions in use as the table has them, whatever the programs asked for.
SimpleRegions ==
  {[ptr |-> i * BLOCK_SIZE, size |-> block_info[i].block_count * BLOCK_SIZE] :
     i \in {j \in Blocks : block_info[j].block_count > 0}}

SimpleHeap == INSTANCE Heap WITH
  HeapSize <- BLOCK_SIZE * TOTAL_BLOCKS, regions <- SimpleRegions

\* The table of my_mm.c alone, without knowing what the programs hold, behaves
\* like a heap: an allocation appears whole, over free bytes, and disappears
\* whole, also when a pointer is freed twice.
SimpleImplementsHeap == SimpleHeap!Spec
=============================================================================
