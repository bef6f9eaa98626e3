---------------------------- MODULE MemoryProofs ----------------------------
(***************************************************************************)
(* Both memory managers implement a heap.  The block table of my_mm.c      *)
(* agrees with what the programs hold, for every block size, every number  *)
(* of blocks and every set of request sizes.  The lists of buddy.c cut the *)
(* heap into blocks without a gap or an overlap, and never leave two free  *)
(* halves of a block apart, for every range of orders, every size of the   *)
(* header that fits into the smallest block and every set of requests.     *)
(***************************************************************************)
EXTENDS BlockHeap, Buddy, FiniteSetTheorems, WellFoundedInduction, TLAPS

\* Every non-empty set of naturals has a least element: the search of the first
\* fit, if it finds a place, finds a first one.
LEMMA LeastNatural ==
  ASSUME NEW T \in SUBSET Nat, T # {}
  PROVE  \E n \in T : \A m \in T : n <= m
<1>1. PICK n \in T : \A m \in T : <<m, n>> \notin OpToRel(<, Nat)
  BY WFMin, NatLessThanWellFounded, Zenon
<1>2. ASSUME NEW m \in T, m < n PROVE FALSE
  <2>1. <<m, n>> \in Nat \X Nat /\ <<m, n>>[1] < <<m, n>>[2]
    BY <1>2
  <2>2. <<m, n>> \in OpToRel(<, Nat)
    BY <2>1, Zenon DEF OpToRel
  <2>. QED BY <1>1, <2>2
<1>. QED BY <1>2

\* A request of at least one byte takes between one block and all of them.
LEMMA NeededLemma ==
  ASSUME NEW size \in SimpleSizes
  PROVE  blocks_needed(size) \in 1..TOTAL_BLOCKS
<1>. DEFINE n == blocks_needed(size)
            B == BLOCK_SIZE
            r == (size + B - 1) % B
<1>1. B \in Nat /\ B > 0 /\ TOTAL_BLOCKS \in Nat /\ size \in 1..(B * TOTAL_BLOCKS)
  BY BlockHeapAssumption
<1>2. /\ n \in Int /\ r \in 0..(B - 1)
      /\ size + B - 1 = B * n + r
  BY <1>1 DEF blocks_needed
<1>3. n >= 1
  <2>1. B * n >= 1
    BY <1>1, <1>2
  <2>. QED BY <1>1, <1>2, <2>1
<1>4. n <= TOTAL_BLOCKS
  <2>1. B * n <= B * TOTAL_BLOCKS + B - 1
    BY <1>1, <1>2
  <2>2. B * n < B * (TOTAL_BLOCKS + 1)
    BY <1>1, <1>2, <2>1
  <2>3. n < TOTAL_BLOCKS + 1
    BY <1>1, <1>2, <2>2
  <2>. QED BY <1>1, <1>2, <2>3
<1>. QED BY <1>1, <1>2, <1>3, <1>4

TableType(b) == b \in [Blocks -> [is_free : BOOLEAN, block_count : Nat]]

\* The invariant of the table b and the allocations o: the first block of an
\* allocation, and no other block, holds a count, and it is the right one;
\* allocations share no block; free is what no allocation covers.
HeapInv(b, o) ==
  /\ TableType(b)
  /\ o \subseteq [first : Blocks, size : SimpleSizes]
  /\ \A a \in o : BlocksOf(a) \subseteq Blocks
  /\ \A a \in o : b[a.first].block_count = blocks_needed(a.size)
  /\ \A a, c \in o : a # c => BlocksOf(a) \cap BlocksOf(c) = {}
  /\ \A j \in Blocks : b[j].is_free <=> \A a \in o : j \notin BlocksOf(a)
  /\ \A j \in Blocks : b[j].block_count > 0 => \E a \in o : a.first = j

\* What first_fit finds is a run of free blocks inside the heap.
LEMMA FitLemma ==
  ASSUME NEW b, TableType(b), NEW n \in 1..TOTAL_BLOCKS, first_fit(b, n) # NULL_BLOCK
  PROVE  first_fit(b, n) \in fits(b, n)
<1>. DEFINE F == fits(b, n)
<1>1. F # {} /\ F \subseteq Blocks
  BY DEF first_fit, fits
<1>2. F \subseteq Nat
  BY <1>1, BlockHeapAssumption DEF Blocks
<1>3. \E i \in F : \A j \in F : i <= j
  BY <1>1, <1>2, LeastNatural
<1>. QED BY <1>1, <1>3 DEF first_fit

-----------------------------------------------------------------------------
\* The blocks of an allocation, as numbers.
LEMMA ExtentLemma ==
  ASSUME NEW b, NEW o, HeapInv(b, o), NEW a \in o
  PROVE  /\ a.first \in Nat /\ blocks_needed(a.size) \in 1..TOTAL_BLOCKS
         /\ a.first \in BlocksOf(a) /\ a.first \in Blocks
         /\ a.first + blocks_needed(a.size) <= TOTAL_BLOCKS
<1>1. a.first \in Blocks /\ a.size \in SimpleSizes /\ BlocksOf(a) \subseteq Blocks
  BY DEF HeapInv
<1>2. blocks_needed(a.size) \in 1..TOTAL_BLOCKS
  BY <1>1, NeededLemma
<1>3. a.first + blocks_needed(a.size) - 1 \in BlocksOf(a) /\ a.first \in BlocksOf(a)
  BY <1>1, <1>2, BlockHeapAssumption DEF BlocksOf, Blocks
<1>. QED BY <1>1, <1>2, <1>3, BlockHeapAssumption DEF Blocks

\* my_kmalloc keeps the invariant; what it hands out was free before.
LEMMA MallocLemma ==
  ASSUME NEW b, NEW o, HeapInv(b, o), NEW size \in SimpleSizes,
         first_fit(b, blocks_needed(size)) # NULL_BLOCK
  PROVE  LET n == blocks_needed(size)
             i == first_fit(b, n)
             a == [first |-> i, size |-> size]
         IN /\ HeapInv(take(b, i, n), o \cup {a})
            /\ i \in Blocks /\ i + n <= TOTAL_BLOCKS
            /\ \A c \in o : BlocksOf(a) \cap BlocksOf(c) = {}
            /\ b[i].block_count = 0
<1>. DEFINE n == blocks_needed(size)
            i == first_fit(b, n)
            a == [first |-> i, size |-> size]
            t == take(b, i, n)
<1>1. n \in 1..TOTAL_BLOCKS
  BY NeededLemma
<1>2. i \in Blocks /\ i <= TOTAL_BLOCKS - n /\ \A j \in i..(i + n - 1) : b[j].is_free
  BY <1>1, FitLemma DEF HeapInv, fits
<1>. HIDE DEF i, n
<1>3. BlocksOf(a) = i..(i + n - 1)
  BY DEF BlocksOf, n
<1>4. BlocksOf(a) \subseteq Blocks /\ i \in BlocksOf(a) /\ i + n <= TOTAL_BLOCKS
  BY <1>1, <1>2, <1>3, BlockHeapAssumption DEF Blocks
<1>5. \A c \in o : BlocksOf(a) \cap BlocksOf(c) = {}
  BY <1>2, <1>3, <1>4 DEF HeapInv
<1>6. \A c \in o : c.first \in BlocksOf(c) /\ c.first \in Blocks
  BY ExtentLemma
<1>7. /\ \A j \in BlocksOf(a) : ~ t[j].is_free /\ t[j].block_count = IF j = i THEN n ELSE 0
      /\ \A j \in Blocks \ BlocksOf(a) : t[j] = b[j]
  BY <1>3, <1>4 DEF take
<1>8. a.first = i /\ a.size = size
  OBVIOUS
<1>. HIDE DEF t, a
<1>9. b[i].block_count = 0
  <2>1. \A c \in o : c.first # i
    BY <1>4, <1>5, <1>6
  <2>2. b[i].block_count \in Nat /\ ~ (b[i].block_count > 0)
    BY <1>2, <2>1 DEF HeapInv, TableType
  <2>. QED BY <2>2
<1>10. HeapInv(t, o \cup {a})
  <2>1. TableType(t)
    BY <1>1, <1>2 DEF TableType, take, HeapInv, t
  <2>2. o \cup {a} \subseteq [first : Blocks, size : SimpleSizes]
    BY <1>2 DEF HeapInv, a
  <2>3. \A c \in o \cup {a} : BlocksOf(c) \subseteq Blocks
    BY <1>4 DEF HeapInv
  <2>4. \A c \in o \cup {a} : t[c.first].block_count = blocks_needed(c.size)
    <3>1. t[a.first].block_count = blocks_needed(a.size)
      BY <1>2, <1>4, <1>7, <1>8 DEF n
    <3>2. ASSUME NEW c \in o PROVE t[c.first].block_count = blocks_needed(c.size)
      BY <1>5, <1>6, <1>7 DEF HeapInv
    <3>. QED BY <3>1, <3>2
  <2>5. \A c, d \in o \cup {a} : c # d => BlocksOf(c) \cap BlocksOf(d) = {}
    BY <1>5 DEF HeapInv
  <2>6. \A j \in Blocks : t[j].is_free <=> \A c \in o \cup {a} : j \notin BlocksOf(c)
    <3>. SUFFICES ASSUME NEW j \in Blocks
                  PROVE  t[j].is_free <=> \A c \in o \cup {a} : j \notin BlocksOf(c)
      OBVIOUS
    <3>1. CASE j \in BlocksOf(a)
      BY <1>7, <3>1
    <3>2. CASE j \notin BlocksOf(a)
      BY <1>7, <3>2 DEF HeapInv
    <3>. QED BY <3>1, <3>2
  <2>7. \A j \in Blocks : t[j].block_count > 0 => \E c \in o \cup {a} : c.first = j
    <3>. SUFFICES ASSUME NEW j \in Blocks, t[j].block_count > 0
                  PROVE  \E c \in o \cup {a} : c.first = j
      OBVIOUS
    <3>1. CASE j = i
      BY <1>8, <3>1
    <3>2. CASE j # i /\ j \in BlocksOf(a)
      BY <1>7, <3>2
    <3>3. CASE j \notin BlocksOf(a)
      BY <1>7, <3>3 DEF HeapInv
    <3>. QED BY <3>1, <3>2, <3>3
  <2>. QED BY <2>1, <2>2, <2>3, <2>4, <2>5, <2>6, <2>7 DEF HeapInv
<1>. QED BY <1>2, <1>4, <1>5, <1>9, <1>10 DEF i, n, a, t

\* my_kmm_free of an allocation frees its blocks and nothing else.
LEMMA FreeLemma ==
  ASSUME NEW b, NEW o, HeapInv(b, o), NEW a \in o
  PROVE  /\ HeapInv(my_kmm_free(b, a.first), o \ {a})
         /\ \A j \in Blocks :
              my_kmm_free(b, a.first)[j].block_count
                = IF j = a.first THEN 0 ELSE b[j].block_count
<1>. DEFINE t == my_kmm_free(b, a.first)
<1>1. b[a.first].block_count = blocks_needed(a.size)
  BY DEF HeapInv
<1>2. \A j \in Blocks : t[j] = IF j \in BlocksOf(a) THEN FreeBlock ELSE b[j]
  BY <1>1 DEF my_kmm_free, BlocksOf
<1>3. TableType(t)
  BY <1>2 DEF my_kmm_free, TableType, FreeBlock, HeapInv
<1>4. \A c \in o : c.first \in BlocksOf(c) /\ c.first \in Blocks
  BY ExtentLemma
<1>. HIDE DEF t
<1>5. \A j \in Blocks : j \in BlocksOf(a) /\ j # a.first => b[j].block_count = 0
  <2>. SUFFICES ASSUME NEW j \in Blocks, j \in BlocksOf(a), j # a.first, b[j].block_count # 0
                PROVE  FALSE
    OBVIOUS
  <2>1. b[j].block_count > 0
    BY DEF HeapInv, TableType
  <2>2. PICK c \in o : c.first = j
    BY <2>1 DEF HeapInv
  <2>. QED BY <1>4, <2>2 DEF HeapInv
<1>6. \A j \in Blocks : t[j].block_count = IF j = a.first THEN 0 ELSE b[j].block_count
  BY <1>2, <1>4, <1>5 DEF FreeBlock
<1>7. \A c \in o \ {a} : t[c.first].block_count = blocks_needed(c.size)
  BY <1>2, <1>4 DEF HeapInv
<1>8. \A j \in Blocks : t[j].is_free <=> \A c \in o \ {a} : j \notin BlocksOf(c)
  <2>. SUFFICES ASSUME NEW j \in Blocks
                PROVE  t[j].is_free <=> \A c \in o \ {a} : j \notin BlocksOf(c)
    OBVIOUS
  <2>1. CASE j \in BlocksOf(a)
    BY <1>2, <2>1 DEF HeapInv, FreeBlock
  <2>2. CASE j \notin BlocksOf(a)
    BY <1>2, <2>2 DEF HeapInv
  <2>. QED BY <2>1, <2>2
<1>9. \A j \in Blocks : t[j].block_count > 0 => \E c \in o \ {a} : c.first = j
  BY <1>6 DEF HeapInv
<1>10. HeapInv(t, o \ {a})
  BY <1>3, <1>7, <1>8, <1>9 DEF HeapInv
<1>. QED BY <1>6, <1>10 DEF t

\* A pointer that belongs to no allocation has no count: freeing it again
\* changes nothing.
LEMMA FreeAgainLemma ==
  ASSUME NEW b, NEW o, HeapInv(b, o), NEW i \in Blocks, \A a \in o : i \notin BlocksOf(a)
  PROVE  my_kmm_free(b, i) = b
<1>1. b[i].block_count = 0
  <2>1. \A a \in o : a.first # i
    BY ExtentLemma
  <2>. QED BY <2>1 DEF HeapInv, TableType
<1>2. \A j \in Blocks : j \notin i..(i + b[i].block_count - 1)
  BY <1>1, BlockHeapAssumption DEF Blocks
<1>. QED BY <1>2 DEF my_kmm_free, HeapInv, TableType

-----------------------------------------------------------------------------
\* What one step does to the invariant, from the three lemmas.
LEMMA HeapNextLemma ==
  ASSUME HeapInv(block_info, owned), [SimpleNext]_simpleVars
  PROVE  HeapInv(block_info', owned')
<1>1. CASE \E size \in SimpleSizes : SimpleMalloc(size)
  <2>1. PICK size \in SimpleSizes : SimpleMalloc(size)
    BY <1>1
  <2>. DEFINE n == blocks_needed(size)
              i == first_fit(block_info, n)
  <2>2. CASE i = NULL_BLOCK
    BY <2>1, <2>2 DEF SimpleMalloc, simpleVars
  <2>3. CASE i # NULL_BLOCK
    <3>1. HeapInv(take(block_info, i, n), owned \cup {[first |-> i, size |-> size]})
      BY <2>3, MallocLemma
    <3>2. /\ block_info' = take(block_info, i, n)
          /\ owned' = owned \cup {[first |-> i, size |-> size]}
      BY <2>1, <2>3 DEF SimpleMalloc
    <3>. QED BY <3>1, <3>2, Zenon
  <2>. QED BY <2>2, <2>3
<1>2. CASE \E a \in owned : SimpleFree(a)
  <2>1. PICK a \in owned : SimpleFree(a)
    BY <1>2
  <2>2. HeapInv(my_kmm_free(block_info, a.first), owned \ {a})
    BY FreeLemma
  <2>. QED BY <2>1, <2>2, Zenon DEF SimpleFree
<1>3. CASE \E i \in Blocks : SimpleFreeAgain(i)
  BY <1>3, FreeAgainLemma DEF SimpleFreeAgain
<1>4. CASE UNCHANGED simpleVars
  BY <1>4 DEF simpleVars
<1>. QED BY <1>1, <1>2, <1>3, <1>4 DEF SimpleNext

\* The invariant holds from my_kmm_init on.
THEOREM HeapInvariance == SimpleSpec => []HeapInv(block_info, owned)
<1>1. SimpleInit => HeapInv(block_info, owned)
  BY DEF SimpleInit, HeapInv, TableType, my_kmm_init, FreeBlock
<1>2. HeapInv(block_info, owned) /\ [SimpleNext]_simpleVars => HeapInv(block_info, owned)'
  BY HeapNextLemma
<1>. QED BY <1>1, <1>2, PTL DEF SimpleSpec

\* The table agrees with the programs in every reachable state: my_kmalloc and
\* my_kmm_free, also of a pointer freed before, leak nothing and free nothing
\* that somebody holds, whatever the sizes.
THEOREM AccountsAgree == SimpleSpec => []SimpleAccounts
<1>1. HeapInv(block_info, owned) => SimpleAccounts
  <2>. SUFFICES ASSUME HeapInv(block_info, owned) PROVE SimpleAccounts
    OBVIOUS
  <2>1. \A j \in Blocks : ~ block_info[j].is_free <=> \E a \in owned : j \in BlocksOf(a)
    BY DEF HeapInv
  <2>2. used_blocks(block_info) = UNION {BlocksOf(a) : a \in owned}
    BY <2>1 DEF used_blocks, HeapInv
  <2>3. ASSUME NEW i \in used_regions(block_info) PROVE \E a \in owned : i = a.first
    <3>1. i \in Blocks /\ ~ block_info[i].is_free /\ (i = 0 \/ block_info[i - 1].is_free)
      BY DEF used_regions, used_blocks
    <3>2. PICK a \in owned : i \in BlocksOf(a)
      BY <2>1, <3>1
    <3>3. a.first \in Nat /\ blocks_needed(a.size) \in Nat
      BY ExtentLemma
    <3>4. i # a.first => i # 0 /\ i - 1 \in BlocksOf(a)
      BY <3>2, <3>3 DEF BlocksOf
    <3>. QED BY <2>1, <3>1, <3>2, <3>4 DEF HeapInv
  <2>. QED BY <2>2, <2>3 DEF SimpleAccounts
<1>. QED BY <1>1, HeapInvariance, PTL

-----------------------------------------------------------------------------
\* The heap in bytes.  Blocks apart are bytes apart.
LEMMA BytesApart ==
  ASSUME NEW i \in Nat, NEW n \in Nat, NEW j \in Nat, i + n <= j
  PROVE  i * BLOCK_SIZE + n * BLOCK_SIZE <= j * BLOCK_SIZE
<1>1. BLOCK_SIZE \in Nat
  BY BlockHeapAssumption
<1>2. (i + n) * BLOCK_SIZE <= j * BLOCK_SIZE
  BY <1>1
<1>. QED BY <1>1, <1>2

\* A table of blocks with a count as the regions of a heap.
RegionsOf(b) ==
  {[ptr |-> i * BLOCK_SIZE, size |-> b[i].block_count * BLOCK_SIZE] :
     i \in {j \in Blocks : b[j].block_count > 0}}

\* A step of my_kmalloc is a Malloc of the heap.
LEMMA MallocRefines ==
  ASSUME HeapInv(block_info, owned), NEW size \in SimpleSizes, SimpleMalloc(size),
         ~ UNCHANGED simpleVars
  PROVE  SimpleHeap!Next
<1>. DEFINE n == blocks_needed(size)
            i == first_fit(block_info, n)
            r == [ptr |-> i * BLOCK_SIZE, size |-> n * BLOCK_SIZE]
            a == [first |-> i, size |-> size]
<1>1. n \in 1..TOTAL_BLOCKS /\ BLOCK_SIZE \in Nat /\ BLOCK_SIZE > 0 /\ TOTAL_BLOCKS \in Nat
  BY NeededLemma, BlockHeapAssumption
<1>2. i # NULL_BLOCK /\ block_info' = take(block_info, i, n)
  BY DEF SimpleMalloc
<1>3. /\ i \in Blocks /\ i + n <= TOTAL_BLOCKS
      /\ \A c \in owned : BlocksOf(a) \cap BlocksOf(c) = {}
      /\ block_info[i].block_count = 0
  BY <1>2, MallocLemma
<1>4. i \in Nat /\ BlocksOf(a) = i..(i + n - 1)
  BY <1>3, BlockHeapAssumption DEF Blocks, BlocksOf
<1>. HIDE DEF i, n, a
<1>5. r.ptr = i * BLOCK_SIZE /\ r.size = n * BLOCK_SIZE
  OBVIOUS
<1>6. r.ptr + r.size <= BLOCK_SIZE * TOTAL_BLOCKS
  BY <1>1, <1>3, <1>4, <1>5, BytesApart
<1>7. r.ptr \in Nat /\ r.size \in Nat /\ r.size >= 1
  BY <1>1, <1>4, <1>5
<1>8. r \in [ptr : 0..(BLOCK_SIZE * TOTAL_BLOCKS), size : 1..(BLOCK_SIZE * TOTAL_BLOCKS)]
  BY <1>1, <1>6, <1>7
<1>9. ASSUME NEW other \in SimpleRegions
      PROVE  /\ other.ptr + other.size <= r.ptr \/ r.ptr + r.size <= other.ptr
             /\ other # r
  <2>1. PICK j \in Blocks : /\ block_info[j].block_count > 0
                            /\ other = [ptr |-> j * BLOCK_SIZE,
                                        size |-> block_info[j].block_count * BLOCK_SIZE]
    BY DEF SimpleRegions
  <2>2. PICK c \in owned : c.first = j
    BY <2>1 DEF HeapInv
  <2>. DEFINE m == blocks_needed(c.size)
  <2>3. block_info[j].block_count = m /\ j \in Nat /\ m \in 1..TOTAL_BLOCKS
    BY <2>2, ExtentLemma DEF HeapInv
  <2>4. (i..(i + n - 1)) \cap (j..(j + m - 1)) = {}
    BY <1>3, <1>4, <2>2 DEF BlocksOf
  <2>. HIDE DEF m
  <2>5. i + n <= j \/ j + m <= i
    <3>1. i \notin j..(j + m - 1) \/ i \notin i..(i + n - 1)
      BY <2>4
    <3>2. j \notin i..(i + n - 1) \/ j \notin j..(j + m - 1)
      BY <2>4
    <3>. QED BY <1>1, <1>4, <2>3, <3>1, <3>2
  <2>6. other.ptr = j * BLOCK_SIZE /\ other.size = m * BLOCK_SIZE
    BY <2>1, <2>3
  <2>7. other.ptr + other.size <= r.ptr \/ r.ptr + r.size <= other.ptr
    BY <1>1, <1>4, <1>5, <2>3, <2>5, <2>6, BytesApart
  <2>8. other.size >= 1 /\ other.ptr \in Nat /\ other.size \in Nat
    BY <1>1, <2>3, <2>6
  <2>. QED BY <1>7, <2>7, <2>8
<1>10. SimpleRegions' = SimpleRegions \cup {r}
  <2>1. SimpleRegions = RegionsOf(block_info) /\ SimpleRegions' = RegionsOf(take(block_info, i, n))
    BY <1>2 DEF SimpleRegions, RegionsOf
  <2>. DEFINE t == take(block_info, i, n)
  <2>2. \A j \in Blocks : t[j].block_count =
          IF j = i THEN n ELSE IF j \in BlocksOf(a) THEN 0 ELSE block_info[j].block_count
    BY <1>1, <1>4 DEF take
  <2>3. \A j \in BlocksOf(a) \cap Blocks : block_info[j].block_count = 0
    <3>. SUFFICES ASSUME NEW j \in BlocksOf(a), j \in Blocks, block_info[j].block_count # 0
                  PROVE  FALSE
      OBVIOUS
    <3>1. block_info[j].block_count > 0
      BY DEF HeapInv, TableType
    <3>2. PICK c \in owned : c.first = j
      BY <3>1 DEF HeapInv
    <3>. QED BY <1>3, <3>2, ExtentLemma
  <2>4. \A j \in Blocks : t[j].block_count = IF j = i THEN n ELSE block_info[j].block_count
    BY <2>2, <2>3
  <2>. HIDE DEF t
  <2>5. {j \in Blocks : t[j].block_count > 0}
          = {j \in Blocks : block_info[j].block_count > 0} \cup {i}
    BY <1>1, <1>3, <2>4
  <2>6. RegionsOf(t) = RegionsOf(block_info) \cup {r}
    BY <1>3, <2>4, <2>5 DEF RegionsOf
  <2>. QED BY <2>1, <2>6 DEF t
<1>. HIDE DEF r
<1>11. r \in SimpleRegions' \ SimpleRegions
  BY <1>9, <1>10
<1>12. SimpleHeap!Malloc(r)
  BY <1>6, <1>8, <1>9, <1>10 DEF SimpleHeap!Malloc, SimpleHeap!Region, SimpleHeap!Disjoint
<1>. QED BY <1>11, <1>12 DEF SimpleHeap!Next

\* A step of my_kmm_free is a Free of the heap.
LEMMA FreeRefines ==
  ASSUME HeapInv(block_info, owned), NEW a \in owned, SimpleFree(a)
  PROVE  SimpleHeap!Next
<1>. DEFINE i == a.first
            m == block_info[i].block_count
            t == my_kmm_free(block_info, i)
            r == [ptr |-> i * BLOCK_SIZE, size |-> m * BLOCK_SIZE]
<1>1. /\ i \in Blocks /\ m \in Nat /\ m > 0
      /\ \A j \in Blocks : t[j].block_count = IF j = i THEN 0 ELSE block_info[j].block_count
  <2>1. i \in Blocks /\ blocks_needed(a.size) \in 1..TOTAL_BLOCKS
    BY ExtentLemma
  <2>2. m = blocks_needed(a.size)
    BY DEF HeapInv
  <2>3. \A j \in Blocks : t[j].block_count = IF j = i THEN 0 ELSE block_info[j].block_count
    BY FreeLemma
  <2>. QED BY <2>1, <2>2, <2>3, BlockHeapAssumption
<1>2. r \in SimpleRegions
  BY <1>1 DEF SimpleRegions
<1>3. SimpleRegions = RegionsOf(block_info) /\ SimpleRegions' = RegionsOf(t)
  BY DEF SimpleRegions, RegionsOf, SimpleFree
<1>. HIDE DEF t, m
<1>4. {j \in Blocks : t[j].block_count > 0}
        = {j \in Blocks : block_info[j].block_count > 0} \ {i}
  BY <1>1
<1>5. \A j \in Blocks : j # i => j * BLOCK_SIZE # i * BLOCK_SIZE
  BY <1>1, BlockHeapAssumption DEF Blocks
<1>6. RegionsOf(t) = RegionsOf(block_info) \ {r}
  <2>. DEFINE R(j) == [ptr |-> j * BLOCK_SIZE, size |-> block_info[j].block_count * BLOCK_SIZE]
              D == {j \in Blocks : block_info[j].block_count > 0}
  <2>1. RegionsOf(block_info) = {R(j) : j \in D} /\ R(i) = r
    BY DEF RegionsOf, m
  <2>2. \A j \in D : j # i => R(j) # R(i)
    BY <1>5
  <2>3. RegionsOf(t) = {R(j) : j \in D \ {i}}
    BY <1>1, <1>4 DEF RegionsOf
  <2>. HIDE DEF R, D
  <2>. QED BY <2>1, <2>2, <2>3
<1>. QED BY <1>2, <1>3, <1>6 DEF SimpleHeap!Next, SimpleHeap!Free

\* my_mm.c implements a heap, for every size of the heap and of its blocks.
THEOREM BlocksImplementHeap == SimpleSpec => SimpleImplementsHeap
<1>1. SimpleInit => SimpleHeap!Init
  BY DEF SimpleInit, SimpleHeap!Init, SimpleRegions, my_kmm_init, FreeBlock
<1>2. HeapInv(block_info, owned) /\ [SimpleNext]_simpleVars => [SimpleHeap!Next]_SimpleRegions
  <2>. SUFFICES ASSUME HeapInv(block_info, owned), [SimpleNext]_simpleVars
                PROVE  SimpleHeap!Next \/ SimpleRegions' = SimpleRegions
    OBVIOUS
  <2>1. CASE UNCHANGED simpleVars
    BY <2>1 DEF simpleVars, SimpleRegions
  <2>2. CASE ~ UNCHANGED simpleVars /\ \E size \in SimpleSizes : SimpleMalloc(size)
    BY <2>2, MallocRefines
  <2>3. CASE \E a \in owned : SimpleFree(a)
    BY <2>3, FreeRefines
  <2>4. CASE \E i \in Blocks : SimpleFreeAgain(i)
    <3>1. block_info' = block_info
      BY <2>4, FreeAgainLemma DEF SimpleFreeAgain
    <3>. QED BY <3>1 DEF SimpleRegions
  <2>. QED BY <2>1, <2>2, <2>3, <2>4 DEF SimpleNext
<1>. QED BY <1>1, <1>2, HeapInvariance, PTL DEF SimpleSpec, SimpleImplementsHeap, SimpleHeap!Spec

-----------------------------------------------------------------------------
(***************************************************************************)
(* The buddy allocator.                                                    *)
(***************************************************************************)

\* Induction, with a set for the formula.
LEMMA NatSet ==
  ASSUME NEW T, 0 \in T, \A n \in Nat : n \in T => n + 1 \in T
  PROVE  Nat \subseteq T
<1>. SUFFICES ASSUME Nat \ T # {} PROVE FALSE
  OBVIOUS
<1>1. PICK n \in Nat \ T : \A m \in Nat \ T : n <= m
  BY LeastNatural
<1>2. n - 1 \in Nat /\ n - 1 \in T
  BY <1>1
<1>. QED BY <1>1, <1>2

\* The loop of a shift: one function for every n, and all agree.
Doubles(f, n) == f = [i \in 0..n |-> IF i = 0 THEN 1 ELSE 2 * f[i - 1]]

LEMMA DoublesExists ==
  ASSUME NEW n \in Nat
  PROVE  \E f : Doubles(f, n)
<1>. DEFINE T == {m \in Nat : \E f : Doubles(f, m)}
<1>1. 0 \in T
  <2>1. Doubles([i \in 0..0 |-> 1], 0)
    BY DEF Doubles
  <2>. QED BY <2>1
<1>2. ASSUME NEW m \in Nat, m \in T PROVE m + 1 \in T
  <2>1. PICK f : Doubles(f, m)
    BY <1>2
  <2>. DEFINE g == [i \in 0..(m + 1) |-> IF i = m + 1 THEN 2 * f[m] ELSE f[i]]
  <2>2. ASSUME NEW i \in 0..(m + 1)
        PROVE  g[i] = IF i = 0 THEN 1 ELSE 2 * g[i - 1]
    BY <2>1 DEF Doubles
  <2>3. Doubles(g, m + 1)
    <3>1. g = [i \in 0..(m + 1) |-> g[i]]
      OBVIOUS
    <3>. HIDE DEF g
    <3>. QED BY <2>2, <3>1 DEF Doubles
  <2>. HIDE DEF g
  <2>. QED BY <2>3
<1>3. Nat \subseteq T
  <2>. HIDE DEF T
  <2>. QED BY <1>1, <1>2, NatSet
<1>. QED BY <1>3

LEMMA DoublesAgree ==
  ASSUME NEW n \in Nat, NEW f, Doubles(f, n), NEW g, Doubles(g, n + 1)
  PROVE  /\ f[n] \in Nat \ {0}
         /\ g[n] = f[n] /\ g[n + 1] = 2 * f[n]
<1>. DEFINE T == {m \in Nat : m <= n => f[m] \in Nat \ {0} /\ g[m] = f[m]}
<1>1. 0 \in T
  BY DEF Doubles
<1>2. ASSUME NEW m \in Nat, m \in T PROVE m + 1 \in T
  <2>1. CASE m + 1 <= n
    <3>1. f[m + 1] = 2 * f[m] /\ g[m + 1] = 2 * g[m]
      <4>1. m + 1 \in 0..n /\ m + 1 \in 0..(n + 1) /\ m + 1 # 0 /\ (m + 1) - 1 = m
        BY <2>1
      <4>. QED BY <4>1 DEF Doubles
    <3>2. f[m] \in Nat \ {0} /\ g[m] = f[m]
      BY <1>2, <2>1
    <3>. QED BY <3>1, <3>2
  <2>. QED BY <2>1
<1>3. n \in T
  <2>. HIDE DEF T
  <2>. QED BY <1>1, <1>2, NatSet
<1>4. g[n + 1] = 2 * g[n]
  <2>1. n + 1 \in 0..(n + 1) /\ n + 1 # 0 /\ (n + 1) - 1 = n
    OBVIOUS
  <2>. QED BY <2>1 DEF Doubles
<1>. QED BY <1>3, <1>4

\* A shift by one more doubles.
LEMMA ShiftLemma ==
  ASSUME NEW n \in Nat
  PROVE  shifted(n) \in Nat \ {0} /\ shifted(n + 1) = 2 * shifted(n)
<1>. DEFINE f == CHOOSE h : Doubles(h, n)
            g == CHOOSE h : Doubles(h, n + 1)
<1>1. Doubles(f, n) /\ Doubles(g, n + 1)
  BY DoublesExists
<1>2. shifted(n) = f[n] /\ shifted(n + 1) = g[n + 1]
  BY DEF shifted, Doubles
<1>. HIDE DEF f, g
<1>. QED BY <1>1, <1>2, DoublesAgree

\* A block of the next order is twice as large.
LEMMA SizeLemma ==
  ASSUME NEW o \in Nat
  PROVE  BLOCKSIZE(o) \in Nat \ {0} /\ BLOCKSIZE(o + 1) = 2 * BLOCKSIZE(o)
<1>1. o + 6 \in Nat /\ (o + 1) + 6 = (o + 6) + 1
  OBVIOUS
<1>. QED BY <1>1, ShiftLemma DEF BLOCKSIZE

\* A larger block is a multiple of a smaller one.
LEMMA MultipleLemma ==
  ASSUME NEW o \in Nat, NEW p \in Nat, o <= p
  PROVE  \E c \in Nat \ {0} : BLOCKSIZE(p) = c * BLOCKSIZE(o)
<1>. DEFINE T == {d \in Nat : \E c \in Nat \ {0} : BLOCKSIZE(o + d) = c * BLOCKSIZE(o)}
<1>1. 0 \in T
  <2>1. BLOCKSIZE(o + 0) = 1 * BLOCKSIZE(o)
    BY SizeLemma
  <2>. QED BY <2>1
<1>2. ASSUME NEW d \in Nat, d \in T PROVE d + 1 \in T
  <2>1. PICK c \in Nat \ {0} : BLOCKSIZE(o + d) = c * BLOCKSIZE(o)
    BY <1>2
  <2>2. BLOCKSIZE(o + (d + 1)) = 2 * BLOCKSIZE(o + d)
    <3>1. o + d \in Nat /\ o + (d + 1) = (o + d) + 1
      OBVIOUS
    <3>. QED BY <3>1, SizeLemma
  <2>3. BLOCKSIZE(o) \in Nat
    BY SizeLemma
  <2>4. 2 * c \in Nat \ {0} /\ BLOCKSIZE(o + (d + 1)) = (2 * c) * BLOCKSIZE(o)
    BY <2>1, <2>2, <2>3
  <2>. QED BY <2>4
<1>3. p - o \in T
  <2>1. p - o \in Nat
    OBVIOUS
  <2>2. Nat \subseteq T
    <3>. HIDE DEF T
    <3>. QED BY <1>1, <1>2, NatSet
  <2>. QED BY <2>1, <2>2
<1>4. o + (p - o) = p
  OBVIOUS
<1>. QED BY <1>3, <1>4

\* merged(x, o) is where the block of order o that contains x begins.
LEMMA MergedIs ==
  ASSUME NEW x \in Nat, NEW o \in Nat
  PROVE  /\ merged(x, o) \in Nat
         /\ merged(x, o) <= x /\ x < merged(x, o) + BLOCKSIZE(o)
         /\ \E i \in Nat : merged(x, o) = i * BLOCKSIZE(o)
<1>. DEFINE b == BLOCKSIZE(o)
<1>1. b \in Nat \ {0}
  BY SizeLemma
<1>. HIDE DEF b
<1>2. /\ x = (b * (x \div b)) + (x % b) /\ x % b \in 0..(b - 1) /\ x \div b \in Nat
  BY <1>1
<1>3. merged(x, o) = (x \div b) * b
  BY <1>1, <1>2 DEF merged, b
<1>4. merged(x, o) \in Nat /\ merged(x, o) <= x /\ x < merged(x, o) + b
  BY <1>1, <1>2, <1>3
<1>5. \E i \in Nat : merged(x, o) = i * b
  BY <1>2, <1>3
<1>. QED BY <1>4, <1>5 DEF b

\* The aligned block of an order that contains x is the only one.
LEMMA MergedUnique ==
  ASSUME NEW x \in Nat, NEW o \in Nat, NEW i \in Nat,
         i * BLOCKSIZE(o) <= x, x < i * BLOCKSIZE(o) + BLOCKSIZE(o)
  PROVE  merged(x, o) = i * BLOCKSIZE(o)
<1>. DEFINE b == BLOCKSIZE(o)
<1>1. b \in Nat \ {0}
  BY SizeLemma
<1>2. PICK j \in Nat : merged(x, o) = j * b /\ j * b <= x /\ x < j * b + b
  BY MergedIs
<1>. HIDE DEF b
<1>3. i * b <= x /\ x < i * b + b
  BY DEF b
<1>4. ~ (i * b < j * b) /\ ~ (j * b < i * b)
  <2>1. \A u, v \in Nat : u * b < v * b => u * b + b <= v * b
    <3>. TAKE u, v \in Nat
    <3>. HAVE u * b < v * b
    <3>1. u < v
      <4>1. ASSUME v <= u PROVE FALSE
        <5>1. v * b <= u * b
          BY <1>1, <4>1
        <5>2. v * b \in Int /\ u * b \in Int
          BY <1>1
        <5>. QED BY <5>1, <5>2
      <4>. QED BY <4>1
    <3>2. (u + 1) * b <= v * b
      BY <1>1, <3>1
    <3>. QED BY <1>1, <3>2
  <2>2. i * b \in Int /\ j * b \in Int
    BY <1>1
  <2>. QED BY <1>1, <1>2, <1>3, <2>1, <2>2
<1>5. i * b = j * b
  <2>1. i * b \in Int /\ j * b \in Int
    BY <1>1
  <2>. QED BY <1>4, <2>1
<1>. QED BY <1>2, <1>5 DEF b

\* Points of the same block.
LEMMA MergedSame ==
  ASSUME NEW a \in Nat, NEW x \in Nat, NEW o \in Nat, merged(a, o) = a,
         a <= x, x < a + BLOCKSIZE(o)
  PROVE  merged(x, o) = a
<1>1. PICK i \in Nat : a = i * BLOCKSIZE(o)
  BY MergedIs
<1>. QED BY <1>1, MergedUnique

LEMMA MergedAgain ==
  ASSUME NEW x \in Nat, NEW o \in Nat
  PROVE  merged(merged(x, o), o) = merged(x, o)
<1>. DEFINE a == merged(x, o)
<1>1. PICK i \in Nat : a = i * BLOCKSIZE(o)
  BY MergedIs
<1>2. a \in Nat /\ BLOCKSIZE(o) \in Nat \ {0}
  BY MergedIs, SizeLemma
<1>. HIDE DEF a
<1>3. merged(a, o) = a
  BY <1>1, <1>2, MergedUnique
<1>. QED BY <1>3 DEF a

\* A place where a large block can begin is one where a smaller block can.
LEMMA MergedFiner ==
  ASSUME NEW x \in Nat, NEW o \in Nat, NEW p \in Nat, o <= p
  PROVE  merged(merged(x, p), o) = merged(x, p)
<1>. DEFINE a == merged(x, p)
            b == BLOCKSIZE(o)
<1>1. PICK i \in Nat : a = i * BLOCKSIZE(p)
  BY MergedIs
<1>2. PICK c \in Nat \ {0} : BLOCKSIZE(p) = c * b
  BY MultipleLemma
<1>3. a \in Nat /\ b \in Nat \ {0}
  BY MergedIs, SizeLemma
<1>. HIDE DEF a, b
<1>4. i * c \in Nat /\ a = (i * c) * b
  BY <1>1, <1>2, <1>3
<1>5. merged(a, o) = a
  BY <1>3, <1>4, MergedUnique DEF b
<1>. QED BY <1>5 DEF a

\* Blocks are nested.
LEMMA MergedCoarser ==
  ASSUME NEW x \in Nat, NEW o \in Nat, NEW p \in Nat, o <= p
  PROVE  merged(merged(x, o), p) = merged(x, p)
<1>. DEFINE a == merged(x, p)
            y == merged(x, o)
            b == BLOCKSIZE(o)
<1>1. PICK i \in Nat : a = i * BLOCKSIZE(p)
  BY MergedIs
<1>2. PICK c \in Nat \ {0} : BLOCKSIZE(p) = c * b
  BY MultipleLemma
<1>3. PICK j \in Nat : y = j * b
  BY MergedIs
<1>4. /\ a \in Nat /\ y \in Nat /\ b \in Nat \ {0} /\ BLOCKSIZE(p) \in Nat \ {0}
      /\ a <= x /\ x < a + BLOCKSIZE(p) /\ y <= x /\ x < y + b
  BY MergedIs, SizeLemma
<1>. HIDE DEF a, b, y
<1>5. a <= y
  <2>. DEFINE n == i * c
  <2>1. n \in Nat /\ a = n * b
    BY <1>1, <1>2, <1>4
  <2>. HIDE DEF n
  <2>2. CASE j < n
    <3>1. (j + 1) * b <= n * b
      BY <1>4, <2>1, <2>2
    <3>2. y + b = (j + 1) * b
      BY <1>3, <1>4
    <3>. QED BY <1>4, <2>1, <3>1, <3>2
  <2>3. CASE n <= j
    <3>1. n * b <= j * b
      BY <1>4, <2>1, <2>3
    <3>. QED BY <1>3, <2>1, <3>1
  <2>. QED BY <2>1, <2>2, <2>3
<1>6. y < i * BLOCKSIZE(p) + BLOCKSIZE(p) /\ i * BLOCKSIZE(p) <= y
  BY <1>1, <1>4, <1>5
<1>7. merged(y, p) = i * BLOCKSIZE(p)
  BY <1>4, <1>6, MergedUnique
<1>. QED BY <1>1, <1>7 DEF a, y

\* The buddy of a block is the other half of the block of the next order.
LEMMA BuddyIs ==
  ASSUME NEW a \in Nat, NEW o \in Nat, merged(a, o) = a
  PROVE  LET p == merged(a, o + 1)
             s == GET_BUDDY(a, o)
         IN  /\ p \in Nat
             /\ \/ a = p /\ s = p + BLOCKSIZE(o)
                \/ a = p + BLOCKSIZE(o) /\ s = p
<1>. DEFINE p == merged(a, o + 1)
            s == GET_BUDDY(a, o)
            b == BLOCKSIZE(o)
<1>1. PICK i \in Nat : a = i * b
  BY MergedIs
<1>2. b \in Nat \ {0} /\ BLOCKSIZE(o + 1) = 2 * b /\ p \in Nat
  BY SizeLemma, MergedIs
<1>. HIDE DEF b, p
<1>3. a \div b = i
  BY <1>1, <1>2
<1>4. s = IF i % 2 = 0 THEN a + b ELSE a - b
  BY <1>3 DEF GET_BUDDY, b
<1>. HIDE DEF s
<1>5. CASE i % 2 = 0
  <2>1. PICK j \in Nat : i = 2 * j
    BY <1>5
  <2>2. a = j * (2 * b)
    BY <1>1, <1>2, <2>1
  <2>3. p = a
    <3>1. a <= a /\ a < a + 2 * b
      BY <1>2
    <3>2. j * BLOCKSIZE(o + 1) <= a /\ a < j * BLOCKSIZE(o + 1) + BLOCKSIZE(o + 1)
      BY <1>2, <2>2, <3>1
    <3>3. p = j * BLOCKSIZE(o + 1)
      BY <3>2, MergedUnique DEF p
    <3>. QED BY <1>2, <2>2, <3>3
  <2>. QED BY <1>2, <1>4, <1>5, <2>3 DEF p, s, b
<1>6. CASE i % 2 # 0
  <2>1. PICK j \in Nat : i = 2 * j + 1
    BY <1>6
  <2>2. a = j * (2 * b) + b
    BY <1>1, <1>2, <2>1
  <2>3. p = a - b
    <3>0. j * (2 * b) \in Nat
      BY <1>2
    <3>1. j * BLOCKSIZE(o + 1) <= a /\ a < j * BLOCKSIZE(o + 1) + BLOCKSIZE(o + 1)
      BY <1>2, <2>2, <3>0
    <3>2. p = j * BLOCKSIZE(o + 1)
      BY <3>1, MergedUnique DEF p
    <3>. QED BY <1>2, <2>2, <3>0, <3>2
  <2>4. s = p /\ a = p + b
    BY <1>2, <1>4, <1>6, <2>3
  <2>. QED BY <1>2, <2>4 DEF p, s, b
<1>. QED BY <1>5, <1>6

\* What is needed of it.
LEMMA BuddyLemma ==
  ASSUME NEW a \in Nat, NEW o \in Nat, merged(a, o) = a
  PROVE  LET s == GET_BUDDY(a, o)
         IN  /\ s \in Nat /\ s # a /\ merged(s, o) = s
             /\ merged(s, o + 1) = merged(a, o + 1)
             /\ GET_BUDDY(s, o) = a
             /\ merged(a, o + 1) = a => s = a + BLOCKSIZE(o)
             /\ \A x \in Nat : merged(x, o + 1) = merged(a, o + 1) => merged(x, o) \in {a, s}
<1>. DEFINE p == merged(a, o + 1)
            s == GET_BUDDY(a, o)
            b == BLOCKSIZE(o)
<1>1. /\ p \in Nat
      /\ (a = p /\ s = p + b) \/ (a = p + b /\ s = p)
  BY BuddyIs
<1>2. b \in Nat \ {0} /\ BLOCKSIZE(o + 1) = 2 * b
  BY SizeLemma
<1>3. merged(p, o) = p /\ merged(p, o + 1) = p
  BY MergedFiner, MergedAgain
<1>. HIDE DEF p, s, b
<1>4. merged(p + b, o) = p + b
  <2>1. PICK i \in Nat : p = i * b
    BY <1>1, <1>3, MergedIs DEF b
  <2>2. p + b = (i + 1) * b /\ p + b \in Nat
    BY <1>1, <1>2, <2>1
  <2>3. (i + 1) * BLOCKSIZE(o) <= p + b /\ p + b < (i + 1) * BLOCKSIZE(o) + BLOCKSIZE(o)
    BY <1>1, <1>2, <2>2 DEF b
  <2>4. i + 1 \in Nat
    OBVIOUS
  <2>5. merged(p + b, o) = (i + 1) * BLOCKSIZE(o)
    BY <2>2, <2>3, <2>4, MergedUnique
  <2>. QED BY <2>2, <2>5 DEF b
<1>5. merged(p + b, o + 1) = p
  <2>1. p + b \in Nat /\ p <= p + b /\ p + b < p + BLOCKSIZE(o + 1) /\ o + 1 \in Nat
    BY <1>1, <1>2
  <2>. QED BY <1>1, <1>3, <2>1, MergedSame
<1>6. s \in Nat /\ s # a /\ merged(s, o) = s /\ merged(s, o + 1) = p
  BY <1>1, <1>2, <1>3, <1>4, <1>5
<1>7. GET_BUDDY(s, o) = a
  <2>1. (s = p /\ GET_BUDDY(s, o) = p + b) \/ (s = p + b /\ GET_BUDDY(s, o) = p)
    BY <1>6, BuddyIs DEF b
  <2>. QED BY <1>1, <1>2, <2>1
<1>8. ASSUME NEW x \in Nat, merged(x, o + 1) = p PROVE merged(x, o) \in {a, s}
  <2>1. p <= x /\ x < p + 2 * b
    BY <1>2, <1>8, MergedIs
  <2>2. CASE x < p + b
    BY <1>1, <1>3, <2>1, <2>2, MergedSame DEF b
  <2>3. CASE p + b <= x
    <3>1. p + b \in Nat /\ x < (p + b) + BLOCKSIZE(o)
      BY <1>1, <1>2, <2>1 DEF b
    <3>2. merged(x, o) = p + b
      BY <1>4, <2>3, <3>1, MergedSame
    <3>. QED BY <1>1, <3>2
  <2>. QED BY <1>1, <1>2, <2>2, <2>3
<1>9. p = a => s = a + b
  BY <1>1, <1>2
<1>. QED BY <1>6, <1>7, <1>8, <1>9 DEF p, s, b

-----------------------------------------------------------------------------
(* Blocks as pairs of address and order.  A set of them tiles the heap if  *)
(* every byte is in one of them and in no other.                           *)

At(S, x, o) == <<merged(x, o), o>> \in S

Tiles(S) ==
  \A x \in 0..(HEAP_SIZE - 1) :
    /\ \E o \in Orders : At(S, x, o)
    /\ \A o, p \in Orders : At(S, x, o) /\ At(S, x, p) => o = p

sibling(c, o) == GET_BUDDY(merged(c, o), o)

\* The block of order q at c, and the halves that were cut off on the way to it
\* from the block of order top.
InChain(a, o, c, q, top) ==
  \/ o = q /\ a = merged(c, q)
  \/ o \in q..(top - 1) /\ a = sibling(c, o)

\* The other half of the block of order o + 1 that contains c.
LEMMA SiblingLemma ==
  ASSUME NEW c \in Nat, NEW o \in Nat
  PROVE  /\ sibling(c, o) \in Nat /\ sibling(c, o) # merged(c, o)
         /\ merged(sibling(c, o), o) = sibling(c, o)
         /\ merged(sibling(c, o), o + 1) = merged(c, o + 1)
         /\ \A x \in Nat : merged(x, o + 1) = merged(c, o + 1)
                             => merged(x, o) \in {merged(c, o), sibling(c, o)}
<1>. DEFINE a == merged(c, o)
<1>1. a \in Nat /\ merged(a, o) = a
  BY MergedIs, MergedAgain
<1>2. merged(a, o + 1) = merged(c, o + 1)
  BY MergedCoarser
<1>3. sibling(c, o) = GET_BUDDY(a, o)
  BY DEF sibling
<1>. HIDE DEF a
<1>4. /\ GET_BUDDY(a, o) \in Nat /\ GET_BUDDY(a, o) # a
      /\ merged(GET_BUDDY(a, o), o) = GET_BUDDY(a, o)
      /\ merged(GET_BUDDY(a, o), o + 1) = merged(a, o + 1)
      /\ \A x \in Nat : merged(x, o + 1) = merged(a, o + 1)
                          => merged(x, o) \in {a, GET_BUDDY(a, o)}
  BY <1>1, BuddyLemma
<1>. QED BY <1>2, <1>3, <1>4 DEF a

\* Who shares a block shares every larger one.
LEMMA Upwards ==
  ASSUME NEW x \in Nat, NEW y \in Nat, NEW o \in Nat, NEW p \in Nat, o <= p,
         merged(x, o) = merged(y, o)
  PROVE  merged(x, p) = merged(y, p)
<1>1. merged(x, p) = merged(merged(x, o), p) /\ merged(y, p) = merged(merged(y, o), p)
  BY MergedCoarser
<1>. QED BY <1>1

\* The blocks of a chain lie in the block at its top...
LEMMA ChainInside ==
  ASSUME NEW c \in Nat, NEW q \in Nat, NEW top \in Nat, q <= top, NEW x \in Nat, NEW o,
         InChain(merged(x, o), o, c, q, top)
  PROVE  o \in q..top /\ merged(x, top) = merged(c, top)
<1>1. CASE o = q /\ merged(x, o) = merged(c, q)
  BY <1>1, Upwards
<1>2. CASE o \in q..(top - 1) /\ merged(x, o) = sibling(c, o)
  <2>1. o \in Nat /\ o + 1 \in Nat /\ o + 1 <= top /\ o <= o + 1
    BY <1>2
  <2>2. merged(x, o + 1) = merged(c, o + 1)
    <3>1. merged(merged(x, o), o + 1) = merged(x, o + 1)
      BY <2>1, MergedCoarser
    <3>. QED BY <1>2, <2>1, <3>1, SiblingLemma
  <2>3. merged(x, top) = merged(c, top)
    BY <2>1, <2>2, Upwards
  <2>. QED BY <1>2, <2>1, <2>3
<1>. QED BY <1>1, <1>2 DEF InChain

\* ... fill it ...
LEMMA ChainFills ==
  ASSUME NEW c \in Nat, NEW q \in Nat, NEW top \in Nat, q <= top, NEW x \in Nat,
         merged(x, top) = merged(c, top)
  PROVE  \E o \in q..top : InChain(merged(x, o), o, c, q, top)
<1>. DEFINE T == {o \in q..top : merged(x, o) = merged(c, o)}
<1>1. T \in SUBSET Nat /\ T # {}
  OBVIOUS
<1>2. PICK n \in T : \A m \in T : n <= m
  <2>. HIDE DEF T
  <2>. QED BY <1>1, LeastNatural
<1>3. CASE n = q
  <2>1. q \in q..top /\ InChain(merged(x, q), q, c, q, top)
    BY <1>2, <1>3 DEF InChain
  <2>. QED BY <2>1
<1>4. CASE n # q
  <2>. DEFINE o == n - 1
  <2>1. o \in Nat /\ o \in q..(top - 1) /\ o \in q..top /\ o + 1 = n
    BY <1>2, <1>4
  <2>2. merged(x, o) # merged(c, o)
    BY <1>2, <2>1
  <2>3. merged(x, o + 1) = merged(c, o + 1)
    BY <1>2, <2>1
  <2>4. merged(x, o) = sibling(c, o)
    BY <2>1, <2>2, <2>3, SiblingLemma
  <2>5. InChain(merged(x, o), o, c, q, top)
    BY <2>1, <2>4 DEF InChain
  <2>. QED BY <2>1, <2>5
<1>. QED BY <1>3, <1>4

\* ... and do not overlap.
LEMMA ChainApart ==
  ASSUME NEW c \in Nat, NEW q \in Nat, NEW top \in Nat, q <= top, NEW x \in Nat,
         NEW o, NEW p,
         InChain(merged(x, o), o, c, q, top), InChain(merged(x, p), p, c, q, top)
  PROVE  o = p
<1>1. ASSUME NEW i \in Nat, NEW j, InChain(merged(x, i), i, c, q, top),
             InChain(merged(x, j), j, c, q, top), i \in q..top, j \in q..top, i < j
      PROVE  FALSE
  <2>1. j \in q..(top - 1) /\ merged(x, j) = sibling(c, j) /\ j \in Nat
    BY <1>1 DEF InChain
  <2>2. merged(x, j) = merged(c, j)
    <3>1. CASE i = q /\ merged(x, i) = merged(c, q)
      BY <1>1, <2>1, <3>1, Upwards
    <3>2. CASE i \in q..(top - 1) /\ merged(x, i) = sibling(c, i)
      <4>1. i + 1 \in Nat /\ i + 1 <= j /\ i <= i + 1
        BY <1>1, <2>1
      <4>2. merged(x, i + 1) = merged(c, i + 1)
        <5>1. merged(merged(x, i), i + 1) = merged(x, i + 1)
          BY <4>1, MergedCoarser
        <5>. QED BY <3>2, <5>1, SiblingLemma
      <4>. QED BY <2>1, <4>1, <4>2, Upwards
    <3>. QED BY <1>1, <3>1, <3>2 DEF InChain
  <2>3. j \in Nat
    BY <2>1
  <2>4. sibling(c, j) # merged(c, j)
    BY ONLY c \in Nat, <2>3, SiblingLemma
  <2>. QED BY <2>1, <2>2, <2>4
<1>2. o \in q..top /\ p \in q..top
  BY ChainInside
<1>3. o \in Nat /\ p \in Nat
  BY <1>2
<1>. QED BY <1>1, <1>2, <1>3

\* A chain can take the place of the block at its top, and that block its place.
LEMMA Divided ==
  ASSUME NEW c \in Nat, NEW q \in Orders, NEW top \in Orders, q <= top,
         NEW S, NEW Z, NEW U, Tiles(S),
         \A a, o : <<a, o>> \in S <=> <<a, o>> \in Z \/ (a = merged(c, top) /\ o = top),
         <<merged(c, top), top>> \notin Z,
         \A a, o : <<a, o>> \in U <=> <<a, o>> \in Z \/ InChain(a, o, c, q, top)
  PROVE  /\ Tiles(U)
         /\ \A x \in 0..(HEAP_SIZE - 1), o \in Orders :
              At(Z, x, o) => merged(x, top) # merged(c, top)
<1>0. q \in Nat /\ top \in Nat /\ \A o \in Orders : o \in Nat
  BY BuddyAssumption DEF Orders
<1>1. ASSUME NEW x \in 0..(HEAP_SIZE - 1), NEW o \in Orders, At(Z, x, o)
      PROVE  merged(x, top) # merged(c, top)
  <2>1. ASSUME merged(x, top) = merged(c, top) PROVE FALSE
    <3>1. At(S, x, top) /\ At(S, x, o)
      BY <1>1, <2>1 DEF At
    <3>2. o = top
      BY <3>1 DEF Tiles
    <3>. QED BY <1>1, <2>1, <3>2 DEF At
  <2>. QED BY <2>1
<1>2. ASSUME NEW x \in 0..(HEAP_SIZE - 1) PROVE \E o \in Orders : At(U, x, o)
  <2>0. x \in Nat
    BY SizeLemma DEF HEAP_SIZE
  <2>1. PICK o \in Orders : At(S, x, o)
    BY DEF Tiles
  <2>2. CASE At(Z, x, o)
    BY <2>2 DEF At
  <2>3. CASE merged(x, o) = merged(c, top) /\ o = top
    <3>1. PICK p \in q..top : InChain(merged(x, p), p, c, q, top)
      BY <1>0, <2>0, <2>3, ChainFills
    <3>2. p \in Orders
      BY <3>1, BuddyAssumption DEF Orders
    <3>3. At(U, x, p)
      BY <3>1 DEF At
    <3>. QED BY <3>2, <3>3
  <2>. QED BY <2>1, <2>2, <2>3 DEF At
<1>3. ASSUME NEW x \in 0..(HEAP_SIZE - 1), NEW o \in Orders, NEW p \in Orders,
             At(U, x, o), At(U, x, p)
      PROVE  o = p
  <2>0. x \in Nat
    BY SizeLemma DEF HEAP_SIZE
  <2>1. /\ At(Z, x, o) \/ InChain(merged(x, o), o, c, q, top)
        /\ At(Z, x, p) \/ InChain(merged(x, p), p, c, q, top)
    BY <1>3 DEF At
  <2>2. \A r \in Orders : InChain(merged(x, r), r, c, q, top) => merged(x, top) = merged(c, top)
    BY <1>0, <2>0, ChainInside
  <2>3. CASE At(Z, x, o) /\ At(Z, x, p)
    <3>1. At(S, x, o) /\ At(S, x, p)
      BY <2>3 DEF At
    <3>. QED BY <3>1 DEF Tiles
  <2>4. CASE InChain(merged(x, o), o, c, q, top) /\ InChain(merged(x, p), p, c, q, top)
    BY <1>0, <2>0, <2>4, ChainApart
  <2>. QED BY <1>1, <2>1, <2>2, <2>3, <2>4
<1>. QED BY <1>1, <1>2, <1>3 DEF Tiles

\* The way back: a block and the halves beside it, put together, tile the heap
\* with the rest.
LEMMA Joined ==
  ASSUME NEW c \in Nat, NEW q \in Orders, NEW top \in Orders, q <= top,
         NEW S, NEW Z, NEW U, Tiles(S),
         \A a, o : <<a, o>> \in S <=> <<a, o>> \in Z \/ InChain(a, o, c, q, top),
         \A a, o : <<a, o>> \in Z => ~ InChain(a, o, c, q, top),
         \A a, o : <<a, o>> \in U <=> <<a, o>> \in Z \/ (a = merged(c, top) /\ o = top)
  PROVE  /\ Tiles(U)
         /\ \A x \in 0..(HEAP_SIZE - 1), o \in Orders :
              At(Z, x, o) => merged(x, top) # merged(c, top)
<1>0. q \in Nat /\ top \in Nat /\ \A o \in Orders : o \in Nat
  BY BuddyAssumption DEF Orders
<1>1. ASSUME NEW x \in 0..(HEAP_SIZE - 1), NEW o \in Orders, At(Z, x, o)
      PROVE  merged(x, top) # merged(c, top)
  <2>1. ASSUME merged(x, top) = merged(c, top) PROVE FALSE
    <3>0. x \in Nat
      BY SizeLemma DEF HEAP_SIZE
    <3>1. PICK p \in q..top : InChain(merged(x, p), p, c, q, top)
      BY <1>0, <2>1, <3>0, ChainFills
    <3>2. p \in Orders
      BY <3>1, BuddyAssumption DEF Orders
    <3>3. At(S, x, p) /\ At(S, x, o)
      BY <1>1, <3>1 DEF At
    <3>4. o = p
      BY <3>2, <3>3 DEF Tiles
    <3>. QED BY <1>1, <3>1, <3>4 DEF At
  <2>. QED BY <2>1
<1>2. ASSUME NEW x \in 0..(HEAP_SIZE - 1) PROVE \E o \in Orders : At(U, x, o)
  <2>0. x \in Nat
    BY SizeLemma DEF HEAP_SIZE
  <2>1. PICK o \in Orders : At(S, x, o)
    BY DEF Tiles
  <2>2. CASE At(Z, x, o)
    BY <2>2 DEF At
  <2>3. CASE InChain(merged(x, o), o, c, q, top)
    <3>1. merged(x, top) = merged(c, top)
      BY <1>0, <2>0, <2>3, ChainInside
    <3>2. At(U, x, top)
      BY <3>1 DEF At
    <3>. QED BY <3>2
  <2>. QED BY <2>1, <2>2, <2>3 DEF At
<1>3. ASSUME NEW x \in 0..(HEAP_SIZE - 1), NEW o \in Orders, NEW p \in Orders,
             At(U, x, o), At(U, x, p)
      PROVE  o = p
  <2>1. /\ At(Z, x, o) \/ (merged(x, o) = merged(c, top) /\ o = top)
        /\ At(Z, x, p) \/ (merged(x, p) = merged(c, top) /\ p = top)
    BY <1>3 DEF At
  <2>3. CASE At(Z, x, o) /\ At(Z, x, p)
    <3>1. At(S, x, o) /\ At(S, x, p)
      BY <2>3 DEF At
    <3>. QED BY <3>1 DEF Tiles
  <2>. QED BY <1>1, <2>1, <2>3
<1>. QED BY <1>1, <1>2, <1>3 DEF Tiles

-----------------------------------------------------------------------------
(* The lists.                                                              *)

\* What Min and Max return.
LEMMA LeastOf ==
  ASSUME NEW T \in SUBSET Nat, T # {}
  PROVE  Min(T) \in T /\ \A n \in T : Min(T) <= n
<1>1. \E n \in T : \A m \in T : n <= m
  BY LeastNatural
<1>. QED BY <1>1 DEF Min

LEMMA GreatestOf ==
  ASSUME NEW c \in Nat, NEW T \in SUBSET (0..c), T # {}
  PROVE  Max(T) \in T /\ \A n \in T : Max(T) >= n
<1>. DEFINE R == {i \in 0..c : c - i \in T}
<1>1. R \in SUBSET Nat /\ R # {}
  <2>1. PICK n \in T : TRUE
    OBVIOUS
  <2>2. c - n \in 0..c /\ c - (c - n) = n
    BY <2>1
  <2>3. c - n \in R
    BY <2>1, <2>2
  <2>4. R \in SUBSET Nat
    OBVIOUS
  <2>. QED BY <2>3, <2>4
<1>2. PICK i \in R : \A j \in R : i <= j
  <2>. HIDE DEF R
  <2>. QED BY <1>1, LeastNatural
<1>3. c - i \in T /\ \A n \in T : c - i >= n
  <2>1. ASSUME NEW n \in T PROVE c - i >= n
    <3>1. n \in 0..c /\ c - n \in 0..c /\ c - (c - n) = n
      OBVIOUS
    <3>2. c - n \in R
      BY <3>1
    <3>3. i <= c - n /\ i \in 0..c
      <4>. HIDE DEF R
      <4>1. i <= c - n
        BY <1>2, <3>2
      <4>. QED BY <1>2, <4>1 DEF R
    <3>. QED BY <3>1, <3>3
  <2>. QED BY <1>2, <2>1
<1>. HIDE DEF R
<1>. QED BY <1>3 DEF Max

Holds(l, a) == \E i \in 1..Len(l) : l[i] = a

NoRepeat(l) == \A i, j \in 1..Len(l) : l[i] = l[j] => i = j

LEMMA SeqLemma ==
  ASSUME NEW S, NEW n \in Nat, NEW f, f = [i \in 1..n |-> f[i]], \A i \in 1..n : f[i] \in S
  PROVE  f \in Seq(S) /\ Len(f) = n
OBVIOUS

\* What taking the first node, unlinking one and pushing one do to a list.
LEMMA TailLemma ==
  ASSUME NEW l \in Seq(Nat), l # << >>, NoRepeat(l)
  PROVE  /\ Tail(l) \in Seq(Nat) /\ NoRepeat(Tail(l)) /\ Len(Tail(l)) = Len(l) - 1
         /\ l[1] \in Nat /\ Holds(l, l[1])
         /\ \A a : Holds(Tail(l), a) <=> Holds(l, a) /\ a # l[1]
<1>. DEFINE n == Len(l)
            t == Tail(l)
<1>1. n \in Nat /\ n >= 1 /\ 1 \in 1..n
  OBVIOUS
<1>2. t \in Seq(Nat) /\ Len(t) = n - 1 /\ \A i \in 1..(n - 1) : t[i] = l[i + 1]
  <2>1. t \in Seq(Nat)
    OBVIOUS
  <2>2. Len(t) = n - 1
    OBVIOUS
  <2>3. \A i \in 1..(n - 1) : t[i] = l[i + 1]
    OBVIOUS
  <2>. QED BY <2>1, <2>2, <2>3
<1>. HIDE DEF t
<1>3. \A i \in 1..(n - 1) : i + 1 \in 1..n /\ i + 1 # 1
  BY <1>1
<1>4. NoRepeat(t)
  <2>. SUFFICES ASSUME NEW i \in 1..(n - 1), NEW j \in 1..(n - 1), t[i] = t[j] PROVE i = j
    BY <1>2 DEF NoRepeat
  <2>1. i + 1 \in 1..n /\ j + 1 \in 1..n /\ l[i + 1] = l[j + 1]
    BY <1>2, <1>3
  <2>2. i + 1 = j + 1
    BY <2>1 DEF NoRepeat
  <2>. QED BY <2>2
<1>5. ASSUME NEW a PROVE Holds(t, a) <=> Holds(l, a) /\ a # l[1]
  <2>1. ASSUME Holds(t, a) PROVE Holds(l, a) /\ a # l[1]
    <3>1. PICK i \in 1..(n - 1) : t[i] = a
      BY <1>2, <2>1 DEF Holds
    <3>. QED BY <1>1, <1>2, <1>3, <3>1 DEF Holds, NoRepeat
  <2>2. ASSUME Holds(l, a), a # l[1] PROVE Holds(t, a)
    <3>1. PICK i \in 1..n : l[i] = a
      BY <2>2 DEF Holds
    <3>2. i # 1
      BY <2>2, <3>1
    <3>3. i - 1 \in 1..(n - 1) /\ (i - 1) + 1 = i
      BY <1>1, <3>2
    <3>. QED BY <1>2, <3>1, <3>3 DEF Holds
  <2>. QED BY <2>1, <2>2
<1>6. l[1] \in Nat /\ Holds(l, l[1])
  BY <1>1 DEF Holds
<1>. QED BY <1>2, <1>4, <1>5, <1>6 DEF t

LEMMA UnlinkLemma ==
  ASSUME NEW l \in Seq(Nat), NEW b, Holds(l, b), NoRepeat(l)
  PROVE  /\ unlink(l, b) \in Seq(Nat) /\ NoRepeat(unlink(l, b))
         /\ Len(unlink(l, b)) = Len(l) - 1
         /\ \A a : Holds(unlink(l, b), a) <=> Holds(l, a) /\ a # b
<1>. DEFINE n == Len(l)
            k == Min({j \in DOMAIN l : l[j] = b})
            t == unlink(l, b)
            src(j) == IF j < k THEN j ELSE j + 1
<1>1. n \in Nat /\ DOMAIN l = 1..n
  OBVIOUS
<1>2. k \in 1..n /\ l[k] = b
  <2>. DEFINE T == {j \in DOMAIN l : l[j] = b}
  <2>1. T \in SUBSET Nat /\ T # {} /\ T \subseteq 1..n
    BY <1>1 DEF Holds
  <2>2. k \in T
    <3>. HIDE DEF T
    <3>1. Min(T) \in T
      BY <2>1, LeastOf
    <3>. QED BY <3>1 DEF T
  <2>. HIDE DEF k
  <2>. QED BY <1>1, <2>2
<1>3. t = [j \in 1..(n - 1) |-> IF j < k THEN l[j] ELSE l[j + 1]]
  BY DEF unlink
<1>. HIDE DEF k, t
<1>4. \A j \in 1..(n - 1) : src(j) \in 1..n /\ src(j) # k /\ t[j] = l[src(j)]
  BY <1>1, <1>2, <1>3
<1>5. t \in Seq(Nat) /\ Len(t) = n - 1
  <2>1. n - 1 \in Nat /\ t = [j \in 1..(n - 1) |-> t[j]]
    BY <1>1, <1>2, <1>3
  <2>2. \A j \in 1..(n - 1) : t[j] \in Nat
    <3>. HIDE DEF src
    <3>. QED BY <1>4
  <2>. QED BY <2>1, <2>2, SeqLemma
<1>6. \A i, j \in 1..(n - 1) : src(i) = src(j) => i = j
  BY <1>1, <1>2
<1>7. ASSUME NEW i \in 1..n, i # k PROVE \E j \in 1..(n - 1) : src(j) = i
  <2>1. CASE i < k
    <3>1. i \in 1..(n - 1) /\ src(i) = i
      BY <1>1, <1>2, <2>1
    <3>. QED BY <3>1
  <2>2. CASE i > k
    <3>1. i - 1 \in 1..(n - 1) /\ src(i - 1) = i
      BY <1>1, <1>2, <2>2
    <3>. QED BY <3>1
  <2>. QED BY <1>2, <1>7, <2>1, <2>2
<1>. HIDE DEF src
<1>8. NoRepeat(t)
  <2>. SUFFICES ASSUME NEW i \in 1..(n - 1), NEW j \in 1..(n - 1), t[i] = t[j] PROVE i = j
    BY <1>5 DEF NoRepeat
  <2>1. src(i) \in 1..n /\ src(j) \in 1..n /\ l[src(i)] = l[src(j)]
    BY <1>4
  <2>2. src(i) = src(j)
    BY <2>1 DEF NoRepeat
  <2>. QED BY <1>6, <2>2
<1>9. ASSUME NEW a PROVE Holds(t, a) <=> Holds(l, a) /\ a # b
  <2>1. ASSUME Holds(t, a) PROVE Holds(l, a) /\ a # b
    <3>1. PICK j \in 1..(n - 1) : t[j] = a
      BY <1>5, <2>1 DEF Holds
    <3>. QED BY <1>2, <1>4, <3>1 DEF Holds, NoRepeat
  <2>2. ASSUME Holds(l, a), a # b PROVE Holds(t, a)
    <3>1. PICK i \in 1..n : l[i] = a
      BY <2>2 DEF Holds
    <3>2. PICK j \in 1..(n - 1) : src(j) = i
      BY <1>2, <1>7, <2>2, <3>1
    <3>. QED BY <1>4, <1>5, <3>1, <3>2 DEF Holds
  <2>. QED BY <2>1, <2>2
<1>. QED BY <1>5, <1>8, <1>9 DEF t

LEMMA PushLemma ==
  ASSUME NEW l \in Seq(Nat), NEW b \in Nat, ~ Holds(l, b), NoRepeat(l)
  PROVE  /\ <<b>> \o l \in Seq(Nat) /\ NoRepeat(<<b>> \o l) /\ Len(<<b>> \o l) = Len(l) + 1
         /\ \A a : Holds(<<b>> \o l, a) <=> Holds(l, a) \/ a = b
<1>. DEFINE n == Len(l)
            t == <<b>> \o l
<1>1. n \in Nat
  OBVIOUS
<1>2. /\ t \in Seq(Nat) /\ Len(t) = n + 1 /\ t[1] = b
      /\ \A i \in 2..(n + 1) : t[i] = l[i - 1]
  <2>1. <<b>> \in Seq(Nat) /\ Len(<<b>>) = 1 /\ <<b>>[1] = b
    OBVIOUS
  <2>2. t \in Seq(Nat)
    BY <2>1
  <2>3. Len(t) = 1 + n
    BY <2>1
  <2>4. t[1] = b
    BY <1>1, <2>1
  <2>5. \A i \in 2..(n + 1) : t[i] = l[i - 1]
    <3>. TAKE i \in 2..(n + 1)
    <3>1. i \in 1..(1 + n) /\ i > 1
      BY <1>1
    <3>. QED BY <2>1, <3>1
  <2>. QED BY <1>1, <2>2, <2>3, <2>4, <2>5
<1>. HIDE DEF t
<1>3. \A i \in 2..(n + 1) : i - 1 \in 1..n /\ t[i] # b
  <2>. TAKE i \in 2..(n + 1)
  <2>1. i - 1 \in 1..n
    BY <1>1
  <2>2. t[i] = l[i - 1]
    BY <1>2
  <2>. QED BY <2>1, <2>2 DEF Holds
<1>4. NoRepeat(t)
  <2>. SUFFICES ASSUME NEW i \in 1..(n + 1), NEW j \in 1..(n + 1), t[i] = t[j] PROVE i = j
    BY <1>2 DEF NoRepeat
  <2>1. (i = 1 \/ i \in 2..(n + 1)) /\ (j = 1 \/ j \in 2..(n + 1))
    BY <1>1
  <2>2. CASE i \in 2..(n + 1) /\ j \in 2..(n + 1)
    <3>1. i - 1 \in 1..n /\ j - 1 \in 1..n /\ l[i - 1] = l[j - 1]
      BY <1>2, <1>3, <2>2
    <3>2. i - 1 = j - 1
      BY <3>1 DEF NoRepeat
    <3>. QED BY <3>2
  <2>. QED BY <1>2, <1>3, <2>1, <2>2
<1>5. ASSUME NEW a PROVE Holds(t, a) <=> Holds(l, a) \/ a = b
  <2>1. ASSUME Holds(t, a) PROVE Holds(l, a) \/ a = b
    <3>1. PICK i \in 1..(n + 1) : t[i] = a
      BY <1>2, <2>1 DEF Holds
    <3>2. i = 1 \/ i \in 2..(n + 1)
      BY <1>1
    <3>. QED BY <1>2, <1>3, <3>1, <3>2 DEF Holds
  <2>2. ASSUME Holds(l, a) PROVE Holds(t, a)
    <3>1. PICK i \in 1..n : l[i] = a
      BY <2>2 DEF Holds
    <3>2. i + 1 \in 2..(n + 1) /\ i + 1 \in 1..(n + 1) /\ (i + 1) - 1 = i
      BY <1>1
    <3>. QED BY <1>2, <3>1, <3>2 DEF Holds
  <2>3. Holds(t, b)
    <3>1. 1 \in 1..(n + 1)
      BY <1>1
    <3>. QED BY <1>2, <3>1 DEF Holds
  <2>. QED BY <2>1, <2>2, <2>3
<1>. QED BY <1>2, <1>4, <1>5 DEF t

LEMMA OneLemma ==
  ASSUME NEW b \in Nat
  PROVE  /\ <<b>> \in Seq(Nat) /\ NoRepeat(<<b>>) /\ Len(<<b>>) = 1
         /\ \A a : Holds(<<b>>, a) <=> a = b
BY DEF NoRepeat, Holds

-----------------------------------------------------------------------------
(* The heap.                                                               *)

LEMMA OrdersLemma ==
  /\ MIN_ORDER \in Nat /\ MAX_ORDER \in Nat /\ MIN_ORDER \in Orders /\ MAX_ORDER \in Orders
  /\ \A o \in Orders : o \in Nat /\ MIN_ORDER <= o /\ o <= MAX_ORDER
  /\ HEAP_SIZE \in Nat \ {0} /\ HEAP_SIZE = BLOCKSIZE(MAX_ORDER)
<1>1. MIN_ORDER \in Nat /\ MAX_ORDER \in Nat /\ MIN_ORDER <= MAX_ORDER
  BY BuddyAssumption
<1>2. HEAP_SIZE = BLOCKSIZE(MAX_ORDER) /\ HEAP_SIZE \in Nat \ {0}
  BY <1>1, SizeLemma DEF HEAP_SIZE
<1>. QED BY <1>1, <1>2 DEF Orders

\* The heap is one block of the greatest order, at 0.
LEMMA HeapLemma ==
  ASSUME NEW x \in Nat
  PROVE  x < HEAP_SIZE <=> merged(x, MAX_ORDER) = 0
<1>1. MAX_ORDER \in Nat /\ HEAP_SIZE = BLOCKSIZE(MAX_ORDER) /\ HEAP_SIZE \in Nat
  BY OrdersLemma
<1>2. 0 * BLOCKSIZE(MAX_ORDER) = 0
  BY <1>1
<1>3. x < HEAP_SIZE => merged(x, MAX_ORDER) = 0
  BY <1>1, <1>2, MergedUnique
<1>4. merged(x, MAX_ORDER) = 0 => x < HEAP_SIZE
  BY <1>1, MergedIs
<1>. QED BY <1>3, <1>4

\* What shares a block with a byte of the heap is in the heap.
LEMMA InHeap ==
  ASSUME NEW x \in Nat, NEW c \in Nat, NEW o \in Orders,
         merged(x, o) = merged(c, o), c < HEAP_SIZE
  PROVE  x < HEAP_SIZE
<1>1. MAX_ORDER \in Nat /\ o \in Nat /\ o <= MAX_ORDER
  BY OrdersLemma
<1>2. merged(x, MAX_ORDER) = merged(c, MAX_ORDER)
  BY <1>1, Upwards
<1>. QED BY <1>2, HeapLemma

IsBlock(a, o) == a \in Nat /\ o \in Orders /\ merged(a, o) = a /\ a < HEAP_SIZE

LEMMA BlockEnds ==
  ASSUME NEW a, NEW o, IsBlock(a, o)
  PROVE  a + BLOCKSIZE(o) <= HEAP_SIZE
<1>. DEFINE b == BLOCKSIZE(o)
            x == a + (b - 1)
<1>1. o \in Nat /\ b \in Nat \ {0} /\ a \in Nat /\ HEAP_SIZE \in Nat
  BY OrdersLemma, SizeLemma DEF IsBlock
<1>. HIDE DEF b
<1>2. x \in Nat /\ a <= x /\ x < a + b
  BY <1>1
<1>3. merged(x, o) = a
  <2>. HIDE DEF x
  <2>. QED BY <1>1, <1>2, MergedSame DEF IsBlock, b
<1>4. x < HEAP_SIZE
  <2>. HIDE DEF x
  <2>. QED BY <1>2, <1>3, InHeap DEF IsBlock
<1>. QED BY <1>1, <1>4 DEF b

\* Blocks of the smallest order begin at the places, and so does every block.
LEMMA PlacesLemma ==
  \A x : x \in Places <=> x \in Nat /\ merged(x, MIN_ORDER) = x /\ x < HEAP_SIZE
<1>. DEFINE b == BLOCKSIZE(MIN_ORDER)
<1>1. b \in Nat \ {0} /\ MIN_ORDER \in Nat /\ MAX_ORDER \in Nat /\ MIN_ORDER <= MAX_ORDER
  BY OrdersLemma, SizeLemma
<1>2. PICK c \in Nat \ {0} : HEAP_SIZE = c * b
  BY <1>1, OrdersLemma, MultipleLemma
<1>. HIDE DEF b
<1>3. HEAP_SIZE \div b = c
  BY <1>1, <1>2
<1>4. Places = {i * b : i \in 0..(c - 1)}
  BY <1>3 DEF Places, b
<1>5. ASSUME NEW x \in Places
      PROVE  x \in Nat /\ merged(x, MIN_ORDER) = x /\ x < HEAP_SIZE
  <2>1. PICK i \in 0..(c - 1) : x = i * b
    BY <1>4
  <2>2. x \in Nat /\ i \in Nat
    BY <1>1, <2>1
  <2>3. merged(x, MIN_ORDER) = i * b
    BY <1>1, <2>1, <2>2, MergedUnique DEF b
  <2>4. (i + 1) * b <= c * b
    BY <1>1, <2>1
  <2>5. x + b = (i + 1) * b
    BY <1>1, <2>1
  <2>. QED BY <1>1, <1>2, <2>1, <2>2, <2>3, <2>4, <2>5
<1>6. ASSUME NEW x \in Nat, merged(x, MIN_ORDER) = x, x < HEAP_SIZE PROVE x \in Places
  <2>1. PICK i \in Nat : x = i * b
    BY <1>1, <1>6, MergedIs DEF b
  <2>2. i < c
    <3>1. ASSUME c <= i PROVE FALSE
      <4>1. c * b <= i * b
        BY <1>1, <3>1
      <4>. QED BY <1>1, <1>2, <1>6, <2>1, <4>1
    <3>. QED BY <3>1
  <2>3. i \in 0..(c - 1)
    BY <2>2
  <2>. QED BY <1>4, <2>1, <2>3
<1>. QED BY <1>5, <1>6

LEMMA BlockPlace ==
  ASSUME NEW a, NEW o, IsBlock(a, o)
  PROVE  a \in Places
<1>1. o \in Nat /\ MIN_ORDER \in Nat /\ MIN_ORDER <= o
  BY OrdersLemma DEF IsBlock
<1>2. merged(merged(a, o), MIN_ORDER) = merged(a, o)
  BY <1>1, MergedFiner DEF IsBlock
<1>. QED BY <1>2, PlacesLemma DEF IsBlock

LEMMA ChainBlocks ==
  ASSUME NEW c \in Nat, NEW q \in Orders, NEW top \in Orders, q <= top, c < HEAP_SIZE,
         NEW a, NEW o, InChain(a, o, c, q, top)
  PROVE  IsBlock(a, o) /\ merged(a, top) = merged(c, top) /\ o \in q..top
<1>0. q \in Nat /\ top \in Nat
  BY OrdersLemma
<1>1. o \in q..top
  BY <1>0 DEF InChain
<1>2. o \in Nat /\ o \in Orders
  BY <1>0, <1>1, OrdersLemma DEF Orders
<1>3. a \in Nat /\ merged(a, o) = a
  <2>1. CASE o = q /\ a = merged(c, q)
    BY <1>2, <2>1, MergedIs, MergedAgain
  <2>2. CASE o \in q..(top - 1) /\ a = sibling(c, o)
    <3>1. sibling(c, o) \in Nat /\ merged(sibling(c, o), o) = sibling(c, o)
      BY <1>2, SiblingLemma
    <3>. QED BY <2>2, <3>1
  <2>. QED BY <2>1, <2>2 DEF InChain
<1>4. InChain(merged(a, o), o, c, q, top)
  BY <1>3
<1>5. merged(a, top) = merged(c, top)
  BY <1>0, <1>3, <1>4, ChainInside
<1>6. a < HEAP_SIZE
  BY <1>3, <1>5, InHeap
<1>. QED BY <1>1, <1>2, <1>3, <1>5, <1>6 DEF IsBlock

-----------------------------------------------------------------------------
(* The invariant.                                                          *)

Header(order, is_free) == [order |-> order, is_free |-> is_free]

BuddyShape(m) ==
  /\ m = [free_lists |-> m.free_lists, header |-> m.header]
  /\ m.free_lists \in [Orders -> Seq(Nat)]
  /\ m.header \in [Places -> [order : Int, is_free : BOOLEAN]]

FreeOf(m) == {b \in Nat \X Orders : Holds(m.free_lists[b[2]], b[1])}

HeldOf(H) == {b \in Nat \X Orders : \E h \in H : h.at = b[1] /\ get_order(h.size) = b[2]}

\* A list holds each of its blocks once, and their headers say so.
ListsOK(m) ==
  \A o \in Orders :
    /\ NoRepeat(m.free_lists[o])
    /\ \A a \in Nat : Holds(m.free_lists[o], a) => IsBlock(a, o) /\ m.header[a] = Header(o, TRUE)

HeldOK(m, h) ==
  /\ h = [at |-> h.at, size |-> h.size] /\ h.size \in Nat \ {0}
  /\ IsBlock(h.at, get_order(h.size))
  /\ m.header[h.at] = Header(get_order(h.size), FALSE)
  /\ HEADER + h.size <= BLOCKSIZE(get_order(h.size))

\* A header that is not that of a block in use is free or overwritten: freeing
\* its block again changes nothing.
Stale(m, H) ==
  \A x \in Places : m.header[x] = Junk \/ m.header[x].is_free = TRUE \/ \E h \in H : h.at = x

\* No block is free whose buddy is free.
Whole(m) ==
  \A o \in Orders, a \in Nat :
    o < MAX_ORDER /\ Holds(m.free_lists[o], a) => ~ Holds(m.free_lists[o], GET_BUDDY(a, o))

BuddyOK(m, H) ==
  /\ BuddyShape(m) /\ ListsOK(m)
  /\ \A h \in H : HeldOK(m, h)
  /\ \A h, g \in H : h.at = g.at => h = g
  /\ Stale(m, H) /\ Whole(m)
  /\ Tiles(FreeOf(m) \cup HeldOf(H))

LEMMA SetsLemma ==
  ASSUME NEW m, NEW H
  PROVE  /\ \A a, o : <<a, o>> \in FreeOf(m) <=> /\ a \in Nat /\ o \in Orders
                                                 /\ Holds(m.free_lists[o], a)
         /\ \A a, o : <<a, o>> \in HeldOf(H) <=> /\ a \in Nat /\ o \in Orders
                                                 /\ \E h \in H : h.at = a /\ get_order(h.size) = o
BY DEF FreeOf, HeldOf

\* What get_order and the search for a list return.
LEMMA OrderLemma ==
  ASSUME NEW size \in Nat
  PROVE  /\ get_order(size) \in MIN_ORDER..(MAX_ORDER + 1)
         /\ get_order(size) \in Orders => BLOCKSIZE(get_order(size)) >= size + HEADER
<1>. DEFINE T == {o \in MIN_ORDER..(MAX_ORDER + 1) :
                    o = MAX_ORDER + 1 \/ BLOCKSIZE(o) >= size + HEADER}
<1>1. T \in SUBSET Nat /\ MAX_ORDER + 1 \in T
  BY OrdersLemma DEF Orders
<1>2. get_order(size) = Min(T)
  BY DEF get_order
<1>3. Min(T) \in T
  <2>. HIDE DEF T
  <2>. QED BY <1>1, LeastOf
<1>. QED BY <1>2, <1>3, OrdersLemma

LEMMA SourceLemma ==
  ASSUME NEW m, NEW order \in MIN_ORDER..(MAX_ORDER + 1)
  PROVE  LET top == source_order(m, order)
         IN  /\ top \in order..(MAX_ORDER + 1)
             /\ top <= MAX_ORDER => top \in Orders /\ order \in Orders /\ m.free_lists[top] # << >>
             /\ \A o \in order..(top - 1) : o \in Orders /\ m.free_lists[o] = << >>
<1>. DEFINE T == {o \in order..(MAX_ORDER + 1) : o = MAX_ORDER + 1 \/ m.free_lists[o] # << >>}
            top == source_order(m, order)
<1>0. MIN_ORDER \in Nat /\ MAX_ORDER \in Nat /\ order \in Nat
  BY OrdersLemma
<1>1. T \in SUBSET Nat /\ MAX_ORDER + 1 \in T
  BY <1>0
<1>2. top = Min(T)
  BY DEF source_order
<1>3. top \in T /\ \A o \in T : top <= o
  <2>. HIDE DEF T, top
  <2>. QED BY <1>1, <1>2, LeastOf
<1>. HIDE DEF top
<1>4. ASSUME NEW o \in order..(top - 1) PROVE o \in Orders /\ m.free_lists[o] = << >>
  <2>1. o \in Orders /\ o \in order..(MAX_ORDER + 1) /\ o # MAX_ORDER + 1
    BY <1>0, <1>3 DEF Orders
  <2>2. o \notin T
    BY <1>0, <1>3
  <2>. QED BY <2>1, <2>2
<1>5. top <= MAX_ORDER => top \in Orders /\ order \in Orders /\ m.free_lists[top] # << >>
  BY <1>0, <1>3 DEF Orders
<1>. QED BY <1>3, <1>4, <1>5 DEF top

\* What alloc_block and the program that fills its block leave behind.
LEMMA AllocIs ==
  ASSUME NEW m, BuddyShape(m), ListsOK(m), NEW order \in Orders,
         source_order(m, order) <= MAX_ORDER
  PROVE  LET top == source_order(m, order)
             b == m.free_lists[top][1]
             n == fill(alloc_block(m, order), b, order)
         IN  /\ top \in Orders /\ order <= top
             /\ IsBlock(b, top) /\ Holds(m.free_lists[top], b)
             /\ BuddyShape(n)
             /\ n.free_lists[top] = Tail(m.free_lists[top]) /\ m.free_lists[top] # << >>
             /\ \A o \in order..(top - 1) : /\ n.free_lists[o] = <<sibling(b, o)>>
                                            /\ m.free_lists[o] = << >>
             /\ \A o \in Orders : o \notin order..top => n.free_lists[o] = m.free_lists[o]
             /\ n.header[b] = Header(order, FALSE)
             /\ \A o \in order..(top - 1) : n.header[sibling(b, o)] = Header(o, TRUE)
             /\ \A x \in Places : merged(x, top) # b => n.header[x] = m.header[x]
             /\ \A x \in Places : \/ x = b \/ n.header[x] = Junk \/ n.header[x].is_free = TRUE
                                  \/ n.header[x] = m.header[x]
<1>. DEFINE top == source_order(m, order)
            b == m.free_lists[top][1]
            k == alloc_block(m, order)
            n == fill(k, b, order)
            split(a) == {o \in order..(top - 1) : a = b + BLOCKSIZE(o)}
            w == BLOCKSIZE(order)
<1>0. order \in Nat /\ MIN_ORDER <= order /\ order \in MIN_ORDER..(MAX_ORDER + 1)
  BY OrdersLemma
<1>1. /\ top \in Orders /\ order <= top /\ m.free_lists[top] # << >>
      /\ \A o \in order..(top - 1) : o \in Orders /\ m.free_lists[o] = << >>
  BY <1>0, SourceLemma
<1>2. /\ top \in Nat
      /\ \A o \in order..(top - 1) : o \in Nat /\ o + 1 \in Nat /\ o + 1 <= top /\ o <= top
  <2>1. top \in Nat
    BY <1>1, OrdersLemma
  <2>. HIDE DEF top
  <2>. QED BY <1>0, <2>1
<1>3. /\ k.free_lists = [o \in Orders |->
           IF o = top THEN Tail(m.free_lists[o])
           ELSE IF o \in order..(top - 1) THEN <<b + BLOCKSIZE(o)>> ELSE m.free_lists[o]]
      /\ k.header = [a \in Places |->
           IF a = b THEN Header(order, FALSE)
           ELSE IF split(a) # {} THEN Header(Min(split(a)), TRUE) ELSE m.header[a]]
      /\ k = [free_lists |-> k.free_lists, header |-> k.header]
  BY DEF alloc_block, Header
<1>4. /\ n.free_lists = k.free_lists
      /\ n.header = [x \in Places |-> IF b < x /\ x < b + w THEN Junk ELSE k.header[x]]
      /\ n = [free_lists |-> n.free_lists, header |-> n.header]
  <2>. DEFINE F == k.free_lists
              G == k.header
              J == [x \in Places |-> IF b < x /\ x < b + w THEN Junk ELSE k.header[x]]
  <2>1. k = [free_lists |-> F, header |-> G]
    BY <1>3
  <2>2. n = [k EXCEPT !.header = J]
    BY DEF fill
  <2>. HIDE DEF k, n, F, G, J
  <2>3. n = [free_lists |-> F, header |-> J]
    BY <2>1, <2>2
  <2>. QED BY <2>3 DEF F, J
<1>5. m.free_lists[top] \in Seq(Nat) /\ NoRepeat(m.free_lists[top])
  BY <1>1 DEF BuddyShape, ListsOK
<1>6. b \in Nat /\ Holds(m.free_lists[top], b) /\ Tail(m.free_lists[top]) \in Seq(Nat)
  BY <1>1, <1>5, TailLemma
<1>7. IsBlock(b, top)
  BY <1>1, <1>6 DEF ListsOK
<1>. HIDE DEF top, b, k, n
<1>8. merged(b, top) = b /\ b \in Places
  BY <1>7, BlockPlace DEF IsBlock
<1>9. \A o \in Nat : o <= top => merged(b, o) = b
  BY <1>2, <1>6, <1>8, MergedFiner
<1>10. ASSUME NEW o \in order..(top - 1)
       PROVE  /\ sibling(b, o) = b + BLOCKSIZE(o)
              /\ sibling(b, o) \in Nat /\ sibling(b, o) # b
              /\ merged(sibling(b, o), o) = sibling(b, o)
              /\ merged(sibling(b, o), top) = b /\ sibling(b, o) \in Places
              /\ InChain(sibling(b, o), o, b, order, top)
  <2>1. o \in Nat /\ o + 1 \in Nat /\ o + 1 <= top /\ o <= top
    BY <1>2
  <2>2. merged(b, o) = b /\ merged(b, o + 1) = b
    BY <1>9, <2>1
  <2>3. sibling(b, o) = b + BLOCKSIZE(o)
    BY <1>6, <2>1, <2>2, BuddyLemma DEF sibling
  <2>4. InChain(sibling(b, o), o, b, order, top)
    BY DEF InChain
  <2>5. IsBlock(sibling(b, o), o) /\ merged(sibling(b, o), top) = merged(b, top)
    BY <1>1, <1>7, <2>4, ChainBlocks DEF IsBlock
  <2>6. sibling(b, o) # b
    BY <1>6, <2>1, <2>2, SiblingLemma
  <2>. QED BY <1>8, <2>3, <2>4, <2>5, <2>6, BlockPlace DEF IsBlock
<1>11. ASSUME NEW o \in order..(top - 1)
       PROVE  split(sibling(b, o)) = {o}
  <2>1. ASSUME NEW p \in order..(top - 1), sibling(b, o) = b + BLOCKSIZE(p) PROVE p = o
    <3>1. sibling(b, o) = sibling(b, p)
      BY <1>10, <2>1
    <3>. DEFINE x == sibling(b, o)
    <3>2. /\ x \in Nat /\ InChain(merged(x, o), o, b, order, top)
          /\ InChain(merged(x, p), p, b, order, top)
      BY <1>10, <3>1
    <3>. QED BY <1>0, <1>1, <1>2, <1>6, <3>2, ChainApart
  <2>. QED BY <1>10, <2>1
<1>12. \A o \in Orders : n.free_lists[o] =
          IF o = top THEN Tail(m.free_lists[o])
          ELSE IF o \in order..(top - 1) THEN <<sibling(b, o)>> ELSE m.free_lists[o]
  BY <1>3, <1>4, <1>10
<1>13. \A x \in Places : n.header[x] =
          IF b < x /\ x < b + w THEN Junk
          ELSE IF x = b THEN Header(order, FALSE)
          ELSE IF split(x) # {} THEN Header(Min(split(x)), TRUE) ELSE m.header[x]
  <2>. HIDE DEF split, w
  <2>. QED BY <1>3, <1>4
<1>14. w \in Nat \ {0} /\ \A o \in order..(top - 1) : BLOCKSIZE(o) \in Nat /\ w <= BLOCKSIZE(o)
  <2>1. w \in Nat \ {0}
    BY <1>0, SizeLemma
  <2>2. ASSUME NEW o \in order..(top - 1) PROVE BLOCKSIZE(o) \in Nat /\ w <= BLOCKSIZE(o)
    <3>1. o \in Nat /\ order <= o
      BY <1>0, <1>2
    <3>2. PICK c \in Nat \ {0} : BLOCKSIZE(o) = c * w
      BY <1>0, <3>1, MultipleLemma
    <3>. HIDE DEF w
    <3>. QED BY <2>1, <3>2
  <2>. QED BY <2>1, <2>2
<1>. HIDE DEF w
<1>15. n.header[b] = Header(order, FALSE)
  <2>1. ~ (b < b)
    BY <1>6
  <2>. HIDE DEF split
  <2>. QED BY <1>8, <1>13, <2>1
<1>16. ASSUME NEW o \in order..(top - 1) PROVE n.header[sibling(b, o)] = Header(o, TRUE)
  <2>. DEFINE x == sibling(b, o)
  <2>1. x \in Places /\ x # b /\ x = b + BLOCKSIZE(o) /\ split(x) = {o}
    BY <1>10, <1>11
  <2>2. ~ (b < x /\ x < b + w)
    <3>. HIDE DEF x, split
    <3>. QED BY <1>6, <1>14, <2>1
  <2>3. Min({o}) = o
    <3>1. {o} \in SUBSET Nat /\ {o} # {}
      BY <1>2
    <3>. QED BY <3>1, LeastOf
  <2>. HIDE DEF x, split
  <2>. QED BY <1>13, <2>1, <2>2, <2>3 DEF x
<1>17. ASSUME NEW x \in Places, merged(x, top) # b PROVE n.header[x] = m.header[x]
  <2>1. x \in Nat
    BY PlacesLemma
  <2>2. x # b
    BY <1>8, <1>17
  <2>3. split(x) = {}
    <3>1. ASSUME NEW o \in split(x) PROVE FALSE
      BY <1>10, <1>17, <3>1
    <3>. QED BY <3>1
  <2>4. ~ (b < x /\ x < b + w)
    <3>1. ASSUME b < x, x < b + w PROVE FALSE
      <4>1. merged(b, order) = b
        BY <1>0, <1>1, <1>9
      <4>2. merged(x, order) = b
        BY <1>0, <1>6, <2>1, <3>1, <4>1, MergedSame DEF w
      <4>3. merged(x, top) = merged(b, top)
        BY <1>0, <1>1, <1>2, <1>6, <2>1, <4>1, <4>2, Upwards
      <4>. QED BY <1>8, <1>17, <4>3
    <3>. QED BY <3>1
  <2>. HIDE DEF split
  <2>. QED BY <1>13, <2>2, <2>3, <2>4
<1>18. ASSUME NEW x \in Places
       PROVE  x = b \/ n.header[x] = Junk \/ n.header[x].is_free = TRUE \/ n.header[x] = m.header[x]
  <2>. DEFINE h == n.header[x]
              s == Min(split(x))
  <2>1. h = Junk \/ x = b \/ h = Header(s, TRUE) \/ h = m.header[x]
    <3>. HIDE DEF split
    <3>. QED BY <1>13
  <2>2. h = Header(s, TRUE) => h.is_free = TRUE
    <3>. HIDE DEF h, s
    <3>. QED BY DEF Header
  <2>. QED BY <2>1, <2>2
<1>19. BuddyShape(n)
  <2>1. ASSUME NEW o \in Orders PROVE n.free_lists[o] \in Seq(Nat)
    <3>1. o \in order..(top - 1) => <<sibling(b, o)>> \in Seq(Nat)
      BY <1>10, OneLemma
    <3>2. m.free_lists[o] \in Seq(Nat)
      BY DEF BuddyShape
    <3>. QED BY <1>6, <1>12, <3>1, <3>2
  <2>2. ASSUME NEW x \in Places PROVE n.header[x] \in [order : Int, is_free : BOOLEAN]
    <3>1. m.header[x] \in [order : Int, is_free : BOOLEAN]
      BY DEF BuddyShape
    <3>2. split(x) # {} => Min(split(x)) \in Int
      <4>1. split(x) \in SUBSET Nat
        BY <1>2
      <4>. HIDE DEF split
      <4>. QED BY <4>1, LeastOf
    <3>. DEFINE s == Min(split(x))
    <3>3. Junk \in [order : Int, is_free : BOOLEAN]
      BY DEF Junk
    <3>4. Header(order, FALSE) \in [order : Int, is_free : BOOLEAN]
      BY <1>0 DEF Header
    <3>5. s \in Int => Header(s, TRUE) \in [order : Int, is_free : BOOLEAN]
      <4>. HIDE DEF s
      <4>. QED BY DEF Header
    <3>6. \/ n.header[x] \in {Junk, Header(order, FALSE), m.header[x]}
          \/ split(x) # {} /\ n.header[x] = Header(s, TRUE)
      <4>. HIDE DEF split
      <4>. QED BY <1>13
    <3>. HIDE DEF split, s
    <3>. QED BY <3>1, <3>2, <3>3, <3>4, <3>5, <3>6 DEF s
  <2>. QED BY <1>3, <1>4, <2>1, <2>2 DEF BuddyShape
<1>20. \A o : /\ o \in order..(top - 1) => o \in Orders /\ o # top
              /\ o \in Orders /\ o \notin order..top => o \notin order..(top - 1) /\ o # top
  BY <1>0, <1>1, <1>2
<1>21. /\ n.free_lists[top] = Tail(m.free_lists[top])
       /\ \A o \in order..(top - 1) : n.free_lists[o] = <<sibling(b, o)>>
       /\ \A o \in Orders : o \notin order..top => n.free_lists[o] = m.free_lists[o]
  BY <1>1, <1>12, <1>20
<1>. QED BY <1>1, <1>21, <1>6, <1>7, <1>12, <1>15, <1>16, <1>17, <1>18, <1>19 DEF top, b, k, n

\* buddy_kmalloc keeps the invariant, and hands out a block nobody holds.
LEMMA MallocStep ==
  ASSUME NEW m, NEW H, BuddyOK(m, H), NEW size \in Nat \ {0},
         source_order(m, get_order(size)) <= MAX_ORDER
  PROVE  LET order == get_order(size)
             b == m.free_lists[source_order(m, order)][1]
             n == fill(alloc_block(m, order), b, order)
         IN  /\ BuddyOK(n, H \cup {[at |-> b, size |-> size]})
             /\ \A h \in H : h.at # b
<1>. DEFINE order == get_order(size)
            top == source_order(m, order)
            b == m.free_lists[top][1]
            n == fill(alloc_block(m, order), b, order)
            new == [at |-> b, size |-> size]
            K == H \cup {new}
            S == FreeOf(m) \cup HeldOf(H)
            U == FreeOf(n) \cup HeldOf(K)
            Z == S \ {<<b, top>>}
<1>1. order \in Orders /\ BLOCKSIZE(order) >= size + HEADER /\ order \in Nat
  BY OrderLemma, SourceLemma, OrdersLemma
<1>2. /\ BuddyShape(m) /\ ListsOK(m) /\ (\A h \in H : HeldOK(m, h))
      /\ Stale(m, H) /\ Whole(m) /\ Tiles(S)
  BY DEF BuddyOK
<1>. HIDE DEF order
<1>3. /\ top \in Orders /\ order <= top
      /\ IsBlock(b, top) /\ Holds(m.free_lists[top], b)
      /\ BuddyShape(n)
      /\ n.free_lists[top] = Tail(m.free_lists[top]) /\ m.free_lists[top] # << >>
      /\ \A o \in order..(top - 1) : /\ n.free_lists[o] = <<sibling(b, o)>>
                                     /\ m.free_lists[o] = << >>
      /\ \A o \in Orders : o \notin order..top => n.free_lists[o] = m.free_lists[o]
      /\ n.header[b] = Header(order, FALSE)
      /\ \A o \in order..(top - 1) : n.header[sibling(b, o)] = Header(o, TRUE)
      /\ \A x \in Places : merged(x, top) # b => n.header[x] = m.header[x]
      /\ \A x \in Places : \/ x = b \/ n.header[x] = Junk \/ n.header[x].is_free = TRUE
                           \/ n.header[x] = m.header[x]
  <2>1. top <= MAX_ORDER
    BY DEF order
  <2>. QED BY <1>1, <1>2, <2>1, AllocIs
<1>. HIDE DEF top, b, n, S, U, Z
<1>4. top \in Nat /\ b \in Nat /\ b < HEAP_SIZE /\ merged(b, top) = b /\ b \in Places
  BY <1>3, OrdersLemma, BlockPlace DEF IsBlock
<1>5. merged(b, order) = b
  BY <1>1, <1>3, <1>4, MergedFiner
<1>6. IsBlock(b, order)
  BY <1>1, <1>4, <1>5 DEF IsBlock
<1>7. ASSUME NEW o \in order..(top - 1)
      PROVE  /\ o \in Orders /\ o # top /\ IsBlock(sibling(b, o), o)
             /\ sibling(b, o) \in Nat
             /\ GET_BUDDY(sibling(b, o), o) # sibling(b, o)
  <2>1. InChain(sibling(b, o), o, b, order, top)
    BY DEF InChain
  <2>2. IsBlock(sibling(b, o), o)
    BY <1>1, <1>3, <1>4, <2>1, ChainBlocks
  <2>3. o \in Nat /\ o # top
    BY <1>1, <1>4
  <2>. QED BY <2>2, <2>3, BuddyLemma DEF IsBlock
<1>23. ASSUME NEW o \in order..(top - 1)
       PROVE  /\ NoRepeat(n.free_lists[o])
              /\ \A a : Holds(n.free_lists[o], a) <=> a = sibling(b, o)
  <2>. DEFINE s == sibling(b, o)
              l == n.free_lists[o]
  <2>1. s \in Nat /\ l = <<s>>
    BY <1>3, <1>7
  <2>. HIDE DEF s, l
  <2>2. NoRepeat(l) /\ \A a : Holds(l, a) <=> a = s
    BY <2>1, OneLemma
  <2>. QED BY <2>2 DEF s, l
<1>8. \A h \in H : h.at # b
  <2>. SUFFICES ASSUME NEW h \in H, h.at = b PROVE FALSE
    OBVIOUS
  <2>1. m.header[b] = Header(get_order(h.size), FALSE)
    BY <1>2 DEF HeldOK
  <2>2. m.header[b] = Header(top, TRUE)
    BY <1>2, <1>3, <1>4 DEF ListsOK
  <2>. QED BY <2>1, <2>2 DEF Header
<1>9. ASSUME NEW a, NEW o
      PROVE  /\ <<a, o>> \in S <=> \/ a \in Nat /\ o \in Orders /\ Holds(m.free_lists[o], a)
                                   \/ /\ a \in Nat /\ o \in Orders
                                      /\ \E h \in H : h.at = a /\ get_order(h.size) = o
             /\ <<a, o>> \in U <=> \/ a \in Nat /\ o \in Orders /\ Holds(n.free_lists[o], a)
                                   \/ /\ a \in Nat /\ o \in Orders
                                      /\ \E h \in K : h.at = a /\ get_order(h.size) = o
             /\ <<a, o>> \in Z <=> <<a, o>> \in S /\ ~ (a = b /\ o = top)
  BY SetsLemma DEF S, U, Z
<1>10. /\ Tail(m.free_lists[top]) \in Seq(Nat) /\ NoRepeat(Tail(m.free_lists[top]))
       /\ \A a : Holds(Tail(m.free_lists[top]), a) <=> Holds(m.free_lists[top], a) /\ a # b
  <2>1. m.free_lists[top] \in Seq(Nat) /\ NoRepeat(m.free_lists[top])
    BY <1>2, <1>3 DEF BuddyShape, ListsOK
  <2>. QED BY <1>3, <2>1, TailLemma DEF b
<1>11. ASSUME NEW o \in Orders, NEW a
       PROVE  Holds(n.free_lists[o], a) <=>
                \/ o \in order..(top - 1) /\ a = sibling(b, o)
                \/ Holds(m.free_lists[o], a) /\ ~ (a = b /\ o = top)
  <2>1. CASE o = top
    <3>1. o \notin order..(top - 1)
      BY <1>7, <2>1
    <3>. QED BY <1>3, <1>10, <2>1, <3>1
  <2>2. CASE o \in order..(top - 1)
    <3>1. ~ Holds(m.free_lists[o], a)
      BY <1>3, <2>2 DEF Holds
    <3>2. Holds(n.free_lists[o], a) <=> a = sibling(b, o)
      BY <1>23, <2>2
    <3>. QED BY <2>2, <3>1, <3>2
  <2>3. CASE o \notin order..top
    <3>1. n.free_lists[o] = m.free_lists[o]
      BY <1>3, <2>3
    <3>2. o \notin order..(top - 1) /\ o # top
      BY <1>1, <1>3, <1>4, <2>3
    <3>. QED BY <3>1, <3>2
  <2>. QED BY <1>1, <1>4, <2>1, <2>2, <2>3
<1>12. \A a, o : <<a, o>> \in S <=> <<a, o>> \in Z \/ (a = merged(b, top) /\ o = top)
  BY <1>3, <1>4, <1>9
<1>13. <<merged(b, top), top>> \notin Z
  BY <1>4, <1>9
<1>14. \A a, o : <<a, o>> \in U <=> <<a, o>> \in Z \/ InChain(a, o, b, order, top)
  <2>. TAKE a, o
  <2>1. InChain(a, o, b, order, top) <=> \/ o = order /\ a = b
                                         \/ o \in order..(top - 1) /\ a = sibling(b, o)
    BY <1>5 DEF InChain
  <2>2. (\E h \in K : h.at = a /\ get_order(h.size) = o)
          <=> (\E h \in H : h.at = a /\ get_order(h.size) = o) \/ (a = b /\ o = order)
    <3>1. new \in K /\ new.at = b /\ get_order(new.size) = order
      BY DEF order
    <3>2. \A h : h \in K <=> h \in H \/ h = new
      OBVIOUS
    <3>. HIDE DEF new, K
    <3>. QED BY <3>1, <3>2
  <2>3. (\E h \in H : h.at = a /\ get_order(h.size) = o) => ~ (a = b /\ o = top)
    BY <1>8
  <2>4. <<a, o>> \in U <=> \/ /\ a \in Nat /\ o \in Orders
                              /\ \/ o \in order..(top - 1) /\ a = sibling(b, o)
                                 \/ Holds(m.free_lists[o], a) /\ ~ (a = b /\ o = top)
                           \/ /\ a \in Nat /\ o \in Orders
                              /\ \/ \E h \in H : h.at = a /\ get_order(h.size) = o
                                 \/ a = b /\ o = order
    <3>. HIDE DEF K
    <3>. QED BY <1>9, <1>11, <2>2
  <2>5. o \in order..(top - 1) /\ a = sibling(b, o) => a \in Nat /\ o \in Orders
    BY <1>7
  <2>6. a = b /\ o = order => a \in Nat /\ o \in Orders
    BY <1>1, <1>4
  <2>. QED BY <1>9, <2>1, <2>3, <2>4, <2>5, <2>6
<1>15. /\ Tiles(U)
       /\ \A x \in 0..(HEAP_SIZE - 1), o \in Orders :
            At(Z, x, o) => merged(x, top) # merged(b, top)
  BY <1>1, <1>2, <1>3, <1>4, <1>12, <1>13, <1>14, Divided
<1>16. ASSUME NEW a, NEW o, IsBlock(a, o), <<a, o>> \in Z
       PROVE  a \in Places /\ n.header[a] = m.header[a]
  <2>1. a \in 0..(HEAP_SIZE - 1) /\ o \in Orders /\ At(Z, a, o)
    BY <1>16, OrdersLemma DEF IsBlock, At
  <2>2. merged(a, top) # b
    BY <1>4, <1>15, <2>1
  <2>3. a \in Places
    BY <1>16, BlockPlace
  <2>. QED BY <1>3, <2>2, <2>3
<1>17. ListsOK(n)
  <2>. SUFFICES ASSUME NEW o \in Orders
                PROVE  /\ NoRepeat(n.free_lists[o])
                       /\ \A a \in Nat : Holds(n.free_lists[o], a)
                                           => IsBlock(a, o) /\ n.header[a] = Header(o, TRUE)
    BY DEF ListsOK
  <2>1. NoRepeat(n.free_lists[o])
    <3>1. NoRepeat(m.free_lists[o])
      BY <1>2 DEF ListsOK
    <3>2. o \in order..(top - 1) => NoRepeat(n.free_lists[o])
      BY <1>23
    <3>3. o = top \/ o \in order..(top - 1) \/ o \notin order..top
      BY <1>1, <1>4
    <3>. QED BY <1>3, <1>10, <3>1, <3>2, <3>3
  <2>2. ASSUME NEW a \in Nat, Holds(n.free_lists[o], a)
        PROVE  IsBlock(a, o) /\ n.header[a] = Header(o, TRUE)
    <3>1. CASE o \in order..(top - 1) /\ a = sibling(b, o)
      BY <1>3, <1>7, <3>1
    <3>2. CASE Holds(m.free_lists[o], a) /\ ~ (a = b /\ o = top)
      <4>1. IsBlock(a, o) /\ m.header[a] = Header(o, TRUE)
        BY <1>2, <3>2 DEF ListsOK
      <4>2. <<a, o>> \in Z
        BY <1>9, <3>2
      <4>. QED BY <1>16, <4>1, <4>2
    <3>. QED BY <1>11, <2>2, <3>1, <3>2
  <2>. QED BY <2>1, <2>2
<1>18. ASSUME NEW h \in K PROVE HeldOK(n, h)
  <2>1. CASE h \in H
    <3>1. HeldOK(m, h)
      BY <1>2, <2>1
    <3>2. IsBlock(h.at, get_order(h.size)) /\ h.at \in Nat /\ get_order(h.size) \in Orders
      BY <3>1 DEF HeldOK, IsBlock
    <3>3. <<h.at, get_order(h.size)>> \in Z
      <4>. DEFINE a == h.at
                  o == get_order(h.size)
      <4>1. a \in Nat /\ o \in Orders /\ a # b /\ \E g \in H : g.at = a /\ get_order(g.size) = o
        BY <1>8, <2>1, <3>2
      <4>. HIDE DEF a, o
      <4>2. <<a, o>> \in Z
        BY <1>9, <4>1
      <4>. QED BY <4>2 DEF a, o
    <3>4. n.header[h.at] = m.header[h.at]
      BY <1>16, <3>2, <3>3
    <3>. QED BY <3>1, <3>4 DEF HeldOK
  <2>2. CASE h = new
    <3>1. h.at = b /\ h.size = size /\ h = [at |-> h.at, size |-> h.size]
      BY <2>2
    <3>2. HEADER \in Nat /\ BLOCKSIZE(order) \in Nat
      <4>1. BLOCKSIZE(MIN_ORDER) \in Nat
        BY OrdersLemma, SizeLemma
      <4>. QED BY <1>1, <4>1, BuddyAssumption, SizeLemma
    <3>3. HEADER + size <= BLOCKSIZE(order)
      BY <1>1, <3>2
    <3>. HIDE DEF new
    <3>. QED BY <1>3, <1>6, <3>1, <3>3 DEF HeldOK, order
  <2>. QED BY <2>1, <2>2
<1>19. ASSUME NEW h \in K, NEW g \in K, h.at = g.at PROVE h = g
  BY <1>8, <1>19 DEF BuddyOK
<1>20. Stale(n, K)
  <2>. SUFFICES ASSUME NEW x \in Places
                PROVE  n.header[x] = Junk \/ n.header[x].is_free = TRUE \/ \E h \in K : h.at = x
    BY DEF Stale
  <2>1. m.header[x] = Junk \/ m.header[x].is_free = TRUE \/ \E h \in H : h.at = x
    BY <1>2 DEF Stale
  <2>2. x = b \/ n.header[x] = Junk \/ n.header[x].is_free = TRUE \/ n.header[x] = m.header[x]
    BY <1>3
  <2>3. CASE x = b
    <3>1. new \in K /\ new.at = x
      BY <2>3
    <3>. QED BY <3>1
  <2>4. CASE n.header[x] = m.header[x]
    BY <2>1, <2>4
  <2>. QED BY <2>2, <2>3, <2>4
<1>21. Whole(n)
  <2>. SUFFICES ASSUME NEW o \in Orders, NEW a \in Nat, o < MAX_ORDER, Holds(n.free_lists[o], a),
                       Holds(n.free_lists[o], GET_BUDDY(a, o))
                PROVE  FALSE
    BY DEF Whole
  <2>1. CASE o \in order..(top - 1)
    <3>1. \A c : Holds(n.free_lists[o], c) => c = sibling(b, o)
      BY <1>23, <2>1
    <3>. QED BY <1>7, <2>1, <3>1
  <2>2. CASE o \notin order..(top - 1)
    <3>1. Holds(m.free_lists[o], a) /\ Holds(m.free_lists[o], GET_BUDDY(a, o))
      BY <1>11, <2>2
    <3>. QED BY <1>2, <3>1 DEF Whole
  <2>. QED BY <2>1, <2>2
<1>22. BuddyOK(n, K)
  <2>. HIDE DEF K
  <2>. QED BY <1>3, <1>15, <1>17, <1>18, <1>19, <1>20, <1>21 DEF BuddyOK, U
<1>. QED BY <1>8, <1>22 DEF n, b, top, order

\* How n differs from m when the block of order q at a was freed, and has grown
\* to order top.
Freed(m, n, a, q, top) ==
  /\ top \in Orders /\ q <= top
  /\ \A o \in q..(top - 1) :
       /\ Holds(m.free_lists[o], sibling(a, o))
       /\ n.free_lists[o] = unlink(m.free_lists[o], sibling(a, o))
  /\ n.free_lists[top] = <<merged(a, top)>> \o m.free_lists[top]
  /\ \A o \in Orders : o \notin q..top => n.free_lists[o] = m.free_lists[o]
  /\ top < MAX_ORDER => ~ Holds(m.free_lists[top], sibling(a, top))
  /\ n = [free_lists |-> n.free_lists, header |-> n.header]
  /\ n.free_lists = [o \in Orders |-> n.free_lists[o]]
  /\ n.header \in [Places -> [order : Int, is_free : BOOLEAN]]
  /\ n.header[merged(a, top)] = Header(top, TRUE)
  /\ \A x \in Places : merged(x, top) # merged(a, top) => n.header[x] = m.header[x]
  /\ \A x \in Places : \/ n.header[x].is_free = TRUE
                       \/ x # a /\ n.header[x] = m.header[x]

\* What free_block leaves behind when it is called for a block in use.
LEMMA FreeIs ==
  ASSUME NEW m, BuddyShape(m), ListsOK(m), NEW a, NEW q, IsBlock(a, q),
         m.header[a] = Header(q, FALSE)
  PROVE  Freed(m, free_block(m, a), a, q, final_order(m, a))
<1>. DEFINE top == final_order(m, a)
            n == free_block(m, a)
            lists == unlink_buddies(m, a, top)
            grown(x) == {o \in (q + 1)..top : merged(a, o) = x}
            T == {o \in q..MAX_ORDER : ~ joins(m, a, o)}
            c == merged(a, top)
<1>0. /\ q \in Nat /\ q \in Orders /\ q <= MAX_ORDER /\ MAX_ORDER \in Nat /\ MIN_ORDER \in Nat
      /\ MIN_ORDER <= q
      /\ a \in Nat /\ a \in Places /\ merged(a, q) = a /\ a < HEAP_SIZE
  BY OrdersLemma, BlockPlace DEF IsBlock
<1>1. m.header[a].order = q /\ m.header[a].is_free = FALSE
  BY DEF Header
<1>2. top \in T /\ \A o \in T : top <= o
  <2>1. top = Min(T)
    BY <1>1 DEF final_order
  <2>2. T \in SUBSET Nat /\ MAX_ORDER \in T
    BY <1>0 DEF joins
  <2>. HIDE DEF T, top
  <2>. QED BY <2>1, <2>2, LeastOf
<1>. HIDE DEF top
<1>3. /\ top \in Orders /\ top \in Nat /\ q <= top /\ top <= MAX_ORDER /\ ~ joins(m, a, top)
      /\ \A o \in q..(top - 1) : /\ o \in Orders /\ o \in Nat /\ o # top /\ joins(m, a, o)
                                 /\ o < MAX_ORDER
  <2>1. top \in Orders /\ top \in Nat /\ q <= top /\ top <= MAX_ORDER /\ ~ joins(m, a, top)
    BY <1>0, <1>2 DEF Orders
  <2>2. ASSUME NEW o \in q..(top - 1)
        PROVE  o \in Orders /\ o \in Nat /\ o # top /\ joins(m, a, o) /\ o < MAX_ORDER
    <3>1. o \in q..MAX_ORDER /\ o < top /\ o \in Orders /\ o \in Nat /\ o < MAX_ORDER
      BY <1>0, <2>1 DEF Orders
    <3>2. o \notin T
      BY <1>2, <2>1, <3>1
    <3>. QED BY <3>1, <3>2
  <2>. QED BY <2>1, <2>2
<1>. HIDE DEF T
<1>4. \A o \in Orders : \A b : b \in ToSet(m.free_lists[o]) <=> Holds(m.free_lists[o], b)
  <2>. SUFFICES ASSUME NEW o \in Orders, NEW b
                PROVE  b \in ToSet(m.free_lists[o]) <=> Holds(m.free_lists[o], b)
    OBVIOUS
  <2>1. m.free_lists[o] \in Seq(Nat)
    BY DEF BuddyShape
  <2>2. DOMAIN m.free_lists[o] = 1..Len(m.free_lists[o])
    BY <2>1
  <2>. QED BY <2>2 DEF ToSet, Holds
<1>5. \A o \in q..(top - 1) : Holds(m.free_lists[o], sibling(a, o))
  BY <1>3, <1>4 DEF joins, sibling
<1>6. ASSUME top < MAX_ORDER, Holds(m.free_lists[top], sibling(a, top)) PROVE FALSE
  <2>1. sibling(a, top) \in Nat
    BY <1>0, <1>3, SiblingLemma
  <2>2. m.header[sibling(a, top)] = Header(top, TRUE)
    BY <1>3, <1>6, <2>1 DEF ListsOK
  <2>3. m.header[sibling(a, top)].is_free /\ m.header[sibling(a, top)].order = top
    BY <2>2 DEF Header
  <2>. QED BY <1>3, <1>4, <1>6, <2>3 DEF joins, sibling
<1>7. n = [free_lists |-> [lists EXCEPT ![top] = <<c>> \o @],
           header |-> [x \in Places |->
             IF grown(x) # {} THEN [order |-> Max(grown(x)), is_free |-> TRUE]
             ELSE IF x = a THEN [order |-> m.header[a].order, is_free |-> TRUE]
             ELSE m.header[x]]]
  BY <1>0, <1>1 DEF free_block, top
<1>8. \A o \in Orders : lists[o] = IF o \in q..(top - 1) THEN unlink(m.free_lists[o], sibling(a, o))
                                   ELSE m.free_lists[o]
  BY <1>1 DEF unlink_buddies, sibling
<1>9. lists = [o \in Orders |-> lists[o]]
  BY DEF unlink_buddies
<1>10. [order |-> m.header[a].order, is_free |-> TRUE] = Header(q, TRUE)
  BY <1>1 DEF Header
<1>11. /\ n = [free_lists |-> n.free_lists, header |-> n.header]
       /\ n.free_lists = [o \in Orders |-> n.free_lists[o]]
       /\ n.free_lists[top] = <<c>> \o lists[top]
       /\ \A o \in Orders : o # top => n.free_lists[o] = lists[o]
       /\ n.header = [x \in Places |->
            IF grown(x) # {} THEN Header(Max(grown(x)), TRUE)
            ELSE IF x = a THEN Header(q, TRUE) ELSE m.header[x]]
  <2>. DEFINE F == [lists EXCEPT ![top] = <<c>> \o @]
              G == [x \in Places |->
                      IF grown(x) # {} THEN Header(Max(grown(x)), TRUE)
                      ELSE IF x = a THEN Header(q, TRUE) ELSE m.header[x]]
  <2>1. n = [free_lists |-> F, header |-> G]
    <3>. HIDE DEF n, grown, lists, c
    <3>. QED BY <1>7, <1>10 DEF Header
  <2>2. F = [o \in Orders |-> F[o]] /\ F[top] = <<c>> \o lists[top]
        /\ \A o \in Orders : o # top => F[o] = lists[o]
    <3>. HIDE DEF lists, c
    <3>. QED BY <1>3, <1>9
  <2>. HIDE DEF n, F, G
  <2>3. n.free_lists = F /\ n.header = G /\ n = [free_lists |-> n.free_lists, header |-> n.header]
    BY <2>1
  <2>. QED BY <2>2, <2>3 DEF G
<1>. HIDE DEF n, lists
<1>12. /\ top \notin q..(top - 1)
       /\ \A o \in Orders : o \notin q..top => o # top /\ o \notin q..(top - 1)
  BY <1>0, <1>3
<1>13. /\ \A o \in q..(top - 1) : n.free_lists[o] = unlink(m.free_lists[o], sibling(a, o))
       /\ n.free_lists[top] = <<c>> \o m.free_lists[top]
       /\ \A o \in Orders : o \notin q..top => n.free_lists[o] = m.free_lists[o]
  BY <1>3, <1>8, <1>11, <1>12
<1>14. ASSUME NEW x \in Places
       PROVE  /\ grown(x) \in SUBSET (0..top)
              /\ grown(x) # {} => /\ Max(grown(x)) \in grown(x)
                                  /\ \A o \in grown(x) : Max(grown(x)) >= o
              /\ grown(x) # {} => n.header[x] = Header(Max(grown(x)), TRUE)
              /\ grown(x) = {} /\ x = a => n.header[x] = Header(q, TRUE)
              /\ grown(x) = {} /\ x # a => n.header[x] = m.header[x]
  <2>1. grown(x) \in SUBSET (0..top)
    BY <1>0, <1>3
  <2>. HIDE DEF grown
  <2>2. grown(x) # {} => Max(grown(x)) \in grown(x) /\ \A o \in grown(x) : Max(grown(x)) >= o
    BY <1>3, <2>1, GreatestOf
  <2>. QED BY <1>11, <2>1, <2>2
<1>15. c \in Places
  <2>1. c \in Nat /\ merged(c, top) = c /\ c <= a
    BY <1>0, <1>3, MergedIs, MergedAgain
  <2>2. c < HEAP_SIZE
    BY <1>0, <2>1, OrdersLemma
  <2>3. IsBlock(c, top)
    BY <1>3, <2>1, <2>2 DEF IsBlock
  <2>. QED BY <2>3, BlockPlace
<1>16. n.header[c] = Header(top, TRUE)
  <2>1. CASE top = q
    <3>1. c = a
      BY <1>0, <2>1
    <3>2. grown(a) = {}
      BY <1>0, <2>1
    <3>. HIDE DEF grown
    <3>. QED BY <1>14, <1>15, <2>1, <3>1, <3>2
  <2>2. CASE top # q
    <3>1. top \in grown(c)
      BY <1>0, <1>3, <2>2
    <3>2. Max(grown(c)) = top
      <4>1. Max(grown(c)) \in 0..top /\ Max(grown(c)) >= top
        <5>. HIDE DEF grown, c
        <5>. QED BY <1>14, <1>15, <3>1
      <4>. HIDE DEF grown, c
      <4>. QED BY <1>3, <4>1
    <3>. HIDE DEF grown, c
    <3>. QED BY <1>14, <1>15, <3>1, <3>2
  <2>. QED BY <2>1, <2>2
<1>17. ASSUME NEW x \in Places, merged(x, top) # merged(a, top) PROVE n.header[x] = m.header[x]
  <2>1. x # a
    BY <1>17
  <2>2. ASSUME NEW o \in grown(x) PROVE FALSE
    <3>1. o \in Nat /\ o <= top /\ x = merged(a, o)
      BY <1>0, <1>3, <2>2
    <3>2. merged(merged(a, o), top) = merged(a, top)
      BY <1>0, <1>3, <3>1, MergedCoarser
    <3>. QED BY <1>17, <3>1, <3>2
  <2>3. grown(x) = {}
    BY <2>2
  <2>. HIDE DEF grown
  <2>. QED BY <1>14, <2>1, <2>3
<1>18. ASSUME NEW x \in Places
       PROVE  n.header[x].is_free = TRUE \/ (x # a /\ n.header[x] = m.header[x])
  <2>. DEFINE h == n.header[x]
              s == Max(grown(x))
  <2>1. h = Header(s, TRUE) \/ h = Header(q, TRUE) \/ (x # a /\ h = m.header[x])
    <3>. HIDE DEF grown
    <3>. QED BY <1>14
  <2>2. (h = Header(s, TRUE) \/ h = Header(q, TRUE)) => h.is_free = TRUE
    <3>. HIDE DEF h, s
    <3>. QED BY DEF Header
  <2>. QED BY <2>1, <2>2
<1>19. n.header \in [Places -> [order : Int, is_free : BOOLEAN]]
  <2>1. n.header = [x \in Places |-> n.header[x]]
    <3>. HIDE DEF grown
    <3>. QED BY <1>11
  <2>2. ASSUME NEW x \in Places PROVE n.header[x] \in [order : Int, is_free : BOOLEAN]
    <3>. DEFINE s == Max(grown(x))
    <3>1. m.header[x] \in [order : Int, is_free : BOOLEAN]
      BY DEF BuddyShape
    <3>2. Header(q, TRUE) \in [order : Int, is_free : BOOLEAN]
      BY <1>0 DEF Header
    <3>3. s \in Int => Header(s, TRUE) \in [order : Int, is_free : BOOLEAN]
      <4>. HIDE DEF s
      <4>. QED BY DEF Header
    <3>4. \/ n.header[x] \in {Header(q, TRUE), m.header[x]}
          \/ s \in Int /\ n.header[x] = Header(s, TRUE)
      <4>1. grown(x) # {} => s \in 0..top
        <5>. HIDE DEF grown
        <5>. QED BY <1>14
      <4>2. s \in 0..top => s \in Int
        BY <1>3
      <4>3. \/ grown(x) # {} /\ n.header[x] = Header(s, TRUE)
            \/ n.header[x] = Header(q, TRUE)
            \/ n.header[x] = m.header[x]
        <5>. HIDE DEF grown
        <5>. QED BY <1>14
      <4>. HIDE DEF grown, s
      <4>. QED BY <4>1, <4>2, <4>3
    <3>. HIDE DEF s
    <3>. QED BY <3>1, <3>2, <3>3, <3>4
  <2>. QED BY <2>1, <2>2
<1>. QED BY <1>3, <1>5, <1>6, <1>11, <1>13, <1>16, <1>17, <1>18, <1>19 DEF Freed, top, n

\* buddy_kmm_free keeps the invariant.
LEMMA FreeStep ==
  ASSUME NEW m, NEW H, BuddyOK(m, H), NEW h \in H
  PROVE  BuddyOK(free_block(m, h.at), H \ {h})
<1>. DEFINE a == h.at
            q == get_order(h.size)
            top == final_order(m, a)
            n == free_block(m, a)
            c == merged(a, top)
            K == H \ {h}
            S == FreeOf(m) \cup HeldOf(H)
            U == FreeOf(n) \cup HeldOf(K)
            Z == {b \in S : ~ InChain(b[1], b[2], a, q, top)}
<1>1. /\ BuddyShape(m) /\ ListsOK(m) /\ (\A g \in H : HeldOK(m, g))
      /\ Stale(m, H) /\ Whole(m) /\ Tiles(S)
  BY DEF BuddyOK
<1>2. IsBlock(a, q) /\ m.header[a] = Header(q, FALSE)
  BY <1>1 DEF HeldOK
<1>3. q \in Orders /\ q \in Nat /\ a \in Nat /\ a < HEAP_SIZE /\ merged(a, q) = a
  BY <1>2, OrdersLemma DEF IsBlock
<1>4. \A g \in H : g.at = a <=> g = h
  BY DEF BuddyOK
<1>. HIDE DEF q, n, top
<1>5. /\ top \in Orders /\ q <= top
      /\ \A o \in q..(top - 1) :
           /\ Holds(m.free_lists[o], sibling(a, o))
           /\ n.free_lists[o] = unlink(m.free_lists[o], sibling(a, o))
      /\ n.free_lists[top] = <<c>> \o m.free_lists[top]
      /\ \A o \in Orders : o \notin q..top => n.free_lists[o] = m.free_lists[o]
      /\ top < MAX_ORDER => ~ Holds(m.free_lists[top], sibling(a, top))
      /\ n = [free_lists |-> n.free_lists, header |-> n.header]
      /\ n.free_lists = [o \in Orders |-> n.free_lists[o]]
      /\ n.header \in [Places -> [order : Int, is_free : BOOLEAN]]
      /\ n.header[c] = Header(top, TRUE)
      /\ \A x \in Places : merged(x, top) # c => n.header[x] = m.header[x]
      /\ \A x \in Places : \/ n.header[x].is_free = TRUE
                           \/ x # a /\ n.header[x] = m.header[x]
  <2>. HIDE DEF a
  <2>1. Freed(m, n, a, q, top)
    BY <1>1, <1>2, FreeIs DEF n, top
  <2>. QED BY <2>1 DEF Freed
<1>. HIDE DEF a, c, S, U, Z
<1>6. top \in Nat /\ c \in Nat /\ merged(c, top) = c /\ IsBlock(c, top)
  <2>1. top \in Nat /\ HEAP_SIZE \in Nat
    BY <1>5, OrdersLemma
  <2>2. c \in Nat /\ merged(c, top) = c /\ c <= a
    BY <1>3, <2>1, MergedIs, MergedAgain DEF c
  <2>3. c < HEAP_SIZE
    BY <1>3, <2>1, <2>2
  <2>. QED BY <1>5, <2>1, <2>2, <2>3 DEF IsBlock
<1>7. ASSUME NEW o \in q..(top - 1)
      PROVE  o \in Orders /\ o \in Nat /\ o # top /\ sibling(a, o) \in Nat
             /\ m.header[sibling(a, o)] = Header(o, TRUE)
  <2>1. o \in Orders /\ o \in Nat /\ o # top
    <3>1. MIN_ORDER \in Nat /\ MAX_ORDER \in Nat /\ MIN_ORDER <= q /\ top <= MAX_ORDER
      BY <1>3, <1>5, OrdersLemma
    <3>. QED BY <1>3, <1>6, <3>1 DEF Orders
  <2>2. sibling(a, o) \in Nat
    BY <1>3, <2>1, SiblingLemma
  <2>. QED BY <1>1, <1>5, <2>1, <2>2 DEF ListsOK
<1>8. ASSUME NEW x, NEW o
      PROVE  /\ <<x, o>> \in S <=> \/ x \in Nat /\ o \in Orders /\ Holds(m.free_lists[o], x)
                                   \/ /\ x \in Nat /\ o \in Orders
                                      /\ \E g \in H : g.at = x /\ get_order(g.size) = o
             /\ <<x, o>> \in U <=> \/ x \in Nat /\ o \in Orders /\ Holds(n.free_lists[o], x)
                                   \/ /\ x \in Nat /\ o \in Orders
                                      /\ \E g \in K : g.at = x /\ get_order(g.size) = o
             /\ <<x, o>> \in Z <=> <<x, o>> \in S /\ ~ InChain(x, o, a, q, top)
  <2>. HIDE DEF K
  <2>. QED BY SetsLemma DEF S, U, Z
<1>9. ASSUME NEW x, NEW o
      PROVE  InChain(x, o, a, q, top) <=> \/ o = q /\ x = a
                                          \/ o \in q..(top - 1) /\ x = sibling(a, o)
  BY <1>3 DEF InChain
<1>10. ~ Holds(m.free_lists[q], a)
  <2>1. Holds(m.free_lists[q], a) => m.header[a] = Header(q, TRUE)
    BY <1>1, <1>3 DEF ListsOK
  <2>. QED BY <1>2, <2>1 DEF Header
<1>11. ~ Holds(m.free_lists[top], c)
  <2>. SUFFICES ASSUME Holds(m.free_lists[top], c) PROVE FALSE
    OBVIOUS
  <2>1. <<c, top>> \in S
    BY <1>5, <1>6, <1>8
  <2>2. \E g \in H : g.at = a /\ get_order(g.size) = q
    BY DEF a, q
  <2>3. <<a, q>> \in S
    BY <1>3, <1>8, <2>2
  <2>4. At(S, a, top) /\ At(S, a, q)
    BY <1>3, <2>1, <2>3 DEF At, c
  <2>5. a \in 0..(HEAP_SIZE - 1)
    BY <1>3, OrdersLemma
  <2>6. top = q
    BY <1>1, <1>3, <1>5, <2>4, <2>5 DEF Tiles
  <2>. QED BY <1>3, <1>10, <2>6 DEF c
<1>12. ASSUME NEW o \in Orders
       PROVE  /\ n.free_lists[o] \in Seq(Nat) /\ NoRepeat(n.free_lists[o])
              /\ \A x : Holds(n.free_lists[o], x) <=>
                   \/ x = c /\ o = top
                   \/ Holds(m.free_lists[o], x) /\ ~ (o \in q..(top - 1) /\ x = sibling(a, o))
  <2>. DEFINE l == m.free_lists[o]
              s == sibling(a, o)
              k == n.free_lists[o]
  <2>1. l \in Seq(Nat) /\ NoRepeat(l)
    BY <1>1 DEF BuddyShape, ListsOK
  <2>2. CASE o = top
    <3>1. o \notin q..(top - 1)
      BY <1>7, <2>2
    <3>2. k = <<c>> \o l /\ ~ Holds(l, c)
      BY <1>5, <1>11, <2>2
    <3>. HIDE DEF l, k
    <3>3. k \in Seq(Nat) /\ NoRepeat(k) /\ \A x : Holds(k, x) <=> Holds(l, x) \/ x = c
      BY <1>6, <2>1, <3>2, PushLemma
    <3>. QED BY <2>2, <3>1, <3>3 DEF l, k
  <2>3. CASE o \in q..(top - 1)
    <3>1. o # top
      BY <1>7, <2>3
    <3>2. k = unlink(l, s) /\ Holds(l, s)
      BY <1>5, <2>3
    <3>. HIDE DEF l, k, s
    <3>3. k \in Seq(Nat) /\ NoRepeat(k) /\ \A x : Holds(k, x) <=> Holds(l, x) /\ x # s
      BY <2>1, <3>2, UnlinkLemma
    <3>. QED BY <2>3, <3>1, <3>3 DEF l, k, s
  <2>4. CASE o \notin q..top
    <3>1. o # top /\ o \notin q..(top - 1) /\ k = l
      BY <1>3, <1>5, <1>6, <2>4
    <3>. HIDE DEF l, k
    <3>. QED BY <2>1, <3>1 DEF l, k
  <2>5. o = top \/ o \in q..(top - 1) \/ o \notin q..top
    BY <1>3, <1>6
  <2>. QED BY <2>2, <2>3, <2>4, <2>5
<1>13. ASSUME NEW x, NEW o
       PROVE  (\E g \in K : g.at = x /\ get_order(g.size) = o)
                <=> /\ \E g \in H : g.at = x /\ get_order(g.size) = o
                    /\ ~ (o = q /\ x = a)
  <2>1. \A g : g \in K <=> g \in H /\ g.at # a
    BY <1>4
  <2>2. \A g \in H : g.at = a => get_order(g.size) = q
    BY <1>4 DEF q
  <2>. HIDE DEF K
  <2>. QED BY <2>1, <2>2
<1>14. ASSUME NEW x, NEW o \in q..(top - 1), x = sibling(a, o)
       PROVE  ~ \E g \in H : g.at = x /\ get_order(g.size) = o
  <2>. SUFFICES ASSUME NEW g \in H, g.at = x PROVE FALSE
    OBVIOUS
  <2>1. m.header[x] = Header(get_order(g.size), FALSE)
    BY <1>1 DEF HeldOK
  <2>2. m.header[x] = Header(o, TRUE)
    BY <1>7, <1>14
  <2>. QED BY <2>1, <2>2 DEF Header
<1>15. \A x, o : <<x, o>> \in S <=> <<x, o>> \in Z \/ InChain(x, o, a, q, top)
  <2>. SUFFICES ASSUME NEW x, NEW o, InChain(x, o, a, q, top) PROVE <<x, o>> \in S
    BY <1>8
  <2>1. CASE o = q /\ x = a
    <3>1. \E g \in H : g.at = x /\ get_order(g.size) = o
      BY <2>1 DEF a, q
    <3>. QED BY <1>3, <1>8, <2>1, <3>1
  <2>2. CASE o \in q..(top - 1) /\ x = sibling(a, o)
    BY <1>5, <1>7, <1>8, <2>2
  <2>. QED BY <1>9, <2>1, <2>2
<1>16. \A x, o : <<x, o>> \in Z => ~ InChain(x, o, a, q, top)
  BY <1>8
<1>17. \A x, o : <<x, o>> \in U <=> <<x, o>> \in Z \/ (x = merged(a, top) /\ o = top)
  <2>. TAKE x, o
  <2>. DEFINE inH == \E g \in H : g.at = x /\ get_order(g.size) = o
              inM == Holds(m.free_lists[o], x)
              one == o = q /\ x = a
              sib == o \in q..(top - 1) /\ x = sibling(a, o)
              end == x = c /\ o = top
              typ == x \in Nat /\ o \in Orders
  <2>1. <<x, o>> \in U <=> typ /\ (end \/ (inM /\ ~ sib) \/ (inH /\ ~ one))
    <3>1. <<x, o>> \in U <=> \/ typ /\ Holds(n.free_lists[o], x)
                             \/ typ /\ \E g \in K : g.at = x /\ get_order(g.size) = o
      BY <1>8
    <3>2. typ => (Holds(n.free_lists[o], x) <=> end \/ (inM /\ ~ sib))
      BY <1>12
    <3>3. (\E g \in K : g.at = x /\ get_order(g.size) = o) <=> inH /\ ~ one
      BY <1>13
    <3>. HIDE DEF K, inH, inM, one, sib, end
    <3>. QED BY <3>1, <3>2, <3>3
  <2>2. <<x, o>> \in Z <=> typ /\ (inM \/ inH) /\ ~ (one \/ sib)
    <3>1. <<x, o>> \in S <=> typ /\ (inM \/ inH)
      BY <1>8
    <3>2. InChain(x, o, a, q, top) <=> one \/ sib
      BY <1>9
    <3>3. <<x, o>> \in Z <=> <<x, o>> \in S /\ ~ InChain(x, o, a, q, top)
      BY <1>8
    <3>. HIDE DEF inH, inM, one, sib, typ
    <3>. QED BY <3>1, <3>2, <3>3
  <2>3. one => ~ inM
    BY <1>10
  <2>4. sib => ~ inH
    BY <1>14
  <2>5. end => typ
    BY <1>5, <1>6
  <2>6. (x = merged(a, top) /\ o = top) <=> end
    BY DEF c
  <2>. HIDE DEF inH, inM, one, sib, typ, end
  <2>. QED BY <2>1, <2>2, <2>3, <2>4, <2>5, <2>6
<1>18. /\ Tiles(U)
       /\ \A x \in 0..(HEAP_SIZE - 1), o \in Orders :
            At(Z, x, o) => merged(x, top) # merged(a, top)
  BY <1>1, <1>3, <1>5, <1>15, <1>16, <1>17, Joined
<1>19. ASSUME NEW x, NEW o, IsBlock(x, o), <<x, o>> \in Z PROVE n.header[x] = m.header[x]
  <2>1. x \in 0..(HEAP_SIZE - 1) /\ o \in Orders /\ At(Z, x, o)
    BY <1>19, OrdersLemma DEF IsBlock, At
  <2>2. merged(x, top) # c
    BY <1>18, <2>1 DEF c
  <2>3. x \in Places
    BY <1>19, BlockPlace
  <2>. QED BY <1>5, <2>2, <2>3
<1>20. ListsOK(n)
  <2>. SUFFICES ASSUME NEW o \in Orders, NEW x \in Nat, Holds(n.free_lists[o], x)
                PROVE  IsBlock(x, o) /\ n.header[x] = Header(o, TRUE)
    BY <1>12 DEF ListsOK
  <2>1. CASE x = c /\ o = top
    BY <1>5, <1>6, <2>1
  <2>2. CASE Holds(m.free_lists[o], x) /\ ~ (o \in q..(top - 1) /\ x = sibling(a, o))
    <3>1. IsBlock(x, o) /\ m.header[x] = Header(o, TRUE)
      BY <1>1, <2>2 DEF ListsOK
    <3>2. ~ (o = q /\ x = a)
      BY <1>10, <2>2
    <3>3. <<x, o>> \in Z
      BY <1>8, <1>9, <2>2, <3>2
    <3>. QED BY <1>19, <3>1, <3>3
  <2>. QED BY <1>12, <2>1, <2>2
<1>21. ASSUME NEW g \in K PROVE HeldOK(n, g)
  <2>. DEFINE x == g.at
              o == get_order(g.size)
  <2>1. g \in H /\ HeldOK(m, g) /\ x # a
    BY <1>1, <1>4
  <2>2. IsBlock(x, o) /\ m.header[x] = Header(o, FALSE) /\ x \in Nat /\ o \in Orders
    BY <2>1 DEF HeldOK, IsBlock
  <2>3. ~ InChain(x, o, a, q, top)
    <3>1. ASSUME o \in q..(top - 1), x = sibling(a, o) PROVE FALSE
      BY <1>14, <2>1, <3>1
    <3>. QED BY <1>9, <2>1, <3>1
  <2>4. \E e \in H : e.at = x /\ get_order(e.size) = o
    BY <2>1
  <2>. HIDE DEF x, o
  <2>5. <<x, o>> \in Z
    BY <1>8, <2>2, <2>3, <2>4
  <2>6. n.header[x] = m.header[x]
    BY <1>19, <2>2, <2>5
  <2>. QED BY <2>1, <2>6 DEF HeldOK, x
<1>22. \A g, e \in K : g.at = e.at => g = e
  BY DEF BuddyOK
<1>23. Stale(n, K)
  <2>. SUFFICES ASSUME NEW x \in Places
                PROVE  n.header[x] = Junk \/ n.header[x].is_free = TRUE \/ \E g \in K : g.at = x
    BY DEF Stale
  <2>1. m.header[x] = Junk \/ m.header[x].is_free = TRUE \/ \E g \in H : g.at = x
    BY <1>1 DEF Stale
  <2>2. n.header[x].is_free = TRUE \/ (x # a /\ n.header[x] = m.header[x])
    BY <1>5
  <2>3. x # a /\ (\E g \in H : g.at = x) => \E g \in K : g.at = x
    BY <1>4
  <2>. HIDE DEF K
  <2>. QED BY <2>1, <2>2, <2>3
<1>24. Whole(n)
  <2>. SUFFICES ASSUME NEW o \in Orders, NEW x \in Nat, o < MAX_ORDER, Holds(n.free_lists[o], x),
                       Holds(n.free_lists[o], GET_BUDDY(x, o))
                PROVE  FALSE
    BY DEF Whole
  <2>0. o \in Nat /\ IsBlock(x, o)
    BY <1>20, OrdersLemma DEF ListsOK
  <2>1. ~ (Holds(m.free_lists[o], x) /\ Holds(m.free_lists[o], GET_BUDDY(x, o)))
    BY <1>1 DEF Whole
  <2>2. GET_BUDDY(x, o) # x /\ GET_BUDDY(GET_BUDDY(x, o), o) = x
    BY <2>0, BuddyLemma DEF IsBlock
  <2>3. o = top /\ (x = c \/ GET_BUDDY(x, o) = c)
    BY <1>12, <2>1
  <2>4. sibling(a, top) = GET_BUDDY(c, top)
    BY DEF sibling, c
  <2>5. ~ Holds(m.free_lists[top], GET_BUDDY(c, top))
    BY <1>5, <2>3, <2>4
  <2>. QED BY <1>12, <2>2, <2>3, <2>5
<1>25. BuddyShape(n)
  <2>1. n.free_lists \in [Orders -> Seq(Nat)]
    BY <1>5, <1>12
  <2>. QED BY <1>5, <2>1 DEF BuddyShape
<1>26. BuddyOK(n, K)
  <2>. HIDE DEF K
  <2>. QED BY <1>18, <1>20, <1>21, <1>22, <1>23, <1>24, <1>25 DEF BuddyOK, U
<1>. QED BY <1>26 DEF n, a

\* A pointer that nobody holds any more has a header that is free or overwritten,
\* and free_block returns at once.
LEMMA FreeAgainIs ==
  ASSUME NEW m, NEW H, BuddyOK(m, H), NEW a \in Places, m.header[a] # Junk,
         \A h \in H : a < h.at \/ a >= h.at + BLOCKSIZE(get_order(h.size))
  PROVE  free_block(m, a) = m
<1>1. \A h \in H : h.at # a
  <2>. SUFFICES ASSUME NEW h \in H, h.at = a PROVE FALSE
    OBVIOUS
  <2>1. a \in Nat /\ get_order(h.size) \in Nat
    BY OrdersLemma DEF BuddyOK, HeldOK, IsBlock
  <2>2. BLOCKSIZE(get_order(h.size)) \in Nat \ {0}
    BY <2>1, SizeLemma
  <2>. QED BY <2>1, <2>2
<1>2. m.header[a].is_free = TRUE
  BY <1>1 DEF BuddyOK, Stale
<1>. QED BY <1>2 DEF free_block

\* The heap of buddy_kmm_init: one free block.
LEMMA BuddyInitIs == BuddyOK(buddy_kmm_init, {})
<1>. DEFINE m == buddy_kmm_init
            S == FreeOf(m) \cup HeldOf({})
<1>1. /\ MIN_ORDER \in Nat /\ MAX_ORDER \in Nat /\ MAX_ORDER \in Orders /\ HEAP_SIZE \in Nat \ {0}
  BY OrdersLemma
<1>2. merged(0, MAX_ORDER) = 0 /\ 0 \in Nat /\ 0 < HEAP_SIZE
  BY <1>1, HeapLemma
<1>3. IsBlock(0, MAX_ORDER) /\ 0 \in Places
  <2>1. IsBlock(0, MAX_ORDER)
    BY <1>1, <1>2 DEF IsBlock
  <2>. QED BY <2>1, BlockPlace
<1>4. /\ m = [free_lists |-> m.free_lists, header |-> m.header]
      /\ m.free_lists = [o \in Orders |-> IF o = MAX_ORDER THEN <<0>> ELSE << >>]
      /\ m.header = [a \in Places |-> IF a = 0 THEN Header(MAX_ORDER, TRUE) ELSE Junk]
  BY DEF buddy_kmm_init, Header
<1>. HIDE DEF m
<1>5. ASSUME NEW o \in Orders
      PROVE  /\ m.free_lists[o] \in Seq(Nat) /\ NoRepeat(m.free_lists[o])
             /\ \A a : Holds(m.free_lists[o], a) <=> o = MAX_ORDER /\ a = 0
  <2>1. CASE o = MAX_ORDER
    <3>1. m.free_lists[o] = <<0>>
      BY <1>4, <2>1
    <3>2. <<0>> \in Seq(Nat) /\ NoRepeat(<<0>>) /\ \A a : Holds(<<0>>, a) <=> a = 0
      BY OneLemma
    <3>. QED BY <2>1, <3>1, <3>2
  <2>2. CASE o # MAX_ORDER
    <3>1. m.free_lists[o] = << >>
      BY <1>4, <2>2
    <3>2. << >> \in Seq(Nat) /\ NoRepeat(<< >>) /\ \A a : ~ Holds(<< >>, a)
      BY DEF NoRepeat, Holds
    <3>. QED BY <2>2, <3>1, <3>2
  <2>. QED BY <2>1, <2>2
<1>6. BuddyShape(m)
  <2>1. m.free_lists \in [Orders -> Seq(Nat)]
    BY <1>4, <1>5
  <2>2. Header(MAX_ORDER, TRUE) \in [order : Int, is_free : BOOLEAN]
    BY <1>1 DEF Header
  <2>3. Junk \in [order : Int, is_free : BOOLEAN]
    BY DEF Junk
  <2>4. m.header \in [Places -> [order : Int, is_free : BOOLEAN]]
    BY <1>4, <2>2, <2>3
  <2>. QED BY <1>4, <2>1, <2>4 DEF BuddyShape
<1>7. m.header[0] = Header(MAX_ORDER, TRUE) /\ \A a \in Places : a # 0 => m.header[a] = Junk
  BY <1>3, <1>4
<1>8. ListsOK(m) /\ Whole(m)
  <2>1. ListsOK(m)
    BY <1>3, <1>5, <1>7 DEF ListsOK
  <2>2. ~ (MAX_ORDER < MAX_ORDER)
    BY <1>1
  <2>. QED BY <1>5, <2>1, <2>2 DEF Whole
<1>9. Stale(m, {})
  <2>1. m.header[0].is_free = TRUE
    BY <1>7 DEF Header
  <2>. QED BY <1>7, <2>1 DEF Stale
<1>10. \A a, o : <<a, o>> \in S <=> o = MAX_ORDER /\ a = 0
  <2>. TAKE a, o
  <2>1. <<a, o>> \in FreeOf(m) <=> a \in Nat /\ o \in Orders /\ Holds(m.free_lists[o], a)
    BY SetsLemma
  <2>2. <<a, o>> \notin HeldOf({})
    BY SetsLemma
  <2>3. a \in Nat /\ o \in Orders /\ Holds(m.free_lists[o], a) <=> o = MAX_ORDER /\ a = 0
    BY <1>1, <1>2, <1>5
  <2>. QED BY <2>1, <2>2, <2>3
<1>11. Tiles(S)
  <2>. HIDE DEF S
  <2>1. ASSUME NEW x \in 0..(HEAP_SIZE - 1)
        PROVE  /\ At(S, x, MAX_ORDER)
               /\ \A o, p \in Orders : At(S, x, o) /\ At(S, x, p) => o = p
    <3>1. merged(x, MAX_ORDER) = 0
      BY <1>1, HeapLemma
    <3>. QED BY <1>10, <3>1 DEF At
  <2>. QED BY <1>1, <2>1 DEF Tiles
<1>. QED BY <1>6, <1>8, <1>9, <1>11 DEF BuddyOK, m

\* Every step keeps the invariant.
LEMMA BuddyStep ==
  ASSUME BuddyOK(buddy, held), [BuddyNext]_buddyVars
  PROVE  BuddyOK(buddy, held)'
<1>. SUFFICES BuddyOK(buddy', held')
  BY DEF BuddyOK, BuddyShape, ListsOK, HeldOK, Stale, Whole, Tiles, At, FreeOf, HeldOf, Holds,
         NoRepeat, IsBlock, merged, GET_BUDDY, get_order
<1>1. CASE UNCHANGED buddyVars
  BY <1>1 DEF buddyVars
<1>2. ASSUME NEW size \in BuddySizes, BuddyMalloc(size) PROVE BuddyOK(buddy', held')
  <2>1. size \in Nat
    BY BuddyAssumption
  <2>2. get_order(size) \in MIN_ORDER..(MAX_ORDER + 1)
    BY <2>1, OrderLemma
  <2>3. source_order(buddy, get_order(size)) \in Nat /\ MAX_ORDER \in Nat
    <3>1. MIN_ORDER \in Nat /\ MAX_ORDER \in Nat
      BY OrdersLemma
    <3>. DEFINE order == get_order(size)
    <3>. HIDE DEF order
    <3>2. order \in MIN_ORDER..(MAX_ORDER + 1)
      BY <2>2 DEF order
    <3>3. source_order(buddy, order) \in order..(MAX_ORDER + 1)
      BY <3>2, SourceLemma
    <3>. QED BY <3>1, <3>2, <3>3 DEF order
  <2>4. size \in Nat \ {0} /\ source_order(buddy, get_order(size)) <= MAX_ORDER
    BY <1>2, <2>1, <2>3 DEF BuddyMalloc, Refused
  <2>. QED BY <1>2, <2>4, MallocStep DEF BuddyMalloc
<1>3. ASSUME NEW size \in BuddySizes, BuddyMallocNull(size) PROVE BuddyOK(buddy', held')
  BY <1>3 DEF BuddyMallocNull, buddyVars
<1>4. ASSUME NEW h \in held, BuddyFree(h) PROVE BuddyOK(buddy', held')
  BY <1>4, FreeStep DEF BuddyFree
<1>5. ASSUME NEW a \in Places, BuddyFreeAgain(a) PROVE BuddyOK(buddy', held')
  BY <1>5, FreeAgainIs DEF BuddyFreeAgain
<1>. QED BY <1>1, <1>2, <1>3, <1>4, <1>5 DEF BuddyNext

\* The invariant of buddy.c: the blocks in the lists and in use tile the heap,
\* the header of each says what it is, no header that a stale pointer could name
\* is one of a block in use, and no two buddies are both free.
THEOREM BuddyInvariance == BuddySpec => []BuddyOK(buddy, held)
<1>1. BuddyInit => BuddyOK(buddy, held)
  BY BuddyInitIs DEF BuddyInit
<1>2. BuddyOK(buddy, held) /\ [BuddyNext]_buddyVars => BuddyOK(buddy, held)'
  BY BuddyStep
<1>. QED BY <1>1, <1>2, PTL DEF BuddySpec

-----------------------------------------------------------------------------
(* What the invariant says of the heap.                                    *)

\* A block in a list or in use is one the heap can be cut into.
LEMMA BlocksOK ==
  ASSUME NEW m, NEW H, BuddyOK(m, H), NEW a, NEW o, <<a, o>> \in FreeOf(m) \cup HeldOf(H)
  PROVE  IsBlock(a, o)
<1>1. CASE <<a, o>> \in FreeOf(m)
  BY <1>1, SetsLemma DEF BuddyOK, ListsOK
<1>2. CASE <<a, o>> \in HeldOf(H)
  <2>1. PICK h \in H : h.at = a /\ get_order(h.size) = o
    BY <1>2, SetsLemma
  <2>. QED BY <2>1 DEF BuddyOK, HeldOK
<1>. QED BY <1>1, <1>2

\* A block is free or in use, not both: its header says which.
LEMMA FreeNotHeld ==
  ASSUME NEW m, NEW H, BuddyOK(m, H)
  PROVE  FreeOf(m) \cap HeldOf(H) = {}
<1>. SUFFICES ASSUME NEW b \in FreeOf(m) \cap HeldOf(H) PROVE FALSE
  OBVIOUS
<1>1. PICK a \in Nat, o \in Orders : b = <<a, o>>
  BY DEF FreeOf
<1>2. m.header[a] = Header(o, TRUE)
  BY <1>1, SetsLemma DEF BuddyOK, ListsOK
<1>3. PICK h \in H : h.at = a /\ get_order(h.size) = o
  BY <1>1, SetsLemma
<1>4. m.header[a] = Header(o, FALSE)
  BY <1>3 DEF BuddyOK, HeldOK
<1>. QED BY <1>2, <1>4 DEF Header

\* Different blocks have no byte in common.
LEMMA BlocksApart ==
  ASSUME NEW m, NEW H, BuddyOK(m, H), NEW a, NEW o, NEW b, NEW p,
         <<a, o>> \in FreeOf(m) \cup HeldOf(H), <<b, p>> \in FreeOf(m) \cup HeldOf(H),
         <<a, o>> # <<b, p>>
  PROVE  a + BLOCKSIZE(o) <= b \/ b + BLOCKSIZE(p) <= a
<1>. DEFINE S == FreeOf(m) \cup HeldOf(H)
            z == IF a <= b THEN b ELSE a
<1>1. IsBlock(a, o) /\ IsBlock(b, p)
  BY BlocksOK
<1>2. /\ a \in Nat /\ b \in Nat /\ o \in Orders /\ p \in Orders /\ o \in Nat /\ p \in Nat
      /\ merged(a, o) = a /\ merged(b, p) = b /\ a < HEAP_SIZE /\ b < HEAP_SIZE /\ HEAP_SIZE \in Nat
  BY <1>1, OrdersLemma DEF IsBlock
<1>3. BLOCKSIZE(o) \in Nat /\ BLOCKSIZE(p) \in Nat /\ BLOCKSIZE(o) > 0 /\ BLOCKSIZE(p) > 0
  BY <1>2, SizeLemma
<1>. SUFFICES ASSUME ~ (a + BLOCKSIZE(o) <= b), ~ (b + BLOCKSIZE(p) <= a) PROVE FALSE
  OBVIOUS
<1>4. /\ z \in Nat /\ z \in 0..(HEAP_SIZE - 1)
      /\ a <= z /\ z < a + BLOCKSIZE(o) /\ b <= z /\ z < b + BLOCKSIZE(p)
  BY <1>2, <1>3
<1>. HIDE DEF z
<1>5. merged(z, o) = a /\ merged(z, p) = b
  BY <1>2, <1>4, MergedSame
<1>6. At(S, z, o) /\ At(S, z, p)
  BY <1>5 DEF At
<1>7. Tiles(S)
  BY DEF BuddyOK
<1>. HIDE DEF S
<1>8. o = p
  BY <1>2, <1>4, <1>6, <1>7 DEF Tiles
<1>. QED BY <1>5, <1>8

LEMMA HeldApart ==
  ASSUME NEW m, NEW H, BuddyOK(m, H), NEW h \in H, NEW g \in H, h # g
  PROVE  \/ h.at + BLOCKSIZE(get_order(h.size)) <= g.at
         \/ g.at + BLOCKSIZE(get_order(g.size)) <= h.at
<1>. DEFINE a == h.at
            b == g.at
            o == get_order(h.size)
            p == get_order(g.size)
<1>1. a # b
  BY DEF BuddyOK
<1>2. a \in Nat /\ b \in Nat /\ o \in Orders /\ p \in Orders
  BY DEF BuddyOK, HeldOK, IsBlock
<1>3. /\ \E e \in H : e.at = a /\ get_order(e.size) = o
      /\ \E e \in H : e.at = b /\ get_order(e.size) = p
  OBVIOUS
<1>. HIDE DEF a, b, o, p
<1>4. <<a, o>> \in HeldOf(H) /\ <<b, p>> \in HeldOf(H) /\ <<a, o>> # <<b, p>>
  BY <1>1, <1>2, <1>3, SetsLemma
<1>5. a + BLOCKSIZE(o) <= b \/ b + BLOCKSIZE(p) <= a
  BY <1>4, BlocksApart
<1>. QED BY <1>5 DEF a, b, o, p

\* Where the bytes of an allocation are.
LEMMA HeldBytes ==
  ASSUME NEW m, NEW H, BuddyOK(m, H), NEW h \in H
  PROVE  /\ h.at \in Nat /\ h.size \in Nat \ {0} /\ HEADER \in Nat /\ HEAP_SIZE \in Nat
         /\ BLOCKSIZE(get_order(h.size)) \in Nat
         /\ HEADER + h.size <= BLOCKSIZE(get_order(h.size))
         /\ h.at + BLOCKSIZE(get_order(h.size)) <= HEAP_SIZE
<1>1. HeldOK(m, h)
  BY DEF BuddyOK
<1>2. h.at \in Nat /\ h.size \in Nat \ {0} /\ get_order(h.size) \in Orders
      /\ HEADER + h.size <= BLOCKSIZE(get_order(h.size))
  BY <1>1 DEF HeldOK, IsBlock
<1>3. get_order(h.size) \in Nat /\ HEAP_SIZE \in Nat /\ MIN_ORDER \in Nat
  BY <1>2, OrdersLemma
<1>4. BLOCKSIZE(get_order(h.size)) \in Nat /\ BLOCKSIZE(MIN_ORDER) \in Nat
  BY <1>3, SizeLemma
<1>5. HEADER \in Nat
  BY <1>4, BuddyAssumption
<1>6. h.at + BLOCKSIZE(get_order(h.size)) <= HEAP_SIZE
  BY <1>1, BlockEnds DEF HeldOK
<1>. QED BY <1>2, <1>3, <1>4, <1>5, <1>6

RegionOf(h) == [ptr |-> h.at + HEADER, size |-> h.size]

\* So the programs have different bytes, all of them in the heap.
LEMMA RegionsApart ==
  ASSUME NEW m, NEW H, BuddyOK(m, H), NEW h \in H, NEW g \in H, h # g
  PROVE  RegionOf(h) # RegionOf(g) /\ BuddyHeap!Disjoint(RegionOf(h), RegionOf(g))
<1>1. /\ h.at \in Nat /\ h.size \in Nat \ {0} /\ HEADER \in Nat
      /\ BLOCKSIZE(get_order(h.size)) \in Nat /\ HEADER + h.size <= BLOCKSIZE(get_order(h.size))
  BY HeldBytes
<1>2. /\ g.at \in Nat /\ g.size \in Nat \ {0}
      /\ BLOCKSIZE(get_order(g.size)) \in Nat /\ HEADER + g.size <= BLOCKSIZE(get_order(g.size))
  BY HeldBytes
<1>3. \/ h.at + BLOCKSIZE(get_order(h.size)) <= g.at
      \/ g.at + BLOCKSIZE(get_order(g.size)) <= h.at
  BY HeldApart
<1>4. \/ h.at + HEADER + h.size <= g.at + HEADER
      \/ g.at + HEADER + g.size <= h.at + HEADER
  BY <1>1, <1>2, <1>3
<1>5. BuddyHeap!Disjoint(RegionOf(h), RegionOf(g))
  BY <1>4 DEF RegionOf, BuddyHeap!Disjoint
<1>6. h.at + HEADER # g.at + HEADER
  BY <1>1, <1>2, <1>4
<1>. QED BY <1>5, <1>6 DEF RegionOf

LEMMA RegionOK ==
  ASSUME NEW m, NEW H, BuddyOK(m, H), NEW h \in H
  PROVE  /\ RegionOf(h) \in BuddyHeap!Region
         /\ RegionOf(h).ptr + RegionOf(h).size <= HEAP_SIZE
<1>. DEFINE w == BLOCKSIZE(get_order(h.size))
            p == h.at + HEADER
            s == h.size
<1>1. /\ h.at \in Nat /\ s \in Nat \ {0} /\ HEADER \in Nat /\ HEAP_SIZE \in Nat /\ w \in Nat
      /\ HEADER + s <= w /\ h.at + w <= HEAP_SIZE
  BY HeldBytes
<1>2. RegionOf(h) = [ptr |-> p, size |-> s]
  BY DEF RegionOf
<1>. HIDE DEF w
<1>3. p \in 0..HEAP_SIZE /\ s \in 1..HEAP_SIZE /\ p + s <= HEAP_SIZE
  BY <1>1
<1>. HIDE DEF p, s
<1>. QED BY <1>2, <1>3 DEF BuddyHeap!Region

\* buddy_kmalloc hands out bytes of the heap that nobody has.
LEMMA BuddyMallocRefines ==
  ASSUME BuddyOK(buddy, held), NEW size \in BuddySizes, BuddyMalloc(size), BuddyOK(buddy', held')
  PROVE  BuddyHeap!Next
<1>. DEFINE order == get_order(size)
            b == buddy.free_lists[source_order(buddy, order)][1]
            new == [at |-> b, size |-> size]
            r == RegionOf(new)
<1>1. held' = held \cup {new}
  BY DEF BuddyMalloc
<1>2. new \notin held
  <2>1. size \in Nat \ {0} /\ source_order(buddy, order) <= MAX_ORDER
    <3>1. size \in Nat
      BY BuddyAssumption
    <3>2. order \in MIN_ORDER..(MAX_ORDER + 1) /\ MIN_ORDER \in Nat /\ MAX_ORDER \in Nat
      BY <3>1, OrderLemma, OrdersLemma
    <3>3. size # 0 /\ ~ (source_order(buddy, order) > MAX_ORDER)
      BY DEF BuddyMalloc, Refused
    <3>. HIDE DEF order
    <3>4. source_order(buddy, order) \in order..(MAX_ORDER + 1)
      BY <3>2, SourceLemma
    <3>. QED BY <3>1, <3>2, <3>3, <3>4
  <2>2. \A h \in held : h.at # b
    BY <2>1, MallocStep
  <2>. QED BY <2>2
<1>. HIDE DEF new
<1>3. BuddyRegions = {RegionOf(h) : h \in held} /\ BuddyRegions' = {RegionOf(h) : h \in held'}
  BY DEF BuddyRegions, RegionOf
<1>4. BuddyRegions' = BuddyRegions \cup {r}
  BY <1>1, <1>3
<1>5. \A h \in held : RegionOf(h) # r /\ BuddyHeap!Disjoint(r, RegionOf(h))
  BY <1>1, <1>2, RegionsApart
<1>6. r \in BuddyHeap!Region /\ r.ptr + r.size <= HEAP_SIZE
  BY <1>1, RegionOK
<1>. HIDE DEF r
<1>7. r \in BuddyRegions' \ BuddyRegions
  BY <1>3, <1>4, <1>5
<1>8. \A other \in BuddyRegions : BuddyHeap!Disjoint(r, other)
  BY <1>3, <1>5
<1>9. BuddyHeap!Malloc(r)
  BY <1>4, <1>6, <1>8 DEF BuddyHeap!Malloc
<1>. QED BY <1>7, <1>9 DEF BuddyHeap!Next

\* buddy_kmm_free gives back one allocation, whole.
LEMMA BuddyFreeRefines ==
  ASSUME BuddyOK(buddy, held), NEW h \in held, BuddyFree(h)
  PROVE  BuddyHeap!Next
<1>1. held' = held \ {h}
  BY DEF BuddyFree
<1>2. BuddyRegions = {RegionOf(g) : g \in held} /\ BuddyRegions' = {RegionOf(g) : g \in held'}
  BY DEF BuddyRegions, RegionOf
<1>3. \A g \in held : g # h => RegionOf(g) # RegionOf(h)
  BY RegionsApart
<1>4. BuddyRegions' = BuddyRegions \ {RegionOf(h)} /\ RegionOf(h) \in BuddyRegions
  BY <1>1, <1>2, <1>3
<1>. QED BY <1>4 DEF BuddyHeap!Next, BuddyHeap!Free

\* What buddy_kmalloc and buddy_kmm_free do to the memory of the programs is what
\* a heap does: splitting and merging never hand out a byte that is in use, also
\* when a pointer is freed again.
THEOREM BuddyRefinesHeap == BuddySpec => BuddyImplementsHeap
<1>1. BuddyInit => BuddyHeap!Init
  BY DEF BuddyInit, BuddyHeap!Init, BuddyRegions
<1>2. BuddyOK(buddy, held) /\ BuddyOK(buddy, held)' /\ [BuddyNext]_buddyVars
        => [BuddyHeap!Next]_BuddyRegions
  <2>. SUFFICES ASSUME BuddyOK(buddy, held), BuddyOK(buddy', held'), [BuddyNext]_buddyVars
                PROVE  BuddyHeap!Next \/ BuddyRegions' = BuddyRegions
    BY DEF BuddyOK, BuddyShape, ListsOK, HeldOK, Stale, Whole, Tiles, At, FreeOf, HeldOf, Holds,
           NoRepeat, IsBlock, merged, GET_BUDDY, get_order
  <2>1. CASE held' = held
    BY <2>1 DEF BuddyRegions
  <2>2. ASSUME NEW size \in BuddySizes, BuddyMalloc(size) PROVE BuddyHeap!Next
    BY <2>2, BuddyMallocRefines
  <2>3. ASSUME NEW h \in held, BuddyFree(h) PROVE BuddyHeap!Next
    BY <2>3, BuddyFreeRefines
  <2>. QED BY <2>1, <2>2, <2>3 DEF BuddyNext, BuddyMallocNull, BuddyFreeAgain, buddyVars
<1>. QED BY <1>1, <1>2, BuddyInvariance, PTL DEF BuddySpec, BuddyImplementsHeap, BuddyHeap!Spec

\* The blocks in the lists and in use, as the properties name them.
LEMMA BlockSets ==
  ASSUME BuddyOK(buddy, held)
  PROVE  FreeBlocks = FreeOf(buddy) /\ HeldBlocks = HeldOf(held)
<1>1. ASSUME NEW o \in Orders
      PROVE  /\ \A a : a \in ToSet(buddy.free_lists[o]) <=> Holds(buddy.free_lists[o], a)
             /\ \A a : Holds(buddy.free_lists[o], a) => a \in Nat
  <2>1. buddy.free_lists[o] \in Seq(Nat)
    BY DEF BuddyOK, BuddyShape
  <2>2. DOMAIN buddy.free_lists[o] = 1..Len(buddy.free_lists[o])
    BY <2>1
  <2>3. \A i \in 1..Len(buddy.free_lists[o]) : buddy.free_lists[o][i] \in Nat
    BY <2>1
  <2>. QED BY <2>2, <2>3 DEF ToSet, Holds
<1>2. FreeBlocks = FreeOf(buddy)
  <2>1. ASSUME NEW b \in FreeBlocks PROVE b \in FreeOf(buddy)
    <3>1. PICK o \in Orders : \E a \in ToSet(buddy.free_lists[o]) : b = <<a, o>>
      BY DEF FreeBlocks
    <3>2. PICK a \in ToSet(buddy.free_lists[o]) : b = <<a, o>>
      BY <3>1
    <3>. QED BY <1>1, <3>2, SetsLemma
  <2>2. ASSUME NEW b \in FreeOf(buddy) PROVE b \in FreeBlocks
    <3>1. PICK a \in Nat, o \in Orders : b = <<a, o>>
      BY DEF FreeOf
    <3>2. a \in ToSet(buddy.free_lists[o])
      BY <1>1, <3>1, SetsLemma
    <3>. QED BY <3>1, <3>2 DEF FreeBlocks
  <2>. QED BY <2>1, <2>2
<1>3. HeldBlocks = HeldOf(held)
  <2>1. \A h \in held : h.at \in Nat /\ get_order(h.size) \in Orders
    BY DEF BuddyOK, HeldOK, IsBlock
  <2>. QED BY <2>1 DEF HeldBlocks, HeldOf
<1>. QED BY <1>2, <1>3

\* A piece of the heap that no block in use touches is inside one free block:
\* if it were cut, the smallest free block in it would lie beside its buddy.
LEMMA FreePiece ==
  ASSUME NEW m, NEW H, BuddyOK(m, H), NEW a, NEW o, IsBlock(a, o),
         \A x \in Nat, p \in Orders : merged(x, o) = a => ~ At(HeldOf(H), x, p)
  PROVE  \E p \in Orders : p >= o /\ \E x \in Nat : Holds(m.free_lists[p], x)
<1>. SUFFICES ASSUME \A p \in Orders, x \in Nat : p >= o => ~ Holds(m.free_lists[p], x)
              PROVE  FALSE
  OBVIOUS
<1>. DEFINE S == FreeOf(m) \cup HeldOf(H)
            T == {p \in Orders :
                    \E x \in Nat : merged(x, o) = a /\ Holds(m.free_lists[p], merged(x, p))}
<1>1. /\ o \in Nat /\ o \in Orders /\ a \in Nat /\ a < HEAP_SIZE /\ HEAP_SIZE \in Nat
      /\ merged(a, o) = a /\ MAX_ORDER \in Nat
  BY OrdersLemma DEF IsBlock
<1>2. ASSUME NEW x \in Nat, merged(x, o) = a
      PROVE  \E p \in Orders : Holds(m.free_lists[p], merged(x, p)) /\ At(S, x, p)
  <2>1. x < HEAP_SIZE
    BY <1>1, <1>2, InHeap
  <2>2. x \in 0..(HEAP_SIZE - 1)
    BY <1>1, <2>1
  <2>3. PICK p \in Orders : At(S, x, p)
    BY <2>2 DEF BuddyOK, Tiles
  <2>4. <<merged(x, p), p>> \in FreeOf(m)
    BY <1>2, <2>3 DEF At
  <2>. QED BY <2>3, <2>4, SetsLemma
<1>3. \A p \in Orders, x \in Nat : Holds(m.free_lists[p], merged(x, p)) => p < o /\ p \in Nat
  <2>. TAKE p \in Orders, x \in Nat
  <2>1. p \in Nat
    BY OrdersLemma
  <2>2. merged(x, p) \in Nat
    BY <2>1, MergedIs
  <2>. QED BY <1>1, <2>1, <2>2
<1>4. T \in SUBSET Nat /\ T # {}
  BY <1>1, <1>2, OrdersLemma
<1>5. PICK p \in T : \A r \in T : p <= r
  <2>. HIDE DEF T
  <2>. QED BY <1>4, LeastNatural
<1>6. PICK x \in Nat : merged(x, o) = a /\ Holds(m.free_lists[p], merged(x, p))
  OBVIOUS
<1>7. p \in Orders /\ p \in Nat /\ p + 1 \in Nat /\ p + 1 <= o /\ p < MAX_ORDER
  <2>1. p \in Orders
    OBVIOUS
  <2>2. p \in Nat /\ p < o /\ o <= MAX_ORDER
    BY <1>1, <1>3, <1>6, <2>1, OrdersLemma
  <2>. QED BY <1>1, <2>1, <2>2
<1>. DEFINE y == merged(x, p)
            s == sibling(x, p)
<1>8. /\ y \in Nat /\ s \in Nat /\ merged(s, p) = s /\ merged(s, p + 1) = merged(x, p + 1)
      /\ s = GET_BUDDY(y, p) /\ merged(y, p) = y
  BY <1>6, <1>7, SiblingLemma, MergedIs, MergedAgain DEF sibling
<1>9. merged(s, o) = a
  BY <1>1, <1>6, <1>7, <1>8, Upwards
<1>10. PICK r \in Orders : Holds(m.free_lists[r], merged(s, r)) /\ At(S, s, r)
  BY <1>2, <1>8, <1>9
<1>11. r \in T
  BY <1>8, <1>9, <1>10
<1>12. p <= r /\ r \in Nat /\ r < o
  BY <1>3, <1>5, <1>8, <1>10, <1>11
<1>13. CASE r = p
  <2>1. Holds(m.free_lists[p], y) /\ Holds(m.free_lists[p], GET_BUDDY(y, p))
    BY <1>6, <1>8, <1>10, <1>13
  <2>. QED BY <1>7, <1>8, <2>1 DEF BuddyOK, Whole
<1>14. CASE r # p
  <2>1. p + 1 <= r
    BY <1>7, <1>12, <1>14
  <2>2. merged(s, r) = merged(x, r)
    BY <1>7, <1>8, <1>12, <2>1, Upwards
  <2>3. At(S, x, r)
    BY <1>10, <2>2 DEF At
  <2>4. At(S, x, p)
    BY <1>6, <1>7, <1>8, SetsLemma DEF At
  <2>5. x \in 0..(HEAP_SIZE - 1)
    <3>1. x < HEAP_SIZE
      BY <1>1, <1>6, InHeap
    <3>. QED BY <1>1, <3>1
  <2>. HIDE DEF T
  <2>. QED BY <1>7, <1>14, <2>3, <2>4, <2>5 DEF BuddyOK, Tiles
<1>. QED BY <1>13, <1>14

\* buddy_kmalloc refuses a request only if no aligned piece of its order is free:
\* free_block merges as far as it can, in every order of frees.
THEOREM BuddyMergesAll == BuddySpec => []BuddyNoFragments
<1>1. BuddyOK(buddy, held) => BuddyNoFragments
  <2>. SUFFICES ASSUME BuddyOK(buddy, held), NEW o \in Orders, source_order(buddy, o) > MAX_ORDER,
                       NEW a \in Places, a % BLOCKSIZE(o) = 0
                PROVE  \E h \in HeldBlocks : /\ h[1] < a + BLOCKSIZE(o)
                                             /\ a < h[1] + BLOCKSIZE(h[2])
    BY DEF BuddyNoFragments
  <2>1. o \in Nat /\ o \in MIN_ORDER..(MAX_ORDER + 1) /\ MAX_ORDER \in Nat
    BY OrdersLemma
  <2>2. IsBlock(a, o)
    <3>1. a \in Nat /\ a < HEAP_SIZE
      BY PlacesLemma
    <3>2. merged(a, o) = a
      BY <3>1 DEF merged
    <3>. QED BY <3>1, <3>2 DEF IsBlock
  <2>3. \A p \in Orders : p >= o => \A x : ~ Holds(buddy.free_lists[p], x)
    <3>1. \A p \in o..(source_order(buddy, o) - 1) : buddy.free_lists[p] = << >>
      BY <2>1, SourceLemma
    <3>2. source_order(buddy, o) \in o..(MAX_ORDER + 1)
      BY <2>1, SourceLemma
    <3>3. source_order(buddy, o) - 1 = MAX_ORDER
      BY <2>1, <3>2
    <3>4. \A p \in Orders : p >= o => p \in o..MAX_ORDER
      BY <2>1, OrdersLemma DEF Orders
    <3>5. \A p \in Orders : p >= o => buddy.free_lists[p] = << >>
      BY <3>1, <3>3, <3>4
    <3>6. \A x : ~ Holds(<< >>, x)
      BY DEF Holds
    <3>. QED BY <3>5, <3>6
  <2>4. PICK x \in Nat, p \in Orders : merged(x, o) = a /\ At(HeldOf(held), x, p)
    BY <2>2, <2>3, FreePiece
  <2>. DEFINE b == merged(x, p)
  <2>5. <<b, p>> \in HeldBlocks
    BY <2>4, BlockSets DEF At
  <2>6. p \in Nat /\ BLOCKSIZE(p) \in Nat /\ BLOCKSIZE(o) \in Nat
    BY <2>1, OrdersLemma, SizeLemma
  <2>7. b \in Nat /\ b <= x /\ x < b + BLOCKSIZE(p) /\ a <= x /\ x < a + BLOCKSIZE(o) /\ a \in Nat
    BY <2>1, <2>2, <2>4, <2>6, MergedIs DEF IsBlock
  <2>. HIDE DEF b
  <2>8. b < a + BLOCKSIZE(o) /\ a < b + BLOCKSIZE(p)
    BY <2>6, <2>7
  <2>. QED BY <2>5, <2>8
<1>. QED BY <1>1, BuddyInvariance, PTL

-----------------------------------------------------------------------------
(* The sizes of the blocks add up to the heap.  They are counted in places, *)
(* the smallest blocks there can be.                                       *)

LEMMA CountApart ==
  ASSUME NEW S, NEW T, IsFiniteSet(S), IsFiniteSet(T), S \cap T = {}
  PROVE  /\ IsFiniteSet(S \cup T) /\ Cardinality(S) \in Nat /\ Cardinality(T) \in Nat
         /\ Cardinality(S \cup T) = Cardinality(S) + Cardinality(T)
<1>1. Cardinality(S) \in Nat /\ Cardinality(T) \in Nat
  BY FS_CardinalityType
<1>2. /\ IsFiniteSet(S \cup T)
      /\ Cardinality(S \cup T) = Cardinality(S) + Cardinality(T) - Cardinality(S \cap T)
  BY FS_Union
<1>3. Cardinality(S \cap T) = 0
  BY FS_EmptySet
<1>. QED BY <1>1, <1>2, <1>3

\* A block has as many places as its size says.
LEMMA PlacesOfBlock ==
  ASSUME NEW a, NEW o, IsBlock(a, o)
  PROVE  LET P == {x \in Places : merged(x, o) = a}
         IN  /\ IsFiniteSet(P) /\ Cardinality(P) \in Nat
             /\ Cardinality(P) * BLOCKSIZE(MIN_ORDER) = BLOCKSIZE(o)
<1>. DEFINE u == BLOCKSIZE(MIN_ORDER)
            P == {x \in Places : merged(x, o) = a}
<1>1. /\ a \in Nat /\ o \in Orders /\ o \in Nat /\ MIN_ORDER \in Nat /\ MIN_ORDER <= o
      /\ merged(a, o) = a /\ a < HEAP_SIZE
  BY OrdersLemma DEF IsBlock
<1>2. u \in Nat \ {0}
  BY <1>1, SizeLemma
<1>3. PICK c \in Nat \ {0} : BLOCKSIZE(o) = c * u
  BY <1>1, MultipleLemma
<1>4. PICK j \in Nat : a = j * u
  <2>1. merged(a, MIN_ORDER) = a
    BY BlockPlace, PlacesLemma
  <2>. QED BY <1>1, <2>1, MergedIs
<1>. HIDE DEF u
<1>. DEFINE f == [k \in 1..c |-> (j + (k - 1)) * u]
<1>5. ASSUME NEW k \in 1..c PROVE (j + (k - 1)) * u \in P
  <2>. DEFINE i == j + (k - 1)
              x == i * u
  <2>1. i \in Nat /\ j <= i /\ i + 1 <= j + c
    <3>1. k \in Int /\ 1 <= k /\ k <= c
      OBVIOUS
    <3>. QED BY <3>1
  <2>. HIDE DEF i
  <2>2. x \in Nat
    BY <1>2, <2>1
  <2>3. j * u <= i * u
    BY <1>2, <2>1
  <2>4. (i + 1) * u <= (j + c) * u
    BY <1>2, <2>1
  <2>5. (i + 1) * u = i * u + u /\ (j + c) * u = j * u + c * u
    BY <1>2, <2>1
  <2>6. a <= x /\ x < a + BLOCKSIZE(o)
    <3>1. j * u \in Nat /\ c * u \in Nat /\ i * u \in Nat
      BY <1>2, <2>1
    <3>. DEFINE ju == j * u
                cu == c * u
                iu == i * u
    <3>2. ju \in Nat /\ cu \in Nat /\ iu \in Nat /\ ju <= iu /\ iu + u <= ju + cu
      BY <2>3, <2>4, <2>5, <3>1
    <3>. HIDE DEF ju, cu, iu
    <3>3. ju <= iu /\ iu < ju + cu
      BY <1>2, <3>2
    <3>. QED BY <1>3, <1>4, <3>3 DEF ju, cu, iu
  <2>7. merged(x, o) = a
    <3>. HIDE DEF x
    <3>. QED BY <1>1, <2>2, <2>6, MergedSame
  <2>8. x < HEAP_SIZE
    <3>. HIDE DEF x
    <3>. QED BY <1>1, <2>2, <2>7, InHeap
  <2>9. merged(x, MIN_ORDER) = x
    <3>1. i * u <= x /\ x < i * u + u
      BY <1>2, <2>2
    <3>. QED BY <1>1, <2>1, <2>2, <3>1, MergedUnique DEF u
  <2>10. x \in Places
    <3>. HIDE DEF x
    <3>. QED BY <2>2, <2>8, <2>9, PlacesLemma
  <2>. QED BY <2>7, <2>10 DEF i
<1>6. ASSUME NEW x \in P PROVE \E k \in 1..c : f[k] = x
  <2>1. x \in Nat /\ merged(x, MIN_ORDER) = x /\ merged(x, o) = a
    BY PlacesLemma
  <2>2. PICK i \in Nat : x = i * u
    BY <1>1, <2>1, MergedIs DEF u
  <2>3. a <= x /\ x < a + BLOCKSIZE(o)
    BY <1>1, <2>1, MergedIs
  <2>4. j <= i
    <3>1. ASSUME i + 1 <= j PROVE FALSE
      <4>1. (i + 1) * u <= j * u
        BY <1>2, <3>1
      <4>2. (i + 1) * u = i * u + u
        BY <1>2
      <4>. QED BY <1>1, <1>2, <1>4, <2>1, <2>2, <2>3, <4>1, <4>2
    <3>. QED BY <3>1
  <2>5. i < j + c
    <3>1. ASSUME j + c <= i PROVE FALSE
      <4>1. (j + c) * u <= i * u
        BY <1>2, <3>1
      <4>2. (j + c) * u = j * u + c * u
        BY <1>2
      <4>3. BLOCKSIZE(o) \in Nat
        BY <1>1, SizeLemma
      <4>. QED BY <1>1, <1>2, <1>3, <1>4, <2>1, <2>2, <2>3, <4>1, <4>2, <4>3
    <3>. QED BY <3>1
  <2>6. (i - j) + 1 \in 1..c /\ j + (((i - j) + 1) - 1) = i
    BY <2>4, <2>5
  <2>. QED BY <2>2, <2>6
<1>7. ASSUME NEW k \in 1..c, NEW l \in 1..c, f[k] = f[l] PROVE k = l
  <2>. DEFINE y == j + (k - 1)
              z == j + (l - 1)
  <2>1. y * u = z * u
    BY <1>7
  <2>2. y \in Nat /\ z \in Nat
    OBVIOUS
  <2>3. y = z
    <3>. HIDE DEF y, z
    <3>1. ASSUME y + 1 <= z PROVE FALSE
      <4>1. (y + 1) * u <= z * u
        BY <1>2, <2>2, <3>1
      <4>2. (y + 1) * u = y * u + u
        BY <1>2, <2>2
      <4>3. y * u \in Nat
        BY <1>2, <2>2
      <4>. QED BY <1>2, <2>1, <4>1, <4>2, <4>3
    <3>2. ASSUME z + 1 <= y PROVE FALSE
      <4>1. (z + 1) * u <= y * u
        BY <1>2, <2>2, <3>2
      <4>2. (z + 1) * u = z * u + u
        BY <1>2, <2>2
      <4>3. z * u \in Nat
        BY <1>2, <2>2
      <4>. QED BY <1>2, <2>1, <4>1, <4>2, <4>3
    <3>. QED BY <2>2, <3>1, <3>2
  <2>. QED BY <2>3
<1>8. f \in [1..c -> P]
  <2>. HIDE DEF P
  <2>. QED BY <1>5
<1>. HIDE DEF f, P
<1>9. f \in Bijection(1..c, P)
  BY <1>6, <1>7, <1>8 DEF Bijection, Injection, Surjection, IsInjective
<1>10. ExistsBijection(1..c, P)
  BY <1>9 DEF ExistsBijection
<1>11. Cardinality(P) = c
  BY <1>10, FS_CountingElements
<1>12. IsFiniteSet(P)
  BY <1>10, FS_NatBijection
<1>. QED BY <1>3, <1>11, <1>12 DEF P, u

LEMMA PlacesCount ==
  /\ IsFiniteSet(Places) /\ Cardinality(Places) \in Nat
  /\ Cardinality(Places) * BLOCKSIZE(MIN_ORDER) = HEAP_SIZE
<1>1. IsBlock(0, MAX_ORDER)
  <2>1. MAX_ORDER \in Orders /\ HEAP_SIZE \in Nat \ {0}
    BY OrdersLemma
  <2>2. 0 \in Nat /\ 0 < HEAP_SIZE
    BY <2>1
  <2>. QED BY <2>1, <2>2, HeapLemma DEF IsBlock
<1>2. {x \in Places : merged(x, MAX_ORDER) = 0} = Places
  BY PlacesLemma, HeapLemma
<1>. QED BY <1>1, <1>2, PlacesOfBlock, OrdersLemma

\* The places in the blocks of one list.
LEMMA PlacesOfList ==
  ASSUME NEW l \in Seq(Nat), NoRepeat(l), NEW o \in Orders, \A i \in 1..Len(l) : IsBlock(l[i], o)
  PROVE  LET P == {x \in Places : Holds(l, merged(x, o))}
         IN  Cardinality(P) * BLOCKSIZE(MIN_ORDER) = Len(l) * BLOCKSIZE(o)
<1>. DEFINE u == BLOCKSIZE(MIN_ORDER)
            w == BLOCKSIZE(o)
            C(n) == {x \in Places : \E i \in 1..n : l[i] = merged(x, o)}
            T == {n \in Nat : n <= Len(l) => IsFiniteSet(C(n)) /\ Cardinality(C(n)) * u = n * w}
<1>0. u \in Nat /\ w \in Nat /\ Len(l) \in Nat
  BY OrdersLemma, SizeLemma
<1>1. 0 \in T
  <2>1. C(0) = {}
    OBVIOUS
  <2>2. IsFiniteSet(C(0)) /\ Cardinality(C(0)) = 0
    BY <2>1, FS_EmptySet
  <2>3. 0 * u = 0 /\ 0 * w = 0
    BY <1>0
  <2>. HIDE DEF C, u, w
  <2>. QED BY <2>2, <2>3
<1>2. ASSUME NEW n \in Nat, n \in T PROVE n + 1 \in T
  <2>. SUFFICES ASSUME n + 1 <= Len(l)
                PROVE  IsFiniteSet(C(n + 1)) /\ Cardinality(C(n + 1)) * u = (n + 1) * w
    OBVIOUS
  <2>. DEFINE P == {x \in Places : merged(x, o) = l[n + 1]}
  <2>1. IsFiniteSet(C(n)) /\ Cardinality(C(n)) * u = n * w
    BY <1>0, <1>2
  <2>2. n + 1 \in 1..Len(l)
    BY <1>0
  <2>3. IsFiniteSet(P) /\ Cardinality(P) \in Nat /\ Cardinality(P) * u = w
    BY <2>2, PlacesOfBlock
  <2>4. C(n) \cap P = {}
    <3>. SUFFICES ASSUME NEW x \in C(n), x \in P PROVE FALSE
      OBVIOUS
    <3>1. PICK i \in 1..n : l[i] = l[n + 1]
      OBVIOUS
    <3>2. i \in 1..Len(l) /\ i # n + 1
      BY <2>2
    <3>. QED BY <2>2, <3>1, <3>2 DEF NoRepeat
  <2>5. C(n + 1) = C(n) \cup P
    <3>1. \A i : i \in 1..(n + 1) <=> i \in 1..n \/ i = n + 1
      OBVIOUS
    <3>. QED BY <3>1
  <2>. HIDE DEF C, P, u, w
  <2>6. IsFiniteSet(C(n) \cup P) /\ Cardinality(C(n)) \in Nat
        /\ Cardinality(C(n) \cup P) = Cardinality(C(n)) + Cardinality(P)
    BY <2>1, <2>3, <2>4, CountApart
  <2>. DEFINE c == Cardinality(C(n))
              p == Cardinality(P)
  <2>7. c \in Nat /\ p \in Nat /\ c * u = n * w /\ p * u = w
    BY <2>1, <2>3, <2>6
  <2>. HIDE DEF c, p
  <2>8. (c + p) * u = c * u + p * u /\ (n + 1) * w = n * w + w
    BY <1>0, <2>7
  <2>9. (c + p) * u = (n + 1) * w
    BY <2>7, <2>8
  <2>. QED BY <2>5, <2>6, <2>9 DEF c, p
<1>3. Len(l) \in T
  <2>. HIDE DEF T
  <2>. QED BY <1>0, <1>1, <1>2, NatSet
<1>4. C(Len(l)) = {x \in Places : Holds(l, merged(x, o))}
  BY DEF Holds
<1>5. Cardinality(C(Len(l))) * u = Len(l) * w
  <2>. HIDE DEF C, u, w
  <2>. QED BY <1>0, <1>3
<1>. QED BY <1>4, <1>5

\* The places in free blocks of an order up to o.
FreePlaces(m, o) ==
  {x \in Places : \E p \in MIN_ORDER..o : Holds(m.free_lists[p], merged(x, p))}

LEMMA FreePlacesCount ==
  ASSUME NEW m, NEW H, BuddyOK(m, H), NEW o \in Orders
  PROVE  LET u == BLOCKSIZE(MIN_ORDER)
         IN  /\ Cardinality(FreePlaces(m, o)) \in Nat /\ Cardinality(FreePlaces(m, o - 1)) \in Nat
             /\ Cardinality(FreePlaces(m, o)) * u
                  = Cardinality(FreePlaces(m, o - 1)) * u + Len(m.free_lists[o]) * BLOCKSIZE(o)
<1>. DEFINE u == BLOCKSIZE(MIN_ORDER)
            l == m.free_lists[o]
            P == {x \in Places : Holds(l, merged(x, o))}
            F == FreePlaces(m, o - 1)
            S == FreeOf(m) \cup HeldOf(H)
<1>0. /\ u \in Nat /\ o \in Nat /\ MIN_ORDER \in Nat /\ MIN_ORDER <= o
      /\ o <= MAX_ORDER /\ MAX_ORDER \in Nat
  BY OrdersLemma, SizeLemma
<1>1. IsFiniteSet(P) /\ IsFiniteSet(F)
  <2>1. IsFiniteSet(Places)
    BY PlacesCount
  <2>2. P \in SUBSET Places /\ F \in SUBSET Places
    BY DEF FreePlaces
  <2>. HIDE DEF P, F
  <2>. QED BY <2>1, <2>2, FS_Subset
<1>2. Cardinality(P) * u = Len(l) * BLOCKSIZE(o)
  <2>1. l \in Seq(Nat) /\ NoRepeat(l)
    BY DEF BuddyOK, BuddyShape, ListsOK
  <2>2. \A i \in 1..Len(l) : l[i] \in Nat /\ Holds(l, l[i])
    <3>. HIDE DEF l
    <3>. QED BY <2>1 DEF Holds
  <2>3. \A i \in 1..Len(l) : IsBlock(l[i], o)
    BY <2>2 DEF BuddyOK, ListsOK
  <2>. HIDE DEF l
  <2>. QED BY <2>1, <2>3, PlacesOfList
<1>3. F \cap P = {}
  <2>. SUFFICES ASSUME NEW x \in F, x \in P PROVE FALSE
    OBVIOUS
  <2>1. x \in Nat /\ x \in 0..(HEAP_SIZE - 1)
    BY PlacesLemma, OrdersLemma
  <2>2. PICK p \in MIN_ORDER..(o - 1) : Holds(m.free_lists[p], merged(x, p))
    BY DEF FreePlaces
  <2>3. p \in Orders /\ p \in Nat /\ p # o
    BY <1>0 DEF Orders
  <2>4. merged(x, p) \in Nat /\ merged(x, o) \in Nat
    BY <1>0, <2>1, <2>3, MergedIs
  <2>5. At(S, x, p) /\ At(S, x, o)
    BY <2>2, <2>3, <2>4, SetsLemma DEF At
  <2>6. Tiles(S)
    BY DEF BuddyOK
  <2>. HIDE DEF S, F, P
  <2>. QED BY <2>1, <2>3, <2>5, <2>6 DEF Tiles
<1>4. FreePlaces(m, o) = F \cup P
  <2>1. \A p : p \in MIN_ORDER..o <=> p \in MIN_ORDER..(o - 1) \/ p = o
    BY <1>0
  <2>. QED BY <2>1 DEF FreePlaces
<1>. HIDE DEF u, P, F
<1>5. Cardinality(F) \in Nat /\ Cardinality(P) \in Nat
      /\ Cardinality(F \cup P) = Cardinality(F) + Cardinality(P)
  BY <1>1, <1>3, CountApart
<1>6. (Cardinality(F) + Cardinality(P)) * u = Cardinality(F) * u + Cardinality(P) * u
  BY <1>0, <1>5
<1>7. Cardinality(F) + Cardinality(P) \in Nat
  BY <1>5
<1>. QED BY <1>2, <1>4, <1>5, <1>6, <1>7 DEF u, F

\* The loop of buddy_kmm_mem_info.
Sums(m, f) ==
  f = [o \in (MIN_ORDER - 1)..MAX_ORDER |->
         IF o < MIN_ORDER THEN 0 ELSE f[o - 1] + Len(m.free_lists[o]) * BLOCKSIZE(o)]

\* It adds up the places in free blocks.
LEMMA FreeBytesIs ==
  ASSUME NEW m, NEW H, BuddyOK(m, H)
  PROVE  free_bytes(m) = Cardinality(FreePlaces(m, MAX_ORDER)) * BLOCKSIZE(MIN_ORDER)
<1>. DEFINE u == BLOCKSIZE(MIN_ORDER)
            D == (MIN_ORDER - 1)..MAX_ORDER
            G == [o \in D |-> Cardinality(FreePlaces(m, o)) * u]
            f == CHOOSE g : Sums(m, g)
<1>0. u \in Nat /\ MIN_ORDER \in Nat /\ MAX_ORDER \in Nat /\ MIN_ORDER <= MAX_ORDER
  BY OrdersLemma, SizeLemma
<1>1. G[MIN_ORDER - 1] = 0
  <2>1. FreePlaces(m, MIN_ORDER - 1) = {}
    <3>1. MIN_ORDER..(MIN_ORDER - 1) = {}
      BY <1>0
    <3>. QED BY <3>1 DEF FreePlaces
  <2>2. Cardinality(FreePlaces(m, MIN_ORDER - 1)) = 0
    BY <2>1, FS_EmptySet
  <2>3. MIN_ORDER - 1 \in D /\ 0 * u = 0
    BY <1>0
  <2>. HIDE DEF D, u
  <2>. QED BY <2>2, <2>3
<1>2. ASSUME NEW o \in Orders PROVE G[o] = G[o - 1] + Len(m.free_lists[o]) * BLOCKSIZE(o)
  <2>1. o \in D /\ o - 1 \in D
    BY <1>0 DEF Orders
  <2>2. Cardinality(FreePlaces(m, o)) * u
          = Cardinality(FreePlaces(m, o - 1)) * u + Len(m.free_lists[o]) * BLOCKSIZE(o)
    BY FreePlacesCount
  <2>. HIDE DEF D, u
  <2>. QED BY <2>1, <2>2
<1>3. \A o \in D : IF o < MIN_ORDER THEN o = MIN_ORDER - 1 ELSE o \in Orders
  BY <1>0 DEF Orders
<1>4. G = [o \in D |-> G[o]]
  OBVIOUS
<1>. HIDE DEF G
<1>5. Sums(m, G)
  <2>1. \A o \in D : G[o] = IF o < MIN_ORDER THEN 0
                            ELSE G[o - 1] + Len(m.free_lists[o]) * BLOCKSIZE(o)
    <3>. HIDE DEF D
    <3>. QED BY <1>1, <1>2, <1>3
  <2>. QED BY <1>4, <2>1 DEF Sums
<1>6. Sums(m, f)
  BY <1>5
<1>7. free_bytes(m) = f[MAX_ORDER]
  BY DEF free_bytes, Sums
<1>. HIDE DEF f
<1>8. \A o \in D : f[o] = IF o < MIN_ORDER THEN 0
                          ELSE f[o - 1] + Len(m.free_lists[o]) * BLOCKSIZE(o)
  BY <1>6 DEF Sums
<1>. DEFINE T == {n \in Nat : (MIN_ORDER - 1) + n \in D
                    => f[(MIN_ORDER - 1) + n] = G[(MIN_ORDER - 1) + n]}
<1>9. 0 \in T
  <2>1. (MIN_ORDER - 1) + 0 = MIN_ORDER - 1 /\ MIN_ORDER - 1 \in D /\ MIN_ORDER - 1 < MIN_ORDER
    BY <1>0
  <2>2. f[MIN_ORDER - 1] = 0
    <3>. HIDE DEF D
    <3>. QED BY <1>8, <2>1
  <2>. QED BY <1>1, <2>1, <2>2
<1>10. ASSUME NEW n \in Nat, n \in T PROVE n + 1 \in T
  <2>. DEFINE o == (MIN_ORDER - 1) + (n + 1)
  <2>. SUFFICES ASSUME o \in D PROVE f[o] = G[o]
    OBVIOUS
  <2>1. o - 1 = (MIN_ORDER - 1) + n /\ o - 1 \in D /\ o \in Orders /\ ~ (o < MIN_ORDER)
    BY <1>0 DEF Orders
  <2>2. f[o - 1] = G[o - 1]
    BY <1>10, <2>1
  <2>3. f[o] = f[o - 1] + Len(m.free_lists[o]) * BLOCKSIZE(o)
    <3>. HIDE DEF D, o
    <3>. QED BY <1>8, <2>1
  <2>. HIDE DEF o
  <2>. QED BY <1>2, <2>1, <2>2, <2>3
<1>11. Nat \subseteq T
  <2>. HIDE DEF T
  <2>. QED BY <1>9, <1>10, NatSet
<1>12. f[MAX_ORDER] = G[MAX_ORDER]
  <2>. DEFINE n == (MAX_ORDER - MIN_ORDER) + 1
  <2>1. n \in Nat /\ (MIN_ORDER - 1) + n = MAX_ORDER /\ MAX_ORDER \in D
    BY <1>0
  <2>2. n \in T
    BY <1>11, <2>1
  <2>. HIDE DEF n, D
  <2>. QED BY <2>1, <2>2
<1>13. MAX_ORDER \in D
  BY <1>0
<1>. QED BY <1>7, <1>12, <1>13 DEF G

\* Splitting and merging lose nothing: free and used blocks do not overlap, no
\* list has a block twice, and what buddy_kmm_mem_info calls free is what is not
\* in use.
THEOREM BuddyPartitions == BuddySpec => []BuddyPartition
<1>1. BuddyOK(buddy, held) => BuddyPartition
  <2>. SUFFICES ASSUME BuddyOK(buddy, held) PROVE BuddyPartition
    OBVIOUS
  <2>0. FreeBlocks = FreeOf(buddy) /\ HeldBlocks = HeldOf(held)
    BY BlockSets
  <2>1. ASSUME NEW o \in Orders
        PROVE  Cardinality(ToSet(buddy.free_lists[o])) = Len(buddy.free_lists[o])
    <3>. DEFINE l == buddy.free_lists[o]
                n == Len(l)
    <3>1. l \in Seq(Nat) /\ NoRepeat(l)
      BY DEF BuddyOK, BuddyShape, ListsOK
    <3>. HIDE DEF l
    <3>2. n \in Nat /\ DOMAIN l = 1..n /\ l = [i \in 1..n |-> l[i]]
      BY <3>1
    <3>3. ToSet(l) = {l[i] : i \in 1..n}
      BY <3>2 DEF ToSet
    <3>4. l \in [1..n -> ToSet(l)]
      BY <3>2, <3>3
    <3>5. l \in Bijection(1..n, ToSet(l))
      BY <3>1, <3>3, <3>4 DEF Bijection, Injection, Surjection, IsInjective, NoRepeat
    <3>6. ExistsBijection(1..n, ToSet(l))
      BY <3>5 DEF ExistsBijection
    <3>. HIDE DEF n
    <3>7. Cardinality(ToSet(l)) = n
      BY <3>2, <3>6, FS_CountingElements
    <3>. QED BY <3>7 DEF l, n
  <2>2. FreeBlocks \cap HeldBlocks = {}
    BY <2>0, FreeNotHeld
  <2>3. ASSUME NEW b \in FreeBlocks \cup HeldBlocks, NEW c \in FreeBlocks \cup HeldBlocks, b # c
        PROVE  b[1] + BLOCKSIZE(b[2]) <= c[1] \/ c[1] + BLOCKSIZE(c[2]) <= b[1]
    <3>1. b = <<b[1], b[2]>> /\ c = <<c[1], c[2]>>
      BY <2>0 DEF FreeOf, HeldOf
    <3>2. /\ <<b[1], b[2]>> \in FreeOf(buddy) \cup HeldOf(held)
          /\ <<c[1], c[2]>> \in FreeOf(buddy) \cup HeldOf(held)
          /\ <<b[1], b[2]>> # <<c[1], c[2]>>
      BY <2>0, <2>3, <3>1
    <3>. QED BY <3>2, BlocksApart
  <2>4. free_bytes(buddy) + Cardinality(HeldPlaces) * BLOCKSIZE(MIN_ORDER) = HEAP_SIZE
    <3>. DEFINE u == BLOCKSIZE(MIN_ORDER)
                F == FreePlaces(buddy, MAX_ORDER)
                S == FreeOf(buddy) \cup HeldOf(held)
    <3>1. \A x \in Places : x \in F <=> \E p \in Orders : At(FreeOf(buddy), x, p)
      <4>. TAKE x \in Places
      <4>1. x \in Nat
        BY PlacesLemma
      <4>2. \A p \in Orders : merged(x, p) \in Nat
        BY <4>1, MergedIs, OrdersLemma
      <4>. QED BY <4>2, SetsLemma DEF FreePlaces, At, Orders
    <3>2. \A x \in Places : x \in HeldPlaces <=> \E p \in Orders : At(HeldOf(held), x, p)
      <4>. TAKE x \in Places
      <4>1. x \in Nat
        BY PlacesLemma
      <4>2. ASSUME NEW b \in HeldBlocks, b[1] <= x, x < b[1] + BLOCKSIZE(b[2])
            PROVE  \E p \in Orders : At(HeldOf(held), x, p)
        <5>1. b = <<b[1], b[2]>>
          BY <2>0 DEF HeldOf
        <5>2. IsBlock(b[1], b[2])
          BY <2>0, <5>1, BlocksOK
        <5>3. b[2] \in Nat /\ b[2] \in Orders /\ b[1] \in Nat /\ merged(b[1], b[2]) = b[1]
          BY <5>2, OrdersLemma DEF IsBlock
        <5>4. merged(x, b[2]) = b[1]
          BY <4>1, <4>2, <5>3, MergedSame
        <5>. QED BY <2>0, <5>1, <5>3, <5>4 DEF At
      <4>3. ASSUME NEW p \in Orders, At(HeldOf(held), x, p)
            PROVE  \E b \in HeldBlocks : b[1] <= x /\ x < b[1] + BLOCKSIZE(b[2])
        <5>. DEFINE b == <<merged(x, p), p>>
        <5>1. b \in HeldBlocks
          BY <2>0, <4>3 DEF At
        <5>2. merged(x, p) <= x /\ x < merged(x, p) + BLOCKSIZE(p)
          BY <4>1, MergedIs, OrdersLemma
        <5>3. b[1] = merged(x, p) /\ b[2] = p
          OBVIOUS
        <5>. HIDE DEF b
        <5>. QED BY <5>1, <5>2, <5>3
      <4>. QED BY <4>2, <4>3 DEF HeldPlaces
    <3>3. F \subseteq Places /\ HeldPlaces \subseteq Places
      BY DEF FreePlaces, HeldPlaces
    <3>4. ASSUME NEW x \in Places
          PROVE  (x \in F \/ x \in HeldPlaces) /\ ~ (x \in F /\ x \in HeldPlaces)
      <4>1. x \in 0..(HEAP_SIZE - 1)
        BY PlacesLemma, OrdersLemma
      <4>2. Tiles(S)
        BY DEF BuddyOK
      <4>3. \A p \in Orders : At(S, x, p) <=> At(FreeOf(buddy), x, p) \/ At(HeldOf(held), x, p)
        BY DEF At
      <4>4. \A p \in Orders : ~ (At(FreeOf(buddy), x, p) /\ At(HeldOf(held), x, p))
        BY <2>0, <2>2 DEF At
      <4>5. /\ \E p \in Orders : At(S, x, p)
            /\ \A p, r \in Orders : At(S, x, p) /\ At(S, x, r) => p = r
        <5>. HIDE DEF S
        <5>. QED BY <4>1, <4>2 DEF Tiles
      <4>. HIDE DEF S, F
      <4>. QED BY <3>1, <3>2, <4>3, <4>4, <4>5
    <3>. HIDE DEF F, S, u
    <3>5. F \cup HeldPlaces = Places /\ F \cap HeldPlaces = {}
      BY <3>3, <3>4
    <3>6. IsFiniteSet(F) /\ IsFiniteSet(HeldPlaces)
      BY <3>3, PlacesCount, FS_Subset
    <3>7. /\ Cardinality(F) \in Nat /\ Cardinality(HeldPlaces) \in Nat
          /\ Cardinality(Places) = Cardinality(F) + Cardinality(HeldPlaces)
      BY <3>5, <3>6, CountApart
    <3>8. u \in Nat
      BY OrdersLemma, SizeLemma DEF u
    <3>9. (Cardinality(F) + Cardinality(HeldPlaces)) * u
            = Cardinality(F) * u + Cardinality(HeldPlaces) * u
      BY <3>7, <3>8
    <3>10. free_bytes(buddy) = Cardinality(F) * u
      BY FreeBytesIs DEF F, u
    <3>11. Cardinality(Places) * u = HEAP_SIZE
      BY PlacesCount DEF u
    <3>12. free_bytes(buddy) + Cardinality(HeldPlaces) * u = HEAP_SIZE
      BY <3>7, <3>9, <3>10, <3>11
    <3>. QED BY <3>12 DEF u
  <2>. QED BY <2>1, <2>2, <2>3, <2>4 DEF BuddyPartition
<1>. QED BY <1>1, BuddyInvariance, PTL
=============================================================================
