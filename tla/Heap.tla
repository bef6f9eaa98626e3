-------------------------------- MODULE Heap --------------------------------
(***************************************************************************)
(* What both memory managers of the kernel promise: kmalloc hands out a    *)
(* piece of the heap that overlaps no piece still in use, kmm_free gives a *)
(* piece back whole.                                                       *)
(***************************************************************************)
EXTENDS Integers

CONSTANT HeapSize

VARIABLE regions  \* the pieces in use, [ptr, size]

Region == [ptr : 0..HeapSize, size : 1..HeapSize]

Disjoint(a, b) == a.ptr + a.size <= b.ptr \/ b.ptr + b.size <= a.ptr

Init == regions = {}

Malloc(r) ==
  /\ r \in Region
  /\ r.ptr + r.size <= HeapSize
  /\ \A other \in regions : Disjoint(r, other)
  /\ regions' = regions \cup {r}

Free(r) == regions' = regions \ {r}

Next == (\E r \in regions' \ regions : Malloc(r)) \/ (\E r \in regions : Free(r))

Spec == Init /\ [][Next]_regions
=============================================================================
