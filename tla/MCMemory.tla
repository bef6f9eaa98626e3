----------------------------- MODULE MCMemory -------------------------------
(***************************************************************************)
(* Both memory managers for TLC: which one a kernel has is decided when it *)
(* is built (memory_manager.h), and is the same for ever.                  *)
(***************************************************************************)
EXTENDS BlockHeap, Buddy

VARIABLE manager

memoryVars == <<manager, block_info, owned, buddy, held>>

MemoryInit ==
  /\ manager \in {"USE_SIMPLE_MM", "USE_BUDDY_MM"}
  /\ SimpleInit
  /\ BuddyInit

MemoryNext ==
  /\ UNCHANGED manager
  /\ \/ manager = "USE_SIMPLE_MM" /\ SimpleNext /\ UNCHANGED buddyVars
     \/ manager = "USE_BUDDY_MM" /\ BuddyNext /\ UNCHANGED simpleVars

MemorySpec == MemoryInit /\ [][MemoryNext]_memoryVars
=============================================================================
