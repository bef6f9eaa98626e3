\* Both memory managers, with requests at the edges of a block.
CONSTANTS
  BLOCK_SIZE = 2
  TOTAL_BLOCKS = 6
  SimpleSizes = {1, 2, 3, 4, 5, 11}
  MIN_ORDER = 3
  MAX_ORDER = 6
  HEADER = 16
  BuddySizes = {0, 496, 497, 1009, 4080, 4081}
SPECIFICATION MemorySpec
INVARIANTS
  SimpleAccounts
  BuddyPartition
  BuddyNoFragments
PROPERTIES
  SimpleImplementsHeap
  BuddyImplementsHeap
