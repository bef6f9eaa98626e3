\* Liveness: every program that waits gets the semaphore.
CONSTANTS
  MAX_PROCESSES = 5
  QUANTUM_DEFAULT = 1
  QUANTUM_MAX = 1
  Calls = {"spawn", "sem_create", "sem_wait", "sem_post", "sleep"}
  Killable = {}
  PriorityArgs = {}
  MaxReaps = 1
  Lock = 0
  Sems = {0}
  SemValue = 1
  SleepTicks = {0, 2}
SPECIFICATION SemFairSpec
PROPERTIES
  WaiterServed
  SleeperWakes
