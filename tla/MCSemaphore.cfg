\* Safety of a semaphore used as a lock: three programs that come and go.
CONSTANTS
  MAX_PROCESSES = 5
  QUANTUM_DEFAULT = 1
  QUANTUM_MAX = 1
  Calls = {"spawn", "exit", "sem_create", "sem_close", "sem_wait", "sem_trywait", "sem_post"}
  Killable = {}
  PriorityArgs = {}
  MaxReaps = 2
  Lock = 0
  Sems = {0}
  SemValue = 1
  SleepTicks = {}
SPECIFICATION SemSpec
INVARIANTS
  WaitersQueued
  MutualExclusion
PROPERTIES
  ImplementsSemaphore
