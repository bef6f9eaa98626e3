\* A program kills another one that waits for the semaphore.
CONSTANTS
  MAX_PROCESSES = 5
  QUANTUM_DEFAULT = 1
  QUANTUM_MAX = 1
  Calls = {"spawn", "kill", "sem_create", "sem_wait", "sem_post"}
  Killable = {"BLOCKED"}
  PriorityArgs = {}
  MaxReaps = 1
  Lock = 0
  Sems = {0}
  SemValue = 1
  SleepTicks = {}
SPECIFICATION SemSpec
PROPERTY DeadStayDead
