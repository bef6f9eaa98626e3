\* Liveness: no program blocks another one on purpose.
CONSTANTS
  MAX_PROCESSES = 4
  QUANTUM_DEFAULT = 1
  QUANTUM_MAX = 2
  Calls = {"spawn", "exit", "kill", "unblock", "nice", "wait"}
  Killable = {"READY", "RUNNING", "BLOCKED"}
  PriorityArgs = {0, 258}
  MaxReaps = 2
SPECIFICATION FairSpec
INVARIANT TypeOK
PROPERTIES
  ReadyRuns
  WaitReturns
