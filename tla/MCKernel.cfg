\* Safety of process management: three programs, a pid that is reused.
CONSTANTS
  MAX_PROCESSES = 5
  QUANTUM_DEFAULT = 1
  QUANTUM_MAX = 2
  Calls = {"yield", "spawn", "exit", "kill", "ctrl_c", "block", "unblock", "wait"}
  Killable = {"READY", "RUNNING", "BLOCKED"}
  PriorityArgs = {}
  MaxReaps = 2
SPECIFICATION Spec
INVARIANTS
  SchedulerConsistent
  NeverPanics
  FamilyConsistent
  NoLostChildWakeup
PROPERTIES
  ReapedByParent
