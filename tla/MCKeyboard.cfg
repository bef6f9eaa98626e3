\* Two users, one of whom fills the buffer, and programs that come and go.
CONSTANTS
  MAX_PROCESSES = 4
  QUANTUM_DEFAULT = 1
  QUANTUM_MAX = 1
  Calls = {"spawn", "exit"}
  Killable = {}
  PriorityArgs = {}
  MaxReaps = 2
  KBUFF_SIZE = 5
  ReadCount = 2
  Users <- TwoUsers
  EofAnywhere = FALSE
SPECIFICATION KbSpec
INVARIANTS
  KeyboardLines
  TerminalWaiter
  NoLostLine
