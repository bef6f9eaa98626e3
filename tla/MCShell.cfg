\* The shell runs pipelines and single commands; the user interrupts programs
\* and the prompt.  The second pipeline finds the table of pipes full.
CONSTANTS
  MAX_PROCESSES = 5
  QUANTUM_DEFAULT = 1
  QUANTUM_MAX = 1
  Calls = {}
  Killable = {}
  PriorityArgs = {}
  MaxReaps = 3
  MAX_PIPES = 1
  PIPE_BUFFER_SIZE = 3
  FD_MAX = 5
  ReadSize = 1
  WriteSizes = {2}
  MaxBytes = 4
  Commands = {"pipe", "fg", "bg"}
  Orphans = FALSE
SPECIFICATION ShellFairSpec
INVARIANTS
  PipeCounts
  NoDangling
  PipeFifo
  NoLostPipeWakeup
  ShellHasTerminal
PROPERTIES
  PipelineFinishes
