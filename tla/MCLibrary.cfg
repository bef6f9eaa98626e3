SPECIFICATION LibrarySpec
CONSTANTS
  INT_BITS = 8
  HEXA_MAX = 3
  BUFF_SIZE = 5
  MAX_PARAMS = 1
  MAX_PARAM_LEN = 3
  POINTER = 4
  MAX_FILE_ENTRIES = 3
  Names = {"cat", "wc", "phylo", "long"}
  LongNames = {"long"}
  EntryPoints = {"main", "other"}
  Alphabets <- TwoAlphabets
  MaxText = 5
  MaxNumber = 300
  StackTop = 128
  KMSG_SIZE = 4
  LogBytes = {1, 2}
  MaxLogged = 10
INVARIANTS
  WordsParsed
  ArgumentsOnStack
  CountsIndependentOfReads
  NumbersReadBack
  FormatsStayInside
  ProgramsAreMap
  LogIsSuffix
CHECK_DEADLOCK FALSE
