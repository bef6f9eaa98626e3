\* The buffer of a pipe.
CONSTANTS
  SIZE = 4
  Bytes = {b1, b2}
  None = none
SPECIFICATION Spec
PROPERTY IsFifo
