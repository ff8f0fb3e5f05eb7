SPECIFICATION Spec
CONSTANTS
  r1 = r1
  LENGTH = 4
  Readers <- OneReader
  NOBODY = NOBODY
  FIFO = 3
  TYPE_AHEAD = 3
  BYTES = 8
CHECK_DEADLOCK FALSE
INVARIANT NothingIsSmashed
