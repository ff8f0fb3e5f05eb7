SPECIFICATION UFairSpec
CONSTANTS
  r1 = r1
  LENGTH = 8
  Readers <- OneReader
  NOBODY = NOBODY
  FIFO = 4
  TYPE_AHEAD = 7
  BYTES = 8
  UART_FIFO_SIZE = 4
  BLOCK = 2
  LENGTHS = {3}
  ON_THE_WAY = 5
CHECK_DEADLOCK FALSE
INVARIANTS
  BytesInOrder
  HandlersFitTheDevice
PROPERTIES
  ImplementsTermInput
  InputNeverSticks
