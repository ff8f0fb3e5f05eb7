SPECIFICATION FairSpec
CONSTANTS
  c1 = c1
  c2 = c2
  Clients <- TwoClients
  LENGTHS = {2, 3}
  OUTPUT_BUFFER_COUNT = 2
  OUTPUT_BUFFER_SIZE = 2
  FIFO = 2
  BYTES = 11
INVARIANTS
  OutputInOrder
  SameBuffer
  ClientsWait
PROPERTIES
  FillsAnotherBuffer
  EveryPutsReturns
  OutputDrains
