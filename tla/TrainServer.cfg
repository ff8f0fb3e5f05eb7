SPECIFICATION Spec
CONSTANTS
  c1 = c1
  c2 = c2
  Clients <- TwoClients
  NOBODY = NOBODY
  LENGTH = 4
  PAYLOAD = 2
  COMMANDS = {1, 2}
  GETS = {1, 2}
  NOTE = 2
  BYTES = 8
  LINE_IS_SLOW = TRUE
INVARIANTS
  CommandsInOrder
  AnswersInOrder
  NobodyWaitsInVain
  EveryCallIsKept
  AwaitedChangeComes
PROPERTIES
  OneByteAtATime
CHECK_DEADLOCK FALSE
