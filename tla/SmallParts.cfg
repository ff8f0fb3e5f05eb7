SPECIFICATION PSpec
CONSTANTS
  SIZE = 8
  INT_MAX = 4
  VALUES = {1}
  NOBODY = NOBODY
  KEYS = {1, 2, 3, 4}
  c1 = c1
  c2 = c2
  trains = trains
  sensors = sensors
  longname = longname
  NAME = NAME
  SERVER = SERVER
  NO_TASK = NO_TASK
  Clients <- TwoClients
  Names <- SomeNames
  Long <- OneLong
  NAME_MAX = 2
  KEYBOARD <- SomeKeys
  LINE = 7
  BYTE = 3
  NIBBLES = 2
  DECIMALS = 3
  HEADS <- SomeHeads
  REST <- SomeRest
  MAX_REST = 5
INVARIANTS
  HoldsWhatWasAdded
  OneEntryPerName
  ShownIsDone
  ParserMeetsMeaning
  ChoosesHighest
  NumbersReadBack
PROPERTIES
  DeletesTheSmallest
  ImplementsRegistry
