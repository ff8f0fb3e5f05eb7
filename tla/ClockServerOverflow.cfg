SPECIFICATION Spec
CONSTANTS
  c1 = c1
  c2 = c2
  c3 = c3
  SIZE = 4
  INT_MAX = 3
  VALUES <- TwoClients
  NOBODY = NOBODY
  Clients <- TwoClients
  NOTIFIER = NOTIFIER
  TICKS <- LongTicks
  MAX_TIME = 3
PROPERTIES
  NobodyWakesEarly
CHECK_DEADLOCK FALSE
