SPECIFICATION FairSpec
CONSTANTS
  c1 = c1
  c2 = c2
  c3 = c3
  SIZE = 4
  INT_MAX = 7
  VALUES <- ThreeClients
  NOBODY = NOBODY
  Clients <- ThreeClients
  NOTIFIER = NOTIFIER
  TICKS <- SomeTicks
  MAX_TIME = 2
INVARIANTS
  EveryCallerIsKnown
  NoTickIsLost
  NobodyOversleeps
PROPERTIES
  NobodyWakesEarly
  EverySleeperWakes
CHECK_DEADLOCK FALSE
