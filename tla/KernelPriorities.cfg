SPECIFICATION FairSpec
CONSTANTS
  NULL = NULL
  RECV_BLOCKED = RECV_BLOCKED
  RPLY_BLOCKED = RPLY_BLOCKED
  TASK_MAX = 4
  TASK_PRIORITY_MAX = 2
  BOOT <- BootPair
  IDLE = 1
  ASKED = {0, 1, 2}
  EVENTS = {"UART1_CTS", "CLOCK_TICK"}
  LENGTHS = {}
  TID_MAX = 3
  EXITS = {}
INVARIANTS
  HighestPriorityRuns
PROPERTIES
  NoStarvation
