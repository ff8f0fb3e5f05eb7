SPECIFICATION Spec
CONSTANTS
  NULL = NULL
  RECV_BLOCKED = RECV_BLOCKED
  RPLY_BLOCKED = RPLY_BLOCKED
  TASK_MAX = 4
  TASK_PRIORITY_MAX = 1
  BOOT <- BootPair
  IDLE = 1
  ASKED = {1}
  EVENTS = {"CLOCK_TICK"}
  LENGTHS = {0}
  TID_MAX = 3
  EXITS = {0}
INVARIANTS
  TypeOK
  QueuesExact
  NoLostWakeup
  NoPanic
PROPERTIES
  ImplementsSendReceiveReply
  QueueDiscipline
  MessagesReachTheirTask
