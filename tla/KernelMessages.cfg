SPECIFICATION Spec
CONSTANTS
  NULL = NULL
  RECV_BLOCKED = RECV_BLOCKED
  RPLY_BLOCKED = RPLY_BLOCKED
  TASK_MAX = 4
  TASK_PRIORITY_MAX = 1
  BOOT <- BootFull
  IDLE = 1
  ASKED = {}
  EVENTS = {}
  LENGTHS = {0, 1}
  TID_MAX = 3
  EXITS = {}
PROPERTIES
  ImplementsSendReceiveReply
  SendOutcome
