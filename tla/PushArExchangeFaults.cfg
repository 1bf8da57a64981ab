SPECIFICATION Spec
CONSTANTS
  Faults = {"setup", "bind", "connect", "open_mem", "send_mem", "recv_mem", "send_status", "shm", "create_pool", "send_pool", "recv_pool", "open_pool", "events"}
  OpenAttempts = 2
INVARIANT
  EngagedTogether
CHECK_DEADLOCK FALSE
