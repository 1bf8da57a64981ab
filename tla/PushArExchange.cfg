SPECIFICATION FairSpec
CONSTANTS
  Faults = {"setup", "bind", "connect", "send_mem", "recv_mem", "open_mem", "send_status", "create_pool", "send_pool"}
  OpenAttempts = 3
INVARIANTS
  TypeOK
  EngagedTogether
  SameTransport
  BarrierReadyBeforeUse
PROPERTIES
  EveryRankDecides
CHECK_DEADLOCK FALSE
