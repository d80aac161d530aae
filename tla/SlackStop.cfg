\* As SlackSocketMode.cfg.
SPECIFICATION Spec
CONSTANTS
  Sockets = {s1, s2, s3, s4}
  NoSocket = NoSocket
  maxReconnectAttempts = 2
  MaxFaults = 3
INVARIANT
  StopLeavesNothing
CHECK_DEADLOCK FALSE
