\* As DiscordGateway.cfg.
SPECIFICATION Spec
CONSTANTS
  Sockets = {s1, s2, s3}
  NoSocket = NoSocket
  maxReconnectAttempts = 2
  MaxSessions = 4
  MaxFaults = 2
INVARIANT
  KeysNeverCollide
CHECK_DEADLOCK FALSE
