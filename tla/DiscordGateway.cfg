\* Two faults of any kind, and with them three sockets.  A stopped or failed
\* ingestor does nothing more.
SPECIFICATION Spec
CONSTANTS
  Sockets = {s1, s2, s3}
  NoSocket = NoSocket
  maxReconnectAttempts = 2
  MaxSessions = 4
  MaxFaults = 2
INVARIANTS
  TypeOK
  StateIsTrue
  OneMorePerReplaced
  QuietStopIsFinal
PROPERTIES
  Settles
  SilenceIsNoticed
CHECK_DEADLOCK FALSE
