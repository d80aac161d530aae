\* Three disconnects, drops or refusals, and with them four sockets at most.
\* A stopped or failed ingestor does nothing more.
SPECIFICATION Spec
CONSTANTS
  Sockets = {s1, s2, s3, s4}
  NoSocket = NoSocket
  maxReconnectAttempts = 2
  MaxFaults = 3
INVARIANTS
  TypeOK
  StateIsTrue
  OneMorePerRefresh
  QuietStopIsFinal
PROPERTY
  Settles
CHECK_DEADLOCK FALSE
