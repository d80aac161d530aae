\* Two concurrent calls and two faults: a restart and a repeated message, a
\* timeout and a restart, a tick that expires every session...  With zero TTLs
\* one tick outlives any session.  The system stops when all calls are over.
SPECIFICATION PSpec
CONSTANTS
  ANTI_REPLAY_WINDOW_SIZE = 2
  SessionIds = {1, 2, 3, 4, 5, 6, 7, 8}
  MaxCounter = 8
  RATE_LIMIT = 2
  RATE_WINDOW = 1
  SESSION_TTL = 0
  HANDSHAKE_TTL = 0
  CLEANUP_INTERVAL = 1
  Calls = {c1, c2}
  NoSession = 0
  MaxFaults = 2
INVARIANTS
  PTypeOK
  CallRunsAtMostOnce
  ServedOnlyWhenFinished
  RetriesBoundedByLosses
PROPERTIES
  CallsReturn
  CallsRecover
CHECK_DEADLOCK FALSE
