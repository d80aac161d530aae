\* One session: the server's code never relates two of them, and SecureProxy.cfg
\* has several.  A tick is half a minute for the handshake and rate limits; the
\* session TTL is shortened to two minutes.
SPECIFICATION HSpec
CONSTANTS
  ANTI_REPLAY_WINDOW_SIZE = 2
  SessionIds = {s1}
  MaxCounter = 3
  RATE_LIMIT = 3
  RATE_WINDOW = 2
  SESSION_TTL = 4
  HANDSHAKE_TTL = 1
  CLEANUP_INTERVAL = 2
INVARIANTS
  PendingHasSession
  UnusedIsReclaimed
  AtMostTwiceTheLimit
PROPERTY
  EstablishedLastsUntilIdle
