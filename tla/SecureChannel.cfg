\* A window of 3 counters and 6 messages: packets are overtaken by fewer than,
\* exactly, and more than the window.  Two attempts of two peers, and two sessions,
\* of one attempt or of both.  When all attempts have failed nothing more happens.
SPECIFICATION SecureSpec
CONSTANTS
  ANTI_REPLAY_WINDOW_SIZE = 3
  MaxMessages = 6
  p1 = p1
  p2 = p2
  i1 = i1
  i2 = i2
  Peers = {p1, p2}
  Authorized = {p1, p2}
  Initiators = {i1, i2}
  Owner <- MCOwner
  Responders = {r1, r2}
  Garbled = Garbled
  Null = Null
INVARIANTS
  TypeOK
  WindowBounded
  LateIsNotLost
  KeysAgree
PROPERTY
  ImplementsAtMostOnce
CHECK_DEADLOCK FALSE
