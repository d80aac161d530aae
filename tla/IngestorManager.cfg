\* Three items against two remembered ids, two polls at a time, two errors to
\* give up.  A stopped manager with every event accepted does nothing more.
SPECIFICATION Spec
CONSTANTS
  MAX_CONSECUTIVE_ERRORS = 2
  MAX_SEEN_IDS = 2
  PageSize = 1
  MaxItems = 3
  MaxPolls = 2
  Webhooks = {stale, trello, stripe, shared, off}
  stale = stale
  trello = trello
  stripe = stripe
  shared = shared
  off = off
  secret = secret
  otherSecret = otherSecret
  url = url
  oldUrl = oldUrl
  protocolOf <- MCProtocol
  signatureSecret <- MCSecret
  callbackUrl <- MCUrl
  Unsigned = Unsigned
  Unresolved = Unresolved
  NoUrl = NoUrl
  DEFAULT_TIMESTAMP_TOLERANCE = 1
  Poll = Poll
  Order <- MCOrder
  Disabled = {off}
  Signed <- MCSigned
  Observed = stripe
INVARIANTS
  TypeOK
  SinglePollsAreSound
  AckedReachesAll
  QuietStopIsFinal
PROPERTIES
  WebhookIsBufferedOnce
  EventsAreAccepted
CHECK_DEADLOCK FALSE
