\* The seen keys are pruned to two, as many as the buffer holds; five events
\* per boot go round it twice.  The run ends when the bounds are used up.
SPECIFICATION Spec
CONSTANTS
  Capacity = 2
  MAX_SEEN_KEYS = 3
  ID_MULTIPLIER = 8
  NoKey = NoKey
  NumConnections = 1
  Agents = {1}
  Keys = {k1, k2, k3}
  MaxEvents = 5
  MaxBoots = 2
SYMMETRY KeySymmetry
INVARIANTS
  TypeOK
  RingHoldsLatest
  NoKeyTwiceInBuffer
  EachPollGivesTheUnread
CHECK_DEADLOCK FALSE
