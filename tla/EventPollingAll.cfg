\* Two connections, and one agent that names neither of them.
SPECIFICATION Spec
CONSTANTS
  Capacity = 2
  MAX_SEEN_KEYS = 3
  ID_MULTIPLIER = 8
  NoKey = NoKey
  NumConnections = 2
  Agents = {0}
  Keys = {k1}
  MaxEvents = 2
  MaxBoots = 1
INVARIANT
  EachPollGivesTheUnread
CHECK_DEADLOCK FALSE
