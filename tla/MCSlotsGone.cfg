SPECIFICATION SlotsSpec
CONSTANTS
  p1 = p1  p2 = p2
  Requests = {p1, p2}
  Asks <- MCAsks
  Slots = {1, 2}
  Copies <- TwoAndOne
  MaxAttempts = 2
  Closing = {1}
PROPERTY NothingWhenGone
CHECK_DEADLOCK FALSE
