SPECIFICATION FairLeaseSpec
CONSTANTS
  s1 = s1  p1 = p1  p2 = p2  g1 = g1  g2 = g2  g3 = g3
  Streams = {s1}
  Providers = {p1, p2}
  Calls = {g1, g2, g3}
  Order <- OneProvider
  Channels = {1, 2, 3, 4}
  Settings <- SomeLimits
  Slots <- TwoAndOne
  MaxChanges = 2
  None = None
INVARIANTS PermitsCounted CapHolds
PROPERTIES OvershootEnds ConnectionsCome
