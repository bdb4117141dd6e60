SPECIFICATION FairProxySpec
CONSTANTS
  s1 = s1  s2 = s2  p1 = p1  p2 = p2  b1 = b1
  Sessions = {s1, s2}
  Primaries = {p1, p2}
  Backups = {b1}
  Down = {}
  Slots = 1
  Readers = {s1}
  Outcomes = {"have", "missing", "broken", "reset", "cut"}
  MaxLines = 1
  NeedsLogin = FALSE
  None = None
INVARIANTS OneStatusLine AnswersWhole
PROPERTIES CommandsEnd
