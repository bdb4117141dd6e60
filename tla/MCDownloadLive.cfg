SPECIFICATION FairDownloadSpec
CONSTANTS
  r1 = r1  r2 = r2
  Readers = {r1, r2}
  Seekers = {}
  Peekers = {r2}
  Nibblers = {r1}
  Leavers = {r1}
  Count = 2
  Ranges = {0, 2}
  ReadAhead = 1
  MaxZeroFills = 0
  MaxZeroFillRun = 1
  MaxJoins = 1
  Depths = {1}
  Width = 1

PROPERTIES ReadsEnd
CHECK_DEADLOCK FALSE
