SPECIFICATION DownloadSpec
CONSTANTS
  r1 = r1  r2 = r2
  Readers = {r1}
  Seekers = {r1}
  Peekers = {}
  Nibblers = {}
  Leavers = {}
  Count = 3
  Ranges = {0, 1, 2, 3}
  ReadAhead = 1
  MaxZeroFills = 2
  MaxZeroFillRun = 1
  MaxJoins = 1
  Depths = {2}
  Width = 1
PROPERTIES RunsStayShort
CHECK_DEADLOCK FALSE
