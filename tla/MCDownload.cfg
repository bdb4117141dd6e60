SPECIFICATION DownloadSpec
CONSTANTS
  r1 = r1  r2 = r2
  Readers = {r1, r2}
  Seekers = {r1}
  Peekers = {}
  Nibblers = {}
  Leavers = {r2}
  Count = 4
  Ranges = {1, 3}
  ReadAhead = 2
  MaxZeroFills = 2
  MaxZeroFillRun = 1
  MaxJoins = 0
  Depths = {2}
  Width = 1
INVARIANTS WaitedIsCounted HolesCapped
PROPERTIES RealReadsKept WantedAdopted
CHECK_DEADLOCK FALSE
