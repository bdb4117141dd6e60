SPECIFICATION FetchSpec
CONSTANTS
  None = None
  a = a  aNew = aNew  b = b  c = c
  idA = idA  idB = idB  idC = idC
  m1 = m1  v1 = v1  v2 = v2  g1 = g1  g2 = g2
  Providers = {a, aNew, b, c}
  Ids = {idA, idB, idC}
  IdOf <- MCIdOf
  Backups = {c}
  Initial <- AllThree
  Lists <- NoLists
  Selections <- Everything
  Views = {v1}
  Fetchers = {g1, g2}
  Articles = {m1}
  Connects = {"ok", "refused", "canceled"}
  Replies = {"body", "missing", "broken"}
  BenchAfter = 1
  ForgiveAfter = 1
  MinAttempts = 3
INVARIANTS Uncontradicted BackupsWait
SYMMETRY Symmetry
