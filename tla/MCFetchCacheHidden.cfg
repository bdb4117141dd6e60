SPECIFICATION FetchSpec
CONSTANTS
  None = None
  a = a  aNew = aNew  b = b  c = c
  idA = idA  idB = idB  idC = idC
  m1 = m1  v1 = v1  v2 = v2  g1 = g1  g2 = g2
  Providers = {a, aNew, b, c}
  Ids = {idA, idB, idC}
  IdOf <- MCIdOf
  Backups = {}
  Initial <- JustA
  Lists <- ToAOrAB
  Selections <- Everything
  Views = {v1}
  Fetchers = {g1}
  Articles = {m1}
  Connects = {"ok"}
  Replies = {"body", "missing"}
  BenchAfter = 5
  ForgiveAfter = 10
  MinAttempts = 3
PROPERTY CachedIsServed
