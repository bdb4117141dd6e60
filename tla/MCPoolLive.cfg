SPECIFICATION FairPoolSpec
CONSTANTS
  pa = pa
  pb = pb
  acct1 = acct1
  acct2 = acct2
  b1 = b1
  b2 = b2
  b3 = b3
  r1 = r1
  r2 = r2
  r3 = r3
  r4 = r4
  g1 = g1
  g2 = g2
  g3 = g3
  None = None
  Pools = {pa, pb}
  Accounts = {acct1}
  Budgets = {b1}
  Requests = {r1, r2, r3}
  Sizes = {1}
  Procs = {g1, g2}
  Kinds = {"get", "try", "probe"}
  Opening <- SharedOpening
  Later <- Nowhere
  Closable = {}
  MaxGen = 0
PROPERTIES
  NoGetStranded
