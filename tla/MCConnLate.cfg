SPECIFICATION ConnectionSpec
CONSTANTS
  c1 = c1  j1 = j1  j2 = j2  a1 = a1  a2 = a2  a3 = a3
  Conns = {c1}
  Jobs = {j1, j2}
  Articles = {a1, a2, a3}
  Tasks <- FetchTasks
  Depth = 2
  MaxRetries = 0
  LateLogin = TRUE
  None = None
INVARIANTS BodiesAlwaysOwn
