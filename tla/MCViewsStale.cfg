SPECIFICATION ViewsSpec
CONSTANTS
  a = a  aNew = aNew  b = b  c = c
  idA = idA  idB = idB  idC = idC
  v1 = v1  v2 = v2  v3 = v3
  Providers = {a, aNew, b, c}
  Ids = {idA, idB, idC}
  IdOf <- MCIdOf
  Backups = {c}
  Initial <- AThenB
  Lists <- MCLists
  Selections <- MCSelections
  Views = {v1, v2, v3}
INVARIANT EveryViewFollows
