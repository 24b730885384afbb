SPECIFICATION Spec
CONSTANTS
  t0 = t0
  t1 = t1
  t2 = t2
  t3 = t3
  Threads = {t0, t1, t2, t3}
  Loader = t0
  NodeIds = {1,2,3,4,5,6}
  Bytes <- MCBytes
  Keys <- TreeKeys
  MaxPrefix = 1
  Capacity <- MCCapacity
  Arena = {1, 2}
  Programs <- TreePrograms
INVARIANTS
  Linearizable
  TreeIntact
  RetiredSafely
  QuiescentTree
