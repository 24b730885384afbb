SPECIFICATION Spec
CONSTANTS
  t0 = t0
  t1 = t1
  t2 = t2
  t3 = t3
  Threads = {t0, t1, t2}
  Loader = t0
  NodeIds = {1,2,3,4,5}
  Bytes <- MCBytes
  Keys <- ShapeKeys
  MaxPrefix = 1
  Capacity <- MCCapacity
  Arena = {1}
  Programs <- HintClearPrograms
INVARIANTS
  Linearizable
