SPECIFICATION FairSpec
CONSTANTS
  t0 = t0
  t1 = t1
  t2 = t2
  t3 = t3
  a = a
  b = b
  Threads = {t0, t1, t2}
  Loader = t0
  Keys = {a}
  Versions <- MCVersions
  LeafIds = {1,2,3,4}
  NodeIds = {1,2,3,4,5,6,7,8}
  MaxAttempts = 2
  Programs <- LivePrograms
PROPERTIES
  ChainCallsReturn
