SPECIFICATION ReadSpec
CONSTANTS
  t0 = t0
  t1 = t1
  t2 = t2
  t3 = t3
  a = a
  b = b
  Threads = {t0, t1, t2, t3}
  Loader = t0
  Readers = {t3}
  Keys = {a, b}
  Versions <- MCVersions
  LeafIds = {1,2,3,4}
  NodeIds = {1,2,3,4,5,6,7,8,9}
  MaxAttempts = 2
  Programs <- ChainPrograms
  Looks <- ChainLooks
INVARIANTS
  ChainLinearizable
  ChainsIntact
  ChainRetiredSafely
  QuiescentChains
  ReadsSound
PROPERTIES
  PruneKeepsSnapshots
