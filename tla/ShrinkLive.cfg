SPECIFICATION FairShrinkSpec
CONSTANTS
  t0 = t0
  t1 = t1
  t2 = t2
  scanner = scanner
  shrinker = shrinker
  Threads = {t0, t1, t2, scanner, shrinker}
  Loader = t0
  Scanner = scanner
  Shrinker = shrinker
  NodeIds = {1,2,3,4,5,6}
  Bytes <- MCBytes
  Keys <- WalkKeys
  MaxPrefix = 2
  Capacity <- MCCapacity
  Arena = {}
  Programs <- LivePrograms
  Ranges <- LiveRanges
  Passes <- LivePasses
  Batch = 2
  MaxRepins = 0
  ATTEMPTS = 2
PROPERTIES
  CallsReturn
  WalksReturn
