SPECIFICATION ShrinkSpec
CONSTANTS
  t0 = t0
  t1 = t1
  t2 = t2
  scanner = scanner
  shrinker = shrinker
  Threads = {t0, t1, t2, scanner, shrinker}
  Loader = t0
  Scanner = scanner
  Shrinker = shrinker
  NodeIds = {1,2,3,4,5,6}
  Bytes <- MCBytes
  Keys <- WalkKeys
  MaxPrefix = 2
  Capacity <- MCCapacity
  Arena = {}
  Programs <- WalkPrograms
  Ranges <- WalkRanges
  Passes <- WalkPasses
  Batch = 2
  MaxRepins = 1
  ATTEMPTS = 2
INVARIANTS
  TreeKept
  ScanExact
  WalksProtected
  Fitted
