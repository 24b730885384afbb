SPECIFICATION FairSpec
CONSTANTS
  t1 = t1
  t2 = t2
  t3 = t3
  a1 = a1
  a2 = a2
  Threads = {t1, t2, t3}
  Arenas = {a1, a2}
  Capacity <- MCCapacity
  Unit = 4
  Slots = 1
  MaxChunk = 12
  Share = 2
  Requests <- MCRequests
  NoTls = {t3}
  MaxAllocs <- MCAllocs
  MaxResets = 1
INVARIANTS
  BytesExclusive
  FullOnlyWhenFull
PROPERTIES
  AllocReturns
