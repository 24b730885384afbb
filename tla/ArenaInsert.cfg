SPECIFICATION Spec
CONSTANTS
  t1 = t1
  t2 = t2
  t3 = t3
  a = a
  b = b
  Threads = {t1, t2, t3}
  Keys = {a, b}
  Gens = {0, 1}
  LeafIds = {1, 2, 3, 4}
  VerIds = {1, 2, 3, 4}
  NodeIds = {1, 2, 3, 4, 5, 6, 7, 8, 9, 10, 11, 12, 13, 14, 15, 16, 17}
  Capacity = 18
  Size <- MCSize
  Node4s = 6
  MaxCalls = 2
  ATTEMPTS = 2
  Programs <- MCPrograms
INVARIANTS
  DroppedExactlyOnce
  PreparedOnce
  PublishedStays
  QuiescentLen
  PlainWithinMax
