SPECIFICATION Spec
CONSTANTS
  t1 = t1
  t2 = t2
  Threads = {t1, t2}
  Keys = {1, 2}
  Addresses = {1, 2, 3, 4}
  MaxParts = 2
  MaxGuards = 3
  MaxHandles = 3
  MaxEpoch = 4
  MaxEntries = 5
  Programs <- HandlePrograms
INVARIANTS
  HandleValid
  TakenOnce
  RemovedTold
  Reclaimed

