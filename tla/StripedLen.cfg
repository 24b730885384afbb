SPECIFICATION Spec
CONSTANTS
  t1 = t1
  t2 = t2
  t3 = t3
  Threads = {t1, t2, t3}
  STRIPES = 2
  Width = 4
  MaxLive = 2
  MaxDuring = 2
SYMMETRY ThreadSymmetry
INVARIANTS
  StripesAddUp
  LenHonest
