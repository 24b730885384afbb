SPECIFICATION FairSpec
CONSTANTS
  Threads = {t1, t2}
  Fields <- MCFields
  Values <- MCValues
  Unread = unread
  VersionMod = 3
INVARIANTS
  MutualExclusion
  SnapshotRead
  UpgradeKeepsView
PROPERTIES
  ObsoleteIsFinal
  LockReturns
