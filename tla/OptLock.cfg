SPECIFICATION FairSpec
CONSTANTS
  t1 = t1
  t2 = t2
  t3 = t3
  Threads <- MCThreads
  MaxWord = 11
CHECK_DEADLOCK FALSE
INVARIANTS
  TypeOK
  MutualExclusion
  ValidatedReadIsASnapshot
  UpgradeKeepsWhatWasRead
PROPERTIES
  VersionsAreNotReused
  LockIsReleased
