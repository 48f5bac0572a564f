SPECIFICATION Spec
CONSTANTS
  RecordPerPage = 2
  Error = 1
  Keys <- MCKeys
  Loaded <- MCLoaded
  Handed <- InRange
  MergeThreadNum = 3
  MaxRounds = 2
CHECK_DEADLOCK FALSE
INVARIANTS
  TypeOK
  FindsNewest
  EveryRecordStored
  StoredIsMerge
  MergedInPlace
  InputsInOrder
