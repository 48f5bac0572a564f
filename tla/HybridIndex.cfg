SPECIFICATION FairSpec
CONSTANTS
  RecordPerPage = 2
  Error = 1
  Keys <- MCKeys
  Values <- MCValues
  Missing = Missing
  Loaded <- MCLoaded
  InitSize = 1
  MemoryBudget = 4
  ModelSizes <- MCModelSizes
  Word = 32
  UpdateAssigns = FALSE
  MaxWrites = 4
INVARIANTS
  TypeOK
  FindsNewest
  EachKeyOnce
  SearchStaysInside
  SearchFindsLowerBound
  DynamicIsBounded
PROPERTY OperationsReturn
