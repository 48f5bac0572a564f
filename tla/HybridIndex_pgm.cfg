SPECIFICATION Spec
CONSTANTS
  RecordPerPage = 2
  Error = 1
  Keys <- MCKeys
  Values <- MCValues
  Missing = Missing
  Loaded <- MCLoaded
  InitSize = 2
  MemoryBudget = 5
  ModelSizes <- MCModelSizes
  Word = 32
  UpdateAssigns = TRUE
  MaxWrites = 4
INVARIANT FindsNewest
