SPECIFICATION Spec
CONSTANTS
  t1 = t1
  t2 = t2
  t3 = t3
  Missing = Missing
  Torn = Torn
  None = None
  Threads <- TwoThreads
  Keys <- MCKeys
  Values <- MCValues
  LeafMax = 2
  InnerMax = 5
  Builder = t1
  Records <- WideRecords
  Requests <- WideRequests
  MaxOps = 2
  MaxWord = 18
CHECK_DEADLOCK FALSE
INVARIANTS
  TypeOK
  LeafChainIsSorted
  SizeCoversRecords
  NothingTornIsUsed
  LocksHaveOneOwner
PROPERTY ImplementsMap
