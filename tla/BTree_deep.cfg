SPECIFICATION FairSpec
CONSTANTS
  t1 = t1
  t2 = t2
  t3 = t3
  Missing = Missing
  Torn = Torn
  None = None
  Threads <- TwoThreads
  Keys <- MCKeys
  Values <- MCValues
  LeafMax = 2
  InnerMax = 5
  Builder = t1
  Records <- DeepRecords
  Requests <- DeepRequests
  MaxOps = 1
  MaxWord = 28
CHECK_DEADLOCK FALSE
INVARIANTS
  SearchFindsEveryKey
  RoomToInsert
PROPERTIES
  ImplementsMap
  OperationsReturn
