SPECIFICATION FairSpec
CONSTANTS
  Threads <- TwoThreads
  Partitions <- OnePartition
  PartitionOf <- AllInOne
  Keys <- MCKeys
  Stored0 <- Built1
  Sampled <- Sample
  Workload <- Idler
  MergeRatio = 2
  Timeouts = {"awaitSwapped"}
CHECK_DEADLOCK FALSE
INVARIANTS
  NothingLost
  FindsInserted
PROPERTIES
  RequestsReturn
  MergeEnds
