SPECIFICATION Spec
CONSTANTS
  Threads <- TwoThreads
  Partitions <- OnePartition
  PartitionOf <- AllInOne
  Keys <- MCKeys
  Stored0 <- Built2
  Sampled <- Sample
  Workload <- WriterReader
  MergeRatio = 2
  Timeouts = {}
CHECK_DEADLOCK FALSE
INVARIANT FindsInserted
