SPECIFICATION Spec
CONSTANTS
  Threads <- ThreeThreads
  Partitions <- TwoPartitions
  PartitionOf <- InTwo
  Keys <- MCKeys
  Stored0 <- Built2
  Sampled <- Sample
  Workload <- Contention
  MergeRatio = 2
  Timeouts = {}
CHECK_DEADLOCK FALSE
INVARIANTS
  TypeOK
  AnnouncedFileIsComplete
  QuietMeansReady
  RangeFitsFile
  SettledBetweenMerges
  FilesInUseExist
PROPERTY DiskOnlyGrows
