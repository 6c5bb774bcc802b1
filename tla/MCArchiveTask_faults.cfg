SPECIFICATION Spec
CONSTANTS
  f1 = f1
  f2 = f2
  f3 = f3
  w1 = w1
  w2 = w2
  NoWorker = NoWorker
  Files <- ThreeFiles
  Sizes <- SmallSizes
  Links <- NoLinks
  MtimeAge <- AgesSame
  NumFiles = 2
  ArchiveMB = 1
  Older = 0
  Newer = 0
  CrawlMayDie = TRUE
  Workers <- TwoWorkers
  VaultConfigured = TRUE
  Faults <- HardFaults
SYMMETRY Symmetry
INVARIANTS
  TaskTypeOK
  RecordedIsStored
  ArchivedAtMostOnce
  StoredIsRecorded
  ArchivedOrLeftBehind
PROPERTY ImplementsCatalog
CHECK_DEADLOCK FALSE
