SPECIFICATION Spec
CONSTANTS
  f1 = f1
  f2 = f2
  f3 = f3
  w1 = w1
  w2 = w2
  NoWorker = NoWorker
  Files <- TwoFiles
  Sizes <- SmallSizes
  Links <- NoLinks
  MtimeAge <- AgesSame
  NumFiles = 1
  ArchiveMB = 1
  Older = 0
  Newer = 0
  CrawlMayDie = FALSE
  Workers <- TwoWorkers
  VaultConfigured = FALSE
  Faults <- EndFaults
INVARIANT BytesUploadedExact
PROPERTIES
  TaskEnds
  CrawlEnds
CHECK_DEADLOCK FALSE
