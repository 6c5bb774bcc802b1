SPECIFICATION CrawlerSpec
CONSTANTS
  f1 = f1
  f2 = f2
  f3 = f3
  f4 = f4
  f5 = f5
  f6 = f6
  Files <- SixFiles
  Sizes <- BoundarySizes
  Links <- OneLink
  MtimeAge <- Ages
  NumFiles = 3
  ArchiveMB = 2
  Older = 1
  Newer = 5
  CrawlMayDie = TRUE
INVARIANTS
  BatchesWithinCount
  BatchesWithinBytes
  EveryFileInOneBatch
  TotalIsWhatWasSent
CHECK_DEADLOCK FALSE
