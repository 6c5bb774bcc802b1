SPECIFICATION MCSpec
CONSTANTS
  domain = domain
  machine = machine
  everyone = everyone
  t1 = t1
  t2 = t2
  c1 = c1
  c2 = c2
  w1 = w1
  w2 = w2
  NoName = NoName
  Crawls <- TwoCrawls
  Account <- Directory
  AnyoneSid = everyone
  Tools <- OneTool
  NumSub <- Subs
  Masks <- SomeMasks
  Types <- SomeTypes
  Flags <- SomeFlags
  Commands <- SomeCommands
  Files <- SomeFiles
  Layouts <- BothLayouts
  BUFSIZE = 32
  XATTR_SIZE_MAX = 128
  Sessions <- TwoWorkers
  FirstId = 1
  LastId = 5
  BatchFiles = 2
CHECK_DEADLOCK FALSE
INVARIANTS
  SendsWhatWasAsked
  RightsArrive
  UniqueIds
  OldIdsAreDeleted
