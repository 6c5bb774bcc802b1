SPECIFICATION RSpec
CONSTANTS
  Catalog <- MixedCatalog
  MaxJobs = 2
  MaxFailures = 2
  RFaults <- AllFaults
INVARIANTS
  RTypeOK
  ReadyIsDownloaded
  DownloadedIsRestored
  JobsAreRecorded
PROPERTY DoneIsDownloaded
