SPECIFICATION RSpec
CONSTANTS
  Catalog <- GoodCatalog
  MaxJobs = 2
  MaxFailures = 1
  RFaults <- CutFault
INVARIANT DownloadedIsWhole
