CONSTANTS
  numThreads = 3
  epoch_size = 3
  PumpTarget = 3
  soupsPerHaul = 5
  Gpu = FALSE
  Interactive = FALSE
  Yields <- NoYield
  MaxFailures = 2
SPECIFICATION Spec
INVARIANTS NoSoupTwice NeverUnderReports
