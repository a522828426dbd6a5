CONSTANTS
  numThreads = 2
  epoch_size = 2
  PumpTarget = 2
  soupsPerHaul = 4
  Gpu = TRUE
  Interactive = TRUE
  Yields <- Thin
  MaxFailures = 1
SPECIFICATION FairSpec
INVARIANTS PumpedFresh UninterruptedHaulCovers
PROPERTIES SearchEnds
