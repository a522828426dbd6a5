CONSTANTS
  numThreads = 2
  epoch_size = 2
  PumpTarget = 2
  soupsPerHaul = 3
  Gpu = FALSE
  Interactive = FALSE
  Yields <- NoYield
  MaxFailures = 1
SPECIFICATION Spec
INVARIANTS HaulCovers
