CONSTANTS
  numThreads = 2
  epoch_size = 2
  PumpTarget = 2
  soupsPerHaul = 4
  Gpu = FALSE
  Interactive = FALSE
  Yields <- NoYield
  MaxFailures = 0
SPECIFICATION Spec
INVARIANTS ExitSubmitsAll
