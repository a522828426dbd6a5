CONSTANTS
  numThreads = 2
  epoch_size = 3
  PumpTarget = 3
  soupsPerHaul = 6
  Gpu = FALSE
  Interactive = FALSE
  Yields <- NoYield
  MaxFailures = 2
SPECIFICATION FairSpec
INVARIANTS TypeOK
PROPERTIES HaulSafety StopLeadsToSubmission
