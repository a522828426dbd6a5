CONSTANTS
  Universes <- AllUniverses
  warmup = 1
  Samples = 24
  securityAt <- Securities
  periodAt <- Periods
  Hashes = 12
  Stride = 2
  Repetitions = 3
  Fallback = 6
SPECIFICATION Spec
INVARIANTS TypeOK DepthBelowSecurity SteadyPopulation StackAscends StackIsHistory FoundBySecondLap FindsCycle
