CONSTANTS
  Exchanges <- EmptyAnswers
  BufSize = 8
  Cuts = {FALSE}
SPECIFICATION Spec
INVARIANTS OnlyCutsThrow
