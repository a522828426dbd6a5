CONSTANTS
  Builds = {TRUE, FALSE}
  soupsPerHaul = 2
  Inputs <- FewPatterns
  MaxFailures = 2
SPECIFICATION Spec
INVARIANTS TypeOK QuitSubmitsAll
PROPERTIES HaulSafety ReadsToTheEnd
