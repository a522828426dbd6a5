CONSTANTS
  Tasks <- SomeTasks
  maxperiod = 4
  lifeperiod = 4
  window = 8
  rerunFull = 3
  rerunEmpty = 2
  methuselah = 4
  Modulus = 32
SPECIFICATION Spec
INVARIANTS TypeOK PopseqIsHistory SomeQeriod NameHasNoPhase LifespanExact
