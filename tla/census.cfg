CONSTANTS
  Codes = {"xs", "yl", "zz", "PATHOLOGICAL"}
  kind <- Kinds
  Specials = {"methuselah"}
  Tallies <- SomeTallies
  Soups = 3
  size <- Sizes
  StandardLife = TRUE
  MaxListed = 2
  MaxCount = 3
  MaxPenalty = 5
SPECIFICATION Spec
INVARIANTS TypeOK CountedOnce ListsSound ReportedIsListed
