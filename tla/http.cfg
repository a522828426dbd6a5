CONSTANTS
  Exchanges <- SomeAnswers
  BufSize = 4
  Cuts = {TRUE, FALSE}
SPECIFICATION FairSpec
INVARIANTS TypeOK AllBytesUsed
PROPERTIES ExchangeSafety PollingEnds
