CONSTANTS
  CommandLines <- Launches
  Words <- AllWords
  atoi <- Atoi
  DoubleDashed <- Dashed
  sanirule <- Canonical
  Invalid = "no rule"
  Symmetries = {"C1", "G1", "D2", "H2", "stdin"}
  StdinSymmetries = {"stdin"}
  GpuSymmetries = {"G1", "H2"}
  gpuForm <- ForG
  DefaultHaul = 20
  GpuHaul = 28
  StdinHaul = 5
  LeastPrompted = 20
  MaxHaul = 24
  GpuEpoch = 4
  Prompted = {7, 22}
  PromptedKeys = {"#anon", "me"}
  DefaultReviews = 1
  HpcThreads = 6
  Conditions <- Mixed
  MaxFailures = 4
  MaxSearches = 2
SPECIFICATION FairSpec
INVARIANTS TypeOK TokenUsable UploadsExactly UploadedIsLogged RunsAsAsked RebuiltOnce
PROPERTIES HaulsGrow HaulIsUploaded
