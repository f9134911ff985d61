SPECIFICATION AcceptanceFairSpec
CONSTANTS
  r = r
  repo = repo
  c1 = c1
  c2 = c2
  Run <- OneRun
  Repository <- OneRepository
  RepositoryOf <- SameRepository
  Functional <- OneRun
  Target = r
  Commit <- TwoCommits
  FirstCommit = c1
  Dimension <- OneDimension
  StageType <- AllStageTypes
  AcceptanceStages <- LocalStages
  HasNative = TRUE
  LeaseTtl = 1
  RepairLimit = 2
  MaxStages = 24
  MaxLaunches = 2
  MaxMishaps = 1
INVARIANTS EvidenceIsExact CompletedMeansDone
PROPERTIES NoRunIsLeftUnderway VerificationEnds
CHECK_DEADLOCK FALSE
