SPECIFICATION Spec
CONSTANTS
  r1 = r1
  r2 = r2
  repo = repo
  c1 = c1
  c2 = c2
  Run <- OneRun
  Repository <- OneRepository
  RepositoryOf <- SameRepository
  Functional <- AllFunctional
  Commit <- TwoCommits
  FirstCommit = c1
  Dimension <- PreviewPolicy
  StageType <- KernelStages
  AcceptanceStages <- AcceptanceOnly
  LeaseTtl = 1
  RepairLimit = 1
  MaxStages = 2
INVARIANT FunctionalStagesComplete
PROPERTIES CertifiedOnExactRevision CompletedStagesStay
CHECK_DEADLOCK FALSE
