SPECIFICATION LifecycleSpec
CONSTANTS
  r1 = r1
  r2 = r2
  repo = repo
  c1 = c1
  c2 = c2
  Run <- TwoRuns
  Repository <- OneRepository
  RepositoryOf <- SameRepository
  Functional <- NoFunctional
  Commit <- TwoCommits
  FirstCommit = c1
  Dimension <- OneDimension
  StageType <- EngineeringAndValidation
  AcceptanceStages <- NoStages
  LeaseTtl = 1
  RepairLimit = 1
  MaxStages = 1
INVARIANT LeaseHolder
PROPERTIES SettledStaysSettled OnlyRecoveryLeavesTheTable RivalOnlyByLateRenewal ImplementsLifecycle
SYMMETRY Symmetry
CHECK_DEADLOCK FALSE
