SPECIFICATION RunnerSpec
CONSTANTS
  r1 = r1
  r2 = r2
  repo = repo
  c1 = c1
  m1 = m1
  m2 = m2
  m3 = m3
  p1 = p1
  p2 = p2
  Run <- TwoRuns
  Repository <- OneRepository
  RepositoryOf <- SameRepository
  Functional <- NoFunctional
  Commit <- OneCommit
  FirstCommit = c1
  Dimension <- OneDimension
  StageType <- EngineeringAndValidation
  AcceptanceStages <- NoStages
  LeaseTtl = 1
  RepairLimit = 0
  MaxStages = 2
  Order <- ThreeMissions
  Requires <- SecondNeedsFirst
  ApprovalRequired <- FirstIsGated
  Process <- TwoProcesses
INVARIANT OneExecutor
SYMMETRY Symmetry
CHECK_DEADLOCK FALSE
