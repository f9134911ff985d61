CONSTANTS
  m1 = m1
  o1 = o1
  Monitor <- OneMonitor
  Command <- OneCommand
  Process <- Everyone
  Kinds   <- AllKinds
  Mishaps <- AllMishaps
  MaxCommit       = 4
  MaximumAttempts = 1
  MaximumRetries  = 1
  RepairLimit     = 1
  MaxFaults       = 1
SPECIFICATION Spec
INVARIANTS
  ApprovedRevisionPassed
  CertifiedIsMerged
  FixesAreCounted
PROPERTY
  FollowsLifecycle
CHECK_DEADLOCK FALSE
