CONSTANTS
  m1 = m1
  o1 = o1
  Monitor <- OneMonitor
  Command <- OneCommand
  Process <- Everyone
  Kinds   = { "FUNCTIONAL" }
  Mishaps = { "NOTHING", "ERROR", "CRASH", "LIMIT", "OPERATOR" }
  MaxCommit       = 3
  MaximumAttempts = 1
  MaximumRetries  = 1
  RepairLimit     = 1
  MaxFaults       = 1
SPECIFICATION FairSpec
PROPERTIES
  ValidationEnds
  ResultsAreHonoured
CHECK_DEADLOCK FALSE
