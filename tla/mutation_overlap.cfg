SPECIFICATION Spec
CONSTANTS
  c1 = c1
  n1 = n1
  Name = {n1}
  Op = {o1, o2}
  ContainerId = {c1, c2, c3}
  Deployment = {d1, d2}
  NoId = NoId
  NoName = NoName
  NoSpec = NoSpec
  Unmanaged = Unmanaged
  Backup <- MCBackup
  Home <- OneHome
  Faults = {"rename", "stop", "start", "rm", "create", "drift", "health", "candidate", "commit", "arguments"}
  LateFaults = {}
  Ambient = {}
  PollAttempts = 1
  Serial = FALSE
CHECK_DEADLOCK FALSE
INVARIANTS NeverBothRunning
PROPERTIES RollbackTruthful
SYMMETRY Interchangeable
