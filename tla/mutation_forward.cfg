SPECIFICATION FairSpec
CONSTANTS
  c1 = c1
  n1 = n1
  Name = {n1}
  Op = {o1, o2}
  ContainerId = {c1, c2, c3, c4}
  Deployment = {d1, d2}
  NoId = NoId
  NoName = NoName
  NoSpec = NoSpec
  Unmanaged = Unmanaged
  Backup <- MCBackup
  Home <- OneHome
  Faults = {"stop", "create", "drift", "health", "candidate", "commit", "arguments"}
  LateFaults = {"stop", "start", "create", "rm"}
  Ambient = {}
  PollAttempts = 2
  Serial = TRUE
CHECK_DEADLOCK FALSE
INVARIANTS ServesAsStored NeverBothRunning
PROPERTIES Returns
