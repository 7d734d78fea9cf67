SPECIFICATION Spec
CONSTANTS
  c1 = c1
  n1 = n1
  Name = {n1}
  Op = {o1}
  ContainerId = {c1, c2, c3}
  Deployment = {d1, d2}
  NoId = NoId
  NoName = NoName
  NoSpec = NoSpec
  Unmanaged = Unmanaged
  Backup <- MCBackup
  Home <- OneHome
  Faults <- AllFaults
  LateFaults <- AllLateFaults
  Ambient = {"exit", "start", "pause", "foreign"}
  PollAttempts = 2
  Serial = TRUE
CHECK_DEADLOCK FALSE
INVARIANTS TypeOK IInv OriginalKept SpecBacked CandidateSettled
PROPERTIES RollbackTruthful SuccessTruthful
SYMMETRY Interchangeable
