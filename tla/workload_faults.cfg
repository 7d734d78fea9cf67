SPECIFICATION WorkloadsSpec
CONSTANTS
  c1 = c1
  n1 = n1
  n2 = n2
  Name = {n1, n2}
  Op = {o1}
  ContainerId = {c1, c2, c3}
  Deployment = {d1, d2}
  NoId = NoId
  NoName = NoName
  NoSpec = NoSpec
  Unmanaged = Unmanaged
  Backup <- MCBackup
  Home <- MCHome
  Lost = {n2}
  Replayable = {d1, d2}
  PortsOf <- MCPortsOf
  Kinds = {"mutate", "deploy", "adopt", "create", "delete", "remove"}
  Faults <- AllFaults
  LateFaults <- NoLateCreate
  Ambient = {"exit", "start", "pause"}
  PollAttempts = 2
  Serial = TRUE
CHECK_DEADLOCK FALSE
INVARIANTS WorkloadsTypeOK OrphansAccountedFor SettledAsStored FilesAccountedFor
PROPERTIES DisposesOnlyOfItsOwn ReportsTruthful
SYMMETRY Interchangeable
