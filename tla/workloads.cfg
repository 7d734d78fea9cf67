SPECIFICATION WorkloadsSpec
CONSTANTS
  c1 = c1
  n1 = n1
  n2 = n2
  Name = {n1, n2}
  Op = {o1, o2}
  ContainerId = {c1,c2,c3,c4}
  Deployment = {d1, d2}
  NoId = NoId
  NoName = NoName
  NoSpec = NoSpec
  Unmanaged = Unmanaged
  Backup <- MCBackup
  Home <- MCHome
  Lost = {}
  Replayable = {d1, d2}
  PortsOf <- MCPortsOf
  Kinds = {"mutate", "deploy", "adopt", "create", "delete"}
  Faults <- NoListFaults
  LateFaults <- AllLateFaults
  Ambient = {}
  PollAttempts = 1
  Serial = TRUE
CHECK_DEADLOCK FALSE
INVARIANTS OrphansAccountedFor SettledAsStored
PROPERTIES ImplementsStore ReportsTruthful
SYMMETRY Interchangeable
