SPECIFICATION Spec
CONSTANTS
  podman = podman
  n1 = n1
  NetworkName = {podman, n1}
  DefaultNetwork = {podman}
  Container = {a}
  Width = 2
  Subnet <- MCSubnet
  Interface <- MCInterface
  LocalInterface <- MCLocal
  Gateway <- MCGateway
  NoSubnet = NoSubnet
  NoGateway = NoGateway
  NoName = NoName
  CommandFaults <- AllCommandFaults
  MaxMoves = 1
CHECK_DEADLOCK FALSE
INVARIANTS TypeOK ListedWhole
PROPERTIES CreatedApart RemovedUnused
