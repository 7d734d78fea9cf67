SPECIFICATION Spec
CONSTANTS
  c1 = c1
  c2 = c2
  LastPort = 4
  Container = {c1, c2}
  NoContainer = NoContainer
  Published <- MCPublished
  Listenable <- MCListenable
  Reservable <- MCReservable
  Requested <- MCRequested
  Searched <- MCSearched
  Unprivileged = 2
  DefaultStart = 2
  Failing = {"podman", "ss", "registry"}
CHECK_DEADLOCK FALSE
INVARIANTS TypeOK PassedIsFree NotInItsOwnWay AcceptedTogether FoundIsFree
