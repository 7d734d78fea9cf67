SPECIFICATION Spec
CONSTANTS
  c1 = c1
  c2 = c2
  LastPort = 4
  Container = {c1, c2}
  NoContainer = NoContainer
  Published <- MCPublished
  NameOf <- MCNameOf
  Proxy = "rootlessport"
  Listenable <- MCListenable
  Declarable <- MCDeclarable
  Failing = {"podman", "ss"}
  MaxMoves = 2
  Setting <- MCSetting
  Default <- MCDefault
  Unreadable = Unreadable
CHECK_DEADLOCK FALSE
INVARIANTS TypeOK  FreeIsFree EveryEntryShown SocketsAccountedFor ContainerConflictsShown
