SPECIFICATION Spec
CONSTANTS
  c1 = c1
  c2 = c2
  LastPort = 3
  Container = {c1}
  NoContainer = NoContainer
  Published <- OnePublished
  Listenable <- OneListenable
  Reservable = {}
  Requested <- OneRequested
  Searched <- MCSearched
  Unprivileged = 2
  DefaultStart = 2
  Failing = {}
CHECK_DEADLOCK FALSE
INVARIANTS FreeWhenSaidFree
