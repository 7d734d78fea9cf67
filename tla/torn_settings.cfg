SPECIFICATION Spec
CONSTANTS
  Saver = {s1, s2}
  Setting = {v1, v2}
  Default = v1
  Old = Old
  NoFile = NoFile
  SaveFaults = {}
  OneSaver = FALSE
CHECK_DEADLOCK FALSE
INVARIANTS ConfigWhole
