SPECIFICATION Spec
CONSTANTS
  Saver = {s1, s2}
  Setting = {v1, v2, v3}
  Default = v1
  Old = Old
  NoFile = NoFile
  SaveFaults = {"open", "write", "rename"}
  OneSaver = TRUE
CHECK_DEADLOCK FALSE
INVARIANTS ConfigWhole
PROPERTIES SaveTruthful
