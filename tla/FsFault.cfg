SPECIFICATION Spec
CONSTANTS
  Name = {"d", "f", "g"}
  Top = {"f", "g"}
  Dir = {}
  Within = {}
  Kinds = {"create", "write", "remove"}
  Value = {0, 1}
  Total = 12
  MaxGeneration = 5
  FaultAt = {"data"}
  FaultKinds = {"create", "write", "remove"}
  MaxFaults = 1
INVARIANTS NothingLiveWritten
