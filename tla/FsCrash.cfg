SPECIFICATION Spec
CONSTANTS
  Name = {"d", "f", "g"}
  Top = {"d"}
  Dir = {"d"}
  Within = {"f"}
  Kinds = {"create", "mkdir", "write", "remove", "chmod"}
  Value = {0, 1}
  Total = 13
  MaxGeneration = 4
  FaultAt = {"data", "commit"}
  FaultKinds = {"create", "mkdir"}
  MaxFaults = 1
INVARIANTS NothingLiveWritten LiveBlocksMarked TreeIntact
PROPERTIES ChangesWhole CommitLands
