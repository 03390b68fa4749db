CONSTANTS
  Thread = {"a", "b", "c"}
  Slot = {"a", "b", "c"}
  NoThread = NoThread
  CanSleep = {"a", "b", "c"}
  MaxQueued = 4
SPECIFICATION IoSpec
INVARIANT NoGap
