CONSTANTS
  Listed = 3
  MaxCpus = 4
  BootIndex = 1
  Slow = {2}
  LateStarts = TRUE
SPECIFICATION ProcessorsSpec
INVARIANT IpisAnswerable
CHECK_DEADLOCK FALSE
