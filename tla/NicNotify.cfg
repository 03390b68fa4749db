CONSTANTS
  ReceiveBuffer = {"x", "y"}
  QueueSize = 8
  IndexModulus = 16
  NicCapacity = 2
  NicDrainLimit = 2
  MaxArrivals = 4
  MaxSends = 2
SPECIFICATION NicSpec
INVARIANT FramesNotStranded
CHECK_DEADLOCK FALSE
