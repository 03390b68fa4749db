CONSTANTS
  Modulus = 16
  Starts = {15}
  Writers = {"a"}
  MaxBytes = 1
SPECIFICATION TcpSpec
INVARIANT AnswersReachPeer
CHECK_DEADLOCK FALSE
