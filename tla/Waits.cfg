CONSTANTS
  Cpu = {1, 2}
  Context <- MCContext
  CpuOf <- MCCpuOf
  Handler = {"h1", "h2"}
  Lock = {1}
  MaxTicket = 3
  Thread = {"a", "b", "c"}
  IoThread = {"a", "b"}
  Slot = {"a", "b", "c"}
  NoThread = NoThread
  CanSleep = {"a", "c"}
  MaxQueued = 3
  Sender = "a"
  Receiver = "b"
  Slots = 2
  Modulus = 4
  Value = {1}
  MayWake = {}
SPECIFICATION WaitsSpec
PROPERTIES
  ServedInOrder
  TicketServed
  
  RingDrained
CHECK_DEADLOCK FALSE
