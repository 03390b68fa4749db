CONSTANTS
  Cpu = {1, 2}
  Context <- MCContext
  CpuOf <- MCCpuOf
  Handler = {"h1", "h2"}
  Lock = {1, 2}
  MaxTicket = 3
  Thread = {"a", "b", "c", "p"}
  CanSleep = {"a", "b", "c"}
  MaxQueued = 4
  Sleepers = {"a", "b", "c"}
  SlotCount = 2
  NvmeSlot = {"s", "t"}
  QueueEntries = 3
  AhciSlot = {0, 1}
  BlkSlot = {"s", "t"}
  QueueSize = 8
  IndexModulus = 16
  Word = 8
  DiskSectors = 6
  MaxRequest = 2
  CrashCpu = {1, 2}
  TextSector = {"t1", "t2"}
  MaxReports = 2
  ReceiveBuffer = {"x", "y"}
  NicCapacity = 2
  NicDrainLimit = 2
  MaxArrivals = 4
  MaxSends = 2
  Modulus = 16
  Starts = {15}
  Writers = {"a"}
  MaxBytes = 2
  Neighbour = {"x", "y", "g"}
  Gateway = "g"
  ArpEntries = 2
  WaitingFrames = 2
  MaxFrames = 3
  MaxMac = 1
  Server = {"s", "t"}
  ConfigWaiters = 1
  Resolvers = 1
  DnsTries = 2
  Solicitations = 2
  MaxLookups = 2
  MaxTransaction = 2
  Buffer = {"p", "q", "r", "s"}
  Mappings = 3
  Port = {1}
  EndpointCapacity = 2
  DrainLimit = 2
  MaxWire = 3
  MaxPresses = 5
  Width = 5
  Tile = 2
  CursorWidth = 1
  SurfaceWidth <- MCSurfaceWidth
  MaxSurfaces = 2
  Places = {0, 3}
  Depths = {0, 1}
  MaxZ = 2
SPECIFICATION DevicesSpec
INVARIANTS
  MutualExclusion
  HolderNotPreempted
  SleepersSound
  DisksAnswer
  
  CardSound
  StreamsIntact
  
  BuffersStayMapped
  KeysArrive
  
CHECK_DEADLOCK FALSE
