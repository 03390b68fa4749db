CONSTANTS
  Thread = {"a", "b"}
  Sender = "a"
  Receiver = "b"
  Slots = 2
  Modulus = 4
  Value = {1, 2}
  MayWake = {"a", "b"}
  Handler = {"h", "i"}
  MaxEndpoint = 1
  Capacity = 2
  Quota <- MCQuota
  Passed = {{"SEND", "RECEIVE"}}
  Delays = {1}
  IrqHolder = {"a"}
  MaxNow = 1
  MayStray = {"b"}
  Poller = {"p", "q"}
  InputCapacity = 3
  FifoDepth = 2
  Limits = {1, 2}
  NoThread = NoThread
  Guard = 4
  Task = {t1}
  MaxQueue = 2
  HeapSize = 12
  NodeSize = 2
  Layouts <- MCLayouts
  MaxLive = 4
  MemoryMaps <- MCMemoryMaps
  PageUnits = 2
  FramesPerUnit = 3
  LowFrames = 1
  Runs = {0, 2, 3}
  Cpu = {1, 2, 3}
  Worker = {1, 2}
  MaxStacks = 2
  StackPages = 1
  MaxFrame = 3
  Process = {"a", "b"}
  DisplayServer = {"a"}
  BufferId = {1}
  RingId = {1}
  PoolFrame = {1, 2}
  Screen = 9
  BufferQuota = 1
  TableCpu = {1, 2}
  TableFrame = {1, 2, 3}
  SmallPage <- MCSmallPage
  WindowPage <- MCWindowPage
  DevicePage <- MCDevicePage
  SpaceCpu = {1, 2}
  SpaceThread = {"a", "b", "c"}
  MaxSlots = 2
  SpaceFrame = {1}
  Listed = 5
  MaxCpus = 4
  BootIndex = 1
  Slow = {4}
  LateStarts = FALSE
  AddressLimit = 16
  PageBytes = 2
  RegionStart = 4
  RegionEnd = 12
  ElfStackPages = 1
  Images <- MCImages
SPECIFICATION KernelSpec
INVARIANTS
  DataWakes
  MessagesArrive
  BoundedWait
  
  StacksFlushed
  SharedSound
  
  ProcessorsSplit
  ProgramsSound
 
CHECK_DEADLOCK FALSE
