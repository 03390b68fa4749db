CONSTANTS
  NoThread = NoThread
  Guard = 1
  Cpu = {0, 1}
  Boot = 0
  Worker = {"boot", "a", "b"}
  BootThread = "boot"
  Idle <- MCIdle2
  Priorities = {1}
  MayWake = {"a"}
  Joinable = {}
  MaxNow = 0
  MaxSleep = 0
SPECIFICATION Spec
INVARIANTS
  OneCpuPerStack
  QueuedOnceAndRunnable
  ReadyNotLost
  NoStackFreedInUse
PROPERTY ImplementsParking
