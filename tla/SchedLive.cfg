CONSTANTS
  NoThread = NoThread
  Guard = 1
  Cpu = {0}
  Boot = 0
  Worker = {"boot", "a", "b"}
  BootThread = "boot"
  Idle <- MCIdle1
  Priorities = {1}
  MayWake = {}
  Joinable = {"boot", "a"}
  MaxNow = 1
  MaxSleep = 1
SPECIFICATION FairSpec
PROPERTIES ReadyRuns WaitsEnd
