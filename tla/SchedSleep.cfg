CONSTANTS
  NoThread = NoThread
  Guard = 1
  Cpu = {0, 1}
  Boot = 0
  Worker = {"boot", "a"}
  BootThread = "boot"
  Idle <- MCIdle2
  Priorities = {1, 2}
  MayWake = {}
  Joinable = {"boot", "a"}
  MaxNow = 2
  MaxSleep = 1
SPECIFICATION Spec
INVARIANTS
  JoinWaits
  SleepIsAFloor
  NextWakeCoversSleepers
