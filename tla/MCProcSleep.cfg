SPECIFICATION Spec
CONSTANTS
  NPROC = 2
  CPU = {0, 1}
  MaxPid = 2
  TickMod = 4
  Calls <- SleepCalls
  KillArgs = {2}
  SleepArgs <- MCSleepArgs
  ExitArgs = {0}
INVARIANT NoLostTick
PROPERTY SleepFull
