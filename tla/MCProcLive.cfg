SPECIFICATION Both
CONSTANTS
  NPROC = 2
  CPU = {0, 1}
  MaxPid = 2
  TickMod = 2
  Calls = {"fork","exit","sleep"}
  KillArgs = {}
  SleepArgs = {1}
  ExitArgs = {0}
PROPERTIES NobodyStarves InitReaps
