SPECIFICATION Spec
CONSTANTS
  NPROC = 2
  CPU = {1}
  MaxPid = 3
  TickMod = 2
  Calls = {"fork","exit","kill"}
  KillArgs = {0}
  SleepArgs = {}
  ExitArgs = {0}
PROPERTY FreshNotKilled
