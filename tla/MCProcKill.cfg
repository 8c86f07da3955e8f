SPECIFICATION Spec
CONSTANTS
  NPROC = 3
  CPU = {1, 2}
  MaxPid = 3
  TickMod = 2
  Calls = {"fork","wait","kill"}
  KillArgs = {2}
  SleepArgs = {}
  ExitArgs = {}
INVARIANT KillWakes
