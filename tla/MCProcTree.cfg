SPECIFICATION Spec
CONSTANTS
  NPROC = 3
  CPU = {1, 2}
  MaxPid = 3
  TickMod = 2
  Calls <- TreeCalls
  KillArgs = {2}
  SleepArgs = {1}
  ExitArgs = {0}
INVARIANTS StackOwned PanicFree LockOrder ParentAlive NoLostExit PidUnique
PROPERTY ReapSafe
