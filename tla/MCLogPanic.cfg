SPECIFICATION Spec
CONSTANTS
  Threads = {t1, t2, t3}
  Blocks = {b1, b2, b3}
  Vals = {0}
  InitVal = 0
  MAXOPBLOCKS = 1
  LOGSIZE = 3
  LogBlocks = 3
  MaxOps = 3
  MaxCrashes = 0
INVARIANT NoLogPanic
