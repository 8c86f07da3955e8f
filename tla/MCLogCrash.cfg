SPECIFICATION Spec
CONSTANTS
  Threads = {t1, t2}
  Blocks = {b1, b2, b3}
  Vals = {0, 1}
  InitVal = 0
  MAXOPBLOCKS = 2
  LOGSIZE = 4
  LogBlocks = 4
  MaxOps = 3
  MaxCrashes = 2
INVARIANTS CommitAlone LogFits DirtyPinned CommitDurable
PROPERTY Transactions
