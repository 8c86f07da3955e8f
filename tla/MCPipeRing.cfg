SPECIFICATION Spec
CONSTANTS
  p1 = p1
  p2 = p2
  p3 = p3
  Procs = {p1, p2, p3}
  Writers <- TwoWriters
  Readers = {p3}
  Bytes = {0, 1}
  PIPESIZE = 2
  CountMod = 4
  Sizes = {1, 3}
CHECK_DEADLOCK FALSE
INVARIANTS SleepersWoken FreedLast
PROPERTY BytesInOrder
