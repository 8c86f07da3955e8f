SPECIFICATION Progress
CONSTANTS
  p1 = p1
  p2 = p2
  p3 = p3
  b1 = b1
  b2 = b2
  nobody = nobody
  Procs = {p1, p2, p3}
  Writers = {p1}
  Readers <- TwoReaders
  Bytes = {0}
  PIPESIZE = 2
  CountMod = 4
  Sizes = {1, 3}
PROPERTIES CallsReturn DevicesServe ProgramsGoOn
