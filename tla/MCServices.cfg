SPECIFICATION Services
CONSTANTS
  Heads = {h1, h2}
  Nodes = {n1, n2, n3, n4}
  p1 = p1
  p2 = p2
  q1 = q1
  q2 = q2
  nobody = nobody
SYMMETRY Symmetric
VIEW Relevant
INVARIANTS
    FilesExact ImageReadsBack CopiesExact
  CharsInOrder ParsesTheGrammar CommandsRun HeapPartitioned
PROPERTIES LineDiscipline QueueSpec
