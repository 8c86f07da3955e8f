SPECIFICATION Spec
CONSTANTS
  NPROC = 2
  Callers = {1}
  NPages = 3
INVARIANT CallerFound
\* A panic stops the kernel.
CHECK_DEADLOCK FALSE
