SPECIFICATION Spec
CONSTANTS
  a1 = a1
  a2 = a2
  a3 = a3
  b1 = b1
  b2 = b2
  b3 = b3
  c1 = c1
  c2 = c2
  d1 = d1
SYMMETRY Symmetric
VIEW Live
INVARIANTS RingsSafe CacheCoherent LocksExclude FilesCounted SpacesIntact
PROPERTIES ServesRequests FailureLeavesNothing
