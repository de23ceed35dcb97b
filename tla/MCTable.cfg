SPECIFICATION Spec
CONSTANTS
  k1 = k1
  k2 = k2
  k3 = k3
  k4 = k4
  k5 = k5
  v1 = v1
  v2 = v2
  Keys = {k1, k2, k3, k4, k5}
  Values = {v1, v2}
  Hash <- HashMC
  InitCap = 4
  MaxCap = 8
  MaxCollisions = 6
  Free = Free
  Removed = Removed
  Null = Null
  Done = Done
  Failed = Failed
SYMMETRY HashSymmetry
INVARIANTS TypeOK Reachable Counters
PROPERTIES ImplementsMap
