SPECIFICATION Spec
CONSTANTS
  v1 = v1
  v2 = v2
  Values = {v1, v2}
  InitCap = 2
  MaxLen = 5
  Junk = Junk
  Null = Null
  Done = Done
  NoMem = NoMem
INVARIANTS TypeOK Consistent IterSound
PROPERTIES ImplementsDeque
