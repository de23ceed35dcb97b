SPECIFICATION Spec
CONSTANTS
  b1 = b1
  b2 = b2
  Bytes = {b1, b2}
  Buffers <- BuffersMC
  Sizes <- SizesMC
  InitCap = 3
  MaxLen = 5
  Junk = Junk
INVARIANTS TypeOK Consistent
PROPERTIES ImplementsByteQueue
