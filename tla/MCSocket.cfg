SPECIFICATION FairSpec
CONSTANTS
  m1 = m1
  m2 = m2
  m3 = m3
  Msgs = {m1, m2, m3}
  JsonLen <- JsonLenMC
  BinLen <- BinLenMC
  LenMod = 16
  Len7 = 5
  Len16 = 6
  Masks = {0}
  MaxMsgs = 2
  NoMemory = TRUE
INVARIANTS TypeOK InOrder NoneStuck IntactUntilTorn
PROPERTIES AllDelivered
CHECK_DEADLOCK FALSE
