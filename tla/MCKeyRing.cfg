SPECIFICATION Spec
CONSTANTS
  b1 = b1
  b2 = b2
  none = none
  RING_CAP = 4
  Byte <- MCByte
  NoByte <- none
  COUNT_MODULUS = 3
INVARIANTS
  StoreHitsAFreeSlot
  PendingNeverOverstates
PROPERTY ImplementsFifo
