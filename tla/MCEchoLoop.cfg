SPECIFICATION Spec
CONSTANTS
  Keys <- MCKeys
  MAX_STROKES = 4
  RING_CAP = 4
  OUT_LEN = 2
  Faults <- AllFaults
INVARIANTS
  EchoIsWhatWasTyped
PROPERTIES
  BytesAreConserved
  RingIsServed
CHECK_DEADLOCK TRUE
