SPECIFICATION Spec
CONSTANTS
  Keys <- BothOfEach
  ROLLOVER = 4
INVARIANTS
  StrokeIsOneEvent
