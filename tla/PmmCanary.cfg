CONSTANTS
  c1 = c1
  c2 = c2
  FRAME_SIZE = 1
  MAX_FRAMES = 4
  WORD_BITS = 2
  U64_MAX = 10
  Mmaps <- FlatMap
  BootRanges = {}
  Clients <- MCClients
  Counts = {2}
  Aligns = {1}
  Debug = TRUE
  Misuse = {}
SYMMETRY Symmetric
SPECIFICATION Spec
INVARIANT
  CanaryPanicMeansUseAfterFree
CHECK_DEADLOCK FALSE
