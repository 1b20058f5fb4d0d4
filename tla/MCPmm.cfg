CONSTANTS
  c1 = c1
  c2 = c2
  FRAME_SIZE = 2
  MAX_FRAMES = 4
  WORD_BITS = 2
  U64_MAX = 10
  Mmaps <- SmallMaps
  BootRanges <- SmallRanges
  Clients <- MCClients
  Counts = {2}
  Aligns = {0, 2}
  Debug = TRUE
  Misuse = {"reinit", "early-alloc", "double-free", "out-of-range",
            "use-after-free"}
SYMMETRY Symmetric
SPECIFICATION Spec
INVARIANTS
  TypeOK
  ExclusiveOwnership
  AccountingExact
  OnlyUsableMemory
  MissedRunsCrossTheCursor
  RunsAreAligned
PROPERTY
  ImplementsFrameAllocator
CHECK_DEADLOCK FALSE
